------------------------------ MODULE DateTime ------------------------------
(***************************************************************************)
(* contracts/contracts/DateTime.sol: the timestamp of a calendar date, by  *)
(* adding up years, months and days.  A timestamp is kept as its days and  *)
(* the seconds on top, since the days of a few decades are all that TLC's  *)
(* integers hold in seconds.                                               *)
(***************************************************************************)
EXTENDS Integers, FiniteSets

\* Mutant: every century is leap.
isLeapYearJulian(year) == year % 4 = 0

isLeapYear(year) == year % 4 = 0 /\ (year % 100 # 0 \/ year % 400 = 0)

monthDayCounts(year) ==
  <<31, IF isLeapYear(year) THEN 29 ELSE 28, 31, 30, 31, 30, 31, 31, 30, 31, 30, 31>>

\* The days of the year before a month.
daysBefore(year) ==
  LET days[month \in 1..12] ==
        IF month = 1 THEN 0 ELSE days[month - 1] + monthDayCounts(year)[month - 1]
  IN  days

toTimestamp(year, month, day, hour, minute, second) ==
  [days |-> 365 * (year - 1970)
            + Cardinality({y \in 1970..(year - 1) : isLeapYear(y)})
            + daysBefore(year)[month]
            + (day - 1),
   seconds |-> 3600 * hour + 60 * minute + second]
=============================================================================
