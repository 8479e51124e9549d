-------------------------- MODULE SiweParserProofs --------------------------
(***************************************************************************)
(* The fields of any sign-in message are found, whole or without its last  *)
(* new line.  A message is read from its front: after each field, what is  *)
(* left to read is the text of the fields that follow, and of these only   *)
(* the first name matters.  The list of resources is a recursive function  *)
(* of the place it starts at; that it exists is proved by descent.         *)
(***************************************************************************)
EXTENDS EncodingsProofs

-----------------------------------------------------------------------------
(***************************************************************************)
(* Sign-in messages, of any characters.  A place in a message is told by   *)
(* what is left of the message from there on.                              *)
(***************************************************************************)

At(str, rest) == Len(str) - Len(rest)
Left(str, rest) ==
  Len(rest) <= Len(str) /\ \A k \in 1..Len(rest) : str[At(str, rest) + k] = rest[k]
Without(value, c) == \A k \in 1..Len(value) : value[k] # c

LEMMA TextsJoined ==
  ASSUME NEW s, NEW t, Listed(s), Listed(t)
  PROVE  /\ Listed(Chained(s, t)) /\ Len(Chained(s, t)) = Len(s) + Len(t)
         /\ Len(s) \in Nat /\ Len(t) \in Nat
         /\ \A i \in 1..Len(s) : Chained(s, t)[i] = s[i]
         /\ \A i \in 1..Len(t) : Chained(s, t)[Len(s) + i] = t[i]
<1>1. PICK S : s \in Seq(S)
  BY DEF Listed
<1>2. PICK T : t \in Seq(T)
  BY DEF Listed
<1> DEFINE V == S \cup T
<1>3. s \in Seq(V) /\ t \in Seq(V)
  <2>1. S \subseteq V /\ T \subseteq V
    OBVIOUS
  <2> HIDE DEF V
  <2>. QED BY <1>1, <1>2, <2>1
<1> HIDE DEF V
<1>4. /\ s \o t \in Seq(V) /\ Len(s \o t) = Len(s) + Len(t)
      /\ Len(s) \in Nat /\ Len(t) \in Nat
      /\ \A i \in 1..Len(s) : (s \o t)[i] = s[i]
      /\ \A i \in 1..Len(t) : (s \o t)[Len(s) + i] = t[i]
  BY <1>3
<1>. QED BY <1>4 DEF Chained, Listed

LEMMA LengthOfText ==
  ASSUME NEW s, Listed(s)
  PROVE  Len(s) \in Nat /\ (s = << >> <=> Len(s) = 0)
BY DEF Listed

LEMMA SameText ==
  ASSUME NEW s, NEW t, Listed(s), Listed(t), Len(s) = Len(t), \A i \in 1..Len(t) : s[i] = t[i]
  PROVE  s = t
<1>1. PICK S : s \in Seq(S)
  BY DEF Listed
<1>2. PICK T : t \in Seq(T)
  BY DEF Listed
<1> DEFINE V == S \cup T
<1>3. s \in Seq(V) /\ t \in Seq(V)
  <2>1. S \subseteq V /\ T \subseteq V
    OBVIOUS
  <2> HIDE DEF V
  <2>. QED BY <1>1, <1>2, <2>1
<1> HIDE DEF V
<1>. QED BY <1>3, SeqEqual

LEMMA LeftAll ==
  ASSUME NEW str, Listed(str)
  PROVE  Left(str, str) /\ At(str, str) = 0
<1>1. Len(str) \in Nat
  BY LengthOfText
<1>2. At(str, str) = 0 /\ \A k \in 1..Len(str) : 0 + k = k
  BY <1>1 DEF At
<1>. QED BY <1>1, <1>2 DEF Left

\* Past a part of what is left, the rest of it is left.
LEMMA LeftAfter ==
  ASSUME NEW str, Listed(str), NEW part, Listed(part), NEW rest, Listed(rest),
         NEW whole, whole = Chained(part, rest), Left(str, whole)
  PROVE  /\ Left(str, rest) /\ At(str, rest) = At(str, whole) + Len(part)
         /\ At(str, whole) \in Nat /\ At(str, rest) \in Nat /\ Len(str) = At(str, rest) + Len(rest)
         /\ \A k \in 1..Len(part) : str[At(str, whole) + k] = part[k]
<1>1. /\ Listed(whole) /\ Len(whole) = Len(part) + Len(rest) /\ Len(part) \in Nat /\ Len(rest) \in Nat
      /\ \A i \in 1..Len(part) : whole[i] = part[i]
      /\ \A i \in 1..Len(rest) : whole[Len(part) + i] = rest[i]
  BY TextsJoined
<1>2. Len(str) \in Nat /\ Len(whole) <= Len(str)
  BY LengthOfText DEF Left
<1> DEFINE at == At(str, whole)
           next == At(str, rest)
           n == Len(part)
           m == Len(rest)
<1>3. at = Len(str) - Len(whole) /\ next = Len(str) - m
  BY DEF At
<1>4. at \in Nat /\ next \in Nat /\ next = at + n /\ m <= Len(str) /\ Len(str) = next + m
  <2> HIDE DEF at, next, n, m
  <2>. QED BY <1>1, <1>2, <1>3 DEF n, m
<1>5. \A k \in 1..Len(whole) : str[at + k] = whole[k]
  BY DEF Left
<1> HIDE DEF at, next
<1>6. ASSUME NEW k \in 1..n PROVE str[at + k] = part[k]
  <2>1. k \in 1..Len(whole)
    BY <1>1
  <2>. QED BY <1>1, <1>5, <2>1
<1>7. ASSUME NEW k \in 1..m PROVE str[next + k] = rest[k]
  <2>1. n + k \in 1..Len(whole) /\ at + (n + k) = next + k
    BY <1>1, <1>4
  <2>2. str[at + (n + k)] = whole[n + k] /\ whole[n + k] = rest[k]
    BY <1>1, <1>5, <2>1
  <2>. QED BY <2>1, <2>2
<1>8. Left(str, rest)
  BY <1>4, <1>7 DEF Left, next
<1>. QED BY <1>4, <1>6, <1>8 DEF at, next

\* The first character of a kind from a place on.
LEMMA FindFirst ==
  ASSUME NEW str, Len(str) \in Nat, NEW i \in Nat, NEW j \in Nat, i <= j, j < Len(str), NEW c, str[j + 1] = c,
         \A m \in i..(j - 1) : str[m + 1] # c
  PROVE  Find(str, i, c) = j
<1> DEFINE n == Len(str)
           end == Max({i, n})
           S == {m \in i..(n - 1) : str[m + 1] = c} \cup {end}
<1>1. n \in Nat /\ j \in i..(n - 1)
  OBVIOUS
<1>2. end = n
  <2>1. n \in {i, n} /\ \A x \in {i, n} : n >= x
    BY <1>1
  <2>2. end \in {i, n} /\ \A x \in {i, n} : end >= x
    BY <2>1 DEF Max
  <2> HIDE DEF end
  <2>3. end >= n /\ n >= end /\ end \in Nat
    BY <1>1, <2>1, <2>2
  <2>. QED BY <1>1, <2>3
<1> HIDE DEF end
<1>3. j \in S /\ \A x \in S : x \in Nat /\ j <= x
  <2>1. j \in S
    BY <1>1
  <2>2. ASSUME NEW x \in S PROVE x \in Nat /\ j <= x
    <3>1. CASE x = end
      BY <1>1, <1>2, <3>1
    <3>2. CASE x # end
      <4>1. x \in i..(n - 1) /\ str[x + 1] = c
        BY <3>2
      <4>2. x \notin i..(j - 1)
        BY <4>1
      <4>. QED BY <1>1, <4>1, <4>2
    <3>. QED BY <3>1, <3>2
  <2>. QED BY <2>1, <2>2
<1>4. Find(str, i, c) = Min(S)
  BY DEF Find, end
<1> HIDE DEF S
<1>5. Min(S) \in S /\ \A x \in S : Min(S) <= x
  BY <1>3 DEF Min
<1>6. Min(S) \in Nat /\ j <= Min(S) /\ Min(S) <= j
  BY <1>3, <1>5
<1>7. Min(S) = j
  <2> DEFINE least == Min(S)
  <2>1. least \in Nat /\ j <= least /\ least <= j
    BY <1>6
  <2> HIDE DEF least
  <2>2. least = j
    BY <2>1
  <2>. QED BY <2>2 DEF least
<1>. QED BY <1>4, <1>7

LEMMA FindNone ==
  ASSUME NEW str, Len(str) \in Nat, NEW i \in Nat, i <= Len(str), NEW c,
         \A m \in i..(Len(str) - 1) : str[m + 1] # c
  PROVE  Find(str, i, c) = Len(str)
<1> DEFINE n == Len(str)
           end == Max({i, n})
           S == {m \in i..(n - 1) : str[m + 1] = c} \cup {end}
<1>1. n \in Nat
  OBVIOUS
<1>2. end = n
  <2>1. n \in {i, n} /\ \A x \in {i, n} : n >= x
    BY <1>1
  <2>2. end \in {i, n} /\ \A x \in {i, n} : end >= x
    BY <2>1 DEF Max
  <2> HIDE DEF end
  <2>3. end >= n /\ n >= end /\ end \in Nat
    BY <1>1, <2>1, <2>2
  <2>. QED BY <1>1, <2>3
<1> HIDE DEF end
<1>3. S = {n}
  BY <1>2
<1>4. Find(str, i, c) = Min({n})
  BY <1>3 DEF Find, end
<1>5. Min({n}) = n
  <2>1. n \in {n} /\ \A x \in {n} : n <= x
    BY <1>1
  <2>2. Min({n}) \in {n}
    BY <2>1 DEF Min
  <2>. QED BY <2>2
<1>. QED BY <1>4, <1>5

\* It is never before the place.
LEMMA FindAhead ==
  ASSUME NEW str, Len(str) \in Nat, NEW i \in Nat, NEW c
  PROVE  Find(str, i, c) \in Nat /\ Find(str, i, c) >= i
<1>1. CASE i <= Len(str) /\ \A m \in i..(Len(str) - 1) : str[m + 1] # c
  <2>1. Find(str, i, c) = Len(str)
    BY <1>1, FindNone
  <2>. QED BY <1>1, <2>1
<1>2. CASE \E m \in i..(Len(str) - 1) : str[m + 1] = c
  <2> DEFINE S == {m \in i..(Len(str) - 1) : str[m + 1] = c}
  <2>1. S \in SUBSET Nat /\ S # {}
    <3>1. PICK m \in i..(Len(str) - 1) : str[m + 1] = c
      BY <1>2
    <3>2. m \in S /\ i..(Len(str) - 1) \in SUBSET Nat
      BY <3>1
    <3>3. S \in SUBSET (i..(Len(str) - 1))
      OBVIOUS
    <3> HIDE DEF S
    <3>. QED BY <3>2, <3>3
  <2>2. PICK j \in S : \A m \in S : j <= m
    <3> HIDE DEF S
    <3>. QED BY <2>1, Smallest
  <2>3. j \in Nat /\ i <= j /\ j < Len(str) /\ str[j + 1] = c
    BY <2>2
  <2>4. ASSUME NEW m \in i..(j - 1) PROVE str[m + 1] # c
    <3>1. m \in i..(Len(str) - 1) /\ ~ (j <= m)
      BY <2>3
    <3>. QED BY <2>2, <3>1
  <2>5. Find(str, i, c) = j
    BY <2>3, <2>4, FindFirst
  <2>. QED BY <2>3, <2>5
<1>3. CASE ~ (i <= Len(str))
  <2> DEFINE n == Len(str)
             end == Max({i, n})
  <2>1. i \in {i, n} /\ \A x \in {i, n} : i >= x
    BY <1>3
  <2>2. end \in {i, n} /\ \A x \in {i, n} : end >= x
    BY <2>1 DEF Max
  <2> HIDE DEF end
  <2>3. end = i
    BY <1>3, <2>2
  <2>4. {m \in i..(n - 1) : str[m + 1] = c} \cup {end} = {i}
    <3>1. i..(n - 1) = {}
      BY <1>3
    <3>. QED BY <2>3, <3>1
  <2>5. Find(str, i, c) = Min({i})
    BY <2>4 DEF Find, end
  <2>6. Min({i}) = i
    <3>1. i \in {i} /\ \A x \in {i} : i <= x
      OBVIOUS
    <3>2. Min({i}) \in {i}
      BY <3>1 DEF Min
    <3>. QED BY <3>2
  <2>. QED BY <2>5, <2>6
<1>. QED BY <1>1, <1>2, <1>3

\* A message, whole or without its last character.
Trimmed(str, all) ==
  /\ Listed(all) /\ Listed(str)
  /\ Len(str) <= Len(all) /\ Len(all) <= Len(str) + 1
  /\ \A k \in 1..Len(str) : str[k] = all[k]

\* Where reading goes on, with this left to read.
Place(str, all, rest) == IF rest = << >> THEN Len(str) ELSE At(all, rest)

LEMMA TextsRegrouped ==
  ASSUME NEW s, Listed(s), NEW t, Listed(t), NEW u, Listed(u)
  PROVE  Chained(Chained(s, t), u) = Chained(s, Chained(t, u))
BY ListsJoin DEF Chained

LEMMA OneElement ==
  ASSUME NEW S, NEW c \in S
  PROVE  <<c>> \in Seq(S) /\ Len(<<c>>) = 1 /\ <<c>>[1] = c
OBVIOUS

LEMMA OneCharacter ==
  ASSUME NEW c
  PROVE  Listed(Single(c)) /\ Len(Single(c)) = 1 /\ Single(c)[1] = c
<1>1. c \in {c}
  OBVIOUS
<1>2. <<c>> \in Seq({c}) /\ Len(<<c>>) = 1 /\ <<c>>[1] = c
  BY <1>1, OneElement, Zenon
<1>. QED BY <1>2, Zenon DEF Single, Listed

\* The characters of what is left, as far as there are any.
LEMMA CharactersLeft ==
  ASSUME NEW str, NEW all, Trimmed(str, all), NEW part, Listed(part), NEW rest, Listed(rest),
         NEW whole, whole = Chained(part, rest), Left(all, whole)
  PROVE  /\ Left(all, rest) /\ At(all, rest) = At(all, whole) + Len(part)
         /\ At(all, whole) \in Nat /\ At(all, rest) \in Nat /\ Len(part) \in Nat /\ Len(rest) \in Nat
         /\ Len(str) \in Nat
         /\ At(all, rest) + Len(rest) <= Len(str) + 1 /\ Len(str) <= At(all, rest) + Len(rest)
         /\ \A k \in 1..Len(part) : At(all, whole) + k <= Len(str) => str[At(all, whole) + k] = part[k]
<1>1. /\ Listed(all) /\ Len(str) \in Nat /\ Len(str) <= Len(all) /\ Len(all) <= Len(str) + 1
      /\ \A k \in 1..Len(str) : str[k] = all[k]
  BY LengthOfText DEF Trimmed
<1> DEFINE at == At(all, whole)
           next == At(all, rest)
<1>2. /\ Left(all, rest) /\ next = at + Len(part) /\ at \in Nat /\ next \in Nat
      /\ Len(all) = next + Len(rest) /\ \A k \in 1..Len(part) : all[at + k] = part[k]
  BY <1>1, LeftAfter
<1> HIDE DEF at, next
<1>3. Len(part) \in Nat /\ Len(rest) \in Nat
  BY LengthOfText
<1>4. ASSUME NEW k \in 1..Len(part), at + k <= Len(str)
      PROVE  str[at + k] = part[k]
  <2>1. at + k \in 1..Len(str)
    BY <1>1, <1>2, <1>3, <1>4
  <2>. QED BY <1>1, <1>2, <2>1
<1>. QED BY <1>1, <1>2, <1>3, <1>4 DEF at, next

LEMMA CharacterLeft ==
  ASSUME NEW str, NEW all, Trimmed(str, all), NEW c, NEW part, part = Single(c), NEW rest, Listed(rest),
         NEW whole, whole = Chained(part, rest), Left(all, whole)
  PROVE  /\ Left(all, rest) /\ At(all, rest) = At(all, whole) + 1
         /\ At(all, whole) \in Nat /\ At(all, rest) \in Nat /\ Len(rest) \in Nat /\ Len(str) \in Nat
         /\ At(all, rest) + Len(rest) <= Len(str) + 1 /\ Len(str) <= At(all, rest) + Len(rest)
         /\ At(all, whole) + 1 <= Len(str) => str[At(all, whole) + 1] = c
<1>1. Listed(part) /\ Len(part) = 1 /\ part[1] = c
  BY OneCharacter
<1>2. Listed(part)
  BY <1>1
<1>3. /\ Left(all, rest) /\ At(all, rest) = At(all, whole) + Len(part)
      /\ At(all, whole) \in Nat /\ At(all, rest) \in Nat /\ Len(part) \in Nat /\ Len(rest) \in Nat
      /\ Len(str) \in Nat
      /\ At(all, rest) + Len(rest) <= Len(str) + 1 /\ Len(str) <= At(all, rest) + Len(rest)
      /\ \A k \in 1..Len(part) : At(all, whole) + k <= Len(str) => str[At(all, whole) + k] = part[k]
  BY <1>2, CharactersLeft
<1>4. 1 \in 1..Len(part)
  BY <1>1
<1>. QED BY <1>1, <1>3, <1>4

\* A part of a text is what its characters say.
LEMMA TextTaken ==
  ASSUME NEW str, Listed(str), NEW from \in Nat, NEW value, Listed(value),
         from + Len(value) <= Len(str),
         \A k \in 1..Len(value) : str[from + k] = value[k]
  PROVE  substr(str, from, from + Len(value)) = value
<1> DEFINE n == Len(value)
           to == from + n
           part == SubSeq(str, from + 1, to)
<1>1. n \in Nat /\ to \in Nat /\ to <= Len(str) /\ from <= to
  BY LengthOfText
<1>2. substr(str, from, to) = part
  <2>1. from + (to - from) = to
    BY <1>1
  <2>. QED BY <2>1 DEF substr, Slice
<1>3. /\ Len(part) = n /\ Listed(part) /\ \A k \in 1..n : part[k] = str[from + k]
  <2>1. PICK S : str \in Seq(S)
    BY DEF Listed
  <2>2. /\ Len(part) = n /\ part \in Seq(S) /\ \A k \in 1..n : part[k] = str[from + k]
    BY <1>1, <2>1, SMTT(30)
  <2>. QED BY <2>2 DEF Listed
<1> HIDE DEF part
<1>4. \A k \in 1..Len(value) : part[k] = value[k]
  BY <1>3
<1>5. part = value
  BY <1>3, <1>4, SameText
<1>. QED BY <1>2, <1>5

LEMMA NothingTaken ==
  ASSUME NEW str, Listed(str), NEW from \in Nat, from <= Len(str)
  PROVE  substr(str, from, from) = NoText
<1>1. << >> \in Seq(STRING) /\ Len(<< >>) = 0 /\ from + 0 = from /\ 1..0 = {}
  OBVIOUS
<1>2. \A k \in 1..Len(<< >>) : str[from + k] = << >>[k]
  BY <1>1
<1> DEFINE none == << >>
<1>3. Listed(none) /\ Len(none) = 0 /\ from + Len(none) = from /\ \A k \in 1..Len(none) : str[from + k] = none[k]
  BY <1>1, <1>2 DEF Listed
<1> HIDE DEF none
<1>4. substr(str, from, from + Len(none)) = none
  BY <1>3, TextTaken
<1>. QED BY <1>3, <1>4 DEF NoText, none

\* A line that starts at a place and ends before a new line or at the end.
LEMMA LineAt ==
  ASSUME NEW str, Listed(str), NEW at \in Nat, NEW value, Listed(value), Without(value, NewLine),
         NEW end \in Nat, end = at + Len(value), end <= Len(str),
         \A k \in 1..Len(value) : str[at + k] = value[k],
         end < Len(str) => str[end + 1] = NewLine
  PROVE  RestOfLine(str, at) = Field(value, IF end < Len(str) THEN end + 1 ELSE end)
<1>1. Len(str) \in Nat /\ Len(value) \in Nat /\ at <= end
  BY LengthOfText
<1>2. ASSUME NEW m \in at..(end - 1) PROVE str[m + 1] # NewLine
  <2> DEFINE k == m + 1 - at
  <2>1. k \in 1..Len(value) /\ at + k = m + 1
    BY <1>1
  <2> HIDE DEF k
  <2>2. str[at + k] = value[k] /\ value[k] # NewLine
    BY <2>1 DEF Without
  <2>. QED BY <2>1, <2>2
<1>3. substr(str, at, end) = value
  BY TextTaken
<1>4. CASE end < Len(str)
  <2>1. str[end + 1] = NewLine
    BY <1>4
  <2>2. Find(str, at, NewLine) = end
    BY <1>1, <1>2, <1>4, <2>1, FindFirst
  <2>. QED BY <1>3, <2>2 DEF RestOfLine
<1>5. CASE end = Len(str)
  <2>1. \A m \in at..(Len(str) - 1) : str[m + 1] # NewLine
    BY <1>2, <1>5
  <2>2. Find(str, at, NewLine) = end
    BY <1>1, <1>5, <2>1, FindNone
  <2>. QED BY <1>3, <2>2 DEF RestOfLine
<1>6. end < Len(str) \/ end = Len(str)
  BY <1>1
<1>. QED BY <1>4, <1>5, <1>6

\* The rest of a line is its value, and reading goes on after the line.
LEMMA LineRead ==
  ASSUME NEW str, NEW all, Trimmed(str, all),
         NEW value, Listed(value), Without(value, NewLine), NEW rest, Listed(rest),
         NEW tail, tail = Chained(Single(NewLine), rest),
         NEW whole, whole = Chained(value, tail), Left(all, whole)
  PROVE  /\ Left(all, rest) /\ RestOfLine(str, At(all, whole)) = Field(value, Place(str, all, rest))
<1> DEFINE at == At(all, whole)
           end == At(all, tail)
           next == At(all, rest)
           n == Len(value)
<1>3. Listed(tail)
  BY OneCharacter, TextsJoined
<1>4. /\ Left(all, tail) /\ end = at + n /\ at \in Nat /\ end \in Nat /\ n \in Nat /\ Len(str) \in Nat
      /\ end + Len(tail) <= Len(str) + 1 /\ Len(str) <= end + Len(tail)
      /\ \A k \in 1..n : at + k <= Len(str) => str[at + k] = value[k]
  BY <1>3, CharactersLeft
<1>5. /\ Left(all, rest) /\ next = end + 1 /\ next \in Nat /\ Len(rest) \in Nat
      /\ next + Len(rest) <= Len(str) + 1 /\ Len(str) <= next + Len(rest)
      /\ end + 1 <= Len(str) => str[end + 1] = NewLine
  <2>1. Left(all, tail)
    BY <1>4
  <2>. QED BY <2>1, CharacterLeft
<1>6. Listed(str)
  BY DEF Trimmed
<1>7. rest = << >> <=> Len(rest) = 0
  BY LengthOfText
<1>8. RestOfLine(str, at) = Field(value, IF end < Len(str) THEN end + 1 ELSE end)
  <2> HIDE DEF at, end, next
  <2>1. end <= Len(str)
    BY <1>4, <1>5
  <2>2. end < Len(str) => str[end + 1] = NewLine
    BY <1>4, <1>5
  <2>3. \A k \in 1..Len(value) : str[at + k] = value[k]
    <3>1. \A k \in 1..n : at + k <= Len(str)
      BY <1>4, <2>1
    <3>. QED BY <1>4, <3>1
  <2>4. end = at + Len(value) /\ at \in Nat /\ end \in Nat
    BY <1>4
  <2>. QED BY <1>6, <2>1, <2>2, <2>3, <2>4, LineAt
<1>9. (IF end < Len(str) THEN end + 1 ELSE end) = Place(str, all, rest)
  <2> HIDE DEF at, end, next
  <2>1. CASE rest = << >>
    BY <1>4, <1>5, <1>7, <2>1 DEF Place
  <2>2. CASE rest # << >>
    <3>1. Len(rest) >= 1 /\ end < Len(str)
      BY <1>4, <1>5, <1>7, <2>2
    <3>. QED BY <1>5, <2>2, <3>1 DEF Place, next
  <2>. QED BY <2>1, <2>2
<1>. QED BY <1>5, <1>8, <1>9

Colon == ":"
Blank == " "

LEMMA FieldUpTo ==
  ASSUME NEW str, NEW name, NEW i
  PROVE  parseField(str, name, i) = FieldAt(str, name, i, Find(str, i, Colon))
BY DEF parseField, Colon

LEMMA FieldNone ==
  ASSUME NEW str, NEW name, NEW i, NEW end, Find(str, i, Colon) = end, end >= Len(str)
  PROVE  parseField(str, name, i) = Field(substr(str, i, end), end)
<1>1. FieldAt(str, name, i, end) = Field(substr(str, i, end), end)
  BY DEF FieldAt
<1>. QED BY <1>1, FieldUpTo

LEMMA FieldOther ==
  ASSUME NEW str, NEW name, NEW i, NEW end, Find(str, i, Colon) = end, ~ (end >= Len(str)),
         substr(str, i, end) # Single(name)
  PROVE  parseField(str, name, i) = Field(NoText, i)
<1>1. FieldAt(str, name, i, end) = Field(NoText, i)
  BY DEF FieldAt, Single
<1>. QED BY <1>1, FieldUpTo

LEMMA FieldNamed ==
  ASSUME NEW str, NEW name, NEW i, NEW end, Find(str, i, Colon) = end, ~ (end >= Len(str)),
         substr(str, i, end) = Single(name)
  PROVE  parseField(str, name, i) = RestOfLine(str, AfterColon(str, end))
<1>1. FieldAt(str, name, i, end) = RestOfLine(str, AfterColon(str, end))
  BY DEF FieldAt, Single
<1>. QED BY <1>1, FieldUpTo

LEMMA CharacterTaken ==
  ASSUME NEW str, Listed(str), NEW i \in Nat, i + 1 <= Len(str)
  PROVE  substr(str, i, i + 1) = Single(str[i + 1]) /\ SubSeq(str, i + 1, i + 1) = Single(str[i + 1])
<1> DEFINE c == str[i + 1]
           value == Single(c)
<1>1. Listed(value) /\ Len(value) = 1 /\ value[1] = c
  BY OneCharacter
<1> HIDE DEF value
<1>2. \A k \in 1..Len(value) : str[i + k] = value[k]
  <2>1. \A k \in 1..Len(value) : k = 1
    BY <1>1
  <2>. QED BY <1>1, <2>1
<1>3. i + Len(value) <= Len(str) /\ i + Len(value) = i + 1
  BY <1>1
<1>4. substr(str, i, i + Len(value)) = value
  <2>1. Listed(value) /\ i + Len(value) <= Len(str)
    BY <1>1, <1>3
  <2>. QED BY <1>2, <2>1, TextTaken
<1>5. substr(str, i, i + 1) = SubSeq(str, i + 1, i + 1)
  <2>1. i + (i + 1 - i) = i + 1
    OBVIOUS
  <2>. QED BY <2>1 DEF substr, Slice
<1>. QED BY <1>3, <1>4, <1>5 DEF value

LEMMA SinglesDiffer ==
  ASSUME NEW c, NEW d, c # d
  PROVE  Single(c) # Single(d)
BY OneCharacter

\* A field by its name, with a blank before its value or without.
LEMMA ColonAt ==
  ASSUME NEW str, Listed(str), NEW i \in Nat, i + 2 <= Len(str), str[i + 1] # Colon, str[i + 2] = Colon
  PROVE  Find(str, i, Colon) = i + 1 /\ i + 1 < Len(str) /\ substr(str, i, i + 1) = Single(str[i + 1])
<1>1. /\ Len(str) \in Nat /\ i + 1 \in Nat /\ i <= i + 1 /\ i + 1 < Len(str) /\ i + 1 <= Len(str)
      /\ (i + 1) + 1 = i + 2
  BY LengthOfText
<1>2. \A m \in i..((i + 1) - 1) : str[m + 1] # Colon
  <2>1. \A m \in i..((i + 1) - 1) : m = i
    OBVIOUS
  <2>. QED BY <2>1
<1>3. str[(i + 1) + 1] = Colon
  BY <1>1
<1>4. Find(str, i, Colon) = i + 1
  <2>1. Len(str) \in Nat /\ i + 1 \in Nat /\ i <= i + 1 /\ i + 1 < Len(str)
    BY <1>1
  <2>. QED BY <1>2, <1>3, <2>1, FindFirst
<1>5. substr(str, i, i + 1) = Single(str[i + 1])
  BY <1>1, CharacterTaken
<1>. QED BY <1>1, <1>4, <1>5

LEMMA Named ==
  ASSUME NEW str, Listed(str), NEW i \in Nat, i + 3 <= Len(str), NEW name, name # Colon,
         str[i + 1] = name, str[i + 2] = Colon
  PROVE  parseField(str, name, i) = RestOfLine(str, IF str[i + 3] = Blank THEN i + 3 ELSE i + 2)
<1>1. Len(str) \in Nat /\ i + 2 <= Len(str)
  BY LengthOfText
<1>2. Find(str, i, Colon) = i + 1 /\ ~ (i + 1 >= Len(str)) /\ substr(str, i, i + 1) = Single(name)
  <2>1. Find(str, i, Colon) = i + 1 /\ i + 1 < Len(str) /\ substr(str, i, i + 1) = Single(str[i + 1])
    BY <1>1, ColonAt
  <2>. QED BY <1>1, <2>1
<1>3. SubSeq(str, (i + 1) + 2, (i + 1) + 2) = Single(str[i + 3])
  <2>1. i + 2 \in Nat /\ (i + 2) + 1 <= Len(str) /\ (i + 2) + 1 = i + 3 /\ (i + 1) + 2 = i + 3
    OBVIOUS
  <2>2. SubSeq(str, (i + 2) + 1, (i + 2) + 1) = Single(str[(i + 2) + 1])
    BY <2>1, CharacterTaken
  <2>. QED BY <2>1, <2>2
<1>4. (SubSeq(str, (i + 1) + 2, (i + 1) + 2) = <<Blank>>) <=> (str[i + 3] = Blank)
  <2>1. Single(str[i + 3]) = Single(Blank) <=> str[i + 3] = Blank
    BY SinglesDiffer
  <2>. QED BY <1>3, <2>1, Zenon DEF Single
<1>5. (i + 1) + 2 = i + 3 /\ (i + 1) + 1 = i + 2
  OBVIOUS
<1> DEFINE colon == i + 1
<1>6. AfterColon(str, colon) = IF str[i + 3] = Blank THEN i + 3 ELSE i + 2
  <2>1. (SubSeq(str, colon + 2, colon + 2) = <<Blank>>) <=> (str[i + 3] = Blank)
    BY <1>4
  <2>2. colon + 2 = i + 3 /\ colon + 1 = i + 2
    BY <1>5
  <2> HIDE DEF colon
  <2>. QED BY <2>1, <2>2 DEF AfterColon, Blank
<1>7. Find(str, i, Colon) = colon /\ ~ (colon >= Len(str)) /\ substr(str, i, colon) = Single(name)
  BY <1>2
<1> HIDE DEF colon
<1>8. parseField(str, name, i) = RestOfLine(str, AfterColon(str, colon))
  BY <1>7, FieldNamed
<1>. QED BY <1>6, <1>8

LEMMA NotNamed ==
  ASSUME NEW str, Listed(str), NEW i \in Nat, i + 2 <= Len(str), NEW name,
         str[i + 1] # name, str[i + 1] # Colon, str[i + 2] = Colon
  PROVE  parseField(str, name, i) = Field(NoText, i)
<1>1. Len(str) \in Nat
  BY LengthOfText
<1> DEFINE colon == i + 1
<1>2. Find(str, i, Colon) = colon /\ ~ (colon >= Len(str)) /\ substr(str, i, colon) # Single(name)
  <2>1. Find(str, i, Colon) = i + 1 /\ i + 1 < Len(str) /\ substr(str, i, i + 1) = Single(str[i + 1])
    BY ColonAt
  <2>2. Single(str[i + 1]) # Single(name)
    BY SinglesDiffer
  <2>. QED BY <1>1, <2>1, <2>2
<1> HIDE DEF colon
<1>. QED BY <1>2, FieldOther

LEMMA NothingLeft ==
  ASSUME NEW str, Listed(str), NEW name
  PROVE  parseField(str, name, Len(str)) = Field(NoText, Len(str))
<1> DEFINE n == Len(str)
<1>1. n \in Nat /\ n <= n /\ n >= n /\ n..(n - 1) = {}
  BY LengthOfText
<1>2. Find(str, n, Colon) = n
  <2>1. \A m \in n..(n - 1) : str[m + 1] # Colon
    BY <1>1
  <2>. QED BY <1>1, <2>1, FindNone
<1>3. substr(str, n, n) = NoText
  BY <1>1, NothingTaken
<1> HIDE DEF n
<1>4. parseField(str, name, n) = Field(NoText, n)
  <2>1. n >= Len(str)
    BY <1>1 DEF n
  <2>. QED BY <1>2, <1>3, <2>1, FieldNone
<1>. QED BY <1>4 DEF n

LEMMA ThreeCharacters ==
  ASSUME NEW a, NEW b, NEW c
  PROVE  /\ Listed(<<a, b, c>>)
         /\ <<a, b, c>> = Chained(Single(a), Chained(Single(b), Single(c)))
<1> DEFINE S == {a, b, c}
           three == <<a, b, c>>
           two == Chained(Single(b), Single(c))
           all == Chained(Single(a), two)
<1>1. /\ Listed(Single(a)) /\ Listed(Single(b)) /\ Listed(Single(c))
      /\ Len(Single(a)) = 1 /\ Len(Single(b)) = 1 /\ Len(Single(c)) = 1
      /\ Single(a)[1] = a /\ Single(b)[1] = b /\ Single(c)[1] = c
  BY OneCharacter
<1>2. Listed(three) /\ Len(three) = 3 /\ three[1] = a /\ three[2] = b /\ three[3] = c
  <2>1. three \in Seq(S) /\ Len(three) = 3
    OBVIOUS
  <2>2. three[1] = a /\ three[2] = b /\ three[3] = c
    OBVIOUS
  <2>. QED BY <2>1, <2>2, Zenon DEF Listed
<1>3. Listed(two) /\ Len(two) = 2 /\ two[1] = b /\ two[2] = c
  <2>1. /\ Listed(two) /\ Len(two) = Len(Single(b)) + Len(Single(c))
        /\ \A i \in 1..Len(Single(b)) : two[i] = Single(b)[i]
        /\ \A i \in 1..Len(Single(c)) : two[Len(Single(b)) + i] = Single(c)[i]
    <3>1. Listed(Single(b)) /\ Listed(Single(c))
      BY <1>1
    <3>. QED BY <3>1, TextsJoined
  <2>2. 1 \in 1..1 /\ 1 + 1 = 2
    OBVIOUS
  <2>. QED BY <1>1, <2>1, <2>2
<1> HIDE DEF two, three
<1>4. Listed(all) /\ Len(all) = 3 /\ all[1] = a /\ all[2] = b /\ all[3] = c
  <2>1. /\ Listed(all) /\ Len(all) = Len(Single(a)) + Len(two)
        /\ \A i \in 1..Len(Single(a)) : all[i] = Single(a)[i]
        /\ \A i \in 1..Len(two) : all[Len(Single(a)) + i] = two[i]
    <3>1. Listed(Single(a)) /\ Listed(two)
      BY <1>1, <1>3
    <3>. QED BY <3>1, TextsJoined
  <2>2. 1 \in 1..1 /\ 1 \in 1..2 /\ 2 \in 1..2 /\ 1 + 1 = 2 /\ 1 + 2 = 3
    OBVIOUS
  <2>. QED BY <1>1, <1>3, <2>1, <2>2
<1> HIDE DEF all
<1>5. three = all
  <2>1. \A i \in 1..3 : i = 1 \/ i = 2 \/ i = 3
    OBVIOUS
  <2>2. \A i \in 1..Len(all) : three[i] = all[i]
    BY <1>2, <1>4, <2>1
  <2>. QED BY <1>2, <1>4, <2>2, SameText
<1>. QED BY <1>2, <1>5 DEF three, two, all

\* A line, with what follows it.
LineOf(name, value, rest) ==
  Chained(Single(name), Chained(Single(Colon), Chained(Single(Blank), Chained(value, Chained(Single(NewLine), rest)))))

LEMMA LineFollowed ==
  ASSUME NEW name, NEW value, Listed(value), NEW rest, Listed(rest)
  PROVE  /\ Chained(Line(name, value), rest) = LineOf(name, value, rest)
         /\ Listed(Line(name, value)) /\ Listed(LineOf(name, value, rest))
<1> DEFINE a == Single(name)
           b == Single(Colon)
           c == Single(Blank)
           d == Single(NewLine)
           head == <<name, Colon, Blank>>
<1>1. Listed(a) /\ Listed(b) /\ Listed(c) /\ Listed(d)
  BY OneCharacter
<1>2. Listed(head) /\ head = Chained(a, Chained(b, c))
  BY ThreeCharacters
<1>3. Line(name, value) = Chained(Chained(head, value), d)
  BY Zenon DEF Line, Chained, Single, Colon, Blank
<1>4. LineOf(name, value, rest) = Chained(a, Chained(b, Chained(c, Chained(value, Chained(d, rest)))))
  BY DEF LineOf
<1> HIDE DEF a, b, c, d, head
<1> DEFINE e == Chained(d, rest)
           f == Chained(value, e)
           g == Chained(c, f)
           h == Chained(b, g)
<1>5. Listed(e) /\ Listed(f) /\ Listed(g) /\ Listed(h) /\ Listed(Chained(a, h))
  <2>1. Listed(e)
    BY <1>1, TextsJoined
  <2>2. Listed(f)
    <3> HIDE DEF e
    <3>. QED BY <2>1, TextsJoined
  <2>3. Listed(g)
    <3> HIDE DEF f
    <3>. QED BY <1>1, <2>2, TextsJoined
  <2>4. Listed(h)
    <3> HIDE DEF g
    <3>. QED BY <1>1, <2>3, TextsJoined
  <2>5. Listed(Chained(a, h))
    <3> HIDE DEF h
    <3>. QED BY <1>1, <2>4, TextsJoined
  <2>. QED BY <2>1, <2>2, <2>3, <2>4, <2>5
<1>6. Listed(Chained(head, value)) /\ Listed(Line(name, value)) /\ Listed(Chained(b, c))
  BY <1>1, <1>2, <1>3, TextsJoined
<1>7. Chained(Line(name, value), rest) = Chained(Chained(head, value), e)
  BY <1>1, <1>3, <1>6, TextsRegrouped
<1>8. Chained(Chained(head, value), e) = Chained(head, f)
  <2> HIDE DEF e
  <2>. QED BY <1>2, <1>5, TextsRegrouped DEF f
<1> HIDE DEF e, f
<1>9. Chained(head, f) = Chained(a, Chained(Chained(b, c), f))
  BY <1>1, <1>2, <1>5, <1>6, TextsRegrouped
<1>10. Chained(Chained(b, c), f) = h
  BY <1>1, <1>5, TextsRegrouped
<1>11. LineOf(name, value, rest) = Chained(a, h)
  BY <1>4 DEF e, f
<1>. QED BY <1>5, <1>6, <1>7, <1>8, <1>9, <1>10, <1>11

\* A field that a message has is read with its value.
LEMMA FieldPresent ==
  ASSUME NEW str, NEW all, Trimmed(str, all), NEW name, name # Colon,
         NEW value, Listed(value), Without(value, NewLine), NEW rest, Listed(rest),
         NEW whole, whole = LineOf(name, value, rest), Left(all, whole)
  PROVE  /\ Left(all, rest) /\ whole # << >>
         /\ parseField(str, name, Place(str, all, whole)) = Field(value, Place(str, all, rest))
<1> DEFINE a == Single(name)
           b == Single(Colon)
           c == Single(Blank)
           d == Single(NewLine)
           tail == Chained(d, rest)
           said == Chained(value, tail)
           blank == Chained(c, said)
           mark == Chained(b, blank)
<1>1. Listed(a) /\ Listed(b) /\ Listed(c) /\ Listed(d)
  BY OneCharacter
<1>2. Len(tail) \in Nat /\ Len(tail) >= 1 /\ Listed(tail)
  <2>1. Len(d) = 1
    BY OneCharacter
  <2>2. Len(tail) = Len(d) + Len(rest) /\ Len(rest) \in Nat /\ Listed(tail)
    BY <1>1, TextsJoined
  <2> HIDE DEF tail, d
  <2>. QED BY <2>1, <2>2
<1>3. Len(said) \in Nat /\ Len(said) >= 1 /\ Listed(said)
  <2>1. Listed(tail)
    BY <1>2
  <2> HIDE DEF tail
  <2>2. Len(said) = Len(value) + Len(tail) /\ Len(value) \in Nat /\ Listed(said)
    BY <2>1, TextsJoined
  <2> HIDE DEF said
  <2>. QED BY <1>2, <2>2
<1>4. Listed(blank)
  <2>1. Listed(said)
    BY <1>3
  <2> HIDE DEF said
  <2>. QED BY <1>1, <2>1, TextsJoined
<1>5. Listed(mark)
  <2> HIDE DEF blank
  <2>. QED BY <1>1, <1>4, TextsJoined
<1>6. whole = Chained(a, mark)
  BY DEF LineOf
<1> DEFINE at == At(all, whole)
<1>7. /\ Left(all, mark) /\ At(all, mark) = at + 1 /\ at \in Nat /\ Len(str) \in Nat
      /\ at + 1 <= Len(str) => str[at + 1] = name
  <2> HIDE DEF mark
  <2>1. a = Single(name) /\ Trimmed(str, all) /\ Left(all, whole)
    OBVIOUS
  <2>. QED BY <1>5, <1>6, <2>1, CharacterLeft
<1>8. /\ Left(all, blank) /\ At(all, blank) = at + 2
      /\ at + 2 <= Len(str) => str[at + 2] = Colon
  <2>1. b = Single(Colon) /\ mark = Chained(b, blank) /\ Left(all, mark)
    BY <1>7
  <2>2. At(all, mark) = at + 1 /\ at \in Nat
    BY <1>7
  <2> HIDE DEF mark, blank, b, at
  <2>3. /\ Left(all, blank) /\ At(all, blank) = At(all, mark) + 1
        /\ At(all, mark) + 1 <= Len(str) => str[At(all, mark) + 1] = Colon
    BY <1>4, <2>1, CharacterLeft
  <2>. QED BY <2>2, <2>3
<1>9. /\ Left(all, said) /\ At(all, said) = at + 3
      /\ at + 3 <= Len(str) => str[at + 3] = Blank
      /\ At(all, said) + Len(said) <= Len(str) + 1
  <2>1. c = Single(Blank) /\ blank = Chained(c, said) /\ Left(all, blank)
    BY <1>8
  <2>2. At(all, blank) = at + 2 /\ at \in Nat
    BY <1>7, <1>8
  <2>3. Listed(said)
    BY <1>3
  <2> HIDE DEF said, blank, c, at
  <2>4. /\ Left(all, said) /\ At(all, said) = At(all, blank) + 1
        /\ At(all, blank) + 1 <= Len(str) => str[At(all, blank) + 1] = Blank
    <3>1. Left(all, said) /\ At(all, said) = At(all, blank) + 1
      BY <2>1, <2>3, CharacterLeft
    <3>2. At(all, blank) + 1 <= Len(str) => str[At(all, blank) + 1] = Blank
      BY <2>1, <2>3, CharacterLeft
    <3>. QED BY <3>1, <3>2
  <2>5. At(all, said) + Len(said) <= Len(str) + 1
    BY <2>1, <2>3, CharacterLeft
  <2>6. At(all, blank) + 1 = at + 3
    BY <2>2
  <2>. QED BY <2>4, <2>5, <2>6
<1>10. at + 3 <= Len(str)
  <2>1. /\ at \in Nat /\ Len(str) \in Nat /\ Len(said) \in Nat /\ Len(said) >= 1
        /\ At(all, said) = at + 3 /\ At(all, said) + Len(said) <= Len(str) + 1
    BY <1>3, <1>7, <1>9
  <2> HIDE DEF at, said
  <2>. QED BY <2>1
<1>11. /\ Left(all, rest) /\ RestOfLine(str, At(all, said)) = Field(value, Place(str, all, rest))
  <2>1. tail = Chained(Single(NewLine), rest) /\ said = Chained(value, tail) /\ Left(all, said)
    BY <1>9
  <2> HIDE DEF tail, said
  <2>. QED BY <2>1, LineRead
<1>12. whole # << >>
  <2> HIDE DEF mark
  <2>1. Len(a) = 1
    BY OneCharacter
  <2>2. Len(whole) = Len(a) + Len(mark) /\ Len(mark) \in Nat /\ Listed(whole)
    BY <1>1, <1>5, <1>6, TextsJoined
  <2> HIDE DEF a
  <2>3. Len(whole) # 0
    BY <2>1, <2>2
  <2>. QED BY <2>2, <2>3, LengthOfText
<1>13. parseField(str, name, at) = RestOfLine(str, IF str[at + 3] = Blank THEN at + 3 ELSE at + 2)
  <2>1. at \in Nat /\ at + 3 <= Len(str) /\ str[at + 1] = name /\ str[at + 2] = Colon
    <3>1. at + 1 <= Len(str) /\ at + 2 <= Len(str) /\ at \in Nat
      <4>1. at \in Nat /\ Len(str) \in Nat
        BY <1>7
      <4> HIDE DEF at
      <4>. QED BY <1>10, <4>1
    <3>. QED BY <1>7, <1>8, <1>10, <3>1
  <2>2. Listed(str)
    BY DEF Trimmed
  <2> HIDE DEF at
  <2>. QED BY <2>1, <2>2, Named
<1>14. parseField(str, name, at) = Field(value, Place(str, all, rest))
  <2> HIDE DEF at, said
  <2>. QED BY <1>9, <1>10, <1>11, <1>13
<1>. QED BY <1>11, <1>12, <1>14 DEF Place

\* What is left starts with one of these names, if there is anything left.
Starts(rest, name) ==
  \E more : Listed(more) /\ more # << >> /\ rest = Chained(Single(name), Chained(Single(Colon), more))
Names(rest, names) == rest = << >> \/ \E name \in names : Starts(rest, name)

\* A field that a message does not have is empty, and nothing is read.
LEMMA FieldAbsent ==
  ASSUME NEW str, NEW all, Trimmed(str, all), NEW name, NEW names, name \notin names, Colon \notin names,
         NEW rest, Names(rest, names), Left(all, rest)
  PROVE  parseField(str, name, Place(str, all, rest)) = Field(NoText, Place(str, all, rest))
<1>1. Listed(str)
  BY DEF Trimmed
<1>2. CASE rest = << >>
  BY <1>1, <1>2, NothingLeft DEF Place
<1>3. CASE rest # << >>
  <2>1. PICK other \in names : Starts(rest, other)
    BY <1>3 DEF Names
  <2>2. PICK more : Listed(more) /\ more # << >> /\ rest = Chained(Single(other), Chained(Single(Colon), more))
    BY <2>1 DEF Starts
  <2> DEFINE a == Single(other)
             b == Single(Colon)
             mark == Chained(b, more)
             at == At(all, rest)
  <2>3. Listed(mark) /\ rest = Chained(a, mark)
    BY <2>2, OneCharacter, TextsJoined
  <2>4. /\ Left(all, mark) /\ At(all, mark) = at + 1 /\ at \in Nat /\ Len(str) \in Nat
        /\ at + 1 <= Len(str) => str[at + 1] = other
    <3> HIDE DEF mark
    <3>1. a = Single(other) /\ Trimmed(str, all) /\ Left(all, rest)
      OBVIOUS
    <3>. QED BY <2>3, <3>1, CharacterLeft
  <2>5. /\ At(all, more) = at + 2 /\ At(all, more) + Len(more) <= Len(str) + 1 /\ Len(more) \in Nat
        /\ at + 2 <= Len(str) => str[at + 2] = Colon
    <3>1. b = Single(Colon) /\ mark = Chained(b, more) /\ Left(all, mark) /\ Listed(more)
      BY <2>2, <2>4
    <3>2. At(all, mark) = at + 1 /\ at \in Nat
      BY <2>4
    <3> HIDE DEF mark, b, at
    <3>3. /\ At(all, more) = At(all, mark) + 1 /\ At(all, more) + Len(more) <= Len(str) + 1 /\ Len(more) \in Nat
          /\ At(all, mark) + 1 <= Len(str) => str[At(all, mark) + 1] = Colon
      BY <3>1, CharacterLeft
    <3>. QED BY <3>2, <3>3
  <2>6. Len(more) >= 1
    BY <2>2, <2>5, LengthOfText
  <2> HIDE DEF at
  <2>7. at + 2 <= Len(str) /\ str[at + 1] = other /\ str[at + 2] = Colon
    BY <2>4, <2>5, <2>6
  <2>8. other # name /\ other # Colon
    OBVIOUS
  <2>9. parseField(str, name, at) = Field(NoText, at)
    <3>1. str[at + 1] # name /\ str[at + 1] # Colon
      BY <2>7, <2>8
    <3>. QED BY <1>1, <2>4, <2>7, <3>1, NotNamed
  <2>. QED BY <1>3, <2>9 DEF Place, at
<1>. QED BY <1>2, <1>3

LEMMA EmptyFirst ==
  ASSUME NEW s, Listed(s)
  PROVE  Chained(<< >>, s) = s /\ Chained(s, << >>) = s
<1>1. PICK S : s \in Seq(S)
  BY DEF Listed
<1>2. << >> \o s = s /\ s \o << >> = s
  BY <1>1, ConcatEmptySeq
<1>. QED BY <1>2 DEF Chained

LEMMA EmptyListed == Listed(<< >>)
<1>1. << >> \in Seq(Nat)
  OBVIOUS
<1>. QED BY <1>1 DEF Listed

LEMMA NotEmpty ==
  ASSUME NEW c, NEW rest, Listed(rest)
  PROVE  Listed(Chained(Single(c), rest)) /\ Chained(Single(c), rest) # << >>
         /\ Len(Chained(Single(c), rest)) = 1 + Len(rest)
<1> DEFINE a == Single(c)
           all == Chained(a, rest)
<1>1. Listed(a)
  BY OneCharacter
<1>2. Len(a) = 1
  BY OneCharacter
<1> HIDE DEF a
<1>3. Listed(all) /\ Len(all) = Len(a) + Len(rest) /\ Len(rest) \in Nat
  BY <1>1, TextsJoined
<1> HIDE DEF all
<1>4. Len(all) = 1 + Len(rest) /\ Len(all) # 0
  BY <1>2, <1>3
<1>5. all # << >>
  BY <1>3, <1>4, LengthOfText
<1>. QED BY <1>3, <1>4, <1>5 DEF all, a

LEMMA LineStarts ==
  ASSUME NEW name, NEW value, Listed(value), NEW rest, Listed(rest)
  PROVE  Starts(LineOf(name, value, rest), name)
<1> DEFINE tail == Chained(value, Chained(Single(NewLine), rest))
           more == Chained(Single(Blank), tail)
<1>1. Listed(Chained(Single(NewLine), rest))
  BY NotEmpty
<1>2. Listed(tail)
  <2> DEFINE end == Chained(Single(NewLine), rest)
  <2>1. Listed(end)
    BY <1>1
  <2> HIDE DEF end
  <2>2. Listed(Chained(value, end))
    BY <2>1, TextsJoined
  <2>. QED BY <2>2 DEF end
<1>3. LineOf(name, value, rest) = Chained(Single(name), Chained(Single(Colon), more))
  BY DEF LineOf
<1>4. Listed(more) /\ more # << >>
  <2> HIDE DEF tail
  <2>. QED BY <1>2, NotEmpty
<1> HIDE DEF more
<1>. QED BY <1>3, <1>4 DEF Starts

\* An optional field, whether it is there or not.
LEMMA OptionalRead ==
  ASSUME NEW str, NEW all, Trimmed(str, all), NEW name, name # Colon,
         NEW value, Listed(value), Without(value, NewLine), NEW rest, Listed(rest),
         NEW names, Names(rest, names), name \notin names, Colon \notin names,
         NEW whole, whole = Chained(Optional(name, value), rest), Left(all, whole)
  PROVE  /\ Left(all, rest) /\ Names(whole, names \cup {name})
         /\ parseField(str, name, Place(str, all, whole)) = Field(value, Place(str, all, rest))
<1>1. CASE value = NoText
  <2>1. Optional(name, value) = << >>
    BY <1>1 DEF Optional
  <2>2. whole = rest
    BY <2>1, EmptyFirst
  <2>3. Left(all, rest)
    BY <2>2
  <2>4. parseField(str, name, Place(str, all, rest)) = Field(NoText, Place(str, all, rest))
    BY <2>3, FieldAbsent
  <2>5. Names(rest, names \cup {name})
    BY Zenon DEF Names
  <2>. QED BY <1>1, <2>2, <2>3, <2>4, <2>5
<1>2. CASE value # NoText
  <2>1. Optional(name, value) = Line(name, value)
    BY <1>2 DEF Optional
  <2>2. whole = LineOf(name, value, rest)
    BY <2>1, LineFollowed
  <2>3. /\ Left(all, rest)
        /\ parseField(str, name, Place(str, all, whole)) = Field(value, Place(str, all, rest))
    BY <2>2, FieldPresent
  <2>4. Starts(whole, name)
    BY <2>2, LineStarts
  <2>5. Names(whole, names \cup {name})
    BY <2>4 DEF Names
  <2>. QED BY <2>3, <2>5
<1>. QED BY <1>1, <1>2

LEMMA OptionalListed ==
  ASSUME NEW name, NEW value, Listed(value)
  PROVE  Listed(Optional(name, value))
<1>1. Listed(Line(name, value))
  BY EmptyListed, LineFollowed
<1>. QED BY <1>1, EmptyListed DEF Optional

\* The line that the resources start with, when there are any.
LEMMA ResourcesStart ==
  ASSUME NEW str, NEW all, Trimmed(str, all), NEW name, name # Colon, NEW rest, Listed(rest), rest # << >>,
         NEW whole, whole = Chained(<<name, Colon, NewLine>>, rest), Left(all, whole)
  PROVE  /\ Left(all, rest) /\ Starts(whole, name) /\ At(all, whole) # At(all, rest)
         /\ parseField(str, name, Place(str, all, whole)) = Field(NoText, At(all, rest))
<1> DEFINE a == Single(name)
           b == Single(Colon)
           d == Single(NewLine)
           more == Chained(d, rest)
           mark == Chained(b, more)
           at == At(all, whole)
<1>1. Listed(a) /\ Listed(b) /\ Listed(d)
  BY OneCharacter
<1>2. Listed(more) /\ more # << >>
  BY NotEmpty
<1>3. Listed(mark)
  <2> HIDE DEF more
  <2>. QED BY <1>2, NotEmpty
<1>4. whole = Chained(a, mark)
  <2> DEFINE two == Chained(b, d)
             head == <<name, Colon, NewLine>>
  <2>1. Listed(head) /\ head = Chained(a, two)
    BY ThreeCharacters
  <2>2. Listed(two)
    BY <1>1, TextsJoined
  <2>3. mark = Chained(two, rest)
    BY <1>1, TextsRegrouped
  <2>4. whole = Chained(head, rest)
    OBVIOUS
  <2> HIDE DEF two, head, mark, a
  <2>. QED BY <1>1, <2>1, <2>2, <2>3, <2>4, TextsRegrouped DEF a
<1>5. Starts(whole, name)
  <2> HIDE DEF more
  <2>. QED BY <1>2, <1>4 DEF Starts
<1>6. /\ Left(all, mark) /\ At(all, mark) = at + 1 /\ at \in Nat /\ Len(str) \in Nat
      /\ at + 1 <= Len(str) => str[at + 1] = name
  <2> HIDE DEF mark
  <2>1. a = Single(name) /\ Trimmed(str, all) /\ Left(all, whole)
    OBVIOUS
  <2>. QED BY <1>3, <1>4, <2>1, CharacterLeft
<1>7. /\ Left(all, more) /\ At(all, more) = at + 2
      /\ at + 2 <= Len(str) => str[at + 2] = Colon
  <2>1. b = Single(Colon) /\ mark = Chained(b, more) /\ Left(all, mark)
    BY <1>6
  <2>2. At(all, mark) = at + 1 /\ at \in Nat
    BY <1>6
  <2>3. Listed(more)
    BY <1>2
  <2> HIDE DEF mark, more, b, at
  <2>4. /\ Left(all, more) /\ At(all, more) = At(all, mark) + 1
        /\ At(all, mark) + 1 <= Len(str) => str[At(all, mark) + 1] = Colon
    BY <2>1, <2>3, CharacterLeft
  <2>. QED BY <2>2, <2>4
<1>8. /\ Left(all, rest) /\ At(all, rest) = at + 3
      /\ at + 3 <= Len(str) => str[at + 3] = NewLine
  <2>1. d = Single(NewLine) /\ more = Chained(d, rest) /\ Left(all, more)
    BY <1>7
  <2>2. At(all, more) = at + 2 /\ at \in Nat
    BY <1>6, <1>7
  <2> HIDE DEF more, d, at
  <2>3. /\ Left(all, rest) /\ At(all, rest) = At(all, more) + 1
        /\ At(all, more) + 1 <= Len(str) => str[At(all, more) + 1] = NewLine
    BY <2>1, CharacterLeft
  <2>4. At(all, more) + 1 = at + 3
    BY <2>2
  <2>. QED BY <2>3, <2>4
<1>9. at + 3 <= Len(str)
  <2>1. d = Single(NewLine) /\ more = Chained(d, rest) /\ Left(all, more)
    BY <1>7
  <2> HIDE DEF more, d, at
  <2>2. At(all, rest) + Len(rest) <= Len(str) + 1
    BY <2>1, CharacterLeft
  <2>3. Len(rest) \in Nat /\ Len(rest) # 0
    BY LengthOfText
  <2>. QED BY <1>6, <1>8, <2>2, <2>3
<1>10. Listed(str)
  BY DEF Trimmed
<1> HIDE DEF at
<1>11. at \in Nat /\ str[at + 1] = name /\ str[at + 2] = Colon /\ str[at + 3] = NewLine
  BY <1>6, <1>7, <1>8, <1>9
<1>12. parseField(str, name, at) = RestOfLine(str, at + 2)
  <2>1. parseField(str, name, at) = RestOfLine(str, IF str[at + 3] = Blank THEN at + 3 ELSE at + 2)
    BY <1>9, <1>10, <1>11, Named
  <2>2. str[at + 3] # Blank
    BY <1>11 DEF NewLine, Blank
  <2>. QED BY <2>1, <2>2
<1>13. RestOfLine(str, at + 2) = Field(NoText, at + 3)
  <2> DEFINE here == at + 2
             none == NoText
  <2>1. /\ here \in Nat /\ here + 1 <= Len(str) /\ here <= Len(str) /\ here < Len(str)
        /\ here + 1 = at + 3 /\ here = here + 0 /\ Len(str) \in Nat
    BY <1>6, <1>9, <1>11
  <2>2. str[here + 1] = NewLine
    BY <1>11, <2>1
  <2>3. Listed(none) /\ Len(none) = 0 /\ Without(none, NewLine) /\ \A k \in 1..Len(none) : str[here + k] = none[k]
    <3>1. Len(<< >>) = 0 /\ 1..0 = {}
      OBVIOUS
    <3>. QED BY <3>1, EmptyListed DEF NoText, Without
  <2> HIDE DEF here, none
  <2>4. RestOfLine(str, here) = Field(none, IF here < Len(str) THEN here + 1 ELSE here)
    <3>1. here = here + Len(none)
      BY <2>1, <2>3
    <3>. QED BY <1>10, <2>1, <2>2, <2>3, <3>1, LineAt
  <2>. QED BY <2>1, <2>4 DEF here, none
<1>14. whole # << >>
  <2> HIDE DEF mark
  <2>. QED BY <1>3, <1>4, NotEmpty
<1>15. at # At(all, rest)
  BY <1>8, <1>11
<1>. QED BY <1>5, <1>8, <1>12, <1>13, <1>14, <1>15 DEF Place, at

\* The bullets that are read from a place on, with those that follow in a table.
BulletsAt(str, f, j) ==
  IF j >= Len(str) - 1 \/ Slice(str, j, 2) # <<"-", " ">> THEN << >>
  ELSE LET bullet == RestOfLine(str, j + 2) IN <<bullet.value>> \o f[bullet.i]
BulletsFrom(str, f, first) == \A j \in Nat : j >= first => f[j] = BulletsAt(str, f, j)

LEMMA LineAhead ==
  ASSUME NEW str, Listed(str), NEW i \in Nat
  PROVE  RestOfLine(str, i).i \in Nat /\ RestOfLine(str, i).i >= i
<1> DEFINE end == Find(str, i, NewLine)
           line == RestOfLine(str, i)
<1>1. Len(str) \in Nat
  BY LengthOfText
<1>2. end \in Nat /\ end >= i
  BY <1>1, FindAhead
<1>3. line.i = IF end < Len(str) THEN end + 1 ELSE end
  BY DEF RestOfLine, Field
<1> HIDE DEF end, line
<1>4. line.i \in Nat /\ line.i >= i
  BY <1>2, <1>3
<1>. QED BY <1>4 DEF line

LEMMA BulletsLookAhead ==
  ASSUME NEW str, Listed(str), NEW j \in Nat, NEW f, NEW g, \A n \in Nat : n > j => f[n] = g[n]
  PROVE  BulletsAt(str, f, j) = BulletsAt(str, g, j)
<1> DEFINE next == RestOfLine(str, j + 2).i
<1>1. next \in Nat /\ next > j
  <2>1. j + 2 \in Nat
    OBVIOUS
  <2>2. next \in Nat /\ next >= j + 2
    BY <2>1, LineAhead
  <2> HIDE DEF next
  <2>. QED BY <2>2
<1>2. f[next] = g[next]
  BY <1>1
<1>. QED BY <1>2 DEF BulletsAt

LEMMA BulletsExist ==
  ASSUME NEW str, Listed(str)
  PROVE  \E f : DOMAIN f = Nat /\ f = [n \in Nat |-> f[n]] /\ BulletsFrom(str, f, 0)
<1> DEFINE Known(m) == \E f : DOMAIN f = Nat /\ f = [n \in Nat |-> f[n]] /\ BulletsFrom(str, f, m)
           known == {m \in Nat : Known(m)}
<1>1. Len(str) \in known
  <2> DEFINE f == [n \in Nat |-> << >>]
  <2>1. Len(str) \in Nat
    BY LengthOfText
  <2>2. BulletsFrom(str, f, Len(str))
    <3>1. \A j \in Nat : j >= Len(str) => f[j] = << >> /\ j >= Len(str) - 1
      BY <2>1
    <3> HIDE DEF f
    <3>. QED BY <3>1 DEF BulletsFrom, BulletsAt
  <2>3. DOMAIN f = Nat /\ f = [n \in Nat |-> f[n]]
    OBVIOUS
  <2> HIDE DEF f
  <2>. QED BY <2>1, <2>2, <2>3
<1>2. ASSUME NEW m \in Nat, m > 0, Known(m)
      PROVE  Known(m - 1)
  <2>1. PICK f : DOMAIN f = Nat /\ f = [n \in Nat |-> f[n]] /\ BulletsFrom(str, f, m)
    BY <1>2
  <2> DEFINE p == m - 1
             here == BulletsAt(str, f, p)
             g == [n \in Nat |-> IF n = p THEN here ELSE f[n]]
  <2>2. p \in Nat /\ \A n \in Nat : n >= p => n = p \/ n >= m
    BY <1>2
  <2>3. \A n \in Nat : n > p => f[n] = g[n]
    <3> HIDE DEF here, p
    <3>. QED BY <2>2
  <2>4. DOMAIN g = Nat /\ g = [n \in Nat |-> g[n]]
    <3> HIDE DEF here, p
    <3>. QED OBVIOUS
  <2>5. g[p] = here
    <3> HIDE DEF here, p
    <3>. QED BY <2>2
  <2> HIDE DEF g
  <2>6. ASSUME NEW j \in Nat, j >= p
        PROVE  g[j] = BulletsAt(str, g, j)
    <3> HIDE DEF p
    <3>1. \A n \in Nat : n > j => f[n] = g[n]
      BY <2>2, <2>3, <2>6
    <3>2. BulletsAt(str, f, j) = BulletsAt(str, g, j)
      BY <3>1, BulletsLookAhead
    <3>3. CASE j = p
      BY <2>5, <3>2, <3>3
    <3>4. CASE j # p
      <4>1. j > p /\ j >= m
        BY <2>2, <2>6, <3>4
      <4>2. f[j] = BulletsAt(str, f, j)
        BY <2>1, <4>1 DEF BulletsFrom
      <4>3. g[j] = f[j]
        BY <2>3, <4>1
      <4>. QED BY <3>2, <4>2, <4>3
    <3>. QED BY <3>3, <3>4
  <2>7. BulletsFrom(str, g, p)
    BY <2>6 DEF BulletsFrom
  <2>. QED BY <2>4, <2>7
<1>3. Known(0)
  <2> HIDE DEF Known
  <2>1. PICK least \in known : \A m \in known : least <= m
    <3>1. known \in SUBSET Nat /\ known # {}
      BY <1>1
    <3> HIDE DEF known
    <3>. QED BY <3>1, Smallest
  <2>2. least \in Nat /\ Known(least)
    BY <2>1
  <2>3. ASSUME least # 0 PROVE FALSE
    <3>1. least - 1 \in Nat /\ least > 0 /\ ~ (least <= least - 1)
      BY <2>2, <2>3
    <3>2. Known(least - 1)
      BY <1>2, <2>2, <3>1
    <3>. QED BY <2>1, <3>1, <3>2
  <2>. QED BY <2>2, <2>3
<1>. QED BY <1>3

LEMMA BulletsFound ==
  ASSUME NEW str, Listed(str)
  PROVE  \E f : (\A i : parseArray(str, i) = f[i]) /\ BulletsFrom(str, f, 0)
<1> DEFINE Is(f) == f = [j \in Nat |->
                           IF j >= Len(str) - 1 \/ Slice(str, j, 2) # <<"-", " ">> THEN << >>
                           ELSE LET bullet == RestOfLine(str, j + 2)
                                IN  <<bullet.value>> \o f[bullet.i]]
           found == CHOOSE f : Is(f)
<1>1. \A i : parseArray(str, i) = found[i]
  BY DEF parseArray
<1>2. \E f : Is(f)
  <2>1. PICK f : DOMAIN f = Nat /\ f = [n \in Nat |-> f[n]] /\ BulletsFrom(str, f, 0)
    BY BulletsExist
  <2>2. \A j \in Nat : f[j] = BulletsAt(str, f, j)
    <3>1. \A j \in Nat : j >= 0
      OBVIOUS
    <3>. QED BY <2>1, <3>1 DEF BulletsFrom
  <2>3. f = [j \in Nat |-> BulletsAt(str, f, j)]
    BY <2>1, <2>2
  <2>4. Is(f)
    BY <2>3 DEF BulletsAt
  <2>. QED BY <2>4
<1>3. Is(found)
  <2> HIDE DEF Is
  <2>. QED BY <1>2
<1> HIDE DEF found
<1>4. BulletsFrom(str, found, 0)
  <2>1. found = [j \in Nat |-> BulletsAt(str, found, j)]
    BY <1>3 DEF BulletsAt
  <2>2. \A j \in Nat : found[j] = BulletsAt(str, found, j)
    BY <2>1
  <2>. QED BY <2>2 DEF BulletsFrom
<1>. QED BY <1>1, <1>4

\* A resource, and what follows it.
BulletLine(v) == <<"-", " ">> \o v \o <<NewLine>>
Dash == "-"
BulletOf(v, rest) == Chained(Single(Dash), Chained(Single(Blank), Chained(v, Chained(Single(NewLine), rest))))

LEMMA BulletFollowed ==
  ASSUME NEW v, Listed(v), NEW rest, Listed(rest)
  PROVE  /\ Chained(BulletLine(v), rest) = BulletOf(v, rest)
         /\ Listed(BulletLine(v)) /\ Listed(BulletOf(v, rest))
<1> DEFINE a == Single(Dash)
           c == Single(Blank)
           d == Single(NewLine)
           head == <<Dash, Blank>>
           begun == Chained(head, v)
<1>1. Listed(a) /\ Listed(c) /\ Listed(d)
  BY OneCharacter
<1>2. Listed(head) /\ head = Chained(a, c)
  BY Pairs
<1>3. BulletLine(v) = Chained(begun, d)
  BY Zenon DEF BulletLine, Chained, Single, Dash, Blank
<1>4. BulletOf(v, rest) = Chained(a, Chained(c, Chained(v, Chained(d, rest))))
  BY DEF BulletOf
<1> HIDE DEF a, c, d, head
<1> DEFINE e == Chained(d, rest)
           f == Chained(v, e)
           g == Chained(c, f)
<1>5. Listed(e) /\ Listed(f) /\ Listed(g) /\ Listed(Chained(a, g))
  <2>1. Listed(e)
    BY <1>1, TextsJoined
  <2>2. Listed(f)
    <3> HIDE DEF e
    <3>. QED BY <2>1, TextsJoined
  <2>3. Listed(g)
    <3> HIDE DEF f
    <3>. QED BY <1>1, <2>2, TextsJoined
  <2>4. Listed(Chained(a, g))
    <3> HIDE DEF g
    <3>. QED BY <1>1, <2>3, TextsJoined
  <2>. QED BY <2>1, <2>2, <2>3, <2>4
<1>6. Listed(begun) /\ Listed(BulletLine(v))
  <2>1. Listed(begun)
    BY <1>2, TextsJoined
  <2> HIDE DEF begun
  <2>. QED BY <1>1, <1>3, <2>1, TextsJoined
<1>7. Chained(BulletLine(v), rest) = Chained(begun, e)
  <2> HIDE DEF begun
  <2>. QED BY <1>1, <1>3, <1>6, TextsRegrouped
<1>8. Chained(begun, e) = Chained(head, f)
  <2> HIDE DEF e
  <2>. QED BY <1>2, <1>5, TextsRegrouped DEF f
<1> HIDE DEF begun, f
<1>9. Chained(head, f) = Chained(a, g)
  BY <1>1, <1>2, <1>5, TextsRegrouped
<1>10. BulletOf(v, rest) = Chained(a, g)
  BY <1>4 DEF e, f
<1>. QED BY <1>5, <1>6, <1>7, <1>8, <1>9, <1>10

LEMMA BulletRead ==
  ASSUME NEW str, NEW all, Trimmed(str, all), NEW v, Listed(v), Without(v, NewLine), NEW rest, Listed(rest),
         NEW whole, whole = BulletOf(v, rest), Left(all, whole), NEW f, BulletsFrom(str, f, 0)
  PROVE  /\ Left(all, rest) /\ whole # << >>
         /\ f[Place(str, all, whole)] = <<v>> \o f[Place(str, all, rest)]
<1> DEFINE a == Single(Dash)
           c == Single(Blank)
           d == Single(NewLine)
           tail == Chained(d, rest)
           said == Chained(v, tail)
           blank == Chained(c, said)
           at == At(all, whole)
<1>1. Listed(tail) /\ Len(tail) >= 1
  <2>1. Listed(tail) /\ Len(tail) = 1 + Len(rest)
    BY NotEmpty
  <2> HIDE DEF tail
  <2>. QED BY <2>1, LengthOfText
<1>2. Listed(said) /\ Len(said) \in Nat /\ Len(said) >= 1
  <2>1. Listed(tail)
    BY <1>1
  <2> HIDE DEF tail
  <2>2. Listed(said) /\ Len(said) = Len(v) + Len(tail) /\ Len(v) \in Nat /\ Len(tail) \in Nat
    BY <2>1, TextsJoined
  <2> HIDE DEF said
  <2>. QED BY <1>1, <2>2
<1>3. Listed(blank)
  <2> HIDE DEF said
  <2>. QED BY <1>2, NotEmpty
<1>4. whole = Chained(a, blank)
  BY DEF BulletOf
<1>5. /\ Left(all, blank) /\ At(all, blank) = at + 1 /\ at \in Nat /\ Len(str) \in Nat
      /\ at + 1 <= Len(str) => str[at + 1] = Dash
  <2> HIDE DEF blank
  <2>1. a = Single(Dash) /\ Trimmed(str, all) /\ Left(all, whole)
    OBVIOUS
  <2>. QED BY <1>3, <1>4, <2>1, CharacterLeft
<1>6. /\ Left(all, said) /\ At(all, said) = at + 2 /\ At(all, said) + Len(said) <= Len(str) + 1
      /\ at + 2 <= Len(str) => str[at + 2] = Blank
  <2>1. c = Single(Blank) /\ blank = Chained(c, said) /\ Left(all, blank)
    BY <1>5
  <2>2. At(all, blank) = at + 1 /\ at \in Nat
    BY <1>5
  <2>3. Listed(said)
    BY <1>2
  <2> HIDE DEF said, blank, c, at
  <2>4. /\ Left(all, said) /\ At(all, said) = At(all, blank) + 1
        /\ At(all, blank) + 1 <= Len(str) => str[At(all, blank) + 1] = Blank
    BY <2>1, <2>3, CharacterLeft
  <2>5. At(all, said) + Len(said) <= Len(str) + 1
    BY <2>1, <2>3, CharacterLeft
  <2>6. At(all, blank) + 1 = at + 2
    BY <2>2
  <2>. QED BY <2>2, <2>4, <2>5, <2>6
<1>7. at \in Nat /\ at + 2 <= Len(str) /\ ~ (at >= Len(str) - 1)
  <2>1. /\ at \in Nat /\ Len(str) \in Nat /\ Len(said) \in Nat /\ Len(said) >= 1
        /\ At(all, said) = at + 2 /\ At(all, said) + Len(said) <= Len(str) + 1
    BY <1>2, <1>5, <1>6
  <2> HIDE DEF at, said
  <2>. QED BY <2>1
<1>8. /\ Left(all, rest) /\ RestOfLine(str, At(all, said)) = Field(v, Place(str, all, rest))
  <2>1. tail = Chained(Single(NewLine), rest) /\ said = Chained(v, tail) /\ Left(all, said)
    BY <1>6
  <2> HIDE DEF tail, said
  <2>. QED BY <2>1, LineRead
<1>9. Listed(str)
  BY DEF Trimmed
<1>10. str[at + 1] = Dash /\ str[at + 2] = Blank
  <2>1. at + 1 <= Len(str)
    <3>1. at \in Nat /\ Len(str) \in Nat
      BY <1>5
    <3> HIDE DEF at
    <3>. QED BY <1>7, <3>1
  <2>. QED BY <1>5, <1>6, <1>7, <2>1
<1> HIDE DEF at, said
<1>11. Slice(str, at, 2) = <<"-", " ">>
  <2> DEFINE head == <<Dash, Blank>>
  <2>1. Listed(head) /\ Len(head) = 2
    BY Pairs
  <2>2. head[1] = Dash /\ head[2] = Blank
    OBVIOUS
  <2> HIDE DEF head
  <2>3. \A k \in 1..Len(head) : str[at + k] = head[k]
    <3>1. \A k \in 1..Len(head) : k = 1 \/ k = 2
      BY <2>1
    <3>. QED BY <1>10, <2>2, <3>1
  <2>4. at + Len(head) <= Len(str) /\ at + Len(head) = at + 2 /\ (at + 2) - at = 2
    BY <1>7, <2>1
  <2>5. substr(str, at, at + Len(head)) = head
    BY <1>7, <1>9, <2>1, <2>3, <2>4, TextTaken
  <2>6. Slice(str, at, 2) = head
    BY <2>4, <2>5 DEF substr
  <2>. QED BY <2>6, Zenon DEF head, Dash, Blank
<1>12. f[at] = <<v>> \o f[Place(str, all, rest)]
  <2>1. f[at] = BulletsAt(str, f, at)
    BY <1>7 DEF BulletsFrom
  <2>2. BulletsAt(str, f, at) = <<RestOfLine(str, at + 2).value>> \o f[RestOfLine(str, at + 2).i]
    BY <1>7, <1>11 DEF BulletsAt
  <2>3. RestOfLine(str, at + 2) = Field(v, Place(str, all, rest))
    BY <1>6, <1>8
  <2>. QED BY <2>1, <2>2, <2>3 DEF Field
<1>13. whole # << >>
  <2> HIDE DEF blank
  <2>. QED BY <1>3, <1>4, NotEmpty
<1>. QED BY <1>8, <1>12, <1>13 DEF Place, at

\* The resources of a message.
IsTextList(values) == Listed(values) /\ \A k \in 1..Len(values) : Listed(values[k]) /\ Without(values[k], NewLine)
BulletsOf(values) == FlattenSeq([k \in DOMAIN values |-> <<"-", " ">> \o values[k] \o <<NewLine>>])

LEMMA BulletParts ==
  ASSUME NEW values, Listed(values)
  PROVE  \E parts : /\ BulletsOf(values) = flatten(parts) /\ Len(parts) = Len(values)
                    /\ \A k \in 1..Len(values) : parts[k] = BulletLine(values[k])
<1> DEFINE n == Len(values)
           parts == [k \in DOMAIN values |-> BulletLine(values[k])]
<1>1. n \in Nat /\ DOMAIN values = 1..n
  BY DEF Listed
<1>2. Len(parts) = n /\ \A k \in 1..n : parts[k] = BulletLine(values[k])
  <2> DEFINE S == {BulletLine(values[k]) : k \in 1..n}
  <2>1. parts = [k \in 1..n |-> BulletLine(values[k])]
    BY <1>1
  <2>2. \A k \in 1..n : parts[k] = BulletLine(values[k])
    BY <2>1
  <2>3. \A k \in 1..n : parts[k] \in S
    BY <2>2
  <2>4. DOMAIN parts = 1..n /\ parts = [k \in 1..n |-> parts[k]]
    BY <2>1
  <2> HIDE DEF parts, S, n
  <2>5. Len(parts) = n
    BY <1>1, <2>4, LenProperties, IsASeq
  <2>. QED BY <2>2, <2>5
<1>3. BulletsOf(values) = flatten(parts)
  BY DEF BulletsOf, flatten, BulletLine
<1>. QED BY <1>2, <1>3

LEMMA NoBullets ==
  ASSUME NEW str, Listed(str), NEW f, BulletsFrom(str, f, 0)
  PROVE  f[Len(str)] = << >>
<1>1. Len(str) \in Nat /\ Len(str) >= 0 /\ Len(str) >= Len(str) - 1
  BY LengthOfText
<1>2. f[Len(str)] = BulletsAt(str, f, Len(str))
  BY <1>1 DEF BulletsFrom
<1>. QED BY <1>1, <1>2 DEF BulletsAt

\* The rest of a list, from its first value on.
LEMMA RestOfList ==
  ASSUME NEW list, Listed(list), NEW k \in 1..Len(list)
  PROVE  /\ SubSeq(list, k, Len(list)) = <<list[k]>> \o SubSeq(list, k + 1, Len(list))
         /\ SubSeq(list, Len(list) + 1, Len(list)) = << >>
         /\ SubSeq(list, 1, Len(list)) = list
<1>1. PICK S : list \in Seq(S)
  BY DEF Listed
<1>2. Len(list) \in Nat /\ Len(list) \in k..Len(list)
  BY <1>1
<1>3. SubSeq(list, k, Len(list)) = <<list[k]>> \o SubSeq(list, k + 1, Len(list))
  BY <1>1, <1>2, SubSeqRecursiveFirst
<1>4. SubSeq(list, Len(list) + 1, Len(list)) = << >>
  BY <1>1, <1>2
<1>5. SubSeq(list, 1, Len(list)) = list
  BY <1>1
<1>. QED BY <1>3, <1>4, <1>5

\* Bullets, one after the other.
Grown(G, values) ==
  /\ G[0] = << >> /\ G[Len(values)] = BulletsOf(values)
  /\ \A k \in 1..Len(values) : G[k] = Chained(G[k - 1], BulletLine(values[k]))
  /\ \A k \in 0..Len(values) : Listed(G[k])

LEMMA BulletsGrow ==
  ASSUME NEW values, IsTextList(values)
  PROVE  \E G : Grown(G, values)
<1> DEFINE n == Len(values)
<1>1. n \in Nat /\ Listed(values) /\ (values = << >> <=> n = 0)
  BY LengthOfText DEF IsTextList
<1>2. PICK parts : /\ BulletsOf(values) = flatten(parts) /\ Len(parts) = n
                   /\ \A k \in 1..n : parts[k] = BulletLine(values[k])
  BY <1>1, BulletParts
<1>3. CASE n = 0
  <2>1. BulletsOf(values) = << >>
    <3>1. values = << >> /\ DOMAIN << >> = {}
      BY <1>1, <1>3
    <3>2. [k \in DOMAIN values |-> <<"-", " ">> \o values[k] \o <<NewLine>>] = << >>
      BY <3>1
    <3>3. Len(<< >>) = 0
      OBVIOUS
    <3>. QED BY <3>2, <3>3 DEF BulletsOf, FlattenSeq
  <2> DEFINE G == [k \in {0} |-> << >>]
  <2>2. G[0] = << >> /\ 1..0 = {} /\ 0..0 = {0}
    OBVIOUS
  <2> HIDE DEF G
  <2>3. Grown(G, values)
    BY <1>3, <2>1, <2>2, EmptyListed DEF Grown
  <2>. QED BY <2>3
<1>4. CASE n # 0
  <2>1. PICK g : BulletsOf(values) = g[n] /\ IsFlat(g, parts, n)
    BY <1>1, <1>2, <1>4, Flattened
  <2> DEFINE G == [k \in 0..n |-> IF k = 0 THEN << >> ELSE g[k]]
  <2>2. G[0] = << >> /\ \A k \in 1..n : G[k] = g[k]
    BY <1>1
  <2> HIDE DEF G
  <2>3. ASSUME NEW k \in 1..n PROVE Listed(parts[k]) /\ parts[k] = BulletLine(values[k])
    <3>1. Listed(values[k])
      BY <2>3 DEF IsTextList
    <3>2. Listed(BulletLine(values[k]))
      BY <3>1, EmptyListed, BulletFollowed
    <3>. QED BY <1>2, <3>1, <3>2
  <2>4. ASSUME NEW k \in 1..n PROVE G[k] = Chained(G[k - 1], BulletLine(values[k]))
    <3>1. g[k] = IF k = 1 THEN parts[1] ELSE g[k - 1] \o parts[k]
      BY <2>1 DEF IsFlat
    <3>2. G[k] = g[k] /\ (k # 1 => k - 1 \in 1..n)
      BY <2>2
    <3>3. CASE k = 1
      <4>1. G[k] = parts[k] /\ G[k - 1] = << >>
        BY <2>2, <3>1, <3>2, <3>3
      <4>. QED BY <2>3, <4>1, EmptyFirst
    <3>4. CASE k # 1
      <4>1. G[k - 1] = g[k - 1]
        BY <2>2, <3>2, <3>4
      <4>. QED BY <2>3, <3>1, <3>2, <3>4, <4>1 DEF Chained
    <3>. QED BY <3>3, <3>4
  <2>5. \A k \in 0..n : Listed(G[k])
    <3> DEFINE bad == {k \in 0..n : ~ Listed(G[k])}
    <3>1. ASSUME bad # {} PROVE FALSE
      <4>1. bad \in SUBSET Nat
        BY <1>1
      <4>2. PICK least \in bad : \A k \in bad : least <= k
        <5> HIDE DEF bad
        <5>. QED BY <3>1, <4>1, Smallest
      <4>3. least \in 0..n /\ ~ Listed(G[least])
        BY <4>2
      <4>4. least # 0
        BY <2>2, <4>3, EmptyListed
      <4>5. least \in 1..n /\ least - 1 \in 0..n /\ ~ (least <= least - 1)
        BY <1>1, <4>3, <4>4
      <4>6. Listed(G[least - 1])
        BY <4>2, <4>5
      <4>7. G[least] = Chained(G[least - 1], BulletLine(values[least])) /\ Listed(BulletLine(values[least]))
        BY <2>3, <2>4, <4>5
      <4>. QED BY <4>3, <4>6, <4>7, TextsJoined
    <3>. QED BY <3>1
  <2>6. G[n] = BulletsOf(values)
    <3>1. n \in 1..n
      BY <1>1, <1>4
    <3>. QED BY <2>1, <2>2, <3>1
  <2>7. Grown(G, values)
    BY <2>2, <2>4, <2>5, <2>6 DEF Grown
  <2>. QED BY <2>7
<1>. QED BY <1>3, <1>4

LEMMA BulletsText ==
  ASSUME NEW values, IsTextList(values)
  PROVE  Listed(BulletsOf(values)) /\ (BulletsOf(values) = << >> <=> values = << >>)
<1> DEFINE n == Len(values)
<1>1. n \in Nat /\ Listed(values) /\ (values = << >> <=> n = 0)
  BY LengthOfText DEF IsTextList
<1>2. PICK G : Grown(G, values)
  BY BulletsGrow
<1>3. Listed(BulletsOf(values)) /\ (n = 0 => BulletsOf(values) = << >>)
  <2>1. n \in 0..n
    BY <1>1
  <2>. QED BY <1>2, <2>1 DEF Grown
<1>4. ASSUME n # 0 PROVE BulletsOf(values) # << >>
  <2>1. n \in 1..n /\ n - 1 \in 0..n
    BY <1>1, <1>4
  <2> DEFINE before == G[n - 1]
             v == values[n]
  <2>2. BulletsOf(values) = Chained(before, BulletLine(v)) /\ Listed(before)
    BY <1>2, <2>1 DEF Grown
  <2>3. Listed(v)
    BY <2>1 DEF IsTextList
  <2> HIDE DEF before, v
  <2>4. Chained(BulletLine(v), << >>) = BulletOf(v, << >>) /\ Listed(BulletLine(v))
    BY <2>3, EmptyListed, BulletFollowed
  <2>5. BulletLine(v) = BulletOf(v, << >>)
    BY <2>4, EmptyFirst
  <2>6. BulletLine(v) # << >>
    <3> DEFINE more == Chained(Single(Blank), Chained(v, Chained(Single(NewLine), << >>)))
    <3>1. Listed(more)
      <4> DEFINE end == Chained(Single(NewLine), << >>)
      <4>1. Listed(end)
        BY EmptyListed, NotEmpty
      <4> HIDE DEF end
      <4>2. Listed(Chained(v, end))
        BY <2>3, <4>1, TextsJoined
      <4> DEFINE said == Chained(v, end)
      <4>3. Listed(said)
        BY <4>2
      <4> HIDE DEF said
      <4>4. Listed(Chained(Single(Blank), said))
        BY <4>3, NotEmpty
      <4>. QED BY <4>4 DEF said, end
    <3>2. BulletOf(v, << >>) = Chained(Single(Dash), more)
      BY DEF BulletOf
    <3> HIDE DEF more
    <3>. QED BY <2>5, <3>1, <3>2, NotEmpty
  <2>7. Len(BulletLine(v)) \in Nat /\ Len(BulletLine(v)) # 0
    BY <2>4, <2>6, LengthOfText
  <2>8. Len(BulletsOf(values)) = Len(before) + Len(BulletLine(v)) /\ Len(before) \in Nat
    BY <2>2, <2>4, TextsJoined
  <2>9. Len(BulletsOf(values)) # 0
    BY <2>7, <2>8
  <2>. QED BY <1>3, <2>9, LengthOfText
<1>. QED BY <1>1, <1>3, <1>4

LEMMA BulletsRead ==
  ASSUME NEW str, NEW all, Trimmed(str, all), NEW values, IsTextList(values),
         NEW whole, whole = BulletsOf(values), Left(all, whole), NEW f, BulletsFrom(str, f, 0)
  PROVE  f[Place(str, all, whole)] = values
<1> DEFINE n == Len(values)
<1>1. n \in Nat /\ Listed(values) /\ (values = << >> <=> n = 0) /\ Listed(str) /\ Listed(all)
  BY LengthOfText DEF IsTextList, Trimmed
<1>2. PICK G : Grown(G, values)
  BY BulletsGrow
<1>3. G[0] = << >> /\ G[n] = whole /\ Listed(whole) /\ \A k \in 0..n : Listed(G[k])
  <2>1. n \in 0..n
    BY <1>1
  <2>. QED BY <1>2, <2>1 DEF Grown
<1> DEFINE Good(k) == \E t : /\ Listed(t) /\ whole = Chained(G[k], t)
                             /\ f[Place(str, all, t)] = SubSeq(values, k + 1, n)
           good == {k \in 0..n : Good(k)}
<1>4. Good(n)
  <2>1. f[Place(str, all, << >>)] = << >>
    BY <1>1, NoBullets DEF Place
  <2>2. SubSeq(values, n + 1, n) = << >>
    <3>1. PICK S : values \in Seq(S)
      BY <1>1 DEF Listed
    <3>. QED BY <1>1, <3>1
  <2>3. whole = Chained(G[n], << >>)
    BY <1>3, EmptyFirst
  <2>. QED BY <2>1, <2>2, <2>3, EmptyListed
<1>5. ASSUME NEW k \in 1..n, Good(k) PROVE Good(k - 1)
  <2>1. PICK t : /\ Listed(t) /\ whole = Chained(G[k], t)
                 /\ f[Place(str, all, t)] = SubSeq(values, k + 1, n)
    BY <1>5
  <2> DEFINE v == values[k]
             line == BulletLine(v)
             before == G[k - 1]
             more == Chained(line, t)
  <2>2. Listed(v) /\ Without(v, NewLine)
    BY DEF IsTextList
  <2>3. Listed(line)
    BY <2>2, EmptyListed, BulletFollowed
  <2>4. Listed(before) /\ G[k] = Chained(before, line)
    <3>1. k - 1 \in 0..n
      BY <1>1
    <3>. QED BY <1>2, <1>3, <3>1 DEF Grown
  <2>5. more = BulletOf(v, t)
    BY <2>1, <2>2, BulletFollowed
  <2> HIDE DEF line, before
  <2>6. Listed(more)
    BY <2>1, <2>3, TextsJoined
  <2>7. whole = Chained(before, more)
    BY <2>1, <2>3, <2>4, TextsRegrouped
  <2>8. Left(all, more)
    <3> HIDE DEF more
    <3>. QED BY <1>1, <2>4, <2>6, <2>7, LeftAfter
  <2>9. f[Place(str, all, more)] = <<v>> \o f[Place(str, all, t)]
    <3>1. Listed(t)
      BY <2>1
    <3> HIDE DEF v, more
    <3>. QED BY <2>2, <2>5, <2>8, <3>1, BulletRead
  <2>10. f[Place(str, all, more)] = SubSeq(values, (k - 1) + 1, n)
    <3>1. SubSeq(values, k, n) = <<v>> \o SubSeq(values, k + 1, n)
      BY <1>1, RestOfList
    <3>2. (k - 1) + 1 = k
      OBVIOUS
    <3>. QED BY <2>1, <2>9, <3>1, <3>2
  <2> HIDE DEF more
  <2>. QED BY <2>6, <2>7, <2>10 DEF before
<1>6. Good(0)
  <2> HIDE DEF Good
  <2>1. good \in SUBSET Nat /\ good # {}
    <3>1. n \in good
      BY <1>1, <1>4
    <3>. QED BY <1>1, <3>1
  <2>2. ASSUME NEW m \in good, m > 0 PROVE m - 1 \in good
    <3>1. m \in 1..n /\ Good(m) /\ m - 1 \in 0..n
      BY <1>1, <2>2
    <3>. QED BY <1>5, <3>1
  <2>3. 0 \in good
    <3> HIDE DEF good
    <3>. QED BY <2>1, <2>2, Descent
  <2>. QED BY <2>3
<1>7. PICK t : /\ Listed(t) /\ whole = Chained(G[0], t)
               /\ f[Place(str, all, t)] = SubSeq(values, 0 + 1, n)
  BY <1>6
<1>8. whole = t
  BY <1>3, <1>7, EmptyFirst
<1>9. SubSeq(values, 0 + 1, n) = values
  <2>1. PICK S : values \in Seq(S)
    BY <1>1 DEF Listed
  <2>. QED BY <2>1
<1>. QED BY <1>7, <1>8, <1>9

IsText(value) == Listed(value) /\ Without(value, NewLine)

\* A message from its resources on, and from each of the optional fields on.
ResourcesText(f) ==
  Chained(IF f.resources = << >> THEN << >> ELSE <<"Resources", Colon, NewLine>>, BulletsOf(f.resources))
RequestText(f) == Chained(Optional("Request ID", f.requestId), ResourcesText(f))
NotBeforeText(f) == Chained(Optional("Not Before", f.notBefore), RequestText(f))
ExpirationText(f) == Chained(Optional("Expiration Time", f.expirationTime), NotBeforeText(f))

LEMMA ResourcesNamed ==
  ASSUME NEW f, IsTextList(f.resources)
  PROVE  Listed(ResourcesText(f)) /\ Names(ResourcesText(f), {"Resources"})
<1> DEFINE bullets == BulletsOf(f.resources)
           text == ResourcesText(f)
           name == "Resources"
           head == <<name, Colon, NewLine>>
<1>1. Listed(bullets) /\ (bullets = << >> <=> f.resources = << >>)
  BY BulletsText
<1>2. CASE f.resources = << >>
  <2>1. text = Chained(<< >>, bullets)
    BY <1>2 DEF ResourcesText
  <2>2. text = << >>
    BY <1>1, <1>2, <2>1, EmptyFirst
  <2>. QED BY <2>2, EmptyListed DEF Names
<1>3. CASE f.resources # << >>
  <2>1. text = Chained(head, bullets)
    BY <1>3 DEF ResourcesText
  <2> DEFINE two == Chained(Single(Colon), Single(NewLine))
             mark == Chained(Single(NewLine), bullets)
  <2>2. Listed(head) /\ head = Chained(Single(name), two)
    BY ThreeCharacters
  <2>3. Listed(Single(name)) /\ Listed(Single(Colon)) /\ Listed(Single(NewLine))
    BY OneCharacter
  <2>4. Listed(two)
    BY <2>3, TextsJoined
  <2> HIDE DEF bullets, head, name
  <2>5. Listed(text)
    BY <1>1, <2>1, <2>2, TextsJoined
  <2>6. Listed(mark) /\ mark # << >>
    BY <1>1, NotEmpty
  <2>7. Chained(two, bullets) = Chained(Single(Colon), mark)
    BY <1>1, <2>3, TextsRegrouped
  <2> HIDE DEF two, mark
  <2>8. text = Chained(Single(name), Chained(two, bullets))
    BY <1>1, <2>1, <2>2, <2>3, <2>4, TextsRegrouped
  <2>9. Starts(text, name)
    BY <2>6, <2>7, <2>8 DEF Starts
  <2>. QED BY <2>5, <2>9 DEF Names, name
<1>. QED BY <1>2, <1>3

LEMMA ResourcesRead ==
  ASSUME NEW str, NEW all, Trimmed(str, all), NEW f, IsTextList(f.resources),
         NEW whole, whole = ResourcesText(f), Left(all, whole),
         NEW i, i = Place(str, all, whole), NEW resources, resources = parseField(str, "Resources", i)
  PROVE  (IF resources.i = i THEN << >> ELSE parseArray(str, resources.i)) = f.resources
<1> DEFINE bullets == BulletsOf(f.resources)
           name == "Resources"
<1>1. Listed(bullets) /\ (bullets = << >> <=> f.resources = << >>)
  BY BulletsText
<1>2. Listed(str)
  BY DEF Trimmed
<1>3. CASE f.resources = << >>
  <2>1. whole = Chained(<< >>, bullets)
    BY <1>3 DEF ResourcesText
  <2>2. whole = << >>
    BY <1>1, <1>3, <2>1, EmptyFirst
  <2>3. i = Len(str)
    BY <2>2 DEF Place
  <2>4. resources = Field(NoText, i)
    BY <1>2, <2>3, NothingLeft
  <2>. QED BY <1>3, <2>4 DEF Field
<1>4. CASE f.resources # << >>
  <2>1. whole = Chained(<<name, Colon, NewLine>>, bullets)
    BY <1>4 DEF ResourcesText
  <2>2. name # Colon
    BY DEF Colon
  <2>3. bullets # << >>
    BY <1>1, <1>4
  <2>4. resources = parseField(str, name, Place(str, all, whole))
    OBVIOUS
  <2> HIDE DEF bullets, name
  <2>5. /\ Left(all, bullets) /\ Starts(whole, name) /\ At(all, whole) # At(all, bullets)
        /\ parseField(str, name, Place(str, all, whole)) = Field(NoText, At(all, bullets))
    BY <1>1, <2>1, <2>2, <2>3, ResourcesStart
  <2>6. resources.i = At(all, bullets)
    BY <2>4, <2>5 DEF Field
  <2>7. whole # << >>
    <3>1. PICK more : Listed(more) /\ more # << >> /\ whole = Chained(Single(name), Chained(Single(Colon), more))
      BY <2>5 DEF Starts
    <3>2. Listed(Chained(Single(Colon), more))
      BY <3>1, NotEmpty
    <3> DEFINE mark == Chained(Single(Colon), more)
    <3>3. Listed(mark) /\ whole = Chained(Single(name), mark)
      BY <3>1, <3>2
    <3> HIDE DEF mark
    <3>. QED BY <3>3, NotEmpty
  <2>8. resources.i # i /\ resources.i = Place(str, all, bullets)
    BY <2>3, <2>5, <2>6, <2>7 DEF Place
  <2>9. PICK found : (\A j : parseArray(str, j) = found[j]) /\ BulletsFrom(str, found, 0)
    BY <1>2, BulletsFound
  <2>10. found[Place(str, all, bullets)] = f.resources
    <3>1. bullets = BulletsOf(f.resources) /\ BulletsFrom(str, found, 0)
      BY <2>9 DEF bullets
    <3>. QED BY <2>5, <3>1, BulletsRead
  <2>. QED BY <2>8, <2>9, <2>10
<1>. QED BY <1>3, <1>4

LEMMA OptionalsNamed ==
  ASSUME NEW f, IsTextList(f.resources), IsText(f.requestId), IsText(f.notBefore), IsText(f.expirationTime)
  PROVE  /\ Listed(ResourcesText(f)) /\ Listed(RequestText(f)) /\ Listed(NotBeforeText(f))
         /\ Listed(ExpirationText(f))
<1>1. Listed(ResourcesText(f))
  BY ResourcesNamed
<1>2. /\ Listed(Optional("Request ID", f.requestId)) /\ Listed(Optional("Not Before", f.notBefore))
      /\ Listed(Optional("Expiration Time", f.expirationTime))
  BY OptionalListed DEF IsText
<1>3. Listed(RequestText(f))
  BY <1>1, <1>2, TextsJoined DEF RequestText
<1>4. Listed(NotBeforeText(f))
  BY <1>2, <1>3, TextsJoined DEF NotBeforeText
<1>5. Listed(ExpirationText(f))
  BY <1>2, <1>4, TextsJoined DEF ExpirationText
<1>. QED BY <1>1, <1>3, <1>4, <1>5

\* What the optional fields are read as, from the first of them on.
LEMMA OptionalsRead ==
  ASSUME NEW str, NEW all, Trimmed(str, all), NEW f,
         IsTextList(f.resources), IsText(f.requestId), IsText(f.notBefore), IsText(f.expirationTime),
         Left(all, ExpirationText(f))
  PROVE  /\ parseField(str, "Expiration Time", Place(str, all, ExpirationText(f)))
              = Field(f.expirationTime, Place(str, all, NotBeforeText(f)))
         /\ parseField(str, "Not Before", Place(str, all, NotBeforeText(f)))
              = Field(f.notBefore, Place(str, all, RequestText(f)))
         /\ parseField(str, "Request ID", Place(str, all, RequestText(f)))
              = Field(f.requestId, Place(str, all, ResourcesText(f)))
         /\ Left(all, ResourcesText(f))
<1> DEFINE resources == ResourcesText(f)
           asked == RequestText(f)
           notBefore == NotBeforeText(f)
           expiration == ExpirationText(f)
           ids == {"Resources"}
           starts == ids \cup {"Request ID"}
           ends == starts \cup {"Not Before"}
<1>1. Listed(resources) /\ Names(resources, ids)
  BY ResourcesNamed
<1>2. Listed(asked) /\ Listed(notBefore) /\ Listed(expiration)
  BY OptionalsNamed
<1>3. /\ asked = Chained(Optional("Request ID", f.requestId), resources)
      /\ notBefore = Chained(Optional("Not Before", f.notBefore), asked)
      /\ expiration = Chained(Optional("Expiration Time", f.expirationTime), notBefore)
  BY DEF RequestText, NotBeforeText, ExpirationText
<1>4. /\ Listed(f.requestId) /\ Without(f.requestId, NewLine)
      /\ Listed(f.notBefore) /\ Without(f.notBefore, NewLine)
      /\ Listed(f.expirationTime) /\ Without(f.expirationTime, NewLine)
  BY DEF IsText
<1>5. /\ "Request ID" # Colon /\ "Not Before" # Colon /\ "Expiration Time" # Colon
      /\ "Request ID" \notin ids /\ "Not Before" \notin starts /\ "Expiration Time" \notin ends
      /\ Colon \notin ids /\ Colon \notin starts /\ Colon \notin ends
  BY DEF Colon
<1>6. Left(all, expiration)
  OBVIOUS
<1> HIDE DEF resources, asked, notBefore, expiration, ids
<1>7. Left(all, notBefore)
  <2> DEFINE part == Optional("Expiration Time", f.expirationTime)
  <2>1. Listed(part) /\ Listed(all)
    BY <1>4, OptionalListed DEF Trimmed
  <2>2. expiration = Chained(part, notBefore) /\ Listed(notBefore) /\ Left(all, expiration)
    BY <1>2, <1>3, <1>6
  <2> HIDE DEF part
  <2>. QED BY <2>1, <2>2, LeftAfter
<1>8. Left(all, asked)
  <2> DEFINE part == Optional("Not Before", f.notBefore)
  <2>1. Listed(part) /\ Listed(all)
    BY <1>4, OptionalListed DEF Trimmed
  <2>2. notBefore = Chained(part, asked) /\ Listed(asked) /\ Left(all, notBefore)
    BY <1>2, <1>3, <1>7
  <2> HIDE DEF part
  <2>. QED BY <2>1, <2>2, LeftAfter
<1>9. /\ Left(all, resources) /\ Names(asked, starts)
      /\ parseField(str, "Request ID", Place(str, all, asked)) = Field(f.requestId, Place(str, all, resources))
  <2> DEFINE name == "Request ID"
             value == f.requestId
  <2>1. /\ name # Colon /\ name \notin ids /\ Colon \notin ids /\ Listed(value) /\ Without(value, NewLine)
        /\ asked = Chained(Optional(name, value), resources) /\ starts = ids \cup {name}
    BY <1>3, <1>4, <1>5
  <2> HIDE DEF name, value, starts
  <2>2. /\ Left(all, resources) /\ Names(asked, ids \cup {name})
        /\ parseField(str, name, Place(str, all, asked)) = Field(value, Place(str, all, resources))
    BY <1>1, <1>8, <2>1, OptionalRead
  <2>. QED BY <2>1, <2>2 DEF name, value
<1> HIDE DEF starts
<1>10. /\ Names(notBefore, ends)
       /\ parseField(str, "Not Before", Place(str, all, notBefore)) = Field(f.notBefore, Place(str, all, asked))
  <2> DEFINE name == "Not Before"
             value == f.notBefore
  <2>1. /\ name # Colon /\ name \notin starts /\ Colon \notin starts /\ Listed(value) /\ Without(value, NewLine)
        /\ notBefore = Chained(Optional(name, value), asked) /\ ends = starts \cup {name}
    BY <1>3, <1>4, <1>5
  <2> HIDE DEF name, value, ends
  <2>2. /\ Names(notBefore, starts \cup {name})
        /\ parseField(str, name, Place(str, all, notBefore)) = Field(value, Place(str, all, asked))
    <3>1. Listed(asked) /\ Names(asked, starts) /\ Left(all, notBefore)
      BY <1>2, <1>7, <1>9
    <3>2. notBefore = Chained(Optional(name, value), asked)
      BY <2>1
    <3>3. name # Colon /\ name \notin starts /\ Colon \notin starts /\ Listed(value) /\ Without(value, NewLine)
      BY <2>1
    <3>. QED BY <3>1, <3>2, <3>3, OptionalRead
  <2>. QED BY <2>1, <2>2 DEF name, value
<1> HIDE DEF ends
<1>11. parseField(str, "Expiration Time", Place(str, all, expiration))
         = Field(f.expirationTime, Place(str, all, notBefore))
  <2> DEFINE name == "Expiration Time"
             value == f.expirationTime
  <2>1. /\ name # Colon /\ name \notin ends /\ Colon \notin ends /\ Listed(value) /\ Without(value, NewLine)
        /\ expiration = Chained(Optional(name, value), notBefore)
    BY <1>3, <1>4, <1>5
  <2> HIDE DEF name, value
  <2>2. /\ Names(expiration, ends \cup {name})
        /\ parseField(str, name, Place(str, all, expiration)) = Field(value, Place(str, all, notBefore))
    <3>1. Listed(notBefore) /\ Names(notBefore, ends) /\ Left(all, expiration)
      BY <1>2, <1>6, <1>10
    <3>2. expiration = Chained(Optional(name, value), notBefore)
      BY <2>1
    <3>3. name # Colon /\ name \notin ends /\ Colon \notin ends /\ Listed(value) /\ Without(value, NewLine)
      BY <2>1
    <3>. QED BY <3>1, <3>2, <3>3, OptionalRead
  <2>. QED BY <2>2 DEF name, value
<1>. QED BY <1>9, <1>10, <1>11 DEF resources, asked, notBefore, expiration

\* A message from each of the fields on that it always has.
IssuedText(f) == Chained(Line("Issued At", f.issuedAt), ExpirationText(f))
NonceText(f) == Chained(Line("Nonce", f.nonce), IssuedText(f))
ChainText(f) == Chained(Line("Chain ID", f.chainId), NonceText(f))
VersionText(f) == Chained(Line("Version", f.version), ChainText(f))
UriText(f) == Chained(Line("URI", f.uri), VersionText(f))

AreFields(f) ==
  /\ IsTextList(f.resources) /\ IsText(f.requestId) /\ IsText(f.notBefore) /\ IsText(f.expirationTime)
  /\ IsText(f.issuedAt) /\ IsText(f.nonce) /\ IsText(f.chainId) /\ IsText(f.version) /\ IsText(f.uri)

\* A field that is always there, and what it leaves.
LEMMA LineOfField ==
  ASSUME NEW str, NEW all, Trimmed(str, all), NEW name, name # Colon, NEW value, IsText(value),
         NEW rest, Listed(rest), NEW whole, whole = Chained(Line(name, value), rest), Left(all, whole)
  PROVE  /\ Left(all, rest) /\ parseField(str, name, Place(str, all, whole)) = Field(value, Place(str, all, rest))
<1>1. Listed(value) /\ Without(value, NewLine)
  BY DEF IsText
<1>2. whole = LineOf(name, value, rest)
  BY <1>1, LineFollowed
<1>. QED BY <1>1, <1>2, FieldPresent

LEMMA LineJoined ==
  ASSUME NEW name, NEW value, IsText(value), NEW rest, Listed(rest)
  PROVE  Listed(Chained(Line(name, value), rest))
<1>1. Listed(value)
  BY DEF IsText
<1>2. Chained(Line(name, value), rest) = LineOf(name, value, rest) /\ Listed(LineOf(name, value, rest))
  BY <1>1, LineFollowed
<1>. QED BY <1>2

LEMMA FieldTexts ==
  ASSUME NEW f, AreFields(f)
  PROVE  /\ Listed(ExpirationText(f)) /\ Listed(IssuedText(f)) /\ Listed(NonceText(f)) /\ Listed(ChainText(f))
         /\ Listed(VersionText(f)) /\ Listed(UriText(f))
<1>1. Listed(ExpirationText(f))
  BY OptionalsNamed DEF AreFields
<1>2. Listed(IssuedText(f))
  BY <1>1, LineJoined DEF AreFields, IssuedText
<1>3. Listed(NonceText(f))
  BY <1>2, LineJoined DEF AreFields, NonceText
<1>4. Listed(ChainText(f))
  BY <1>3, LineJoined DEF AreFields, ChainText
<1>5. Listed(VersionText(f))
  BY <1>4, LineJoined DEF AreFields, VersionText
<1>6. Listed(UriText(f))
  BY <1>5, LineJoined DEF AreFields, UriText
<1>. QED BY <1>1, <1>2, <1>3, <1>4, <1>5, <1>6

\* What these fields are read as, from the first of them on.
LEMMA LinesRead ==
  ASSUME NEW str, NEW all, Trimmed(str, all), NEW f, AreFields(f), Left(all, UriText(f))
  PROVE  /\ parseField(str, "URI", Place(str, all, UriText(f))) = Field(f.uri, Place(str, all, VersionText(f)))
         /\ parseField(str, "Version", Place(str, all, VersionText(f))) = Field(f.version, Place(str, all, ChainText(f)))
         /\ parseField(str, "Chain ID", Place(str, all, ChainText(f))) = Field(f.chainId, Place(str, all, NonceText(f)))
         /\ parseField(str, "Nonce", Place(str, all, NonceText(f))) = Field(f.nonce, Place(str, all, IssuedText(f)))
         /\ parseField(str, "Issued At", Place(str, all, IssuedText(f))) = Field(f.issuedAt, Place(str, all, ExpirationText(f)))
         /\ Left(all, ExpirationText(f))
<1>1. /\ Left(all, VersionText(f))
      /\ parseField(str, "URI", Place(str, all, UriText(f))) = Field(f.uri, Place(str, all, VersionText(f)))
  <2> DEFINE name == "URI"
             value == f.uri
             rest == VersionText(f)
             whole == UriText(f)
  <2>1. name # Colon
    BY DEF Colon
  <2>2. whole = Chained(Line(name, value), rest)
    BY DEF UriText
  <2>3. IsText(value) /\ Listed(rest)
    BY FieldTexts DEF AreFields
  <2>4. Left(all, whole)
    OBVIOUS
  <2> HIDE DEF name, value, rest, whole
  <2>5. Left(all, rest) /\ parseField(str, name, Place(str, all, whole)) = Field(value, Place(str, all, rest))
    BY <2>1, <2>2, <2>3, <2>4, LineOfField
  <2>. QED BY <2>5 DEF name, value, rest, whole
<1>2. /\ Left(all, ChainText(f))
      /\ parseField(str, "Version", Place(str, all, VersionText(f))) = Field(f.version, Place(str, all, ChainText(f)))
  <2> DEFINE name == "Version"
             value == f.version
             rest == ChainText(f)
             whole == VersionText(f)
  <2>1. name # Colon
    BY DEF Colon
  <2>2. whole = Chained(Line(name, value), rest)
    BY DEF VersionText
  <2>3. IsText(value) /\ Listed(rest)
    BY FieldTexts DEF AreFields
  <2>4. Left(all, whole)
    BY <1>1
  <2> HIDE DEF name, value, rest, whole
  <2>5. Left(all, rest) /\ parseField(str, name, Place(str, all, whole)) = Field(value, Place(str, all, rest))
    BY <2>1, <2>2, <2>3, <2>4, LineOfField
  <2>. QED BY <2>5 DEF name, value, rest, whole
<1>3. /\ Left(all, NonceText(f))
      /\ parseField(str, "Chain ID", Place(str, all, ChainText(f))) = Field(f.chainId, Place(str, all, NonceText(f)))
  <2> DEFINE name == "Chain ID"
             value == f.chainId
             rest == NonceText(f)
             whole == ChainText(f)
  <2>1. name # Colon
    BY DEF Colon
  <2>2. whole = Chained(Line(name, value), rest)
    BY DEF ChainText
  <2>3. IsText(value) /\ Listed(rest)
    BY FieldTexts DEF AreFields
  <2>4. Left(all, whole)
    BY <1>2
  <2> HIDE DEF name, value, rest, whole
  <2>5. Left(all, rest) /\ parseField(str, name, Place(str, all, whole)) = Field(value, Place(str, all, rest))
    BY <2>1, <2>2, <2>3, <2>4, LineOfField
  <2>. QED BY <2>5 DEF name, value, rest, whole
<1>4. /\ Left(all, IssuedText(f))
      /\ parseField(str, "Nonce", Place(str, all, NonceText(f))) = Field(f.nonce, Place(str, all, IssuedText(f)))
  <2> DEFINE name == "Nonce"
             value == f.nonce
             rest == IssuedText(f)
             whole == NonceText(f)
  <2>1. name # Colon
    BY DEF Colon
  <2>2. whole = Chained(Line(name, value), rest)
    BY DEF NonceText
  <2>3. IsText(value) /\ Listed(rest)
    BY FieldTexts DEF AreFields
  <2>4. Left(all, whole)
    BY <1>3
  <2> HIDE DEF name, value, rest, whole
  <2>5. Left(all, rest) /\ parseField(str, name, Place(str, all, whole)) = Field(value, Place(str, all, rest))
    BY <2>1, <2>2, <2>3, <2>4, LineOfField
  <2>. QED BY <2>5 DEF name, value, rest, whole
<1>5. /\ Left(all, ExpirationText(f))
      /\ parseField(str, "Issued At", Place(str, all, IssuedText(f))) = Field(f.issuedAt, Place(str, all, ExpirationText(f)))
  <2> DEFINE name == "Issued At"
             value == f.issuedAt
             rest == ExpirationText(f)
             whole == IssuedText(f)
  <2>1. name # Colon
    BY DEF Colon
  <2>2. whole = Chained(Line(name, value), rest)
    BY DEF IssuedText
  <2>3. IsText(value) /\ Listed(rest)
    BY FieldTexts DEF AreFields
  <2>4. Left(all, whole)
    BY <1>4
  <2> HIDE DEF name, value, rest, whole
  <2>5. Left(all, rest) /\ parseField(str, name, Place(str, all, whole)) = Field(value, Place(str, all, rest))
    BY <2>1, <2>2, <2>3, <2>4, LineOfField
  <2>. QED BY <2>5 DEF name, value, rest, whole
<1>. QED BY <1>1, <1>2, <1>3, <1>4, <1>5

\* The line of a statement, and an empty line after it.
SaidText(said) == IF said = NoText THEN << >> ELSE Chained(said, Single(NewLine))

LEMMA SaidListed ==
  ASSUME NEW said, Listed(said)
  PROVE  Listed(SaidText(said))
<1>1. Listed(Single(NewLine))
  BY OneCharacter
<1>2. Listed(Chained(said, Single(NewLine)))
  BY <1>1, TextsJoined
<1>. QED BY <1>2, EmptyListed DEF SaidText

LEMMA StatementRead ==
  ASSUME NEW str, NEW all, Trimmed(str, all), NEW said, IsText(said), NEW rest, Listed(rest), rest # << >>,
         NEW end, end = Chained(Single(NewLine), rest),
         NEW whole, whole = Chained(SaidText(said), end), Left(all, whole)
  PROVE  Left(all, rest) /\ statement(str, At(all, whole)) = Field(said, At(all, rest))
<1> DEFINE at == At(all, whole)
<1>1. Listed(end) /\ Listed(said) /\ Without(said, NewLine) /\ Listed(str)
  BY NotEmpty DEF IsText, Trimmed
<1>2. Len(rest) \in Nat /\ Len(rest) >= 1
  BY LengthOfText
<1>3. CASE said = NoText
  <2>1. whole = end
    <3>1. SaidText(said) = << >>
      BY <1>3 DEF SaidText
    <3>. QED BY <1>1, <3>1, EmptyFirst
  <2>2. /\ Left(all, rest) /\ At(all, rest) = at + 1 /\ at \in Nat /\ Len(str) \in Nat
        /\ At(all, rest) + Len(rest) <= Len(str) + 1
        /\ at + 1 <= Len(str) => str[at + 1] = NewLine
    <3>1. Single(NewLine) = Single(NewLine) /\ whole = Chained(Single(NewLine), rest)
      BY <2>1
    <3>. QED BY <3>1, CharacterLeft
  <2> HIDE DEF at
  <2>3. at + 1 <= Len(str)
    BY <1>2, <2>2
  <2>4. statement(str, at) = Field(NoText, at + 1)
    BY <2>2, <2>3 DEF statement
  <2>. QED BY <1>3, <2>2, <2>4 DEF at
<1>4. CASE said # NoText
  <2> DEFINE line == Chained(Single(NewLine), end)
  <2>1. Listed(line) /\ Listed(Single(NewLine))
    BY <1>1, NotEmpty, OneCharacter
  <2>2. whole = Chained(said, line)
    <3>1. SaidText(said) = Chained(said, Single(NewLine))
      BY <1>4 DEF SaidText
    <3>. QED BY <1>1, <2>1, <3>1, TextsRegrouped
  <2>3. Len(said) \in Nat /\ Len(said) >= 1
    BY <1>1, <1>4, LengthOfText DEF NoText
  <2> DEFINE n == Len(said)
  <2>4. line = Chained(Single(NewLine), end)
    OBVIOUS
  <2> HIDE DEF line
  <2>5. /\ Left(all, line) /\ At(all, line) = at + n /\ at \in Nat /\ Len(str) \in Nat
        /\ \A k \in 1..n : at + k <= Len(str) => str[at + k] = said[k]
    BY <1>1, <2>1, <2>2, CharactersLeft
  <2>6. /\ Left(all, end) /\ At(all, end) = At(all, line) + 1 /\ At(all, line) \in Nat
        /\ At(all, line) + 1 <= Len(str) => str[At(all, line) + 1] = NewLine
    <3>1. Listed(end) /\ Left(all, line)
      BY <1>1, <2>5
    <3>. QED BY <2>4, <3>1, CharacterLeft
  <2>7. /\ Left(all, rest) /\ At(all, rest) = At(all, end) + 1
        /\ At(all, rest) + Len(rest) <= Len(str) + 1
    BY <2>6, CharacterLeft
  <2> HIDE DEF at, n
  <2>8. /\ At(all, rest) = at + n + 2 /\ at + n + 2 <= Len(str)
        /\ at + n + 1 <= Len(str) => str[at + n + 1] = NewLine
    BY <1>2, <2>3, <2>5, <2>6, <2>7 DEF n
  <2>9. str[at + n + 1] = NewLine /\ \A k \in 1..n : str[at + k] = said[k]
    BY <2>3, <2>5, <2>8 DEF n
  <2>10. Find(str, at, NewLine) = at + n
    <3>1. \A m \in at..((at + n) - 1) : str[m + 1] # NewLine
      <4> SUFFICES ASSUME NEW m \in at..((at + n) - 1)
                   PROVE  str[m + 1] # NewLine
        OBVIOUS
      <4>1. (m + 1) - at \in 1..n /\ at + ((m + 1) - at) = m + 1
        BY <2>3, <2>5 DEF n
      <4>2. str[at + ((m + 1) - at)] = said[(m + 1) - at]
        BY <2>9, <4>1
      <4>3. said[(m + 1) - at] # NewLine
        BY <1>1, <4>1 DEF Without, n
      <4>. QED BY <4>1, <4>2, <4>3
    <3>2. at + n \in Nat /\ at <= at + n /\ at + n < Len(str) /\ (at + n) + 1 = at + n + 1
      BY <2>3, <2>5, <2>8 DEF n
    <3>3. Len(str) \in Nat /\ at \in Nat /\ str[(at + n) + 1] = NewLine
      BY <2>5, <2>9, <3>2
    <3> DEFINE j == at + n
    <3>4. j \in Nat /\ at <= j /\ j < Len(str)
      BY <3>2
    <3>5. str[j + 1] = NewLine
      BY <3>3
    <3>6. \A m \in at..(j - 1) : str[m + 1] # NewLine
      BY <3>1
    <3> HIDE DEF j
    <3>7. Find(str, at, NewLine) = j
      BY <3>3, <3>4, <3>5, <3>6, FindFirst
    <3>. QED BY <3>7 DEF j
  <2>11. substr(str, at, at + n) = said
    <3>1. at \in Nat /\ at + Len(said) <= Len(str) /\ \A k \in 1..Len(said) : str[at + k] = said[k]
      BY <2>3, <2>5, <2>8, <2>9 DEF n
    <3>2. substr(str, at, at + Len(said)) = said
      BY <1>1, <3>1, TextTaken
    <3>. QED BY <3>2 DEF n
  <2>12. at < Len(str) /\ str[at + 1] # NewLine /\ at + n < Len(str)
    <3>1. 1 \in 1..n
      BY <2>3 DEF n
    <3>2. said[1] # NewLine
      BY <1>1, <3>1 DEF Without, n
    <3>. QED BY <2>3, <2>5, <2>8, <2>9, <3>1, <3>2 DEF n
  <2>13. statement(str, at) = Field(said, at + n + 2)
    BY <2>10, <2>11, <2>12 DEF statement
  <2>. QED BY <2>7, <2>8, <2>13 DEF at
<1>. QED BY <1>3, <1>4

\* A message from each part of its heading on.
StatementText(f) == Chained(SaidText(f.statement), Chained(Single(NewLine), UriText(f)))
EmptyLineText(f) == Chained(<<NewLine, NewLine>>, StatementText(f))
AddressText(f) == Chained(f.addr, EmptyLineText(f))
PrefixText(f) == Chained(<<"0", "x">>, AddressText(f))
AccountText(f) == Chained(Single(NewLine), PrefixText(f))
SentenceText(f) == Chained(Filled(48, "x"), AccountText(f))
BlankText(f) == Chained(Single(Blank), SentenceText(f))
WholeText(f) == Chained(f.schemeDomain, BlankText(f))

IsHeading(f) ==
  /\ Listed(f.schemeDomain) /\ Without(f.schemeDomain, Blank)
  /\ Listed(f.addr) /\ Len(f.addr) = 40 /\ IsText(f.statement)

LEMMA UriTextLeft ==
  ASSUME NEW f, AreFields(f)
  PROVE  Listed(UriText(f)) /\ UriText(f) # << >>
<1> DEFINE rest == VersionText(f)
           name == "URI"
           value == f.uri
<1>1. Listed(rest) /\ Listed(value)
  BY FieldTexts DEF AreFields, IsText
<1>2. UriText(f) = Chained(Line(name, value), rest)
  BY DEF UriText
<1> HIDE DEF rest, name, value
<1>3. UriText(f) = LineOf(name, value, rest)
  BY <1>1, <1>2, LineFollowed
<1>4. Starts(UriText(f), name)
  BY <1>1, <1>3, LineStarts
<1>5. PICK more : Listed(more) /\ UriText(f) = Chained(Single(name), Chained(Single(Colon), more))
  BY <1>4 DEF Starts
<1> DEFINE mark == Chained(Single(Colon), more)
<1>6. Listed(mark) /\ UriText(f) = Chained(Single(name), mark)
  BY <1>5, NotEmpty
<1> HIDE DEF mark
<1>. QED BY <1>6, NotEmpty

LEMMA Sentence == Listed(Filled(48, "x")) /\ Len(Filled(48, "x")) = 48
<1> DEFINE S == {"x"}
<1>1. Filled(48, "x") \in Seq(S)
  BY DEF Filled
<1>2. Len(Filled(48, "x")) = 48
  BY DEF Filled
<1>. QED BY <1>1, <1>2 DEF Listed

LEMMA HeadingTexts ==
  ASSUME NEW f, AreFields(f), IsHeading(f)
  PROVE  /\ Listed(Chained(Single(NewLine), UriText(f))) /\ Listed(SaidText(f.statement))
         /\ Listed(StatementText(f)) /\ Len(StatementText(f)) \in Nat /\ Len(StatementText(f)) >= 1
         /\ Listed(EmptyLineText(f)) /\ Listed(AddressText(f)) /\ Listed(PrefixText(f)) /\ Listed(AccountText(f))
         /\ Listed(SentenceText(f)) /\ Listed(BlankText(f)) /\ Listed(WholeText(f))
<1>1. Listed(UriText(f))
  BY UriTextLeft
<1> DEFINE end == Chained(Single(NewLine), UriText(f))
<1>2. Listed(end) /\ Len(end) = 1 + Len(UriText(f)) /\ Len(UriText(f)) \in Nat
  BY <1>1, NotEmpty, LengthOfText
<1>3. Listed(SaidText(f.statement))
  BY SaidListed DEF IsHeading, IsText
<1> HIDE DEF end
<1>4. /\ Listed(Chained(SaidText(f.statement), end))
      /\ Len(Chained(SaidText(f.statement), end)) = Len(SaidText(f.statement)) + Len(end)
      /\ Len(SaidText(f.statement)) \in Nat
  BY <1>2, <1>3, TextsJoined
<1>5. StatementText(f) = Chained(SaidText(f.statement), end)
  BY DEF StatementText, end
<1>6. Listed(StatementText(f)) /\ Len(StatementText(f)) \in Nat /\ Len(StatementText(f)) >= 1
  BY <1>2, <1>4, <1>5
<1>7. Listed(<<NewLine, NewLine>>) /\ Listed(<<"0", "x">>)
  BY Pairs
<1>8. Listed(EmptyLineText(f))
  BY <1>6, <1>7, TextsJoined DEF EmptyLineText
<1>9. Listed(AddressText(f))
  BY <1>8, TextsJoined DEF AddressText, IsHeading
<1>10. Listed(PrefixText(f))
  BY <1>7, <1>9, TextsJoined DEF PrefixText
<1>11. Listed(AccountText(f))
  BY <1>10, OneCharacter, TextsJoined DEF AccountText
<1>12. Listed(SentenceText(f))
  BY <1>11, Sentence, TextsJoined DEF SentenceText
<1>13. Listed(BlankText(f))
  BY <1>12, OneCharacter, TextsJoined DEF BlankText
<1>14. Listed(WholeText(f))
  BY <1>13, TextsJoined DEF WholeText, IsHeading
<1>. QED BY <1>2, <1>3, <1>6, <1>8, <1>9, <1>10, <1>11, <1>12, <1>13, <1>14 DEF end

LEMMA FindFromStart ==
  ASSUME NEW str, Len(str) \in Nat, NEW n \in Nat, n < Len(str), NEW c, str[n + 1] = c,
         \A k \in 1..n : str[k] # c
  PROVE  Find(str, 0, c) = n
<1> DEFINE first == 0
<1>1. first \in Nat /\ first <= n
  OBVIOUS
<1>2. \A m \in first..(n - 1) : str[m + 1] # c
  OBVIOUS
<1> HIDE DEF first
<1>3. Find(str, first, c) = n
  BY <1>1, <1>2, FindFirst
<1>. QED BY <1>3 DEF first

\* What the heading is read as: the domain, the address and the statement.
LEMMA HeadingRead ==
  ASSUME NEW str, NEW f, AreFields(f), IsHeading(f), Trimmed(str, WholeText(f)),
         NEW n, n = Len(f.schemeDomain)
  PROVE  /\ Find(str, 0, Blank) = n /\ n < Len(str) /\ substr(str, 0, n) = f.schemeDomain
         /\ hexStringToAddress(str, n + 52) = f.addr
         /\ statement(str, n + 94) = Field(f.statement, Place(str, WholeText(f), UriText(f)))
         /\ Left(WholeText(f), UriText(f))
<1> DEFINE all == WholeText(f)
<1>1. /\ Listed(StatementText(f)) /\ Listed(EmptyLineText(f)) /\ Listed(AddressText(f)) /\ Listed(PrefixText(f))
      /\ Listed(AccountText(f)) /\ Listed(SentenceText(f)) /\ Listed(BlankText(f)) /\ Listed(all)
  BY HeadingTexts
<1>2. Listed(f.schemeDomain) /\ Listed(f.addr) /\ Len(f.addr) = 40 /\ IsText(f.statement)
  BY DEF IsHeading
<1>3. all = Chained(f.schemeDomain, BlankText(f))
  BY DEF WholeText
<1>4. Trimmed(str, all) /\ Listed(str)
  BY DEF Trimmed
<1> HIDE DEF all
<1>5. Left(all, all) /\ At(all, all) = 0
  BY <1>1, LeftAll
<1>6. n \in Nat /\ Len(str) \in Nat
  BY <1>2, <1>4, LengthOfText
<1>7. /\ Left(all, BlankText(f)) /\ At(all, BlankText(f)) = n
      /\ \A k \in 1..n : k <= Len(str) => str[k] = f.schemeDomain[k]
  <2>1. /\ Left(all, BlankText(f)) /\ At(all, BlankText(f)) = At(all, all) + n
        /\ \A k \in 1..n : At(all, all) + k <= Len(str) => str[At(all, all) + k] = f.schemeDomain[k]
    <3>1. Listed(f.schemeDomain) /\ Listed(BlankText(f)) /\ Left(all, all) /\ Trimmed(str, all)
      BY <1>1, <1>2, <1>4, <1>5
    <3>. QED BY <1>3, <3>1, CharactersLeft
  <2>2. \A k \in 1..n : At(all, all) + k = k
    BY <1>5, <1>6
  <2>. QED BY <1>5, <1>6, <2>1, <2>2
<1>8. /\ Left(all, SentenceText(f)) /\ At(all, SentenceText(f)) = n + 1
      /\ n + 1 <= Len(str) => str[n + 1] = Blank
  <2>1. BlankText(f) = Chained(Single(Blank), SentenceText(f)) /\ Listed(SentenceText(f)) /\ Left(all, BlankText(f))
    BY <1>1, <1>7 DEF BlankText
  <2>2. /\ Left(all, SentenceText(f)) /\ At(all, SentenceText(f)) = At(all, BlankText(f)) + 1
        /\ At(all, BlankText(f)) + 1 <= Len(str) => str[At(all, BlankText(f)) + 1] = Blank
    BY <1>4, <2>1, CharacterLeft
  <2>. QED BY <1>7, <2>2
<1>9. Left(all, AccountText(f)) /\ At(all, AccountText(f)) = n + 49
  <2>1. SentenceText(f) = Chained(Filled(48, "x"), AccountText(f))
    BY DEF SentenceText
  <2>2. Left(all, AccountText(f)) /\ At(all, AccountText(f)) = At(all, SentenceText(f)) + Len(Filled(48, "x"))
    BY <1>1, <1>4, <1>8, <2>1, Sentence, CharactersLeft
  <2>3. Len(Filled(48, "x")) = 48
    BY Sentence
  <2>4. At(all, AccountText(f)) = (n + 1) + 48
    BY <1>8, <2>2, <2>3
  <2>. QED BY <1>6, <2>2, <2>4
<1>10. Left(all, PrefixText(f)) /\ At(all, PrefixText(f)) = n + 50
  <2>1. AccountText(f) = Chained(Single(NewLine), PrefixText(f)) /\ Listed(PrefixText(f)) /\ Left(all, AccountText(f))
    BY <1>1, <1>9 DEF AccountText
  <2>2. Left(all, PrefixText(f)) /\ At(all, PrefixText(f)) = At(all, AccountText(f)) + 1
    BY <1>4, <2>1, CharacterLeft
  <2>. QED BY <1>6, <1>9, <2>2
<1>11. Left(all, AddressText(f)) /\ At(all, AddressText(f)) = n + 52
  <2> DEFINE zerox == <<"0", "x">>
  <2>1. PrefixText(f) = Chained(zerox, AddressText(f))
    BY DEF PrefixText
  <2>2. Listed(zerox) /\ Len(zerox) = 2
    BY Pairs
  <2> HIDE DEF zerox
  <2>3. Left(all, AddressText(f)) /\ At(all, AddressText(f)) = At(all, PrefixText(f)) + Len(zerox)
    <3>1. Listed(zerox) /\ Listed(AddressText(f)) /\ Left(all, PrefixText(f)) /\ Trimmed(str, all)
      BY <1>1, <1>4, <1>10, <2>2
    <3>. QED BY <2>1, <3>1, CharactersLeft
  <2>. QED BY <1>6, <1>10, <2>2, <2>3
<1>12. /\ Left(all, EmptyLineText(f)) /\ At(all, EmptyLineText(f)) = n + 92
       /\ \A k \in 1..40 : n + 52 + k <= Len(str) => str[n + 52 + k] = f.addr[k]
  <2>1. AddressText(f) = Chained(f.addr, EmptyLineText(f))
    BY DEF AddressText
  <2>2. /\ Left(all, EmptyLineText(f)) /\ At(all, EmptyLineText(f)) = At(all, AddressText(f)) + Len(f.addr)
        /\ \A k \in 1..Len(f.addr) : At(all, AddressText(f)) + k <= Len(str) => str[At(all, AddressText(f)) + k] = f.addr[k]
    <3> DEFINE addr == f.addr
    <3>1. Listed(addr) /\ Listed(EmptyLineText(f)) /\ Left(all, AddressText(f)) /\ Trimmed(str, all)
      BY <1>1, <1>2, <1>4, <1>11
    <3>2. AddressText(f) = Chained(addr, EmptyLineText(f))
      BY <2>1
    <3> HIDE DEF addr
    <3>3. /\ Left(all, EmptyLineText(f)) /\ At(all, EmptyLineText(f)) = At(all, AddressText(f)) + Len(addr)
          /\ \A k \in 1..Len(addr) : At(all, AddressText(f)) + k <= Len(str) => str[At(all, AddressText(f)) + k] = addr[k]
      BY <3>1, <3>2, CharactersLeft
    <3>. QED BY <3>3 DEF addr
  <2>. QED BY <1>2, <1>6, <1>11, <2>2
<1>13. /\ Left(all, StatementText(f)) /\ At(all, StatementText(f)) = n + 94 /\ n + 94 <= Len(str)
  <2> DEFINE lines == <<NewLine, NewLine>>
  <2>1. EmptyLineText(f) = Chained(lines, StatementText(f))
    BY DEF EmptyLineText
  <2>2. Listed(lines) /\ Len(lines) = 2
    BY Pairs
  <2> HIDE DEF lines
  <2>3. /\ Left(all, StatementText(f)) /\ At(all, StatementText(f)) = At(all, EmptyLineText(f)) + Len(lines)
        /\ At(all, StatementText(f)) + Len(StatementText(f)) <= Len(str) + 1
    <3>1. Listed(lines) /\ Listed(StatementText(f)) /\ Left(all, EmptyLineText(f)) /\ Trimmed(str, all)
      BY <1>1, <1>4, <1>12, <2>2
    <3>. QED BY <2>1, <3>1, CharactersLeft
  <2>4. Len(StatementText(f)) \in Nat /\ Len(StatementText(f)) >= 1
    BY HeadingTexts
  <2>. QED BY <1>6, <1>12, <2>2, <2>3, <2>4
<1>14. Find(str, 0, Blank) = n /\ n < Len(str)
  <2>1. n < Len(str) /\ 0 <= n /\ str[n + 1] = Blank
    BY <1>6, <1>8, <1>13
  <2>2. \A k \in 1..n : str[k] # Blank
    <3> SUFFICES ASSUME NEW k \in 1..n
                 PROVE  str[k] # Blank
      OBVIOUS
    <3>1. k <= Len(str)
      BY <1>6, <2>1
    <3>2. f.schemeDomain[k] # Blank
      BY DEF IsHeading, Without
    <3>. QED BY <1>7, <3>1, <3>2
  <2>3. Find(str, 0, Blank) = n
    BY <1>6, <2>1, <2>2, FindFromStart
  <2>. QED BY <2>1, <2>3
<1>15. substr(str, 0, n) = f.schemeDomain
  <2>1. \A k \in 1..n : str[0 + k] = f.schemeDomain[k]
    BY <1>6, <1>7, <1>14
  <2>2. 0 + n = n /\ 0 \in Nat /\ n <= Len(str)
    BY <1>6, <1>14
  <2>3. substr(str, 0, 0 + Len(f.schemeDomain)) = f.schemeDomain
    BY <1>2, <1>4, <2>1, <2>2, TextTaken
  <2>. QED BY <2>2, <2>3
<1>16. hexStringToAddress(str, n + 52) = f.addr
  <2>1. \A k \in 1..40 : (n + 52) + k <= Len(str) /\ str[(n + 52) + k] = f.addr[k]
    <3> SUFFICES ASSUME NEW k \in 1..40
                 PROVE  (n + 52) + k <= Len(str) /\ str[(n + 52) + k] = f.addr[k]
      OBVIOUS
    <3>1. (n + 52) + k <= Len(str)
      BY <1>6, <1>13
    <3>. QED BY <1>12, <3>1
  <2>2. f.addr = [k \in 1..40 |-> f.addr[k]]
    <3>1. PICK S : f.addr \in Seq(S)
      BY <1>2 DEF Listed
    <3> DEFINE addr == f.addr
    <3>2. addr \in Seq(S) /\ Len(addr) = 40
      BY <1>2, <3>1
    <3> HIDE DEF addr
    <3>3. addr = [k \in 1..40 |-> addr[k]]
      BY <3>2
    <3>. QED BY <3>3 DEF addr
  <2>3. hexStringToAddress(str, n + 52) = [k \in 1..40 |-> f.addr[k]]
    BY <2>1 DEF hexStringToAddress
  <2>. QED BY <2>2, <2>3
<1>17. /\ Left(all, UriText(f))
       /\ statement(str, n + 94) = Field(f.statement, At(all, UriText(f)))
  <2> DEFINE end == Chained(Single(NewLine), UriText(f))
  <2>1. StatementText(f) = Chained(SaidText(f.statement), end)
    BY DEF StatementText
  <2>2. Listed(UriText(f)) /\ UriText(f) # << >>
    BY UriTextLeft
  <2>3. end = Chained(Single(NewLine), UriText(f))
    OBVIOUS
  <2>4. Left(all, StatementText(f)) /\ n + 94 = At(all, StatementText(f))
    BY <1>13
  <2> HIDE DEF end
  <2>5. /\ Left(all, UriText(f))
        /\ statement(str, At(all, StatementText(f))) = Field(f.statement, At(all, UriText(f)))
    BY <1>2, <1>4, <2>1, <2>2, <2>3, <2>4, StatementRead
  <2>. QED BY <2>4, <2>5
<1>18. Place(str, all, UriText(f)) = At(all, UriText(f))
  BY UriTextLeft DEF Place
<1>. QED BY <1>14, <1>15, <1>16, <1>17, <1>18 DEF all

JoinedFour(p, a, b, c, d) == Chained(Chained(Chained(Chained(p, a), b), c), d)

LEMMA FourRegrouped ==
  ASSUME NEW p, Listed(p), NEW a, Listed(a), NEW b, Listed(b), NEW c, Listed(c), NEW d, Listed(d),
         NEW rest, Listed(rest)
  PROVE  /\ Listed(JoinedFour(p, a, b, c, d))
         /\ Chained(JoinedFour(p, a, b, c, d), rest) = Chained(p, Chained(a, Chained(b, Chained(c, Chained(d, rest)))))
<1> DEFINE pa == Chained(p, a)
           pb == Chained(pa, b)
           pc == Chained(pb, c)
           td == Chained(d, rest)
           tc == Chained(c, td)
           tb == Chained(b, tc)
           whole == JoinedFour(p, a, b, c, d)
<1>1. Listed(pa) /\ Listed(td)
  BY TextsJoined
<1>2. Listed(pb)
  <2> HIDE DEF pa
  <2>. QED BY <1>1, TextsJoined
<1>3. Listed(pc)
  <2> HIDE DEF pb
  <2>. QED BY <1>2, TextsJoined
<1>4. Listed(tc)
  <2> HIDE DEF td
  <2>. QED BY <1>1, TextsJoined
<1>5. Listed(tb)
  <2> HIDE DEF tc
  <2>. QED BY <1>4, TextsJoined
<1>6. whole = Chained(pc, d)
  BY DEF JoinedFour
<1>7. Listed(whole) /\ Chained(whole, rest) = Chained(pc, td)
  <2> HIDE DEF pc, whole
  <2>1. Listed(Chained(pc, d))
    BY <1>3, TextsJoined
  <2>2. Chained(Chained(pc, d), rest) = Chained(pc, td)
    BY <1>3, TextsRegrouped
  <2>. QED BY <1>6, <2>1, <2>2
<1>8. Chained(pc, td) = Chained(pb, tc)
  <2> HIDE DEF pb, td
  <2>. QED BY <1>1, <1>2, TextsRegrouped
<1>9. Chained(pb, tc) = Chained(pa, tb)
  <2> HIDE DEF pa, tc
  <2>. QED BY <1>1, <1>4, TextsRegrouped
<1>10. Chained(pa, tb) = Chained(p, Chained(a, tb))
  <2> HIDE DEF tb
  <2>. QED BY <1>5, TextsRegrouped
<1>11. Chained(p, Chained(a, tb)) = Chained(p, Chained(a, Chained(b, Chained(c, Chained(d, rest)))))
  OBVIOUS
<1> HIDE DEF whole, pa, pb, pc, tb, tc, td
<1>12. Chained(whole, rest) = Chained(p, Chained(a, tb))
  BY <1>7, <1>8, <1>9, <1>10
<1>. QED BY <1>7, <1>11, <1>12, Zenon DEF whole

Heading(f) == JoinedFour(f.schemeDomain, Single(Blank), Filled(48, "x"), Single(NewLine), <<"0", "x">>)
Opening(f) == JoinedFour(Heading(f), f.addr, <<NewLine, NewLine>>, SaidText(f.statement), Single(NewLine))
Middle(f) ==
  JoinedFour(Opening(f), Line("URI", f.uri), Line("Version", f.version), Line("Chain ID", f.chainId), Line("Nonce", f.nonce))
Ending(f) ==
  JoinedFour(Middle(f), Line("Issued At", f.issuedAt), Optional("Expiration Time", f.expirationTime),
         Optional("Not Before", f.notBefore), Optional("Request ID", f.requestId))
ListHead(f) == IF f.resources = << >> THEN << >> ELSE <<"Resources", Colon, NewLine>>

LEMMA MessageParts ==
  ASSUME NEW f
  PROVE  Message(f) = Chained(Chained(Ending(f), ListHead(f)), BulletsOf(f.resources))
BY Zenon DEF Message, Ending, Middle, Opening, Heading, JoinedFour, Chained, SaidText, ListHead, BulletsOf,
  Single, Blank, Colon

LEMMA LineListed ==
  ASSUME NEW name, NEW value, IsText(value)
  PROVE  Listed(Line(name, value)) /\ Listed(Optional(name, value))
<1>1. Listed(value)
  BY DEF IsText
<1>2. Listed(Line(name, value))
  BY <1>1, EmptyListed, LineFollowed
<1>3. Listed(Optional(name, value))
  BY <1>1, OptionalListed
<1>. QED BY <1>2, <1>3

\* The parts of a message in the order in which they are read.
LEMMA MessageRegrouped ==
  ASSUME NEW f, AreFields(f), IsHeading(f)
  PROVE  Message(f) = WholeText(f) /\ Listed(WholeText(f))
<1>1. /\ Listed(ResourcesText(f)) /\ Listed(IssuedText(f)) /\ Listed(UriText(f)) /\ Listed(AddressText(f))
      /\ Listed(WholeText(f))
  <2>1. Listed(IssuedText(f)) /\ Listed(UriText(f))
    BY FieldTexts
  <2>2. Listed(AddressText(f)) /\ Listed(WholeText(f))
    BY HeadingTexts
  <2>3. Listed(ResourcesText(f))
    BY ResourcesNamed DEF AreFields
  <2>. QED BY <2>1, <2>2, <2>3
<1>2. /\ Listed(Heading(f))
      /\ Chained(Heading(f), AddressText(f)) = WholeText(f)
  <2> DEFINE p == f.schemeDomain
             a == Single(Blank)
             b == Filled(48, "x")
             c == Single(NewLine)
             d == <<"0", "x">>
             rest == AddressText(f)
  <2>1. Listed(p) /\ Listed(a) /\ Listed(b) /\ Listed(c) /\ Listed(d) /\ Listed(rest)
    BY <1>1, OneCharacter, Sentence, Pairs DEF IsHeading
  <2>2. Heading(f) = JoinedFour(p, a, b, c, d)
    BY DEF Heading
  <2>3. WholeText(f) = Chained(p, Chained(a, Chained(b, Chained(c, Chained(d, rest)))))
    BY Zenon DEF WholeText, BlankText, SentenceText, AccountText, PrefixText
  <2> HIDE DEF p, a, b, c, d, rest
  <2>4. /\ Listed(JoinedFour(p, a, b, c, d))
        /\ Chained(JoinedFour(p, a, b, c, d), rest) = Chained(p, Chained(a, Chained(b, Chained(c, Chained(d, rest)))))
    BY <2>1, FourRegrouped
  <2>. QED BY <2>2, <2>3, <2>4 DEF rest
<1>3. /\ Listed(Opening(f))
      /\ Chained(Opening(f), UriText(f)) = Chained(Heading(f), AddressText(f))
  <2> DEFINE p == Heading(f)
             a == f.addr
             b == <<NewLine, NewLine>>
             c == SaidText(f.statement)
             d == Single(NewLine)
             rest == UriText(f)
  <2>1. Listed(p) /\ Listed(a) /\ Listed(b) /\ Listed(c) /\ Listed(d) /\ Listed(rest)
    BY <1>1, <1>2, OneCharacter, HeadingTexts, Pairs DEF IsHeading
  <2>2. Opening(f) = JoinedFour(p, a, b, c, d)
    BY DEF Opening
  <2>3. AddressText(f) = Chained(a, Chained(b, Chained(c, Chained(d, rest))))
    BY Zenon DEF AddressText, EmptyLineText, StatementText
  <2> HIDE DEF p, a, b, c, d, rest
  <2>4. /\ Listed(JoinedFour(p, a, b, c, d))
        /\ Chained(JoinedFour(p, a, b, c, d), rest) = Chained(p, Chained(a, Chained(b, Chained(c, Chained(d, rest)))))
    BY <2>1, FourRegrouped
  <2>. QED BY <2>2, <2>3, <2>4 DEF p, rest
<1>4. /\ Listed(Middle(f))
      /\ Chained(Middle(f), IssuedText(f)) = Chained(Opening(f), UriText(f))
  <2> DEFINE p == Opening(f)
             a == Line("URI", f.uri)
             b == Line("Version", f.version)
             c == Line("Chain ID", f.chainId)
             d == Line("Nonce", f.nonce)
             rest == IssuedText(f)
  <2>1. Listed(p) /\ Listed(a) /\ Listed(b) /\ Listed(c) /\ Listed(d) /\ Listed(rest)
    BY <1>1, <1>3, LineListed DEF AreFields
  <2>2. Middle(f) = JoinedFour(p, a, b, c, d)
    BY DEF Middle
  <2>3. UriText(f) = Chained(a, Chained(b, Chained(c, Chained(d, rest))))
    BY Zenon DEF UriText, VersionText, ChainText, NonceText
  <2> HIDE DEF p, a, b, c, d, rest
  <2>4. /\ Listed(JoinedFour(p, a, b, c, d))
        /\ Chained(JoinedFour(p, a, b, c, d), rest) = Chained(p, Chained(a, Chained(b, Chained(c, Chained(d, rest)))))
    BY <2>1, FourRegrouped
  <2>. QED BY <2>2, <2>3, <2>4 DEF p, rest
<1>5. /\ Listed(Ending(f))
      /\ Chained(Ending(f), ResourcesText(f)) = Chained(Middle(f), IssuedText(f))
  <2> DEFINE p == Middle(f)
             a == Line("Issued At", f.issuedAt)
             b == Optional("Expiration Time", f.expirationTime)
             c == Optional("Not Before", f.notBefore)
             d == Optional("Request ID", f.requestId)
             rest == ResourcesText(f)
  <2>1. Listed(p) /\ Listed(a) /\ Listed(b) /\ Listed(c) /\ Listed(d) /\ Listed(rest)
    BY <1>1, <1>4, LineListed DEF AreFields
  <2>2. Ending(f) = JoinedFour(p, a, b, c, d)
    BY DEF Ending
  <2>3. IssuedText(f) = Chained(a, Chained(b, Chained(c, Chained(d, rest))))
    BY Zenon DEF IssuedText, ExpirationText, NotBeforeText, RequestText
  <2> HIDE DEF p, a, b, c, d, rest
  <2>4. /\ Listed(JoinedFour(p, a, b, c, d))
        /\ Chained(JoinedFour(p, a, b, c, d), rest) = Chained(p, Chained(a, Chained(b, Chained(c, Chained(d, rest)))))
    BY <2>1, FourRegrouped
  <2>. QED BY <2>2, <2>3, <2>4 DEF p, rest
<1>6. Message(f) = Chained(Ending(f), ResourcesText(f))
  <2> DEFINE head == ListHead(f)
             bullets == BulletsOf(f.resources)
             p == Ending(f)
  <2>1. Listed(head) /\ Listed(bullets)
    BY EmptyListed, ThreeCharacters, BulletsText DEF ListHead, AreFields
  <2>2. Message(f) = Chained(Chained(p, head), bullets)
    BY MessageParts
  <2>3. ResourcesText(f) = Chained(head, bullets)
    BY Zenon DEF ResourcesText, ListHead
  <2> HIDE DEF head, bullets, p
  <2>4. Listed(p)
    BY <1>5 DEF p
  <2>. QED BY <2>1, <2>2, <2>3, <2>4, TextsRegrouped DEF p
<1>. QED BY <1>1, <1>2, <1>3, <1>4, <1>5, <1>6

\* What the parser returns of the fields that it has read.
ParsedAs(domain, addr, said, uri, version, chainId, nonce, issuedAt, expirationTime, notBefore, requestId, list) ==
  IF Len(nonce.value) < 8 THEN Reverted
  ELSE [schemeDomain |-> domain, addr |-> addr, statement |-> said.value, uri |-> uri.value,
        version |-> version.value, chainId |-> chainId.value, nonce |-> nonce.value,
        issuedAt |-> issuedAt.value, expirationTime |-> expirationTime.value,
        notBefore |-> notBefore.value, requestId |-> requestId.value, resources |-> list]

IsMessage(f) ==
  /\ AreFields(f) /\ IsHeading(f)
  /\ f = [schemeDomain |-> f.schemeDomain, addr |-> f.addr, statement |-> f.statement, uri |-> f.uri,
          version |-> f.version, chainId |-> f.chainId, nonce |-> f.nonce, issuedAt |-> f.issuedAt,
          expirationTime |-> f.expirationTime, notBefore |-> f.notBefore, requestId |-> f.requestId,
          resources |-> f.resources]

ReadsFields(str, domain, said, uri, version, chainId, nonce, issuedAt, expirationTime, notBefore, requestId, resources) ==
  /\ domain = Find(str, 0, Blank) /\ said = statement(str, (domain + 52) + 42)
  /\ uri = parseField(str, "URI", said.i) /\ version = parseField(str, "Version", uri.i)
  /\ chainId = parseField(str, "Chain ID", version.i) /\ nonce = parseField(str, "Nonce", chainId.i)
  /\ issuedAt = parseField(str, "Issued At", nonce.i)
  /\ expirationTime = parseField(str, "Expiration Time", issuedAt.i)
  /\ notBefore = parseField(str, "Not Before", expirationTime.i)
  /\ requestId = parseField(str, "Request ID", notBefore.i)
  /\ resources = parseField(str, "Resources", requestId.i)

LEMMA ParserReads ==
  ASSUME NEW str, NEW domain, NEW said, NEW uri, NEW version, NEW chainId, NEW nonce, NEW issuedAt,
         NEW expirationTime, NEW notBefore, NEW requestId, NEW resources,
         ReadsFields(str, domain, said, uri, version, chainId, nonce, issuedAt, expirationTime, notBefore, requestId, resources)
  PROVE  parseSiweMsg(str)
           = ParsedAs(IF domain < Len(str) THEN substr(str, 0, domain) ELSE NoText,
                      hexStringToAddress(str, domain + 52), said, uri, version, chainId, nonce, issuedAt,
                      expirationTime, notBefore, requestId,
                      IF resources.i = requestId.i THEN << >> ELSE parseArray(str, resources.i))
BY Zenon DEF ReadsFields, parseSiweMsg, ParsedAs, Blank

\* A sign-in message, with its last new line or without, is read back field by field.
LEMMA MessageRead ==
  ASSUME NEW f, IsMessage(f), NEW str, Trimmed(str, Message(f))
  PROVE  parseSiweMsg(str) = IF Len(f.nonce) < 8 THEN Reverted ELSE f
<1> DEFINE all == WholeText(f)
           n == Len(f.schemeDomain)
<1>1. AreFields(f) /\ IsHeading(f)
  BY DEF IsMessage
<1>2. Trimmed(str, all)
  BY <1>1, MessageRegrouped
<1> DEFINE said == Field(f.statement, Place(str, all, UriText(f)))
           uri == Field(f.uri, Place(str, all, VersionText(f)))
           version == Field(f.version, Place(str, all, ChainText(f)))
           chainId == Field(f.chainId, Place(str, all, NonceText(f)))
           nonce == Field(f.nonce, Place(str, all, IssuedText(f)))
           issuedAt == Field(f.issuedAt, Place(str, all, ExpirationText(f)))
           expirationTime == Field(f.expirationTime, Place(str, all, NotBeforeText(f)))
           notBefore == Field(f.notBefore, Place(str, all, RequestText(f)))
           requestId == Field(f.requestId, Place(str, all, ResourcesText(f)))
           resources == parseField(str, "Resources", requestId.i)
<1>3. /\ Find(str, 0, Blank) = n /\ n < Len(str) /\ substr(str, 0, n) = f.schemeDomain
      /\ hexStringToAddress(str, n + 52) = f.addr
      /\ statement(str, n + 94) = said
      /\ Left(all, UriText(f))
  BY <1>1, <1>2, HeadingRead
<1>4. /\ parseField(str, "URI", Place(str, all, UriText(f))) = uri
      /\ parseField(str, "Version", Place(str, all, VersionText(f))) = version
      /\ parseField(str, "Chain ID", Place(str, all, ChainText(f))) = chainId
      /\ parseField(str, "Nonce", Place(str, all, NonceText(f))) = nonce
      /\ parseField(str, "Issued At", Place(str, all, IssuedText(f))) = issuedAt
      /\ Left(all, ExpirationText(f))
  <2> HIDE DEF all
  <2>1. Trimmed(str, all) /\ AreFields(f) /\ Left(all, UriText(f))
    BY <1>1, <1>2, <1>3
  <2>. QED BY <2>1, LinesRead
<1>5. /\ parseField(str, "Expiration Time", Place(str, all, ExpirationText(f))) = expirationTime
      /\ parseField(str, "Not Before", Place(str, all, NotBeforeText(f))) = notBefore
      /\ parseField(str, "Request ID", Place(str, all, RequestText(f))) = requestId
      /\ Left(all, ResourcesText(f))
  <2>1. /\ Trimmed(str, all) /\ IsTextList(f.resources) /\ IsText(f.requestId) /\ IsText(f.notBefore)
        /\ IsText(f.expirationTime) /\ Left(all, ExpirationText(f))
    BY <1>1, <1>2, <1>4 DEF AreFields
  <2> HIDE DEF all
  <2>. QED BY <2>1, OptionalsRead
<1>6. /\ said.i = Place(str, all, UriText(f)) /\ said.value = f.statement
      /\ uri.i = Place(str, all, VersionText(f)) /\ uri.value = f.uri
      /\ version.i = Place(str, all, ChainText(f)) /\ version.value = f.version
      /\ chainId.i = Place(str, all, NonceText(f)) /\ chainId.value = f.chainId
      /\ nonce.i = Place(str, all, IssuedText(f)) /\ nonce.value = f.nonce
      /\ issuedAt.i = Place(str, all, ExpirationText(f)) /\ issuedAt.value = f.issuedAt
      /\ expirationTime.i = Place(str, all, NotBeforeText(f)) /\ expirationTime.value = f.expirationTime
      /\ notBefore.i = Place(str, all, RequestText(f)) /\ notBefore.value = f.notBefore
      /\ requestId.i = Place(str, all, ResourcesText(f)) /\ requestId.value = f.requestId
  <2> HIDE DEF all
  <2>. QED BY DEF Field
<1>7. (IF resources.i = requestId.i THEN << >> ELSE parseArray(str, resources.i)) = f.resources
  <2> DEFINE i == requestId.i
             whole == ResourcesText(f)
  <2>1. IsTextList(f.resources) /\ Left(all, whole) /\ Trimmed(str, all)
    BY <1>1, <1>2, <1>5 DEF AreFields
  <2>2. i = Place(str, all, whole)
    BY <1>6
  <2>3. resources = parseField(str, "Resources", i) /\ whole = ResourcesText(f)
    OBVIOUS
  <2> HIDE DEF i, whole, resources, all
  <2>4. (IF resources.i = i THEN << >> ELSE parseArray(str, resources.i)) = f.resources
    BY <2>1, <2>2, <2>3, ResourcesRead
  <2>. QED BY <2>4 DEF i
<1>8. statement(str, (n + 52) + 42) = said
  <2>1. n \in Nat
    BY <1>1, LengthOfText DEF IsHeading
  <2>2. (n + 52) + 42 = n + 94
    <3> HIDE DEF n
    <3>. QED BY <2>1
  <2>. QED BY <1>3, <2>2
<1> DEFINE list == IF resources.i = requestId.i THEN << >> ELSE parseArray(str, resources.i)
<1>9. parseSiweMsg(str)
        = ParsedAs(IF n < Len(str) THEN substr(str, 0, n) ELSE NoText, hexStringToAddress(str, n + 52),
                   said, uri, version, chainId, nonce, issuedAt, expirationTime, notBefore, requestId, list)
  <2>1. n = Find(str, 0, Blank) /\ said = statement(str, (n + 52) + 42)
    BY <1>3, <1>8
  <2>2. uri = parseField(str, "URI", said.i)
    BY <1>4, <1>6, Zenon
  <2>3. version = parseField(str, "Version", uri.i)
    BY <1>4, <1>6, Zenon
  <2>4. chainId = parseField(str, "Chain ID", version.i)
    BY <1>4, <1>6, Zenon
  <2>5. nonce = parseField(str, "Nonce", chainId.i)
    BY <1>4, <1>6, Zenon
  <2>6. issuedAt = parseField(str, "Issued At", nonce.i)
    BY <1>4, <1>6, Zenon
  <2>7. expirationTime = parseField(str, "Expiration Time", issuedAt.i)
    BY <1>5, <1>6, Zenon
  <2>8. notBefore = parseField(str, "Not Before", expirationTime.i)
    BY <1>5, <1>6, Zenon
  <2>9. requestId = parseField(str, "Request ID", notBefore.i)
    BY <1>5, <1>6, Zenon
  <2>10. resources = parseField(str, "Resources", requestId.i)
    OBVIOUS
  <2> HIDE DEF n, said, uri, version, chainId, nonce, issuedAt, expirationTime, notBefore, requestId, resources
  <2>11. ReadsFields(str, n, said, uri, version, chainId, nonce, issuedAt, expirationTime, notBefore, requestId, resources)
    BY <2>1, <2>2, <2>3, <2>4, <2>5, <2>6, <2>7, <2>8, <2>9, <2>10, Zenon DEF ReadsFields
  <2>. QED BY <2>11, ParserReads DEF list
<1>10. list = f.resources
  BY <1>7
<1>11. (IF n < Len(str) THEN substr(str, 0, n) ELSE NoText) = f.schemeDomain
  BY <1>3
<1> HIDE DEF list, said, uri, version, chainId, nonce, issuedAt, expirationTime, notBefore, requestId, n
<1>12. parseSiweMsg(str)
         = ParsedAs(f.schemeDomain, f.addr, said, uri, version, chainId, nonce, issuedAt, expirationTime,
                    notBefore, requestId, f.resources)
  BY <1>3, <1>9, <1>10, <1>11
<1>. QED BY <1>6, <1>12 DEF ParsedAs, IsMessage

\* A message without its last new line.
LEMMA LastLeftOut ==
  ASSUME NEW all, Listed(all), Len(all) >= 1
  PROVE  Trimmed(all, all) /\ Trimmed(Front(all), all)
<1>1. PICK S : all \in Seq(S)
  BY DEF Listed
<1>2. Front(all) \in Seq(S) /\ Len(Front(all)) = Len(all) - 1 /\ \A k \in 1..(Len(all) - 1) : Front(all)[k] = all[k]
  <2> DEFINE n == Len(all) - 1
  <2>1. n \in Nat /\ n <= Len(all) /\ Len(all) \in Nat
    BY <1>1
  <2> HIDE DEF n
  <2>2. /\ SubSeq(all, 1, n) \in Seq(S) /\ Len(SubSeq(all, 1, n)) = n
        /\ \A k \in 1..n : SubSeq(all, 1, n)[k] = all[k]
    BY <1>1, <2>1
  <2>. QED BY <2>2 DEF Front, n
<1>3. Listed(Front(all)) /\ Len(all) \in Nat
  BY <1>1, <1>2 DEF Listed
<1>. QED BY <1>2, <1>3 DEF Trimmed

LEMMA MessageNotEmpty ==
  ASSUME NEW f, AreFields(f), IsHeading(f)
  PROVE  Listed(Message(f)) /\ Len(Message(f)) >= 1
<1> DEFINE blank == BlankText(f)
           domain == f.schemeDomain
           rest == SentenceText(f)
<1>1. Message(f) = Chained(domain, blank) /\ Listed(Message(f))
  BY MessageRegrouped DEF WholeText
<1>2. Listed(domain) /\ Listed(blank) /\ Listed(rest)
  BY HeadingTexts DEF IsHeading
<1>3. blank = Chained(Single(Blank), rest)
  BY DEF BlankText
<1> HIDE DEF blank, domain, rest
<1>4. Len(blank) = 1 + Len(rest) /\ Len(rest) \in Nat
  BY <1>2, <1>3, NotEmpty, LengthOfText
<1>5. Len(Chained(domain, blank)) = Len(domain) + Len(blank) /\ Len(domain) \in Nat
  BY <1>2, TextsJoined
<1>. QED BY <1>1, <1>4, <1>5

\* Any sign-in message, with its last new line and without: the fields are texts of any
\* characters but new lines, the domain any without a blank; a nonce of less than 8
\* characters is refused (SiweParser.sol:99-237).
THEOREM EveryMessageRead ==
  ASSUME NEW f, IsMessage(f), NEW text, text = Message(f) \/ text = Front(Message(f))
  PROVE  parseSiweMsg(text) = IF Len(f.nonce) < 8 THEN Reverted ELSE f
<1>1. Listed(Message(f)) /\ Len(Message(f)) >= 1
  BY MessageNotEmpty DEF IsMessage
<1>2. Trimmed(text, Message(f))
  BY <1>1, LastLeftOut
<1>. QED BY <1>2, MessageRead

LEMMA NoTextIsText == IsText(NoText)
BY EmptyListed DEF IsText, Without, NoText

LEMMA OneIsText ==
  ASSUME NEW a, a # NewLine
  PROVE  IsText(<<a>>)
<1>1. Listed(<<a>>) /\ Len(<<a>>) = 1 /\ <<a>>[1] = a
  BY OneCharacter DEF Single
<1>. QED BY <1>1 DEF IsText, Without

LEMMA ThreeAreText ==
  ASSUME NEW a, NEW b, NEW c, NEW d, a # d, b # d, c # d
  PROVE  Listed(<<a, b, c>>) /\ Without(<<a, b, c>>, d)
<1>1. Listed(<<a, b, c>>)
  BY ThreeCharacters
<1>2. \A k \in 1..Len(<<a, b, c>>) : k = 1 \/ k = 2 \/ k = 3
  OBVIOUS
<1>. QED BY <1>1, <1>2 DEF Without

LEMMA FiveAreText ==
  ASSUME NEW a, NEW b, NEW c, NEW d, NEW e, a # NewLine, b # NewLine, c # NewLine, d # NewLine, e # NewLine
  PROVE  IsText(<<a, b, c, d, e>>)
<1>1. <<a, b, c, d, e>> \in Seq({a, b, c, d, e})
  OBVIOUS
<1>2. \A k \in 1..Len(<<a, b, c, d, e>>) : k = 1 \/ k = 2 \/ k = 3 \/ k = 4 \/ k = 5
  OBVIOUS
<1> DEFINE text == <<a, b, c, d, e>>
<1>3. Listed(text)
  BY <1>1 DEF Listed
<1>4. \A k \in 1..Len(text) : text[k] # NewLine
  BY <1>2
<1> HIDE DEF text
<1>5. IsText(text)
  BY <1>3, <1>4 DEF IsText, Without
<1>. QED BY <1>5 DEF text

LEMMA TwoAreText ==
  ASSUME NEW a, NEW b, a # NewLine, b # NewLine
  PROVE  IsText(<<a, b>>)
<1>1. Listed(<<a, b>>) /\ Len(<<a, b>>) = 2 /\ <<a, b>>[1] = a /\ <<a, b>>[2] = b
  BY Pairs
<1>2. \A k \in 1..2 : k = 1 \/ k = 2
  OBVIOUS
<1>. QED BY <1>1, <1>2 DEF IsText, Without

LEMMA FilledText ==
  ASSUME NEW n \in Nat, NEW c
  PROVE  Listed(Filled(n, c)) /\ Len(Filled(n, c)) = n /\ \A k \in 1..n : Filled(n, c)[k] = c
<1>1. Filled(n, c) \in Seq({c})
  BY DEF Filled
<1>2. Listed(Filled(n, c))
  BY <1>1 DEF Listed
<1>3. Len(Filled(n, c)) = n /\ \A k \in 1..n : Filled(n, c)[k] = c
  BY DEF Filled
<1>. QED BY <1>2, <1>3

LEMMA Characters ==
  /\ "t" # NewLine /\ "h" # NewLine /\ "1" # NewLine /\ "9" # NewLine /\ "n" # NewLine
  /\ "i" # NewLine /\ "I" # NewLine /\ "a" # NewLine /\ "b" # NewLine /\ "d" # Blank /\ "1" # Blank
  /\ Colon # NewLine /\ Blank # NewLine /\ Dash # NewLine /\ "/" # NewLine /\ Colon # Blank
<1>1. /\ "t" # NewLine /\ "h" # NewLine /\ "1" # NewLine /\ "9" # NewLine /\ "n" # NewLine
      /\ "i" # NewLine /\ "I" # NewLine /\ "a" # NewLine /\ "b" # NewLine
  BY DEF NewLine
<1>2. "d" # Blank /\ "1" # Blank
  BY DEF Blank
<1>3. Colon # NewLine
  BY Zenon DEF Colon, NewLine
<1>4. Blank # NewLine
  BY Zenon DEF Blank, NewLine
<1>5. Dash # NewLine
  BY Zenon DEF Dash, NewLine
<1>6. "/" # NewLine
  BY Zenon DEF NewLine
<1>7. Colon # Blank
  BY Zenon DEF Colon, Blank
<1>. QED BY <1>1, <1>2, <1>3, <1>4, <1>5, <1>6, <1>7, Zenon

LEMMA FewResources ==
  ASSUME NEW a, NEW b, IsText(a), IsText(b)
  PROVE  IsTextList(<< >>) /\ IsTextList(<<a>>) /\ IsTextList(<<a, b, a>>)
<1>1. IsTextList(<< >>)
  BY EmptyListed DEF IsTextList
<1>2. IsTextList(<<a>>)
  <2>1. Listed(<<a>>) /\ Len(<<a>>) = 1 /\ <<a>>[1] = a
    BY OneCharacter DEF Single
  <2>. QED BY <2>1 DEF IsTextList, IsText
<1>3. IsTextList(<<a, b, a>>)
  <2>1. Listed(<<a, b, a>>)
    BY ThreeCharacters
  <2>2. \A k \in 1..Len(<<a, b, a>>) : <<a, b, a>>[k] = a \/ <<a, b, a>>[k] = b
    <3>1. \A k \in 1..Len(<<a, b, a>>) : k = 1 \/ k = 2 \/ k = 3
      OBVIOUS
    <3>. QED BY <3>1
  <2>. QED BY <2>1, <2>2 DEF IsTextList, IsText
<1>. QED BY <1>1, <1>2, <1>3

LEMMA MessageChosen ==
  ASSUME NEW f \in SignInMessages
  PROVE  IsMessage(f)
<1> DEFINE time == <<"t", ":", "t">>
           uri == <<"h", ":", "/">>
<1>1. /\ f = [schemeDomain |-> f.schemeDomain, addr |-> f.addr, statement |-> f.statement, uri |-> f.uri,
              version |-> f.version, chainId |-> f.chainId, nonce |-> f.nonce, issuedAt |-> f.issuedAt,
              expirationTime |-> f.expirationTime, notBefore |-> f.notBefore, requestId |-> f.requestId,
              resources |-> f.resources]
      /\ f.schemeDomain = <<"d", ":", "1">> /\ f.addr = Filled(40, "a")
      /\ f.statement \in {NoText, <<"I", " ", "a", ":", "b">>} /\ f.uri = uri /\ f.version = <<"1">>
      /\ f.chainId = <<"9">> /\ f.nonce \in {Filled(n, "n") : n \in 7..9} /\ f.issuedAt = time
      /\ f.expirationTime \in {NoText, time} /\ f.notBefore \in {NoText, time}
      /\ f.requestId \in {NoText, <<"i", ":">>} /\ f.resources \in {<< >>, <<uri>>, <<uri, <<"-">>, uri>>}
  BY Zenon DEF SignInMessages
<1>2. IsText(time) /\ IsText(uri) /\ IsText(<<"-">>)
  <2>1. IsText(<<"t", Colon, "t">>)
    BY Characters, ThreeAreText DEF IsText
  <2>2. IsText(<<"h", Colon, "/">>)
    BY Characters, ThreeAreText DEF IsText
  <2>3. IsText(<<Dash>>)
    BY Characters, OneIsText
  <2>. QED BY <2>1, <2>2, <2>3, Zenon DEF Colon, Dash
<1>3. IsText(f.statement) /\ IsText(f.requestId) /\ IsText(f.version) /\ IsText(f.chainId)
  <2>1. IsText(<<"I", Blank, "a", Colon, "b">>)
    BY Characters, FiveAreText
  <2>2. IsText(<<"i", Colon>>)
    BY Characters, TwoAreText
  <2>3. IsText(<<"1">>) /\ IsText(<<"9">>)
    BY Characters, OneIsText
  <2>4. f.statement = NoText \/ f.statement = <<"I", Blank, "a", Colon, "b">>
    BY <1>1, Zenon DEF Blank, Colon
  <2>5. f.requestId = NoText \/ f.requestId = <<"i", Colon>>
    BY <1>1, Zenon DEF Colon
  <2>6. f.version = <<"1">> /\ f.chainId = <<"9">>
    BY <1>1, Zenon
  <2>7. IsText(f.statement)
    BY <2>1, <2>4, NoTextIsText, Zenon
  <2>8. IsText(f.requestId)
    BY <2>2, <2>5, NoTextIsText, Zenon
  <2>. QED BY <2>3, <2>6, <2>7, <2>8, Zenon
<1>4. IsText(f.nonce)
  <2>1. PICK n \in 7..9 : f.nonce = Filled(n, "n")
    BY <1>1, Zenon
  <2>2. n \in Nat
    OBVIOUS
  <2> DEFINE c == "n"
  <2>3. c # NewLine /\ f.nonce = Filled(n, c)
    BY <2>1, Characters
  <2> HIDE DEF c
  <2>. QED BY <2>2, <2>3, FilledText DEF IsText, Without
<1>5. IsTextList(f.resources)
  <2>1. IsTextList(<< >>) /\ IsTextList(<<uri>>) /\ IsTextList(<<uri, <<"-">>, uri>>)
    <3> DEFINE dash == <<"-">>
    <3>1. IsText(uri) /\ IsText(dash)
      BY <1>2
    <3> HIDE DEF uri, dash
    <3>2. IsTextList(<< >>) /\ IsTextList(<<uri>>) /\ IsTextList(<<uri, dash, uri>>)
      BY <3>1, FewResources
    <3>. QED BY <3>2, Zenon DEF dash
  <2>2. f.resources = << >> \/ f.resources = <<uri>> \/ f.resources = <<uri, <<"-">>, uri>>
    BY <1>1, Zenon
  <2>. QED BY <2>1, <2>2, Zenon
<1>6. IsText(f.uri) /\ IsText(f.issuedAt) /\ IsText(f.expirationTime) /\ IsText(f.notBefore)
  <2>1. f.uri = uri /\ f.issuedAt = time
    BY <1>1, Zenon
  <2>2. f.expirationTime = NoText \/ f.expirationTime = time
    BY <1>1, Zenon
  <2>3. f.notBefore = NoText \/ f.notBefore = time
    BY <1>1, Zenon
  <2> HIDE DEF uri, time
  <2>. QED BY <1>2, <2>1, <2>2, <2>3, NoTextIsText
<1>7. IsHeading(f)
  <2>1. Listed(f.schemeDomain) /\ Without(f.schemeDomain, Blank)
    <3>1. f.schemeDomain = <<"d", Colon, "1">>
      BY <1>1, Zenon DEF Colon
    <3>. QED BY <3>1, Characters, ThreeAreText
  <2>2. Listed(f.addr) /\ Len(f.addr) = 40
    <3>1. f.addr = Filled(40, "a")
      BY <1>1, Zenon
    <3> DEFINE n == 40
               c == "a"
    <3>2. n \in Nat
      OBVIOUS
    <3> HIDE DEF n, c
    <3>3. Listed(Filled(n, c)) /\ Len(Filled(n, c)) = n
      BY <3>2, FilledText
    <3>. QED BY <3>1, <3>3 DEF n, c
  <2>. QED BY <1>3, <2>1, <2>2 DEF IsHeading
<1> HIDE DEF time, uri
<1>8. AreFields(f)
  BY <1>3, <1>4, <1>5, <1>6 DEF AreFields
<1>. QED BY <1>1, <1>7, <1>8, Zenon DEF IsMessage

\* What is given is such a message, whole or without its last new line.
MessageInput ==
  Given("message") =>
    /\ IsMessage(input.fields)
    /\ input.text = Message(input.fields) \/ input.text = Front(Message(input.fields))

\* Each part of a sign-in message ends up in its own field (SiweParser.sol:99-237).
THEOREM SignInMessagesRead == Spec => []SiweFieldsFound
<1>1. Init => MessageInput
  BY DEF Init, MessageInput, Given
<1>2. ASSUME MessageInput, [Next]_<<input, host, enclave>>
      PROVE  MessageInput'
  <2>1. CASE input' = input
    BY <1>2, <2>1 DEF MessageInput, Given
  <2>2. CASE ChooseMessage
    <3>1. PICK fields \in SignInMessages, lastNewLine \in BOOLEAN :
            input' = [alg |-> "message", fields |-> fields,
                      text |-> IF lastNewLine THEN Message(fields) ELSE Front(Message(fields))]
      BY <2>2, Zenon DEF ChooseMessage
    <3>2. IsMessage(fields)
      BY MessageChosen
    <3>3. input'.fields = fields /\ (input'.text = Message(fields) \/ input'.text = Front(Message(fields)))
      BY <3>1
    <3>. QED BY <3>2, <3>3 DEF MessageInput
  <2>3. CASE (ChooseInput \/ NextDay) /\ ~ ChooseMessage
    <3>1. input'.alg # "message"
      BY <2>3, ChosenKinds DEF ChooseInput
    <3>. QED BY <3>1 DEF MessageInput, Given
  <2>. QED BY <1>2, <2>1, <2>2, <2>3, InputStays
<1>3. MessageInput => SiweFieldsFound
  <2> SUFFICES ASSUME MessageInput, Given("message")
               PROVE  parseSiweMsg(input.text) = IF Len(input.fields.nonce) < 8 THEN Reverted ELSE input.fields
    BY DEF SiweFieldsFound
  <2> DEFINE f == input.fields
             text == input.text
  <2>1. IsMessage(f) /\ (text = Message(f) \/ text = Front(Message(f)))
    BY DEF MessageInput
  <2> HIDE DEF f, text
  <2>2. parseSiweMsg(text) = IF Len(f.nonce) < 8 THEN Reverted ELSE f
    BY <2>1, EveryMessageRead
  <2>. QED BY <2>2 DEF f, text
<1>. QED BY <1>1, <1>2, <1>3, PTL DEF Spec

=============================================================================
