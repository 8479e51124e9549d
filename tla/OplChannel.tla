----------------------------- MODULE OplChannel -----------------------------
(***************************************************************************)
(* What one direction of an ordered OPL link promises to the two           *)
(* applications, with no bus, no sequence numbers and no retries: messages *)
(* reach the receiver's executeMessage in the order in which they were     *)
(* posted, each of them at most once, none of them invented.               *)
(***************************************************************************)
EXTENDS Naturals, Sequences

CONSTANT Messages

VARIABLES sent,      \* the messages posted, oldest first
          received   \* the messages consumed, oldest first

Init == sent = << >> /\ received = << >>

Send == /\ \E m \in Messages : sent' = Append(sent, m)
        /\ UNCHANGED received

Receive == /\ Len(received) < Len(sent)
           /\ received' = Append(received, sent[Len(received) + 1])
           /\ UNCHANGED sent

Next == Send \/ Receive

Spec == Init /\ [][Next]_<<sent, received>>
=============================================================================
