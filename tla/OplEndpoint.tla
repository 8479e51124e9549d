---------------------------- MODULE OplEndpoint ----------------------------
(***************************************************************************)
(* Two BaseEndpoint contracts (contracts/contracts/opl/Endpoint.sol), the  *)
(* Host on its chain and the Enclave on Sapphire, that call each other     *)
(* through a Celer message bus.  A transaction is atomic, so postMessage   *)
(* and executeMessage (the handler it calls and the reply the handler      *)
(* posts included) are one step each.  The bus is external: it delivers in *)
(* any order and may lose messages; a constant says whether it may deliver *)
(* a settled message again.                                                *)
(***************************************************************************)
EXTENDS Naturals, Sequences

CONSTANTS Host, Enclave,     \* the two endpoints
          Strangers,         \* other contracts that use or imitate the bus
          Methods,           \* method selectors
          Registered,        \* Registered[e]: selectors e passed to registerEndpoint
          InOrder,           \* the inOrder argument of the constructor
          BusMayDuplicate,   \* the bus may deliver a settled message again
          MaxSeq,            \* bound: sequence numbers
          MaxPosts,          \* bound: MaxPosts[e] messages are posted by e
          MaxDeliveries      \* bound: committed deliveries at each endpoint

Endpoints == {Host, Enclave}
Remote(e) == IF e = Host THEN Enclave ELSE Host
MessageBus == "MessageBus"

ASSUME ConstantsAssumption ==
  /\ Host # Enclave
  /\ Strangers \cap Endpoints = {}
  /\ MessageBus \notin Strangers
  /\ Registered \in [Endpoints -> SUBSET Methods]
  /\ InOrder \in BOOLEAN
  /\ BusMayDuplicate \in BOOLEAN
  /\ MaxSeq \in Nat
  /\ MaxPosts \in [Endpoints -> 0..MaxSeq]
  /\ MaxDeliveries \in Nat

Message == [src : Endpoints \cup Strangers, seq : 0..MaxSeq, method : Methods]

\* enum Result, and the outcome of a call to a selector nobody registered.
HandlerResults == {"PermanentFailure", "TransientFailure", "Success"}
Outcomes == HandlerResults \cup {"EndpointMissing"}

VARIABLES txSeq,   \* txSeq[e], rxSeq[e]: the counters in e's storage
          rxSeq,
          bus,     \* bus[e]: what the bus may still deliver to e
          posted,  \* history: the messages e posted, oldest first
          log      \* history: e's committed deliveries, with their outcome

vars == <<txSeq, rxSeq, bus, posted, log>>

Init == /\ txSeq = [e \in Endpoints |-> 0]
        /\ rxSeq = [e \in Endpoints |-> 0]
        /\ bus = [e \in Endpoints |-> {}]
        /\ posted = [e \in Endpoints |-> << >>]
        /\ log = [e \in Endpoints |-> << >>]

-----------------------------------------------------------------------------
Envelope(e, method) == [src |-> e, seq |-> txSeq[e], method |-> method]

\* Mutant: the post is never counted.
PostUncounted(e, method) ==
  /\ Len(posted[e]) < MaxPosts[e]
  /\ posted' = [posted EXCEPT ![e] = Append(@, Envelope(e, method))]
  /\ UNCHANGED txSeq

\* The storage effect of postMessage: number the envelope, then count it.
Post(e, method) ==
  /\ Len(posted[e]) < MaxPosts[e]
  /\ posted' = [posted EXCEPT ![e] = Append(@, Envelope(e, method))]
  /\ txSeq' = [txSeq EXCEPT ![e] = @ + 1]

\* A transaction of the application that calls postMessage.
PostMessage(e) ==
  \E method \in Methods :
    /\ Post(e, method)
    /\ bus' = [bus EXCEPT ![Remote(e)] = @ \cup {Envelope(e, method)}]
    /\ UNCHANGED <<rxSeq, log>>

\* Who may call e.executeMessage, and with what: the bus with a message in
\* flight or with one some other contract sent; anyone else with anything.
Calls(e) ==
  ({MessageBus} \X (bus[e] \cup {m \in Message : m.src \in Strangers}))
    \cup (Strangers \X Message)

\* Mutants: without WrongSeqNum, without NotRemoteEndpoint.
MayExecuteAnySeq(e, caller, m) == caller = MessageBus /\ m.src = Remote(e)
MayExecuteAnySender(e, caller, m) ==
  caller = MessageBus /\ (InOrder => m.seq = rxSeq[e])

\* The require statements of executeMessage.
MayExecute(e, caller, m) ==
  /\ caller = MessageBus
  /\ m.src = Remote(e)
  /\ InOrder => m.seq = rxSeq[e]

\* Mutants: every failure is to be tried again, or none is.
StatusRetriesAll(outcome) == IF outcome = "Success" THEN "Success" ELSE "Retry"
StatusRetriesNone(outcome) == IF outcome = "Success" THEN "Success" ELSE "Fail"

\* The Celer ExecutionStatus that executeMessage returns.
Status(outcome) ==
  CASE outcome = "TransientFailure" -> "Retry"
    [] outcome = "Success" -> "Success"
    [] OTHER -> "Fail"

\* What the bus may hold for e after a committed delivery of m.
BusAfter(e, m, outcome) ==
  IF Status(outcome) = "Retry" THEN {bus[e]}
  ELSE {bus[e] \ {m}} \cup (IF BusMayDuplicate THEN {bus[e]} ELSE {})

\* Mutant: rxSeq is checked but not advanced.
ExecuteMessageUncounted(e, caller, m, outcome) ==
  /\ MayExecute(e, caller, m)
  /\ Len(log[e]) < MaxDeliveries
  /\ log' = [log EXCEPT ![e] = Append(@, [msg |-> m, outcome |-> outcome])]
  /\ UNCHANGED rxSeq

\* The part of executeMessage every committed delivery goes through.
ExecuteMessage(e, caller, m, outcome) ==
  /\ MayExecute(e, caller, m)
  /\ Len(log[e]) < MaxDeliveries
  /\ rxSeq' = IF InOrder THEN [rxSeq EXCEPT ![e] = @ + 1] ELSE rxSeq
  /\ log' = [log EXCEPT ![e] = Append(@, [msg |-> m, outcome |-> outcome])]

\* No handler for the selector: consumed, and answered with Fail.
DeliverUnknown(e) ==
  \E c \in Calls(e) :
    /\ c[2].method \notin Registered[e]
    /\ ExecuteMessage(e, c[1], c[2], "EndpointMissing")
    /\ \E kept \in BusAfter(e, c[2], "EndpointMissing") :
         bus' = [bus EXCEPT ![e] = kept]
    /\ UNCHANGED <<txSeq, posted>>

\* The handler runs, may post one message back, and returns a Result.
Deliver(e) ==
  \E c \in Calls(e), result \in HandlerResults :
    /\ c[2].method \in Registered[e]
    /\ ExecuteMessage(e, c[1], c[2], result)
    /\ \E kept \in BusAfter(e, c[2], result) :
         \/ /\ bus' = [bus EXCEPT ![e] = kept]
            /\ UNCHANGED <<txSeq, posted>>
         \/ \E method \in Methods :
              /\ Post(e, method)
              /\ bus' = [bus EXCEPT ![e] = kept,
                                    ![Remote(e)] = @ \cup {Envelope(e, method)}]

\* A require fails or the handler reverts: nothing changes, and the bus may
\* try the message again or (which is never choosing it) give up on it.
Revert(e) ==
  /\ \E c \in Calls(e) : ~ MayExecute(e, c[1], c[2]) \/ c[2].method \in Registered[e]
  /\ UNCHANGED vars

Next == \E e \in Endpoints :
          PostMessage(e) \/ DeliverUnknown(e) \/ Deliver(e) \/ Revert(e)

Spec == Init /\ [][Next]_vars

\* The executor keeps calling, and a handler does not revert for ever.
FairSpec == Spec /\ \A e \in Endpoints : WF_vars(DeliverUnknown(e) \/ Deliver(e))
-----------------------------------------------------------------------------
TypeOK ==
  /\ txSeq \in [Endpoints -> Nat]
  /\ rxSeq \in [Endpoints -> Nat]
  /\ bus \in [Endpoints -> SUBSET Message]
  /\ posted \in [Endpoints -> Seq(Message)]
  /\ log \in [Endpoints -> Seq([msg : Message, outcome : Outcomes])]

\* Every envelope carries the number of messages its sender posted before it.
Numbered ==
  \A e \in Endpoints :
    /\ Len(posted[e]) = txSeq[e]
    /\ \A i \in 1..Len(posted[e]) : posted[e][i].src = e /\ posted[e][i].seq = i - 1

\* The bus holds only messages the other endpoint posted.
BusGenuine ==
  \A e \in Endpoints : \A m \in bus[e] :
    \E i \in 1..Len(posted[Remote(e)]) : m = posted[Remote(e)][i]

\* Ordered endpoints consume exactly a prefix of what the remote endpoint
\* posted, each message once and in posting order, whatever the bus reorders,
\* repeats or forges (Endpoint.sol:127-133).
InOrderDelivery ==
  InOrder =>
    \A e \in Endpoints :
      /\ Len(log[e]) <= Len(posted[Remote(e)])
      /\ \A i \in 1..Len(log[e]) : log[e][i].msg = posted[Remote(e)][i]

\* rxSeq counts the consumed messages.
RxCounts == InOrder => \A e \in Endpoints : rxSeq[e] = Len(log[e])

\* The inductive invariant behind InOrderDelivery.
IInv == TypeOK /\ Numbered /\ BusGenuine /\ RxCounts /\ InOrderDelivery

\* Only messages that the remote endpoint posted are ever handled, ordered or
\* not: a forged sender or a caller other than the bus gets nowhere
\* (Endpoint.sol:119-125).
OnlyGenuineHandled ==
  \A e \in Endpoints : \A i \in 1..Len(log[e]) :
    \E j \in 1..Len(posted[Remote(e)]) : log[e][i].msg = posted[Remote(e)][j]

\* A delivery that was not answered TransientFailure is the last one of its
\* message.  Unordered endpoints have no check of their own, so this rests on
\* the bus settling a message on Fail as well as on Success, and so on the
\* status each Result is converted to (Endpoint.sol:141-145).
HandledToAnEndOnce ==
  \A e \in Endpoints : \A i, j \in 1..Len(log[e]) :
    i < j /\ log[e][i].msg = log[e][j].msg => log[e][i].outcome = "TransientFailure"

\* "The message was rejected but may be accepted later" (Endpoint.sol:19): the
\* last delivery of a message was answered TransientFailure, so the bus still
\* has it and executeMessage would still take it.
TransientFailureMayBeAcceptedLater ==
  \A e \in Endpoints : \A i \in 1..Len(log[e]) :
    LET m == log[e][i].msg IN
      (/\ log[e][i].outcome = "TransientFailure"
       /\ \A j \in (i + 1)..Len(log[e]) : log[e][j].msg # m)
        => m \in bus[e] /\ MayExecute(e, MessageBus, m)

Consumed(e) == [i \in 1..Len(log[e]) |-> log[e][i].msg]

ToEnclave == INSTANCE OplChannel WITH Messages <- Message,
                                      sent <- posted[Host],
                                      received <- Consumed(Enclave)
ToHost == INSTANCE OplChannel WITH Messages <- Message,
                                   sent <- posted[Enclave],
                                   received <- Consumed(Host)

\* Each direction of an ordered link is a FIFO channel: a step of the
\* contracts and the bus posts at the end, consumes the oldest, or is unseen.
LinkFIFO == ToEnclave!Spec /\ ToHost!Spec

\* Every posted message is eventually consumed by an ordered receiver: no
\* early, repeated or failed delivery wedges the link, as long as the bus does
\* not give up and the handlers do not revert for ever.
EventuallyConsumed ==
  \A e \in Endpoints : \A n \in 1..MaxPosts[e] :
    Len(posted[e]) >= n ~> Len(log[Remote(e)]) >= n
=============================================================================
