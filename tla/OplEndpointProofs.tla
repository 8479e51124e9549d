------------------------- MODULE OplEndpointProofs -------------------------
(***************************************************************************)
(* Proofs about OplEndpoint, for every pair of endpoints, every set of     *)
(* methods and strangers, ordered or not, and every bound.                 *)
(***************************************************************************)
EXTENDS OplEndpoint, SequenceTheorems, TLAPS

\* Each endpoint is the other one's remote.
LEMMA RemoteInvolution ==
  ASSUME NEW e \in Endpoints
  PROVE  Remote(e) \in Endpoints /\ Remote(e) # e /\ Remote(Remote(e)) = e
BY ConstantsAssumption DEF Endpoints, Remote

\* What a post does: one more message, numbered with the old txSeq.
LEMMA PostEffect ==
  ASSUME TypeOK, Numbered, NEW e \in Endpoints, NEW method \in Methods, Post(e, method)
  PROVE  /\ Envelope(e, method) \in Message
         /\ Envelope(e, method).src = e
         /\ Envelope(e, method).seq = Len(posted[e])
         /\ posted' \in [Endpoints -> Seq(Message)]
         /\ txSeq' \in [Endpoints -> Nat]
         /\ Len(posted'[e]) = Len(posted[e]) + 1
         /\ \A i \in 1..Len(posted[e]) : posted'[e][i] = posted[e][i]
         /\ posted'[e][Len(posted[e]) + 1] = Envelope(e, method)
         /\ txSeq'[e] = txSeq[e] + 1
         /\ \A f \in Endpoints \ {e} : posted'[f] = posted[f] /\ txSeq'[f] = txSeq[f]
<1>1. posted[e] \in Seq(Message) /\ Len(posted[e]) \in Nat
  BY DEF TypeOK
<1>2. txSeq[e] = Len(posted[e]) /\ txSeq[e] \in 0..MaxSeq
  <2>1. MaxPosts[e] \in 0..MaxSeq /\ MaxSeq \in Nat
    BY ConstantsAssumption
  <2>. QED
    BY <1>1, <2>1 DEF Numbered, Post
<1>3. /\ Envelope(e, method) \in Message
      /\ Envelope(e, method).src = e
      /\ Envelope(e, method).seq = Len(posted[e])
  BY <1>2 DEF Envelope, Message
<1>4. /\ posted'[e] = Append(posted[e], Envelope(e, method))
      /\ txSeq'[e] = txSeq[e] + 1
      /\ \A f \in Endpoints \ {e} : posted'[f] = posted[f] /\ txSeq'[f] = txSeq[f]
  BY DEF TypeOK, Post
<1>5. /\ Append(posted[e], Envelope(e, method)) \in Seq(Message)
      /\ Len(posted'[e]) = Len(posted[e]) + 1
      /\ \A i \in 1..Len(posted[e]) : posted'[e][i] = posted[e][i]
      /\ posted'[e][Len(posted[e]) + 1] = Envelope(e, method)
  BY <1>1, <1>3, <1>4, AppendProperties
<1>6. posted' \in [Endpoints -> Seq(Message)] /\ txSeq' \in [Endpoints -> Nat]
  BY <1>5 DEF TypeOK, Post
<1>. QED
  BY <1>3, <1>4, <1>5, <1>6

\* A step posts nothing, or one message of one endpoint, which the bus takes.
Posting(e, method) ==
  /\ Post(e, method)
  /\ bus'[Remote(e)] \subseteq bus[Remote(e)] \cup {Envelope(e, method)}
  /\ bus'[e] \subseteq bus[e]

NotPosting ==
  /\ UNCHANGED <<txSeq, posted>>
  /\ \A e \in Endpoints : bus'[e] \subseteq bus[e]

PostsAtMostOnce ==
  NotPosting \/ \E e \in Endpoints, method \in Methods : Posting(e, method)

\* The history of posts only grows at its end, so an index keeps its message.
LEMMA PostedGrows ==
  ASSUME TypeOK, Numbered, PostsAtMostOnce, NEW f \in Endpoints
  PROVE  /\ Len(posted[f]) \in Nat
         /\ Len(posted'[f]) \in Nat
         /\ Len(posted'[f]) >= Len(posted[f])
         /\ \A i \in 1..Len(posted[f]) : posted'[f][i] = posted[f][i]
<1>1. Len(posted[f]) \in Nat
  BY DEF TypeOK
<1>2. CASE NotPosting
  BY <1>1, <1>2 DEF NotPosting
<1>3. CASE \E e \in Endpoints, method \in Methods : Posting(e, method)
  <2>1. PICK e \in Endpoints, method \in Methods : Posting(e, method)
    BY <1>3
  <2>2. Post(e, method)
    BY <2>1 DEF Posting
  <2>3. CASE f = e
    BY <1>1, <2>2, <2>3, PostEffect
  <2>4. CASE f # e
    <3>1. posted'[f] = posted[f]
      BY <2>2, <2>4, PostEffect
    <3>. QED
      BY <1>1, <3>1
  <2>. QED
    BY <2>3, <2>4
<1>. QED
  BY <1>2, <1>3 DEF PostsAtMostOnce

\* A step that posts at most one envelope keeps the posts numbered.
LEMMA NumberedPreserved ==
  ASSUME TypeOK, Numbered, PostsAtMostOnce
  PROVE  Numbered'
<1>. SUFFICES ASSUME NEW f \in Endpoints
              PROVE  /\ Len(posted'[f]) = txSeq'[f]
                     /\ \A i \in 1..Len(posted'[f]) :
                          posted'[f][i].src = f /\ posted'[f][i].seq = i - 1
  BY DEF Numbered
<1>1. CASE NotPosting
  BY <1>1 DEF NotPosting, Numbered
<1>2. CASE \E e \in Endpoints, method \in Methods : Posting(e, method)
  <2>1. PICK e \in Endpoints, method \in Methods : Post(e, method)
    BY <1>2 DEF Posting
  <2>2. CASE f = e
    <3>1. Len(posted[e]) \in Nat /\ Len(posted[e]) = txSeq[e]
      BY DEF TypeOK, Numbered
    <3>2. Len(posted'[e]) = Len(posted[e]) + 1 /\ txSeq'[e] = txSeq[e] + 1
      BY <2>1, PostEffect
    <3>3. ASSUME NEW i \in 1..Len(posted'[e])
          PROVE  posted'[e][i].src = e /\ posted'[e][i].seq = i - 1
      <4>1. CASE i \in 1..Len(posted[e])
        <5>1. posted'[e][i] = posted[e][i]
          BY <2>1, <4>1, PostEffect
        <5>. QED
          BY <4>1, <5>1 DEF Numbered
      <4>2. CASE i = Len(posted[e]) + 1
        <5>1. posted'[e][i] = Envelope(e, method)
          BY <2>1, <4>2, PostEffect
        <5>2. Envelope(e, method).src = e /\ Envelope(e, method).seq = Len(posted[e])
          BY <2>1, PostEffect
        <5>. QED
          BY <3>1, <4>2, <5>1, <5>2
      <4>. QED
        BY <3>1, <3>2, <4>1, <4>2
    <3>. QED
      BY <2>2, <3>1, <3>2, <3>3
  <2>3. CASE f # e
    <3>1. posted'[f] = posted[f] /\ txSeq'[f] = txSeq[f]
      BY <2>1, <2>3, PostEffect
    <3>. QED
      BY <3>1 DEF Numbered
  <2>. QED
    BY <2>2, <2>3
<1>. QED
  BY <1>1, <1>2 DEF PostsAtMostOnce

\* A step that posts at most one envelope keeps forgeries off the bus.
LEMMA BusGenuinePreserved ==
  ASSUME TypeOK, Numbered, BusGenuine, PostsAtMostOnce
  PROVE  BusGenuine'
<1>. SUFFICES ASSUME NEW f \in Endpoints, NEW m \in bus'[f]
              PROVE  \E i \in 1..Len(posted'[Remote(f)]) : m = posted'[Remote(f)][i]
  BY DEF BusGenuine
<1>. DEFINE g == Remote(f)
<1>0. g \in Endpoints /\ Remote(g) = f
  BY RemoteInvolution
<1>1. CASE m \in bus[f]
  <2>1. PICK i \in 1..Len(posted[g]) : m = posted[g][i]
    BY <1>1 DEF BusGenuine
  <2>2. i \in 1..Len(posted'[g]) /\ m = posted'[g][i]
    BY <1>0, <2>1, PostedGrows
  <2>. QED
    BY <2>2
<1>2. CASE m \notin bus[f]
  <2>1. PICK e \in Endpoints, method \in Methods : Posting(e, method)
    BY <1>2 DEF NotPosting, PostsAtMostOnce
  <2>2. f # e
    BY <1>2, <2>1 DEF Posting
  <2>3. g = e /\ m = Envelope(e, method)
    BY <1>2, <2>1, <2>2 DEF Posting, Endpoints, Remote
  <2>4. /\ Len(posted[e]) \in Nat
        /\ Len(posted'[e]) = Len(posted[e]) + 1
        /\ posted'[e][Len(posted[e]) + 1] = m
    <3>1. Post(e, method)
      BY <2>1 DEF Posting
    <3>2. Len(posted[e]) \in Nat
      BY DEF TypeOK
    <3>. QED
      BY <2>3, <3>1, <3>2, PostEffect
  <2>5. Len(posted[e]) + 1 \in 1..Len(posted'[e])
    BY <2>4
  <2>. QED
    BY <2>3, <2>4, <2>5
<1>. QED
  BY <1>1, <1>2

-----------------------------------------------------------------------------
\* A call that passes the checks carries a message the remote endpoint posted.
LEMMA AcceptedIsGenuine ==
  ASSUME BusGenuine, NEW e \in Endpoints, NEW c \in Calls(e), MayExecute(e, c[1], c[2])
  PROVE  \E i \in 1..Len(posted[Remote(e)]) : c[2] = posted[Remote(e)][i]
<1>1. c[1] = MessageBus /\ c[2].src \notin Strangers
  BY RemoteInvolution, ConstantsAssumption DEF MayExecute
<1>2. c[2] \in bus[e]
  BY <1>1, ConstantsAssumption DEF Calls
<1>. QED
  BY <1>2 DEF BusGenuine

\* Whoever calls executeMessage, and with whatever, passes it a message.
LEMMA CallsAreMessages ==
  ASSUME TypeOK, NEW e \in Endpoints, NEW c \in Calls(e)
  PROVE  c[2] \in Message
BY DEF TypeOK, Calls

\* Every step posts at most once, and consumes at most one message, which
\* is not the one it posts.
Consumes ==
  \E e \in Endpoints : \E c \in Calls(e), outcome \in Outcomes :
    /\ ExecuteMessage(e, c[1], c[2], outcome)
    /\ posted'[Remote(e)] = posted[Remote(e)]

\* What any step does: it posts at most once, and either consumes one message
\* or leaves the receiving side alone.
LEMMA StepShape ==
  ASSUME TypeOK, Numbered, [Next]_vars
  PROVE  /\ PostsAtMostOnce
         /\ UNCHANGED <<rxSeq, log>> \/ Consumes
         /\ bus' \in [Endpoints -> SUBSET Message]
<1>. DEFINE Type == bus' \in [Endpoints -> SUBSET Message]
<1>. bus \in [Endpoints -> SUBSET Message]
  BY DEF TypeOK
<1>. USE RemoteInvolution
<1>0. \A e \in Endpoints : \A m, o : \A kept \in BusAfter(e, m, o) : kept \subseteq bus[e]
  BY DEF BusAfter
<1>1. ASSUME NEW e \in Endpoints, PostMessage(e)
      PROVE  (\E method \in Methods : Posting(e, method)) /\ UNCHANGED <<rxSeq, log>> /\ Type
  <2>1. PICK method \in Methods :
          /\ Post(e, method)
          /\ bus' = [bus EXCEPT ![Remote(e)] = @ \cup {Envelope(e, method)}]
          /\ UNCHANGED <<rxSeq, log>>
    BY <1>1 DEF PostMessage
  <2>2. Envelope(e, method) \in Message
    BY <2>1, PostEffect
  <2>. QED
    BY <2>1, <2>2 DEF Posting
<1>2. ASSUME NEW e \in Endpoints, DeliverUnknown(e)
      PROVE  NotPosting /\ Consumes /\ Type
  <2>1. PICK c \in Calls(e) :
          /\ ExecuteMessage(e, c[1], c[2], "EndpointMissing")
          /\ \E kept \in BusAfter(e, c[2], "EndpointMissing") :
               bus' = [bus EXCEPT ![e] = kept]
          /\ UNCHANGED <<txSeq, posted>>
    BY <1>2 DEF DeliverUnknown
  <2>2. Consumes
    BY <2>1 DEF Consumes, Outcomes
  <2>3. NotPosting /\ Type
    BY <1>0, <2>1 DEF NotPosting
  <2>. QED
    BY <2>2, <2>3
<1>3. ASSUME NEW e \in Endpoints, Deliver(e)
      PROVE  PostsAtMostOnce /\ Consumes /\ Type
  <2>1. PICK c \in Calls(e), result \in HandlerResults :
          /\ ExecuteMessage(e, c[1], c[2], result)
          /\ \E kept \in BusAfter(e, c[2], result) :
               \/ /\ bus' = [bus EXCEPT ![e] = kept]
                  /\ UNCHANGED <<txSeq, posted>>
               \/ \E method \in Methods :
                    /\ Post(e, method)
                    /\ bus' = [bus EXCEPT ![e] = kept,
                                 ![Remote(e)] = @ \cup {Envelope(e, method)}]
    BY <1>3 DEF Deliver
  <2>2. posted'[Remote(e)] = posted[Remote(e)] => Consumes
    BY <2>1 DEF Consumes, Outcomes
  <2>3. PICK kept \in BusAfter(e, c[2], result) :
               \/ /\ bus' = [bus EXCEPT ![e] = kept]
                  /\ UNCHANGED <<txSeq, posted>>
               \/ \E method \in Methods :
                    /\ Post(e, method)
                    /\ bus' = [bus EXCEPT ![e] = kept,
                                 ![Remote(e)] = @ \cup {Envelope(e, method)}]
    BY <2>1
  <2>4. kept \subseteq bus[e]
    BY <1>0, <2>3
  <2>5. CASE bus' = [bus EXCEPT ![e] = kept] /\ UNCHANGED <<txSeq, posted>>
    <3>1. NotPosting /\ Type
      BY <2>4, <2>5 DEF NotPosting
    <3>2. posted'[Remote(e)] = posted[Remote(e)]
      BY <2>5
    <3>. QED
      BY <2>2, <3>1, <3>2 DEF PostsAtMostOnce
  <2>6. CASE \E method \in Methods :
               /\ Post(e, method)
               /\ bus' = [bus EXCEPT ![e] = kept,
                            ![Remote(e)] = @ \cup {Envelope(e, method)}]
    <3>1. PICK method \in Methods :
               /\ Post(e, method)
               /\ bus' = [bus EXCEPT ![e] = kept,
                            ![Remote(e)] = @ \cup {Envelope(e, method)}]
      BY <2>6
    <3>2. Envelope(e, method) \in Message
      BY <3>1, PostEffect
    <3>3. /\ bus'[e] = kept
          /\ bus'[Remote(e)] = bus[Remote(e)] \cup {Envelope(e, method)}
      BY <3>1
    <3>4. Posting(e, method)
      BY <2>4, <3>1, <3>3 DEF Posting
    <3>5. Type
      BY <2>4, <3>1, <3>2
    <3>6. posted'[Remote(e)] = posted[Remote(e)]
      BY <3>1, PostEffect
    <3>. QED
      BY <2>2, <3>4, <3>5, <3>6 DEF PostsAtMostOnce
  <2>. QED
    BY <2>3, <2>5, <2>6
<1>4. ASSUME NEW e \in Endpoints, Revert(e)
      PROVE  NotPosting /\ UNCHANGED <<rxSeq, log>> /\ Type
  BY <1>4 DEF Revert, vars, NotPosting
<1>5. ASSUME UNCHANGED vars
      PROVE  NotPosting /\ UNCHANGED <<rxSeq, log>> /\ Type
  BY <1>5 DEF vars, NotPosting
<1>. QED
  BY <1>1, <1>2, <1>3, <1>4, <1>5 DEF Next, PostsAtMostOnce

\* A step keeps the types of the counters, the bus and the histories.
LEMMA TypePreserved ==
  ASSUME TypeOK, Numbered, [Next]_vars
  PROVE  TypeOK'
<1>1. /\ PostsAtMostOnce
      /\ UNCHANGED <<rxSeq, log>> \/ Consumes
      /\ bus' \in [Endpoints -> SUBSET Message]
  BY StepShape
<1>2. txSeq' \in [Endpoints -> Nat] /\ posted' \in [Endpoints -> Seq(Message)]
  <2>1. CASE NotPosting
    BY <2>1 DEF NotPosting, TypeOK
  <2>2. CASE \E e \in Endpoints, method \in Methods : Posting(e, method)
    BY <2>2, PostEffect DEF Posting
  <2>. QED
    BY <1>1, <2>1, <2>2 DEF PostsAtMostOnce
<1>4. /\ rxSeq' \in [Endpoints -> Nat]
      /\ log' \in [Endpoints -> Seq([msg : Message, outcome : Outcomes])]
  <2>1. CASE UNCHANGED <<rxSeq, log>>
    BY <2>1 DEF TypeOK
  <2>2. ASSUME NEW e \in Endpoints, NEW c \in Calls(e), NEW outcome \in Outcomes,
               ExecuteMessage(e, c[1], c[2], outcome)
        PROVE  /\ rxSeq' \in [Endpoints -> Nat]
               /\ log' \in [Endpoints -> Seq([msg : Message, outcome : Outcomes])]
    <3>1. [msg |-> c[2], outcome |-> outcome] \in [msg : Message, outcome : Outcomes]
      BY CallsAreMessages
    <3>2. Append(log[e], [msg |-> c[2], outcome |-> outcome])
             \in Seq([msg : Message, outcome : Outcomes])
      BY <3>1, AppendProperties DEF TypeOK
    <3>3. log' \in [Endpoints -> Seq([msg : Message, outcome : Outcomes])]
      BY <2>2, <3>2 DEF ExecuteMessage, TypeOK
    <3>4. rxSeq' \in [Endpoints -> Nat]
      BY <2>2 DEF ExecuteMessage, TypeOK
    <3>. QED
      BY <3>3, <3>4
  <2>. QED
    BY <1>1, <2>1, <2>2 DEF Consumes
<1>. QED
  BY <1>1, <1>2, <1>4 DEF TypeOK

\* A message consumed by an ordered endpoint is the next one posted to it.
LEMMA ConsumesNext ==
  ASSUME InOrder, IInv, NEW e \in Endpoints, NEW c \in Calls(e), NEW outcome \in Outcomes,
         ExecuteMessage(e, c[1], c[2], outcome)
  PROVE  /\ Len(log[e]) \in Nat
         /\ Len(log[e]) < Len(posted[Remote(e)])
         /\ c[2] = posted[Remote(e)][Len(log[e]) + 1]
         /\ Len(log'[e]) = Len(log[e]) + 1
         /\ \A i \in 1..Len(log[e]) : log'[e][i] = log[e][i]
         /\ log'[e][Len(log[e]) + 1].msg = c[2]
         /\ rxSeq'[e] = rxSeq[e] + 1
         /\ \A f \in Endpoints \ {e} : log'[f] = log[f] /\ rxSeq'[f] = rxSeq[f]
<1>. DEFINE r == Remote(e)  entry == [msg |-> c[2], outcome |-> outcome]
<1>1. r \in Endpoints
  BY RemoteInvolution
<1>2. Len(log[e]) \in Nat /\ Len(posted[r]) \in Nat /\ rxSeq[e] = Len(log[e])
  BY <1>1 DEF IInv, TypeOK, RxCounts
<1>3. PICK i \in 1..Len(posted[r]) : c[2] = posted[r][i]
  BY AcceptedIsGenuine DEF IInv, ExecuteMessage
<1>4. c[2].seq = i - 1 /\ c[2].seq = rxSeq[e]
  BY <1>1, <1>3 DEF IInv, Numbered, ExecuteMessage, MayExecute
<1>5. i = Len(log[e]) + 1
  BY <1>2, <1>3, <1>4
<1>6. /\ log'[e] = Append(log[e], entry)
      /\ rxSeq'[e] = rxSeq[e] + 1
      /\ \A f \in Endpoints \ {e} : log'[f] = log[f] /\ rxSeq'[f] = rxSeq[f]
  BY DEF IInv, TypeOK, ExecuteMessage
<1>7. entry \in [msg : Message, outcome : Outcomes] /\ entry.msg = c[2]
  BY CallsAreMessages DEF IInv
<1>8. log[e] \in Seq([msg : Message, outcome : Outcomes])
  BY DEF IInv, TypeOK
<1>9. /\ Len(log'[e]) = Len(log[e]) + 1
      /\ \A j \in 1..Len(log[e]) : log'[e][j] = log[e][j]
      /\ log'[e][Len(log[e]) + 1] = entry
  BY <1>6, <1>7, <1>8, AppendProperties
<1>. QED
  BY <1>2, <1>3, <1>5, <1>6, <1>7, <1>9

\* A step keeps rxSeq counting, and what was consumed a prefix of the posts.
LEMMA OrderPreserved ==
  ASSUME IInv, [Next]_vars
  PROVE  RxCounts' /\ InOrderDelivery'
<1>. SUFFICES ASSUME InOrder, NEW f \in Endpoints
              PROVE  /\ rxSeq'[f] = Len(log'[f])
                     /\ Len(log'[f]) <= Len(posted'[Remote(f)])
                     /\ \A i \in 1..Len(log'[f]) : log'[f][i].msg = posted'[Remote(f)][i]
  BY DEF RxCounts, InOrderDelivery
<1>. DEFINE g == Remote(f)
<1>1. g \in Endpoints
  BY RemoteInvolution
<1>2. PostsAtMostOnce /\ (UNCHANGED <<rxSeq, log>> \/ Consumes)
  BY StepShape DEF IInv
<1>3. /\ Len(posted[g]) \in Nat /\ Len(posted'[g]) \in Nat
      /\ Len(posted'[g]) >= Len(posted[g])
      /\ \A i \in 1..Len(posted[g]) : posted'[g][i] = posted[g][i]
  BY <1>1, <1>2, PostedGrows DEF IInv
<1>4. /\ Len(log[f]) \in Nat /\ rxSeq[f] = Len(log[f])
      /\ Len(log[f]) <= Len(posted[g])
      /\ \A i \in 1..Len(log[f]) : log[f][i].msg = posted[g][i]
  BY DEF IInv, TypeOK, RxCounts, InOrderDelivery
<1>5. CASE log'[f] = log[f] /\ rxSeq'[f] = rxSeq[f]
  BY <1>3, <1>4, <1>5
<1>6. ASSUME NEW c \in Calls(f), NEW outcome \in Outcomes,
             ExecuteMessage(f, c[1], c[2], outcome)
      PROVE  /\ rxSeq'[f] = Len(log'[f])
             /\ Len(log'[f]) <= Len(posted'[g])
             /\ \A i \in 1..Len(log'[f]) : log'[f][i].msg = posted'[g][i]
  <2>1. /\ Len(log[f]) < Len(posted[g])
        /\ c[2] = posted[g][Len(log[f]) + 1]
        /\ Len(log'[f]) = Len(log[f]) + 1
        /\ \A i \in 1..Len(log[f]) : log'[f][i] = log[f][i]
        /\ log'[f][Len(log[f]) + 1].msg = c[2]
        /\ rxSeq'[f] = rxSeq[f] + 1
    BY <1>6, ConsumesNext
  <2>2. rxSeq'[f] = Len(log'[f]) /\ Len(log'[f]) <= Len(posted'[g])
    BY <1>3, <1>4, <2>1
  <2>3. ASSUME NEW i \in 1..Len(log'[f])
        PROVE  log'[f][i].msg = posted'[g][i]
    <3>1. CASE i \in 1..Len(log[f])
      <4>1. log'[f][i] = log[f][i]
        BY <2>1, <3>1
      <4>2. log[f][i].msg = posted[g][i]
        BY <1>4, <3>1
      <4>3. i \in 1..Len(posted[g])
        BY <1>3, <1>4, <3>1
      <4>4. posted'[g][i] = posted[g][i]
        BY <1>3, <4>3
      <4>. QED
        BY <4>1, <4>2, <4>4
    <3>2. CASE i = Len(log[f]) + 1
      BY <1>3, <1>4, <2>1, <3>2
    <3>. QED
      BY <1>4, <2>1, <3>1, <3>2
  <2>. QED
    BY <2>2, <2>3
<1>7. CASE Consumes
  <2>1. PICK e \in Endpoints : \E c \in Calls(e), outcome \in Outcomes :
                                 ExecuteMessage(e, c[1], c[2], outcome)
    BY <1>7 DEF Consumes
  <2>2. CASE e = f
    BY <1>6, <2>1, <2>2
  <2>3. CASE e # f
    <3>1. log'[f] = log[f] /\ rxSeq'[f] = rxSeq[f]
      BY <2>1, <2>3, ConsumesNext
    <3>. QED
      BY <1>5, <3>1
  <2>. QED
    BY <2>2, <2>3
<1>. QED
  BY <1>2, <1>5, <1>7

-----------------------------------------------------------------------------
\* IInv is inductive: the envelopes are numbered by posting order, the bus
\* holds only posted envelopes, and rxSeq counts what was consumed, so the
\* one envelope executeMessage accepts is the oldest unconsumed one.
THEOREM Invariance == Spec => []IInv
<1>1. Init => IInv
  <2>. SUFFICES ASSUME Init PROVE IInv
    OBVIOUS
  <2>1. TypeOK
    BY EmptySeq DEF Init, TypeOK
  <2>2. Numbered /\ BusGenuine /\ RxCounts
    BY DEF Init, Numbered, BusGenuine, RxCounts
  <2>3. InOrderDelivery
    BY RemoteInvolution DEF Init, InOrderDelivery
  <2>. QED
    BY <2>1, <2>2, <2>3 DEF IInv
<1>2. IInv /\ [Next]_vars => IInv'
  <2>. SUFFICES ASSUME IInv, [Next]_vars PROVE IInv'
    OBVIOUS
  <2>1. TypeOK'
    BY TypePreserved DEF IInv
  <2>2. Numbered' /\ BusGenuine'
    BY StepShape, NumberedPreserved, BusGenuinePreserved DEF IInv
  <2>3. RxCounts' /\ InOrderDelivery'
    BY OrderPreserved
  <2>. QED
    BY <2>1, <2>2, <2>3 DEF IInv
<1>. QED
  BY <1>1, <1>2, PTL DEF Spec

\* Ordered endpoints consume a prefix of what was posted, whatever the bus
\* does, for any number of messages.
THEOREM OrderedDelivery == Spec => []InOrderDelivery
<1>1. IInv => InOrderDelivery
  BY DEF IInv
<1>. QED
  BY <1>1, Invariance, PTL

\* A delivery adds to the log a message that the remote endpoint has posted.
LEMMA DeliveryIsGenuine ==
  ASSUME IInv, OnlyGenuineHandled, NEW e \in Endpoints, NEW c \in Calls(e),
         NEW outcome \in Outcomes, ExecuteMessage(e, c[1], c[2], outcome)
  PROVE  \A f \in Endpoints : \A i \in 1..Len(log'[f]) :
           \E j \in 1..Len(posted[Remote(f)]) : log'[f][i].msg = posted[Remote(f)][j]
<1>. DEFINE entry == [msg |-> c[2], outcome |-> outcome]
<1>1. /\ log'[e] = Append(log[e], entry)
      /\ \A f \in Endpoints \ {e} : log'[f] = log[f]
  BY DEF IInv, TypeOK, ExecuteMessage
<1>2. entry \in [msg : Message, outcome : Outcomes] /\ entry.msg = c[2]
  BY CallsAreMessages DEF IInv
<1>3. log[e] \in Seq([msg : Message, outcome : Outcomes])
  BY DEF IInv, TypeOK
<1>4. /\ Len(log[e]) \in Nat /\ Len(log'[e]) = Len(log[e]) + 1
      /\ \A i \in 1..Len(log[e]) : log'[e][i] = log[e][i]
      /\ log'[e][Len(log[e]) + 1] = entry
  BY <1>1, <1>2, <1>3, AppendProperties
<1>5. \E j \in 1..Len(posted[Remote(e)]) : c[2] = posted[Remote(e)][j]
  BY AcceptedIsGenuine DEF IInv, ExecuteMessage
<1>6. ASSUME NEW i \in 1..Len(log'[e])
      PROVE  \E j \in 1..Len(posted[Remote(e)]) : log'[e][i].msg = posted[Remote(e)][j]
  <2>1. CASE i \in 1..Len(log[e])
    BY <1>4, <2>1 DEF OnlyGenuineHandled
  <2>2. CASE i = Len(log[e]) + 1
    BY <1>2, <1>4, <1>5, <2>2
  <2>. QED BY <1>4, <2>1, <2>2
<1>7. ASSUME NEW f \in Endpoints, NEW i \in 1..Len(log'[f])
      PROVE  \E j \in 1..Len(posted[Remote(f)]) : log'[f][i].msg = posted[Remote(f)][j]
  <2>1. CASE f = e
    BY <1>6, <2>1
  <2>2. CASE f # e
    <3>1. log'[f] = log[f]
      BY <1>1, <2>2
    <3>. QED BY <3>1 DEF OnlyGenuineHandled
  <2>. QED BY <2>1, <2>2
<1>. QED BY <1>7

\* Ordered or not, an endpoint handles nothing but what the other one posted,
\* for any number of strangers who use the bus or imitate it.
THEOREM GenuineDelivery == Spec => []OnlyGenuineHandled
<1>1. Init => OnlyGenuineHandled
  BY DEF Init, OnlyGenuineHandled
<1>2. IInv /\ OnlyGenuineHandled /\ [Next]_vars => OnlyGenuineHandled'
  <2>. SUFFICES ASSUME IInv, OnlyGenuineHandled, [Next]_vars PROVE OnlyGenuineHandled'
    OBVIOUS
  <2>1. PostsAtMostOnce /\ (UNCHANGED <<rxSeq, log>> \/ Consumes)
    BY StepShape DEF IInv
  <2>2. \A f \in Endpoints : \A i \in 1..Len(log'[f]) :
          \E j \in 1..Len(posted[Remote(f)]) : log'[f][i].msg = posted[Remote(f)][j]
    <3>1. CASE UNCHANGED log
      BY <3>1 DEF OnlyGenuineHandled
    <3>2. CASE Consumes
      <4>1. PICK e \in Endpoints : \E c \in Calls(e), outcome \in Outcomes :
              ExecuteMessage(e, c[1], c[2], outcome)
        BY <3>2 DEF Consumes
      <4>. QED BY <4>1, DeliveryIsGenuine
    <3>. QED BY <2>1, <3>1, <3>2
  <2>3. ASSUME NEW f \in Endpoints, NEW j \in 1..Len(posted[Remote(f)])
        PROVE  j \in 1..Len(posted'[Remote(f)])
               /\ posted'[Remote(f)][j] = posted[Remote(f)][j]
    <3>1. Remote(f) \in Endpoints
      BY RemoteInvolution
    <3>. QED BY <2>1, <3>1, PostedGrows DEF IInv
  <2>4. ASSUME NEW f \in Endpoints, NEW i \in 1..Len(log'[f])
        PROVE  \E j \in 1..Len(posted'[Remote(f)]) : log'[f][i].msg = posted'[Remote(f)][j]
    <3>1. PICK j \in 1..Len(posted[Remote(f)]) : log'[f][i].msg = posted[Remote(f)][j]
      BY <2>2
    <3>2. j \in 1..Len(posted'[Remote(f)]) /\ posted'[Remote(f)][j] = posted[Remote(f)][j]
      BY <2>3
    <3>3. log'[f][i].msg = posted'[Remote(f)][j]
      BY <3>1, <3>2
    <3>. QED BY <3>2, <3>3
  <2>5. \A e \in Endpoints : Remote(e)' = Remote(e)
    BY DEF Remote
  <2>. QED BY <2>4, <2>5 DEF OnlyGenuineHandled
<1>. QED BY <1>1, <1>2, Invariance, PTL DEF Spec

-----------------------------------------------------------------------------
\* A delivery, with what it leaves on the bus for either end.
Takes(e, c, outcome) ==
  /\ ExecuteMessage(e, c[1], c[2], outcome)
  /\ bus'[e] \in BusAfter(e, c[2], outcome)
  /\ bus[Remote(e)] \subseteq bus'[Remote(e)]

\* A step delivers one message, or takes none off the bus.
LEMMA BusShape ==
  ASSUME TypeOK, [Next]_vars
  PROVE  \/ UNCHANGED log /\ \A f \in Endpoints : bus[f] \subseteq bus'[f]
         \/ \E e \in Endpoints : \E c \in Calls(e), outcome \in Outcomes : Takes(e, c, outcome)
<1>. bus \in [Endpoints -> SUBSET Message]
  BY DEF TypeOK
<1>. USE RemoteInvolution
<1>1. ASSUME NEW e \in Endpoints, PostMessage(e)
      PROVE  UNCHANGED log /\ \A f \in Endpoints : bus[f] \subseteq bus'[f]
  BY <1>1 DEF PostMessage
<1>2. ASSUME NEW e \in Endpoints, DeliverUnknown(e)
      PROVE  \E c \in Calls(e), outcome \in Outcomes : Takes(e, c, outcome)
  <2>1. PICK c \in Calls(e) :
          /\ ExecuteMessage(e, c[1], c[2], "EndpointMissing")
          /\ \E kept \in BusAfter(e, c[2], "EndpointMissing") :
               bus' = [bus EXCEPT ![e] = kept]
    BY <1>2 DEF DeliverUnknown
  <2>2. Takes(e, c, "EndpointMissing")
    BY <2>1 DEF Takes
  <2>. QED BY <2>2 DEF Outcomes
<1>3. ASSUME NEW e \in Endpoints, Deliver(e)
      PROVE  \E c \in Calls(e), outcome \in Outcomes : Takes(e, c, outcome)
  <2>1. PICK c \in Calls(e), result \in HandlerResults :
          /\ ExecuteMessage(e, c[1], c[2], result)
          /\ \E kept \in BusAfter(e, c[2], result) :
               \/ bus' = [bus EXCEPT ![e] = kept]
               \/ \E method \in Methods :
                    bus' = [bus EXCEPT ![e] = kept,
                                 ![Remote(e)] = @ \cup {Envelope(e, method)}]
    BY <1>3 DEF Deliver
  <2>2. PICK kept \in BusAfter(e, c[2], result) :
               \/ bus' = [bus EXCEPT ![e] = kept]
               \/ \E method \in Methods :
                    bus' = [bus EXCEPT ![e] = kept,
                                 ![Remote(e)] = @ \cup {Envelope(e, method)}]
    BY <2>1
  <2>3. bus'[e] = kept /\ bus[Remote(e)] \subseteq bus'[Remote(e)]
    BY <2>2
  <2>4. Takes(e, c, result)
    BY <2>1, <2>2, <2>3 DEF Takes
  <2>. QED BY <2>4 DEF Outcomes
<1>4. (\E e \in Endpoints : Revert(e)) \/ UNCHANGED vars
        => UNCHANGED log /\ \A f \in Endpoints : bus[f] \subseteq bus'[f]
  BY DEF Revert, vars
<1>5. (\E e \in Endpoints : PostMessage(e) \/ DeliverUnknown(e) \/ Deliver(e) \/ Revert(e))
        \/ UNCHANGED vars
  BY DEF Next
<1>. QED BY <1>1, <1>2, <1>3, <1>4, <1>5

\* What comes onto the bus has never been posted before.
LEMMA NewIsUnposted ==
  ASSUME TypeOK, Numbered, PostsAtMostOnce, NEW f \in Endpoints, NEW m \in bus'[f] \ bus[f]
  PROVE  \A j \in 1..Len(posted[Remote(f)]) : posted[Remote(f)][j] # m
<1>1. PICK e \in Endpoints, method \in Methods : Posting(e, method)
  BY DEF NotPosting, PostsAtMostOnce
<1>2. f # e
  BY <1>1 DEF Posting
<1>3. Remote(f) = e /\ Remote(e) = f
  BY <1>2 DEF Endpoints, Remote
<1>4. m = Envelope(e, method)
  BY <1>1, <1>3 DEF Posting
<1>5. m.seq = Len(posted[e]) /\ Len(posted[e]) \in Nat
  <2>1. Post(e, method)
    BY <1>1 DEF Posting
  <2>2. Envelope(e, method).seq = Len(posted[e])
    BY <2>1, PostEffect
  <2>3. Len(posted[e]) \in Nat
    BY DEF TypeOK
  <2>. QED BY <1>4, <2>2, <2>3
<1>6. \A j \in 1..Len(posted[e]) : posted[e][j].seq = j - 1
  BY DEF Numbered
<1>. QED BY <1>3, <1>5, <1>6

\* A delivery is of a message on the bus, and comes at the end of the log.
LEMMA DeliveryEffect ==
  ASSUME TypeOK, NEW e \in Endpoints, NEW c \in Calls(e), NEW outcome \in Outcomes,
         ExecuteMessage(e, c[1], c[2], outcome)
  PROVE  /\ c[2] \in bus[e]
         /\ Len(log[e]) \in Nat /\ Len(log'[e]) = Len(log[e]) + 1
         /\ \A i \in 1..Len(log[e]) : log'[e][i] = log[e][i]
         /\ log'[e][Len(log[e]) + 1].msg = c[2]
         /\ log'[e][Len(log[e]) + 1].outcome = outcome
         /\ \A f \in Endpoints \ {e} : log'[f] = log[f]
<1>. DEFINE entry == [msg |-> c[2], outcome |-> outcome]
<1>1. c[1] = MessageBus /\ c[2].src \notin Strangers
  BY RemoteInvolution, ConstantsAssumption DEF ExecuteMessage, MayExecute
<1>2. c[2] \in bus[e]
  BY <1>1, ConstantsAssumption DEF Calls
<1>3. /\ log'[e] = Append(log[e], entry)
      /\ \A f \in Endpoints \ {e} : log'[f] = log[f]
  BY DEF TypeOK, ExecuteMessage
<1>4. entry \in [msg : Message, outcome : Outcomes]
  BY CallsAreMessages
<1>5. log[e] \in Seq([msg : Message, outcome : Outcomes])
  BY DEF TypeOK
<1>6. /\ Len(log[e]) \in Nat /\ Len(log'[e]) = Len(log[e]) + 1
      /\ \A i \in 1..Len(log[e]) : log'[e][i] = log[e][i]
      /\ log'[e][Len(log[e]) + 1] = entry
  BY <1>3, <1>4, <1>5, AppendProperties
<1>. QED BY <1>2, <1>3, <1>6

\* What was handled to an end has left the bus, for good if the bus does not
\* repeat itself.
Settled ==
  \A e \in Endpoints : \A i \in 1..Len(log[e]) :
    log[e][i].outcome # "TransientFailure" => log[e][i].msg \notin bus[e]

\* No step puts a settled message back, or handles it again.
LEMMA SettledPreserved ==
  ASSUME ~ BusMayDuplicate, IInv, OnlyGenuineHandled, Settled, HandledToAnEndOnce, [Next]_vars
  PROVE  Settled' /\ HandledToAnEndOnce'
<1>1. PostsAtMostOnce
  BY StepShape DEF IInv
<1>2. ASSUME NEW f \in Endpoints, NEW i \in 1..Len(log[f])
      PROVE  log[f][i].msg \notin bus'[f] \ bus[f]
  BY <1>1, NewIsUnposted DEF IInv, OnlyGenuineHandled
<1>3. CASE UNCHANGED log
  <2>1. HandledToAnEndOnce'
    BY <1>3 DEF HandledToAnEndOnce
  <2>. QED BY <1>2, <1>3, <2>1 DEF Settled
<1>4. ASSUME NEW e \in Endpoints, NEW c \in Calls(e), NEW outcome \in Outcomes,
             Takes(e, c, outcome)
      PROVE  Settled' /\ HandledToAnEndOnce'
  <2>. DEFINE n == Len(log[e])
  <2>1. ExecuteMessage(e, c[1], c[2], outcome) /\ bus'[e] \in BusAfter(e, c[2], outcome)
    BY <1>4 DEF Takes
  <2>2. /\ c[2] \in bus[e]
        /\ n \in Nat /\ Len(log'[e]) = n + 1
        /\ \A i \in 1..n : log'[e][i] = log[e][i]
        /\ log'[e][n + 1].msg = c[2] /\ log'[e][n + 1].outcome = outcome
        /\ \A f \in Endpoints \ {e} : log'[f] = log[f]
    BY <2>1, DeliveryEffect DEF IInv
  <2>3. outcome # "TransientFailure" => c[2] \notin bus'[e]
    BY <2>1 DEF BusAfter, Status
  <2>4. ASSUME NEW i \in 1..n, log[e][i].outcome # "TransientFailure"
        PROVE  log[e][i].msg # c[2] /\ log[e][i].msg \notin bus'[e]
    BY <1>2, <2>2, <2>4 DEF Settled
  <2>5. ASSUME NEW f \in Endpoints, NEW i \in 1..Len(log'[f]),
               log'[f][i].outcome # "TransientFailure"
        PROVE  log'[f][i].msg \notin bus'[f]
    <3>1. CASE f # e
      BY <1>2, <2>2, <2>5, <3>1 DEF Settled
    <3>2. CASE f = e /\ i = n + 1
      BY <2>2, <2>3, <2>5, <3>2
    <3>3. CASE f = e /\ i \in 1..n
      BY <2>2, <2>4, <2>5, <3>3
    <3>. QED BY <2>2, <3>1, <3>2, <3>3
  <2>6. ASSUME NEW f \in Endpoints, NEW i \in 1..Len(log'[f]), NEW j \in 1..Len(log'[f]),
               i < j, log'[f][i].msg = log'[f][j].msg
        PROVE  log'[f][i].outcome = "TransientFailure"
    <3>1. CASE f # e
      BY <2>2, <2>6, <3>1 DEF HandledToAnEndOnce
    <3>2. CASE f = e
      <4>1. i \in 1..n /\ log'[e][i] = log[e][i]
        BY <2>2, <2>6, <3>2
      <4>2. CASE j = n + 1
        BY <2>2, <2>4, <2>6, <3>2, <4>1, <4>2
      <4>3. CASE j \in 1..n
        <5>1. log'[e][j] = log[e][j]
          BY <2>2, <4>3
        <5>. QED BY <2>6, <3>2, <4>1, <4>3, <5>1 DEF HandledToAnEndOnce
      <4>. QED BY <2>2, <3>2, <4>2, <4>3
    <3>. QED BY <3>1, <3>2
  <2>7. Settled'
    BY <2>5 DEF Settled
  <2>8. HandledToAnEndOnce'
    BY <2>6 DEF HandledToAnEndOnce
  <2>. QED BY <2>7, <2>8
<1>. QED BY <1>3, <1>4, BusShape DEF IInv

\* Over a bus that does not repeat what it settled, a message is handled to an
\* end once, ordered or not.
THEOREM EndsOnce ==
  ASSUME ~ BusMayDuplicate
  PROVE  Spec => []HandledToAnEndOnce
<1>1. Init => Settled /\ HandledToAnEndOnce
  BY DEF Init, Settled, HandledToAnEndOnce
<1>2. IInv /\ OnlyGenuineHandled /\ Settled /\ HandledToAnEndOnce /\ [Next]_vars
        => Settled' /\ HandledToAnEndOnce'
  BY SettledPreserved
<1>. QED BY <1>1, <1>2, Invariance, GenuineDelivery, PTL DEF Spec

\* The last delivery of message i of e's log, answered TransientFailure.
LastFailed(e, i) ==
  /\ log[e][i].outcome = "TransientFailure"
  /\ \A j \in (i + 1)..Len(log[e]) : log[e][j].msg # log[e][i].msg

\* A message whose last delivery failed for the moment is still on the bus.
StillOnBus ==
  \A e \in Endpoints : \A i \in 1..Len(log[e]) : LastFailed(e, i) => log[e][i].msg \in bus[e]

\* Only a delivery of the message itself, answered otherwise, takes it away.
LEMMA StillOnBusPreserved ==
  ASSUME IInv, StillOnBus, [Next]_vars
  PROVE  StillOnBus'
<1>1. CASE UNCHANGED log /\ \A f \in Endpoints : bus[f] \subseteq bus'[f]
  BY <1>1 DEF StillOnBus, LastFailed
<1>2. ASSUME NEW e \in Endpoints, NEW c \in Calls(e), NEW outcome \in Outcomes,
             Takes(e, c, outcome)
      PROVE  StillOnBus'
  <2>. DEFINE n == Len(log[e])
  <2>1. /\ ExecuteMessage(e, c[1], c[2], outcome)
        /\ bus'[e] \in BusAfter(e, c[2], outcome)
        /\ bus[Remote(e)] \subseteq bus'[Remote(e)]
    BY <1>2 DEF Takes
  <2>2. /\ c[2] \in bus[e]
        /\ n \in Nat /\ Len(log'[e]) = n + 1
        /\ \A i \in 1..n : log'[e][i] = log[e][i]
        /\ log'[e][n + 1].msg = c[2] /\ log'[e][n + 1].outcome = outcome
        /\ \A f \in Endpoints \ {e} : log'[f] = log[f]
    BY <2>1, DeliveryEffect DEF IInv
  <2>3. bus[e] \ {c[2]} \subseteq bus'[e]
        /\ (outcome = "TransientFailure" => bus'[e] = bus[e])
    BY <2>1 DEF BusAfter, Status
  <2>4. ASSUME NEW f \in Endpoints, NEW i \in 1..Len(log'[f]), LastFailed(f, i)'
        PROVE  log'[f][i].msg \in bus'[f]
    <3>1. /\ log'[f][i].outcome = "TransientFailure"
          /\ \A j \in (i + 1)..Len(log'[f]) : log'[f][j].msg # log'[f][i].msg
      BY <2>4 DEF LastFailed
    <3>2. CASE f # e
      <4>1. f = Remote(e) /\ log'[f] = log[f]
        BY <2>2, <3>2 DEF Endpoints, Remote
      <4>. QED BY <2>1, <3>1, <4>1 DEF StillOnBus, LastFailed
    <3>3. CASE f = e /\ i = n + 1
      BY <2>2, <2>3, <3>1, <3>3
    <3>4. CASE f = e /\ i \in 1..n
      <4>1. log'[e][i] = log[e][i] /\ log[e][i].msg # c[2]
        BY <2>2, <3>1, <3>4, SMTT(30)
      <4>2. ASSUME NEW j \in (i + 1)..n
            PROVE  log[e][j].msg # log[e][i].msg
        BY <2>2, <3>1, <3>4, <4>1, <4>2, SMTT(30)
      <4>3. log[e][i].msg \in bus[e]
        BY <3>1, <3>4, <4>1, <4>2 DEF StillOnBus, LastFailed
      <4>. QED BY <2>3, <3>4, <4>1, <4>3
    <3>. QED BY <2>2, <3>2, <3>3, <3>4
  <2>. QED BY <2>4 DEF StillOnBus
<1>. QED BY <1>1, <1>2, BusShape DEF IInv

\* Unordered, a message that failed for the moment may be accepted later: the
\* bus has it, repeating itself or not, and executeMessage would take it.
THEOREM TransientFailuresMayBeRetried ==
  ASSUME ~ InOrder
  PROVE  Spec => []TransientFailureMayBeAcceptedLater
<1>1. Init => StillOnBus
  BY DEF Init, StillOnBus
<1>2. IInv /\ StillOnBus /\ [Next]_vars => StillOnBus'
  BY StillOnBusPreserved
<1>3. IInv /\ OnlyGenuineHandled /\ StillOnBus => TransientFailureMayBeAcceptedLater
  <2>. SUFFICES ASSUME IInv, OnlyGenuineHandled, StillOnBus,
                       NEW e \in Endpoints, NEW i \in 1..Len(log[e]), LastFailed(e, i)
                PROVE  log[e][i].msg \in bus[e] /\ MayExecute(e, MessageBus, log[e][i].msg)
    BY DEF TransientFailureMayBeAcceptedLater, LastFailed
  <2>1. PICK j \in 1..Len(posted[Remote(e)]) : log[e][i].msg = posted[Remote(e)][j]
    BY DEF OnlyGenuineHandled
  <2>2. log[e][i].msg.src = Remote(e)
    BY <2>1, RemoteInvolution DEF IInv, Numbered
  <2>. QED BY <2>2 DEF StillOnBus, MayExecute
<1>. QED BY <1>1, <1>2, <1>3, Invariance, GenuineDelivery, PTL DEF Spec

-----------------------------------------------------------------------------
\* A consumed message extends the receiver's side of its channel by the
\* oldest message not yet received.
LEMMA ConsumedExtends ==
  ASSUME InOrder, IInv, NEW e \in Endpoints, NEW c \in Calls(e), NEW outcome \in Outcomes,
         ExecuteMessage(e, c[1], c[2], outcome)
  PROVE  /\ Len(Consumed(e)) < Len(posted[Remote(e)])
         /\ Consumed(e)' = Append(Consumed(e), posted[Remote(e)][Len(Consumed(e)) + 1])
<1>. DEFINE n == Len(log[e])
            new == posted[Remote(e)][n + 1]
<1>1. /\ n \in Nat /\ n < Len(posted[Remote(e)])
      /\ Len(log'[e]) = n + 1
      /\ \A i \in 1..n : log'[e][i] = log[e][i]
      /\ log'[e][n + 1].msg = new
  BY ConsumesNext
<1>2. Consumed(e) = [i \in 1..n |-> log[e][i].msg] /\ Len(Consumed(e)) = n
  BY <1>1 DEF Consumed
<1>3. Consumed(e)' = [i \in 1..(n + 1) |-> log'[e][i].msg]
  BY <1>1 DEF Consumed
<1>4. Append(Consumed(e), new) = [i \in 1..(n + 1) |-> IF i <= n THEN log[e][i].msg ELSE new]
  BY <1>1, <1>2
<1>5. \A i \in 1..(n + 1) : log'[e][i].msg = IF i <= n THEN log[e][i].msg ELSE new
  BY <1>1
<1>. QED
  BY <1>1, <1>2, <1>3, <1>4, <1>5

\* One direction of the link, from s to Remote(s), takes channel steps only.
LEMMA DirectionSteps ==
  ASSUME InOrder, IInv, [Next]_vars, NEW s \in Endpoints
  PROVE  \/ /\ \E m \in Message : posted'[s] = Append(posted[s], m)
            /\ UNCHANGED Consumed(Remote(s))
         \/ /\ Len(Consumed(Remote(s))) < Len(posted[s])
            /\ Consumed(Remote(s))'
                 = Append(Consumed(Remote(s)), posted[s][Len(Consumed(Remote(s))) + 1])
            /\ posted'[s] = posted[s]
         \/ posted'[s] = posted[s] /\ UNCHANGED Consumed(Remote(s))
<1>. DEFINE r == Remote(s)
<1>1. r \in Endpoints /\ Remote(r) = s
  BY RemoteInvolution
<1>2. PostsAtMostOnce /\ (UNCHANGED <<rxSeq, log>> \/ Consumes)
  BY StepShape DEF IInv
<1>3. posted'[s] = posted[s] \/ \E m \in Message : posted'[s] = Append(posted[s], m)
  <2>1. ASSUME NEW e \in Endpoints, NEW method \in Methods, Posting(e, method)
        PROVE  posted'[s] = posted[s] \/ \E m \in Message : posted'[s] = Append(posted[s], m)
    <3>1. Post(e, method)
      BY <2>1 DEF Posting
    <3>2. Envelope(e, method) \in Message
      BY <3>1, PostEffect DEF IInv
    <3>. QED
      BY <3>1, <3>2 DEF Post, IInv, TypeOK
  <2>. QED
    BY <1>2, <2>1 DEF PostsAtMostOnce, NotPosting
<1>4. CASE log'[r] = log[r]
  <2>1. UNCHANGED Consumed(r)
    BY <1>4 DEF Consumed
  <2>. QED
    BY <1>3, <2>1
<1>5. CASE log'[r] # log[r]
  <2>1. PICK e \in Endpoints : \E c \in Calls(e), outcome \in Outcomes :
          ExecuteMessage(e, c[1], c[2], outcome) /\ posted'[Remote(e)] = posted[Remote(e)]
    BY <1>2, <1>5 DEF Consumes
  <2>2. e = r
    BY <1>1, <1>5, <2>1, ConsumesNext
  <2>. QED
    BY <1>1, <2>1, <2>2, ConsumedExtends
<1>. QED
  BY <1>4, <1>5

\* An ordered link implements a FIFO channel in each direction.
THEOREM OrderedRefinesChannels ==
  ASSUME InOrder
  PROVE  Spec => LinkFIFO
<1>1. Init => ToEnclave!Init /\ ToHost!Init
  BY DEF Init, ToEnclave!Init, ToHost!Init, Consumed, Endpoints
<1>2. Host \in Endpoints /\ Enclave \in Endpoints /\ Remote(Host) = Enclave /\ Remote(Enclave) = Host
  BY ConstantsAssumption DEF Endpoints, Remote
<1>3. IInv /\ [Next]_vars => [ToEnclave!Next]_<<posted[Host], Consumed(Enclave)>>
  BY <1>2, DirectionSteps
    DEF ToEnclave!Next, ToEnclave!Send, ToEnclave!Receive
<1>4. IInv /\ [Next]_vars => [ToHost!Next]_<<posted[Enclave], Consumed(Host)>>
  BY <1>2, DirectionSteps
    DEF ToHost!Next, ToHost!Send, ToHost!Receive
<1>. QED
  BY <1>1, <1>3, <1>4, Invariance, PTL
    DEF Spec, LinkFIFO, ToEnclave!Spec, ToHost!Spec
=============================================================================
