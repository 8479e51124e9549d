--------------------------- MODULE OplLocalProofs ---------------------------
(***************************************************************************)
(* Proofs about OplLocal, for any depth of nesting and any bound.          *)
(***************************************************************************)
EXTENDS OplLocal, SequenceTheorems, TLAPS

\* Each endpoint is the other one's remote.
LEMMA RemoteIsOther ==
  ASSUME NEW e \in Endpoints
  PROVE  Remote(e) \in Endpoints /\ Remote(e) # e /\ Remote(Remote(e)) = e
BY LocalAssumption DEF Endpoints, Remote

\* Popping the innermost call keeps the outer ones.
LEMMA FrontKeeps ==
  ASSUME calls \in Seq(Endpoints), calls # << >>
  PROVE  /\ Last(calls) \in Endpoints
         /\ Last(calls) = calls[Len(calls)]
         /\ Len(calls) \in Nat \ {0}
         /\ Front(calls) \in Seq(Endpoints)
         /\ Len(Front(calls)) = Len(calls) - 1
         /\ \A i \in 1..(Len(calls) - 1) : Front(calls)[i] = calls[i]
<1>1. Len(calls) \in Nat \ {0}
  BY EmptySeq
<1>2. \A i \in 1..Len(calls) : calls[i] \in Endpoints
  BY LenProperties
<1>3. /\ SubSeq(calls, 1, Len(calls) - 1) \in Seq(Endpoints)
      /\ Len(SubSeq(calls, 1, Len(calls) - 1)) = Len(calls) - 1
      /\ \A i \in 1..(Len(calls) - 1) : SubSeq(calls, 1, Len(calls) - 1)[i] = calls[i]
  <2>1. \A i \in 1..(Len(calls) - 1) : calls[i] \in Endpoints
    BY <1>1, <1>2
  <2>. DEFINE n == Len(calls) - 1
  <2>2. n \in Int /\ n \in Nat /\ 1 \in Int
    BY <1>1
  <2>. HIDE DEF n
  <2>3. /\ SubSeq(calls, 1, n) \in Seq(Endpoints)
        /\ Len(SubSeq(calls, 1, n)) = IF 1 <= n THEN n - 1 + 1 ELSE 0
        /\ \A i \in 1..(n - 1 + 1) : SubSeq(calls, 1, n)[i] = calls[1 + i - 1]
    <3>1. \A i \in 1..n : calls[i] \in Endpoints
      BY <2>1 DEF n
    <3>. QED
      BY <2>2, <3>1, SubSeqProperties
  <2>4. /\ SubSeq(calls, 1, n) \in Seq(Endpoints)
        /\ Len(SubSeq(calls, 1, n)) = n
        /\ \A i \in 1..n : SubSeq(calls, 1, n)[i] = calls[i]
    BY <2>2, <2>3
  <2>. QED
    BY <2>4 DEF n
<1>. QED
  BY <1>1, <1>2, <1>3 DEF Last, Front

\* Starting a transaction saves counters that agree.
LEMMA BeginStep ==
  ASSUME LocalIInv, NEW e \in Endpoints, Begin(e)
  PROVE  LocalIInv'
<1>1. calls = << >>
  BY DEF LocalIInv, TypeOK, Begin
<1>2. TypeOK'
  BY <1>1 DEF LocalIInv, TypeOK, Begin, Storage, Storages
<1>3. SavedAgree'
  BY <1>1 DEF LocalIInv, AheadByCall, SavedAgree, Begin, Storage, InProgress
<1>. QED
  BY <1>2, <1>3 DEF LocalIInv, AheadByCall, NoReentrantPost, Begin, InProgress

\* A nested post is accepted only if its sender has none in progress, and
\* puts its receiver one ahead.
LEMMA CallRemoteStep ==
  ASSUME LocalIInv, NEW e \in Endpoints, CallRemote(e)
  PROVE  LocalIInv'
<1>1. /\ calls \in Seq(Endpoints)
      /\ calls' = Append(calls, e)
      /\ calls' \in Seq(Endpoints)
      /\ Len(calls) \in Nat
      /\ Len(calls') = Len(calls) + 1
      /\ \A i \in 1..Len(calls) : calls'[i] = calls[i]
      /\ calls'[Len(calls) + 1] = e
  BY AppendProperties DEF LocalIInv, TypeOK, CallRemote
<1>2. root # Nobody
  BY LocalAssumption DEF LocalIInv, TypeOK, CallRemote, Running
<1>3. TypeOK'
  <2>1. rxSeq \in [Endpoints -> Nat] /\ txSeq \in [Endpoints -> Nat] /\ done \in [Endpoints -> Nat]
    BY DEF LocalIInv, TypeOK, Storage, Storages
  <2>2. rxSeq' \in [Endpoints -> Nat]
    BY <2>1, RemoteIsOther DEF CallRemote
  <2>3. Storage' \in Storages
    BY <2>1, <2>2 DEF CallRemote, Storage, Storages
  <2>. QED
    BY <1>1, <1>2, <2>3 DEF LocalIInv, TypeOK, CallRemote
<1>4. SavedAgree'
  BY DEF LocalIInv, SavedAgree, CallRemote
<1>5. AheadByCall' /\ NoReentrantPost'
  <2>. SUFFICES ASSUME inOrder
                PROVE  AheadByCall' /\ NoReentrantPost'
    BY DEF AheadByCall, NoReentrantPost, CallRemote
  <2>1. txSeq \in [Endpoints -> Nat] /\ rxSeq \in [Endpoints -> Nat]
    BY DEF LocalIInv, TypeOK, Storage, Storages
  <2>2. txSeq[e] = rxSeq[Remote(e)] /\ txSeq' = txSeq
        /\ rxSeq' = [rxSeq EXCEPT ![Remote(e)] = @ + 1]
    BY DEF CallRemote
  <2>3. ~ InProgress(e)
    BY <2>1, <2>2 DEF LocalIInv, AheadByCall
  <2>4. InProgress(e)' /\ \A f \in Endpoints \ {e} : InProgress(f)' <=> InProgress(f)
    BY <1>1 DEF InProgress
  <2>5. \A f \in Endpoints \ {e} : Remote(f) # Remote(e)
    BY RemoteIsOther DEF Endpoints
  <2>6. AheadByCall'
    <3>. SUFFICES ASSUME NEW f \in Endpoints
                  PROVE  rxSeq'[Remote(f)] = IF InProgress(f)' THEN txSeq'[f] + 1 ELSE txSeq'[f]
      BY DEF AheadByCall
    <3>1. CASE f = e
      BY <2>1, <2>2, <2>4, <3>1, RemoteIsOther
    <3>2. CASE f # e
      <4>1. rxSeq'[Remote(f)] = rxSeq[Remote(f)]
        BY <2>1, <2>2, <2>5, <3>2, RemoteIsOther
      <4>. QED
        BY <2>2, <2>4, <3>2, <4>1 DEF LocalIInv, AheadByCall
    <3>. QED
      BY <3>1, <3>2
  <2>7. NoReentrantPost'
    BY <1>1, <2>3 DEF LocalIInv, NoReentrantPost, InProgress
  <2>. QED
    BY <2>6, <2>7
<1>. QED
  BY <1>3, <1>4, <1>5 DEF LocalIInv

\* A post that returns lets its sender catch up.
LEMMA CallReturnsStep ==
  ASSUME LocalIInv, CallReturns
  PROVE  LocalIInv'
<1>0. PICK e \in Endpoints : e = Last(calls)
  BY FrontKeeps DEF LocalIInv, TypeOK, CallReturns
<1>1. /\ calls \in Seq(Endpoints)
      /\ e \in Endpoints
      /\ e = calls[Len(calls)]
      /\ Len(calls) \in Nat \ {0}
      /\ calls' = Front(calls)
      /\ calls' \in Seq(Endpoints)
      /\ Len(calls') = Len(calls) - 1
      /\ \A i \in 1..(Len(calls) - 1) : calls'[i] = calls[i]
  BY <1>0, FrontKeeps DEF LocalIInv, TypeOK, CallReturns
<1>2. txSeq \in [Endpoints -> Nat] /\ rxSeq \in [Endpoints -> Nat] /\ done \in [Endpoints -> Nat]
  BY DEF LocalIInv, TypeOK, Storage, Storages
<1>3. /\ txSeq' = [txSeq EXCEPT ![e] = @ + 1]
      /\ done' = [done EXCEPT ![e] = @ + 1]
      /\ UNCHANGED <<inOrder, rxSeq, root, saved>>
  BY <1>0 DEF CallReturns
<1>4. TypeOK'
  <2>1. Storage' \in Storages
    <3>1. /\ txSeq' \in [Endpoints -> Nat]
          /\ done' \in [Endpoints -> Nat]
          /\ rxSeq' = rxSeq
      <4>1. txSeq' \in [Endpoints -> Nat]
        BY <1>2, <1>3
      <4>2. done' \in [Endpoints -> Nat]
        BY <1>2, <1>3
      <4>. QED
        BY <1>3, <4>1, <4>2
    <3>2. Storage' = [tx |-> txSeq', rx |-> rxSeq', done |-> done']
      BY DEF Storage
    <3>. QED
      BY <1>2, <3>1, <3>2 DEF Storages
  <2>2. root # Nobody
    BY DEF LocalIInv, TypeOK, CallReturns
  <2>. QED
    BY <1>1, <1>3, <2>1, <2>2 DEF LocalIInv, TypeOK
<1>5. SavedAgree'
  BY <1>3 DEF LocalIInv, SavedAgree
<1>6. AheadByCall' /\ NoReentrantPost'
  <2>. SUFFICES ASSUME inOrder
                PROVE  AheadByCall' /\ NoReentrantPost'
    BY <1>3 DEF AheadByCall, NoReentrantPost
  <2>1. \A i, j \in 1..Len(calls) : calls[i] = calls[j] => i = j
    BY DEF LocalIInv, NoReentrantPost
  <2>2. InProgress(e)
    BY <1>1 DEF InProgress
  <2>3. ~ InProgress(e)'
    <3>1. \A i \in 1..Len(calls') : i \in 1..(Len(calls) - 1) /\ i # Len(calls)
      BY <1>1
    <3>2. \A i \in 1..Len(calls') : calls'[i] # e
      BY <1>1, <2>1, <3>1
    <3>. QED
      BY <3>2 DEF InProgress
  <2>4. \A f \in Endpoints \ {e} : InProgress(f)' <=> InProgress(f)
    BY <1>1 DEF InProgress
  <2>5. AheadByCall'
    <3>. SUFFICES ASSUME NEW f \in Endpoints
                  PROVE  rxSeq'[Remote(f)] = IF InProgress(f)' THEN txSeq'[f] + 1 ELSE txSeq'[f]
      BY DEF AheadByCall
    <3>1. CASE f = e
      <4>1. txSeq'[e] = txSeq[e] + 1 /\ rxSeq'[Remote(e)] = rxSeq[Remote(e)]
        BY <1>1, <1>2, <1>3
      <4>2. rxSeq[Remote(e)] = txSeq[e] + 1
        BY <1>1, <2>2 DEF LocalIInv, AheadByCall
      <4>. QED
        BY <2>3, <3>1, <4>1, <4>2
    <3>2. CASE f # e
      BY <1>2, <1>3, <2>4, <3>2 DEF LocalIInv, AheadByCall
    <3>. QED
      BY <3>1, <3>2
  <2>6. NoReentrantPost'
    BY <1>1, <2>1 DEF NoReentrantPost
  <2>. QED
    BY <2>5, <2>6
<1>. QED
  BY <1>4, <1>5, <1>6 DEF LocalIInv

\* Committing keeps the counters, which agree when no post is in progress.
LEMMA CommitStep ==
  ASSUME LocalIInv, Commit
  PROVE  LocalIInv'
BY DEF LocalIInv, TypeOK, AheadByCall, SavedAgree, NoReentrantPost, InProgress, Commit, Storage

\* A revert goes back to the saved counters, which agree.
LEMMA AbortStep ==
  ASSUME LocalIInv, Abort
  PROVE  LocalIInv'
<1>1. calls' = << >> /\ root' = Nobody /\ saved' = saved
      /\ txSeq' = saved.tx /\ rxSeq' = saved.rx /\ done' = saved.done
      /\ inOrder' = inOrder
  BY DEF Abort
<1>2. Storage' \in Storages
  BY <1>1 DEF LocalIInv, TypeOK, Storage, Storages
<1>3. TypeOK'
  BY <1>1, <1>2, EmptySeq DEF LocalIInv, TypeOK
<1>4. AheadByCall'
  BY <1>1 DEF LocalIInv, SavedAgree, AheadByCall, InProgress
<1>. QED
  BY <1>1, <1>3, <1>4 DEF LocalIInv, SavedAgree, NoReentrantPost

\* The ends of an ordered local link agree between transactions, and no
\* endpoint re-enters its own postMessage.
THEOREM LocalInvariance == Spec => []LocalIInv
<1>1. Init => LocalIInv
  BY EmptySeq DEF Init, LocalIInv, TypeOK, Storage, Storages, AheadByCall, SavedAgree,
                  NoReentrantPost, InProgress, Remote, Endpoints
<1>2. LocalIInv /\ [Next]_vars => LocalIInv'
  <2>. SUFFICES ASSUME LocalIInv, [Next]_vars PROVE LocalIInv'
    OBVIOUS
  <2>1. CASE UNCHANGED vars
    BY <2>1 DEF vars, LocalIInv, TypeOK, Storage, AheadByCall, SavedAgree,
                NoReentrantPost, InProgress
  <2>. QED
    BY <2>1, BeginStep, CallRemoteStep, CallReturnsStep, CommitStep, AbortStep DEF Next
<1>. QED
  BY <1>1, <1>2, PTL DEF Spec

\* Every post that returns is counted, and a revert forgets both alike.
THEOREM PostsAreCounted == Spec => []Counted
<1>1. Init => Counted
  BY DEF Init, Counted, Storage
<1>2. LocalIInv /\ Counted /\ [Next]_vars => Counted'
  <2>. SUFFICES ASSUME LocalIInv, Counted, [Next]_vars PROVE Counted'
    OBVIOUS
  <2>1. txSeq \in [Endpoints -> Nat] /\ done \in [Endpoints -> Nat]
    BY DEF LocalIInv, TypeOK, Storage, Storages
  <2>2. ASSUME NEW e \in Endpoints, Begin(e) PROVE Counted'
    BY <2>2 DEF Begin, Storage, Counted
  <2>3. ASSUME NEW e \in Endpoints, CallRemote(e) PROVE Counted'
    BY <2>3 DEF CallRemote, Counted
  <2>4. CASE CallReturns
    <3>1. PICK e : /\ txSeq' = [txSeq EXCEPT ![e] = @ + 1]
                   /\ done' = [done EXCEPT ![e] = @ + 1]
                   /\ saved' = saved
      BY <2>4 DEF CallReturns
    <3>. QED BY <2>1, <3>1 DEF Counted
  <2>5. CASE Commit
    BY <2>5 DEF Commit, Counted
  <2>6. CASE Abort
    BY <2>6 DEF Abort, Counted
  <2>7. CASE UNCHANGED vars
    BY <2>7 DEF vars, Counted
  <2>. QED BY <2>2, <2>3, <2>4, <2>5, <2>6, <2>7 DEF Next
<1>. QED BY <1>1, <1>2, LocalInvariance, PTL DEF Spec

\* Between transactions the counters of both ends are what happened, and every
\* ordered post finds the receiver expecting it.
THEOREM LocalEndsAgree == Spec => []EndsAgree
<1>1. LocalIInv /\ Counted => EndsAgree
  BY DEF LocalIInv, TypeOK, AheadByCall, EndsAgree, InProgress, Counted
<1>. QED
  BY <1>1, LocalInvariance, PostsAreCounted, PTL

\* No contract posts while an outer post of its own is in progress, at any depth
\* of calls: the counters would not fit, and the transaction is undone.
THEOREM NoPostNests == Spec => []NoReentrantPost
<1>1. LocalIInv => NoReentrantPost
  BY DEF LocalIInv
<1>. QED
  BY <1>1, LocalInvariance, PTL
=============================================================================
