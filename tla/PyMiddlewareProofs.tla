------------------------- MODULE PyMiddlewareProofs -------------------------
(***************************************************************************)
(* What the Python middleware keeps for any number of coroutines, any      *)
(* number of keys kept and any window of the node.                         *)
(***************************************************************************)
EXTENDS PyMiddleware, FiniteSetTheorems, WellFoundedInduction, TLAPS

\* The least element of a set of numbers.
LEMMA Smallest ==
  ASSUME NEW S \in SUBSET Nat, S # {}
  PROVE  \E x \in S : \A y \in S : x <= y
<1> DEFINE R == OpToRel(<, Nat)
<1>1. IsWellFoundedOn(R, Nat)
  BY NatLessThanWellFounded
<1>2. \A x, y \in Nat : y < x => <<y, x>> \in R
  BY DEF OpToRel
<1> HIDE DEF R
<1>3. PICK x \in S : \A y \in S : ~ (<<y, x>> \in R)
  BY <1>1, WFMin
<1>4. ASSUME NEW y \in S PROVE x <= y
  <2>1. x \in Nat /\ y \in Nat
    OBVIOUS
  <2>2. ~ (y < x)
    BY <1>2, <1>3, <2>1, Zenon
  <2>. QED BY <2>1, <2>2
<1>. QED BY <1>4

\* A list in strict order, as the manager's is (ManagerOK).
InOrder(ks) == \A i, j \in DOMAIN ks : i < j => ks[i] < ks[j]

\* In a list already in order, the keys young enough are a suffix, sorting
\* leaves them where they are, and what remains is a suffix of it too.
LEMMA TrimAndSortIsSuffix ==
  ASSUME NEW ks \in Seq(Nat), InOrder(ks), ks # <<>>, NEW e \in Nat,
         ks[Len(ks)] >= e - EPOCH_LIMIT
  PROVE  \E first \in 1..Len(ks) :
           /\ Len(ks) - first < EPOCH_LIMIT
           /\ ks[first] >= e - EPOCH_LIMIT
           /\ TrimAndSort(ks, e) = [n \in 1..(Len(ks) - first + 1) |-> ks[n + first - 1]]
<1> USE MiddlewareAssumption
<1> DEFINE kept    == {i \in DOMAIN ks : ks[i] >= e - EPOCH_LIMIT}
           before(i) == {j \in kept : ks[j] < ks[i] \/ (ks[j] = ks[i] /\ j <= i)}
           place   == [i \in kept |-> Cardinality(before(i))]
           total   == Cardinality(kept)
           dropped == IF total > EPOCH_LIMIT THEN total - EPOCH_LIMIT ELSE 0
           len     == Len(ks)
<1>1. DOMAIN ks = 1..len /\ len \in Nat \ {0} /\ \A i \in 1..len : ks[i] \in Nat
  OBVIOUS
<1>2. kept \in SUBSET Nat /\ len \in kept /\ kept \subseteq 1..len
  BY <1>1
<1>3. PICK a \in kept : \A i \in kept : a <= i
  <2> HIDE DEF kept
  <2>. QED BY <1>2, Smallest
<1>4. kept = a..len /\ a \in 1..len
  <2>1. a \in 1..len /\ ks[a] >= e - EPOCH_LIMIT
    BY <1>1
  <2>2. ASSUME NEW i \in a..len PROVE i \in kept
    <3>1. i \in 1..len /\ ks[i] >= ks[a]
      BY <1>1, <2>1, SMTT(30) DEF InOrder
    <3>. QED BY <1>1, <2>1, <3>1
  <2>3. ASSUME NEW i \in kept PROVE i \in a..len
    <3>1. i \in 1..len /\ a <= i
      BY <1>2, <1>3
    <3>. QED BY <1>1, <2>1, <3>1
  <2> HIDE DEF kept
  <2>. QED BY <2>1, <2>2, <2>3
<1>5. total = len - a + 1 /\ total \in Nat
  <2>1. a \in Nat /\ len \in Nat /\ a <= len
    BY <1>1, <1>4
  <2>2. Cardinality(a..len) = len - a + 1
    BY <2>1, FS_Interval
  <2> HIDE DEF kept, len
  <2>. QED BY <1>4, <2>1, <2>2
<1>6. ASSUME NEW i \in kept PROVE place[i] = i - a + 1
  <2>1. i \in a..len /\ a \in Nat
    BY <1>4
  <2>2. ASSUME NEW j \in a..len
        PROVE  ks[j] < ks[i] \/ (ks[j] = ks[i] /\ j <= i) <=> j <= i
    <3>1. i \in 1..len /\ j \in 1..len
      BY <1>4, <2>1
    <3>2. ks[i] \in Nat /\ ks[j] \in Nat /\ i \in Nat /\ j \in Nat
      BY <1>1, <3>1
    <3>3. (i < j => ks[i] < ks[j]) /\ (j < i => ks[j] < ks[i])
      BY <1>1, <3>1 DEF InOrder
    <3> HIDE DEF kept
    <3>. QED BY <3>2, <3>3
  <2>3. before(i) = a..i
    <3> HIDE DEF kept
    <3>. QED BY <1>1, <1>4, <2>1, <2>2, SMTT(30)
  <2>4. Cardinality(a..i) = i - a + 1
    BY <2>1, FS_Interval
  <2>. QED BY <2>3, <2>4
<1> DEFINE first == a + dropped
<1>7. dropped \in Nat /\ dropped < total /\ total - dropped <= EPOCH_LIMIT
  <2>1. total >= 1
    BY <1>1, <1>4, <1>5
  <2> HIDE DEF kept, total
  <2>. QED BY <1>5, <2>1
<1>8. first \in 1..len /\ len - first + 1 = total - dropped
  <2> HIDE DEF total, dropped
  <2>1. a \in Nat /\ len \in Nat /\ a <= len /\ total = len - a + 1
    BY <1>1, <1>4, <1>5
  <2> HIDE DEF len
  <2>. QED BY <1>5, <1>7, <2>1
<1>9. ASSUME NEW n \in 1..(total - dropped)
      PROVE  (CHOOSE i \in kept : place[i] = n + dropped) = n + first - 1
  <2>1. n + first - 1 \in kept /\ n \in Nat
    <3> HIDE DEF kept, dropped, total
    <3>. QED BY <1>4, <1>5, <1>7, <1>8
  <2> HIDE DEF kept, place, dropped, total
  <2>2. place[n + first - 1] = n + dropped
    BY <1>4, <1>6, <1>7, <2>1
  <2>3. \A i \in kept : place[i] = n + dropped => i = n + first - 1
    BY <1>4, <1>6, <1>7
  <2>. QED BY <2>1, <2>2, <2>3
<1>10. TrimAndSort(ks, e)
         = [n \in 1..(total - dropped) |-> ks[CHOOSE i \in kept : place[i] = n + dropped]]
  BY DEF TrimAndSort
<1>11. TrimAndSort(ks, e) = [n \in 1..(len - first + 1) |-> ks[n + first - 1]]
  <2> HIDE DEF kept, place, dropped, total
  <2>. QED BY <1>8, <1>9, <1>10
<1>12. first \in kept /\ ks[first] >= e - EPOCH_LIMIT
  <2>1. first \in a..len
    <3> HIDE DEF kept, dropped, total
    <3>. QED BY <1>4, <1>7, <1>8
  <2>. QED BY <1>4, <2>1
<1>13. len - first < EPOCH_LIMIT
  <2> HIDE DEF kept, dropped, total, len
  <2>. QED BY <1>1, <1>5, <1>7, <1>8
<1> HIDE DEF first
<1>. QED BY <1>8, <1>11, <1>12, <1>13

\* ManagerOK, of any list.
Managed(ks) ==
  /\ Len(ks) <= EPOCH_LIMIT
  /\ InOrder(ks)
  /\ ks # <<>> => ks[1] >= Newest(ks) - EPOCH_LIMIT

\* A suffix of a list in order is in order and ends as it does.
LEMMA SuffixInOrder ==
  ASSUME NEW ks \in Seq(Nat), InOrder(ks), NEW first \in 1..Len(ks),
         NEW s, s = [n \in 1..(Len(ks) - first + 1) |-> ks[n + first - 1]]
  PROVE  /\ s \in Seq(Nat) /\ Len(s) = Len(ks) - first + 1 /\ s # <<>>
         /\ InOrder(s)
         /\ Newest(s) = ks[Len(ks)] /\ s[1] = ks[first]
         /\ \A n \in DOMAIN s : \E m \in DOMAIN ks : s[n] = ks[m]
<1> DEFINE len == Len(ks) - first + 1
<1>1. len \in Nat \ {0} /\ DOMAIN ks = 1..Len(ks)
  OBVIOUS
<1>2. \A n \in 1..len : n + first - 1 \in DOMAIN ks /\ s[n] = ks[n + first - 1]
  OBVIOUS
<1>3. s \in Seq(Nat) /\ Len(s) = len /\ DOMAIN s = 1..len
  BY <1>1, <1>2
<1>4. s # <<>> /\ s[len] = ks[Len(ks)] /\ s[1] = ks[first]
  <2>1. 1 \in 1..len /\ len \in 1..len /\ len + first - 1 = Len(ks) /\ 1 + first - 1 = first
    BY <1>1
  <2> HIDE DEF len
  <2>. QED BY <1>2, <1>3, <2>1
<1>5. InOrder(s)
  <2> SUFFICES ASSUME NEW i \in 1..len, NEW j \in 1..len, i < j PROVE s[i] < s[j]
    BY <1>3 DEF InOrder
  <2>1. i + first - 1 < j + first - 1
    BY <1>1
  <2>. QED BY <1>2, <2>1 DEF InOrder
<1>. QED BY <1>1, <1>2, <1>3, <1>4, <1>5 DEF Newest

\* manager.add keeps the list as it should be, never loses its newest key to an
\* older one, and adds nothing but the key it is given.
LEMMA AddKeeps ==
  ASSUME NEW ks \in Seq(Nat), Managed(ks), NEW pk \in Nat
  PROVE  /\ Add(ks, pk) \in Seq(Nat) /\ Managed(Add(ks, pk))
         /\ ks # <<>> => Newest(Add(ks, pk)) >= Newest(ks)
         /\ \A n \in DOMAIN Add(ks, pk) :
              Add(ks, pk)[n] = pk \/ \E m \in DOMAIN ks : Add(ks, pk)[n] = ks[m]
<1> USE MiddlewareAssumption
<1>1. CASE ks = <<>>
  <2>1. Add(ks, pk) = <<pk>>
    BY <1>1 DEF Add
  <2>. QED BY <1>1, <2>1 DEF Managed, InOrder, Newest
<1>2. CASE ks # <<>>
  <2> DEFINE ls == IF Newest(ks) < pk THEN Append(ks, pk) ELSE ks
  <2>1. /\ Newest(ks) = ks[Len(ks)] /\ Newest(ks) \in Nat
        /\ Len(ks) \in Nat \ {0} /\ DOMAIN ks = 1..Len(ks)
        /\ \A i \in 1..Len(ks) : ks[i] \in Nat
    BY <1>2 DEF Newest
  <2>2. /\ ls \in Seq(Nat) /\ ls # <<>> /\ InOrder(ls)
        /\ ls[Len(ls)] >= pk - EPOCH_LIMIT /\ ls[Len(ls)] >= Newest(ks)
        /\ \A i \in DOMAIN ls : ls[i] = pk \/ \E m \in DOMAIN ks : ls[i] = ks[m]
    <3>1. CASE Newest(ks) < pk
      <4>1. /\ ls \in Seq(Nat) /\ Len(ls) = Len(ks) + 1
            /\ ls[Len(ls)] = pk /\ \A i \in 1..Len(ks) : ls[i] = ks[i]
        BY <2>1, <3>1
      <4>2. InOrder(ls)
        <5> SUFFICES ASSUME NEW i \in DOMAIN ls, NEW j \in DOMAIN ls, i < j
                     PROVE  ls[i] < ls[j]
          BY DEF InOrder
        <5>1. i \in 1..Len(ks) /\ j \in 1..(Len(ks) + 1)
          BY <4>1
        <5>2. ks[i] <= Newest(ks)
          BY <2>1, <5>1 DEF Managed, InOrder
        <5>. QED BY <2>1, <3>1, <4>1, <5>1, <5>2 DEF Managed, InOrder
      <4>3. \A i \in DOMAIN ls : ls[i] = pk \/ \E m \in DOMAIN ks : ls[i] = ks[m]
        <5> SUFFICES ASSUME NEW i \in DOMAIN ls
                     PROVE  ls[i] = pk \/ \E m \in DOMAIN ks : ls[i] = ks[m]
          OBVIOUS
        <5>1. i = Len(ls) \/ i \in DOMAIN ks
          BY <2>1, <4>1
        <5>. QED BY <2>1, <4>1, <5>1
      <4>4. ls # <<>>
        BY <3>1, SMTT(30)
      <4> HIDE DEF ls
      <4>. QED BY <2>1, <3>1, <4>1, <4>2, <4>3, <4>4
    <3>2. CASE ~ (Newest(ks) < pk)
      <4>1. ls = ks
        BY <3>2
      <4>. QED BY <1>2, <2>1, <3>2, <4>1 DEF Managed
    <3>. QED BY <3>1, <3>2
  <2>3. ls[1] >= ls[Len(ls)] - EPOCH_LIMIT \/ ls[Len(ls)] = pk
    BY <1>2, <2>1 DEF Managed
  <2>4. Add(ks, pk) = TrimAndSort(ls, pk)
    BY <1>2 DEF Add
  <2> HIDE DEF ls
  <2>5. PICK first \in 1..Len(ls) :
          /\ Len(ls) - first < EPOCH_LIMIT
          /\ ls[first] >= pk - EPOCH_LIMIT
          /\ Add(ks, pk) = [n \in 1..(Len(ls) - first + 1) |-> ls[n + first - 1]]
    <3>1. \E first \in 1..Len(ls) :
            /\ Len(ls) - first < EPOCH_LIMIT
            /\ ls[first] >= pk - EPOCH_LIMIT
            /\ TrimAndSort(ls, pk) = [n \in 1..(Len(ls) - first + 1) |-> ls[n + first - 1]]
      <4> HIDE MiddlewareAssumption
      <4>. QED BY <2>2, TrimAndSortIsSuffix, ZenonT(30)
    <3>. QED BY <2>4, <3>1
  <2>6. /\ Add(ks, pk) \in Seq(Nat) /\ Len(Add(ks, pk)) = Len(ls) - first + 1
        /\ Add(ks, pk) # <<>> /\ InOrder(Add(ks, pk))
        /\ Newest(Add(ks, pk)) = ls[Len(ls)] /\ Add(ks, pk)[1] = ls[first]
        /\ \A n \in DOMAIN Add(ks, pk) : \E m \in DOMAIN ls : Add(ks, pk)[n] = ls[m]
    <3>1. \A s : s = [n \in 1..(Len(ls) - first + 1) |-> ls[n + first - 1]]
             => /\ s \in Seq(Nat) /\ Len(s) = Len(ls) - first + 1 /\ s # <<>>
                /\ InOrder(s)
                /\ Newest(s) = ls[Len(ls)] /\ s[1] = ls[first]
                /\ \A n \in DOMAIN s : \E m \in DOMAIN ls : s[n] = ls[m]
      <4> HIDE MiddlewareAssumption
      <4>. QED BY <2>2, SuffixInOrder, Zenon
    <3>. QED BY <2>5, <3>1, ZenonT(30)
  <2>7. ls[first] >= ls[Len(ls)] - EPOCH_LIMIT
    <3>1. ls[first] >= ls[1]
      BY <2>2 DEF InOrder
    <3>2. ls[first] \in Nat /\ ls[1] \in Nat /\ ls[Len(ls)] \in Nat
      BY <2>2
    <3>. QED BY <2>3, <2>5, <3>1, <3>2, SMTT(30)
  <2>8. Managed(Add(ks, pk))
    BY <2>2, <2>5, <2>6, <2>7 DEF Managed
  <2>. QED BY <2>2, <2>6, <2>8
<1>. QED BY <1>1, <1>2
-----------------------------------------------------------------------------
\* The states of one coroutine, and what KeysOK says of each.
Coroutine ==
  [step : {"idle", "fetching", "answered", "sent", "tooFar", "accepted"},
   pk : Nat \cup {None}, layers : 0..MaxLayers, refused : Nat \cup {None}]

CoroutineOK(q, now) ==
  /\ q.step = "idle" => q.refused = None
  /\ q.step \in {"answered", "sent", "tooFar"} => q.pk \in 0..now
  /\ q.step = "tooFar" => now > q.pk + Window
  /\ q.refused # None => now > q.refused + Window
  /\ q.step \in {"answered", "sent"} /\ q.refused # None
       => q.pk > q.refused + Window

\* IInv, with the manager's list and the coroutines apart.
LEMMA IInvParts ==
  IInv <=> /\ epoch \in 0..MaxEpoch
           /\ keys \in Seq(0..epoch) /\ Managed(keys)
           /\ req \in [Requests -> Coroutine]
           /\ \A r \in Requests : CoroutineOK(req[r], epoch)
BY DEF IInv, TypeOK, ManagerOK, KeysOK, Managed, InOrder, Coroutine, CoroutineOK

\* A step of one coroutine that leaves the epoch alone, and the manager in order.
LEMMA OneCoroutineSteps ==
  ASSUME IInv, NEW r \in Requests, NEW q \in Coroutine, CoroutineOK(q, epoch),
         req' = [req EXCEPT ![r] = q], UNCHANGED epoch,
         keys' \in Seq(0..epoch), Managed(keys')
  PROVE  IInv'
<1>1. req' \in [Requests -> Coroutine]
  BY IInvParts
<1>2. \A p \in Requests : CoroutineOK(req'[p], epoch)
  BY IInvParts
<1>3. /\ epoch' \in 0..MaxEpoch
      /\ keys' \in Seq(0..epoch') /\ Managed(keys')
      /\ \A p \in Requests : CoroutineOK(req'[p], epoch')
  BY <1>2, IInvParts
<1>4. IInv' <=> /\ epoch' \in 0..MaxEpoch
                /\ keys' \in Seq(0..epoch') /\ Managed(keys')
                /\ req' \in [Requests -> Coroutine]
                /\ \A p \in Requests : CoroutineOK(req'[p], epoch')
  BY DEF IInv, TypeOK, ManagerOK, KeysOK, Managed, InOrder, Coroutine, CoroutineOK
<1>. QED BY <1>1, <1>3, <1>4

\* The newest key of a list that is not empty is one of its keys.
LEMMA NewestIsKey ==
  ASSUME NEW S, NEW ks \in Seq(S), ks # <<>>
  PROVE  Newest(ks) \in S
<1>1. Len(ks) \in 1..Len(ks) /\ \A i \in 1..Len(ks) : ks[i] \in S
  OBVIOUS
<1>. QED BY <1>1 DEF Newest

\* Encrypting changes the key and the step, not the key refused.
LEMMA EncryptFields ==
  ASSUME NEW q \in Coroutine, NEW pk \in Nat
  PROVE  /\ Encrypt(q, pk) \in Coroutine
         /\ Encrypt(q, pk).step = "sent" /\ Encrypt(q, pk).pk = pk
         /\ Encrypt(q, pk).refused = q.refused
<1> DEFINE n == IF q.layers < MaxLayers THEN q.layers + 1 ELSE MaxLayers
<1>1. n \in 0..MaxLayers
  BY MiddlewareAssumption DEF Coroutine
<1>2. Encrypt(q, pk) = [q EXCEPT !.step = "sent", !.pk = pk, !.layers = n]
  BY DEF Encrypt
<1> HIDE DEF n
<1>. QED BY <1>1, <1>2 DEF Coroutine

\* No coroutine runs and there is no key.
LEMMA Initially == Init => IInv
<1> SUFFICES ASSUME Init PROVE IInv
  OBVIOUS
<1> USE MiddlewareAssumption
<1>1. Idle \in Coroutine /\ CoroutineOK(Idle, epoch)
  BY DEF Idle, Coroutine, CoroutineOK
<1>2. keys \in Seq(0..epoch) /\ Managed(keys)
  BY DEF Init, Managed, InOrder
<1>3. epoch \in 0..MaxEpoch /\ req = [r \in Requests |-> Idle]
  BY DEF Init
<1>. QED BY <1>1, <1>2, <1>3, IInvParts

\* Every step of a coroutine keeps the invariant, and of a list that has keys the
\* newest; so does the passing of an epoch.
LEMMA StepKeeps ==
  ASSUME IInv, [Next]_vars
  PROVE  IInv' /\ (keys' # keys /\ keys # <<>> => Newest(keys') >= Newest(keys))
<1> USE MiddlewareAssumption
<1>0. /\ epoch \in Nat /\ keys \in Seq(0..epoch) /\ Managed(keys)
      /\ req \in [Requests -> Coroutine]
      /\ \A r \in Requests : CoroutineOK(req[r], epoch)
  BY IInvParts
<1>1. ASSUME NEW r \in Requests, Intercept(r) PROVE IInv' /\ keys' = keys
  <2>1. CASE keys = <<>>
    <3> DEFINE q == [req[r] EXCEPT !.step = "fetching"]
    <3>1. q \in Coroutine /\ CoroutineOK(q, epoch)
      BY <1>0, <1>1 DEF Intercept, Coroutine, CoroutineOK
    <3>2. req' = [req EXCEPT ![r] = q] /\ UNCHANGED <<epoch, keys>>
      BY <1>1, <2>1 DEF Intercept
    <3> HIDE DEF q
    <3>. QED BY <1>0, <3>1, <3>2, OneCoroutineSteps
  <2>2. CASE keys # <<>>
    <3> DEFINE q == Encrypt(req[r], Newest(keys))
    <3>1. q \in Coroutine /\ CoroutineOK(q, epoch)
      <4>1. Newest(keys) \in 0..epoch
        BY <1>0, <2>2, NewestIsKey
      <4>2. /\ req[r] \in Coroutine /\ CoroutineOK(req[r], epoch)
            /\ req[r].step = "idle" /\ Newest(keys) \in Nat
        BY <1>0, <1>1, <4>1 DEF Intercept
      <4>3. /\ q \in Coroutine /\ q.step = "sent" /\ q.pk = Newest(keys)
            /\ q.refused = req[r].refused
        BY <4>2, EncryptFields
      <4> HIDE DEF q
      <4>. QED BY <1>0, <4>1, <4>2, <4>3 DEF CoroutineOK
    <3>2. req' = [req EXCEPT ![r] = q] /\ UNCHANGED <<epoch, keys>>
      BY <1>1, <2>2 DEF Intercept
    <3> HIDE DEF q
    <3>. QED BY <1>0, <3>1, <3>2, OneCoroutineSteps
  <2>. QED BY <1>1, <2>1, <2>2 DEF Intercept
<1>2. ASSUME NEW r \in Requests, KeyAnswered(r) PROVE IInv' /\ keys' = keys
  <2> DEFINE q == [req[r] EXCEPT !.step = "answered", !.pk = epoch]
  <2>1. q \in Coroutine /\ CoroutineOK(q, epoch)
    <3>1. req[r] \in Coroutine /\ CoroutineOK(req[r], epoch) /\ req[r].step = "fetching"
      BY <1>0, <1>2 DEF KeyAnswered
    <3>2. q \in Coroutine /\ q.step = "answered" /\ q.pk = epoch /\ q.refused = req[r].refused
      BY <3>1, <1>0 DEF Coroutine
    <3> HIDE DEF q
    <3>. QED BY <1>0, <3>1, <3>2, <1>0 DEF CoroutineOK
  <2>2. req' = [req EXCEPT ![r] = q] /\ UNCHANGED <<epoch, keys>>
    BY <1>2 DEF KeyAnswered
  <2> HIDE DEF q
  <2>. QED BY <1>0, <2>1, <2>2, OneCoroutineSteps
<1>3. ASSUME NEW r \in Requests, KeyArrives(r)
      PROVE  IInv' /\ (keys # <<>> => Newest(keys') >= Newest(keys))
  <2> DEFINE q == Encrypt(req[r], req[r].pk)
  <2>1. req[r].pk \in 0..epoch
    BY <1>0, <1>3 DEF KeyArrives, CoroutineOK
  <2>2. q \in Coroutine /\ CoroutineOK(q, epoch)
    <3>1. req[r] \in Coroutine /\ CoroutineOK(req[r], epoch) /\ req[r].step = "answered"
      BY <1>0, <1>3 DEF KeyArrives
    <3>2. q \in Coroutine /\ q.step = "sent" /\ q.pk = req[r].pk /\ q.refused = req[r].refused
      <4>1. req[r].pk \in Nat
      BY <1>0, <2>1
    <4>. QED BY <3>1, <4>1, EncryptFields
    <3> HIDE DEF q
    <3>. QED BY <1>0, <3>1, <3>2, <2>1 DEF CoroutineOK
  <2>3. req' = [req EXCEPT ![r] = q] /\ UNCHANGED epoch /\ keys' = Add(keys, req[r].pk)
    BY <1>3 DEF KeyArrives
  <2>4. keys \in Seq(Nat) /\ req[r].pk \in Nat
    BY <1>0, <2>1
  <2>5. /\ keys' \in Seq(Nat) /\ Managed(keys')
        /\ keys # <<>> => Newest(keys') >= Newest(keys)
        /\ \A n \in DOMAIN keys' :
             keys'[n] = req[r].pk \/ \E m \in DOMAIN keys : keys'[n] = keys[m]
    <3> HIDE MiddlewareAssumption
    <3>. QED BY <1>0, <2>3, <2>4, AddKeeps
  <2>6. keys' \in Seq(0..epoch)
    BY <1>0, <2>1, <2>5
  <2> HIDE DEF q
  <2>. QED BY <2>2, <2>3, <2>5, <2>6, OneCoroutineSteps
<1>4. ASSUME NEW r \in Requests, NodeAnswers(r) PROVE IInv' /\ keys' = keys
  <2> DEFINE q == [req[r] EXCEPT
                     !.step = IF TooFarInThePast(req[r].pk) THEN "tooFar" ELSE "accepted"]
  <2>1. q \in Coroutine /\ CoroutineOK(q, epoch)
    <3>1. req[r] \in Coroutine /\ CoroutineOK(req[r], epoch) /\ req[r].step = "sent"
      BY <1>0, <1>4 DEF NodeAnswers
    <3>2. /\ q \in Coroutine /\ q.pk = req[r].pk /\ q.refused = req[r].refused
         /\ q.step = IF TooFarInThePast(req[r].pk) THEN "tooFar" ELSE "accepted"
      BY <3>1 DEF Coroutine
    <3> HIDE DEF q
    <3>. QED BY <1>0, <3>1, <3>2 DEF CoroutineOK, TooFarInThePast
  <2>2. req' = [req EXCEPT ![r] = q] /\ UNCHANGED <<epoch, keys>>
    BY <1>4 DEF NodeAnswers
  <2> HIDE DEF q
  <2>. QED BY <1>0, <2>1, <2>2, OneCoroutineSteps
<1>5. ASSUME NEW r \in Requests, Retry(r) PROVE IInv' /\ keys' = keys
  <2> DEFINE q == [req[r] EXCEPT !.step = "fetching", !.pk = None, !.refused = req[r].pk]
  <2>1. q \in Coroutine /\ CoroutineOK(q, epoch)
    BY <1>0, <1>5 DEF Retry, Coroutine, CoroutineOK
  <2>2. req' = [req EXCEPT ![r] = q] /\ UNCHANGED <<epoch, keys>>
    BY <1>5 DEF Retry
  <2> HIDE DEF q
  <2>. QED BY <1>0, <2>1, <2>2, OneCoroutineSteps
<1>6. ASSUME NEW r \in Requests, Return(r) \/ Fail(r) PROVE IInv' /\ keys' = keys
  <2>1. Idle \in Coroutine /\ CoroutineOK(Idle, epoch)
    BY DEF Idle, Coroutine, CoroutineOK
  <2>2. req' = [req EXCEPT ![r] = Idle] /\ UNCHANGED <<epoch, keys>>
    BY <1>6 DEF Return, Fail
  <2>. QED BY <1>0, <2>1, <2>2, OneCoroutineSteps
<1>7. ASSUME NextEpoch PROVE IInv' /\ keys' = keys
  <2>1. epoch' \in 0..MaxEpoch /\ epoch' > epoch /\ UNCHANGED <<keys, req>>
    BY <1>0, <1>7, IInvParts DEF NextEpoch
  <2>2. keys' \in Seq(0..epoch')
    BY <1>0, <2>1
  <2>3. \A r \in Requests : CoroutineOK(req[r], epoch')
    BY <1>0, <2>1 DEF Coroutine, CoroutineOK
  <2>. QED
    BY <1>0, <2>1, <2>2, <2>3
      DEF IInv, TypeOK, ManagerOK, KeysOK, Managed, InOrder, Coroutine, CoroutineOK
<1>8. ASSUME UNCHANGED vars PROVE IInv' /\ keys' = keys
  BY <1>8 DEF vars, IInv, TypeOK, ManagerOK, KeysOK
<1>. QED
  BY <1>1, <1>2, <1>3, <1>4, <1>5, <1>6, <1>7, <1>8 DEF Next, Proceed
-----------------------------------------------------------------------------
\* The invariant of the middleware, for any number of coroutines.
THEOREM MiddlewareInvariance == Spec => []IInv
<1>1. IInv /\ [Next]_vars => IInv'
  BY StepKeeps
<1>. QED BY <1>1, Initially, PTL DEF Spec

\* However the coroutines' answers cross, the manager's list is sorted, short and
\* without duplicates, and the key everybody encrypts with is never replaced by an
\* older one.
THEOREM NewestIsKept == Spec => NewestNeverRegresses
<1>1. IInv /\ [Next]_vars
        => [ManagerOK' /\ (keys # <<>> => Newest(keys') >= Newest(keys))]_keys
  BY StepKeeps DEF IInv
<1>. QED BY <1>1, MiddlewareInvariance, PTL DEF Spec, NewestNeverRegresses

\* A request the node refused is sent again with a key newer by more than the
\* node's window, whatever the other coroutines put in the manager meanwhile.
THEOREM RetriesAreNewer == Spec => []RetryIsNewer
<1>1. IInv => RetryIsNewer
  BY DEF IInv, KeysOK, RetryIsNewer
<1>. QED BY <1>1, MiddlewareInvariance, PTL
=============================================================================
