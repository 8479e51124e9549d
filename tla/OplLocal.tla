------------------------------ MODULE OplLocal ------------------------------
(***************************************************************************)
(* Two BaseEndpoint contracts on a local network, where postMessage calls  *)
(* the remote contract's executeMessage directly (Endpoint.sol:91-100).    *)
(* The call is synchronous: a handler that posts re-enters the poster's    *)
(* contract before the poster has counted its own message (++txSeq comes   *)
(* after the call).  The steps of one transaction are interleaved with     *)
(* nothing, but they nest, and a failure anywhere undoes all of them.      *)
(***************************************************************************)
EXTENDS Naturals, Sequences, SequencesExt

CONSTANTS Host, Enclave,   \* the two endpoints
          Nobody,          \* no transaction is running
          MaxDepth,        \* bound: nested postMessage calls
          MaxPosts         \* bound: posts of each endpoint

Endpoints == {Host, Enclave}
Remote(e) == IF e = Host THEN Enclave ELSE Host

ASSUME LocalAssumption ==
  /\ Host # Enclave
  /\ Nobody \notin Endpoints
  /\ MaxDepth \in Nat
  /\ MaxPosts \in Nat

VARIABLES inOrder,        \* the immutable of both contracts
          txSeq, rxSeq,   \* the counters in each contract's storage
          root,           \* the endpoint whose application started the transaction
          calls,          \* the posts in progress, outermost first
          saved,          \* the counters to go back to if the transaction reverts
          done            \* done[e]: posts of e that have returned (history)

vars == <<inOrder, txSeq, rxSeq, root, calls, saved, done>>

Storage == [tx |-> txSeq, rx |-> rxSeq, done |-> done]

Init == /\ inOrder \in BOOLEAN
        /\ txSeq = [e \in Endpoints |-> 0]
        /\ rxSeq = [e \in Endpoints |-> 0]
        /\ done = [e \in Endpoints |-> 0]
        /\ root = Nobody
        /\ calls = << >>
        /\ saved = Storage

-----------------------------------------------------------------------------
\* The contract whose code is executing: the root's application, or the
\* handler that the innermost post called.
Running == IF calls = << >> THEN root ELSE Remote(Last(calls))

Begin(e) == /\ root = Nobody
            /\ root' = e
            /\ saved' = Storage
            /\ UNCHANGED <<inOrder, txSeq, rxSeq, calls, done>>

\* Mutant: the post is counted before the call.
CallRemoteCountsFirst(e) ==
  /\ Running = e
  /\ Len(calls) < MaxDepth
  /\ txSeq[e] < MaxPosts
  /\ inOrder => txSeq[e] = rxSeq[Remote(e)]
  /\ rxSeq' = IF inOrder THEN [rxSeq EXCEPT ![Remote(e)] = @ + 1] ELSE rxSeq
  /\ txSeq' = [txSeq EXCEPT ![e] = @ + 1]
  /\ calls' = Append(calls, e)
  /\ UNCHANGED <<inOrder, root, saved, done>>

\* postMessage up to the call of the remote handler.  The envelope carries
\* txSeq; the receiver's require compares it with rxSeq.
CallRemote(e) ==
  /\ Running = e
  /\ Len(calls) < MaxDepth
  /\ txSeq[e] < MaxPosts
  /\ inOrder => txSeq[e] = rxSeq[Remote(e)]
  /\ rxSeq' = IF inOrder THEN [rxSeq EXCEPT ![Remote(e)] = @ + 1] ELSE rxSeq
  /\ calls' = Append(calls, e)
  /\ UNCHANGED <<inOrder, txSeq, root, saved, done>>

\* The handler returned Success; postMessage counts the message and returns.
CallReturns ==
  /\ calls # << >>
  /\ LET e == Last(calls) IN
       /\ txSeq' = [txSeq EXCEPT ![e] = @ + 1]
       /\ done' = [done EXCEPT ![e] = @ + 1]
  /\ calls' = Front(calls)
  /\ UNCHANGED <<inOrder, rxSeq, root, saved>>

Commit == /\ root # Nobody
          /\ calls = << >>
          /\ root' = Nobody
          /\ UNCHANGED <<inOrder, txSeq, rxSeq, calls, saved, done>>

\* Mutant: the failed call is caught, and the receiver's count is not undone.
AbortSenderOnly == /\ root # Nobody
                   /\ txSeq' = saved.tx
                   /\ done' = saved.done
                   /\ root' = Nobody
                   /\ calls' = << >>
                   /\ UNCHANGED <<inOrder, rxSeq, saved>>

\* WrongSeqNum, a missing endpoint or a Result other than Success (both end
\* in ReceiverError), or a revert of the application undo the transaction.
Abort == /\ root # Nobody
         /\ txSeq' = saved.tx
         /\ rxSeq' = saved.rx
         /\ done' = saved.done
         /\ root' = Nobody
         /\ calls' = << >>
         /\ UNCHANGED <<inOrder, saved>>

Next == \/ \E e \in Endpoints : Begin(e) \/ CallRemote(e)
        \/ CallReturns
        \/ Commit
        \/ Abort

Spec == Init /\ [][Next]_vars
-----------------------------------------------------------------------------
InProgress(e) == \E i \in 1..Len(calls) : calls[i] = e

Storages == [tx : [Endpoints -> Nat], rx : [Endpoints -> Nat], done : [Endpoints -> Nat]]

TypeOK ==
  /\ inOrder \in BOOLEAN
  /\ Storage \in Storages
  /\ saved \in Storages
  /\ root \in Endpoints \cup {Nobody}
  /\ calls \in Seq(Endpoints)
  /\ root = Nobody => calls = << >>

\* Between transactions the counters tell what happened, whatever nested or
\* was undone: txSeq counts the posts that returned, although it is read before
\* the call and written after it, and on an ordered link the receiver's rxSeq
\* agrees, so that the next post is accepted (Endpoint.sol:87-108, 129-133).
EndsAgree ==
  root = Nobody => \A e \in Endpoints :
    /\ txSeq[e] = done[e]
    /\ inOrder => txSeq[e] = rxSeq[Remote(e)]

\* On an ordered link no contract posts while an outer post of its own is
\* still in progress: the envelope would repeat the outer sequence number,
\* and WrongSeqNum undoes the whole transaction.  A ping-pong-ping exchange
\* that the bus carries is therefore impossible on a local network.
NoReentrantPost ==
  inOrder => \A i, j \in 1..Len(calls) : calls[i] = calls[j] => i = j

\* A receiver is ahead of the sender by the post in progress and nothing else.
AheadByCall ==
  inOrder => \A e \in Endpoints :
    rxSeq[Remote(e)] = IF InProgress(e) THEN txSeq[e] + 1 ELSE txSeq[e]

SavedAgree == inOrder => \A e \in Endpoints : saved.tx[e] = saved.rx[Remote(e)]

\* The inductive invariant behind EndsAgree and NoReentrantPost.
LocalIInv == TypeOK /\ AheadByCall /\ SavedAgree /\ NoReentrantPost

\* The posts that returned are counted, in what a revert goes back to as well.
Counted == \A e \in Endpoints : txSeq[e] = done[e] /\ saved.tx[e] = saved.done[e]
=============================================================================
