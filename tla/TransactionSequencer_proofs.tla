--------------------- MODULE TransactionSequencer_proofs ---------------------
(***************************************************************************)
(* TLAPS proofs about TransactionSequencer: type correctness, and that no  *)
(* nonce is skipped and transactions are broadcast in order, as long as    *)
(* neither the mempool loses a transaction nor the sequencer an id.        *)
(***************************************************************************)
EXTENDS TransactionSequencer, WellFoundedInduction, TLAPS

USE SequencerAssumption

\* A set of natural numbers that is not empty has a least element.
LEMMA LeastExists ==
    ASSUME NEW T \in SUBSET Nat, T # {}
    PROVE  \E x \in T : \A y \in T : x <= y
<1> DEFINE R == {ss \in Nat \X Nat : ss[1] < ss[2]}
<1>1. IsWellFoundedOn(R, Nat)
  BY NatLessThanWellFounded, Zenon DEF OpToRel
<1>2. PICK x \in T : \A y \in T : ~(<<y, x>> \in R)
  <2> HIDE DEF R
  <2> QED
    BY <1>1, WFMin
<1>3. ASSUME NEW y \in T PROVE x <= y
  <2>1. x \in Nat /\ y \in Nat
    OBVIOUS
  <2>2. y < x => <<y, x>> \in R
    BY <2>1
  <2> HIDE DEF R
  <2> QED
    BY <1>2, <2>1, <2>2
<1> QED
  BY <1>3

\* Transactions in flight have nonces below the bound.
LEMMA OccupiedType == ASSUME TypeOK, NEW s \in Signers PROVE Occupied(s) \subseteq Nonces
BY DEF TypeOK, Occupied, TxIds

\* The chain always has a pending count: the first nonce that is not in use.
LEMMA PendingType ==
    ASSUME TypeOK, NEW s \in Signers
    PROVE  Pending(s) \in mined[s]..MaxNonce /\ Pending(s) \in Nat
<1> DEFINE T == {n \in mined[s]..MaxNonce : n \notin Occupied(s)}
<1>1. mined[s] \in Nat /\ mined[s] <= MaxNonce
  BY DEF TypeOK
<1>2. MaxNonce \notin Occupied(s)
  BY OccupiedType DEF Nonces
<1>3. T \in SUBSET Nat /\ T # {}
  BY <1>1, <1>2
<1>4. PICK n \in T : \A y \in T : n <= y
  <2> HIDE DEF T
  <2> QED
    BY <1>3, LeastExists
<1>5. ASSUME NEW m \in mined[s]..(n - 1) PROVE m \in Occupied(s)
  <2>1. m \in mined[s]..MaxNonce /\ m < n
    BY <1>1
  <2> QED
    BY <1>1, <1>4, <2>1
<1>6. \E k \in mined[s]..MaxNonce :
          k \notin Occupied(s) /\ \A m \in mined[s]..(k - 1) : m \in Occupied(s)
  BY <1>5
<1>7. Pending(s) \in mined[s]..MaxNonce
  BY <1>6 DEF Pending
<1> QED
  BY <1>1, <1>7

\* Without a gap the pending count is the end of what is in flight.
LEMMA PendingIs ==
    ASSUME NEW s \in Signers, mined[s] \in Nat, NEW p \in mined[s]..MaxNonce,
           Occupied(s) = mined[s]..(p - 1)
    PROVE  Pending(s) = p
<1> DEFINE Q(n) == n \notin Occupied(s) /\ \A m \in mined[s]..(n - 1) : m \in Occupied(s)
<1>1. Q(p)
  OBVIOUS
<1>2. ASSUME NEW n \in mined[s]..MaxNonce, Q(n) PROVE n = p
  <2>1. ~(n < p)
    BY <1>2
  <2>2. ~(p < n)
    <3>1. p < n => p \in mined[s]..(n - 1)
      OBVIOUS
    <3> QED
      BY <1>1, <1>2, <3>1
  <2> QED
    BY <2>1, <2>2
<1> QED
  BY <1>1, <1>2 DEF Pending

\* The idle values are well typed.
LEMMA IdleTypes == IdleTask \in TaskType /\ NoGap \in GapType
<1>1. (CHOOSE s \in Signers : TRUE) \in Signers
  OBVIOUS
<1> QED
  BY <1>1 DEF IdleTask, TaskType, NoGap, GapType

\* What Complete leaves behind is well typed.
LEMMA CompleteType ==
    ASSUME TypeOK, NEW outcome, NEW deduplicated, Complete(outcome, deduplicated)
    PROVE  /\ current_nonce' \in [Signers -> Nat] /\ task' \in TaskType
           /\ UNCHANGED <<queue, closed, nonce_gaps, mined, drops>>
<1>1. NonceConsumed(outcome, deduplicated) \in {"yes", "no", "unknown"}
  BY DEF NonceConsumed
<1>2. task.signer \in Signers /\ current_nonce[task.signer] \in Nat
  BY DEF TypeOK, TaskType
<1> DEFINE c == NonceConsumed(outcome, deduplicated)
<1>3. (CASE c = "yes" -> current_nonce[task.signer] + 1
         [] c = "no" -> current_nonce[task.signer]
         [] c = "unknown" -> 0) \in Nat
  <2> HIDE DEF c
  <2>1. c = "yes" \/ c = "no" \/ c = "unknown"
    BY <1>1 DEF c
  <2> QED
    BY <1>2, <2>1
<1> QED
  BY <1>2, <1>3, IdleTypes DEF Complete, TypeOK

\* A broadcast transaction is well typed.
LEMMA BroadcastType ==
    ASSUME TypeOK, Broadcast
    PROVE  mempool' \in SUBSET [id : TxIds, action : Actions] /\ Id \in TxIds
BY DEF TypeOK, TaskType, Broadcast, Id, TxId, TxIds

\* Chain, time and callers preserve types.
LEMMA TypeEnvironment == ASSUME TypeOK, ChainStep \/ TimeStep \/ CallerStep PROVE TypeOK'
<1>1. ASSUME NEW s \in Signers, Mine(s) PROVE TypeOK'
  <2>1. mined[s] \in Nat /\ mined[s] + 1 \in 0..MaxNonce
    BY <1>1, OccupiedType DEF Mine, Nonces, TypeOK
  <2> QED
    BY <1>1, <2>1 DEF Mine, TypeOK
<1>2. ASSUME NEW s \in Signers, SendElsewhere(s) PROVE TypeOK'
  <2>1. Pending(s) \in Nonces
    BY <1>2, PendingType DEF SendElsewhere, Nonces
  <2>2. [id |-> TxId(s, Pending(s)), action |-> Fresh] \in [id : TxIds, action : Actions]
    BY <2>1 DEF TxId, TxIds
  <2> QED
    BY <1>2, <2>2 DEF SendElsewhere, TypeOK, cacheVars
<1>3. ASSUME NEW x \in mempool, DropFromMempool(x) PROVE TypeOK'
  <2>1. x.id.signer \in Signers
    BY DEF TypeOK, TxIds
  <2>2. drops[x.id.signer] + 1 \in 0..MaxDrops
    BY <1>3, <2>1 DEF DropFromMempool, TypeOK
  <2> QED
    BY <1>3, <2>1, <2>2 DEF DropFromMempool, TypeOK
<1>4. ASSUME NEW s \in Signers, NonceExpires(s) PROVE TypeOK'
  BY <1>4 DEF NonceExpires, TypeOK, chainVars
<1>5. ASSUME NEW s \in Signers, GapAges(s) PROVE TypeOK'
  <2>1. [nonce_gaps[s] EXCEPT !.old = TRUE] \in GapType
    BY DEF TypeOK, GapType
  <2> QED
    BY <1>5, <2>1 DEF GapAges, TypeOK, chainVars
<1>6. ASSUME NEW id \in issued_tx_ids, TxIdExpires(id) PROVE TypeOK'
  BY <1>6 DEF TxIdExpires, TypeOK, TxIds, chainVars
<1>7. CASE DropSequencer
  BY <1>7 DEF DropSequencer, TypeOK, cacheVars, chainVars
<1>8. ASSUME NEW s \in Signers, NEW a \in Actions, EnqueueTransaction(s, a) PROVE TypeOK'
  BY <1>8 DEF EnqueueTransaction, TypeOK, cacheVars, chainVars
<1> QED
  BY <1>1, <1>2, <1>3, <1>4, <1>5, <1>6, <1>7, <1>8 DEF ChainStep, TimeStep, CallerStep

\* The task preserves types.
LEMMA TypeTask == ASSUME TypeOK, TaskStep PROVE TypeOK'
<1>1. CASE TakeRequest
  <2> DEFINE Request == [signer : Signers, action : Actions]
  <2>0. queue \in Seq(Request) /\ queue # <<>>
    BY <1>1 DEF TakeRequest, TypeOK
  <2>1. Head(queue) \in Request /\ Tail(queue) \in Seq(Request)
    <3> HIDE DEF Request
    <3> QED
      BY <2>0
  <2>2. [IdleTask EXCEPT !.pc = "query", !.signer = Head(queue).signer,
                         !.action = Head(queue).action] \in TaskType
    BY <2>1, IdleTypes DEF TaskType
  <2> QED
    BY <1>1, <2>1, <2>2 DEF TakeRequest, TypeOK, cacheVars, chainVars
<1>2. CASE QueryTransactionCount
  <2> DEFINE s == task.signer
             nonce == SyncNonce(s, Pending(s))
  <2>1. s \in Signers
    BY DEF TypeOK, TaskType
  <2>2. Pending(s) \in Nat /\ current_nonce[s] \in Nat
    BY <2>1, PendingType DEF TypeOK
  <2>3. nonce \in Nat
    BY <2>2 DEF SyncNonce
  <2>4. GapSeen(s, Pending(s)) \in GapType
    BY <2>2, IdleTypes DEF GapSeen, GapType
  <2>5. [task EXCEPT !.pc = "submit", !.nonce = nonce] \in TaskType
    <3> HIDE DEF nonce
    <3> QED
      BY <2>3 DEF TypeOK, TaskType
  <2> QED
    BY <1>2, <2>1, <2>3, <2>4, <2>5 DEF QueryTransactionCount, TypeOK, chainVars
<1>3. CASE NotSubmitted
  BY <1>3, CompleteType DEF NotSubmitted, TypeOK
<1>4. CASE BroadcastOk
  BY <1>4, CompleteType, BroadcastType DEF BroadcastOk, TypeOK
<1>5. CASE AnswerLost
  <2>1. unseen' \in SUBSET Signers
    BY <1>5 DEF AnswerLost, TypeOK, TaskType
  <2> QED
    BY <1>5, <2>1, CompleteType, BroadcastType DEF AnswerLost, TypeOK
<1>6. CASE Deduplicate
  <2>1. PICK x \in mempool : issued_tx_ids' = issued_tx_ids \cup {x.id}
                             /\ Complete("ok", x.id \in issued_tx_ids)
    BY <1>6 DEF Deduplicate
  <2>2. issued_tx_ids' \in SUBSET TxIds
    BY <2>1 DEF TypeOK
  <2> QED
    BY <1>6, <2>1, <2>2, CompleteType DEF Deduplicate, TypeOK
<1>7. CASE NonceTaken \/ Refused
  BY <1>7, CompleteType DEF NonceTaken, Refused, TypeOK
<1> QED
  BY <1>1, <1>2, <1>3, <1>4, <1>5, <1>6, <1>7 DEF TaskStep, Submit

\* Every state of the sequencer, its caches and the mempool is well typed; in
\* particular the sequencer always finds a pending count and a nonce to use.
THEOREM TypeCorrect == Spec => []TypeOK
<1>1. ASSUME Init PROVE TypeOK
  <2>1. queue \in Seq([signer : Signers, action : Actions])
    BY <1>1 DEF Init
  <2>2. /\ task \in TaskType /\ current_nonce \in [Signers -> Nat]
        /\ nonce_gaps \in [Signers -> GapType]
    BY <1>1, IdleTypes DEF Init
  <2>3. mined \in [Signers -> 0..MaxNonce] /\ drops \in [Signers -> 0..MaxDrops]
    BY <1>1 DEF Init
  <2> QED
    BY <1>1, <2>1, <2>2, <2>3 DEF Init, TypeOK
<1>2. TypeOK /\ [Next]_vars => TypeOK'
  <2>1. ASSUME TypeOK, UNCHANGED vars PROVE TypeOK'
    BY <2>1 DEF vars, TypeOK
  <2> QED
    BY <2>1, TypeEnvironment, TypeTask DEF Next
<1> QED
  BY <1>1, <1>2, PTL DEF Spec
-----------------------------------------------------------------------------
(* No nonce is skipped. *)

\* What is in flight ends before p, and the sequencer is not ahead of p.  While
\* a transaction is under way its nonce is not below the local one.
Contiguous(s, p) ==
    /\ p \in mined[s]..MaxNonce
    /\ Occupied(s) = mined[s]..(p - 1)
    /\ current_nonce[s] <= p
    /\ task.pc = "submit" /\ task.signer = s =>
          task.nonce <= p /\ current_nonce[s] <= task.nonce

\* Whatever Blokli may deduplicate has been seen before.
Seen(s) == \A x \in mempool : x.id.signer = s /\ x.action # Fresh => x.id \in issued_tx_ids

\* The inductive invariant.
NonceInv == \A s \in Signers : Undisturbed(s) => Seen(s) /\ \E p \in Nat : Contiguous(s, p)

\* Occupied nonces when a transaction of r with nonce n is added.
LEMMA OccupiedAdd ==
    ASSUME NEW s, NEW r, NEW n, NEW a,
           mempool' = mempool \cup {[id |-> TxId(r, n), action |-> a]}
    PROVE  Occupied(s)' = IF r = s THEN Occupied(s) \cup {n} ELSE Occupied(s)
<1> DEFINE x == [id |-> TxId(r, n), action |-> a]
<1>1. x.id.signer = r /\ x.id.nonce = n
  BY DEF TxId
<1>2. mempool' = mempool \cup {x}
  OBVIOUS
<1> HIDE DEF x
<1>3. CASE r = s
  <2>1. {y \in mempool' : y.id.signer = s} = {y \in mempool : y.id.signer = s} \cup {x}
    BY <1>1, <1>2, <1>3
  <2> QED
    BY <1>1, <1>3, <2>1 DEF Occupied
<1>4. CASE r # s
  <2>1. {y \in mempool' : y.id.signer = s} = {y \in mempool : y.id.signer = s}
    BY <1>1, <1>2, <1>4
  <2> QED
    BY <1>4, <2>1 DEF Occupied
<1> QED
  BY <1>3, <1>4

\* Occupied nonces when a transaction of r is mined.
LEMMA OccupiedMine ==
    ASSUME TypeOK, NEW s, NEW r \in Signers, Mine(r)
    PROVE  Occupied(s)' = IF r = s THEN Occupied(s) \ {mined[r]} ELSE Occupied(s)
<1>1. ASSUME NEW x \in mempool
      PROVE  x.id = TxId(r, mined[r]) <=> x.id.signer = r /\ x.id.nonce = mined[r]
  BY DEF TypeOK, TxIds, TxId
<1>2. mempool' = {x \in mempool : ~(x.id.signer = r /\ x.id.nonce = mined[r])}
  BY <1>1 DEF Mine
<1> QED
  BY <1>2 DEF Occupied

\* What Complete does to the local nonces.
LEMMA CompleteNonce ==
    ASSUME TypeOK, NEW outcome, NEW deduplicated, Complete(outcome, deduplicated),
           NEW s \in Signers
    PROVE  /\ task'.pc = "idle" /\ UNCHANGED <<mined, drops>>
           /\ s # task.signer => current_nonce'[s] = current_nonce[s]
           /\ s = task.signer =>
                /\ current_nonce'[s] \in {0, current_nonce[s], current_nonce[s] + 1}
                /\ NonceConsumed(outcome, deduplicated) # "yes" =>
                      current_nonce'[s] \in {0, current_nonce[s]}
<1> DEFINE c == NonceConsumed(outcome, deduplicated)
           v == CASE c = "yes" -> current_nonce[task.signer] + 1
                  [] c = "no" -> current_nonce[task.signer]
                  [] c = "unknown" -> 0
<1>1. c \in {"yes", "no", "unknown"}
  BY DEF NonceConsumed
<1>2. current_nonce' = [current_nonce EXCEPT ![task.signer] = v]
  BY DEF Complete
<1>3. /\ v \in {0, current_nonce[task.signer], current_nonce[task.signer] + 1}
      /\ c # "yes" => v \in {0, current_nonce[task.signer]}
  <2> HIDE DEF c
  <2> QED
    BY <1>1
<1>4. task'.pc = "idle" /\ UNCHANGED <<mined, drops>>
  BY DEF Complete, IdleTask
<1> HIDE DEF c, v
<1> QED
  BY <1>2, <1>3, <1>4 DEF TypeOK, c

\* The outcome of a transaction keeps what is in flight contiguous, when the
\* mempool stays as it is and the nonce counts as used only if it is.
LEMMA CompleteContiguous ==
    ASSUME TypeOK, NEW s \in Signers, NEW p \in Nat, Contiguous(s, p), UNCHANGED mempool,
           NEW outcome, NEW deduplicated, Complete(outcome, deduplicated),
           task.signer = s /\ NonceConsumed(outcome, deduplicated) = "yes" =>
              task.pc = "submit" /\ task.nonce + 1 <= p
    PROVE  Contiguous(s, p)'
<1>1. /\ current_nonce[s] \in Nat /\ task.nonce \in Nat /\ mined[s] \in Nat
      /\ task.signer \in Signers
  BY DEF TypeOK, TaskType
<1>2. Occupied(s)' = Occupied(s)
  BY DEF Occupied
<1>3. task'.pc = "idle" /\ mined' = mined
  BY CompleteNonce
<1>4. current_nonce'[s] <= p
  <2>1. CASE task.signer # s
    BY <1>1, <2>1, CompleteNonce DEF Contiguous
  <2>2. CASE task.signer = s /\ NonceConsumed(outcome, deduplicated) = "yes"
    <3>1. current_nonce[s] <= task.nonce /\ task.nonce + 1 <= p
      BY <2>2 DEF Contiguous
    <3>2. current_nonce'[s] \in {0, current_nonce[s], current_nonce[s] + 1}
      BY <2>2, CompleteNonce
    <3> QED
      BY <1>1, <3>1, <3>2
  <2>3. CASE task.signer = s /\ NonceConsumed(outcome, deduplicated) # "yes"
    <3>1. current_nonce'[s] \in {0, current_nonce[s]}
      BY <2>3, CompleteNonce
    <3> QED
      BY <1>1, <3>1 DEF Contiguous
  <2> QED
    BY <2>1, <2>2, <2>3
<1> QED
  BY <1>2, <1>3, <1>4 DEF Contiguous

\* A transaction of s that is broadcast gets the first free nonce.
LEMMA BroadcastAtEnd ==
    ASSUME TypeOK, NEW s \in Signers, NEW p \in Nat, Contiguous(s, p),
           task.pc = "submit", task.signer = s, Broadcast
    PROVE  task.nonce = p /\ p < MaxNonce
<1>1. /\ task.nonce \in Nat /\ task.nonce < MaxNonce /\ mined[s] \in Nat
      /\ task.nonce >= mined[s] /\ task.nonce \notin Occupied(s) /\ task.nonce <= p
  BY DEF TypeOK, TaskType, Broadcast, Nonces, Contiguous
<1>2. Occupied(s) = mined[s]..(p - 1)
  BY DEF Contiguous
<1> QED
  BY <1>1, <1>2

\* Every step keeps the invariant for a signer that stays undisturbed.
LEMMA NonceNext ==
    ASSUME TypeOK, TypeOK', NonceInv, Next, NEW s \in Signers, Undisturbed(s)'
    PROVE  Seen(s)' /\ \E p \in Nat : Contiguous(s, p)'
<1>t. /\ current_nonce[s] \in Nat /\ mined[s] \in Nat /\ task.signer \in Signers
      /\ task.nonce \in Nat /\ drops[s] \in Nat
  BY DEF TypeOK, TaskType
<1>d. ASSUME drops'[s] = drops[s] \/ drops'[s] = drops[s] + 1, unseen \subseteq unseen'
      PROVE  Seen(s) /\ \E p \in Nat : Contiguous(s, p)
  BY <1>t, <1>d DEF Undisturbed, NonceInv
<1>1. ASSUME NEW r \in Signers, Mine(r) PROVE Seen(s)' /\ \E p \in Nat : Contiguous(s, p)'
  <2>1. Seen(s) /\ \E p \in Nat : Contiguous(s, p)
    BY <1>1, <1>d DEF Mine
  <2>2. PICK p \in Nat : Contiguous(s, p)
    BY <2>1
  <2>3. Seen(s)'
    BY <1>1, <2>1 DEF Mine, Seen
  <2>4. Contiguous(s, p)'
    <3>1. CASE r # s
      <4>1. Occupied(s)' = Occupied(s)
        BY <1>1, <3>1, OccupiedMine
      <4>2. mined'[s] = mined[s]
        BY <1>1, <3>1 DEF Mine, TypeOK
      <4> QED
        BY <1>1, <2>2, <4>1, <4>2 DEF Mine, Contiguous
    <3>2. CASE r = s
      <4>1. Occupied(s)' = Occupied(s) \ {mined[s]}
        BY <1>1, <3>2, OccupiedMine
      <4>2. mined'[s] = mined[s] + 1 /\ mined[s] \in Occupied(s)
        BY <1>1, <3>2 DEF Mine, TypeOK
      <4>3. p \in mined'[s]..MaxNonce /\ Occupied(s)' = mined'[s]..(p - 1)
        BY <1>t, <2>2, <4>1, <4>2 DEF Contiguous
      <4> QED
        BY <1>1, <2>2, <4>3 DEF Mine, Contiguous
    <3> QED
      BY <3>1, <3>2
  <2> QED
    BY <2>3, <2>4
<1>2. ASSUME NEW r \in Signers, SendElsewhere(r) PROVE Seen(s)' /\ \E p \in Nat : Contiguous(s, p)'
  <2>0. /\ mempool' = mempool \cup {[id |-> TxId(r, Pending(r)), action |-> Fresh]}
        /\ Pending(r) < MaxNonce
        /\ UNCHANGED <<task, current_nonce, issued_tx_ids, mined, drops, unseen>>
    BY <1>2 DEF SendElsewhere, cacheVars
  <2>1. Seen(s) /\ \E p \in Nat : Contiguous(s, p)
    BY <2>0, <1>d
  <2>2. PICK p \in Nat : Contiguous(s, p)
    BY <2>1
  <2>3. Seen(s)'
    BY <2>0, <2>1 DEF Seen
  <2>4. CASE r # s
    <3>1. Occupied(s)' = Occupied(s)
      BY <2>0, <2>4, OccupiedAdd
    <3> QED
      BY <2>0, <2>2, <2>3, <3>1 DEF Contiguous
  <2>5. CASE r = s
    <3>1. Pending(s) = p
      BY <1>t, <2>2, PendingIs DEF Contiguous
    <3>2. Occupied(s)' = Occupied(s) \cup {p}
      BY <2>0, <2>5, <3>1, OccupiedAdd
    <3>3. p + 1 \in mined[s]..MaxNonce /\ Occupied(s)' = mined[s]..p
      BY <1>t, <2>0, <2>2, <2>5, <3>1, <3>2 DEF Contiguous
    <3>4. Contiguous(s, p + 1)'
      BY <1>t, <2>0, <2>2, <3>3 DEF Contiguous
    <3> QED
      BY <2>3, <3>4
  <2> QED
    BY <2>4, <2>5
<1>3. ASSUME NEW x \in mempool, DropFromMempool(x) PROVE Seen(s)' /\ \E p \in Nat : Contiguous(s, p)'
  <2>1. x.id.signer \in Signers
    BY DEF TypeOK, TxIds
  <2>2. x.id.signer # s
    BY <1>3, <1>t, <2>1 DEF DropFromMempool, Undisturbed, TypeOK
  <2>3. drops'[s] = drops[s]
    BY <1>3, <2>1, <2>2 DEF DropFromMempool, TypeOK
  <2>4. Seen(s) /\ \E p \in Nat : Contiguous(s, p)
    BY <1>3, <2>3, <1>d DEF DropFromMempool
  <2>5. Occupied(s)' = Occupied(s)
    BY <1>3, <2>2 DEF DropFromMempool, Occupied
  <2>6. Seen(s)'
    BY <1>3, <2>2, <2>4 DEF DropFromMempool, Seen
  <2> QED
    BY <1>3, <2>4, <2>5, <2>6 DEF DropFromMempool, Contiguous
<1>4. ASSUME NEW r \in Signers, NonceExpires(r) PROVE Seen(s)' /\ \E p \in Nat : Contiguous(s, p)'
  <2>1. Seen(s) /\ \E p \in Nat : Contiguous(s, p)
    BY <1>4, <1>d DEF NonceExpires, chainVars
  <2>2. current_nonce'[s] = current_nonce[s] \/ current_nonce'[s] = 0
    BY <1>4 DEF NonceExpires, TypeOK
  <2>3. Occupied(s)' = Occupied(s) /\ Seen(s)'
    BY <1>4, <2>1 DEF NonceExpires, chainVars, Occupied, Seen
  <2> QED
    BY <1>4, <1>t, <2>1, <2>2, <2>3 DEF NonceExpires, chainVars, Contiguous
<1>5. ASSUME UNCHANGED <<task, current_nonce, issued_tx_ids, unseen, mempool, mined, drops>>
      PROVE  Seen(s)' /\ \E p \in Nat : Contiguous(s, p)'
  <2>1. Seen(s) /\ \E p \in Nat : Contiguous(s, p)
    BY <1>5, <1>d
  <2> QED
    BY <1>5, <2>1 DEF Seen, Contiguous, Occupied
<1>6. ASSUME NEW id \in issued_tx_ids, TxIdExpires(id) PROVE Seen(s)' /\ \E p \in Nat : Contiguous(s, p)'
  <2>1. id.signer # s
    BY <1>6 DEF TxIdExpires, Undisturbed
  <2>2. Seen(s) /\ \E p \in Nat : Contiguous(s, p)
    BY <1>6, <1>d DEF TxIdExpires, chainVars
  <2>3. Seen(s)'
    BY <1>6, <2>1, <2>2 DEF TxIdExpires, chainVars, Seen
  <2> QED
    BY <1>6, <2>2, <2>3 DEF TxIdExpires, chainVars, Contiguous, Occupied
<1>7. CASE TakeRequest
  <2>1. Seen(s) /\ \E p \in Nat : Contiguous(s, p)
    BY <1>7, <1>d DEF TakeRequest, cacheVars, chainVars
  <2>2. task'.pc = "query"
    BY <1>7 DEF TakeRequest, IdleTask
  <2> QED
    BY <1>7, <2>1, <2>2 DEF TakeRequest, cacheVars, chainVars, Contiguous, Occupied, Seen
<1>8. CASE QueryTransactionCount
  <2>0. /\ UNCHANGED <<issued_tx_ids, unseen, mempool, mined, drops>>
        /\ task'.signer = task.signer
        /\ task'.nonce = SyncNonce(task.signer, Pending(task.signer))
        /\ current_nonce' = [current_nonce EXCEPT ![task.signer] =
                                 SyncNonce(task.signer, Pending(task.signer))]
    BY <1>8 DEF QueryTransactionCount, chainVars, TypeOK, TaskType
  <2>1. Seen(s) /\ \E p \in Nat : Contiguous(s, p)
    BY <2>0, <1>d
  <2>2. PICK p \in Nat : Contiguous(s, p)
    BY <2>1
  <2>3. Seen(s)' /\ Occupied(s)' = Occupied(s)
    BY <2>0, <2>1 DEF Seen, Occupied
  <2>4. CASE task.signer # s
    <3>1. current_nonce'[s] = current_nonce[s]
      BY <2>0, <2>4 DEF TypeOK
    <3> QED
      BY <2>0, <2>2, <2>3, <2>4, <3>1 DEF Contiguous
  <2>5. CASE task.signer = s
    <3>1. Pending(s) = p
      BY <1>t, <2>2, PendingIs DEF Contiguous
    <3>2. SyncNonce(s, p) = p
      BY <2>2 DEF SyncNonce, Contiguous
    <3>3. task'.nonce = p /\ current_nonce'[s] = p
      BY <2>0, <2>5, <3>1, <3>2 DEF TypeOK
    <3> QED
      BY <2>0, <2>2, <2>3, <3>3 DEF Contiguous
  <2> QED
    BY <2>4, <2>5
<1>9. CASE NotSubmitted \/ Refused
  <2>0. PICK o \in {"unreached", "refused"} :
            Complete(o, FALSE) /\ UNCHANGED <<issued_tx_ids, unseen, mempool>>
    BY <1>9 DEF NotSubmitted, Refused
  <2>1. UNCHANGED drops
    BY <2>0 DEF Complete
  <2>2. Seen(s) /\ \E p \in Nat : Contiguous(s, p)
    BY <2>0, <2>1, <1>d
  <2>3. NonceConsumed(o, FALSE) # "yes"
    BY DEF NonceConsumed
  <2>4. Seen(s)'
    BY <2>0, <2>2 DEF Seen
  <2> QED
    BY <2>0, <2>2, <2>3, <2>4, CompleteContiguous
<1>10. CASE BroadcastOk
  <2>0. /\ task.pc = "submit" /\ Broadcast /\ Complete("ok", Id \in issued_tx_ids)
        /\ issued_tx_ids' = issued_tx_ids \cup {Id} /\ unseen' = unseen
        /\ mempool' = mempool \cup {[id |-> Id, action |-> task.action]}
    BY <1>10 DEF BroadcastOk, Broadcast
  <2>1. UNCHANGED <<mined, drops>> /\ task'.pc = "idle"
    BY <2>0, CompleteNonce
  <2>2. Seen(s) /\ \E p \in Nat : Contiguous(s, p)
    BY <2>0, <2>1, <1>d
  <2>3. PICK p \in Nat : Contiguous(s, p)
    BY <2>2
  <2>4. Seen(s)'
    BY <2>0, <2>2 DEF Seen
  <2>5. CASE task.signer # s
    <3>1. Occupied(s)' = Occupied(s)
      BY <2>0, <2>5, OccupiedAdd DEF Id
    <3>2. current_nonce'[s] = current_nonce[s]
      BY <2>0, <2>5, CompleteNonce
    <3> QED
      BY <2>1, <2>3, <2>4, <3>1, <3>2 DEF Contiguous
  <2>6. CASE task.signer = s
    <3>1. task.nonce = p /\ p < MaxNonce
      BY <2>0, <2>3, <2>6, BroadcastAtEnd
    <3>2. Occupied(s)' = Occupied(s) \cup {p}
      BY <2>0, <2>6, <3>1, OccupiedAdd DEF Id
    <3>3. p + 1 \in mined[s]..MaxNonce /\ Occupied(s)' = mined[s]..p
      BY <1>t, <2>3, <3>1, <3>2 DEF Contiguous
    <3>4. current_nonce'[s] \in {0, current_nonce[s], current_nonce[s] + 1}
      BY <2>0, <2>6, CompleteNonce
    <3>5. current_nonce'[s] <= p + 1
      BY <1>t, <2>3, <3>4 DEF Contiguous
    <3>6. Contiguous(s, p + 1)'
      BY <2>1, <3>3, <3>5 DEF Contiguous
    <3> QED
      BY <2>4, <3>6
  <2> QED
    BY <2>5, <2>6
<1>11. CASE AnswerLost
  <2>0. /\ task.pc = "submit" /\ Complete("unknown", FALSE) /\ issued_tx_ids' = issued_tx_ids
        /\ \/ Broadcast /\ unseen' = unseen \cup {task.signer}
           \/ UNCHANGED <<mempool, unseen>>
    BY <1>11 DEF AnswerLost
  <2>1. UNCHANGED <<mined, drops>> /\ task'.pc = "idle"
    BY <2>0, CompleteNonce
  <2>2. Seen(s) /\ \E p \in Nat : Contiguous(s, p)
    BY <2>0, <2>1, <1>d
  <2>3. CASE UNCHANGED mempool
    <3>1. NonceConsumed("unknown", FALSE) # "yes"
      BY DEF NonceConsumed
    <3>2. Seen(s)'
      BY <2>0, <2>2, <2>3 DEF Seen
    <3> QED
      BY <2>0, <2>2, <2>3, <3>1, <3>2, CompleteContiguous
  <2>4. CASE Broadcast /\ unseen' = unseen \cup {task.signer}
    <3>1. task.signer # s
      BY <2>4 DEF Undisturbed
    <3>2. mempool' = mempool \cup {[id |-> Id, action |-> task.action]}
      BY <2>4 DEF Broadcast
    <3>3. Occupied(s)' = Occupied(s)
      BY <3>1, <3>2, OccupiedAdd DEF Id
    <3>4. Seen(s)'
      BY <2>0, <2>2, <3>1, <3>2 DEF Seen, Id, TxId
    <3>5. current_nonce'[s] = current_nonce[s]
      BY <2>0, <3>1, CompleteNonce
    <3> QED
      BY <2>1, <2>2, <3>3, <3>4, <3>5 DEF Contiguous
  <2> QED
    BY <2>0, <2>3, <2>4
<1>12. CASE Deduplicate
  <2>0. PICK x \in mempool :
            /\ x.id.signer = task.signer /\ x.action = task.action /\ task.action # Fresh
            /\ issued_tx_ids' = issued_tx_ids \cup {x.id}
            /\ Complete("ok", x.id \in issued_tx_ids)
            /\ UNCHANGED <<mempool, unseen>>
    BY <1>12 DEF Deduplicate
  <2>1. UNCHANGED drops
    BY <2>0 DEF Complete
  <2>2. Seen(s) /\ \E p \in Nat : Contiguous(s, p)
    BY <2>0, <2>1, <1>d
  <2>3. task.signer = s => NonceConsumed("ok", x.id \in issued_tx_ids) # "yes"
    BY <2>0, <2>2 DEF Seen, NonceConsumed
  <2>4. Seen(s)'
    BY <2>0, <2>2 DEF Seen
  <2> QED
    BY <2>0, <2>2, <2>3, <2>4, CompleteContiguous
<1>13. CASE NonceTaken
  <2>0. /\ task.pc = "submit" /\ Complete("taken", FALSE)
        /\ task.nonce < mined[task.signer] \/ task.nonce \in Occupied(task.signer)
        /\ UNCHANGED <<issued_tx_ids, unseen, mempool>>
    BY <1>13 DEF NonceTaken
  <2>1. UNCHANGED drops
    BY <2>0 DEF Complete
  <2>2. Seen(s) /\ \E p \in Nat : Contiguous(s, p)
    BY <2>0, <2>1, <1>d
  <2>3. PICK p \in Nat : Contiguous(s, p)
    BY <2>2
  <2>4. task.signer = s => task.nonce + 1 <= p
    BY <1>t, <2>0, <2>3 DEF Contiguous
  <2>5. Seen(s)'
    BY <2>0, <2>2 DEF Seen
  <2> QED
    BY <2>0, <2>3, <2>4, <2>5, CompleteContiguous
<1> QED
  BY <1>1, <1>2, <1>3, <1>4, <1>5, <1>6, <1>7, <1>8, <1>9, <1>10, <1>11, <1>12, <1>13
     DEF Next, ChainStep, TimeStep, CallerStep, TaskStep, Submit, GapAges, DropSequencer,
         EnqueueTransaction, cacheVars, chainVars

\* Types and NonceInv together are an invariant.
LEMMA NonceInvariant == Spec => [](TypeOK /\ NonceInv)
<1>1. ASSUME Init, TypeOK PROVE NonceInv
  <2>1. ASSUME NEW s \in Signers PROVE Seen(s) /\ Contiguous(s, 0)
    <3>1. Occupied(s) = {} /\ mined[s] = 0 /\ current_nonce[s] = 0 /\ task.pc = "idle"
      BY <1>1 DEF Init, Occupied, IdleTask
    <3> QED
      BY <1>1, <3>1 DEF Init, Seen, Contiguous
  <2> QED
    BY <2>1 DEF NonceInv
<1>2. ASSUME TypeOK, TypeOK', NonceInv, [Next]_vars PROVE NonceInv'
  <2>1. CASE Next
    BY <1>2, <2>1, NonceNext DEF NonceInv
  <2>2. CASE UNCHANGED vars
    BY <1>2, <2>2 DEF vars, NonceInv, Undisturbed, Seen, Contiguous, Occupied
  <2> QED
    BY <1>2, <2>1, <2>2
<1>3. Init /\ TypeOK => NonceInv
  BY <1>1
<1>4. TypeOK /\ TypeOK' /\ NonceInv /\ [Next]_vars => NonceInv'
  BY <1>2
<1> QED
  BY <1>3, <1>4, TypeCorrect, PTL DEF Spec

\* For any signers, actions and bounds: as long as the mempool lost no
\* transaction of a signer and the sequencer saw and kept its ids, every
\* transaction of that signer in flight can be mined.
THEOREM NoNonceSkippedCorrect == Spec => []NoNonceSkipped
<1>1. ASSUME TypeOK, NonceInv PROVE NoNonceSkipped
  <2>1. ASSUME NEW s \in Signers, Undisturbed(s), NEW n \in Occupied(s), n > Pending(s) PROVE FALSE
    <3>1. PICK p \in Nat : Contiguous(s, p)
      BY <1>1, <2>1 DEF NonceInv
    <3>2. mined[s] \in Nat
      BY <1>1 DEF TypeOK
    <3>3. Pending(s) = p
      BY <3>1, <3>2, PendingIs DEF Contiguous
    <3> QED
      BY <2>1, <3>1, <3>2, <3>3 DEF Contiguous
  <2> QED
    BY <2>1 DEF NoNonceSkipped, Stuck
<1>2. TypeOK /\ NonceInv => NoNonceSkipped
  BY <1>1
<1> QED
  BY <1>2, NonceInvariant, PTL

\* Under the same condition transactions are broadcast in order: each one gets
\* a higher nonce than all of its signer's that are in flight.
THEOREM BroadcastInOrderCorrect == Spec => BroadcastInOrder
<1> DEFINE InOrder ==
        \A x \in mempool' \ mempool, y \in mempool :
            x.id.signer = y.id.signer /\ Undisturbed(x.id.signer)' => x.id.nonce > y.id.nonce
<1>1. ASSUME TypeOK, NonceInv, Next, NEW x \in mempool' \ mempool, NEW y \in mempool,
             x.id.signer = y.id.signer, Undisturbed(x.id.signer)'
      PROVE  x.id.nonce > y.id.nonce
  <2> DEFINE s == x.id.signer
  <2>1. s \in Signers /\ mined[s] \in Nat /\ y.id.nonce \in Nat
    BY <1>1 DEF TypeOK, TxIds, Nonces
  <2>2. y.id.nonce \in Occupied(s)
    BY <1>1 DEF Occupied
  <2>3. ASSUME NEW r \in Signers, SendElsewhere(r) PROVE x.id.nonce > y.id.nonce
    <3>1. x.id = TxId(r, Pending(r)) /\ Undisturbed(s)
      BY <1>1, <2>3 DEF SendElsewhere, cacheVars, Undisturbed
    <3>2. r = s /\ x.id.nonce = Pending(s)
      BY <3>1 DEF TxId
    <3>3. PICK p \in Nat : Contiguous(s, p)
      BY <1>1, <2>1, <3>1 DEF NonceInv
    <3>4. Pending(s) = p
      BY <2>1, <3>3, PendingIs DEF Contiguous
    <3> QED
      BY <2>1, <2>2, <3>2, <3>3, <3>4 DEF Contiguous
  <2>4. ASSUME Broadcast, task.pc = "submit", UNCHANGED <<drops, unseen>>
        PROVE  x.id.nonce > y.id.nonce
    <3>1. x.id = Id /\ Undisturbed(s)
      BY <1>1, <2>4 DEF Broadcast, Undisturbed
    <3>2. task.signer = s /\ x.id.nonce = task.nonce
      BY <3>1 DEF Id, TxId
    <3>3. PICK p \in Nat : Contiguous(s, p)
      BY <1>1, <2>1, <3>1 DEF NonceInv
    <3>4. task.nonce = p
      BY <1>1, <2>1, <2>4, <3>2, <3>3, BroadcastAtEnd
    <3> QED
      BY <2>1, <2>2, <3>2, <3>3, <3>4 DEF Contiguous
  <2>5. CASE BroadcastOk
    BY <2>4, <2>5 DEF BroadcastOk, Complete
  <2>6. CASE AnswerLost
    <3>1. CASE Broadcast /\ unseen' = unseen \cup {task.signer}
      <4>1. x.id.signer = task.signer
        BY <1>1, <3>1 DEF Broadcast, Id, TxId
      <4> QED
        BY <1>1, <3>1, <4>1 DEF Undisturbed
    <3> QED
      BY <1>1, <2>6, <3>1 DEF AnswerLost
  <2>7. ASSUME mempool' \subseteq mempool PROVE FALSE
    BY <1>1, <2>7
  <2> QED
    BY <1>1, <2>3, <2>5, <2>6, <2>7 DEF Next, ChainStep, TimeStep, CallerStep, TaskStep, Submit,
       Mine, DropFromMempool, NonceExpires, GapAges, TxIdExpires, DropSequencer,
       EnqueueTransaction, TakeRequest, QueryTransactionCount, NotSubmitted, Deduplicate,
       NonceTaken, Refused, chainVars
<1>2. TypeOK /\ NonceInv /\ [Next]_vars => [InOrder]_vars
  BY <1>1
<1> QED
  BY <1>2, NonceInvariant, PTL DEF Spec, BroadcastInOrder
=============================================================================
