------------------------ MODULE TransactionSequencer ------------------------
(***************************************************************************)
(* The TransactionSequencer (connector/sequencer.rs): one task takes       *)
(* requests from a queue, gives each a nonce of its signer and submits it  *)
(* to Blokli.  It keeps a local nonce per signer, because the chain's      *)
(* count may lag, and must find out from Blokli's answer, or from its      *)
(* absence, whether the nonce was used.  A nonce that is skipped blocks    *)
(* every later transaction of its signer.                                  *)
(*                                                                         *)
(* Blokli and the chain's mempool are modelled from how the code uses      *)
(* them: the pending count is the first nonce that is neither mined nor in *)
(* the mempool.                                                            *)
(***************************************************************************)
EXTENDS Integers, Sequences, FiniteSets

CONSTANTS
    Signers,      \* accounts that sign transactions
    Own,          \* the node's own signer, whose local nonce never expires
    Actions,      \* HOPR actions
    Fresh,        \* a transaction that is never a retry of one in flight
    SharedKeys,   \* TRUE: signers also send transactions from elsewhere
    MayForget,    \* TRUE: a tracking id can be unseen while in flight
    MaxNonce,     \* bound: nonces of a signer the chain accepts
    MaxQueue,     \* bound: requests waiting in the queue
    MaxDrops      \* bound: transactions of a signer the mempool loses

ASSUME SequencerAssumption ==
    /\ Signers # {}
    /\ Fresh \in Actions
    /\ SharedKeys \in BOOLEAN /\ MayForget \in BOOLEAN
    /\ MaxNonce \in Nat \ {0} /\ MaxQueue \in Nat \ {0} /\ MaxDrops \in Nat

VARIABLES
    queue,          \* the channel between callers and the task
    closed,         \* the TransactionSequencer was dropped
    task,           \* the task and the request it works on
    current_nonce,  \* local nonce per signer; 0 also when there is no entry
    nonce_gaps,     \* per signer, the count the local nonce is ahead of
    issued_tx_ids,  \* tracking ids Blokli handed out, of those in flight
    mempool,        \* transactions in flight
    mined,          \* transactions mined, per signer
    drops,          \* transactions lost by the mempool, per signer
    unseen          \* ghost: signers of an id issued_tx_ids lost or never saw

chainVars == <<mempool, mined, drops>>
cacheVars == <<current_nonce, nonce_gaps, issued_tx_ids, unseen>>
vars == <<queue, closed, task, current_nonce, nonce_gaps, issued_tx_ids, mempool, mined,
          drops, unseen>>

Nonces == 0..(MaxNonce - 1)

\* Only ids in flight can be handed out again, and signer and nonce tell them
\* apart: an id is removed from issued_tx_ids when its transaction is gone.
TxIds == [signer : Signers, nonce : Nonces]
TxId(s, n) == [signer |-> s, nonce |-> n]

NoGap == [pending |-> -1, old |-> FALSE]
IdleTask == [pc |-> "idle", signer |-> CHOOSE s \in Signers : TRUE, action |-> Fresh, nonce |-> 0]

Init ==
    /\ queue = <<>> /\ closed = FALSE
    /\ task = IdleTask
    /\ current_nonce = [s \in Signers |-> 0]
    /\ nonce_gaps = [s \in Signers |-> NoGap]
    /\ issued_tx_ids = {}
    /\ mempool = {}
    /\ mined = [s \in Signers |-> 0]
    /\ drops = [s \in Signers |-> 0]
    /\ unseen = {}
-----------------------------------------------------------------------------
(* The chain. *)

Occupied(s) == {x.id.nonce : x \in {y \in mempool : y.id.signer = s}}

\* query_transaction_count: the first nonce that is not in use.
Pending(s) ==
    CHOOSE n \in mined[s]..MaxNonce :
        n \notin Occupied(s) /\ \A m \in mined[s]..(n - 1) : m \in Occupied(s)

\* A transaction of s that cannot be mined, because an earlier nonce is missing.
Stuck(s) == \E n \in Occupied(s) : n > Pending(s)

Mine(s) ==
    /\ mined[s] \in Occupied(s)
    /\ mempool' = {x \in mempool : x.id # TxId(s, mined[s])}
    /\ issued_tx_ids' = issued_tx_ids \ {TxId(s, mined[s])}
    /\ mined' = [mined EXCEPT ![s] = @ + 1]
    /\ UNCHANGED <<queue, closed, task, current_nonce, nonce_gaps, unseen, drops>>

DropFromMempool(x) ==
    LET s == x.id.signer IN
    /\ drops[s] < MaxDrops
    /\ drops' = [drops EXCEPT ![s] = @ + 1]
    /\ mempool' = mempool \ {x}
    /\ issued_tx_ids' = issued_tx_ids \ {x.id}
    /\ UNCHANGED <<queue, closed, task, current_nonce, nonce_gaps, unseen, mined>>

\* The signer's key is used by another program too.
SendElsewhere(s) ==
    /\ SharedKeys
    /\ Pending(s) < MaxNonce
    /\ mempool' = mempool \cup {[id |-> TxId(s, Pending(s)), action |-> Fresh]}
    /\ UNCHANGED <<queue, closed, task, cacheVars, mined, drops>>
-----------------------------------------------------------------------------
(* Time. *)

\* The local nonce of a signer other than the node's own expires.
NonceExpires(s) ==
    /\ s # Own
    /\ current_nonce[s] # 0
    /\ current_nonce' = [current_nonce EXCEPT ![s] = 0]
    /\ UNCHANGED <<queue, closed, task, nonce_gaps, issued_tx_ids, unseen, chainVars>>

\* A gap has been there for nonce_gap_tolerance.
GapAges(s) ==
    /\ nonce_gaps[s] # NoGap
    /\ ~nonce_gaps[s].old
    /\ nonce_gaps' = [nonce_gaps EXCEPT ![s].old = TRUE]
    /\ UNCHANGED <<queue, closed, task, current_nonce, issued_tx_ids, unseen, chainVars>>

\* ISSUED_TX_ID_RETENTION has passed.
TxIdExpires(id) ==
    /\ MayForget
    /\ current_nonce[id.signer] < MaxNonce
    /\ issued_tx_ids' = issued_tx_ids \ {id}
    /\ unseen' = unseen \cup {id.signer}
    /\ UNCHANGED <<queue, closed, task, current_nonce, nonce_gaps, chainVars>>
-----------------------------------------------------------------------------
(* Callers. *)

EnqueueTransaction(s, a) ==
    /\ ~closed
    /\ Len(queue) < MaxQueue
    /\ queue' = Append(queue, [signer |-> s, action |-> a])
    /\ UNCHANGED <<closed, task, cacheVars, chainVars>>

\* The sequencer is dropped: what is queued is still sent.
DropSequencer ==
    /\ ~closed
    /\ closed' = TRUE
    /\ UNCHANGED <<queue, task, cacheVars, chainVars>>
-----------------------------------------------------------------------------
(* The task. *)

TakeRequest ==
    /\ task.pc = "idle"
    /\ queue # <<>>
    /\ task' = [IdleTask EXCEPT !.pc = "query", !.signer = Head(queue).signer,
                                !.action = Head(queue).action]
    /\ queue' = Tail(queue)
    /\ UNCHANGED <<closed, cacheVars, chainVars>>

\* Mutant: the local nonce is never lowered.
GapIgnored(s, pending) == FALSE
\* The local nonce stayed ahead of an unchanging count for the tolerance.
GapIsOld(s, pending) ==
    current_nonce[s] > pending /\ nonce_gaps[s].pending = pending /\ nonce_gaps[s].old

\* nonce_gaps after the count `pending` has been seen: a count that moves means
\* that transactions are mined, and the gap starts over.
GapSeen(s, pending) ==
    IF current_nonce[s] <= pending \/ GapIsOld(s, pending) THEN NoGap
    ELSE [pending |-> pending, old |-> FALSE]

\* sync_nonce: the nonce to use, which becomes the local nonce.
SyncNonce(s, pending) ==
    IF current_nonce[s] <= pending \/ GapIsOld(s, pending) THEN pending ELSE current_nonce[s]

\* Chain info and count are retrieved; the nonce is synchronised.
QueryTransactionCount ==
    LET s == task.signer
        nonce == SyncNonce(s, Pending(s))
    IN
    /\ task.pc = "query"
    /\ nonce_gaps' = [nonce_gaps EXCEPT ![s] = GapSeen(s, Pending(s))]
    /\ current_nonce' = [current_nonce EXCEPT ![s] = nonce]
    /\ task' = [task EXCEPT !.pc = "submit", !.nonce = nonce]
    /\ UNCHANGED <<queue, closed, issued_tx_ids, unseen, chainVars>>

\* Mutant: the answer of a deduplicated submission is taken for a success.
DuplicateConsumes(outcome, deduplicated) ==
    CASE outcome \in {"ok", "taken"} -> "yes"
      [] outcome \in {"unreached", "refused"} -> "no"
      [] OTHER -> "unknown"
\* Mutant: a refused transaction uses up its nonce.
RefusalConsumes(outcome, deduplicated) ==
    CASE outcome = "ok" -> IF deduplicated THEN "no" ELSE "yes"
      [] outcome = "unreached" -> "no"
      [] outcome \in {"taken", "refused"} -> "yes"
      [] OTHER -> "unknown"
\* Whether the nonce of the transaction is used up.
NonceConsumed(outcome, deduplicated) ==
    CASE outcome = "ok" -> IF deduplicated THEN "no" ELSE "yes"
      [] outcome \in {"unreached", "refused"} -> "no"
      [] outcome = "taken" -> "yes"
      [] OTHER -> "unknown"

\* What the task does with the outcome, after which it takes the next request.
Complete(outcome, deduplicated) ==
    LET consumed == NonceConsumed(outcome, deduplicated) IN
    /\ current_nonce' = [current_nonce EXCEPT ![task.signer] =
            CASE consumed = "yes" -> @ + 1
              [] consumed = "no" -> @
              [] consumed = "unknown" -> 0]
    /\ task' = IdleTask
    /\ UNCHANGED <<queue, closed, nonce_gaps, mined, drops>>

\* Chain info or count cannot be retrieved, or signing fails: the transaction
\* never reaches Blokli.
NotSubmitted ==
    /\ task.pc \in {"query", "submit"}
    /\ Complete("unreached", FALSE)
    /\ UNCHANGED <<issued_tx_ids, unseen, mempool>>

\* Blokli answers.  What happens between its answer and the task's reaction
\* could as well happen before the answer or after the reaction.
Id == TxId(task.signer, task.nonce)

\* The nonce is free: the transaction goes to the mempool.
Broadcast ==
    /\ task.nonce \in Nonces /\ task.nonce >= mined[task.signer]
    /\ task.nonce \notin Occupied(task.signer)
    /\ mempool' = mempool \cup {[id |-> Id, action |-> task.action]}

BroadcastOk ==
    /\ task.pc = "submit"
    /\ Broadcast
    /\ issued_tx_ids' = issued_tx_ids \cup {Id}
    /\ Complete("ok", Id \in issued_tx_ids)
    /\ UNCHANGED unseen

\* The answer is lost, or says nothing of the nonce.
AnswerLost ==
    /\ task.pc = "submit"
    /\ \/ Broadcast /\ unseen' = unseen \cup {task.signer}
       \/ UNCHANGED <<mempool, unseen>>
    /\ Complete("unknown", FALSE)
    /\ UNCHANGED issued_tx_ids

\* Blokli recognises a retry and returns the id of the transaction in flight.
Deduplicate ==
    /\ task.pc = "submit"
    /\ task.action # Fresh
    /\ \E x \in mempool :
        /\ x.id.signer = task.signer /\ x.action = task.action
        /\ issued_tx_ids' = issued_tx_ids \cup {x.id}
        /\ Complete("ok", x.id \in issued_tx_ids)
    /\ UNCHANGED <<mempool, unseen>>

\* NONCE_TOO_LOW, REPLACEMENT_UNDERPRICED.
NonceTaken ==
    /\ task.pc = "submit"
    /\ task.nonce < mined[task.signer] \/ task.nonce \in Occupied(task.signer)
    /\ Complete("taken", FALSE)
    /\ UNCHANGED <<issued_tx_ids, unseen, mempool>>

\* Refused before broadcast, FEE_TOO_LOW, INSUFFICIENT_FUNDS.
Refused ==
    /\ task.pc = "submit"
    /\ Complete("refused", FALSE)
    /\ UNCHANGED <<issued_tx_ids, unseen, mempool>>
-----------------------------------------------------------------------------
Submit == BroadcastOk \/ AnswerLost \/ Deduplicate \/ NonceTaken \/ Refused
ChainStep ==
    \/ \E s \in Signers : Mine(s) \/ SendElsewhere(s)
    \/ \E x \in mempool : DropFromMempool(x)
TimeStep ==
    \/ \E s \in Signers : NonceExpires(s) \/ GapAges(s)
    \/ \E id \in issued_tx_ids : TxIdExpires(id)
CallerStep == DropSequencer \/ \E s \in Signers, a \in Actions : EnqueueTransaction(s, a)
TaskStep == TakeRequest \/ QueryTransactionCount \/ NotSubmitted \/ Submit

Next == ChainStep \/ TimeStep \/ CallerStep \/ TaskStep

Spec == Init /\ [][Next]_vars

\* The runtime polls the task and time passes; callers keep sending new
\* transactions and Blokli neither fails nor refuses for ever.
FairSpec ==
    /\ Spec
    /\ WF_vars(TaskStep)
    /\ \A s \in Signers :
        /\ WF_vars(GapAges(s))
        /\ SF_vars(EnqueueTransaction(s, Fresh))
        /\ SF_vars(task.signer = s /\ QueryTransactionCount)
        /\ SF_vars(task.signer = s /\ BroadcastOk)
-----------------------------------------------------------------------------
(* Properties. *)

TaskType == [pc : {"idle", "query", "submit"}, signer : Signers, action : Actions, nonce : Nat]
GapType == [pending : Nat \cup {-1}, old : BOOLEAN]

\* Every variable has its type; no nonce is below zero and no transaction in
\* flight has a nonce the chain would not accept.
TypeOK ==
    /\ queue \in Seq([signer : Signers, action : Actions]) /\ closed \in BOOLEAN
    /\ task \in TaskType
    /\ current_nonce \in [Signers -> Nat]
    /\ nonce_gaps \in [Signers -> GapType]
    /\ issued_tx_ids \in SUBSET TxIds /\ unseen \in SUBSET Signers
    /\ mempool \in SUBSET [id : TxIds, action : Actions]
    /\ mined \in [Signers -> 0..MaxNonce]
    /\ drops \in [Signers -> 0..MaxDrops]

\* The mempool lost no transaction of s, and issued_tx_ids no id of s.
Undisturbed(s) == drops[s] = 0 /\ s \notin unseen

\* No nonce is skipped (sequencer.rs:112): unless a transaction or an id gets
\* lost, every transaction in flight can be mined, whatever Blokli answers or
\* deduplicates and whoever else uses the key.
NoNonceSkipped == \A s \in Signers : Undisturbed(s) => ~Stuck(s)

\* Transactions reach the chain in-order (sequencer.rs:28): under the same
\* condition a transaction gets a higher nonce than all that were sent before.
BroadcastInOrder ==
    [][\A x \in mempool' \ mempool, y \in mempool :
        x.id.signer = y.id.signer /\ Undisturbed(x.id.signer)' => x.id.nonce > y.id.nonce]_vars

\* A retry of an action in flight leaves no gap, because the id of the
\* transaction "has been seen before" (sequencer.rs:113-115).
RetriesLeaveNoGap == \A s \in Signers : drops[s] = 0 => ~Stuck(s)

\* A signer whose transactions are stuck behind a missing nonce is freed:
\* the gap would "otherwise block the signer for good" (sequencer.rs:229).
GapsAreFilled == \A s \in Signers : Stuck(s) ~> (~Stuck(s) \/ closed)
=============================================================================
