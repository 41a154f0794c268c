---------------------------- MODULE TicketManager ----------------------------
(***************************************************************************)
(* The redeemable tickets of one incoming channel: HoprTicketManager       *)
(* (manager.rs) over ValueCachedQueue (backend/mod.rs) and the redb queue  *)
(* (backend/redb.rs).                                                      *)
(*                                                                         *)
(* The packet pipeline inserts winning tickets, redeem streams take them   *)
(* one by one to the chain and wait for its answer, the operator neglects  *)
(* tickets, and the queue is synchronised with the chain.  The table with  *)
(* the tickets survives a restart, everything else does not.               *)
(*                                                                         *)
(* A ChannelTicketQueue (value cache, statistics and redeem_lock behind    *)
(* Arcs) is named by the generation in which it was put into the map: a    *)
(* stream may outlive the map entry it was started from.                   *)
(***************************************************************************)
EXTENDS Integers, FiniteSets, FiniteSetsExt

CONSTANTS
    Tickets,          \* winning tickets of the channel: [id, epoch, index, amount]
    Streams,          \* users of redeem_stream
    MinAmount,        \* min_amount given to redeem_stream
    UpTo,             \* values of up_to_index given to neglect_tickets
    Stakes,           \* bound: stakes the channel is funded with
    InOrder,          \* TRUE: tickets of an epoch are received in index order
    SyncConcurrently, \* FALSE: synced once, before the manager is used
    StoreMayFail,     \* TRUE: operations of the store can fail
    MaxEpoch,         \* bound: channel epochs
    MaxGen,           \* bound: ChannelTicketQueues created in a process life
    MaxRestarts       \* bound: process restarts

ASSUME TicketManagerAssumption ==
    /\ Tickets # {} /\ IsFiniteSet(Tickets)
    /\ \A t \in Tickets : /\ t.epoch \in 1..MaxEpoch
                          /\ t.index \in Nat /\ t.amount \in Nat
    /\ MinAmount \in Nat
    /\ UpTo \subseteq Nat /\ Stakes \subseteq Nat
    /\ InOrder \in BOOLEAN /\ SyncConcurrently \in BOOLEAN /\ StoreMayFail \in BOOLEAN
    /\ MaxEpoch \in Nat \ {0} /\ MaxGen \in Nat \ {0} /\ MaxRestarts \in Nat

VARIABLES
    chain,         \* the channel on chain
    table,         \* tickets in the channel's redb table
    exists,        \* the table exists
    current,       \* generation in the `channel_tickets` map; 0: no entry
    created,       \* number of ChannelTicketQueues created
    value_cache,   \* value_cache of each generation's ValueCachedQueue
    current_epoch, \* current_epoch of each; 0: None
    stats,         \* ChannelTicketStats of each
    redeem_lock,   \* redeem_lock of each
    stream,        \* the redeem streams
    neglector,     \* a running neglect_tickets
    inserter,      \* an insert_incoming_ticket that found no map entry
    syncer,        \* a running sync_from_incoming_channels
    synced,        \* a sync has completed in this life
    restarts,      \* number of restarts so far
    offered,       \* ghost: tickets given to insert_incoming_ticket
    inserted,      \* ghost: tickets whose insertion returned Ok
    settled,       \* ghost: tickets neglected or returned by a stream
    landed,        \* ghost: tickets redeemed on chain
    forsaken,      \* ghost: tickets refused, found too low or reached by a neglection
    received       \* ghost: value taken in by each generation

queueVars == <<table, exists>>
handleVars == <<current, created, value_cache, current_epoch, stats>>
ghostVars == <<offered, inserted, settled, landed, forsaken, received>>
vars == <<chain, table, exists, current, created, value_cache, current_epoch, stats,
          redeem_lock, stream, neglector, inserter, syncer, synced, restarts,
          offered, inserted, settled, landed, forsaken, received>>

Epochs == 1..MaxEpoch
Gens   == 1..MaxGen

\* HoprBalance arithmetic saturates at zero.
Minus(a, b) == IF a < b THEN 0 ELSE a - b
SumOf(q)    == MapThenSumSet(LAMBDA t : t.amount, q)

ValueOf(q)  == [e \in Epochs |-> SumOf({t \in q : t.epoch = e})]

AnyTicket   == CHOOSE t \in Tickets : TRUE
IdleStream  == [pc |-> "idle", gen |-> 1, ticket |-> AnyTicket, result |-> "TooLow"]
IdleNeglect == [pc |-> "idle", gen |-> 1, upTo |-> 0]
IdleInsert  == [pc |-> "idle", ticket |-> AnyTicket]
IdleSync    == [pc |-> "idle", cache |-> [e \in Epochs |-> 0], epoch |-> 0]
NoStats     == [winning |-> 0, redeemed |-> 0, neglected |-> 0, rejected |-> 0]
-----------------------------------------------------------------------------
(* The queue of one channel, ordered by epoch and index. *)

\* Mutant: the ticket with the highest index comes first.
BeforeReversed(t, u) ==
    t.epoch < u.epoch \/ (t.epoch = u.epoch /\ t.index > u.index)
Before(t, u) ==
    t.epoch < u.epoch \/ (t.epoch = u.epoch /\ t.index < u.index)

\* peek() returns t.
IsHead(t, q) == t \in q /\ \A u \in q \ {t} : Before(t, u)

\* insert() of redb replaces what is stored under the same key.
Push(q, t) ==
    {u \in q : ~(u.epoch = t.epoch /\ u.index = t.index)} \cup {t}

\* The tickets popped by a loop that stops at the first ticket not in s.
Prefix(q, s) == {t \in q : \A u \in q : (u = t \/ Before(u, t)) => u \in s}

\* Epoch of the next ticket, 0 when there is none.
HeadEpoch(q) ==
    IF \E t \in q : IsHead(t, q) THEN (CHOOSE t \in q : IsHead(t, q)).epoch ELSE 0

\* value_cache after the tickets of q have been popped.
Uncached(cache, q) == [e \in Epochs |-> Minus(cache[e], ValueOf(q)[e])]

\* pop() looks for the epoch of what is left after it has removed a ticket.  When
\* that fails its caller gets an error, not the ticket, and the epoch stays.
PopFails(g, popped) ==
    /\ table' = table \ popped
    /\ value_cache' = [value_cache EXCEPT ![g] = Uncached(@, popped)]
    /\ UNCHANGED <<current_epoch, stats>>

\* What cached_unrealized_value() returns for generation g.
CachedUnrealizedValue(g) ==
    IF current_epoch[g] = 0 THEN 0 ELSE value_cache[g][current_epoch[g]]
-----------------------------------------------------------------------------
\* A channel that was just funded.
Opened(e, n) == [status |-> "Open", epoch |-> e, ticket_index |-> 0, stake |-> n]

Init ==
    /\ \E n \in Stakes : chain = Opened(1, n)
    /\ table = {} /\ exists = FALSE
    /\ current = 0 /\ created = 0
    /\ value_cache = [g \in Gens |-> [e \in Epochs |-> 0]]
    /\ current_epoch = [g \in Gens |-> 0]
    /\ stats = [g \in Gens |-> NoStats]
    /\ redeem_lock = [g \in Gens |-> FALSE]
    /\ stream = [s \in Streams |-> IdleStream]
    /\ neglector = IdleNeglect
    /\ inserter = IdleInsert
    /\ syncer = IdleSync
    /\ synced = FALSE
    /\ restarts = 0
    /\ offered = {} /\ inserted = {} /\ settled = {} /\ landed = {} /\ forsaken = {}
    /\ received = [g \in Gens |-> 0]

\* The manager may be used: after start-up, unless syncs run concurrently.
InUse == synced \/ SyncConcurrently
\* The DashMap shard is not held by an insertion that waits for the store.
MapUnlocked == inserter.pc = "idle"
\* No neglect_tickets holds the upgradable lock of that generation's queue.
QueueUnlocked(g) == ~(neglector.pc = "run" /\ neglector.gen = g)
-----------------------------------------------------------------------------
(* What the manager and the factory answer to readers. *)

\* unrealized_value() from a minimum index on: the tickets of the head's epoch.
UnrealizedValueFrom(n) == SumOf({t \in table : t.epoch = HeadEpoch(table) /\ t.index >= n})

\* unredeemed_value of ticket_stats(): what is cached for the head's epoch.
UnredeemedValue == IF table = {} THEN 0 ELSE value_cache[current][HeadEpoch(table)]

\* remaining_incoming_channel_stake() of a channel with that balance; the
\* whole balance when no manager or no queue is there.
RemainingStake(balance) ==
    IF current = 0 THEN balance ELSE Minus(balance, CachedUnrealizedValue(current))
-----------------------------------------------------------------------------
(* The blockchain. *)

CloseChannel ==
    /\ chain.status = "Open"
    /\ chain' = [chain EXCEPT !.status = "Closed", !.stake = 0]
    /\ UNCHANGED <<queueVars, handleVars, redeem_lock, stream, neglector, inserter, syncer,
                   synced, restarts, ghostVars>>

ReopenChannel ==
    /\ chain.status = "Closed"
    /\ chain.epoch < MaxEpoch
    /\ \E n \in Stakes : chain' = Opened(chain.epoch + 1, n)
    /\ UNCHANGED <<queueVars, handleVars, redeem_lock, stream, neglector, inserter, syncer,
                   synced, restarts, ghostVars>>

FundChannel ==
    /\ chain.status = "Open"
    /\ \E n \in Stakes : n > chain.stake /\ chain' = [chain EXCEPT !.stake = n]
    /\ UNCHANGED <<queueVars, handleVars, redeem_lock, stream, neglector, inserter, syncer,
                   synced, restarts, ghostVars>>
-----------------------------------------------------------------------------
(* sync_from_incoming_channels. *)

\* Mutant: the index of the channel is ignored.
UnredeemableByEpoch(t) == t.epoch < chain.epoch
Unredeemable(t) == t.epoch < chain.epoch \/ t.index < chain.ticket_index

\* Under the store lock: delete the queue of a closed channel, or open the
\* queue of an open one, neglect what cannot be redeemed and load the values.
SyncQueue ==
    /\ syncer.pc = "idle"
    /\ synced => SyncConcurrently
    /\ \/ /\ chain.status = "Closed" /\ exists
          /\ table' = {} /\ exists' = FALSE
          /\ settled' = settled \cup table
          /\ syncer' = [syncer EXCEPT !.pc = "remove"]
          /\ UNCHANGED synced
       \/ /\ chain.status = "Closed" /\ ~exists
          /\ synced' = TRUE
          /\ UNCHANGED <<queueVars, settled, syncer>>
       \/ /\ chain.status = "Open"
          /\ LET popped == Prefix(table, {t \in table : Unredeemable(t)}) IN
             /\ table' = table \ popped
             /\ settled' = settled \cup popped
          /\ exists' = TRUE
          /\ syncer' = [pc |-> "insert", cache |-> ValueOf(table'), epoch |-> HeadEpoch(table')]
          /\ UNCHANGED synced
    /\ UNCHANGED <<chain, handleVars, redeem_lock, stream, neglector, inserter, restarts,
                   offered, inserted, landed, forsaken, received>>

\* A fresh ChannelTicketQueue with the loaded values is put into the map.
NewQueue(cache, epoch, q) ==
    /\ created < MaxGen
    /\ created' = created + 1
    /\ current' = created + 1
    /\ value_cache' = [value_cache EXCEPT ![created + 1] = cache]
    /\ current_epoch' = [current_epoch EXCEPT ![created + 1] = epoch]
    /\ stats' = [stats EXCEPT ![created + 1] = [NoStats EXCEPT !.winning = Cardinality(q)]]
    /\ received' = [received EXCEPT ![created + 1] = SumOf(q)]

SyncMap ==
    /\ syncer.pc # "idle"
    /\ MapUnlocked
    /\ \/ syncer.pc = "insert" /\ NewQueue(syncer.cache, syncer.epoch, table)
       \/ /\ syncer.pc = "remove"
          /\ current' = 0
          /\ UNCHANGED <<created, value_cache, current_epoch, stats, received>>
    /\ syncer' = IdleSync
    /\ synced' = TRUE
    /\ UNCHANGED <<chain, queueVars, redeem_lock, stream, neglector, inserter, restarts,
                   offered, inserted, settled, landed, forsaken>>

\* A store error ends the sync; stale tickets already popped are not returned.
SyncFails ==
    /\ StoreMayFail
    /\ syncer.pc = "idle"
    /\ synced => SyncConcurrently
    /\ chain.status = "Open"
    /\ \E popped \in SUBSET Prefix(table, {t \in table : Unredeemable(t)}) :
        /\ popped = Prefix(table, popped)
        /\ table' = table \ popped
    /\ exists' = TRUE
    /\ UNCHANGED <<chain, handleVars, redeem_lock, stream, neglector, inserter, syncer, synced,
                   restarts, ghostVars>>

\* The process stops, whatever it was doing, and is started again.
Restart ==
    /\ restarts < MaxRestarts
    /\ restarts' = restarts + 1
    /\ current' = 0 /\ created' = 0
    /\ value_cache' = [g \in Gens |-> [e \in Epochs |-> 0]]
    /\ current_epoch' = [g \in Gens |-> 0]
    /\ stats' = [g \in Gens |-> NoStats]
    /\ redeem_lock' = [g \in Gens |-> FALSE]
    /\ stream' = [s \in Streams |-> IdleStream]
    /\ neglector' = IdleNeglect
    /\ inserter' = IdleInsert
    /\ syncer' = IdleSync
    /\ synced' = FALSE
    /\ received' = [g \in Gens |-> 0]
    /\ UNCHANGED <<chain, queueVars, offered, inserted, settled, landed, forsaken>>
-----------------------------------------------------------------------------
(* insert_incoming_ticket. *)

\* A ticket not seen before, of an epoch the channel has reached.
Receivable(t) ==
    /\ t \notin offered
    /\ t.epoch <= chain.epoch
    /\ InOrder => \A u \in offered : u.epoch = t.epoch => u.index < t.index

InsertUnchanged ==
    UNCHANGED <<chain, exists, redeem_lock, stream, neglector, syncer, synced, restarts,
              landed, forsaken>>

\* The queue holds tickets of a newer epoch: t is neglected at once.
InsertOutdated(t) ==
    LET g == current IN
    /\ InUse /\ MapUnlocked /\ Receivable(t)
    /\ current # 0 /\ exists /\ QueueUnlocked(g)
    /\ \E h \in table : IsHead(h, table) /\ h.epoch > t.epoch
    /\ stats' = [stats EXCEPT ![g].winning = @ + 1, ![g].neglected = @ + t.amount]
    /\ received' = [received EXCEPT ![g] = @ + t.amount]
    /\ offered' = offered \cup {t}
    /\ inserted' = inserted \cup {t}
    /\ settled' = settled \cup {t}
    /\ UNCHANGED <<table, current, created, value_cache, current_epoch, inserter>>
    /\ InsertUnchanged

\* Mutant: the tickets of the previous epoch stay in the queue.
NothingOutdated(t) == {}
\* What insert_incoming_ticket drains: everything, when the head is older.
Outdated(t) ==
    IF \E h \in table : IsHead(h, table) /\ h.epoch < t.epoch THEN table ELSE {}

\* Mutant: the value of drained tickets is not taken out of the cache.
NotUncached(cache, drained, t) == [cache EXCEPT ![t.epoch] = @ + t.amount]
\* value_cache after draining the queue and pushing t.
CacheOfInsert(cache, drained, t) ==
    [Uncached(cache, drained) EXCEPT ![t.epoch] = @ + t.amount]

\* Drain tickets of older epochs, then push t.  When the store fails to push,
\* value and epoch of t are already in the cache.
InsertIncomingTicket(t) ==
    LET g == current
        drained == Outdated(t)
        epoch == IF drained = {} THEN current_epoch[g] ELSE 0
    IN
    /\ InUse /\ MapUnlocked /\ Receivable(t)
    /\ current # 0 /\ exists /\ QueueUnlocked(g)
    /\ ~\E h \in table : IsHead(h, table) /\ h.epoch > t.epoch
    /\ value_cache' = [value_cache EXCEPT ![g] = CacheOfInsert(@, drained, t)]
    /\ current_epoch' = [current_epoch EXCEPT ![g] = IF epoch < t.epoch THEN t.epoch ELSE epoch]
    /\ settled' = settled \cup drained
    /\ offered' = offered \cup {t}
    /\ \/ /\ table' = Push(table \ drained, t)
          /\ inserted' = inserted \cup {t}
          /\ received' = [received EXCEPT ![g] = @ + t.amount]
          /\ stats' = [stats EXCEPT ![g].winning = @ + 1, ![g].neglected = @ + SumOf(drained)]
       \/ /\ StoreMayFail
          /\ table' = table \ drained
          /\ stats' = [stats EXCEPT ![g].neglected = @ + SumOf(drained)]
          /\ UNCHANGED <<inserted, received>>
    /\ UNCHANGED <<current, created, inserter>>
    /\ InsertUnchanged

\* current_epoch after pops in a row that a store error ended: the last of them
\* may have failed to look for it.
EpochsAfter(popped, before, head) ==
    IF popped = {} THEN {before}
    ELSE {head} \cup IF \E t \in popped : popped = {t} THEN {before}
                     ELSE {t.epoch : t \in popped}

\* drain() fails after some pops: they are neither accounted nor returned.
DrainFails(t) ==
    LET g == current IN
    /\ StoreMayFail
    /\ InUse /\ MapUnlocked /\ Receivable(t)
    /\ current # 0 /\ exists /\ QueueUnlocked(g)
    /\ \E popped \in SUBSET Outdated(t) :
        /\ popped = Prefix(table, popped)
        /\ table' = table \ popped
        /\ value_cache' = [value_cache EXCEPT ![g] = Uncached(@, popped)]
        /\ \E e \in EpochsAfter(popped, current_epoch[g], HeadEpoch(table')) :
            current_epoch' = [current_epoch EXCEPT ![g] = e]
    /\ offered' = offered \cup {t}
    /\ UNCHANGED <<current, created, stats, inserter, inserted, settled, received>>
    /\ InsertUnchanged

\* The map has no entry: its shard is locked until a queue has been created.
InsertVacant(t) ==
    /\ InUse /\ MapUnlocked /\ Receivable(t)
    /\ current = 0
    /\ inserter' = [pc |-> "vacant", ticket |-> t]
    /\ offered' = offered \cup {t}
    /\ UNCHANGED <<table, handleVars, inserted, settled, received>>
    /\ InsertUnchanged

\* Under the store lock: open the queue, which must be empty, push the ticket.
OpenQueue ==
    LET t == inserter.ticket IN
    /\ inserter.pc = "vacant"
    /\ syncer.pc = "idle"
    /\ exists' = TRUE
    /\ inserter' = IdleInsert
    /\ \/ /\ table = {}
          /\ table' = {t}
          /\ NewQueue(ValueOf({t}), t.epoch, {t})
          /\ inserted' = inserted \cup {t}
       \/ /\ table # {} \/ StoreMayFail
          /\ UNCHANGED <<table, handleVars, received, inserted>>
    /\ UNCHANGED <<chain, redeem_lock, stream, neglector, syncer, synced, restarts, offered,
                   settled, landed, forsaken>>
-----------------------------------------------------------------------------
(* redeem_stream. *)

StreamUnchanged == UNCHANGED <<exists, current, created, neglector, inserter, syncer, synced,
                               restarts, offered, inserted, received>>

\* Mutant: the lock is read but not taken.
LockNotTaken(g) == ~redeem_lock[g] /\ UNCHANGED redeem_lock
\* compare_exchange on the redeem_lock.
TakeRedeemLock(g) == ~redeem_lock[g] /\ redeem_lock' = [redeem_lock EXCEPT ![g] = TRUE]

RedeemStream(s) ==
    /\ InUse /\ MapUnlocked
    /\ stream[s].pc = "idle"
    /\ current # 0
    /\ TakeRedeemLock(current)
    /\ stream' = [stream EXCEPT ![s] = [IdleStream EXCEPT !.pc = "next", !.gen = current]]
    /\ UNCHANGED <<chain, table, value_cache, current_epoch, stats, settled, landed, forsaken>>
    /\ StreamUnchanged

\* The RedeemState is dropped: at the end, on an error or with the stream.
DropRedeemState(s) ==
    /\ redeem_lock' = [redeem_lock EXCEPT ![stream[s].gen] = FALSE]
    /\ stream' = [stream EXCEPT ![s] = IdleStream]

\* peek() under the read lock, which is released before the await.
Peek(s) ==
    /\ stream[s].pc = "next"
    /\ \/ \E t \in table :
            /\ IsHead(t, table)
            /\ stream' = [stream EXCEPT
                    ![s].ticket = t,
                    ![s].pc = IF t.amount >= MinAmount THEN "await" ELSE "settle"]
            /\ forsaken' = IF t.amount >= MinAmount THEN forsaken ELSE forsaken \cup {t}
            /\ UNCHANGED redeem_lock
       \/ (table = {} \/ StoreMayFail) /\ DropRedeemState(s) /\ UNCHANGED forsaken
    /\ UNCHANGED <<chain, table, value_cache, current_epoch, stats, settled, landed>>
    /\ StreamUnchanged

\* The channel is over for the ticket, or cannot pay for it.
Invalid(t) == chain.status = "Closed" \/ chain.epoch # t.epoch \/ t.index < chain.ticket_index
Unfunded(t) == chain.stake < t.amount
Redeemable(t) == ~Invalid(t) /\ ~Unfunded(t)

\* Answers that count as rejected: by the checks before the transaction, or, as
\* they read what is indexed, by the chain at any time.
Rejections == {"Invalid", "Unfunded", "Refused"}
RejectionsOf(t) ==
    {"Refused"} \cup IF Invalid(t) THEN {"Invalid"} ELSE IF Unfunded(t) THEN {"Unfunded"} ELSE {}

\* The transaction lands, is refused, or its fate is unknown to the caller.
RedeemTicket(s) ==
    LET t == stream[s].ticket IN
    /\ stream[s].pc = "await"
    /\ \/ /\ Redeemable(t)
          /\ chain' = [chain EXCEPT !.ticket_index = t.index + 1, !.stake = Minus(@, t.amount)]
          /\ landed' = landed \cup {t}
          /\ \/ /\ stream' = [stream EXCEPT ![s].pc = "settle", ![s].result = "Redeemed"]
                /\ UNCHANGED redeem_lock
             \/ DropRedeemState(s)
          /\ UNCHANGED forsaken
       \/ /\ \E r \in RejectionsOf(t) :
                stream' = [stream EXCEPT ![s].pc = "settle", ![s].result = r]
          /\ forsaken' = forsaken \cup {t}
          /\ UNCHANGED <<chain, landed, redeem_lock>>
       \/ /\ DropRedeemState(s)
          /\ UNCHANGED <<chain, landed, forsaken>>
    /\ UNCHANGED <<table, value_cache, current_epoch, stats, settled>>
    /\ StreamUnchanged

\* Mutant: whatever is next is popped, without comparing it.
PoppedUnchecked(t) == {h \in table : IsHead(h, table)}
\* Mutant: an answered ticket stays in the queue.
PoppedNever(t) == {}
\* The next ticket is popped if it is the one that was answered.
Popped(t) == IF IsHead(t, table) THEN {t} ELSE {}

\* Mutant: the neglected value is not corrected after a lost race.
Uncorrected(st, t, result, popped) ==
    [st EXCEPT !.redeemed  = IF result = "Redeemed" THEN @ + t.amount ELSE @,
               !.rejected  = IF result \in Rejections THEN @ + t.amount ELSE @,
               !.neglected = IF result = "TooLow" THEN @ + t.amount ELSE @]
\* ChannelTicketStats after the answer for t.
Accounted(st, t, result, popped) ==
    LET neglected == IF result = "TooLow" THEN st.neglected + t.amount ELSE st.neglected IN
    [st EXCEPT !.redeemed  = IF result = "Redeemed" THEN @ + t.amount ELSE @,
               !.rejected  = IF result \in Rejections THEN @ + t.amount ELSE @,
               !.neglected = IF popped = {} THEN Minus(neglected, t.amount) ELSE neglected]

\* Under the write lock: pop the answered ticket and account for it.  A store
\* error ends the stream, before the pop or after it.
CompleteRedemption(s) ==
    LET t == stream[s].ticket
        g == stream[s].gen
        popped == Popped(t)
    IN
    /\ stream[s].pc = "settle"
    /\ QueueUnlocked(g)
    /\ \/ /\ exists
          /\ table' = table \ popped
          /\ value_cache' = [value_cache EXCEPT ![g] = Uncached(@, popped)]
          /\ current_epoch' = [current_epoch EXCEPT ![g] =
                                  IF popped = {} THEN @ ELSE HeadEpoch(table')]
          /\ stats' = [stats EXCEPT ![g] = Accounted(@, t, stream[s].result, popped)]
          /\ stream' = [stream EXCEPT ![s] = [IdleStream EXCEPT !.pc = "next", !.gen = g]]
          /\ settled' = settled \cup {t}
          /\ UNCHANGED redeem_lock
       \/ /\ StoreMayFail /\ exists /\ popped # {}
          /\ PopFails(g, popped)
          /\ DropRedeemState(s)
          /\ UNCHANGED settled
       \/ /\ ~exists \/ StoreMayFail
          /\ DropRedeemState(s)
          /\ UNCHANGED <<table, value_cache, current_epoch, stats, settled>>
    /\ UNCHANGED <<chain, landed, forsaken>>
    /\ StreamUnchanged

\* The consumer drops the stream between two polls.
DropStream(s) ==
    /\ stream[s].pc # "idle"
    /\ DropRedeemState(s)
    /\ UNCHANGED <<chain, table, value_cache, current_epoch, stats, settled, landed, forsaken>>
    /\ StreamUnchanged
-----------------------------------------------------------------------------
(* neglect_tickets. *)

NeglectUnchanged == UNCHANGED <<chain, exists, current, created, redeem_lock, stream, inserter,
                                syncer, synced, restarts, offered, inserted, landed, received>>

\* The upgradable lock is taken and held to the end.
NeglectTickets(n) ==
    /\ InUse /\ MapUnlocked
    /\ neglector.pc = "idle"
    /\ current # 0
    /\ neglector' = [pc |-> "run", gen |-> current, upTo |-> n]
    /\ UNCHANGED <<table, value_cache, current_epoch, stats, settled, forsaken>>
    /\ NeglectUnchanged

NeglectNext ==
    LET g == neglector.gen IN
    /\ neglector.pc = "run"
    /\ \E t \in table :
        /\ IsHead(t, table)
        /\ t.index <= neglector.upTo
        /\ table' = table \ {t}
        /\ value_cache' = [value_cache EXCEPT ![g] = Uncached(@, {t})]
        /\ current_epoch' = [current_epoch EXCEPT ![g] = HeadEpoch(table')]
        /\ stats' = [stats EXCEPT ![g].neglected = @ + t.amount]
        /\ settled' = settled \cup {t}
        /\ forsaken' = forsaken \cup {t}
    /\ UNCHANGED neglector
    /\ NeglectUnchanged

\* The ticket is popped and the call fails: it is neither counted nor returned.
NeglectFails ==
    /\ StoreMayFail
    /\ neglector.pc = "run"
    /\ \E t \in table :
        /\ IsHead(t, table)
        /\ t.index <= neglector.upTo
        /\ PopFails(neglector.gen, {t})
        /\ forsaken' = forsaken \cup {t}
    /\ neglector' = IdleNeglect
    /\ UNCHANGED settled
    /\ NeglectUnchanged

NeglectEnd ==
    /\ neglector.pc = "run"
    /\ StoreMayFail \/ ~\E t \in table : IsHead(t, table) /\ t.index <= neglector.upTo
    /\ neglector' = IdleNeglect
    /\ UNCHANGED <<table, value_cache, current_epoch, stats, settled, forsaken>>
    /\ NeglectUnchanged
-----------------------------------------------------------------------------
ChainStep == CloseChannel \/ ReopenChannel \/ FundChannel
SyncStep == SyncQueue \/ SyncMap \/ SyncFails
InsertStep ==
    \/ \E t \in Tickets : \/ InsertOutdated(t) \/ InsertIncomingTicket(t)
                          \/ DrainFails(t) \/ InsertVacant(t)
    \/ OpenQueue
StreamStep(s) == Peek(s) \/ RedeemTicket(s) \/ CompleteRedemption(s)
NeglectStep == NeglectNext \/ NeglectFails \/ NeglectEnd

Next ==
    \/ ChainStep \/ SyncStep \/ Restart \/ InsertStep
    \/ \E s \in Streams : RedeemStream(s) \/ StreamStep(s) \/ DropStream(s)
    \/ \E n \in UpTo : NeglectTickets(n)
    \/ NeglectStep

Spec == Init /\ [][Next]_vars

\* A consumer keeps polling its stream, the chain answers, the queue's lock
\* does not starve a writer, and a call of neglect_tickets runs to its end.
FairSpec ==
    /\ Spec
    /\ \A s \in Streams : WF_vars(StreamStep(s)) /\ SF_vars(CompleteRedemption(s))
    /\ WF_vars(NeglectStep)
-----------------------------------------------------------------------------
(* Properties. *)

StreamType == [pc : {"idle", "next", "await", "settle"}, gen : Gens, ticket : Tickets,
               result : {"Redeemed", "TooLow"} \cup Rejections]
ChainType == [status : {"Open", "Closed"}, epoch : Epochs, ticket_index : Nat, stake : Nat]
NeglectType == [pc : {"idle", "run"}, gen : Gens, upTo : Nat]
InsertType == [pc : {"idle", "vacant"}, ticket : Tickets]
SyncType == [pc : {"idle", "insert", "remove"}, cache : [Epochs -> Nat],
             epoch : {0} \cup Epochs]
StatsType == [winning : Nat, redeemed : Nat, neglected : Nat, rejected : Nat]

\* Every variable has its type; values and statistics never go below zero.
TypeOK ==
    /\ chain \in ChainType
    /\ table \in SUBSET Tickets /\ exists \in BOOLEAN
    /\ current \in {0} \cup Gens /\ created \in {0} \cup Gens
    /\ value_cache \in [Gens -> [Epochs -> Nat]]
    /\ current_epoch \in [Gens -> {0} \cup Epochs]
    /\ stats \in [Gens -> StatsType]
    /\ redeem_lock \in [Gens -> BOOLEAN]
    /\ stream \in [Streams -> StreamType]
    /\ neglector \in NeglectType /\ inserter \in InsertType /\ syncer \in SyncType
    /\ synced \in BOOLEAN /\ restarts \in Nat
    /\ offered \in SUBSET Tickets /\ inserted \in SUBSET Tickets
    /\ settled \in SUBSET Tickets /\ landed \in SUBSET Tickets
    /\ forsaken \in SUBSET Tickets
    /\ received \in [Gens -> Nat]

\* All queued tickets share one epoch (backend/mod.rs:30), whatever the order
\* in which tickets of several epochs arrive, are redeemed or neglected.
SingleEpoch == \A t, u \in table : t.epoch = u.epoch

\* unrealized_value, with and without a minimum index, ticket_stats and the
\* remaining stake all report the tickets in the queue, however they got there;
\* so the stake is never reported without what queued tickets will take of it.
UnrealizedValueExact == current # 0 =>
    /\ CachedUnrealizedValue(current) = SumOf(table)
    /\ UnredeemedValue = SumOf(table)
    /\ \A n \in {t.index : t \in Tickets} :
        UnrealizedValueFrom(n) = SumOf({t \in table : t.index >= n})
    /\ LET stake == SumOf(Tickets) IN RemainingStake(stake) + SumOf(table) = stake

\* The chain has moved past the ticket: it can never be redeemed any more.
Spent(t) == t.epoch < chain.epoch \/ (t.epoch = chain.epoch /\ t.index < chain.ticket_index)

\* A ticket whose insertion succeeded is in the queue until it was neglected or
\* returned by a redeem stream.  A store error can lose one (a pop that removes it
\* and then fails), but none that could still be redeemed, unless the chain or the
\* connector refused it, a stream found it too low or a neglection had reached it.
NoTicketLost ==
    \A t \in inserted : t \in table \cup settled
                            \/ (StoreMayFail /\ (Spent(t) \/ t \in forsaken))

\* Value received = value queued + redeemed + neglected + rejected, also when
\* tickets are neglected or drained while one of them is being redeemed.
ValueAccounted ==
    current # 0 => LET st == stats[current] IN
        received[current] = SumOf(table) + st.redeemed + st.neglected + st.rejected

\* At most one redeem stream of the channel exists (manager.rs:251).
OneStream ==
    \A r, s \in Streams : stream[r].pc # "idle" /\ stream[s].pc # "idle" => r = s

\* A ticket that was answered is the next one or was removed by neglection
\* (manager.rs:340), so that correcting the neglected value is right.
AnsweredIsHeadOrGone ==
    \A s \in Streams :
        stream[s].pc = "settle" /\ stream[s].ticket \in table => IsHead(stream[s].ticket, table)

\* A ticket is found invalid for its index or its epoch only if it was redeemed
\* before or the channel of its epoch is over: neither a redemption in order nor
\* one refused for its stake or its transaction invalidates a queued ticket.
InvalidOnlyIfSpent ==
    \A s \in Streams : stream[s].pc = "settle" /\ stream[s].result = "Invalid" =>
        LET t == stream[s].ticket IN
        t \in landed \/ t.epoch < chain.epoch \/ chain.status = "Closed"

\* Tickets leave the queue in their natural order (manager.rs:42): what stays
\* comes after what leaves, unless a ticket took its place.
LeaveInOrder ==
    [][\A t \in table \ table' : \A u \in table \cap table' :
            Before(t, u) \/ \E v \in table' \ table : v.epoch = t.epoch /\ v.index = t.index]_vars

\* A sync leaves only tickets the chain would still redeem.
SyncLeavesRedeemable ==
    [][syncer.pc = "idle" /\ syncer'.pc = "insert" =>
        \A t \in table' : t.epoch = chain.epoch /\ t.index >= chain.ticket_index]_vars

\* The manager keeps a ledger of the tickets: over restarts, and whatever is
\* neglected, drained or synchronised while a stream waits for the chain, each is
\* returned in order once it was received, and the chain takes each at most once
\* and never one after which a ticket in the queue would be refused.
Ledger == INSTANCE TicketLedger WITH held <- table, returned <- settled, redeemed <- landed
ImplementsLedger == Ledger!Spec

\* An insertion that holds the map entry and waits for the store never meets
\* a sync that holds the store and waits for the map entry.
NoCircularWait == ~(inserter.pc = "vacant" /\ syncer.pc # "idle")

\* Every redeem stream comes to an end, once its consumer keeps polling it.
StreamsTerminate ==
    \A s \in Streams : stream[s].pc # "idle" ~> stream[s].pc = "idle"
=============================================================================
