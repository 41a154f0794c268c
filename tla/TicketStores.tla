----------------------------- MODULE TicketStores -----------------------------
(***************************************************************************)
(* The two stores behind the ticket manager and the ticket factory: the    *)
(* redb database (backend/redb.rs) and the in-memory one                   *)
(* (backend/memory.rs), both behind the traits of traits.rs.               *)
(*                                                                         *)
(* Every call is made on both stores.  `answer` holds what each said to    *)
(* the last writing call; the reading calls are operators, compared in     *)
(* every state.  Calls that the stores answer differently by construction  *)
(* are recorded in `diverged`, after which only redb is judged.            *)
(***************************************************************************)
EXTENDS Integers, FiniteSets, FiniteSetsExt

CONSTANTS
    StoreChannels, \* channels with a ticket queue
    StoreTickets,  \* tickets pushed: [id, epoch, index, amount]
    IndexSpan,     \* number of ticket indices of an epoch (2^64 in make_index)
    StoredValues,  \* outgoing indices saved
    NoTable,       \* the table or the outgoing index is not there
    Corrupt,       \* bytes of a row that postcard cannot read
    MaxCalls,      \* bound: calls that write
    MaxHeaps       \* bound: heaps the memory store allocates

ASSUME TicketStoresAssumption ==
    /\ IsFiniteSet(StoreTickets) /\ IndexSpan \in Nat
    /\ \A t \in StoreTickets : t.index \in 0..(IndexSpan - 1) /\ t.epoch \in Nat /\ t.amount \in Nat
    /\ NoTable \notin StoredValues /\ Corrupt \notin StoreTickets
    /\ MaxCalls \in Nat /\ MaxHeaps \in Nat

VARIABLES
    tables,      \* redb: table "ctq_<channel>" of each channel, a set of rows
    out_table,   \* redb: OUT_IDX_TABLE, of one epoch
    open,        \* redb: the RedbStore, and so the Database, is alive
    heaps,       \* memory: how often each ticket is in each BinaryHeap
    allocated,   \* memory: number of heaps so far
    mtickets,    \* memory: `tickets`, the heap of each channel; 0: none
    out_indices, \* memory: `out_indices`
    handle,      \* the heap of the caller's queue of each channel; 0: not opened
    calls,       \* number of calls so far
    answer,      \* answers of the two stores to the last call
    diverged,    \* ghost: why the stores may answer differently from here on
    kept         \* ghost: <<channel, ticket>> redb took in and has to keep

memoryVars == <<heaps, allocated, mtickets, out_indices>>
storeVars  == <<tables, out_table, open, heaps, allocated, mtickets, out_indices, handle,
                calls, answer, diverged, kept>>

Heaps == 1..MaxHeaps
StoreEpochs == {t.epoch : t \in StoreTickets}
EmptyHeap == [t \in StoreTickets |-> 0]

\* An answer: the tickets handed out, or an error.
Ok(tickets) == [is |-> "ok", tickets |-> tickets]
Err(error) == [is |-> error, tickets |-> <<>>]
Both(a) == [redb |-> a, memory |-> a]
-----------------------------------------------------------------------------
(* The redb store. *)

\* Mutant: the key is the index alone.
IndexAlone(t) == t.index
MakeIndex(t) == t.epoch * IndexSpan + t.index

Row(t) == [key |-> MakeIndex(t), value |-> t]
AllRows == UNION {{Row(t), [Row(t) EXCEPT !.value = Corrupt]} : t \in StoreTickets}

\* A table that is not there is none of the tables that may be.
ASSUME TablesAssumption == \A rows \in SUBSET AllRows : rows # NoTable

Rows(ch) == IF tables[ch] = NoTable THEN {} ELSE tables[ch]
FirstRow(rows) == CHOOSE r \in rows : \A s \in rows : r.key <= s.key
Readable(rows) == {r \in rows : r.value # Corrupt}

\* A reading call opens the table, which must be there, in a live database.
CanRead(ch) == open /\ tables[ch] # NoTable

RedbLen(ch) == Cardinality(Rows(ch))
RedbIsEmpty(ch) == Rows(ch) = {}
\* The answer for the first of the rows.
First(rows) ==
    IF rows = {} THEN Ok(<<>>)
    ELSE IF FirstRow(rows).value = Corrupt THEN Err("unreadable")
    ELSE Ok(<<FirstRow(rows).value>>)
RedbPeek(ch) == First(Rows(ch))
RedbIter(ch) == {r.value : r \in Readable(Rows(ch))}

\* insert() replaces the row with the same key.
RedbPush(ch, t) == {r \in Rows(ch) : r.key # MakeIndex(t)} \cup {Row(t)}

\* Mutant: rows drained before an unreadable one are gone although it fails.
DrainedSoFar(ch) ==
    IF \A r \in Rows(ch) : r.value # Corrupt THEN NoTable
    ELSE {r \in Rows(ch) : \E s \in Rows(ch) \ Readable(Rows(ch)) : s.key <= r.key}
\* What delete_queue leaves: nothing, or everything when a row is unreadable,
\* because the transaction is not committed.
Undeleted(ch) == IF Readable(Rows(ch)) = Rows(ch) THEN NoTable ELSE tables[ch]

InKeyOrder(rows) == [i \in 1..Cardinality(rows) |->
    (CHOOSE r \in rows : Cardinality({s \in rows : s.key < r.key}) = i - 1).value]
-----------------------------------------------------------------------------
(* The memory store. *)

\* The natural order of tickets, by channel epoch and index.
Natural(t, u) == t.epoch < u.epoch \/ (t.epoch = u.epoch /\ t.index <= u.index)

InHeap(h) == {t \in StoreTickets : heaps[h][t] > 0}
\* Tickets the heap may hand out next: of equal ones any.
Tops(h) == {t \in InHeap(h) : \A u \in InHeap(h) : Natural(t, u)}

MemoryLen(ch) == MapThenSumSet(LAMBDA t : heaps[handle[ch]][t], StoreTickets)
MemoryIsEmpty(ch) == InHeap(handle[ch]) = {}
MemoryPeek(ch) ==
    Ok(IF Tops(handle[ch]) = {} THEN <<>> ELSE <<CHOOSE t \in Tops(handle[ch]) : TRUE>>)
MemoryIter(ch) == InHeap(handle[ch])

\* drain(): pop until the heap is empty; of equal tickets any comes first.
Drains(h) == {s \in [1..Cardinality(InHeap(h)) -> InHeap(h)] :
                \A i, j \in DOMAIN s : i < j => s[i] # s[j] /\ Natural(s[i], s[j])}
-----------------------------------------------------------------------------
(* What both share. *)

\* default_total_value: unreadable tickets are skipped.
TotalValue(tickets, epoch, minIndex) ==
    MapThenSumSet(LAMBDA t : t.amount, {t \in tickets : t.epoch = epoch /\ t.index >= minIndex})

\* The handle names the queue the store has for the channel.
Live(ch) == handle[ch] # 0 /\ handle[ch] = mtickets[ch]
Twin(ch, t) == \E u \in InHeap(handle[ch]) : u.epoch = t.epoch /\ u.index = t.index

StoresInit ==
    /\ tables = [ch \in StoreChannels |-> NoTable]
    /\ out_table = [ch \in StoreChannels |-> NoTable]
    /\ open = TRUE
    /\ heaps = [h \in Heaps |-> EmptyHeap] /\ allocated = 0
    /\ mtickets = [ch \in StoreChannels |-> 0]
    /\ out_indices = [ch \in StoreChannels |-> NoTable]
    /\ handle = [ch \in StoreChannels |-> 0]
    /\ calls = 0
    /\ answer = Both(Ok(<<>>))
    /\ diverged = {} /\ kept = {}

Call == calls < MaxCalls /\ calls' = calls + 1
-----------------------------------------------------------------------------
(* Calls on the store, made by its owner. *)

OpenOrCreateQueue(ch) ==
    LET h == IF mtickets[ch] = 0 THEN allocated + 1 ELSE mtickets[ch] IN
    /\ Call /\ open
    /\ h \in Heaps
    /\ tables' = [tables EXCEPT ![ch] = Rows(ch)]
    /\ mtickets' = [mtickets EXCEPT ![ch] = h]
    /\ allocated' = IF h > allocated THEN h ELSE allocated
    /\ handle' = [handle EXCEPT ![ch] = h]
    /\ answer' = Both(Ok(<<>>))
    /\ UNCHANGED <<out_table, open, heaps, out_indices, diverged, kept>>

DeleteQueue(ch) ==
    LET h == mtickets[ch] IN
    /\ Call /\ open
    /\ tables' = [tables EXCEPT ![ch] = Undeleted(ch)]
    /\ mtickets' = [mtickets EXCEPT ![ch] = 0]
    /\ heaps' = IF h = 0 THEN heaps ELSE [heaps EXCEPT ![h] = EmptyHeap]
    /\ \E drained \in (IF h = 0 THEN {<<>>} ELSE Drains(h)) :
        answer' = [redb   |-> IF Readable(Rows(ch)) = Rows(ch) THEN Ok(InKeyOrder(Rows(ch)))
                              ELSE Err("unreadable"),
                   memory |-> Ok(drained)]
    /\ kept' = IF Readable(Rows(ch)) = Rows(ch) THEN {k \in kept : k[1] # ch} ELSE kept
    /\ UNCHANGED <<out_table, open, allocated, out_indices, handle, diverged>>

SaveOutgoingIndex(ch, i) ==
    /\ Call /\ open
    /\ out_table' = [out_table EXCEPT ![ch] = i]
    /\ out_indices' = [out_indices EXCEPT ![ch] = i]
    /\ answer' = Both(Ok(<<>>))
    /\ UNCHANGED <<tables, open, heaps, allocated, mtickets, handle, diverged, kept>>

DeleteOutgoingIndex(ch) ==
    /\ Call /\ open
    /\ out_table' = [out_table EXCEPT ![ch] = NoTable]
    /\ out_indices' = [out_indices EXCEPT ![ch] = NoTable]
    /\ answer' = Both(Ok(<<>>))
    /\ UNCHANGED <<tables, open, heaps, allocated, mtickets, handle, diverged, kept>>

\* The store is dropped: queues hold the database weakly, heaps strongly.
DropStore ==
    /\ open /\ calls < MaxCalls
    /\ open' = FALSE
    /\ diverged' = diverged \cup {"store dropped"}
    /\ UNCHANGED <<tables, out_table, memoryVars, handle, calls, answer, kept>>

\* RedbStore::new on the same file; nothing is left of the memory store.
NewStore ==
    /\ ~open
    /\ open' = TRUE
    /\ heaps' = [h \in Heaps |-> EmptyHeap] /\ allocated' = 0
    /\ mtickets' = [ch \in StoreChannels |-> 0]
    /\ out_indices' = [ch \in StoreChannels |-> NoTable]
    /\ handle' = [ch \in StoreChannels |-> 0]
    /\ UNCHANGED <<tables, out_table, calls, answer, diverged, kept>>

\* The bytes of a row change on disk.
RowCorrupted(ch) ==
    /\ calls < MaxCalls
    /\ \E r \in Readable(Rows(ch)) :
        /\ tables' = [tables EXCEPT ![ch] = (@ \ {r}) \cup {[r EXCEPT !.value = Corrupt]}]
        /\ kept' = kept \ {<<ch, r.value>>}
    /\ diverged' = diverged \cup {"row corrupted"}
    /\ UNCHANGED <<out_table, open, memoryVars, handle, calls, answer>>
-----------------------------------------------------------------------------
(* Calls on a queue. *)

\* Why a call on the queue of ch may be answered differently.
Causes(ch) == IF Live(ch) THEN {} ELSE {"queue deleted"}

PushTicket(ch, t) ==
    LET h == handle[ch] IN
    /\ Call /\ h # 0
    /\ tables' = IF open THEN [tables EXCEPT ![ch] = RedbPush(ch, t)] ELSE tables
    /\ heaps' = [heaps EXCEPT ![h][t] = @ + 1]
    /\ answer' = [redb |-> IF open THEN Ok(<<>>) ELSE Err("closed"), memory |-> Ok(<<>>)]
    /\ diverged' = diverged \cup Causes(ch) \cup (IF Twin(ch, t) THEN {"equal ticket"} ELSE {})
    /\ kept' = IF open THEN {k \in kept : k[1] = ch /\ k[2].epoch = t.epoch => k[2].index # t.index}
                                \cup {<<ch, t>>}
               ELSE kept
    /\ UNCHANGED <<out_table, open, allocated, mtickets, out_indices, handle>>

\* Mutant: an unreadable row also costs the one behind it.
SkippingUnreadable(rows) ==
    IF rows = {} THEN {}
    ELSE IF FirstRow(rows).value # Corrupt \/ rows = {FirstRow(rows)} THEN {FirstRow(rows)}
    ELSE {FirstRow(rows), FirstRow(rows \ {FirstRow(rows)})}
\* Rows that pop() takes out; committed before the bytes are read.
PoppedRows(rows) == IF rows = {} THEN {} ELSE {FirstRow(rows)}

PopTicket(ch) ==
    LET h == handle[ch]
        popped == PoppedRows(Rows(ch))
        said == IF open THEN First(popped) ELSE Err("closed")
    IN
    /\ Call /\ h # 0
    /\ tables' = IF open THEN [tables EXCEPT ![ch] = Rows(ch) \ popped] ELSE tables
    /\ \/ Tops(h) = {} /\ answer' = [redb |-> said, memory |-> Ok(<<>>)] /\ UNCHANGED heaps
       \/ \E t \in Tops(h) : /\ answer' = [redb |-> said, memory |-> Ok(<<t>>)]
                             /\ heaps' = [heaps EXCEPT ![h][t] = @ - 1]
    /\ diverged' = diverged \cup Causes(ch)
    /\ kept' = {k \in kept : k[1] = ch => said.tickets # <<k[2]>>}
    /\ UNCHANGED <<out_table, open, allocated, mtickets, out_indices, handle>>
-----------------------------------------------------------------------------
StoresNext ==
    \/ \E ch \in StoreChannels :
        \/ OpenOrCreateQueue(ch) \/ DeleteQueue(ch) \/ RowCorrupted(ch) \/ PopTicket(ch)
        \/ \E t \in StoreTickets : PushTicket(ch, t)
        \/ \E i \in StoredValues : SaveOutgoingIndex(ch, i)
        \/ DeleteOutgoingIndex(ch)
    \/ DropStore \/ NewStore

StoresSpec == StoresInit /\ [][StoresNext]_storeVars

\* Both stores answer every call alike - the queue in natural order, its length
\* and value, the queues and the outgoing indices they list - until a ticket is
\* pushed twice, a row is corrupted, or a handle outlives its queue or store.
StoresAgree == diverged = {} =>
    /\ answer.redb = answer.memory
    /\ out_table = out_indices
    /\ {ch \in StoreChannels : tables[ch] # NoTable} = {ch \in StoreChannels : mtickets[ch] # 0}
    /\ \A ch \in StoreChannels : Live(ch) =>
        /\ CanRead(ch)
        /\ RedbLen(ch) = MemoryLen(ch) /\ RedbIsEmpty(ch) = MemoryIsEmpty(ch)
        /\ RedbPeek(ch) = MemoryPeek(ch)
        /\ \A e \in StoreEpochs, i \in 0..(IndexSpan - 1) :
            TotalValue(RedbIter(ch), e, i) = TotalValue(MemoryIter(ch), e, i)

\* A ticket redb has taken in stays readable until it is handed out, deleted,
\* replaced by an equal one or corrupted itself: calls that fail on another
\* row, and the end of the process, never cost it (redb.rs:213).
FailuresLoseNoTicket == \A k \in kept : \E r \in Rows(k[1]) : r.value = k[2]
=============================================================================
