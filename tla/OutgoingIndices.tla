--------------------------- MODULE OutgoingIndices ---------------------------
(***************************************************************************)
(* The outgoing ticket indices of a node: HoprTicketFactory (factory.rs),  *)
(* its OutgoingIndexCache (utils.rs) and the OutgoingIndexStore behind it. *)
(*                                                                         *)
(* Packet pipelines (Callers) take indices from per-(channel, epoch)       *)
(* atomic counters.  Savers write dirty counters back to the store while   *)
(* the pipelines run.  The process may stop at any moment, after which     *)
(* only the store and the blockchain are left.                             *)
(*                                                                         *)
(* A counter is an Arc<OutgoingIndexEntry>: <<key, generation>>, where the *)
(* generation grows when the key is removed from the map, because a saver  *)
(* may still hold the Arc that the map has dropped.                        *)
(***************************************************************************)
EXTENDS Integers

CONSTANTS
    Channels,          \* outgoing channels of the node
    Callers,           \* concurrent users of new_multihop_ticket
    Savers,            \* concurrent users of save_outgoing_indices
    MAX_TICKET_INDEX,  \* TicketBuilder::MAX_TICKET_INDEX
    Price,             \* price per hop
    Balance,           \* stake of every channel
    PathPositions,     \* path positions tickets are asked for
    InvWinProbs,       \* 1/winning probability; 0 stands for probability 0
    QuiescentSaves,    \* TRUE: the user never saves while tickets are created
    MaxEpoch,          \* bound: channel epochs
    MaxGen,            \* bound: removals of one key in a process life
    CounterCap,        \* bound: value of a counter
    MaxRestarts        \* bound: process restarts

ASSUME OutgoingIndicesAssumption ==
    /\ Channels # {}
    /\ MAX_TICKET_INDEX \in Nat \ {0}
    /\ Price \in Nat /\ Balance \in Nat
    /\ PathPositions \subseteq Nat \ {0}
    /\ InvWinProbs \subseteq Nat
    /\ QuiescentSaves \in BOOLEAN
    /\ MaxEpoch \in Nat \ {0} /\ MaxGen \in Nat
    /\ CounterCap \in Nat /\ MaxRestarts \in Nat

VARIABLES
    chain,     \* on-chain state of the channels
    store,     \* persistent OutgoingIndexStore; Absent where nothing is stored
    cached,    \* keys present in the DashMap `cache`
    gen,       \* generation of each key's current Arc
    index,     \* AtomicU64 of every Arc
    dirty,     \* AtomicBool of every Arc
    removed,   \* DashSet `removed`
    synced,    \* sync_from_outgoing_channels has succeeded in this life
    pc,        \* where each caller is in next_outgoing_ticket_index
    view,      \* the ChannelEntry each caller was given
    taken,     \* local `v` of increment_at_least
    saver,     \* local state of each running save()
    restarts,  \* number of restarts so far
    issued,    \* ghost: how often each index was returned in this life
    retired,   \* ghost: keys removed from the map in this life
    stored0,   \* ghost: the store as this life's first sync left it
    promised,  \* ghost: indices returned before a successful save() began
    outstanding \* ghost: indices of the tickets sent out, in any life

chainVars  == <<chain>>
entryVars  == <<cached, gen, index, dirty, removed>>
callerVars == <<pc, view, taken>>
ghostVars  == <<issued, retired, stored0, promised, outstanding>>
vars == <<chain, store, cached, gen, index, dirty, removed, synced, pc, view,
          taken, saver, restarts, issued, retired, stored0, promised, outstanding>>

Epochs  == 1..MaxEpoch
Keys    == Channels \X Epochs
Gens    == 0..MaxGen
Arcs    == Keys \X Gens
Indices == 0..MAX_TICKET_INDEX
Absent  == -1
MaxOf(a, b) == IF a < b THEN b ELSE a

Cap(i) == IF i <= MAX_TICKET_INDEX THEN i ELSE MAX_TICKET_INDEX

\* Mutant: the counter is stored over.
Overwritten(i, n) == n
\* fetch_max of a counter that holds i.
Raised(i, n) == MaxOf(i, n)

KeyOf(w)  == <<w.ch, w.epoch>>
ArcOf(k)  == <<k, gen[k]>>

\* States in which a caller holds the DashMap guard of its key's entry.
Holding == {"lift", "retake", "mark"}
Unlocked(k) == \A c \in Callers : pc[c] \in Holding => KeyOf(view[c]) # k

Saving(s) == saver[s].pc # "idle"
\* With QuiescentSaves the user keeps ticket creation and saving apart.
NoSaveRunning == QuiescentSaves => \A s \in Savers : ~Saving(s)
NoCallRunning == QuiescentSaves => \A c \in Callers : pc[c] \notin Holding \cup {"ret"}

\* A caller's locals between calls, and a saver's between saves.
NoView == [ch |-> CHOOSE ch \in Channels : TRUE, status |-> "Open", epoch |-> 1,
           ticket_index |-> 0]
AnyArc == CHOOSE a \in Arcs : TRUE
IdleSaver == [pc |-> "idle", arcs |-> {}, dels |-> {}, arc |-> AnyArc,
              val |-> 0, failed |-> FALSE, at |-> [k \in Keys |-> {}]]

NeverIssued == [k \in Keys |-> [i \in Indices |-> 0]]
-----------------------------------------------------------------------------
Init ==
    /\ chain = [ch \in Channels |-> [status |-> "Open", epoch |-> 1, ticket_index |-> 0]]
    /\ store = [k \in Keys |-> Absent]
    /\ cached = {}
    /\ gen = [k \in Keys |-> 0]
    /\ index = [a \in Arcs |-> 0]
    /\ dirty = [a \in Arcs |-> TRUE]
    /\ removed = {}
    /\ synced = FALSE
    /\ pc = [c \in Callers |-> "idle"]
    /\ view = [c \in Callers |-> NoView]
    /\ taken = [c \in Callers |-> 0]
    /\ saver = [s \in Savers |-> IdleSaver]
    /\ restarts = 0
    /\ issued = NeverIssued
    /\ retired = {}
    /\ stored0 = [k \in Keys |-> Absent]
    /\ promised = [k \in Keys |-> {}]
    /\ outstanding = [k \in Keys |-> {}]
-----------------------------------------------------------------------------
(* The blockchain. *)

\* The destination redeems a ticket: the channel's ticket index moves past it.
RedeemedByDestination(ch) ==
    /\ chain[ch].status = "Open"
    /\ \E i \in outstanding[<<ch, chain[ch].epoch>>] :
        /\ i < MAX_TICKET_INDEX
        /\ i >= chain[ch].ticket_index
        /\ chain' = [chain EXCEPT ![ch].ticket_index = i + 1]
    /\ UNCHANGED <<store, entryVars, synced, callerVars, saver, restarts, ghostVars>>

CloseChannel(ch) ==
    /\ chain[ch].status = "Open"
    /\ chain' = [chain EXCEPT ![ch].status = "Closed"]
    /\ UNCHANGED <<store, entryVars, synced, callerVars, saver, restarts, ghostVars>>

\* A closed channel is funded again: a new epoch, ticket indices from 0.
ReopenChannel(ch) ==
    /\ chain[ch].status = "Closed"
    /\ chain[ch].epoch < MaxEpoch
    /\ chain' = [chain EXCEPT ![ch] = [status |-> "Open", epoch |-> @.epoch + 1,
                                       ticket_index |-> 0]]
    /\ UNCHANGED <<store, entryVars, synced, callerVars, saver, restarts, ghostVars>>
-----------------------------------------------------------------------------
(* Start-up and synchronisation with the chain. *)

IsOpen(k) == chain[k[1]].status = "Open" /\ chain[k[1]].epoch = k[2]

\* Mutant: the stored index is ignored.
GoalOnChain(k) == chain[k[1]].ticket_index
\* The index an open channel's counter must not be below.
Goal(k) == MaxOf(store[k], chain[k[1]].ticket_index)

\* Purge the stored indices of channels that are not open in that epoch, then
\* lift the counter of every open channel to what is stored or on chain.  A
\* store error stops it: `purged` and `loaded` are what was done by then.
SyncFromOutgoingChannels(purged, loaded) ==
    LET opened == {k \in Keys : IsOpen(k)}
        stale  == {k \in Keys : store[k] # Absent /\ ~IsOpen(k)}
        ok     == purged = stale /\ loaded = opened
        Upserted(a) == a[1] \in loaded /\ a = ArcOf(a[1])
    IN
    /\ NoSaveRunning
    /\ purged \subseteq stale
    /\ loaded \subseteq opened
    /\ loaded # {} => purged = stale
    /\ \A k \in loaded : Unlocked(k)
    /\ store' = [k \in Keys |-> IF k \in purged THEN Absent ELSE store[k]]
    /\ cached' = cached \cup loaded
    /\ index' = [a \in Arcs |-> IF Upserted(a) THEN Raised(index[a], Goal(a[1])) ELSE index[a]]
    /\ dirty' = [a \in Arcs |-> dirty[a] \/ (Upserted(a) /\ index[a] < Goal(a[1]))]
    /\ synced' = (synced \/ ok)
    /\ stored0' = IF ok /\ ~synced THEN store' ELSE stored0
    /\ UNCHANGED <<chain, gen, removed, callerVars, saver, restarts,
                   issued, retired, promised, outstanding>>

\* The process stops, whatever it was doing, and is started again.
Restart ==
    /\ restarts < MaxRestarts
    /\ restarts' = restarts + 1
    /\ cached' = {} /\ removed' = {}
    /\ gen' = [k \in Keys |-> 0]
    /\ index' = [a \in Arcs |-> 0]
    /\ dirty' = [a \in Arcs |-> TRUE]
    /\ synced' = FALSE
    /\ pc' = [c \in Callers |-> "idle"]
    /\ view' = [c \in Callers |-> NoView]
    /\ taken' = [c \in Callers |-> 0]
    /\ saver' = [s \in Savers |-> IdleSaver]
    /\ issued' = NeverIssued
    /\ retired' = {}
    /\ stored0' = [k \in Keys |-> Absent]
    /\ UNCHANGED <<chain, store, promised, outstanding>>
-----------------------------------------------------------------------------
(* new_multihop_ticket and next_outgoing_ticket_index. *)

Amount(pos, n) == Price * (pos - 1) * n

\* The ticket parameters pass every check made before an index is taken.
Creatable(w, pos, n) ==
    /\ pos # 1
    /\ w.status = "Open"
    /\ n # 0
    /\ Amount(pos, n) <= Balance

\* The pipeline looks the channel up; the entry may be stale when it is used.
LookUpChannel(c, ch) ==
    /\ synced
    /\ pc[c] = "idle"
    /\ pc' = [pc EXCEPT ![c] = "called"]
    /\ view' = [view EXCEPT ![c] = [ch |-> ch, status |-> chain[ch].status,
                    epoch |-> chain[ch].epoch, ticket_index |-> chain[ch].ticket_index]]
    /\ UNCHANGED <<chain, store, entryVars, synced, taken, saver, restarts, ghostVars>>

RejectTicket(c) ==
    /\ pc[c] = "called"
    /\ \E pos \in PathPositions, n \in InvWinProbs : ~Creatable(view[c], pos, n)
    /\ pc' = [pc EXCEPT ![c] = "idle"]
    /\ view' = [view EXCEPT ![c] = NoView]
    /\ UNCHANGED <<chain, store, entryVars, synced, taken, saver, restarts, ghostVars>>

\* entry().or_default(), which locks the entry, and the first fetch_add.
FetchAdd(c) ==
    LET k == KeyOf(view[c])
        a == ArcOf(k)
    IN
    /\ pc[c] = "called"
    /\ \E pos \in PathPositions, n \in InvWinProbs : Creatable(view[c], pos, n)
    /\ Unlocked(k) /\ NoSaveRunning
    /\ index[a] < CounterCap
    /\ cached' = cached \cup {k}
    /\ taken' = [taken EXCEPT ![c] = index[a]]
    /\ index' = [index EXCEPT ![a] = @ + 1]
    /\ pc' = [pc EXCEPT ![c] = IF index[a] < view[c].ticket_index THEN "lift" ELSE "mark"]
    /\ UNCHANGED <<chain, store, gen, dirty, removed, synced, view, saver, restarts, ghostVars>>

FetchMax(c) ==
    LET a == ArcOf(KeyOf(view[c])) IN
    /\ pc[c] = "lift"
    /\ index' = [index EXCEPT ![a] = Raised(@, view[c].ticket_index)]
    /\ pc' = [pc EXCEPT ![c] = "retake"]
    /\ UNCHANGED <<chain, store, cached, gen, dirty, removed, synced, view, taken, saver,
                   restarts, ghostVars>>

\* Mutant: the index taken before the counter was lifted is returned.
KeepFirstTaken(c) ==
    /\ pc[c] = "retake"
    /\ pc' = [pc EXCEPT ![c] = "mark"]
    /\ UNCHANGED <<chain, store, entryVars, synced, view, taken, saver, restarts, ghostVars>>

FetchAddAgain(c) ==
    LET a == ArcOf(KeyOf(view[c])) IN
    /\ pc[c] = "retake"
    /\ taken' = [taken EXCEPT ![c] = index[a]]
    /\ index' = [index EXCEPT ![a] = @ + 1]
    /\ pc' = [pc EXCEPT ![c] = "mark"]
    /\ UNCHANGED <<chain, store, cached, gen, dirty, removed, synced, view, saver,
                   restarts, ghostVars>>

\* Mark the counter dirty unless it has left the valid range; unlock the entry.
MarkDirty(c) ==
    LET a == ArcOf(KeyOf(view[c])) IN
    /\ pc[c] = "mark"
    /\ dirty' = [dirty EXCEPT ![a] = @ \/ taken[c] <= MAX_TICKET_INDEX]
    /\ pc' = [pc EXCEPT ![c] = "ret"]
    /\ UNCHANGED <<chain, store, cached, gen, index, removed, synced, view, taken, saver,
                   restarts, ghostVars>>

\* The first index of an epoch drops the previous epoch's counter; return.
ReturnIndex(c) ==
    LET k    == KeyOf(view[c])
        prev == <<view[c].ch, view[c].epoch - 1>>
        drop == Cap(taken[c]) = 0 /\ view[c].epoch > 1 /\ prev \in cached
    IN
    /\ pc[c] = "ret"
    /\ drop => Unlocked(prev) /\ gen[prev] < MaxGen
    /\ cached' = IF drop THEN cached \ {prev} ELSE cached
    /\ removed' = IF drop THEN removed \cup {prev} ELSE removed
    /\ gen' = IF drop THEN [gen EXCEPT ![prev] = @ + 1] ELSE gen
    /\ retired' = IF drop THEN retired \cup {prev} ELSE retired
    /\ issued' = [issued EXCEPT ![k][Cap(taken[c])] = @ + 1]
    /\ outstanding' = [outstanding EXCEPT ![k] = @ \cup {Cap(taken[c])}]
    /\ pc' = [pc EXCEPT ![c] = "idle"]
    /\ view' = [view EXCEPT ![c] = NoView]
    /\ taken' = [taken EXCEPT ![c] = 0]
    /\ UNCHANGED <<chain, store, index, dirty, synced, saver, restarts,
                   stored0, promised>>
-----------------------------------------------------------------------------
(* save_outgoing_indices: OutgoingIndexCache::save. *)

SaveUnchanged == UNCHANGED <<chain, cached, gen, index, synced, callerVars, restarts,
                             issued, retired, stored0, outstanding>>

\* Indices below the saturation value that callers have been given.
Returned(k) == {i \in Indices : i < MAX_TICKET_INDEX /\ issued[k][i] > 0}

CloneCache(s) ==
    /\ synced
    /\ saver[s].pc = "idle" /\ NoCallRunning
    /\ saver' = [saver EXCEPT ![s] = [IdleSaver EXCEPT
                    !.pc = "cloned", !.arcs = {ArcOf(k) : k \in cached},
                    !.at = [k \in Keys |-> Returned(k)]]]
    /\ UNCHANGED <<store, dirty, removed, promised>>
    /\ SaveUnchanged

CloneRemoved(s) ==
    /\ saver[s].pc = "cloned"
    /\ saver' = [saver EXCEPT ![s].pc = "entries", ![s].dels = removed]
    /\ UNCHANGED <<store, dirty, removed, promised>>
    /\ SaveUnchanged

\* Mutant: the last index taken is stored, not the next one.
SavedLast(a) == Cap(MaxOf(index[a] - 1, 0))
SavedValue(a) == Cap(index[a])

\* The next cloned entry: a clean one is skipped, a dirty one's index is read.
LoadEntry(s, a) ==
    /\ saver[s].pc = "entries"
    /\ a \in saver[s].arcs
    /\ saver' = [saver EXCEPT ![s].arcs = @ \ {a},
                              ![s].pc = IF dirty[a] THEN "write" ELSE "entries",
                              ![s].arc = IF dirty[a] THEN a ELSE @,
                              ![s].val = IF dirty[a] THEN SavedValue(a) ELSE @]
    /\ UNCHANGED <<store, dirty, removed, promised>>
    /\ SaveUnchanged

WriteEntry(s) ==
    /\ saver[s].pc = "write"
    /\ \/ /\ store' = [store EXCEPT ![saver[s].arc[1]] = saver[s].val]
          /\ saver' = [saver EXCEPT ![s].pc = "clean"]
       \/ /\ saver' = [saver EXCEPT ![s].pc = "entries", ![s].arc = AnyArc, ![s].val = 0,
                                    ![s].failed = TRUE]
          /\ UNCHANGED store
    /\ UNCHANGED <<dirty, removed, promised>>
    /\ SaveUnchanged

MarkClean(s) ==
    /\ saver[s].pc = "clean"
    /\ dirty' = [dirty EXCEPT ![saver[s].arc] = FALSE]
    /\ saver' = [saver EXCEPT ![s].pc = "entries", ![s].arc = AnyArc, ![s].val = 0]
    /\ UNCHANGED <<store, removed, promised>>
    /\ SaveUnchanged

DeleteRemoved(s, k) ==
    /\ saver[s].pc = "entries" /\ saver[s].arcs = {}
    /\ k \in saver[s].dels
    /\ \/ /\ store' = [store EXCEPT ![k] = Absent]
          /\ removed' = removed \ {k}
          /\ saver' = [saver EXCEPT ![s].dels = @ \ {k}]
       \/ /\ saver' = [saver EXCEPT ![s].dels = @ \ {k}, ![s].failed = TRUE]
          /\ UNCHANGED <<store, removed>>
    /\ UNCHANGED <<dirty, promised>>
    /\ SaveUnchanged

EndSave(s) ==
    /\ saver[s].pc = "entries" /\ saver[s].arcs = {} /\ saver[s].dels = {}
    /\ promised' = IF saver[s].failed THEN promised
                   ELSE [k \in Keys |-> promised[k] \cup saver[s].at[k]]
    /\ saver' = [saver EXCEPT ![s] = IdleSaver]
    /\ UNCHANGED <<store, dirty, removed>>
    /\ SaveUnchanged
-----------------------------------------------------------------------------
ChainStep(ch) == RedeemedByDestination(ch) \/ CloseChannel(ch) \/ ReopenChannel(ch)
CallStep(c) ==
    \/ \E ch \in Channels : LookUpChannel(c, ch)
    \/ RejectTicket(c) \/ FetchAdd(c) \/ FetchMax(c) \/ FetchAddAgain(c)
    \/ MarkDirty(c) \/ ReturnIndex(c)
SaveStep(s) ==
    \/ CloneCache(s) \/ CloneRemoved(s) \/ \E a \in Arcs : LoadEntry(s, a)
    \/ WriteEntry(s) \/ MarkClean(s)
    \/ \E k \in Keys : DeleteRemoved(s, k)
    \/ EndSave(s)

Next ==
    \/ \E ch \in Channels : ChainStep(ch)
    \/ \E purged, loaded \in SUBSET Keys : SyncFromOutgoingChannels(purged, loaded)
    \/ Restart
    \/ \E c \in Callers : CallStep(c)
    \/ \E s \in Savers : SaveStep(s)

Spec == Init /\ [][Next]_vars
-----------------------------------------------------------------------------
(* Properties. *)

SaverStates == {"idle", "cloned", "entries", "write", "clean"}
ChannelType == [status : {"Open", "Closed"}, epoch : Epochs, ticket_index : Indices]
ViewType == [ch : Channels, status : {"Open", "Closed"}, epoch : Epochs,
             ticket_index : Indices]
SaverType == [pc : SaverStates, arcs : SUBSET Arcs, dels : SUBSET Keys, arc : Arcs,
              val : Indices, failed : BOOLEAN, at : [Keys -> SUBSET Indices]]

\* Every variable has its type (OutgoingIndexEntry, OutgoingIndexCache and the
\* locals of next_outgoing_ticket_index and save).
TypeOK ==
    /\ chain \in [Channels -> ChannelType]
    /\ store \in [Keys -> Indices \cup {Absent}]
    /\ cached \in SUBSET Keys
    /\ gen \in [Keys -> Gens]
    /\ index \in [Arcs -> Nat]
    /\ dirty \in [Arcs -> BOOLEAN]
    /\ removed \in SUBSET Keys
    /\ synced \in BOOLEAN
    /\ pc \in [Callers -> {"idle", "called", "ret"} \cup Holding]
    /\ view \in [Callers -> ViewType]
    /\ taken \in [Callers -> Nat]
    /\ saver \in [Savers -> SaverType]
    /\ restarts \in Nat
    /\ issued \in [Keys -> [Indices -> Nat]]
    /\ retired \in SUBSET Keys
    /\ stored0 \in [Keys -> Indices \cup {Absent}]
    /\ promised \in [Keys -> SUBSET Indices]
    /\ outstanding \in [Keys -> SUBSET Indices]

\* next_outgoing_ticket_index never returns an index below the saturation
\* value twice for a channel and epoch whose counter was not dropped, however
\* its concurrent callers, saves and syncs interleave.
NoIndexIssuedTwice ==
    \A k \in Keys \ retired : \A i \in Indices :
        i < MAX_TICKET_INDEX => issued[k][i] <= 1

\* The same for every channel and epoch, as factory.rs:128 promises.
NeverReturnedAgain ==
    \A k \in Keys : \A i \in Indices : i < MAX_TICKET_INDEX => issued[k][i] <= 1

\* An index about to be returned is at least the ticket index of the channel
\* entry it was asked for, so the ticket can still be redeemed.
IndexNotBelowChannel ==
    \A c \in Callers : pc[c] \in {"mark", "ret"} => taken[c] >= view[c].ticket_index

\* No index returned in this life lies below what the store held for the
\* open channel when the process started: what was stored is not reissued.
StoredIndicesNotReissued ==
    \A k \in Keys \ retired : \A i \in Indices :
        issued[k][i] > 0 => i >= stored0[k]

\* Once a save() that began after an index was returned has succeeded, the
\* store of the still open channel is past that index.
SavedIndicesAreDurable ==
    \A k \in Keys : IsOpen(k) => \A i \in promised[k] : i < store[k]

\* Over all lives of the process the factory is an allocator: in particular no
\* index that a save has covered is given again after the process stopped and was
\* started anew, while entries of the channel read before may still be in use.
Allocator == INSTANCE IndexAllocator WITH given <- issued, over <- retired, durable <- promised
ImplementsAllocator == Allocator!Spec
-----------------------------------------------------------------------------
(* The inductive invariant behind NoIndexIssuedTwice, IndexNotBelowChannel  *)
(* and StoredIndicesNotReissued.                                            *)

Taking(c) == pc[c] \in {"mark", "ret"}
First(k)  == <<k, 0>>

\* Nothing was handed out before the first successful sync of this life.
QuietUntilSynced ==
    ~synced => /\ \A c \in Callers : pc[c] = "idle"
               /\ \A k \in Keys : \A i \in Indices : issued[k][i] = 0
               /\ \A k \in Keys : stored0[k] = Absent

\* A key that was never removed still has its first counter, and the counter
\* is past every index returned, every index taken and the stored index.
CounterAhead ==
    \A k \in Keys \ retired :
        /\ gen[k] = 0
        /\ stored0[k] <= index[First(k)]
        /\ \A i \in Indices : i < MAX_TICKET_INDEX /\ issued[k][i] > 0 => i < index[First(k)]
        /\ \A c \in Callers : Taking(c) /\ KeyOf(view[c]) = k =>
                /\ taken[c] < index[First(k)]
                /\ taken[c] >= stored0[k]
                /\ taken[c] < MAX_TICKET_INDEX => issued[k][taken[c]] = 0

\* Two calls in flight never hold the same index of such a key.
TakenDistinct ==
    \A c, d \in Callers :
        c # d /\ Taking(c) /\ Taking(d) /\ KeyOf(view[c]) = KeyOf(view[d])
              /\ KeyOf(view[c]) \notin retired => taken[c] # taken[d]

\* Once lifted, and as long as its entry is locked, the counter is not below
\* the channel's ticket index.
LiftedCounter ==
    \A c \in Callers :
        pc[c] = "retake" => index[ArcOf(KeyOf(view[c]))] >= view[c].ticket_index

IndexInv ==
    /\ QuietUntilSynced /\ CounterAhead /\ TakenDistinct /\ LiftedCounter
    /\ NoIndexIssuedTwice /\ IndexNotBelowChannel /\ StoredIndicesNotReissued
-----------------------------------------------------------------------------
(* The inductive invariant behind SavedIndicesAreDurable, which holds where  *)
(* the user keeps ticket creation and saving apart.                         *)

\* The epoch of a key is over, is the channel's, or is still to come.
Over(k)   == k[2] < chain[k[1]].epoch
ToCome(k) == k[2] > chain[k[1]].epoch
Calling(c) == pc[c] \in Holding \cup {"ret"}
WorkedOn(s) == saver[s].arcs \cup {a \in {saver[s].arc} : saver[s].pc \in {"write", "clean"}}

\* Counters are dropped, and stored indices deleted, of past epochs only, and
\* nothing is known of an epoch before the channel reaches it.
EpochsInOrder ==
    /\ \A c \in Callers : ~ToCome(KeyOf(view[c]))
    /\ \A k \in Keys : k \in retired \cup removed => Over(k)
    /\ \A k \in Keys : ToCome(k) => k \notin cached /\ store[k] = Absent /\ promised[k] = {}
    /\ \A k \in Keys : ToCome(k) => \A i \in Indices : issued[k][i] = 0

\* The same of what savers have cloned: they work on the current counters.
SaversInOrder ==
    \A s \in Savers :
        /\ \A k \in saver[s].dels : Over(k)
        /\ \A a \in WorkedOn(s) : ~ToCome(a[1]) /\ (~Over(a[1]) => a = First(a[1]))

\* Saves run apart from calls and after a sync.
SavesAreApart ==
    \A s \in Savers : Saving(s) => synced /\ \A c \in Callers : ~Calling(c)

\* A key with an index returned or on its way is in the map, and the counter of
\* one on its way to the caller is dirty.
InUseIsCached ==
    \A k \in Keys \ retired :
        /\ \A i \in Indices : issued[k][i] > 0 => k \in cached
        /\ \A c \in Callers : Calling(c) /\ KeyOf(view[c]) = k => k \in cached
        /\ \A c \in Callers : pc[c] = "ret" /\ KeyOf(view[c]) = k /\ taken[c] <= MAX_TICKET_INDEX
                => dirty[First(k)]

\* A clean counter has nothing returned that the store does not have, and the
\* counter is never behind the store.
CleanIsStored ==
    \A k \in Keys : IsOpen(k) =>
        /\ synced => store[k] <= index[First(k)]
        /\ ~dirty[First(k)] => \A i \in Returned(k) : i < store[k]

\* The value a saver writes is the counter's, and stays stored until it is
\* marked clean.
WritesAreCurrent ==
    \A s \in Savers :
        /\ saver[s].pc \in {"write", "clean"} => saver[s].val = Cap(index[saver[s].arc])
        /\ saver[s].pc = "clean" /\ IsOpen(saver[s].arc[1]) => store[saver[s].arc[1]] = saver[s].val

\* What a save will have promised is stored, or its counter is still to be
\* written.
PromisesInHand ==
    \A s \in Savers : \A k \in Keys :
        /\ saver[s].at[k] \subseteq Returned(k)
        /\ Saving(s) /\ ~saver[s].failed /\ IsOpen(k) => \A i \in saver[s].at[k] :
                i < store[k] \/ First(k) \in WorkedOn(s)

\* Nothing is promised of the value at which a counter saturates.
PromisedInRange == \A k \in Keys : \A i \in promised[k] : i < MAX_TICKET_INDEX

DurableInv ==
    /\ EpochsInOrder /\ SaversInOrder /\ SavesAreApart /\ InUseIsCached
    /\ CleanIsStored /\ WritesAreCurrent /\ PromisesInHand
    /\ PromisedInRange /\ SavedIndicesAreDurable
-----------------------------------------------------------------------------
(* The inductive invariant behind ImplementsAllocator.                      *)

\* An index is asked for with an entry of an open channel only, and as long as
\* that entry is in use its counter is past all that was ever promised.
PromisedIsPast ==
    \A c \in Callers :
        LET k == KeyOf(view[c])
        IN  /\ Calling(c) => view[c].status = "Open"
            /\ pc[c] # "idle" /\ view[c].status = "Open" /\ k \notin retired =>
                    /\ \A i \in promised[k] : i < index[First(k)]
                    /\ Taking(c) => taken[c] \notin promised[k]
=============================================================================
