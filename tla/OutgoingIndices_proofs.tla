----------------------- MODULE OutgoingIndices_proofs -----------------------
(***************************************************************************)
(* TLAPS proofs about OutgoingIndices: type correctness, and, from the     *)
(* inductive invariant IndexInv, that indices are unique, never below the  *)
(* channel's ticket index and never below what was stored; from DurableInv,*)
(* that what was returned before a successful save is stored; and with     *)
(* PromisedIsPast, that the factory implements IndexAllocator.             *)
(***************************************************************************)
EXTENDS OutgoingIndices, TLAPS

USE OutgoingIndicesAssumption

\* The constants and the idle values have the types the other lemmas rely on.
LEMMA Constants ==
    /\ Absent \in Int
    /\ 0 \in Indices
    /\ Indices \subseteq Nat
    /\ NoView \in ViewType
    /\ AnyArc \in Arcs
<1>1. 0 \in Indices /\ Indices \subseteq Nat /\ Absent \in Int
  BY DEF Indices, Absent
<1>2. (CHOOSE ch \in Channels : TRUE) \in Channels
  OBVIOUS
<1>3. 1 \in Epochs /\ 0 \in Gens
  BY DEF Epochs, Gens
<1>4. NoView \in ViewType
  BY <1>1, <1>2, <1>3 DEF NoView, ViewType
<1>5. PICK ch \in Channels : TRUE
  OBVIOUS
<1>6. <<<<ch, 1>>, 0>> \in Arcs
  BY <1>3 DEF Arcs, Keys
<1>7. AnyArc \in Arcs
  BY <1>6 DEF AnyArc
<1> QED
  BY <1>1, <1>4, <1>7

\* Cap is the saturating read of OutgoingIndexEntry::get.
LEMMA CapType == \A i \in Nat : Cap(i) \in Indices /\ Cap(i) <= i
BY DEF Cap, Indices

\* A save that is not running has the type of a save.
LEMMA IdleSaverType == IdleSaver \in SaverType
BY Constants DEF IdleSaver, SaverType, SaverStates

\* The handle a key has now, and the key a caller works on, are well typed.
LEMMA KeyTypes ==
    ASSUME TypeOK
    PROVE  /\ \A k \in Keys : ArcOf(k) \in Arcs
           /\ \A c \in Callers : KeyOf(view[c]) \in Keys
<1>1. \A k \in Keys : ArcOf(k) \in Arcs
  BY DEF TypeOK, ArcOf, Arcs
<1>2. \A c \in Callers : KeyOf(view[c]) \in Keys
  <2> TAKE c \in Callers
  <2>1. view[c] \in ViewType
    BY DEF TypeOK
  <2> QED
    BY <2>1 DEF KeyOf, Keys, ViewType
<1> QED
  BY <1>1, <1>2
-----------------------------------------------------------------------------
\* The state before the first synchronisation is well typed.
LEMMA TypeInit == Init => TypeOK
<1> SUFFICES ASSUME Init PROVE TypeOK
  OBVIOUS
<1>1. 1 \in Epochs /\ 0 \in Gens
  BY DEF Epochs, Gens
<1>2. chain \in [Channels -> ChannelType] /\ view \in [Callers -> ViewType]
  BY <1>1, Constants DEF Init, ChannelType
<1>3. saver \in [Savers -> SaverType]
  BY IdleSaverType DEF Init
<1>4. issued \in [Keys -> [Indices -> Nat]]
  BY DEF Init, NeverIssued
<1>5. gen \in [Keys -> Gens] /\ index \in [Arcs -> Nat] /\ dirty \in [Arcs -> BOOLEAN]
  BY <1>1 DEF Init
<1>6. pc \in [Callers -> {"idle", "called", "ret"} \cup Holding] /\ taken \in [Callers -> Nat]
  BY DEF Init
<1> QED
  BY <1>2, <1>3, <1>4, <1>5, <1>6 DEF Init, TypeOK

\* Redeeming, closing and reopening a channel on chain keep the types.
LEMMA TypeChain ==
    ASSUME TypeOK, NEW ch \in Channels, ChainStep(ch)
    PROVE  TypeOK'
<1>1. CASE RedeemedByDestination(ch)
  <2>1. PICK i \in outstanding[<<ch, chain[ch].epoch>>] :
            /\ i < MAX_TICKET_INDEX
            /\ chain' = [chain EXCEPT ![ch].ticket_index = i + 1]
    BY <1>1 DEF RedeemedByDestination
  <2>2. <<ch, chain[ch].epoch>> \in Keys
    BY DEF TypeOK, Keys, ChannelType
  <2>3. i \in Indices
    BY <2>1, <2>2 DEF TypeOK
  <2>4. i + 1 \in Indices
    BY <2>1, <2>3 DEF Indices
  <2>5. chain' \in [Channels -> ChannelType]
    BY <2>1, <2>4 DEF TypeOK, ChannelType
  <2> QED
    BY <1>1, <2>5
       DEF TypeOK, RedeemedByDestination, entryVars, callerVars, ghostVars
<1>2. CASE CloseChannel(ch)
  <2>1. chain' \in [Channels -> ChannelType]
    BY <1>2 DEF TypeOK, CloseChannel, ChannelType
  <2> QED
    BY <1>2, <2>1 DEF TypeOK, CloseChannel, entryVars, callerVars, ghostVars
<1>3. CASE ReopenChannel(ch)
  <2>1. chain[ch].epoch + 1 \in Epochs
    BY <1>3 DEF ReopenChannel, TypeOK, Epochs, ChannelType
  <2>2. chain' \in [Channels -> ChannelType]
    BY <1>3, <2>1, Constants DEF TypeOK, ReopenChannel, ChannelType
  <2> QED
    BY <1>3, <2>2 DEF TypeOK, ReopenChannel, entryVars, callerVars, ghostVars
<1> QED
  BY <1>1, <1>2, <1>3 DEF ChainStep

\* The start-up synchronisation keeps the types.
LEMMA TypeSync ==
    ASSUME TypeOK, NEW purged \in SUBSET Keys, NEW loaded \in SUBSET Keys,
           SyncFromOutgoingChannels(purged, loaded)
    PROVE  TypeOK'
<1>1. store' \in [Keys -> Indices \cup {Absent}]
  BY DEF TypeOK, SyncFromOutgoingChannels, Goal, Raised
<1>2. \A k \in Keys : MaxOf(store[k], chain[k[1]].ticket_index) \in Nat
  <2> TAKE k \in Keys
  <2>1. k[1] \in Channels
    BY DEF Keys
  <2>2. chain[k[1]].ticket_index \in Nat /\ store[k] \in Int
    <3>1. store[k] \in Indices \cup {Absent} /\ chain[k[1]] \in ChannelType
      BY <2>1 DEF TypeOK
    <3>2. chain[k[1]].ticket_index \in Indices
      BY <3>1 DEF ChannelType
    <3> QED
      BY <3>1, <3>2 DEF Indices, Absent
  <2>3. store[k] = -1 \/ store[k] \in Nat
    BY Constants DEF TypeOK, Absent
  <2> QED
    BY <2>2, <2>3 DEF MaxOf
<1>3. index' \in [Arcs -> Nat]
  <2> SUFFICES ASSUME NEW a \in Arcs
               PROVE  MaxOf(index[a], MaxOf(store[a[1]], chain[a[1][1]].ticket_index)) \in Nat
    BY DEF TypeOK, SyncFromOutgoingChannels, Goal, Raised
  <2>1. a[1] \in Keys
    BY DEF Arcs
  <2> QED
    BY <1>2, <2>1 DEF TypeOK, MaxOf
<1>4. dirty' \in [Arcs -> BOOLEAN]
  BY DEF TypeOK, SyncFromOutgoingChannels, Goal, Raised
<1>5. stored0' \in [Keys -> Indices \cup {Absent}]
  BY <1>1 DEF TypeOK, SyncFromOutgoingChannels, Goal, Raised
<1>6. cached' \in SUBSET Keys /\ synced' \in BOOLEAN
  BY DEF TypeOK, SyncFromOutgoingChannels, Goal, Raised
<1> QED
  BY <1>1, <1>3, <1>4, <1>5, <1>6 DEF TypeOK, SyncFromOutgoingChannels, Goal, Raised, callerVars

\* A restart of the node keeps the types.
LEMMA TypeRestart ==
    ASSUME TypeOK, Restart
    PROVE  TypeOK'
<1>1. view' \in [Callers -> ViewType] /\ saver' \in [Savers -> SaverType]
  BY Constants, IdleSaverType DEF Restart
<1>2. issued' \in [Keys -> [Indices -> Nat]]
  BY DEF Restart, NeverIssued
<1>3. gen' \in [Keys -> Gens]
  BY DEF Restart, Gens
<1>4. pc' \in [Callers -> {"idle", "called", "ret"} \cup Holding] /\ taken' \in [Callers -> Nat]
  BY DEF Restart
<1>5. index' \in [Arcs -> Nat] /\ dirty' \in [Arcs -> BOOLEAN]
  BY DEF Restart
<1>6. restarts' \in Nat /\ stored0' \in [Keys -> Indices \cup {Absent}]
  BY DEF Restart, TypeOK
<1> QED
  BY <1>1, <1>2, <1>3, <1>4, <1>5, <1>6 DEF TypeOK, Restart

\* Every step of a call that takes the next index keeps the types.
LEMMA TypeCall ==
    ASSUME TypeOK, NEW c \in Callers, CallStep(c)
    PROVE  TypeOK'
<1> DEFINE k == KeyOf(view[c])
           a == ArcOf(k)
<1>k. k \in Keys /\ a \in Arcs
  BY KeyTypes
<1>f. /\ index \in [Arcs -> Nat] /\ taken \in [Callers -> Nat]
      /\ issued \in [Keys -> [Indices -> Nat]] /\ gen \in [Keys -> Gens]
      /\ view[c] \in ViewType
  BY DEF TypeOK
<1>i. index[a] \in Nat /\ view[c].ticket_index \in Nat /\ taken[c] \in Nat
  BY <1>f, <1>k, Constants DEF ViewType
<1> HIDE DEF k, a
<1>1. ASSUME NEW ch \in Channels, LookUpChannel(c, ch)
      PROVE  TypeOK'
  <2>1. [ch |-> ch, status |-> chain[ch].status, epoch |-> chain[ch].epoch,
         ticket_index |-> chain[ch].ticket_index] \in ViewType
    BY DEF TypeOK, ChannelType, ViewType
  <2>2. view' \in [Callers -> ViewType]
    BY <1>1, <2>1 DEF TypeOK, LookUpChannel
  <2> QED
    BY <1>1, <2>2 DEF TypeOK, LookUpChannel, entryVars, ghostVars, Holding
<1>2. CASE RejectTicket(c)
  BY <1>2, Constants DEF TypeOK, RejectTicket, entryVars, ghostVars
<1>3. CASE FetchAdd(c)
  <2>1. index' = [index EXCEPT ![a] = @ + 1] /\ taken' = [taken EXCEPT ![c] = index[a]]
    BY <1>3 DEF FetchAdd, k, a
  <2>a. index[a] + 1 \in Nat
    BY <1>i
  <2>b. index' \in [Arcs -> Nat]
    BY <1>f, <2>1, <2>a
  <2>2. index' \in [Arcs -> Nat] /\ taken' \in [Callers -> Nat]
    BY <1>f, <1>i, <2>1, <2>b
  <2>3. cached' \in SUBSET Keys
    BY <1>3, <1>k DEF FetchAdd, TypeOK, k
  <2>4. pc' \in [Callers -> {"idle", "called", "ret"} \cup Holding]
    BY <1>3 DEF FetchAdd, TypeOK, Holding, k, a
  <2> QED
    BY <1>3, <2>2, <2>3, <2>4 DEF TypeOK, FetchAdd, ghostVars
<1>4. CASE FetchMax(c)
  <2>1. index' = [index EXCEPT ![a] = MaxOf(@, view[c].ticket_index)]
    BY <1>4 DEF FetchMax, Raised, k, a
  <2>2. index' \in [Arcs -> Nat]
    BY <1>f, <1>i, <2>1 DEF MaxOf
  <2> QED
    BY <1>4, <2>2 DEF TypeOK, FetchMax, Raised, ghostVars, Holding
<1>5. CASE FetchAddAgain(c)
  <2>1. index' = [index EXCEPT ![a] = @ + 1] /\ taken' = [taken EXCEPT ![c] = index[a]]
    BY <1>5 DEF FetchAddAgain, k, a
  <2>a. index[a] + 1 \in Nat
    BY <1>i
  <2>b. index' \in [Arcs -> Nat]
    BY <1>f, <2>1, <2>a
  <2>2. index' \in [Arcs -> Nat] /\ taken' \in [Callers -> Nat]
    BY <1>f, <1>i, <2>1, <2>b
  <2> QED
    BY <1>5, <2>2 DEF TypeOK, FetchAddAgain, ghostVars, Holding
<1>6. CASE MarkDirty(c)
  <2>1. dirty' \in [Arcs -> BOOLEAN]
    BY <1>6, <1>k DEF TypeOK, MarkDirty, k, a
  <2> QED
    BY <1>6, <2>1 DEF TypeOK, MarkDirty, ghostVars, Holding
<1>7. CASE ReturnIndex(c)
  <2> DEFINE prev == <<view[c].ch, view[c].epoch - 1>>
             drop == Cap(taken[c]) = 0 /\ view[c].epoch > 1 /\ prev \in cached
  <2>1. Cap(taken[c]) \in Indices
    BY <1>i, CapType
  <2>2. issued' \in [Keys -> [Indices -> Nat]]
    <3>1. issued' = [issued EXCEPT ![k][Cap(taken[c])] = @ + 1]
      BY <1>7 DEF ReturnIndex, k
    <3> QED
      BY <3>1, <1>f, <1>k, <2>1
  <2>3. outstanding' \in [Keys -> SUBSET Indices]
    BY <1>7, <1>k, <2>1 DEF TypeOK, ReturnIndex, k
  <2>4. gen' \in [Keys -> Gens] /\ cached' \in SUBSET Keys /\ removed' \in SUBSET Keys
        /\ retired' \in SUBSET Keys
    <3>1. CASE drop
      <4>1. prev \in Keys
        BY <3>1 DEF TypeOK
      <4>2. gen[prev] < MaxGen /\ gen' = [gen EXCEPT ![prev] = @ + 1]
        BY <1>7, <3>1 DEF ReturnIndex
      <4>3. gen[prev] + 1 \in Gens
        BY <4>1, <4>2 DEF TypeOK, Gens
      <4>4. gen' \in [Keys -> Gens]
        BY <1>f, <4>1, <4>2, <4>3
      <4>5. /\ cached' = cached \ {prev} /\ removed' = removed \cup {prev}
            /\ retired' = retired \cup {prev}
        BY <1>7, <3>1 DEF ReturnIndex
      <4> QED
        BY <4>1, <4>4, <4>5 DEF TypeOK
    <3>2. CASE ~drop
      BY <1>7, <3>2 DEF TypeOK, ReturnIndex
    <3> QED
      BY <3>1, <3>2
  <2>5. view' \in [Callers -> ViewType] /\ taken' \in [Callers -> Nat]
    BY <1>7, Constants DEF TypeOK, ReturnIndex
  <2> QED
    BY <1>7, <2>2, <2>3, <2>4, <2>5 DEF TypeOK, ReturnIndex
<1> QED
  BY <1>1, <1>2, <1>3, <1>4, <1>5, <1>6, <1>7 DEF CallStep

\* Every step of a save of the dirty entries keeps the types.
LEMMA TypeSave ==
    ASSUME TypeOK, NEW s \in Savers, SaveStep(s)
    PROVE  TypeOK'
<1>t. saver \in [Savers -> SaverType] /\ saver[s] \in SaverType
  BY DEF TypeOK
<1>1. CASE CloneCache(s)
  <2>1. {ArcOf(k) : k \in cached} \subseteq Arcs
    BY KeyTypes DEF TypeOK
  <2>2. [k \in Keys |-> Returned(k)] \in [Keys -> SUBSET Indices]
    BY DEF Returned
  <2>3. [IdleSaver EXCEPT !.pc = "cloned", !.arcs = {ArcOf(k) : k \in cached},
                          !.at = [k \in Keys |-> Returned(k)]] \in SaverType
    BY <2>1, <2>2, IdleSaverType DEF SaverType, SaverStates
  <2>4. saver' \in [Savers -> SaverType]
    BY <1>1, <1>t, <2>3 DEF CloneCache
  <2> QED
    BY <1>1, <2>4 DEF TypeOK, CloneCache, SaveUnchanged, callerVars
<1>2. CASE CloneRemoved(s)
  <2>1. saver' \in [Savers -> SaverType]
    BY <1>2, <1>t DEF TypeOK, CloneRemoved, SaverType, SaverStates
  <2> QED
    BY <1>2, <2>1 DEF TypeOK, CloneRemoved, SaveUnchanged, callerVars
<1>3. ASSUME NEW a \in Arcs, LoadEntry(s, a)
      PROVE  TypeOK'
  <2>1. Cap(index[a]) \in Indices
    BY CapType DEF TypeOK
  <2>2. saver' \in [Savers -> SaverType]
    BY <1>3, <1>t, <2>1 DEF LoadEntry, SavedValue, SaverType, SaverStates
  <2> QED
    BY <1>3, <2>2 DEF TypeOK, LoadEntry, SavedValue, SaveUnchanged, callerVars
<1>4. CASE WriteEntry(s)
  <2>1. saver' \in [Savers -> SaverType]
    <3>1. \/ saver' = [saver EXCEPT ![s].pc = "clean"]
          \/ saver' = [saver EXCEPT ![s].pc = "entries", ![s].arc = AnyArc, ![s].val = 0,
                                    ![s].failed = TRUE]
      BY <1>4 DEF WriteEntry
    <3>2. CASE saver' = [saver EXCEPT ![s].pc = "clean"]
      BY <3>2, <1>t DEF SaverType, SaverStates
    <3>3. CASE saver' = [saver EXCEPT ![s].pc = "entries", ![s].arc = AnyArc, ![s].val = 0,
                                      ![s].failed = TRUE]
      BY <3>3, <1>t, Constants DEF SaverType, SaverStates
    <3> QED
      BY <3>1, <3>2, <3>3
  <2>2. store' \in [Keys -> Indices \cup {Absent}]
    BY <1>4, <1>t DEF TypeOK, WriteEntry, SaverType
  <2> QED
    BY <1>4, <2>1, <2>2 DEF TypeOK, WriteEntry, SaveUnchanged, callerVars
<1>5. CASE MarkClean(s)
  <2>1. saver' \in [Savers -> SaverType]
    BY <1>5, <1>t, Constants DEF MarkClean, SaverType, SaverStates
  <2>2. dirty' \in [Arcs -> BOOLEAN]
    BY <1>5, <1>t DEF TypeOK, MarkClean
  <2> QED
    BY <1>5, <2>1, <2>2 DEF TypeOK, MarkClean, SaveUnchanged, callerVars
<1>6. ASSUME NEW k \in Keys, DeleteRemoved(s, k)
      PROVE  TypeOK'
  <2>1. saver' \in [Savers -> SaverType]
    <3>1. \/ saver' = [saver EXCEPT ![s].dels = @ \ {k}]
          \/ saver' = [saver EXCEPT ![s].dels = @ \ {k}, ![s].failed = TRUE]
      BY <1>6 DEF DeleteRemoved
    <3>2. saver[s].dels \ {k} \in SUBSET Keys
      BY <1>t DEF SaverType
    <3>3. CASE saver' = [saver EXCEPT ![s].dels = @ \ {k}]
      BY <3>2, <3>3, <1>t DEF SaverType
    <3>4. CASE saver' = [saver EXCEPT ![s].dels = @ \ {k}, ![s].failed = TRUE]
      BY <3>2, <3>4, <1>t DEF SaverType
    <3> QED
      BY <3>1, <3>3, <3>4
  <2>2. store' \in [Keys -> Indices \cup {Absent}] /\ removed' \in SUBSET Keys
    BY <1>6 DEF TypeOK, DeleteRemoved
  <2> QED
    BY <1>6, <2>1, <2>2 DEF TypeOK, DeleteRemoved, SaveUnchanged, callerVars
<1>7. CASE EndSave(s)
  <2>1. saver' \in [Savers -> SaverType]
    BY <1>7, <1>t, IdleSaverType DEF EndSave
  <2>2. promised' \in [Keys -> SUBSET Indices]
    BY <1>7, <1>t DEF TypeOK, EndSave, SaverType
  <2> QED
    BY <1>7, <2>1, <2>2 DEF TypeOK, EndSave, SaveUnchanged, callerVars
<1> QED
  BY <1>1, <1>2, <1>3, <1>4, <1>5, <1>6, <1>7 DEF SaveStep

\* Type correctness of the factory, its cache and the savers, for any number
\* of channels, callers and savers.
THEOREM TypeCorrect == Spec => []TypeOK
<1>1. TypeOK /\ [Next]_vars => TypeOK'
  <2> SUFFICES ASSUME TypeOK, [Next]_vars PROVE TypeOK'
    OBVIOUS
  <2>1. CASE UNCHANGED vars
    BY <2>1 DEF TypeOK, vars
  <2> QED
    BY <2>1, TypeChain, TypeSync, TypeRestart, TypeCall, TypeSave DEF Next
<1> QED
  BY <1>1, TypeInit, PTL DEF Spec
-----------------------------------------------------------------------------
(* The index invariant.                                                     *)

IndexVars == <<gen, index, synced, pc, view, taken, issued, retired, stored0>>

\* IndexInv depends on IndexVars alone: chain and save steps keep it.
LEMMA IndexUnchanged ==
    ASSUME IndexInv, UNCHANGED IndexVars
    PROVE  IndexInv'
BY DEF IndexInv, IndexVars, QuietUntilSynced, CounterAhead, TakenDistinct, LiftedCounter,
       NoIndexIssuedTwice, IndexNotBelowChannel, StoredIndicesNotReissued, Taking, First,
       ArcOf, KeyOf

\* Before the first synchronisation no index is out.
LEMMA IndexInit == Init => IndexInv
BY Constants
   DEF Init, IndexInv, QuietUntilSynced, CounterAhead, TakenDistinct, LiftedCounter,
       NoIndexIssuedTwice, IndexNotBelowChannel, StoredIndicesNotReissued, Taking, First,
       ArcOf, KeyOf, NeverIssued, Absent, Arcs, Gens

\* A restart forgets every handle, so the invariant starts over.
LEMMA IndexRestart ==
    ASSUME Restart
    PROVE  IndexInv'
BY Constants
   DEF Restart, IndexInv, QuietUntilSynced, CounterAhead, TakenDistinct, LiftedCounter,
       NoIndexIssuedTwice, IndexNotBelowChannel, StoredIndicesNotReissued, Taking, First,
       ArcOf, KeyOf, NeverIssued, Absent, Arcs, Gens

\* What IndexInv says of the first counter of a key that was never removed.
LEMMA FirstArc == \A k \in Keys : First(k) \in Arcs
BY DEF First, Arcs, Gens

\* Synchronising only raises counters, so no index comes back.
LEMMA IndexSync ==
    ASSUME TypeOK, IndexInv, NEW purged \in SUBSET Keys, NEW loaded \in SUBSET Keys,
           SyncFromOutgoingChannels(purged, loaded)
    PROVE  IndexInv'
<1>u. UNCHANGED <<gen, pc, view, taken, issued, retired>>
  BY DEF SyncFromOutgoingChannels, Goal, Raised, callerVars
<1>1. \A a \in Arcs : index[a] \in Nat /\ index'[a] \in Nat /\ index[a] <= index'[a]
  <2>1. TypeOK'
    BY TypeSync
  <2>2. \A a \in Arcs : index[a] \in Nat /\ index'[a] \in Nat
    BY <2>1 DEF TypeOK
  <2> QED
    BY <2>2 DEF SyncFromOutgoingChannels, Goal, Raised, MaxOf
<1>2. QuietUntilSynced'
  BY <1>u DEF IndexInv, QuietUntilSynced, SyncFromOutgoingChannels, Goal, Raised
<1>3. TakenDistinct' /\ NoIndexIssuedTwice' /\ IndexNotBelowChannel'
  BY <1>u DEF IndexInv, TakenDistinct, NoIndexIssuedTwice, IndexNotBelowChannel, Taking, KeyOf
<1>4. LiftedCounter'
  <2> SUFFICES ASSUME NEW c \in Callers, pc[c] = "retake"
               PROVE  index'[ArcOf(KeyOf(view[c]))] >= view[c].ticket_index
    BY <1>u DEF LiftedCounter, ArcOf, KeyOf
  <2>1. ArcOf(KeyOf(view[c])) \in Arcs
    BY KeyTypes
  <2>2. index[ArcOf(KeyOf(view[c]))] >= view[c].ticket_index
    BY DEF IndexInv, LiftedCounter
  <2>3. view[c].ticket_index \in Nat
    BY Constants DEF TypeOK, ViewType
  <2> QED
    BY <1>1, <2>1, <2>2, <2>3
<1>5. \A k \in Keys \ retired : stored0'[k] <= index'[First(k)]
  <2> TAKE k \in Keys \ retired
  <2>1. CASE stored0' = stored0
    <3>1. stored0[k] <= index[First(k)] /\ stored0[k] \in Int
      BY DEF IndexInv, CounterAhead, TypeOK, Indices, Absent
    <3> QED
      BY <1>1, <2>1, <3>1, FirstArc
  <2>2. CASE stored0' # stored0
    <3>1. stored0' = store' /\ loaded = {j \in Keys : IsOpen(j)}
          /\ purged = {j \in Keys : store[j] # Absent /\ ~IsOpen(j)}
      BY <2>2 DEF SyncFromOutgoingChannels, Goal, Raised
    <3>2. store[k] \in Int /\ chain[k[1]].ticket_index \in Int
      <4>1. store[k] \in Indices \cup {Absent} /\ chain[k[1]] \in ChannelType
        BY DEF TypeOK, Keys
      <4>2. chain[k[1]].ticket_index \in Indices
        BY <4>1 DEF ChannelType
      <4> QED
        BY <4>1, <4>2 DEF Indices, Absent
    <3>3. CASE IsOpen(k)
      <4>1. store'[k] = store[k]
        BY <3>1, <3>3 DEF SyncFromOutgoingChannels, Goal, Raised
      <4>2. First(k) = ArcOf(k) /\ First(k)[1] = k
        BY DEF IndexInv, CounterAhead, First, ArcOf
      <4>3. index'[First(k)] = MaxOf(index[First(k)],
                                     MaxOf(store[k], chain[k[1]].ticket_index))
        BY <3>1, <3>3, <4>2, FirstArc DEF SyncFromOutgoingChannels, Goal, Raised
      <4> QED
        BY <1>1, <3>1, <3>2, <4>1, <4>3, FirstArc DEF MaxOf
    <3>4. CASE ~IsOpen(k)
      <4>1. store'[k] = Absent
        BY <3>1, <3>4 DEF SyncFromOutgoingChannels, Goal, Raised
      <4> QED
        BY <1>1, <3>1, <4>1, FirstArc DEF Absent
    <3> QED
      BY <3>3, <3>4
  <2> QED
    BY <2>1, <2>2
<1>6. CASE stored0' = stored0
  <2>1. StoredIndicesNotReissued'
    BY <1>6, <1>u DEF IndexInv, StoredIndicesNotReissued
  <2>2. CounterAhead'
    <3> SUFFICES ASSUME NEW k \in Keys \ retired
                 PROVE  /\ gen[k] = 0
                        /\ \A i \in Indices :
                              i < MAX_TICKET_INDEX /\ issued[k][i] > 0 => i < index'[First(k)]
                        /\ \A c \in Callers : Taking(c) /\ KeyOf(view[c]) = k =>
                              /\ taken[c] < index'[First(k)]
                              /\ taken[c] >= stored0[k]
                              /\ taken[c] < MAX_TICKET_INDEX => issued[k][taken[c]] = 0
      BY <1>5, <1>6, <1>u DEF CounterAhead, Taking, KeyOf, First
    <3>1. \A i \in Indices :
              i < MAX_TICKET_INDEX /\ issued[k][i] > 0 => i < index'[First(k)]
      BY <1>1, FirstArc DEF IndexInv, CounterAhead, Indices
    <3>2. \A c \in Callers : taken[c] \in Nat
      BY DEF TypeOK
    <3> QED
      BY <1>1, <3>1, <3>2, FirstArc DEF IndexInv, CounterAhead
  <2> QED
    BY <1>2, <1>3, <1>4, <2>1, <2>2 DEF IndexInv
<1>7. CASE stored0' # stored0
  <2>1. ~synced
    BY <1>7 DEF SyncFromOutgoingChannels, Goal, Raised
  <2>2. /\ \A c \in Callers : pc[c] = "idle"
        /\ \A k \in Keys : \A i \in Indices : issued[k][i] = 0
    BY <2>1 DEF IndexInv, QuietUntilSynced
  <2>3. CounterAhead' /\ StoredIndicesNotReissued'
    BY <1>5, <1>u, <2>2 DEF IndexInv, CounterAhead, StoredIndicesNotReissued, Taking, First
  <2> QED
    BY <1>2, <1>3, <1>4, <2>3 DEF IndexInv
<1> QED
  BY <1>6, <1>7

\* LookUpChannel and RejectTicket move a caller that holds no index.
LEMMA IndexLookUp ==
    ASSUME TypeOK, IndexInv, NEW c \in Callers,
           \/ \E ch \in Channels : LookUpChannel(c, ch)
           \/ RejectTicket(c)
    PROVE  IndexInv'
<1>1. /\ UNCHANGED <<gen, index, synced, taken, issued, retired, stored0>>
      /\ pc'[c] \in {"idle", "called"}
      /\ \A d \in Callers \ {c} : pc'[d] = pc[d] /\ view'[d] = view[d]
      /\ ~synced => pc'[c] = "idle"
  <2>1. \A ch \in Channels : LookUpChannel(c, ch) => synced
    BY DEF LookUpChannel
  <2>2. RejectTicket(c) => pc'[c] = "idle"
    BY DEF RejectTicket, TypeOK
  <2> QED
    BY <2>1, <2>2 DEF LookUpChannel, RejectTicket, TypeOK, entryVars, ghostVars
<1>2. \A d \in Callers : Taking(d)' => d # c /\ Taking(d) /\ view'[d] = view[d]
  BY <1>1 DEF Taking
<1>3. \A d \in Callers : pc'[d] = "retake" => pc[d] = "retake" /\ view'[d] = view[d]
  BY <1>1
<1>4. QuietUntilSynced' /\ NoIndexIssuedTwice' /\ StoredIndicesNotReissued'
  BY <1>1 DEF IndexInv, QuietUntilSynced, NoIndexIssuedTwice, StoredIndicesNotReissued
<1>5. CounterAhead'
  <2> SUFFICES ASSUME NEW k \in Keys \ retired, NEW d \in Callers, Taking(d)',
                      KeyOf(view'[d]) = k
               PROVE  /\ taken[d] < index[First(k)]
                      /\ taken[d] >= stored0[k]
                      /\ taken[d] < MAX_TICKET_INDEX => issued[k][taken[d]] = 0
    BY <1>1 DEF IndexInv, CounterAhead, KeyOf, First
  <2>1. Taking(d) /\ KeyOf(view[d]) = k
    BY <1>2
  <2> QED
    BY <2>1 DEF IndexInv, CounterAhead
<1>6. TakenDistinct'
  BY <1>1, <1>2 DEF IndexInv, TakenDistinct, KeyOf
<1>7. LiftedCounter'
  BY <1>1, <1>3 DEF IndexInv, LiftedCounter, ArcOf, KeyOf
<1>8. IndexNotBelowChannel'
  <2>1. taken' = taken
    BY <1>1
  <2>2. \A d \in Callers : Taking(d) => taken[d] >= view[d].ticket_index
    BY DEF IndexInv, IndexNotBelowChannel, Taking
  <2> QED
    BY <1>2, <2>1, <2>2 DEF IndexNotBelowChannel, Taking
<1> QED
  BY <1>4, <1>5, <1>6, <1>7, <1>8 DEF IndexInv

\* The counter steps of an index-taking call: FetchAdd, FetchMax and
\* FetchAddAgain only ever raise the counter of the caller's own key.
LEMMA IndexTake ==
    ASSUME TypeOK, IndexInv, NEW c \in Callers,
           FetchAdd(c) \/ FetchMax(c) \/ FetchAddAgain(c)
    PROVE  IndexInv'
<1> DEFINE k == KeyOf(view[c])
           a == ArcOf(k)
<1>k. k \in Keys /\ a \in Arcs
  BY KeyTypes
<1>t. /\ index \in [Arcs -> Nat] /\ taken \in [Callers -> Nat]
      /\ pc \in [Callers -> {"idle", "called", "ret"} \cup Holding]
      /\ \A d \in Callers : view[d].ticket_index \in Nat
      /\ \A j \in Keys : stored0[j] \in Int
  <2>1. \A d \in Callers : view[d].ticket_index \in Nat
    BY Constants DEF TypeOK, ViewType
  <2>2. \A j \in Keys : stored0[j] \in Int
    BY DEF TypeOK, Indices, Absent
  <2> QED
    BY <2>1, <2>2 DEF TypeOK
<1>u. UNCHANGED <<gen, synced, view, issued, retired, stored0>>
  BY DEF FetchAdd, FetchMax, Raised, FetchAddAgain, ghostVars
<1>s. synced
  <2>1. pc[c] # "idle"
    BY DEF FetchAdd, FetchMax, Raised, FetchAddAgain
  <2> QED
    BY <2>1 DEF IndexInv, QuietUntilSynced
<1>p. \A d \in Callers \ {c} : pc'[d] = pc[d] /\ taken'[d] = taken[d]
  BY <1>t DEF FetchAdd, FetchMax, Raised, FetchAddAgain
<1>m. \A b \in Arcs : index'[b] \in Nat /\ index[b] <= index'[b]
  BY <1>k, <1>t DEF FetchAdd, FetchMax, Raised, FetchAddAgain, MaxOf
\* What the call holds when it has just taken its index.
<1>n. Taking(c)' => /\ taken'[c] = index[a]
                    /\ index'[a] = index[a] + 1
                    /\ index[a] >= view[c].ticket_index
  <2>1. CASE FetchAdd(c)
    BY <2>1, <1>k, <1>t DEF FetchAdd, Taking
  <2>2. CASE FetchMax(c)
    BY <2>2, <1>t DEF FetchMax, Raised, Taking
  <2>3. CASE FetchAddAgain(c)
    BY <2>3, <1>k, <1>t DEF FetchAddAgain, Taking, IndexInv, LiftedCounter
  <2> QED
    BY <2>1, <2>2, <2>3
<1>o. \A d \in Callers \ {c} : Taking(d)' => Taking(d)
  BY <1>p DEF Taking
<1>1. QuietUntilSynced' /\ NoIndexIssuedTwice' /\ StoredIndicesNotReissued'
  BY <1>u, <1>s DEF IndexInv, QuietUntilSynced, NoIndexIssuedTwice, StoredIndicesNotReissued
<1>2. CounterAhead'
  <2> SUFFICES ASSUME NEW j \in Keys \ retired
               PROVE  /\ gen[j] = 0
                      /\ stored0[j] <= index'[First(j)]
                      /\ \A i \in Indices :
                            i < MAX_TICKET_INDEX /\ issued[j][i] > 0 => i < index'[First(j)]
                      /\ \A d \in Callers : Taking(d)' /\ KeyOf(view[d]) = j =>
                            /\ taken'[d] < index'[First(j)]
                            /\ taken'[d] >= stored0[j]
                            /\ taken'[d] < MAX_TICKET_INDEX => issued[j][taken'[d]] = 0
    BY <1>u DEF CounterAhead, KeyOf, First
  <2>1. /\ gen[j] = 0 /\ stored0[j] <= index[First(j)]
        /\ \A i \in Indices :
              i < MAX_TICKET_INDEX /\ issued[j][i] > 0 => i < index[First(j)]
        /\ \A d \in Callers : Taking(d) /\ KeyOf(view[d]) = j =>
              /\ taken[d] < index[First(j)]
              /\ taken[d] >= stored0[j]
              /\ taken[d] < MAX_TICKET_INDEX => issued[j][taken[d]] = 0
    BY DEF IndexInv, CounterAhead
  <2>2. index[First(j)] \in Nat /\ index'[First(j)] \in Nat
        /\ index[First(j)] <= index'[First(j)]
    BY <1>m, <1>t, FirstArc
  <2>3. stored0[j] <= index'[First(j)]
    BY <2>1, <2>2, <1>t
  <2>4. \A i \in Indices : i < MAX_TICKET_INDEX /\ issued[j][i] > 0 => i < index'[First(j)]
    BY <2>1, <2>2 DEF Indices
  <2>5. ASSUME NEW d \in Callers \ {c}, Taking(d)', KeyOf(view[d]) = j
        PROVE  /\ taken'[d] < index'[First(j)]
               /\ taken'[d] >= stored0[j]
               /\ taken'[d] < MAX_TICKET_INDEX => issued[j][taken'[d]] = 0
    <3>1. Taking(d) /\ taken'[d] = taken[d] /\ taken[d] \in Nat
      BY <2>5, <1>o, <1>p, <1>t
    <3> QED
      BY <2>1, <2>2, <2>5, <3>1
  <2>6. ASSUME Taking(c)', KeyOf(view[c]) = j
        PROVE  /\ taken'[c] < index'[First(j)]
               /\ taken'[c] >= stored0[j]
               /\ taken'[c] < MAX_TICKET_INDEX => issued[j][taken'[c]] = 0
    <3>1. First(j) = a
      BY <2>1, <2>6 DEF First, ArcOf
    <3>2. taken'[c] = index[First(j)] /\ index'[First(j)] = index[First(j)] + 1
      BY <1>n, <2>6, <3>1
    <3>3. taken'[c] < MAX_TICKET_INDEX => issued[j][taken'[c]] = 0
      <4> SUFFICES ASSUME taken'[c] < MAX_TICKET_INDEX PROVE issued[j][taken'[c]] = 0
        OBVIOUS
      <4>1. taken'[c] \in Indices
        BY <2>2, <3>2 DEF Indices
      <4>2. issued[j][taken'[c]] \in Nat
        BY <4>1 DEF TypeOK
      <4>3. ~(taken'[c] < index[First(j)])
        BY <2>2, <3>2
      <4> QED
        BY <2>1, <4>1, <4>2, <4>3
    <3> QED
      BY <2>1, <2>2, <3>2, <3>3, <1>t
  <2> QED
    BY <2>1, <2>3, <2>4, <2>5, <2>6
<1>3. TakenDistinct'
  <2>1. ASSUME NEW d \in Callers \ {c}, Taking(c)', Taking(d)', KeyOf(view[d]) = k,
               k \notin retired
        PROVE  taken'[c] # taken'[d]
    <3>1. Taking(d) /\ taken'[d] = taken[d]
      BY <2>1, <1>o, <1>p
    <3>2. gen[k] = 0 /\ taken[d] < index[First(k)]
      BY <2>1, <3>1, <1>k DEF IndexInv, CounterAhead
    <3>3. taken'[c] = index[First(k)] /\ index[First(k)] \in Nat /\ taken[d] \in Nat
      BY <2>1, <3>2, <1>n, <1>k, <1>t DEF First, ArcOf
    <3> QED
      BY <3>1, <3>2, <3>3
  <2>2. ASSUME NEW d \in Callers \ {c}, NEW e \in Callers \ {c}, d # e, Taking(d)', Taking(e)',
               KeyOf(view[d]) = KeyOf(view[e]), KeyOf(view[d]) \notin retired
        PROVE  taken'[d] # taken'[e]
    BY <2>2, <1>o, <1>p DEF IndexInv, TakenDistinct
  <2> QED
    BY <2>1, <2>2, <1>u DEF TakenDistinct, KeyOf
<1>4. LiftedCounter'
  <2> SUFFICES ASSUME NEW d \in Callers, pc'[d] = "retake"
               PROVE  index'[ArcOf(KeyOf(view[d]))] >= view[d].ticket_index
    BY <1>u DEF LiftedCounter, ArcOf, KeyOf
  <2>1. ArcOf(KeyOf(view[d])) \in Arcs
    BY KeyTypes
  <2>2. CASE pc[d] = "retake"
    BY <2>1, <2>2, <1>m, <1>t DEF IndexInv, LiftedCounter
  <2>3. CASE pc[d] # "retake"
    <3>1. d = c /\ FetchMax(c)
      BY <2>3, <1>p, <1>t DEF FetchAdd, FetchMax, Raised, FetchAddAgain
    <3>2. index'[a] = MaxOf(index[a], view[c].ticket_index)
      BY <3>1, <1>k, <1>t DEF FetchMax, Raised
    <3> QED
      BY <3>1, <3>2, <1>k, <1>t DEF MaxOf
  <2> QED
    BY <2>2, <2>3
<1>5. IndexNotBelowChannel'
  <2> SUFFICES ASSUME NEW d \in Callers, Taking(d)'
               PROVE  taken'[d] >= view[d].ticket_index
    BY <1>u DEF IndexNotBelowChannel, Taking
  <2>1. CASE d = c
    BY <2>1, <1>n
  <2>2. CASE d # c
    BY <2>2, <1>o, <1>p DEF IndexInv, IndexNotBelowChannel, Taking
  <2> QED
    BY <2>1, <2>2
<1> QED
  BY <1>1, <1>2, <1>3, <1>4, <1>5 DEF IndexInv

\* Marking the entry dirty leaves the counters alone.
LEMMA IndexMarkDirty ==
    ASSUME TypeOK, IndexInv, NEW c \in Callers, MarkDirty(c)
    PROVE  IndexInv'
<1>1. /\ UNCHANGED <<gen, index, synced, view, taken, issued, retired, stored0>>
      /\ pc[c] = "mark" /\ pc' = [pc EXCEPT ![c] = "ret"]
  BY DEF MarkDirty, ghostVars
<1>2. \A d \in Callers : /\ Taking(d)' <=> Taking(d)
                         /\ pc'[d] = "retake" <=> pc[d] = "retake"
  BY <1>1 DEF Taking, TypeOK
<1>3. synced
  BY <1>1 DEF IndexInv, QuietUntilSynced
<1>4. QuietUntilSynced' /\ NoIndexIssuedTwice' /\ StoredIndicesNotReissued'
  BY <1>1, <1>3
     DEF IndexInv, QuietUntilSynced, NoIndexIssuedTwice, StoredIndicesNotReissued
<1>5. CounterAhead' /\ TakenDistinct'
  BY <1>1, <1>2 DEF IndexInv, CounterAhead, TakenDistinct, KeyOf, First
<1>6. LiftedCounter'
  BY <1>1, <1>2 DEF IndexInv, LiftedCounter, KeyOf, ArcOf
<1>7. IndexNotBelowChannel'
  BY <1>1, <1>2 DEF IndexInv, IndexNotBelowChannel, Taking
<1> QED
  BY <1>4, <1>5, <1>6, <1>7 DEF IndexInv

\* Returning an index counts it once; dropping the previous epoch's counter
\* retires that key and never happens while its entry is locked.
LEMMA IndexReturn ==
    ASSUME TypeOK, IndexInv, NEW c \in Callers, ReturnIndex(c)
    PROVE  IndexInv'
<1> DEFINE k == KeyOf(view[c])
           v == taken[c]
           prev == <<view[c].ch, view[c].epoch - 1>>
           drop == Cap(v) = 0 /\ view[c].epoch > 1 /\ prev \in cached
<1>k. k \in Keys
  BY KeyTypes
<1>t. /\ v \in Nat /\ Cap(v) \in Indices
      /\ \A j \in Keys : \A i \in Indices : issued[j][i] \in Nat
      /\ \A d \in Callers : taken[d] \in Nat
      /\ pc \in [Callers -> {"idle", "called", "ret"} \cup Holding]
      /\ \A j \in Keys : stored0[j] \in Int /\ stored0[j] <= MAX_TICKET_INDEX
  <2>1. \A j \in Keys : stored0[j] \in Indices \cup {Absent}
    BY DEF TypeOK
  <2>2. \A j \in Keys : stored0[j] \in Int /\ stored0[j] <= MAX_TICKET_INDEX
    BY <2>1 DEF Indices, Absent
  <2> QED
    BY <2>2, CapType DEF TypeOK
<1>1. /\ UNCHANGED <<index, synced, stored0>>
      /\ pc[c] = "ret" /\ pc' = [pc EXCEPT ![c] = "idle"]
      /\ \A d \in Callers \ {c} : view'[d] = view[d] /\ taken'[d] = taken[d]
      /\ issued' = [issued EXCEPT ![k][Cap(v)] = @ + 1]
      /\ retired \subseteq retired'
  BY DEF ReturnIndex, TypeOK
<1>2. \A j \in Keys : \A i \in Indices :
          issued'[j][i] = IF j = k /\ i = Cap(v) THEN issued[j][i] + 1 ELSE issued[j][i]
  BY <1>1, <1>k, <1>t DEF TypeOK
<1>3. \A j \in Keys : j \notin retired' => gen'[j] = gen[j]
  BY DEF ReturnIndex, TypeOK
<1>4. \A d \in Callers : Taking(d)' => d # c /\ Taking(d)
  BY <1>1, <1>t DEF Taking
<1>5. synced
  BY <1>1 DEF IndexInv, QuietUntilSynced
<1>6. Taking(c)
  BY <1>1 DEF Taking
<1>7. k \notin retired =>
          /\ v < index[First(k)] /\ v >= stored0[k]
          /\ v < MAX_TICKET_INDEX => issued[k][v] = 0
  BY <1>6, <1>k DEF IndexInv, CounterAhead
<1>c. /\ Cap(v) < MAX_TICKET_INDEX => Cap(v) = v
      /\ k \notin retired => Cap(v) >= stored0[k]
  BY <1>7, <1>k, <1>t DEF Cap
<1>8. QuietUntilSynced'
  BY <1>1, <1>5 DEF QuietUntilSynced
<1>9. NoIndexIssuedTwice'
  <2> SUFFICES ASSUME NEW j \in Keys \ retired', NEW i \in Indices, i < MAX_TICKET_INDEX
               PROVE  issued'[j][i] <= 1
    BY DEF NoIndexIssuedTwice
  <2>1. issued[j][i] <= 1
    BY <1>1 DEF IndexInv, NoIndexIssuedTwice
  <2>2. CASE j = k /\ i = Cap(v)
    BY <2>2, <1>1, <1>2, <1>7, <1>c
  <2>3. CASE ~(j = k /\ i = Cap(v))
    BY <2>1, <2>3, <1>2
  <2> QED
    BY <2>2, <2>3
<1>10. StoredIndicesNotReissued'
  <2> SUFFICES ASSUME NEW j \in Keys \ retired', NEW i \in Indices, issued'[j][i] > 0
               PROVE  i >= stored0[j]
    BY <1>1 DEF StoredIndicesNotReissued
  <2>1. CASE j = k /\ i = Cap(v)
    BY <2>1, <1>1, <1>c
  <2>2. CASE ~(j = k /\ i = Cap(v))
    BY <2>2, <1>1, <1>2 DEF IndexInv, StoredIndicesNotReissued
  <2> QED
    BY <2>1, <2>2
<1>11. CounterAhead'
  <2> SUFFICES ASSUME NEW j \in Keys \ retired'
               PROVE  /\ gen'[j] = 0
                      /\ stored0[j] <= index[First(j)]
                      /\ \A i \in Indices :
                            i < MAX_TICKET_INDEX /\ issued'[j][i] > 0 => i < index[First(j)]
                      /\ \A d \in Callers : Taking(d)' /\ KeyOf(view'[d]) = j =>
                            /\ taken'[d] < index[First(j)]
                            /\ taken'[d] >= stored0[j]
                            /\ taken'[d] < MAX_TICKET_INDEX => issued'[j][taken'[d]] = 0
    BY <1>1 DEF CounterAhead, KeyOf, First
  <2>1. j \in Keys \ retired
    BY <1>1
  <2>2. gen'[j] = 0 /\ stored0[j] <= index[First(j)]
    BY <2>1, <1>3 DEF IndexInv, CounterAhead
  <2>3. ASSUME NEW i \in Indices, i < MAX_TICKET_INDEX, issued'[j][i] > 0
        PROVE  i < index[First(j)]
    <3>1. CASE j = k /\ i = Cap(v)
      BY <3>1, <2>1, <2>3, <1>7, <1>c
    <3>2. CASE ~(j = k /\ i = Cap(v))
      BY <3>2, <2>1, <2>3, <1>2 DEF IndexInv, CounterAhead
    <3> QED
      BY <3>1, <3>2
  <2>4. ASSUME NEW d \in Callers, Taking(d)', KeyOf(view'[d]) = j
        PROVE  /\ taken'[d] < index[First(j)]
               /\ taken'[d] >= stored0[j]
               /\ taken'[d] < MAX_TICKET_INDEX => issued'[j][taken'[d]] = 0
    <3>1. /\ d # c /\ Taking(d) /\ taken'[d] = taken[d]
          /\ view'[d] = view[d] /\ KeyOf(view[d]) = j
      BY <2>4, <1>1, <1>4
    <3>2. /\ taken[d] < index[First(j)] /\ taken[d] >= stored0[j]
          /\ taken[d] < MAX_TICKET_INDEX => issued[j][taken[d]] = 0
      BY <2>1, <3>1 DEF IndexInv, CounterAhead
    <3>3. j = k => taken[d] # v
      BY <2>1, <3>1, <1>6 DEF IndexInv, TakenDistinct
    <3>4. taken[d] < MAX_TICKET_INDEX => taken[d] \in Indices
      BY <1>t DEF Indices
    <3>5. taken[d] < MAX_TICKET_INDEX => ~(j = k /\ taken[d] = Cap(v))
      BY <3>3, <1>c
    <3> QED
      BY <3>1, <3>2, <3>4, <3>5, <1>2
  <2> QED
    BY <2>2, <2>3, <2>4
<1>12. TakenDistinct'
  BY <1>1, <1>4 DEF IndexInv, TakenDistinct, KeyOf
<1>13. LiftedCounter'
  <2> SUFFICES ASSUME NEW d \in Callers, pc'[d] = "retake"
               PROVE  index[<<KeyOf(view'[d]), gen'[KeyOf(view'[d])]>>] >= view'[d].ticket_index
    BY <1>1 DEF LiftedCounter, KeyOf, ArcOf
  <2>1. d # c /\ pc[d] = "retake" /\ view'[d] = view[d]
    BY <1>1, <1>t
  <2>2. gen'[KeyOf(view[d])] = gen[KeyOf(view[d])]
    <3>1. KeyOf(view[d]) \in Keys
      BY KeyTypes
    <3>2. CASE drop
      <4>1. Unlocked(prev) /\ gen' = [gen EXCEPT ![prev] = @ + 1]
        BY <3>2 DEF ReturnIndex
      <4>2. KeyOf(view[d]) # prev
        BY <4>1, <2>1 DEF Unlocked, Holding
      <4> QED
        BY <3>1, <4>1, <4>2 DEF TypeOK
    <3>3. CASE ~drop
      BY <3>3 DEF ReturnIndex
    <3> QED
      BY <3>2, <3>3
  <2>3. index[ArcOf(KeyOf(view[d]))] >= view[d].ticket_index
    BY <2>1 DEF IndexInv, LiftedCounter
  <2> QED
    BY <2>1, <2>2, <2>3 DEF ArcOf
<1>14. IndexNotBelowChannel'
  BY <1>1, <1>4 DEF IndexInv, IndexNotBelowChannel, Taking
<1> QED
  BY <1>8, <1>9, <1>10, <1>11, <1>12, <1>13, <1>14 DEF IndexInv

\* IndexInv is inductive, for any number of channels, callers and savers.
THEOREM IndexInvariant == Spec => []IndexInv
<1>1. TypeOK /\ IndexInv /\ [Next]_vars => IndexInv'
  <2> SUFFICES ASSUME TypeOK, IndexInv, [Next]_vars PROVE IndexInv'
    OBVIOUS
  <2>1. CASE UNCHANGED vars
    BY <2>1, IndexUnchanged DEF vars, IndexVars
  <2>2. ASSUME NEW ch \in Channels, ChainStep(ch) PROVE IndexInv'
    BY <2>2, IndexUnchanged
       DEF ChainStep, RedeemedByDestination, CloseChannel, ReopenChannel, IndexVars,
           entryVars, callerVars, ghostVars
  <2>3. ASSUME NEW s \in Savers, SaveStep(s) PROVE IndexInv'
    BY <2>3, IndexUnchanged
       DEF SaveStep, CloneCache, CloneRemoved, LoadEntry, SavedValue, WriteEntry, MarkClean,
           DeleteRemoved, EndSave, SaveUnchanged, IndexVars, callerVars
  <2>4. ASSUME NEW c \in Callers, CallStep(c) PROVE IndexInv'
    BY <2>4, IndexLookUp, IndexTake, IndexMarkDirty, IndexReturn DEF CallStep
  <2> QED
    BY <2>1, <2>2, <2>3, <2>4, IndexSync, IndexRestart DEF Next
<1> QED
  BY <1>1, IndexInit, TypeCorrect, PTL DEF Spec

\* next_outgoing_ticket_index never hands out an index below the saturation
\* value twice while the counter of the channel and epoch is not dropped.
THEOREM IndexUniqueness == Spec => []NoIndexIssuedTwice
BY IndexInvariant, PTL DEF IndexInv

\* Every index taken is at least the ticket index of the given channel entry.
THEOREM IndexLowerBound == Spec => []IndexNotBelowChannel
BY IndexInvariant, PTL DEF IndexInv

\* No index below the one stored for an open channel at start-up is returned.
THEOREM StoredFloor == Spec => []StoredIndicesNotReissued
BY IndexInvariant, PTL DEF IndexInv
-----------------------------------------------------------------------------
(* Saved indices are durable.                                               *)

\* The parts of keys and of arcs.
LEMMA KeyParts ==
    ASSUME TypeOK, NEW k \in Keys
    PROVE  /\ k[1] \in Channels /\ k[2] \in Nat /\ chain[k[1]].epoch \in Nat
           /\ store[k] \in Int /\ First(k) \in Arcs /\ First(k)[1] = k
           /\ index[First(k)] \in Nat
<1>1. k[1] \in Channels /\ k[2] \in Nat
  BY DEF Keys, Epochs
<1>2. chain[k[1]] \in ChannelType /\ store[k] \in Indices \cup {Absent} /\ index[First(k)] \in Nat
  BY <1>1, FirstArc DEF TypeOK
<1> QED
  BY <1>1, <1>2, FirstArc DEF ChannelType, Epochs, First, Indices, Absent

\* An open channel's epoch is the current one.
LEMMA OpenIsCurrent ==
    ASSUME TypeOK, NEW k \in Keys, IsOpen(k)
    PROVE  ~Over(k) /\ ~ToCome(k)
BY KeyParts DEF IsOpen, Over, ToCome

\* Saturation at the boundary: what is below the counter and in range is below its stored value.
LEMMA CapAbove ==
    ASSUME NEW i \in Nat, NEW n \in Nat, i < n, i < MAX_TICKET_INDEX
    PROVE  i < Cap(n)
BY DEF Cap

\* What the counter invariant says of an open channel.
LEMMA OpenCounter ==
    ASSUME TypeOK, IndexInv, EpochsInOrder, NEW k \in Keys, ~Over(k)
    PROVE  /\ k \notin retired /\ ArcOf(k) = First(k)
           /\ \A i \in Returned(k) : i \in Nat /\ i < index[First(k)] /\ i < MAX_TICKET_INDEX
<1>1. k \notin retired
  BY DEF EpochsInOrder
<1>2. gen[k] = 0 /\ \A i \in Indices : i < MAX_TICKET_INDEX /\ issued[k][i] > 0 => i < index[First(k)]
  BY <1>1 DEF IndexInv, CounterAhead
<1> QED
  BY <1>1, <1>2 DEF ArcOf, First, Returned, Indices

\* At the start nothing is returned, stored or promised.
LEMMA DurableInit == Init => DurableInv
<1> SUFFICES ASSUME Init PROVE DurableInv
  OBVIOUS
<1>1. TypeOK
  BY TypeInit
<1>2. \A k \in Keys : ~Over(k)
  BY <1>1, KeyParts DEF Init, Over, Keys, Epochs
<1>3. \A c \in Callers : ~ToCome(KeyOf(view[c]))
  BY Constants DEF Init, ToCome, KeyOf, NoView
<1>4. EpochsInOrder
  BY <1>3 DEF EpochsInOrder, Init, NeverIssued
<1>5. SaversInOrder /\ SavesAreApart /\ WritesAreCurrent
  BY DEF SaversInOrder, SavesAreApart, WritesAreCurrent, Init, WorkedOn, Saving, IdleSaver
<1>6. InUseIsCached
  BY DEF InUseIsCached, Init, NeverIssued, Calling, Holding
<1>7. CleanIsStored
  BY FirstArc DEF CleanIsStored, Init
<1>8. PromisesInHand /\ PromisedInRange /\ SavedIndicesAreDurable
  BY DEF PromisesInHand, PromisedInRange, SavedIndicesAreDurable, Init, Saving, IdleSaver
<1> QED
  BY <1>4, <1>5, <1>6, <1>7, <1>8 DEF DurableInv

\* Epochs only move on, and a channel that is open afterwards either was open in
\* that epoch before or has just reached it.
LEMMA ChainMovesOn ==
    ASSUME TypeOK, NEW ch \in Channels, ChainStep(ch)
    PROVE  /\ UNCHANGED <<store, entryVars, synced, callerVars, saver, ghostVars>>
           /\ \A k \in Keys : (Over(k) => Over(k)') /\ (ToCome(k)' => ToCome(k))
           /\ \A k \in Keys : IsOpen(k)' => IsOpen(k) \/ ToCome(k)
<1>t. chain \in [Channels -> ChannelType]
  BY DEF TypeOK
<1>1. CASE RedeemedByDestination(ch)
  <2>1. \A d \in Channels : chain'[d].epoch = chain[d].epoch /\ chain'[d].status = chain[d].status
    BY <1>1, <1>t DEF RedeemedByDestination, ChannelType
  <2> QED
    BY <1>1, <2>1, KeyParts DEF RedeemedByDestination, Over, ToCome, IsOpen
<1>2. CASE CloseChannel(ch)
  <2>1. \A d \in Channels : chain'[d].epoch = chain[d].epoch
            /\ (chain'[d].status = "Open" => chain[d].status = "Open")
    BY <1>2, <1>t DEF CloseChannel, ChannelType
  <2> QED
    BY <1>2, <2>1, KeyParts DEF CloseChannel, Over, ToCome, IsOpen
<1>3. CASE ReopenChannel(ch)
  <2>1. \A d \in Channels \ {ch} : chain'[d] = chain[d]
    BY <1>3, <1>t DEF ReopenChannel
  <2>2. chain'[ch].epoch = chain[ch].epoch + 1
    BY <1>3, <1>t DEF ReopenChannel
  <2>3. ASSUME NEW k \in Keys
        PROVE  /\ (Over(k) => Over(k)') /\ (ToCome(k)' => ToCome(k))
               /\ IsOpen(k)' => IsOpen(k) \/ ToCome(k)
    BY <2>1, <2>2, KeyParts DEF Over, ToCome, IsOpen
  <2> QED
    BY <1>3, <2>3 DEF ReopenChannel
<1> QED
  BY <1>1, <1>2, <1>3 DEF ChainStep

\* What happens on chain: a channel that is new in its epoch has nothing yet.
LEMMA DurableChain ==
    ASSUME TypeOK, IndexInv, DurableInv, NEW ch \in Channels, ChainStep(ch)
    PROVE  DurableInv'
<1>1. /\ UNCHANGED <<store, entryVars, synced, callerVars, saver, ghostVars>>
      /\ \A k \in Keys : (Over(k) => Over(k)') /\ (ToCome(k)' => ToCome(k))
      /\ \A k \in Keys : IsOpen(k)' => IsOpen(k) \/ ToCome(k)
  BY ChainMovesOn
<1>u. UNCHANGED <<store, cached, gen, index, dirty, removed, synced, pc, view, taken, saver, issued,
                  retired, stored0, promised, outstanding>>
  BY <1>1 DEF entryVars, callerVars, ghostVars
<1>k. \A c \in Callers : KeyOf(view[c]) \in Keys
  BY KeyTypes
<1>s. \A s \in Savers : saver[s] \in SaverType /\ WorkedOn(s) \subseteq Arcs
  BY DEF TypeOK, SaverType, WorkedOn
<1>2. EpochsInOrder'
  BY <1>1, <1>u, <1>k DEF DurableInv, EpochsInOrder, KeyOf
<1>3. SaversInOrder'
  <2> SUFFICES ASSUME NEW s \in Savers
               PROVE  /\ \A k \in saver[s].dels : Over(k)'
                      /\ \A a \in WorkedOn(s) : ~ToCome(a[1])' /\ (~Over(a[1])' => a = First(a[1]))
    BY <1>u DEF SaversInOrder, WorkedOn, First
  <2>1. \A k \in saver[s].dels : k \in Keys /\ Over(k)
    BY <1>s DEF DurableInv, SaversInOrder, SaverType
  <2>2. \A a \in WorkedOn(s) : a[1] \in Keys /\ ~ToCome(a[1]) /\ (~Over(a[1]) => a = First(a[1]))
    BY <1>s DEF DurableInv, SaversInOrder, Arcs
  <2> QED
    BY <1>1, <2>1, <2>2
<1>4. SavesAreApart' /\ InUseIsCached' /\ PromisedInRange'
  BY <1>u DEF DurableInv, SavesAreApart, InUseIsCached, PromisedInRange, Saving, Calling, KeyOf,
     First
<1>n. \A k \in Keys : ToCome(k) => store[k] = Absent /\ promised[k] = {} /\ Returned(k) = {}
  BY DEF DurableInv, EpochsInOrder, Returned
<1>5. CleanIsStored'
  <2> SUFFICES ASSUME NEW k \in Keys, IsOpen(k)'
               PROVE  /\ synced => store[k] <= index[First(k)]
                      /\ ~dirty[First(k)] => \A i \in Returned(k) : i < store[k]
    BY <1>u DEF CleanIsStored, Returned, First
  <2>1. CASE IsOpen(k)
    BY <2>1 DEF DurableInv, CleanIsStored
  <2>2. CASE ToCome(k)
    BY <2>2, <1>n, KeyParts DEF Absent
  <2> QED
    BY <1>1, <2>1, <2>2
<1>6. WritesAreCurrent'
  <2> SUFFICES ASSUME NEW s \in Savers, saver[s].pc = "clean", IsOpen(saver[s].arc[1])'
               PROVE  store[saver[s].arc[1]] = saver[s].val
    BY <1>u DEF DurableInv, WritesAreCurrent
  <2>1. saver[s].arc \in WorkedOn(s) /\ saver[s].arc[1] \in Keys
    BY <1>s DEF WorkedOn, SaverType, Arcs
  <2>2. ~ToCome(saver[s].arc[1])
    BY <2>1 DEF DurableInv, SaversInOrder
  <2> QED
    BY <1>1, <2>1, <2>2 DEF DurableInv, WritesAreCurrent
<1>7. PromisesInHand'
  <2> SUFFICES ASSUME NEW s \in Savers, NEW k \in Keys
               PROVE  /\ saver[s].at[k] \subseteq Returned(k)
                      /\ Saving(s) /\ ~saver[s].failed /\ IsOpen(k)' => \A i \in saver[s].at[k] :
                            i < store[k] \/ First(k) \in WorkedOn(s)
    BY <1>u DEF PromisesInHand, WorkedOn, Returned, First, Saving
  <2> QED
    BY <1>1, <1>n DEF DurableInv, PromisesInHand
<1>8. SavedIndicesAreDurable'
  BY <1>1, <1>u, <1>n DEF DurableInv, SavedIndicesAreDurable
<1> QED
  BY <1>2, <1>3, <1>4, <1>5, <1>6, <1>7, <1>8 DEF DurableInv

\* A restart forgets the handles; what is stored stays.
LEMMA DurableRestart ==
    ASSUME TypeOK, DurableInv, Restart
    PROVE  DurableInv'
<1>u. UNCHANGED <<chain, store, promised>>
  BY DEF Restart
<1>o. \A k \in Keys : /\ (IsOpen(k)' <=> IsOpen(k)) /\ (Over(k)' <=> Over(k))
                      /\ (ToCome(k)' <=> ToCome(k))
  BY <1>u DEF Over, ToCome, IsOpen
<1>1. EpochsInOrder'
  <2>1. \A c \in Callers : KeyOf(view'[c]) = KeyOf(NoView)
    BY DEF Restart
  <2>2. chain[NoView.ch].epoch \in Epochs
    BY Constants DEF TypeOK, ChannelType, ViewType
  <2>3. ~ToCome(KeyOf(NoView))'
    BY <2>2, <1>u DEF ToCome, KeyOf, NoView, Epochs
  <2>4. \A c \in Callers : ~ToCome(KeyOf(view[c]))'
    BY <2>1, <2>3 DEF ToCome, KeyOf
  <2>5. \A k \in Keys : ToCome(k)' => store'[k] = Absent /\ promised'[k] = {}
    BY <1>u, <1>o DEF DurableInv, EpochsInOrder
  <2> QED
    BY <2>4, <2>5 DEF EpochsInOrder, Restart, NeverIssued
<1>2. SaversInOrder' /\ SavesAreApart' /\ WritesAreCurrent'
  BY DEF SaversInOrder, SavesAreApart, WritesAreCurrent, Restart, WorkedOn, Saving, IdleSaver
<1>3. InUseIsCached'
  BY DEF InUseIsCached, Restart, NeverIssued, Calling, Holding
<1>4. CleanIsStored'
  BY FirstArc DEF CleanIsStored, Restart, First
<1>5. PromisesInHand'
  BY DEF PromisesInHand, Restart, Saving, IdleSaver
<1>6. PromisedInRange' /\ SavedIndicesAreDurable'
  BY <1>u, <1>o DEF DurableInv, PromisedInRange, SavedIndicesAreDurable
<1> QED
  BY <1>1, <1>2, <1>3, <1>4, <1>5, <1>6 DEF DurableInv

\* A sync keeps what is stored of open channels and lifts their counters to it.
LEMMA DurableSync ==
    ASSUME TypeOK, IndexInv, DurableInv, QuiescentSaves,
           NEW purged \in SUBSET Keys, NEW loaded \in SUBSET Keys,
           SyncFromOutgoingChannels(purged, loaded)
    PROVE  DurableInv'
<1>u. UNCHANGED <<chain, gen, removed, pc, view, taken, saver, issued, retired, promised>>
  BY DEF SyncFromOutgoingChannels, callerVars
<1>o. \A k \in Keys : /\ (IsOpen(k)' <=> IsOpen(k)) /\ (Over(k)' <=> Over(k))
                      /\ (ToCome(k)' <=> ToCome(k))
  BY <1>u DEF Over, ToCome, IsOpen
<1>s. \A s \in Savers : ~Saving(s)
  BY DEF SyncFromOutgoingChannels, NoSaveRunning
<1>k. \A k \in Keys : /\ IsOpen(k) => store'[k] = store[k]
                      /\ store[k] = Absent => store'[k] = Absent
  BY DEF SyncFromOutgoingChannels, TypeOK
<1>l. loaded \subseteq {k \in Keys : IsOpen(k)} /\ cached' = cached \cup loaded
  BY DEF SyncFromOutgoingChannels
<1>d. \A a \in Arcs : dirty[a] => dirty'[a]
  BY DEF SyncFromOutgoingChannels
<1>i. \A k \in Keys : IsOpen(k) /\ synced' => store[k] <= index'[First(k)]
  <2> SUFFICES ASSUME NEW k \in Keys, IsOpen(k), synced'
               PROVE  store[k] <= index'[First(k)]
    OBVIOUS
  <2>t. /\ store[k] \in Int /\ index[First(k)] \in Nat /\ chain[k[1]].ticket_index \in Int
        /\ First(k) \in Arcs /\ First(k)[1] = k
    <3>1. chain[k[1]] \in ChannelType
      BY KeyParts DEF TypeOK
    <3>2. chain[k[1]].ticket_index \in Int
      BY <3>1, Constants DEF ChannelType, Indices
    <3> QED
      BY <3>2, KeyParts
  <2>a. ArcOf(k) = First(k)
    BY OpenIsCurrent, OpenCounter DEF DurableInv
  <2>1. CASE k \in loaded
    <3>1. index'[First(k)] = MaxOf(index[First(k)], MaxOf(store[k], chain[k[1]].ticket_index))
      BY <2>1, <2>t, <2>a DEF SyncFromOutgoingChannels, Raised, Goal
    <3> QED
      BY <3>1, <2>t DEF MaxOf
  <2>2. CASE k \notin loaded
    <3>1. synced
      BY <2>2 DEF SyncFromOutgoingChannels
    <3>2. index'[First(k)] = index[First(k)]
      BY <2>2, <2>t DEF SyncFromOutgoingChannels
    <3> QED
      BY <3>1, <3>2 DEF DurableInv, CleanIsStored
  <2> QED
    BY <2>1, <2>2
<1>1. EpochsInOrder'
  <2>1. \A k \in Keys : ToCome(k) => k \notin cached'
    BY <1>l, OpenIsCurrent DEF DurableInv, EpochsInOrder
  <2>2. \A c \in Callers : ~ToCome(KeyOf(view[c]))'
    BY <1>u, <1>o, KeyTypes DEF DurableInv, EpochsInOrder, KeyOf
  <2>3. \A k \in Keys : ToCome(k) => store'[k] = Absent
    BY <1>k DEF DurableInv, EpochsInOrder
  <2> QED
    BY <2>1, <2>2, <2>3, <1>u, <1>o DEF DurableInv, EpochsInOrder
<1>2. SaversInOrder' /\ SavesAreApart'
  BY <1>u, <1>s DEF DurableInv, SaversInOrder, SavesAreApart, WorkedOn, Over, ToCome, First, Saving
<1>3. InUseIsCached'
  BY <1>u, <1>l, <1>d, FirstArc DEF DurableInv, InUseIsCached, Calling, KeyOf, First
<1>4. CleanIsStored'
  BY <1>u, <1>o, <1>k, <1>d, <1>i, FirstArc DEF DurableInv, CleanIsStored, Returned, First
<1>5. WritesAreCurrent'
  BY <1>u, <1>s DEF WritesAreCurrent, Saving
<1>6. PromisesInHand'
  BY <1>u, <1>s DEF DurableInv, PromisesInHand, Saving, Returned
<1>7. PromisedInRange' /\ SavedIndicesAreDurable'
  BY <1>u, <1>o, <1>k DEF DurableInv, PromisedInRange, SavedIndicesAreDurable
<1> QED
  BY <1>1, <1>2, <1>3, <1>4, <1>5, <1>6, <1>7 DEF DurableInv

\* A caller is given the channel as it is now, or gives up without an index.
LEMMA DurableLookUp ==
    ASSUME TypeOK, DurableInv, NEW c \in Callers,
           \/ \E ch \in Channels : LookUpChannel(c, ch)
           \/ RejectTicket(c)
    PROVE  DurableInv'
<1>u. UNCHANGED <<chain, store, cached, gen, index, dirty, removed, synced, taken, saver, issued,
                  retired, promised>>
  BY DEF LookUpChannel, RejectTicket, entryVars, ghostVars
<1>p. /\ pc'[c] \in {"idle", "called"}
      /\ \A d \in Callers \ {c} : pc'[d] = pc[d] /\ view'[d] = view[d]
  BY DEF LookUpChannel, RejectTicket, TypeOK
<1>v. ~ToCome(KeyOf(view[c]))'
  <2>1. CASE RejectTicket(c)
    <3>1. view'[c] = NoView
      BY <2>1 DEF RejectTicket, TypeOK
    <3>2. chain[NoView.ch].epoch \in Epochs
      BY Constants DEF TypeOK, ChannelType, ViewType
    <3> QED
      BY <3>1, <3>2, <1>u DEF ToCome, KeyOf, NoView, Epochs
  <2>2. ASSUME NEW ch \in Channels, LookUpChannel(c, ch)
        PROVE  ~ToCome(KeyOf(view[c]))'
    <3>1. view'[c].ch = ch /\ view'[c].epoch = chain[ch].epoch
      BY <2>2 DEF LookUpChannel, TypeOK
    <3>2. chain[ch].epoch \in Nat
      BY DEF TypeOK, ChannelType, Epochs
    <3> QED
      BY <3>1, <3>2, <1>u DEF ToCome, KeyOf
  <2> QED
    BY <2>1, <2>2
<1>o. \A k \in Keys : /\ (IsOpen(k)' <=> IsOpen(k)) /\ (Over(k)' <=> Over(k))
                      /\ (ToCome(k)' <=> ToCome(k))
  BY <1>u DEF Over, ToCome, IsOpen
<1>c. \A d \in Callers : /\ Calling(d)' => Calling(d) /\ view'[d] = view[d]
                         /\ pc'[d] = "ret" => pc[d] = "ret"
  BY <1>p DEF Calling, Holding
<1>1. EpochsInOrder'
  <2>1. \A d \in Callers \ {c} : ~ToCome(KeyOf(view[d]))'
    BY <1>p, <1>u DEF DurableInv, EpochsInOrder, ToCome, KeyOf
  <2> QED
    BY <1>u, <1>o, <1>v, <2>1 DEF DurableInv, EpochsInOrder
<1>2. SaversInOrder' /\ WritesAreCurrent' /\ PromisesInHand' /\ PromisedInRange' /\ SavedIndicesAreDurable'
  BY <1>u DEF DurableInv, SaversInOrder, WritesAreCurrent, PromisesInHand, PromisedInRange,
              SavedIndicesAreDurable, Over, ToCome, IsOpen, WorkedOn, First, Saving, Returned
<1>3. SavesAreApart'
  BY <1>u, <1>c DEF DurableInv, SavesAreApart, Saving
<1>4. InUseIsCached'
  <2>1. \A d \in Callers : pc'[d] = "ret" => Calling(d)'
    BY DEF Calling
  <2> QED
    BY <1>u, <1>c, <2>1 DEF DurableInv, InUseIsCached, KeyOf, First
<1>5. CleanIsStored'
  BY <1>u, <1>o DEF DurableInv, CleanIsStored, Returned, First
<1> QED
  BY <1>1, <1>2, <1>3, <1>4, <1>5 DEF DurableInv

\* Taking an index raises the counter of a key that is then in the map; no save
\* is under way.
LEMMA DurableTake ==
    ASSUME TypeOK, IndexInv, DurableInv, QuiescentSaves, NEW c \in Callers,
           FetchAdd(c) \/ FetchMax(c) \/ FetchAddAgain(c)
    PROVE  DurableInv'
<1> DEFINE k == KeyOf(view[c])
<1>k. k \in Keys /\ ArcOf(k) \in Arcs /\ ~ToCome(k)
  BY KeyTypes DEF DurableInv, EpochsInOrder
<1>u. UNCHANGED <<chain, store, gen, dirty, removed, synced, view, saver, issued, retired,
promised>>
  BY DEF FetchAdd, FetchMax, FetchAddAgain, ghostVars
<1>p. /\ Calling(c)' /\ pc'[c] # "ret"
      /\ \A d \in Callers \ {c} : pc'[d] = pc[d] /\ taken'[d] = taken[d]
  BY DEF FetchAdd, FetchMax, FetchAddAgain, TypeOK, Calling, Holding
<1>m. \A a \in Arcs : index'[a] \in Nat /\ index[a] \in Nat /\ index[a] <= index'[a]
  <2>1. view[c].ticket_index \in Nat
    BY Constants DEF TypeOK, ViewType
  <2>2. index \in [Arcs -> Nat]
    BY DEF TypeOK
  <2>3. CASE FetchAdd(c)
    BY <2>3, <2>2, <1>k DEF FetchAdd
  <2>4. CASE FetchMax(c)
    BY <2>4, <2>1, <2>2, <1>k DEF FetchMax, Raised, MaxOf
  <2>5. CASE FetchAddAgain(c)
    BY <2>5, <2>2, <1>k DEF FetchAddAgain
  <2> QED
    BY <2>3, <2>4, <2>5
<1>s. \A s \in Savers : ~Saving(s)
  <2>1. CASE FetchAdd(c)
    BY <2>1 DEF FetchAdd, NoSaveRunning
  <2>2. CASE FetchMax(c) \/ FetchAddAgain(c)
    <3>1. Calling(c)
      BY <2>2 DEF FetchMax, FetchAddAgain, Calling, Holding
    <3> QED
      BY <3>1 DEF DurableInv, SavesAreApart
  <2> QED
    BY <2>1, <2>2
<1>c. /\ cached \subseteq cached' /\ cached' \subseteq cached \cup {k}
      /\ k \notin retired => k \in cached'
  <2>1. CASE FetchAdd(c)
    BY <2>1 DEF FetchAdd
  <2>2. CASE FetchMax(c) \/ FetchAddAgain(c)
    <3>1. Calling(c) /\ cached' = cached
      BY <2>2 DEF FetchMax, FetchAddAgain, Calling, Holding
    <3> QED
      BY <3>1, <1>k DEF DurableInv, InUseIsCached
  <2> QED
    BY <2>1, <2>2
<1> HIDE DEF k
<1>o. \A j \in Keys : /\ (IsOpen(j)' <=> IsOpen(j)) /\ (Over(j)' <=> Over(j))
                      /\ (ToCome(j)' <=> ToCome(j))
  BY <1>u DEF Over, ToCome, IsOpen
<1>1. EpochsInOrder'
  <2>1. \A d \in Callers : ~ToCome(KeyOf(view[d]))'
    BY <1>u DEF DurableInv, EpochsInOrder, ToCome, KeyOf
  <2> QED
    BY <1>u, <1>o, <1>c, <1>k, <2>1 DEF DurableInv, EpochsInOrder
<1>2. SaversInOrder' /\ PromisesInHand' /\ PromisedInRange' /\ SavedIndicesAreDurable'
  BY <1>u DEF DurableInv, SaversInOrder, PromisesInHand, PromisedInRange,
              SavedIndicesAreDurable, Over, ToCome, IsOpen, WorkedOn, First, Saving, Returned
<1>3. SavesAreApart' /\ WritesAreCurrent'
  BY <1>u, <1>s DEF SavesAreApart, WritesAreCurrent, Saving
<1>4. InUseIsCached'
  <2>1. ASSUME NEW j \in Keys \ retired, NEW d \in Callers, KeyOf(view[d]) = j
        PROVE  /\ Calling(d)' => j \in cached'
               /\ pc'[d] = "ret" /\ taken'[d] <= MAX_TICKET_INDEX => dirty[First(j)]
    <3>1. CASE d = c
      BY <3>1, <2>1, <1>p, <1>c DEF k
    <3>2. CASE d # c
      BY <3>2, <2>1, <1>p, <1>c DEF DurableInv, InUseIsCached, Calling
    <3> QED
      BY <3>1, <3>2
  <2> QED
    BY <1>u, <1>c, <2>1 DEF DurableInv, InUseIsCached, KeyOf, First
<1>5. CleanIsStored'
  BY <1>u, <1>o, <1>m, KeyParts DEF DurableInv, CleanIsStored, Returned, First
<1> QED
  BY <1>1, <1>2, <1>3, <1>4, <1>5 DEF DurableInv

\* The index about to be returned leaves its counter dirty.
LEMMA DurableMark ==
    ASSUME TypeOK, IndexInv, DurableInv, NEW c \in Callers, MarkDirty(c)
    PROVE  DurableInv'
<1> DEFINE k == KeyOf(view[c])
<1>k. k \in Keys /\ ArcOf(k) \in Arcs
  BY KeyTypes
<1>u. UNCHANGED <<chain, store, cached, gen, index, removed, synced, view, taken, saver, issued,
                  retired, promised>>
  BY DEF MarkDirty, ghostVars
<1>p. /\ Calling(c) /\ pc'[c] = "ret"
      /\ \A d \in Callers \ {c} : pc'[d] = pc[d]
  BY DEF MarkDirty, TypeOK, Calling, Holding
<1>d. /\ \A a \in Arcs : dirty[a] => dirty'[a]
      /\ taken[c] <= MAX_TICKET_INDEX => dirty'[ArcOf(k)]
  BY <1>k DEF MarkDirty, TypeOK
<1>c. \A d \in Callers : Calling(d)' => Calling(d)
  BY <1>p DEF Calling
<1> HIDE DEF k
<1>1. EpochsInOrder' /\ SaversInOrder' /\ WritesAreCurrent'
  BY <1>u DEF DurableInv, EpochsInOrder, SaversInOrder, WritesAreCurrent, Over, ToCome, IsOpen,
     KeyOf, WorkedOn, First
<1>2. PromisesInHand' /\ PromisedInRange' /\ SavedIndicesAreDurable'
  BY <1>u DEF DurableInv, PromisesInHand, PromisedInRange, SavedIndicesAreDurable, Over, ToCome,
     IsOpen, WorkedOn,
              First, Saving, Returned
<1>3. SavesAreApart'
  BY <1>u, <1>c DEF DurableInv, SavesAreApart, Saving
<1>4. InUseIsCached'
  <2>1. ASSUME NEW j \in Keys \ retired, NEW d \in Callers, KeyOf(view[d]) = j
        PROVE  /\ Calling(d)' => j \in cached
               /\ pc'[d] = "ret" /\ taken[d] <= MAX_TICKET_INDEX => dirty'[First(j)]
    <3>1. CASE d = c
      <4>1. ArcOf(k) = First(k)
        BY <2>1, <3>1 DEF IndexInv, CounterAhead, ArcOf, First, k
      <4> QED
        BY <4>1, <3>1, <2>1, <1>p, <1>d DEF k, DurableInv, InUseIsCached
    <3>2. CASE d # c
      BY <3>2, <2>1, <1>p, <1>d, FirstArc DEF DurableInv, InUseIsCached, Calling
    <3> QED
      BY <3>1, <3>2
  <2> QED
    BY <1>u, <2>1 DEF DurableInv, InUseIsCached, KeyOf, First
<1>5. CleanIsStored'
  BY <1>u, <1>d, FirstArc DEF DurableInv, CleanIsStored, Returned, First, IsOpen
<1> QED
  BY <1>1, <1>2, <1>3, <1>4, <1>5 DEF DurableInv

\* The index is returned: its counter is dirty, and the counter dropped with it
\* is of an epoch that is over.
LEMMA DurableReturn ==
    ASSUME TypeOK, IndexInv, DurableInv, NEW c \in Callers, ReturnIndex(c)
    PROVE  DurableInv'
<1> DEFINE k == KeyOf(view[c])
           prev == <<view[c].ch, view[c].epoch - 1>>
           i0 == Cap(taken[c])
<1>t. /\ k \in Keys /\ ~ToCome(k) /\ k[1] = view[c].ch /\ k[2] = view[c].epoch
      /\ taken[c] \in Nat /\ i0 \in Indices
  <2>1. k \in Keys /\ ~ToCome(k)
    BY KeyTypes DEF DurableInv, EpochsInOrder
  <2>2. taken[c] \in Nat
    BY DEF TypeOK
  <2> QED
    BY <2>1, <2>2, Constants DEF KeyOf, Cap, Indices
<1>u. UNCHANGED <<chain, store, index, dirty, synced, saver, promised>>
  BY DEF ReturnIndex
<1>p. /\ pc[c] = "ret" /\ Calling(c) /\ pc'[c] = "idle" /\ view'[c] = NoView
      /\ \A d \in Callers \ {c} : pc'[d] = pc[d] /\ view'[d] = view[d] /\ taken'[d] = taken[d]
  BY DEF ReturnIndex, TypeOK, Calling
<1>r. \/ cached' = cached /\ removed' = removed /\ retired' = retired
      \/ /\ view[c].epoch > 1 /\ prev \in cached
         /\ cached' = cached \ {prev} /\ removed' = removed \cup {prev} /\ retired' = retired \cup {prev}
  BY DEF ReturnIndex
<1>v. view[c].epoch > 1 => Over(prev)
  BY <1>t, KeyParts DEF Over, ToCome
<1>i. /\ \A j \in Keys \ {k} : issued'[j] = issued[j]
      /\ \A i \in Indices : issued'[k][i] = IF i = i0 THEN issued[k][i] + 1 ELSE issued[k][i]
      /\ \A j \in Keys, i \in Indices : issued[j][i] \in Nat
  BY <1>t DEF ReturnIndex, TypeOK
<1>s. \A s \in Savers : ~Saving(s)
  BY <1>p DEF DurableInv, SavesAreApart
<1>n. ~ToCome(KeyOf(view[c]))'
  <2>1. chain[NoView.ch].epoch \in Epochs
    BY Constants DEF TypeOK, ChannelType, ViewType
  <2> QED
    BY <2>1, <1>p, <1>u DEF ToCome, KeyOf, NoView, Epochs
<1>c. \A d \in Callers : Calling(d)' => d # c /\ Calling(d) /\ view'[d] = view[d]
  BY <1>p DEF Calling, Holding
<1> HIDE DEF k, prev, i0
<1>o. \A j \in Keys : /\ (IsOpen(j)' <=> IsOpen(j)) /\ (Over(j)' <=> Over(j))
                      /\ (ToCome(j)' <=> ToCome(j))
  BY <1>u DEF Over, ToCome, IsOpen
<1>g. \A j \in Keys : Returned(j) \subseteq Returned(j)'
  BY <1>i, <1>t DEF Returned
<1>1. EpochsInOrder'
  <2>1. \A d \in Callers : ~ToCome(KeyOf(view[d]))'
    <3>1. \A d \in Callers \ {c} : ~ToCome(KeyOf(view[d]))'
      BY <1>p, <1>u DEF DurableInv, EpochsInOrder, ToCome, KeyOf
    <3> QED
      BY <3>1, <1>n
  <2>2. \A j \in Keys : j \in retired' \cup removed' => Over(j)
    BY <1>r, <1>v DEF DurableInv, EpochsInOrder
  <2>3. \A j \in Keys : ToCome(j) => j \notin cached' /\ store'[j] = Absent /\ promised'[j] = {}
    BY <1>r, <1>u DEF DurableInv, EpochsInOrder
  <2>4. \A j \in Keys : ToCome(j) => \A i \in Indices : issued'[j][i] = 0
    BY <1>i, <1>t DEF DurableInv, EpochsInOrder
  <2> QED
    BY <1>o, <2>1, <2>2, <2>3, <2>4 DEF EpochsInOrder
<1>2. SaversInOrder' /\ WritesAreCurrent' /\ PromisedInRange' /\ SavedIndicesAreDurable'
  BY <1>u DEF DurableInv, SaversInOrder, WritesAreCurrent, PromisedInRange, SavedIndicesAreDurable,
              Over, ToCome, IsOpen, WorkedOn, First
<1>3. SavesAreApart'
  BY <1>u, <1>s DEF SavesAreApart, Saving
<1>4. PromisesInHand'
  BY <1>u, <1>s, <1>g DEF DurableInv, PromisesInHand, Saving
<1>5. InUseIsCached'
  <2>1. \A j \in Keys \ retired' : j \in Keys \ retired /\ (j \in cached => j \in cached')
    BY <1>r
  <2>2. \A j \in Keys \ retired', i \in Indices : issued'[j][i] > 0 => j \in cached'
    <3> SUFFICES ASSUME NEW j \in Keys \ retired', NEW i \in Indices, issued'[j][i] > 0
                 PROVE  j \in cached
      BY <2>1
    <3>1. CASE j = k
      BY <3>1, <2>1, <1>p DEF k, DurableInv, InUseIsCached
    <3>2. CASE j # k
      BY <3>2, <2>1, <1>i DEF DurableInv, InUseIsCached
    <3> QED
      BY <3>1, <3>2
  <2>3. ASSUME NEW j \in Keys \ retired', NEW d \in Callers, Calling(d)', KeyOf(view'[d]) = j
        PROVE  /\ j \in cached'
               /\ pc'[d] = "ret" /\ taken'[d] <= MAX_TICKET_INDEX => dirty[First(j)]
    <3>1. d # c /\ Calling(d) /\ KeyOf(view[d]) = j /\ pc'[d] = pc[d] /\ taken'[d] = taken[d]
      BY <2>3, <1>c, <1>p
    <3> QED
      BY <3>1, <2>1 DEF DurableInv, InUseIsCached
  <2>4. \A d \in Callers : pc'[d] = "ret" => Calling(d)'
    BY DEF Calling
  <2> QED
    BY <1>u, <2>2, <2>3, <2>4 DEF InUseIsCached, KeyOf, First
<1>6. CleanIsStored'
  <2> SUFFICES ASSUME NEW j \in Keys, IsOpen(j)
               PROVE  /\ synced => store[j] <= index[First(j)]
                      /\ ~dirty[First(j)] => \A i \in Returned(j)' : i < store[j]
    BY <1>u, <1>o DEF CleanIsStored, First
  <2>1. CASE j # k
    <3>1. Returned(j)' = Returned(j)
      BY <2>1, <1>i DEF Returned
    <3> QED
      BY <3>1 DEF DurableInv, CleanIsStored
  <2>2. CASE j = k /\ taken[c] <= MAX_TICKET_INDEX
    <3>1. j \notin retired
      BY OpenIsCurrent, OpenCounter DEF DurableInv
    <3>2. dirty[First(j)]
      BY <3>1, <2>2, <1>p DEF DurableInv, InUseIsCached, k
    <3> QED
      BY <3>2 DEF DurableInv, CleanIsStored
  <2>3. CASE j = k /\ ~(taken[c] <= MAX_TICKET_INDEX)
    <3>1. i0 = MAX_TICKET_INDEX
      BY <2>3 DEF i0, Cap
    <3>2. Returned(j)' = Returned(j)
      BY <2>3, <3>1, <1>i, Constants DEF Returned
    <3> QED
      BY <3>2 DEF DurableInv, CleanIsStored
  <2> QED
    BY <2>1, <2>2, <2>3
<1> QED
  BY <1>1, <1>2, <1>3, <1>4, <1>5, <1>6 DEF DurableInv

\* What a step of one save leaves alone.
LEMMA SaveFrame ==
    ASSUME TypeOK, NEW s \in Savers, SaveStep(s)
    PROVE  /\ UNCHANGED <<chain, cached, gen, index, synced, pc, view, taken, issued, retired>>
           /\ \A t \in Savers \ {s} : saver'[t] = saver[t]
<1>1. UNCHANGED <<chain, cached, gen, index, synced, pc, view, taken, issued, retired>>
  BY DEF SaveStep, CloneCache, CloneRemoved, LoadEntry, WriteEntry, MarkClean, DeleteRemoved,
     EndSave,
         SaveUnchanged, callerVars
<1>2. \A t \in Savers \ {s} : saver'[t] = saver[t]
  BY DEF SaveStep, CloneCache, CloneRemoved, LoadEntry, WriteEntry, MarkClean, DeleteRemoved,
     EndSave,
         TypeOK
<1> QED
  BY <1>1, <1>2

\* The other saves, while one save takes a step that leaves the store alone.
LEMMA OtherSaves ==
    ASSUME TypeOK, DurableInv, NEW s \in Savers,
           UNCHANGED <<chain, store, index, synced, pc, issued>>,
           \A t \in Savers \ {s} : saver'[t] = saver[t],
           \A k \in saver'[s].dels : Over(k),
           \A a \in WorkedOn(s)' : ~ToCome(a[1]) /\ (~Over(a[1]) => a = First(a[1])),
           Saving(s)' => synced /\ \A c \in Callers : ~Calling(c),
           saver'[s].pc \in {"write", "clean"} => saver'[s].val = Cap(index[saver'[s].arc]),
           saver'[s].pc # "clean",
           \A k \in Keys :
                /\ saver'[s].at[k] \subseteq Returned(k)
                /\ Saving(s)' /\ ~saver'[s].failed /\ IsOpen(k) => \A i \in saver'[s].at[k] :
                        i < store[k] \/ First(k) \in WorkedOn(s)'
    PROVE  SaversInOrder' /\ SavesAreApart' /\ WritesAreCurrent' /\ PromisesInHand'
<1>w. \A t \in Savers \ {s} : WorkedOn(t)' = WorkedOn(t) /\ (Saving(t)' <=> Saving(t))
  BY DEF WorkedOn, Saving
<1>1. SaversInOrder'
  <2> SUFFICES ASSUME NEW t \in Savers
               PROVE  /\ \A k \in saver'[t].dels : Over(k)
                      /\ \A a \in WorkedOn(t)' : ~ToCome(a[1]) /\ (~Over(a[1]) => a = First(a[1]))
    BY DEF SaversInOrder, Over, ToCome, First
  <2>1. CASE t # s
    BY <2>1, <1>w DEF DurableInv, SaversInOrder
  <2> QED
    BY <2>1
<1>2. SavesAreApart'
  BY <1>w DEF DurableInv, SavesAreApart, Calling
<1>3. WritesAreCurrent'
  BY DEF DurableInv, WritesAreCurrent, IsOpen
<1>4. PromisesInHand'
  <2> SUFFICES ASSUME NEW t \in Savers, NEW k \in Keys
               PROVE  /\ saver'[t].at[k] \subseteq Returned(k)
                      /\ Saving(t)' /\ ~saver'[t].failed /\ IsOpen(k) => \A i \in saver'[t].at[k] :
                            i < store[k] \/ First(k) \in WorkedOn(t)'
    BY DEF PromisesInHand, Returned, First, IsOpen
  <2>1. CASE t # s
    BY <2>1, <1>w DEF DurableInv, PromisesInHand
  <2> QED
    BY <2>1
<1> QED
  BY <1>1, <1>2, <1>3, <1>4

\* A save begins and reads the entries: what it will promise has been returned
\* from a counter that it has cloned, or is stored.
LEMMA DurableRead ==
    ASSUME TypeOK, IndexInv, DurableInv, QuiescentSaves, NEW s \in Savers, SaveStep(s),
           CloneCache(s) \/ CloneRemoved(s) \/ \E a \in Arcs : LoadEntry(s, a)
    PROVE  DurableInv'
<1>u. UNCHANGED <<chain, cached, gen, index, synced, pc, view, taken, issued, retired, store, dirty,
                  removed, promised>>
  BY SaveFrame DEF CloneCache, CloneRemoved, LoadEntry
<1>f. \A t \in Savers \ {s} : saver'[t] = saver[t]
  BY SaveFrame
<1>t. saver \in [Savers -> SaverType]
  BY DEF TypeOK
<1>1. EpochsInOrder' /\ InUseIsCached' /\ CleanIsStored'
  BY <1>u DEF DurableInv, EpochsInOrder, InUseIsCached, CleanIsStored, Over, ToCome, IsOpen,
     KeyOf, First, Calling,
              Returned
<1>2. PromisedInRange' /\ SavedIndicesAreDurable'
  BY <1>u DEF DurableInv, PromisedInRange, SavedIndicesAreDurable, IsOpen
<1>3. SaversInOrder' /\ SavesAreApart' /\ WritesAreCurrent' /\ PromisesInHand'
  <2>1. CASE CloneCache(s)
    <3>1. /\ synced /\ saver'[s].pc = "cloned" /\ saver'[s].arcs = {ArcOf(k) : k \in cached}
          /\ saver'[s].dels = {} /\ saver'[s].at = [k \in Keys |-> Returned(k)]
      BY <2>1, <1>t DEF CloneCache, IdleSaver
    <3>2. \A c \in Callers : ~Calling(c)
      BY <2>1 DEF CloneCache, NoCallRunning, Calling
    <3>3. WorkedOn(s)' = {ArcOf(k) : k \in cached}
      BY <3>1 DEF WorkedOn
    <3>4. \A a \in WorkedOn(s)' : ~ToCome(a[1]) /\ (~Over(a[1]) => a = First(a[1]))
      <4> SUFFICES ASSUME NEW k \in cached
                   PROVE  ~ToCome(k) /\ (~Over(k) => ArcOf(k) = First(k)) /\ ArcOf(k)[1] = k
        BY <3>3
      <4>1. k \in Keys
        BY DEF TypeOK
      <4> QED
        BY <4>1, OpenCounter DEF DurableInv, EpochsInOrder, ArcOf
    <3>5. \A k \in Keys :
                /\ saver'[s].at[k] \subseteq Returned(k)
                /\ IsOpen(k) => \A i \in saver'[s].at[k] : First(k) \in WorkedOn(s)'
      <4> SUFFICES ASSUME NEW k \in Keys, IsOpen(k), NEW i \in Returned(k)
                   PROVE  First(k) \in {ArcOf(j) : j \in cached}
        BY <3>1, <3>3
      <4>1. k \notin retired /\ ArcOf(k) = First(k)
        BY OpenIsCurrent, OpenCounter DEF DurableInv
      <4>2. k \in cached
        BY <4>1 DEF DurableInv, InUseIsCached, Returned
      <4> QED
        BY <4>1, <4>2
    <3> QED
      BY <1>u, <1>f, <3>1, <3>2, <3>4, <3>5, OtherSaves
  <2>2. CASE CloneRemoved(s)
    <3>1. /\ saver[s].pc = "cloned" /\ saver'[s].pc = "entries" /\ saver'[s].dels = removed
          /\ saver'[s].arcs = saver[s].arcs /\ saver'[s].at = saver[s].at
          /\ saver'[s].failed = saver[s].failed
      BY <2>2, <1>t DEF CloneRemoved, SaverType
    <3>2. WorkedOn(s)' = WorkedOn(s) /\ Saving(s)
      BY <3>1 DEF WorkedOn, Saving
    <3>3. \A k \in removed : Over(k)
      BY DEF DurableInv, EpochsInOrder, TypeOK
    <3>4. \A a \in WorkedOn(s)' : ~ToCome(a[1]) /\ (~Over(a[1]) => a = First(a[1]))
      BY <3>2 DEF DurableInv, SaversInOrder
    <3>5. synced /\ \A c \in Callers : ~Calling(c)
      BY <3>2 DEF DurableInv, SavesAreApart
    <3>6. \A k \in Keys :
                /\ saver'[s].at[k] \subseteq Returned(k)
                /\ Saving(s)' /\ ~saver'[s].failed /\ IsOpen(k) => \A i \in saver'[s].at[k] :
                        i < store[k] \/ First(k) \in WorkedOn(s)'
      BY <3>1, <3>2 DEF DurableInv, PromisesInHand
    <3> QED
      BY <1>u, <1>f, <3>1, <3>3, <3>4, <3>5, <3>6, OtherSaves
  <2>3. ASSUME NEW a \in Arcs, LoadEntry(s, a)
        PROVE  SaversInOrder' /\ SavesAreApart' /\ WritesAreCurrent' /\ PromisesInHand'
    <3>1. /\ saver[s].pc = "entries" /\ a \in saver[s].arcs /\ saver'[s].dels = saver[s].dels
          /\ saver'[s].arcs = saver[s].arcs \ {a} /\ saver'[s].at = saver[s].at
          /\ saver'[s].failed = saver[s].failed
          /\ dirty[a] => /\ saver'[s].pc = "write" /\ saver'[s].arc = a
                         /\ saver'[s].val = Cap(index[a])
          /\ ~dirty[a] => saver'[s].pc = "entries"
      <4>1. /\ saver[s].pc = "entries" /\ a \in saver[s].arcs
            /\ saver'[s] = [saver[s] EXCEPT !.arcs = @ \ {a},
                                            !.pc = IF dirty[a] THEN "write" ELSE "entries",
                                            !.arc = IF dirty[a] THEN a ELSE @,
                                            !.val = IF dirty[a] THEN Cap(index[a]) ELSE @]
        BY <2>3, <1>t DEF LoadEntry, SavedValue
      <4>2. saver[s] \in SaverType
        BY <1>t
      <4> QED
        BY <4>1, <4>2 DEF SaverType
    <3>2. WorkedOn(s) = saver[s].arcs /\ Saving(s)
      BY <3>1 DEF WorkedOn, Saving
    <3>3. /\ dirty[a] => WorkedOn(s)' = WorkedOn(s)
          /\ ~dirty[a] => WorkedOn(s)' = WorkedOn(s) \ {a}
      BY <3>1, <3>2 DEF WorkedOn
    <3>4. \A b \in WorkedOn(s)' : ~ToCome(b[1]) /\ (~Over(b[1]) => b = First(b[1]))
      BY <3>3 DEF DurableInv, SaversInOrder
    <3>5. \A k \in saver'[s].dels : Over(k)
      BY <3>1 DEF DurableInv, SaversInOrder
    <3>6. synced /\ \A c \in Callers : ~Calling(c)
      BY <3>2 DEF DurableInv, SavesAreApart
    <3>7. ASSUME NEW k \in Keys, ~saver'[s].failed, IsOpen(k), NEW i \in saver'[s].at[k]
          PROVE  i < store[k] \/ First(k) \in WorkedOn(s)'
      <4>1. i \in Returned(k) /\ (i < store[k] \/ First(k) \in WorkedOn(s))
        BY <3>1, <3>2, <3>7 DEF DurableInv, PromisesInHand
      <4>2. CASE ~dirty[a] /\ First(k) = a
        BY <4>1, <4>2, <3>7 DEF DurableInv, CleanIsStored
      <4> QED
        BY <4>1, <4>2, <3>3
    <3>8. \A k \in Keys : saver'[s].at[k] \subseteq Returned(k)
      BY <3>1 DEF DurableInv, PromisesInHand
    <3>9. /\ saver'[s].pc \in {"write", "clean"} => saver'[s].val = Cap(index[saver'[s].arc])
          /\ saver'[s].pc # "clean"
      BY <3>1
    <3> QED
      BY <1>u, <1>f, <3>4, <3>5, <3>6, <3>7, <3>8, <3>9, OtherSaves
  <2> QED
    BY <2>1, <2>2, <2>3
<1> QED
  BY <1>1, <1>2, <1>3 DEF DurableInv

\* What an open channel's counter, saturated, is past.
LEMMA SavedIsPast ==
    ASSUME TypeOK, IndexInv, DurableInv, synced, NEW k \in Keys, IsOpen(k)
    PROVE  /\ Cap(index[First(k)]) <= index[First(k)]
           /\ \A i \in Returned(k) \cup promised[k] : i < Cap(index[First(k)])
<1>1. index[First(k)] \in Nat /\ store[k] \in Int
  BY KeyParts
<1>2. \A i \in Returned(k) : i \in Nat /\ i < index[First(k)] /\ i < MAX_TICKET_INDEX
  BY OpenIsCurrent, OpenCounter DEF DurableInv
<1>3. \A i \in promised[k] : i \in Nat /\ i < index[First(k)] /\ i < MAX_TICKET_INDEX
  <2>1. \A i \in promised[k] : i < store[k] /\ i < MAX_TICKET_INDEX
    BY DEF DurableInv, SavedIndicesAreDurable, PromisedInRange
  <2>2. store[k] <= index[First(k)]
    BY DEF DurableInv, CleanIsStored
  <2>3. \A i \in promised[k] : i \in Nat
    BY DEF TypeOK, Indices
  <2> QED
    BY <1>1, <2>1, <2>2, <2>3
<1>4. Cap(index[First(k)]) <= index[First(k)]
  BY <1>1, Constants DEF Cap
<1> QED
  BY <1>1, <1>2, <1>3, <1>4, CapAbove

\* An entry is written: the value is past all that was returned and promised.
LEMMA DurableWrite ==
    ASSUME TypeOK, IndexInv, DurableInv, NEW s \in Savers, SaveStep(s), WriteEntry(s)
    PROVE  DurableInv'
<1>u. UNCHANGED <<chain, cached, gen, index, synced, pc, view, taken, issued, retired, dirty,
                  removed, promised>>
  BY SaveFrame DEF WriteEntry
<1>f. \A t \in Savers \ {s} : saver'[t] = saver[t]
  BY SaveFrame
<1>t. saver \in [Savers -> SaverType] /\ \A t \in Savers : WorkedOn(t) \subseteq Arcs
  BY DEF TypeOK, SaverType, WorkedOn
<1> DEFINE b == saver[s].arc
<1>b. /\ saver[s].pc = "write" /\ Saving(s) /\ b \in WorkedOn(s) /\ b \in Arcs /\ b[1] \in Keys
      /\ saver[s].val = Cap(index[b])
  BY <1>t DEF WriteEntry, Saving, WorkedOn, DurableInv, WritesAreCurrent, SaverType, Arcs
<1>y. synced /\ (\A c \in Callers : ~Calling(c))
  BY <1>b DEF DurableInv, SavesAreApart
<1>k. ~ToCome(b[1]) /\ (IsOpen(b[1]) => b = First(b[1]))
  BY <1>b, OpenIsCurrent DEF DurableInv, SaversInOrder
<1>d. \A t \in Savers : (\A k \in saver[t].dels : Over(k)) /\
                        (\A a \in WorkedOn(t) : ~ToCome(a[1]) /\ (~Over(a[1]) => a = First(a[1])))
  BY DEF DurableInv, SaversInOrder
<1>1. CASE UNCHANGED store /\ saver'[s].pc = "entries" /\ saver'[s].failed
           /\ saver'[s].arcs = saver[s].arcs /\ saver'[s].dels = saver[s].dels
           /\ saver'[s].at = saver[s].at
  <2>1. EpochsInOrder' /\ InUseIsCached' /\ CleanIsStored'
    BY <1>1, <1>u DEF DurableInv, EpochsInOrder, InUseIsCached, CleanIsStored, Over, ToCome,
       IsOpen, KeyOf, First,
                Calling, Returned
  <2>2. PromisedInRange' /\ SavedIndicesAreDurable'
    BY <1>1, <1>u DEF DurableInv, PromisedInRange, SavedIndicesAreDurable, IsOpen
  <2>3. WorkedOn(s)' \subseteq WorkedOn(s)
    BY <1>1 DEF WorkedOn
  <2>4. \A k \in Keys : saver'[s].at[k] \subseteq Returned(k)
    BY <1>1 DEF DurableInv, PromisesInHand
  <2>5. SaversInOrder' /\ SavesAreApart' /\ WritesAreCurrent' /\ PromisesInHand'
    BY <1>1, <1>u, <1>f, <1>y, <1>d, <2>3, <2>4, OtherSaves
  <2> QED
    BY <2>1, <2>2, <2>5 DEF DurableInv
<1>2. CASE /\ store' = [store EXCEPT ![b[1]] = saver[s].val]
           /\ saver'[s] = [saver[s] EXCEPT !.pc = "clean"]
  <2> DEFINE n == Cap(index[b])
  <2>s. \A k \in Keys : store'[k] = IF k = b[1] THEN n ELSE store[k]
    BY <1>2, <1>b DEF TypeOK
  <2>w. \A t \in Savers : /\ WorkedOn(t)' = WorkedOn(t) /\ (Saving(t)' <=> Saving(t))
                          /\ saver'[t].dels = saver[t].dels /\ saver'[t].at = saver[t].at
                          /\ saver'[t].failed = saver[t].failed /\ saver'[t].arc = saver[t].arc
                          /\ saver'[t].val = saver[t].val
                          /\ (t # s => saver'[t].pc = saver[t].pc)
    <3>1. ASSUME NEW t \in Savers, t # s
          PROVE  WorkedOn(t)' = WorkedOn(t) /\ (Saving(t)' <=> Saving(t))
      BY <3>1, <1>f DEF WorkedOn, Saving
    <3>2. /\ saver'[s].pc = "clean" /\ saver'[s].arcs = saver[s].arcs
          /\ saver'[s].dels = saver[s].dels /\ saver'[s].at = saver[s].at
          /\ saver'[s].failed = saver[s].failed /\ saver'[s].arc = saver[s].arc
          /\ saver'[s].val = saver[s].val
      BY <1>2, <1>t DEF SaverType
    <3>3. WorkedOn(s)' = WorkedOn(s) /\ (Saving(s)' <=> Saving(s))
      BY <3>2, <1>b DEF WorkedOn, Saving
    <3> QED
      BY <3>1, <3>2, <3>3, <1>f
  <2>p. IsOpen(b[1]) => n <= index[First(b[1])] /\ \A i \in Returned(b[1]) \cup promised[b[1]] : i < n
    BY <1>k, <1>b, <1>y, SavedIsPast
  <2> HIDE DEF n
  <2>o. \A k \in Keys : /\ (IsOpen(k)' <=> IsOpen(k)) /\ (ToCome(k)' <=> ToCome(k))
                        /\ (Over(k)' <=> Over(k)) /\ Returned(k)' = Returned(k)
    BY <1>u DEF Over, ToCome, IsOpen, Returned
  <2>1. EpochsInOrder'
    <3>1. \A k \in Keys : ToCome(k) => store'[k] = Absent
      BY <2>s, <1>k DEF DurableInv, EpochsInOrder
    <3>2. \A c \in Callers : ~ToCome(KeyOf(view[c]))'
      BY <1>u DEF DurableInv, EpochsInOrder, ToCome, KeyOf
    <3> QED
      BY <3>1, <3>2, <2>o, <1>u DEF DurableInv, EpochsInOrder
  <2>2. SaversInOrder'
    BY <1>d, <2>w, <1>u DEF SaversInOrder, Over, ToCome, First
  <2>3. SavesAreApart' /\ InUseIsCached'
    BY <1>u, <2>w DEF DurableInv, SavesAreApart, InUseIsCached, Calling, KeyOf, First
  <2>4. CleanIsStored'
    BY <2>s, <2>p, <2>o, <1>u DEF DurableInv, CleanIsStored, First
  <2>5. WritesAreCurrent'
    <3> SUFFICES ASSUME NEW t \in Savers
                 PROVE  /\ saver'[t].pc \in {"write", "clean"}
                                => saver[t].val = Cap(index[saver[t].arc])
                        /\ saver'[t].pc = "clean" /\ IsOpen(saver[t].arc[1])
                                => store'[saver[t].arc[1]] = saver[t].val
      BY <2>w, <1>u DEF WritesAreCurrent, IsOpen
    <3>1. CASE t = s
      BY <3>1, <1>b, <2>s DEF n
    <3>2. CASE t # s
      <4>1. saver'[t].pc = saver[t].pc
        BY <3>2, <2>w
      <4>2. ASSUME saver[t].pc = "clean", IsOpen(saver[t].arc[1])
            PROVE  store'[saver[t].arc[1]] = saver[t].val
        <5>1. saver[t].arc \in WorkedOn(t) /\ saver[t].arc[1] \in Keys
          BY <4>2, <1>t DEF WorkedOn, SaverType, Arcs
        <5>2. saver[t].arc = First(saver[t].arc[1])
          BY <5>1, <4>2, <1>d, OpenIsCurrent
        <5>3. saver[t].val = Cap(index[saver[t].arc]) /\ store[saver[t].arc[1]] = saver[t].val
          BY <4>2 DEF DurableInv, WritesAreCurrent
        <5>4. CASE saver[t].arc[1] = b[1]
          <6>1. b = saver[t].arc
            BY <5>2, <5>4, <4>2, <1>k
          <6> QED
            BY <5>1, <5>3, <6>1, <2>s DEF n
        <5> QED
          BY <5>1, <5>3, <5>4, <2>s
      <4> QED
        BY <4>1, <4>2 DEF DurableInv, WritesAreCurrent
    <3> QED
      BY <3>1, <3>2
  <2>6. PromisesInHand'
    <3> SUFFICES ASSUME NEW t \in Savers, NEW k \in Keys
                 PROVE  /\ saver[t].at[k] \subseteq Returned(k)
                        /\ Saving(t) /\ ~saver[t].failed /\ IsOpen(k) => \A i \in saver[t].at[k] :
                              i < store'[k] \/ First(k) \in WorkedOn(t)
      BY <2>w, <2>o DEF PromisesInHand, First
    <3> QED
      BY <2>s, <2>p DEF DurableInv, PromisesInHand
  <2>7. PromisedInRange' /\ SavedIndicesAreDurable'
    BY <2>s, <2>p, <2>o, <1>u DEF DurableInv, PromisedInRange, SavedIndicesAreDurable
  <2> QED
    BY <2>1, <2>2, <2>3, <2>4, <2>5, <2>6, <2>7 DEF DurableInv
<1> QED
  BY <1>1, <1>2, <1>t DEF WriteEntry, SaverType

\* An entry that was written is marked clean: the store has its value.
LEMMA DurableClean ==
    ASSUME TypeOK, IndexInv, DurableInv, NEW s \in Savers, SaveStep(s), MarkClean(s)
    PROVE  DurableInv'
<1>u. UNCHANGED <<chain, cached, gen, index, synced, pc, view, taken, issued, retired, store,
                  removed, promised>>
  BY SaveFrame DEF MarkClean
<1>f. \A t \in Savers \ {s} : saver'[t] = saver[t]
  BY SaveFrame
<1>t. saver[s] \in SaverType
  BY DEF TypeOK
<1> DEFINE b == saver[s].arc
<1>b. /\ saver[s].pc = "clean" /\ Saving(s) /\ b \in WorkedOn(s) /\ b \in Arcs /\ b[1] \in Keys
      /\ saver[s].val = Cap(index[b])
      /\ IsOpen(b[1]) => store[b[1]] = saver[s].val
  BY <1>t DEF MarkClean, Saving, WorkedOn, DurableInv, WritesAreCurrent, SaverType, Arcs
<1>d. \A a \in Arcs : dirty'[a] = IF a = b THEN FALSE ELSE dirty[a]
  BY <1>b DEF MarkClean, TypeOK
<1>s. /\ saver'[s].pc = "entries" /\ saver'[s].arcs = saver[s].arcs
      /\ saver'[s].dels = saver[s].dels /\ saver'[s].at = saver[s].at
      /\ saver'[s].failed = saver[s].failed
  BY <1>t DEF MarkClean, SaverType, TypeOK
<1>w. WorkedOn(s)' = saver[s].arcs /\ WorkedOn(s) = saver[s].arcs \cup {b}
  BY <1>b, <1>s DEF WorkedOn
<1>y. synced /\ (\A c \in Callers : ~Calling(c))
  BY <1>b DEF DurableInv, SavesAreApart
<1>k. IsOpen(b[1]) => b = First(b[1])
  BY <1>b, OpenIsCurrent DEF DurableInv, SaversInOrder
<1>p. \A k \in Keys : IsOpen(k) /\ First(k) = b => \A i \in Returned(k) : i < store[k]
  <2> SUFFICES ASSUME NEW k \in Keys, IsOpen(k), First(k) = b
               PROVE  \A i \in Returned(k) : i < store[k]
    OBVIOUS
  <2>1. b[1] = k
    BY DEF First
  <2> QED
    BY <2>1, <1>b, <1>y, SavedIsPast
<1> HIDE DEF b
<1>1. EpochsInOrder' /\ PromisedInRange' /\ SavedIndicesAreDurable'
  BY <1>u DEF DurableInv, EpochsInOrder, PromisedInRange, SavedIndicesAreDurable, Over, ToCome,
     IsOpen, KeyOf
<1>2. InUseIsCached'
  BY <1>u, <1>y DEF DurableInv, InUseIsCached, Calling
<1>3. CleanIsStored'
  BY <1>u, <1>d, <1>p, FirstArc DEF DurableInv, CleanIsStored, IsOpen, Returned, First
<1>4. SaversInOrder' /\ SavesAreApart' /\ WritesAreCurrent' /\ PromisesInHand'
  <2>1. /\ \A k \in saver'[s].dels : Over(k)
        /\ \A a \in WorkedOn(s)' : ~ToCome(a[1]) /\ (~Over(a[1]) => a = First(a[1]))
    BY <1>s, <1>w DEF DurableInv, SaversInOrder
  <2>2. \A k \in Keys :
            /\ saver'[s].at[k] \subseteq Returned(k)
            /\ Saving(s)' /\ ~saver'[s].failed /\ IsOpen(k) => \A i \in saver'[s].at[k] :
                    i < store[k] \/ First(k) \in WorkedOn(s)'
    BY <1>s, <1>w, <1>p, <1>b DEF DurableInv, PromisesInHand
  <2> QED
    BY <1>u, <1>f, <1>s, <1>y, <2>1, <2>2, OtherSaves
<1> QED
  BY <1>1, <1>2, <1>3, <1>4 DEF DurableInv

\* A stored index is deleted: its epoch is over.
LEMMA DurableDelete ==
    ASSUME TypeOK, DurableInv, NEW s \in Savers, SaveStep(s), NEW k \in Keys, DeleteRemoved(s, k)
    PROVE  DurableInv'
<1>u. UNCHANGED <<chain, cached, gen, index, synced, pc, view, taken, issued, retired, dirty,
promised>>
  BY SaveFrame DEF DeleteRemoved
<1>f. \A t \in Savers \ {s} : saver'[t] = saver[t]
  BY SaveFrame
<1>t. saver[s] \in SaverType
  BY DEF TypeOK
<1>s. /\ saver[s].pc = "entries" /\ saver'[s].pc = "entries" /\ saver'[s].arcs = saver[s].arcs
      /\ saver'[s].dels \subseteq saver[s].dels /\ saver'[s].at = saver[s].at
      /\ (~saver'[s].failed => ~saver[s].failed)
  <2>1. saver[s].pc = "entries"
    BY DEF DeleteRemoved
  <2>2. \/ saver'[s] = [saver[s] EXCEPT !.dels = @ \ {k}]
        \/ saver'[s] = [saver[s] EXCEPT !.dels = @ \ {k}, !.failed = TRUE]
    BY DEF DeleteRemoved, TypeOK
  <2> QED
    BY <1>t, <2>1, <2>2 DEF SaverType
<1>k. Over(k) /\ ~IsOpen(k)
  BY OpenIsCurrent DEF DeleteRemoved, DurableInv, SaversInOrder
<1>d. /\ \A j \in Keys : store'[j] = store[j] \/ (j = k /\ store'[j] = Absent)
      /\ removed' \subseteq removed
  BY DEF DeleteRemoved, TypeOK
<1>o. \A j \in Keys : /\ (IsOpen(j)' <=> IsOpen(j)) /\ (ToCome(j)' <=> ToCome(j))
                      /\ (Over(j)' <=> Over(j)) /\ Returned(j)' = Returned(j)
                      /\ (IsOpen(j) => store'[j] = store[j])
  BY <1>u, <1>d, <1>k DEF Over, ToCome, IsOpen, Returned
<1>w. \A t \in Savers : /\ WorkedOn(t)' = WorkedOn(t) /\ (Saving(t)' <=> Saving(t))
                        /\ saver'[t].pc = saver[t].pc /\ saver'[t].at = saver[t].at
                        /\ saver'[t].dels \subseteq saver[t].dels
                        /\ (~saver'[t].failed => ~saver[t].failed)
                        /\ (t # s => saver'[t] = saver[t])
  BY <1>f, <1>s DEF WorkedOn, Saving
<1>1. EpochsInOrder'
  <2>1. \A c \in Callers : ~ToCome(KeyOf(view[c]))'
    BY <1>u DEF DurableInv, EpochsInOrder, ToCome, KeyOf
  <2>2. \A j \in Keys : ToCome(j) => store'[j] = Absent
    BY <1>d DEF DurableInv, EpochsInOrder
  <2> QED
    BY <2>1, <2>2, <1>u, <1>o, <1>d DEF DurableInv, EpochsInOrder
<1>2. SaversInOrder'
  BY <1>w, <1>u DEF DurableInv, SaversInOrder, Over, ToCome, First
<1>3. SavesAreApart' /\ InUseIsCached'
  BY <1>w, <1>u DEF DurableInv, SavesAreApart, InUseIsCached, Calling, KeyOf, First
<1>4. CleanIsStored' /\ PromisedInRange' /\ SavedIndicesAreDurable'
  BY <1>u, <1>o DEF DurableInv, CleanIsStored, PromisedInRange, SavedIndicesAreDurable, First
<1>5. WritesAreCurrent'
  <2> SUFFICES ASSUME NEW t \in Savers, saver'[t].pc \in {"write", "clean"}
               PROVE  /\ saver'[t].val = Cap(index[saver'[t].arc])
                      /\ saver'[t].pc = "clean" /\ IsOpen(saver'[t].arc[1])
                            => store'[saver'[t].arc[1]] = saver'[t].val
    BY <1>u DEF WritesAreCurrent, IsOpen
  <2>1. t # s /\ saver'[t] = saver[t]
    BY <1>s, <1>w
  <2>2. saver[t].arc[1] \in Keys
    BY DEF TypeOK, SaverType, Arcs
  <2> QED
    BY <2>1, <2>2, <1>o DEF DurableInv, WritesAreCurrent
<1>6. PromisesInHand'
  <2> SUFFICES ASSUME NEW t \in Savers, NEW j \in Keys
               PROVE  /\ saver[t].at[j] \subseteq Returned(j)
                      /\ Saving(t) /\ ~saver[t].failed /\ IsOpen(j) => \A i \in saver[t].at[j] :
                            i < store[j] \/ First(j) \in WorkedOn(t)
    BY <1>w, <1>o DEF PromisesInHand, First
  <2> QED
    BY DEF DurableInv, PromisesInHand
<1> QED
  BY <1>1, <1>2, <1>3, <1>4, <1>5, <1>6 DEF DurableInv

\* A save that succeeds has nothing in hand: what it promises is stored.
LEMMA DurableEnd ==
    ASSUME TypeOK, IndexInv, DurableInv, NEW s \in Savers, SaveStep(s), EndSave(s)
    PROVE  DurableInv'
<1>u. UNCHANGED <<chain, cached, gen, index, synced, pc, view, taken, issued, retired, store, dirty,
                  removed>>
  BY SaveFrame DEF EndSave
<1>f. \A t \in Savers \ {s} : saver'[t] = saver[t]
  BY SaveFrame
<1>s. saver'[s] = IdleSaver /\ Saving(s) /\ WorkedOn(s) = {}
  BY DEF EndSave, TypeOK, Saving, WorkedOn
<1>p. \A k \in Keys : \/ promised'[k] = promised[k]
                      \/ ~saver[s].failed /\ promised'[k] = promised[k] \cup saver[s].at[k]
  BY DEF EndSave
<1>a. \A k \in Keys : \A i \in saver[s].at[k] :
            /\ i \in Returned(k)
            /\ IsOpen(k) /\ ~saver[s].failed => i < store[k]
  BY <1>s DEF DurableInv, PromisesInHand
<1>1. EpochsInOrder'
  <2>1. \A k \in Keys : ToCome(k) => promised'[k] = {}
    BY <1>p, <1>a DEF DurableInv, EpochsInOrder, Returned
  <2>2. \A c \in Callers : ~ToCome(KeyOf(view[c]))'
    BY <1>u DEF DurableInv, EpochsInOrder, ToCome, KeyOf
  <2> QED
    BY <2>1, <2>2, <1>u DEF DurableInv, EpochsInOrder, Over, ToCome
<1>2. InUseIsCached' /\ CleanIsStored'
  BY <1>u DEF DurableInv, InUseIsCached, CleanIsStored, IsOpen, Calling, KeyOf, First, Returned
<1>3. PromisedInRange' /\ SavedIndicesAreDurable'
  BY <1>u, <1>p, <1>a DEF DurableInv, PromisedInRange, SavedIndicesAreDurable, IsOpen, Returned
<1>4. SaversInOrder' /\ SavesAreApart' /\ WritesAreCurrent' /\ PromisesInHand'
  <2>1. /\ saver'[s].pc = "idle" /\ saver'[s].dels = {} /\ WorkedOn(s)' = {} /\ ~Saving(s)'
        /\ \A k \in Keys : saver'[s].at[k] = {}
    BY <1>s DEF IdleSaver, WorkedOn, Saving
  <2> QED
    BY <1>u, <1>f, <2>1, OtherSaves
<1> QED
  BY <1>1, <1>2, <1>3, <1>4 DEF DurableInv

\* Where the user keeps ticket creation and saving apart, every step of calls,
\* saves, syncs, restarts and the chain keeps the invariant.
THEOREM DurableInvariant ==
    ASSUME QuiescentSaves
    PROVE  Spec => []DurableInv
<1>1. TypeOK /\ IndexInv /\ DurableInv /\ [Next]_vars => DurableInv'
  <2> SUFFICES ASSUME TypeOK, IndexInv, DurableInv, [Next]_vars PROVE DurableInv'
    OBVIOUS
  <2>1. CASE UNCHANGED vars
    BY <2>1 DEF vars, DurableInv, EpochsInOrder, SaversInOrder, SavesAreApart, InUseIsCached,
       CleanIsStored, WritesAreCurrent, PromisesInHand, PromisedInRange, SavedIndicesAreDurable,
       Over, ToCome, IsOpen, KeyOf, WorkedOn, Saving, Calling, First, Returned
  <2>2. ASSUME NEW c \in Callers, CallStep(c) PROVE DurableInv'
    BY <2>2, DurableLookUp, DurableTake, DurableMark, DurableReturn DEF CallStep
  <2>3. ASSUME NEW s \in Savers, SaveStep(s) PROVE DurableInv'
    <3>1. CASE CloneCache(s) \/ CloneRemoved(s) \/ \E a \in Arcs : LoadEntry(s, a)
      BY <2>3, <3>1, DurableRead
    <3>2. CASE WriteEntry(s) \/ MarkClean(s) \/ EndSave(s)
      BY <2>3, <3>2, DurableWrite, DurableClean, DurableEnd
    <3>3. CASE \E k \in Keys : DeleteRemoved(s, k)
      BY <2>3, <3>3, DurableDelete
    <3> QED
      BY <2>3, <3>1, <3>2, <3>3 DEF SaveStep
  <2> QED
    BY <2>1, <2>2, <2>3, DurableChain, DurableSync, DurableRestart DEF Next
<1> QED
  BY <1>1, TypeCorrect, IndexInvariant, DurableInit, PTL DEF Spec

\* What was returned before a save that succeeded began is stored, as long as
\* the channel stays open and saves do not overlap ticket creation.
THEOREM SavedDurableCorrect ==
    ASSUME QuiescentSaves
    PROVE  Spec => []SavedIndicesAreDurable
<1>1. DurableInv => SavedIndicesAreDurable
  BY DEF DurableInv
<1> QED
  BY <1>1, DurableInvariant, PTL

-----------------------------------------------------------------------------
(* The refinement of IndexAllocator.                                         *)

\* PromisedIsPast, of one caller.
Past(c) ==
    LET k == KeyOf(view[c])
    IN  /\ Calling(c) => view[c].status = "Open"
        /\ pc[c] # "idle" /\ view[c].status = "Open" /\ k \notin retired =>
                /\ \A i \in promised[k] : i < index[First(k)]
                /\ Taking(c) => taken[c] \notin promised[k]

LEMMA PastOfAll == PromisedIsPast <=> \A c \in Callers : Past(c)
BY Zenon DEF PromisedIsPast, Past

\* A caller is not disturbed by a step that leaves it where it is, raises counters
\* and promises nothing new of its key.
LEMMA PastKept ==
    ASSUME TypeOK, NEW c \in Callers, Past(c), view'[c] = view[c], taken'[c] = taken[c],
           pc'[c] = pc[c] \/ (pc[c] = "mark" /\ pc'[c] = "ret"),
           promised'[KeyOf(view[c])] = promised[KeyOf(view[c])], retired \subseteq retired',
           \A a \in Arcs : index'[a] \in Nat /\ index[a] <= index'[a]
    PROVE  Past(c)'
<1> DEFINE k == KeyOf(view[c])
<1>1. k \in Keys /\ First(k) \in Arcs /\ KeyOf(view[c])' = k /\ First(k)' = First(k)
  BY KeyTypes, FirstArc DEF KeyOf, First
<1>2. (Calling(c)' => Calling(c)) /\ (Taking(c)' => Taking(c)) /\ (pc'[c] # "idle" => pc[c] # "idle")
  BY DEF Calling, Taking, Holding
<1>3. index[First(k)] \in Nat /\ \A i \in promised[k] : i \in Nat
  BY <1>1, Constants DEF TypeOK
<1> HIDE DEF k
<1>4. \A i \in promised[k] : i < index[First(k)] => i < index'[First(k)]
  BY <1>1, <1>3
<1>5. promised'[k] = promised[k]
  BY DEF k
<1> QED
  BY <1>1, <1>2, <1>4, <1>5 DEF Past, k

LEMMA NumbersOf ==
    ASSUME TypeOK, NEW k \in Keys
    PROVE  /\ store[k] \in Int /\ index[First(k)] \in Int /\ \A i \in promised[k] : i \in Int
           /\ chain[k[1]].ticket_index \in Int
<1>1. store[k] \in Indices \/ store[k] = Absent
  BY DEF TypeOK
<1>2. k[1] \in Channels /\ First(k) \in Arcs
  BY FirstArc DEF Keys
<1>3. chain[k[1]] \in ChannelType
  BY <1>2 DEF TypeOK
<1>4. chain[k[1]].ticket_index \in Indices
  BY <1>3 DEF ChannelType
<1>5. index[First(k)] \in Nat /\ promised[k] \in SUBSET Indices
  BY <1>2 DEF TypeOK
<1>6. \A i \in Indices : i \in Int
  BY DEF Indices
<1>7. store[k] \in Int
  BY <1>1, <1>6 DEF Absent
<1> QED
  BY <1>4, <1>5, <1>6, <1>7

LEMMA PastLookUp ==
    ASSUME TypeOK, IndexInv, DurableInv, NEW c \in Callers, NEW ch \in Channels, LookUpChannel(c, ch)
    PROVE  Past(c)'
<1> DEFINE k == <<ch, chain[ch].epoch>>
<1>1. /\ UNCHANGED <<chain, store, index, synced, retired, promised>> /\ synced /\ pc'[c] = "called"
  BY DEF LookUpChannel, entryVars, ghostVars, TypeOK
<1>2. /\ view'[c].ch = ch /\ view'[c].epoch = chain[ch].epoch /\ view'[c].status = chain[ch].status
      /\ chain[ch].epoch \in Epochs
  BY DEF LookUpChannel, TypeOK, ChannelType
<1>3. k \in Keys /\ KeyOf(view[c])' = k
  BY <1>2 DEF KeyOf, Keys
<1>4. ASSUME chain[ch].status = "Open" PROVE \A i \in promised[k] : i < index[First(k)]
  <2>1. IsOpen(k)
    BY <1>4 DEF IsOpen
  <2>2. store[k] <= index[First(k)] /\ \A i \in promised[k] : i < store[k]
    BY <1>1, <1>3, <2>1 DEF DurableInv, CleanIsStored, SavedIndicesAreDurable
  <2>3. store[k] \in Int /\ index[First(k)] \in Int /\ \A i \in promised[k] : i \in Int
    BY <1>3, NumbersOf
  <2> HIDE DEF k
  <2> QED
    BY <2>2, <2>3
<1>5. ~Taking(c)' /\ ~Calling(c)'
  BY <1>1 DEF Taking, Calling, Holding
<1> HIDE DEF k
<1>7. index'[First(KeyOf(view[c]))'] = index[First(k)] /\ First(KeyOf(view[c]))' = First(k)
  BY <1>1, <1>3 DEF First
<1> QED
  BY <1>1, <1>2, <1>3, <1>4, <1>5, <1>7 DEF Past

\* What is taken is the counter's value, which is past all promises.
LEMMA PastTake ==
    ASSUME TypeOK, IndexInv, DurableInv, NEW c \in Callers, Past(c),
           FetchAdd(c) \/ FetchMax(c) \/ FetchAddAgain(c)
    PROVE  Past(c)'
<1> DEFINE k == KeyOf(view[c])
<1>1. k \in Keys /\ First(k) \in Arcs /\ ArcOf(k) \in Arcs
  BY KeyTypes, FirstArc
<1>2. UNCHANGED <<view, retired, promised>> /\ pc[c] # "idle"
  BY DEF FetchAdd, FetchMax, FetchAddAgain, ghostVars
<1>3. view[c].status = "Open"
  <2>1. CASE FetchAdd(c)
    BY <2>1 DEF FetchAdd, Creatable
  <2>2. CASE FetchMax(c) \/ FetchAddAgain(c)
    BY <2>2 DEF FetchMax, FetchAddAgain, Past, Calling, Holding
  <2> QED
    BY <2>1, <2>2
<1>4. /\ Taking(c)' => taken'[c] = index[ArcOf(k)]
      /\ \A a \in Arcs : index'[a] \in Nat /\ index[a] \in Nat /\ index[a] <= index'[a]
  <2>1. view[c].ticket_index \in Nat /\ index \in [Arcs -> Nat] /\ taken \in [Callers -> Nat]
    BY Constants DEF TypeOK, ViewType
  <2>2. CASE FetchAdd(c)
    BY <1>1, <2>1, <2>2 DEF FetchAdd, Taking
  <2>3. CASE FetchMax(c)
    <3>1. ~Taking(c)'
      BY <2>3 DEF FetchMax, Taking, TypeOK
    <3> QED
      BY <1>1, <2>1, <2>3, <3>1 DEF FetchMax, Raised, MaxOf
  <2>4. CASE FetchAddAgain(c)
    BY <1>1, <2>1, <2>4 DEF FetchAddAgain, Taking
  <2> QED
    BY <2>2, <2>3, <2>4
<1>5. ASSUME k \notin retired
      PROVE  /\ \A i \in promised[k] : i < index'[First(k)]
             /\ Taking(c)' => taken'[c] \notin promised[k]
  <2>1. ArcOf(k) = First(k)
    BY <1>1, <1>5 DEF IndexInv, CounterAhead, ArcOf, First
  <2>2. \A i \in promised[k] : i \in Nat /\ i < index[First(k)]
    BY <1>1, <1>2, <1>3, <1>5, Constants DEF Past, TypeOK
  <2> QED
    BY <1>1, <1>4, <2>1, <2>2
<1>6. KeyOf(view[c])' = k /\ First(k)' = First(k)
  BY <1>2 DEF KeyOf, First
<1> QED
  BY <1>2, <1>3, <1>5, <1>6 DEF Past

\* A save promises what was returned, and no call is under way then.
LEMMA PastEndSave ==
    ASSUME TypeOK, IndexInv, DurableInv, NEW s \in Savers, EndSave(s), NEW c \in Callers, Past(c)
    PROVE  Past(c)'
<1> DEFINE k == KeyOf(view[c])
<1>1. UNCHANGED <<index, pc, view, taken, retired>> /\ Saving(s)
  BY DEF EndSave, SaveUnchanged, callerVars, Saving
<1>2. k \in Keys /\ First(k) \in Arcs /\ KeyOf(view[c])' = k /\ First(k)' = First(k)
  BY <1>1, KeyTypes, FirstArc DEF KeyOf, First
<1>3. ~Calling(c)' /\ ~Taking(c)'
  BY <1>1 DEF DurableInv, SavesAreApart, Calling, Taking, Holding
<1>4. promised'[k] = promised[k] \/ promised'[k] = promised[k] \cup saver[s].at[k]
  BY <1>2 DEF EndSave
<1>5. ASSUME k \notin retired, NEW i \in saver[s].at[k] PROVE i < index[First(k)]
  <2>1. i \in Returned(k)
    BY <1>2 DEF DurableInv, PromisesInHand
  <2> QED
    BY <1>2, <1>5, <2>1 DEF Returned, IndexInv, CounterAhead
<1> QED
  BY <1>1, <1>2, <1>3, <1>4, <1>5 DEF Past

LEMMA CountersNeverFall ==
    ASSUME TypeOK, NEW purged \in SUBSET Keys, NEW loaded \in SUBSET Keys, SyncFromOutgoingChannels(purged, loaded)
    PROVE  \A a \in Arcs : index'[a] \in Nat /\ index[a] <= index'[a]
<1> TAKE a \in Arcs
<1>1. index[a] \in Nat /\ Goal(a[1]) \in Int
  <2>1. a[1] \in Keys
    BY DEF Arcs
  <2>2. store[a[1]] \in Int /\ chain[a[1][1]].ticket_index \in Int
    BY <2>1, NumbersOf
  <2> QED
    BY <2>2 DEF TypeOK, Goal, MaxOf
<1>2. index'[a] = index[a] \/ index'[a] = Raised(index[a], Goal(a[1]))
  BY DEF SyncFromOutgoingChannels
<1> QED
  BY <1>1, <1>2 DEF Raised, MaxOf

LEMMA PastStep ==
    ASSUME TypeOK, IndexInv, DurableInv, PromisedIsPast, QuiescentSaves, [Next]_vars
    PROVE  PromisedIsPast'
<1> SUFFICES ASSUME NEW c \in Callers PROVE Past(c)'
  BY PastOfAll, Zenon DEF PromisedIsPast, Past
<1>0. \A d \in Callers : Past(d)
  BY PastOfAll
<1>n. \A a \in Arcs : index[a] \in Nat /\ index[a] <= index[a]
  BY DEF TypeOK
<1>1. ASSUME UNCHANGED <<index, pc, view, taken, retired, promised>> PROVE Past(c)'
  BY <1>0, <1>1, <1>n, PastKept
<1>2. CASE \E ch \in Channels : ChainStep(ch)
  BY <1>1, <1>2 DEF ChainStep, RedeemedByDestination, CloseChannel, ReopenChannel, entryVars, callerVars, ghostVars
<1>3. ASSUME NEW purged \in SUBSET Keys, NEW loaded \in SUBSET Keys, SyncFromOutgoingChannels(purged, loaded)
      PROVE  Past(c)'
  BY <1>0, <1>3, CountersNeverFall, PastKept DEF SyncFromOutgoingChannels, callerVars
<1>4. CASE Restart
  <2>1. pc'[c] = "idle"
    BY <1>4 DEF Restart
  <2> QED
    BY <2>1 DEF Past, Calling, Holding
<1>5. ASSUME NEW d \in Callers, CallStep(d) PROVE Past(c)'
  <2>1. CASE c # d
    <3>1. pc'[c] = pc[c] /\ view'[c] = view[c] /\ taken'[c] = taken[c]
      BY <1>5, <2>1 DEF CallStep, LookUpChannel, RejectTicket, FetchAdd, FetchMax, FetchAddAgain, MarkDirty, ReturnIndex, TypeOK
    <3>2. UNCHANGED promised /\ retired \subseteq retired'
      BY <1>5 DEF CallStep, LookUpChannel, RejectTicket, FetchAdd, FetchMax, FetchAddAgain, MarkDirty, ReturnIndex, ghostVars
    <3>3. \A a \in Arcs : index'[a] \in Nat /\ index[a] <= index'[a]
      <4>1. index \in [Arcs -> Nat] /\ view[d].ticket_index \in Nat /\ ArcOf(KeyOf(view[d])) \in Arcs
        BY KeyTypes, Constants DEF TypeOK, ViewType
      <4>2. CASE UNCHANGED index
        BY <1>n, <4>2
      <4>3. CASE FetchAdd(d) \/ FetchMax(d) \/ FetchAddAgain(d)
        BY <4>1, <4>3 DEF FetchAdd, FetchMax, FetchAddAgain, Raised, MaxOf
      <4> QED
        BY <1>5, <4>2, <4>3 DEF CallStep, LookUpChannel, RejectTicket, MarkDirty, ReturnIndex, entryVars
    <3> QED
      BY <1>0, <3>1, <3>2, <3>3, PastKept
  <2>2. CASE c = d /\ \E ch \in Channels : LookUpChannel(d, ch)
    BY <2>2, PastLookUp
  <2>3. CASE c = d /\ (FetchAdd(d) \/ FetchMax(d) \/ FetchAddAgain(d))
    BY <1>0, <2>3, PastTake
  <2>4. CASE c = d /\ (RejectTicket(d) \/ ReturnIndex(d))
    <3>1. pc'[c] = "idle"
      BY <2>4 DEF RejectTicket, ReturnIndex, TypeOK
    <3> QED
      BY <3>1 DEF Past, Calling, Holding
  <2>5. CASE c = d /\ MarkDirty(d)
    <3>1. UNCHANGED <<index, view, taken, retired, promised>> /\ pc[c] = "mark" /\ pc'[c] = "ret"
      BY <2>5 DEF MarkDirty, ghostVars, TypeOK
    <3> QED
      BY <1>0, <1>n, <3>1, PastKept
  <2> QED
    BY <1>5, <2>1, <2>2, <2>3, <2>4, <2>5 DEF CallStep
<1>6. ASSUME NEW s \in Savers, SaveStep(s) PROVE Past(c)'
  <2>1. CASE EndSave(s)
    BY <1>0, <2>1, PastEndSave
  <2>2. CASE ~EndSave(s)
    <3>1. UNCHANGED <<index, pc, view, taken, retired, promised>>
      BY <1>6, <2>2 DEF SaveStep, CloneCache, CloneRemoved, LoadEntry, WriteEntry, MarkClean, DeleteRemoved,
                        SaveUnchanged, callerVars
    <3> QED
      BY <1>1, <3>1
  <2> QED
    BY <2>1, <2>2
<1>7. CASE UNCHANGED vars
  BY <1>1, <1>7 DEF vars
<1> QED
  BY <1>2, <1>3, <1>4, <1>5, <1>6, <1>7 DEF Next

\* A call that returns gives an index, a save that succeeds makes what it promises
\* durable, and no other step is seen.
LEMMA GivesIndex ==
    ASSUME TypeOK, IndexInv, PromisedIsPast, NEW c \in Callers, ReturnIndex(c)
    PROVE  Allocator!Next
<1> DEFINE k == KeyOf(view[c])
           i == Cap(taken[c])
<1>1. k \in Keys /\ i \in Indices /\ k = <<view[c].ch, view[c].epoch>>
  BY KeyTypes, CapType DEF TypeOK, KeyOf
<1>2. pc[c] = "ret" /\ Taking(c) /\ Calling(c)
  BY DEF ReturnIndex, Taking, Calling
<1>3. ASSUME i < MAX_TICKET_INDEX, k \notin retired PROVE issued[k][i] = 0 /\ i \notin promised[k]
  <2>1. taken[c] = i
    BY <1>3 DEF Cap, TypeOK
  <2>2. issued[k][i] = 0
    BY <1>1, <1>2, <1>3, <2>1 DEF IndexInv, CounterAhead
  <2>3. i \notin promised[k]
    BY <1>2, <1>3, <2>1, PastOfAll DEF Past
  <2> QED
    BY <2>2, <2>3
<1>4. issued' = [issued EXCEPT ![k][i] = @ + 1] /\ UNCHANGED promised
  BY DEF ReturnIndex
<1>5. retired' = retired \/ (i = 0 /\ retired' = retired \cup {<<k[1], k[2] - 1>>})
  BY <1>1 DEF ReturnIndex
<1>6. Allocator!Give(k, i)
  BY <1>3, <1>4, <1>5, Zenon DEF Allocator!Give
<1> QED
  BY <1>1, <1>6, Zenon DEF Allocator!Next, Allocator!Keys, Allocator!Indices, Keys, Epochs, Indices

LEMMA SaveMakesDurable ==
    ASSUME TypeOK, DurableInv, NEW s \in Savers, EndSave(s)
    PROVE  Allocator!Next
<1>1. promised' \in [Keys -> SUBSET Indices] /\ UNCHANGED <<issued, retired>>
  BY DEF EndSave, TypeOK, SaverType, SaveUnchanged
<1>2. \A k \in Keys : promised[k] \subseteq promised'[k] /\ \A i \in promised'[k] \ promised[k] : issued[k][i] > 0
  <2>1. \A k \in Keys : saver[s].at[k] \subseteq Returned(k)
    BY DEF DurableInv, PromisesInHand
  <2>2. \A k \in Keys : promised'[k] = promised[k] \/ promised'[k] = promised[k] \cup saver[s].at[k]
    BY DEF EndSave
  <2> QED
    BY <2>1, <2>2 DEF Returned
<1> QED
  BY <1>1, <1>2, Zenon DEF Allocator!Next, Allocator!Save, Allocator!Keys, Allocator!Indices, Keys, Epochs, Indices

LEMMA AllocatorStep ==
    ASSUME TypeOK, IndexInv, DurableInv, PromisedIsPast, [Next]_vars
    PROVE  [Allocator!Next]_Allocator!allocatorVars
<1>1. ASSUME UNCHANGED <<issued, retired, promised>> PROVE UNCHANGED Allocator!allocatorVars
  BY <1>1 DEF Allocator!allocatorVars
<1>2. CASE \E ch \in Channels : ChainStep(ch)
  BY <1>1, <1>2 DEF ChainStep, RedeemedByDestination, CloseChannel, ReopenChannel, ghostVars
<1>3. CASE \E purged, loaded \in SUBSET Keys : SyncFromOutgoingChannels(purged, loaded)
  BY <1>1, <1>3 DEF SyncFromOutgoingChannels
<1>4. CASE Restart
  <2>1. Allocator!Restart
    BY <1>4 DEF Restart, NeverIssued, Allocator!Restart, Allocator!NothingGiven, Allocator!Keys, Allocator!Indices,
                Keys, Epochs, Indices
  <2> QED
    BY <2>1 DEF Allocator!Next
<1>5. ASSUME NEW c \in Callers, CallStep(c) PROVE [Allocator!Next]_Allocator!allocatorVars
  <2>1. CASE ReturnIndex(c)
    BY <2>1, GivesIndex
  <2>2. CASE ~ReturnIndex(c)
    BY <1>1, <1>5, <2>2 DEF CallStep, LookUpChannel, RejectTicket, FetchAdd, FetchMax, FetchAddAgain, MarkDirty, ghostVars
  <2> QED
    BY <2>1, <2>2
<1>6. ASSUME NEW s \in Savers, SaveStep(s) PROVE [Allocator!Next]_Allocator!allocatorVars
  <2>1. CASE EndSave(s)
    BY <2>1, SaveMakesDurable
  <2>2. CASE ~EndSave(s)
    BY <1>1, <1>6, <2>2 DEF SaveStep, CloneCache, CloneRemoved, LoadEntry, WriteEntry, MarkClean, DeleteRemoved, SaveUnchanged
  <2> QED
    BY <2>1, <2>2
<1>7. CASE UNCHANGED vars
  BY <1>1, <1>7 DEF vars
<1> QED
  BY <1>2, <1>3, <1>4, <1>5, <1>6, <1>7 DEF Next

\* In all lives of the process together, the factory gives no index twice that it
\* has to keep apart: none of this life, and none that a save covered in any life,
\* as long as saves do not overlap ticket creation.
THEOREM AllocatorImplemented ==
    ASSUME QuiescentSaves
    PROVE  Spec => ImplementsAllocator
<1>1. Init => Allocator!Init
  BY DEF Init, NeverIssued, Allocator!Init, Allocator!NothingGiven, Allocator!Keys, Allocator!Indices, Keys, Epochs, Indices
<1>2. Init => PromisedIsPast
  BY DEF Init, PromisedIsPast, Calling, Holding
<1> QED
  BY <1>1, <1>2, PastStep, AllocatorStep, TypeCorrect, IndexInvariant, DurableInvariant, PTL
  DEF Spec, ImplementsAllocator, Allocator!Spec
=============================================================================
