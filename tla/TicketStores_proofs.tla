------------------------ MODULE TicketStores_proofs ------------------------
(***************************************************************************)
(* TLAPS proofs about TicketStores: no failing call costs a ticket that    *)
(* redb took in, and the two stores answer every call alike until one of   *)
(* the named causes.                                                       *)
(***************************************************************************)
EXTENDS TicketStores, FiniteSetTheorems, WellFoundedInduction, TLAPS

USE TicketStoresAssumption, TablesAssumption

\* A set of natural numbers that is not empty has a least element.
LEMMA LeastExists ==
    ASSUME NEW T \in SUBSET Nat, T # {}
    PROVE  \E x \in T : \A y \in T : x <= y
<1> DEFINE R == {ss \in Nat \X Nat : ss[1] < ss[2]}
<1>1. IsWellFoundedOn(R, Nat)
  BY NatLessThanWellFounded, Zenon DEF OpToRel
<1>2. PICK x \in T : \A y \in T : ~(<<y, x>> \in R)
  <2> HIDE DEF R
  <2> QED
    BY <1>1, WFMin
<1>3. ASSUME NEW y \in T PROVE x <= y
  <2>1. x \in Nat /\ y \in Nat
    OBVIOUS
  <2>2. y < x => <<y, x>> \in R
    BY <2>1
  <2> HIDE DEF R
  <2> QED
    BY <1>2, <2>1, <2>2
<1> QED
  BY <1>3

\* Of finite sets, one has no other of them inside: what a claim about every
\* finite set is proved by, at a smallest set it could fail of.
LEMMA SmallestExists ==
    ASSUME NEW Q, Q # {}, \A q \in Q : IsFiniteSet(q)
    PROVE  \E q \in Q : \A r \in Q : r \subseteq q => r = q
<1> DEFINE T == {Cardinality(q) : q \in Q}
<1>1. T \in SUBSET Nat /\ T # {}
  BY FS_CardinalityType
<1>2. PICK x \in T : \A y \in T : x <= y
  <2> HIDE DEF T
  <2> QED
    BY <1>1, LeastExists
<1>3. PICK q \in Q : Cardinality(q) = x
  OBVIOUS
<1>4. ASSUME NEW r \in Q, r \subseteq q PROVE r = q
  <2>1. Cardinality(r) \in T
    OBVIOUS
  <2>2. Cardinality(q) <= Cardinality(r) /\ IsFiniteSet(r) /\ IsFiniteSet(q)
    BY <1>2, <1>3, <2>1
  <2>3. Cardinality(r) \in Nat /\ Cardinality(q) \in Nat
    BY <2>2, FS_CardinalityType
  <2>4. Cardinality(r) <= Cardinality(q) /\ (Cardinality(r) = Cardinality(q) => r = q)
    BY <1>4, <2>2, FS_Subset
  <2> QED
    BY <2>2, <2>3, <2>4
<1> QED
  BY <1>4

\* make_index is injective and keeps the order of tickets: the index stays
\* below the span of an epoch.
LEMMA KeyOrder ==
    ASSUME NEW t \in StoreTickets, NEW u \in StoreTickets
    PROVE  /\ MakeIndex(t) \in Nat
           /\ MakeIndex(t) <= MakeIndex(u) <=> Natural(t, u)
           /\ MakeIndex(t) = MakeIndex(u) <=> t.epoch = u.epoch /\ t.index = u.index
<1> DEFINE S == IndexSpan
           e == t.epoch
           f == u.epoch
<1>1. /\ e \in Nat /\ f \in Nat
      /\ t.index \in 0..(S - 1) /\ u.index \in 0..(S - 1)
  OBVIOUS
<1>2. S \in Nat /\ t.index \in Nat /\ u.index \in Nat /\ t.index < S /\ u.index < S
  BY <1>1
<1>3. \A a, b, c \in Nat : a < b => a * c + c <= b * c
  OBVIOUS
<1>4. e * S \in Nat /\ f * S \in Nat
  BY <1>1, <1>2
<1>5. e < f => e * S + S <= f * S
  BY <1>1, <1>2, <1>3
<1>6. f < e => f * S + S <= e * S
  BY <1>1, <1>2, <1>3
<1>7. MakeIndex(t) = e * S + t.index /\ MakeIndex(u) = f * S + u.index
  BY DEF MakeIndex
<1>8. e < f \/ f < e \/ e = f
  BY <1>1
<1>9. Natural(t, u) <=> e < f \/ (e = f /\ t.index <= u.index)
  BY DEF Natural
<1> HIDE DEF e, f, S
<1>10. CASE e = f
  <2> DEFINE a == e * S
  <2>1. a \in Nat /\ MakeIndex(t) = a + t.index /\ MakeIndex(u) = a + u.index
    BY <1>4, <1>7, <1>10
  <2> HIDE DEF a
  <2>2. ~(e < f)
    BY <1>1, <1>10 DEF e, f
  <2> QED
    BY <1>2, <1>9, <1>10, <2>1, <2>2 DEF e, f
<1>11. CASE e # f
  <2> DEFINE a == e * S
             b == f * S
  <2>1. a \in Nat /\ b \in Nat /\ (e < f => a + S <= b) /\ (f < e => b + S <= a)
    BY <1>4, <1>5, <1>6
  <2>2. MakeIndex(t) = a + t.index /\ MakeIndex(u) = b + u.index
    BY <1>7
  <2> HIDE DEF a, b
  <2>3. MakeIndex(t) \in Nat /\ (MakeIndex(t) <= MakeIndex(u) <=> e < f) /\ MakeIndex(t) # MakeIndex(u)
    BY <1>1, <1>2, <1>8, <1>11, <2>1, <2>2
  <2> QED
    BY <1>9, <1>11, <2>3 DEF e, f
<1> QED
  BY <1>10, <1>11

\* A row is as it was written, or its bytes were corrupted.
LEMMA RowForm ==
    ASSUME NEW r \in AllRows
    PROVE  /\ r.value # Corrupt => r.value \in StoreTickets /\ r = Row(r.value)
           /\ r.key \in Nat
           /\ [r EXCEPT !.value = Corrupt] \in AllRows
<1>1. PICK t \in StoreTickets : r \in {Row(t), [Row(t) EXCEPT !.value = Corrupt]}
  BY DEF AllRows
<1>2. Row(t).key \in Nat /\ Row(t) = [key |-> MakeIndex(t), value |-> t]
  BY KeyOrder DEF Row
<1>3. [Row(t) EXCEPT !.value = Corrupt] = [key |-> MakeIndex(t), value |-> Corrupt]
  BY <1>2
<1>4. [Row(t) EXCEPT !.value = Corrupt] \in AllRows
  BY DEF AllRows
<1>5. [r EXCEPT !.value = Corrupt] = [Row(t) EXCEPT !.value = Corrupt]
  BY <1>1, <1>2, <1>3
<1>6. r.key = MakeIndex(t) /\ (r = Row(t) \/ r.value = Corrupt) /\ MakeIndex(t) \in Nat /\ Row(t).value = t
  BY <1>1, <1>2, <1>3, KeyOrder
<1>7. t # Corrupt
  OBVIOUS
<1> QED
  BY <1>4, <1>5, <1>6, <1>7

LEMMA RowIn == ASSUME NEW t \in StoreTickets PROVE Row(t) \in AllRows /\ Row(t).value = t /\ Row(t).key = MakeIndex(t)
BY DEF AllRows, Row

\* Of rows, one comes first.
LEMMA FirstRowIn ==
    ASSUME NEW rows \in SUBSET AllRows, rows # {}
    PROVE  FirstRow(rows) \in rows /\ \A s \in rows : FirstRow(rows).key <= s.key
<1> DEFINE T == {r.key : r \in rows}
<1>1. T \in SUBSET Nat /\ T # {}
  BY RowForm
<1>2. \E x \in T : \A y \in T : x <= y
  <2> HIDE DEF T
  <2> QED
    BY <1>1, LeastExists
<1>3. \E r \in rows : \A s \in rows : r.key <= s.key
  BY <1>2
<1> QED
  BY <1>3 DEF FirstRow
-----------------------------------------------------------------------------
(* No ticket is lost. *)

\* The tables of redb hold rows,
TablesInv == tables \in [StoreChannels -> (SUBSET AllRows) \cup {NoTable}]
\* and among them the row of every ticket it has to keep.
KeptInv == \A k \in kept : k \in StoreChannels \X StoreTickets /\ Row(k[2]) \in Rows(k[1])

LEMMA RowsTyped ==
    ASSUME TablesInv, NEW ch \in StoreChannels
    PROVE  Rows(ch) \in SUBSET AllRows /\ (tables[ch] # NoTable => Rows(ch) = tables[ch])
<1>1. tables[ch] = NoTable \/ tables[ch] \in SUBSET AllRows
  BY DEF TablesInv
<1> QED
  BY <1>1 DEF Rows

\* A call writes the table of one channel: the tickets to keep stay in it.
LEMMA KeptStep ==
    ASSUME TablesInv, KeptInv, NEW ch \in StoreChannels, NEW rows \in (SUBSET AllRows) \cup {NoTable},
           tables' = [tables EXCEPT ![ch] = rows],
           \A k \in kept' : /\ k \in StoreChannels \X StoreTickets
                            /\ k[1] # ch => k \in kept
                            /\ k[1] = ch => rows # NoTable /\ Row(k[2]) \in rows
    PROVE  TablesInv' /\ KeptInv'
<1>1. TablesInv'
  BY DEF TablesInv
<1>2. ASSUME NEW k \in kept' PROVE k \in StoreChannels \X StoreTickets /\ Row(k[2]) \in Rows(k[1])'
  <2>1. k \in StoreChannels \X StoreTickets /\ k[1] \in StoreChannels
    OBVIOUS
  <2>2. tables'[k[1]] = IF k[1] = ch THEN rows ELSE tables[k[1]]
    BY <2>1 DEF TablesInv
  <2>3. CASE k[1] = ch
    BY <2>1, <2>2, <2>3 DEF Rows
  <2>4. CASE k[1] # ch
    <3>1. Row(k[2]) \in Rows(k[1])
      BY <2>4 DEF KeptInv
    <3>2. Rows(k[1])' = Rows(k[1])
      BY <2>2, <2>4 DEF Rows
    <3> QED
      BY <2>1, <3>1, <3>2
  <2> QED
    BY <2>3, <2>4
<1> QED
  BY <1>1, <1>2 DEF KeptInv

\* A call that leaves the tables alone.
LEMMA KeptSame ==
    ASSUME TablesInv, KeptInv, tables' = tables, \A k \in kept' : k \in kept
    PROVE  TablesInv' /\ KeptInv'
<1>1. TablesInv'
  BY DEF TablesInv
<1>2. ASSUME NEW k \in kept' PROVE k \in StoreChannels \X StoreTickets /\ Row(k[2]) \in Rows(k[1])'
  <2>1. Rows(k[1])' = Rows(k[1])
    BY DEF Rows
  <2> QED
    BY <2>1 DEF KeptInv
<1> QED
  BY <1>1, <1>2 DEF KeptInv

\* A ticket is pushed: only a row with its key goes.
LEMMA KeptPush ==
    ASSUME TablesInv, KeptInv, NEW ch \in StoreChannels, NEW t \in StoreTickets, PushTicket(ch, t)
    PROVE  TablesInv' /\ KeptInv'
<1>1. CASE ~open
  BY <1>1, KeptSame DEF PushTicket
<1>2. CASE open
  <2> DEFINE rows == RedbPush(ch, t)
  <2>1. rows \in (SUBSET AllRows) \cup {NoTable} /\ rows # NoTable /\ Row(t) \in rows
    <3>1. rows \in SUBSET AllRows
      BY RowsTyped, RowIn DEF RedbPush
    <3> QED
      BY <3>1 DEF RedbPush
  <2>2. tables' = [tables EXCEPT ![ch] = rows]
    BY <1>2 DEF PushTicket
  <2>3. ASSUME NEW k \in kept'
        PROVE  /\ k \in StoreChannels \X StoreTickets
               /\ k[1] # ch => k \in kept
               /\ k[1] = ch => rows # NoTable /\ Row(k[2]) \in rows
    <3>1. kept' = {l \in kept : l[1] = ch /\ l[2].epoch = t.epoch => l[2].index # t.index} \cup {<<ch, t>>}
      BY <1>2 DEF PushTicket
    <3>2. CASE k = <<ch, t>>
      BY <2>1, <3>2
    <3>3. CASE k # <<ch, t>>
      <4>1. k \in kept /\ (k[1] = ch /\ k[2].epoch = t.epoch => k[2].index # t.index)
        BY <3>1, <3>3
      <4>2. k \in StoreChannels \X StoreTickets /\ Row(k[2]) \in Rows(k[1])
        BY <4>1 DEF KeptInv
      <4>3. k[1] = ch => Row(k[2]).key # MakeIndex(t)
        <5>1. k[2] \in StoreTickets
          BY <4>2
        <5>2. MakeIndex(k[2]) = MakeIndex(t) <=> k[2].epoch = t.epoch /\ k[2].index = t.index
          BY <5>1, KeyOrder
        <5> QED
          BY <4>1, <5>1, <5>2, RowIn
      <4> QED
        BY <2>1, <4>1, <4>2, <4>3 DEF RedbPush
    <3> QED
      BY <3>2, <3>3
  <2> HIDE DEF rows
  <2> QED
    BY <2>1, <2>2, <2>3, KeptStep
<1> QED
  BY <1>1, <1>2

\* A pop hands out the ticket of the row it takes.
LEMMA KeptPop ==
    ASSUME TablesInv, KeptInv, NEW ch \in StoreChannels, PopTicket(ch)
    PROVE  TablesInv' /\ KeptInv'
<1> DEFINE popped == PoppedRows(Rows(ch))
           said == IF open THEN First(popped) ELSE Err("closed")
           rows == Rows(ch) \ popped
<1>1. kept' = {k \in kept : k[1] = ch => said.tickets # <<k[2]>>}
      /\ tables' = IF open THEN [tables EXCEPT ![ch] = rows] ELSE tables
  BY DEF PopTicket
<1>2. CASE ~open
  <2>1. \A k \in kept' : k \in kept
    BY <1>1
  <2> QED
    BY <1>1, <1>2, <2>1, KeptSame
<1>3. CASE open
  <2>1. rows \in (SUBSET AllRows) \cup {NoTable} /\ rows # NoTable
    <3>1. rows \in SUBSET AllRows
      BY RowsTyped
    <3> QED
      BY <3>1
  <2>2. ASSUME NEW k \in kept'
        PROVE  /\ k \in StoreChannels \X StoreTickets
               /\ k[1] # ch => k \in kept
               /\ k[1] = ch => rows # NoTable /\ Row(k[2]) \in rows
    <3>1. k \in kept /\ k \in StoreChannels \X StoreTickets /\ Row(k[2]) \in Rows(k[1])
      BY <1>1 DEF KeptInv
    <3>2. ASSUME k[1] = ch, Row(k[2]) \in popped PROVE FALSE
      <4>1. Row(k[2]) = FirstRow(Rows(ch)) /\ popped = {Row(k[2])}
        BY <3>1, <3>2 DEF PoppedRows
      <4>2. FirstRow(popped) = Row(k[2])
        BY <4>1 DEF FirstRow
      <4>3. Row(k[2]).value = k[2] /\ k[2] # Corrupt
        BY <3>1, RowIn
      <4>4. said = Ok(<<k[2]>>)
        BY <1>3, <4>1, <4>2, <4>3 DEF First
      <4>5. said.tickets # <<k[2]>>
        BY <1>1, <3>2
      <4> HIDE DEF said
      <4> QED
        BY <4>4, <4>5 DEF Ok
    <3> QED
      BY <2>1, <3>1, <3>2
  <2>3. tables' = [tables EXCEPT ![ch] = rows]
    BY <1>1, <1>3
  <2> HIDE DEF rows
  <2> QED
    BY <2>1, <2>2, <2>3, KeptStep
<1> QED
  BY <1>2, <1>3

\* The bytes of one row change: the ticket that was in it is not kept.
LEMMA KeptCorrupted ==
    ASSUME TablesInv, KeptInv, NEW ch \in StoreChannels, RowCorrupted(ch)
    PROVE  TablesInv' /\ KeptInv'
<1>1. PICK r \in Readable(Rows(ch)) :
        /\ tables' = [tables EXCEPT ![ch] = (@ \ {r}) \cup {[r EXCEPT !.value = Corrupt]}]
        /\ kept' = kept \ {<<ch, r.value>>}
  BY DEF RowCorrupted
<1> DEFINE rows == (tables[ch] \ {r}) \cup {[r EXCEPT !.value = Corrupt]}
<1>2. r \in Rows(ch) /\ r.value # Corrupt
  BY DEF Readable
<1>3. tables[ch] # NoTable /\ tables[ch] = Rows(ch) /\ r \in AllRows
  BY <1>2, RowsTyped DEF Rows
<1>4. r.value \in StoreTickets /\ r = Row(r.value)
  BY <1>2, <1>3, RowForm
<1>5. rows \in (SUBSET AllRows) \cup {NoTable} /\ rows # NoTable
  <2>1. rows \in SUBSET AllRows
    BY <1>3, RowsTyped, RowForm
  <2> QED
    BY <2>1
<1>6. ASSUME NEW k \in kept'
      PROVE  /\ k \in StoreChannels \X StoreTickets
             /\ k[1] # ch => k \in kept
             /\ k[1] = ch => rows # NoTable /\ Row(k[2]) \in rows
  <2>1. k \in kept /\ k # <<ch, r.value>>
    BY <1>1
  <2>2. k \in StoreChannels \X StoreTickets /\ Row(k[2]) \in Rows(k[1])
    BY <2>1 DEF KeptInv
  <2>3. k[1] = ch => k[2] # r.value
    BY <2>1, <2>2
  <2>4. k[1] = ch => Row(k[2]) # r
    BY <1>4, <2>2, <2>3, RowIn
  <2> QED
    BY <1>3, <1>5, <2>1, <2>2, <2>4
<1>7. tables' = [tables EXCEPT ![ch] = rows]
  BY <1>1 DEF TablesInv
<1> HIDE DEF rows
<1> QED
  BY <1>5, <1>6, <1>7, KeptStep

\* A queue is opened, or deleted unless one of its rows is unreadable.
LEMMA KeptQueue ==
    ASSUME TablesInv, KeptInv, NEW ch \in StoreChannels, OpenOrCreateQueue(ch) \/ DeleteQueue(ch)
    PROVE  TablesInv' /\ KeptInv'
<1>k. \A k \in kept : k \in StoreChannels \X StoreTickets /\ Row(k[2]) \in Rows(k[1])
  BY DEF KeptInv
<1>n. \A k \in kept : k[1] = ch => tables[ch] # NoTable
  BY <1>k DEF Rows
<1>1. CASE OpenOrCreateQueue(ch)
  <2>1. Rows(ch) \in (SUBSET AllRows) \cup {NoTable} /\ Rows(ch) # NoTable
    BY RowsTyped
  <2>2. tables' = [tables EXCEPT ![ch] = Rows(ch)] /\ kept' = kept
    BY <1>1 DEF OpenOrCreateQueue
  <2> DEFINE rows == Rows(ch)
  <2>3. \A k \in kept' : /\ k \in StoreChannels \X StoreTickets
                         /\ k[1] # ch => k \in kept
                         /\ k[1] = ch => rows # NoTable /\ Row(k[2]) \in rows
    BY <1>k, <2>1, <2>2
  <2>4. tables' = [tables EXCEPT ![ch] = rows] /\ rows \in (SUBSET AllRows) \cup {NoTable}
    BY <2>1, <2>2
  <2> HIDE DEF rows
  <2> QED
    BY <2>3, <2>4, KeptStep
<1>2. CASE DeleteQueue(ch)
  <2> DEFINE rows == Undeleted(ch)
  <2>1. tables' = [tables EXCEPT ![ch] = rows]
        /\ kept' = IF Readable(Rows(ch)) = Rows(ch) THEN {k \in kept : k[1] # ch} ELSE kept
    BY <1>2 DEF DeleteQueue
  <2>2. rows \in (SUBSET AllRows) \cup {NoTable}
    <3>1. tables[ch] \in (SUBSET AllRows) \cup {NoTable}
      BY DEF TablesInv
    <3> QED
      BY <3>1 DEF Undeleted
  <2>3. \A k \in kept' : /\ k \in StoreChannels \X StoreTickets
                         /\ k[1] # ch => k \in kept
                         /\ k[1] = ch => rows # NoTable /\ Row(k[2]) \in rows
    BY <1>k, <1>n, <2>1, RowsTyped DEF Undeleted
  <2>4. tables' = [tables EXCEPT ![ch] = rows]
    BY <2>1
  <2> HIDE DEF rows
  <2> QED
    BY <2>2, <2>3, <2>4, KeptStep
<1> QED
  BY <1>1, <1>2

LEMMA KeptNext == ASSUME TablesInv, KeptInv, [StoresNext]_storeVars PROVE TablesInv' /\ KeptInv'
<1>1. CASE UNCHANGED storeVars
  BY <1>1, KeptSame DEF storeVars
<1>2. ASSUME NEW ch \in StoreChannels, OpenOrCreateQueue(ch) \/ DeleteQueue(ch)
      PROVE  TablesInv' /\ KeptInv'
  BY <1>2, KeptQueue
<1>3. ASSUME NEW ch \in StoreChannels, RowCorrupted(ch) PROVE TablesInv' /\ KeptInv'
  BY <1>3, KeptCorrupted
<1>4. ASSUME NEW ch \in StoreChannels, PopTicket(ch) PROVE TablesInv' /\ KeptInv'
  BY <1>4, KeptPop
<1>5. ASSUME NEW ch \in StoreChannels, NEW t \in StoreTickets, PushTicket(ch, t) PROVE TablesInv' /\ KeptInv'
  BY <1>5, KeptPush
<1>6. ASSUME NEW ch \in StoreChannels, NEW i \in StoredValues, SaveOutgoingIndex(ch, i)
      PROVE  TablesInv' /\ KeptInv'
  BY <1>6, KeptSame DEF SaveOutgoingIndex
<1>7. ASSUME NEW ch \in StoreChannels, DeleteOutgoingIndex(ch) PROVE TablesInv' /\ KeptInv'
  BY <1>7, KeptSame DEF DeleteOutgoingIndex
<1>8. ASSUME DropStore \/ NewStore PROVE TablesInv' /\ KeptInv'
  BY <1>8, KeptSame DEF DropStore, NewStore
<1> QED
  BY <1>1, <1>2, <1>3, <1>4, <1>5, <1>6, <1>7, <1>8 DEF StoresNext

\* redb keeps every ticket it has taken in until it is handed out, deleted,
\* replaced or corrupted: a pop, a deletion that fails on another row, and the
\* end of the process cost none (redb.rs:116-135, 204-226).
THEOREM FailuresLoseNoTicketCorrect == StoresSpec => []FailuresLoseNoTicket
<1>1. ASSUME StoresInit PROVE TablesInv /\ KeptInv
  <2>1. tables = [ch \in StoreChannels |-> NoTable] /\ kept = {}
    BY <1>1 DEF StoresInit
  <2>2. TablesInv
    BY <2>1 DEF TablesInv
  <2> QED
    BY <2>1, <2>2 DEF KeptInv
<1>2. TablesInv /\ KeptInv => FailuresLoseNoTicket
  BY RowIn DEF KeptInv, FailuresLoseNoTicket
<1> QED
  BY <1>1, <1>2, KeptNext, PTL DEF StoresSpec
-----------------------------------------------------------------------------
(* Tickets with distinct keys, as rows and as a heap. *)

RowsOf(q) == {Row(t) : t \in q}
KeysDistinct(q) == \A t, u \in q : MakeIndex(t) = MakeIndex(u) => t = u
Least(q) == {t \in q : \A u \in q : Natural(t, u)}

LEMMA RowsOfAreRows ==
    ASSUME NEW q \in SUBSET StoreTickets
    PROVE  /\ RowsOf(q) \in SUBSET AllRows
           /\ \A t \in StoreTickets : Row(t) \in RowsOf(q) <=> t \in q
           /\ Readable(RowsOf(q)) = RowsOf(q)
           /\ {r.value : r \in RowsOf(q)} = q
           /\ RowsOf(q) = {} <=> q = {}
<1>1. \A t \in StoreTickets : Row(t) \in AllRows /\ Row(t).value = t /\ t # Corrupt
  BY RowIn
<1> QED
  BY <1>1 DEF RowsOf, Readable

LEMMA RowsOfCardinality ==
    ASSUME NEW q \in SUBSET StoreTickets
    PROVE  /\ IsFiniteSet(q) /\ IsFiniteSet(RowsOf(q))
           /\ Cardinality(RowsOf(q)) = Cardinality(q) /\ Cardinality(q) \in Nat
<1>1. IsFiniteSet(q)
  BY FS_Subset
<1> DEFINE f == [t \in q |-> Row(t)]
<1>2. \A t, u \in q : Row(t) = Row(u) => t = u
  BY RowIn
<1>3. f \in Bijection(q, RowsOf(q))
  BY <1>2 DEF Bijection, Injection, Surjection, IsInjective, RowsOf
<1>4. ExistsBijection(q, RowsOf(q))
  BY <1>3 DEF ExistsBijection
<1> QED
  BY <1>1, <1>4, FS_Bijection, FS_CardinalityType

\* The first row holds the ticket the heap hands out, and no other.
LEMMA LeastIsFirst ==
    ASSUME NEW q \in SUBSET StoreTickets, q # {}, KeysDistinct(q)
    PROVE  \E t \in q : Least(q) = {t} /\ FirstRow(RowsOf(q)) = Row(t)
<1>1. RowsOf(q) \in SUBSET AllRows /\ RowsOf(q) # {}
  BY RowsOfAreRows
<1>2. FirstRow(RowsOf(q)) \in RowsOf(q) /\ \A s \in RowsOf(q) : FirstRow(RowsOf(q)).key <= s.key
  BY <1>1, FirstRowIn
<1>3. PICK t \in q : FirstRow(RowsOf(q)) = Row(t)
  BY <1>2 DEF RowsOf
<1>4. ASSUME NEW u \in q PROVE Natural(t, u) /\ (Natural(u, t) => u = t)
  <2>1. t \in StoreTickets /\ u \in StoreTickets
    OBVIOUS
  <2>2. Row(u) \in RowsOf(q)
    BY DEF RowsOf
  <2>3. MakeIndex(t) <= MakeIndex(u)
    BY <1>2, <1>3, <2>1, <2>2, RowIn
  <2>4. Natural(t, u) /\ MakeIndex(t) \in Nat /\ MakeIndex(u) \in Nat
        /\ (Natural(u, t) => MakeIndex(u) <= MakeIndex(t))
    BY <2>1, <2>3, KeyOrder
  <2>5. Natural(u, t) => MakeIndex(u) = MakeIndex(t)
    BY <2>3, <2>4
  <2> QED
    BY <2>4, <2>5 DEF KeysDistinct
<1>5. Least(q) = {t}
  BY <1>4 DEF Least
<1> QED
  BY <1>3, <1>5

\* The heap drained is the table in the order of its keys.
LEMMA DrainInKeyOrder ==
    ASSUME NEW q \in SUBSET StoreTickets, KeysDistinct(q), NEW d \in [1..Cardinality(q) -> q],
           \A i, j \in 1..Cardinality(q) : i < j => d[i] # d[j] /\ Natural(d[i], d[j])
    PROVE  InKeyOrder(RowsOf(q)) = d
<1> DEFINE n == Cardinality(q)
           rows == RowsOf(q)
           Below(r) == {s \in rows : s.key < r.key}
<1>1. n \in Nat /\ IsFiniteSet(q) /\ Cardinality(rows) = n
  BY RowsOfCardinality
<1>d. d \in [1..n -> q] /\ \A i, j \in 1..n : i < j => d[i] # d[j] /\ Natural(d[i], d[j])
  OBVIOUS
<1> HIDE DEF n
<1>2. \A i, j \in 1..n : d[i] = d[j] => i = j
  <2> SUFFICES ASSUME NEW i \in 1..n, NEW j \in 1..n, d[i] = d[j], i # j PROVE FALSE
    OBVIOUS
  <2>1. i < j \/ j < i
    BY <1>1
  <2> QED
    BY <1>d, <2>1
<1>3. d \in Surjection(1..n, q)
  <2>1. d \in Injection(1..n, q)
    BY <1>d, <1>2 DEF Injection, IsInjective
  <2>2. Cardinality(1..n) = n /\ IsFiniteSet(1..n)
    <3>1. 1 \in Int /\ n \in Int /\ (1 > n <=> n = 0) /\ n - 1 + 1 = n
      BY <1>1
    <3>2. IsFiniteSet(1..n) /\ Cardinality(1..n) = IF 1 > n THEN 0 ELSE n - 1 + 1
      BY <3>1, FS_Interval, Zenon
    <3> QED
      BY <3>1, <3>2
  <2> QED
    BY <1>1, <2>1, <2>2, FS_Injection DEF n
<1>4. ASSUME NEW i \in 1..n, NEW j \in 1..n
      PROVE  Row(d[i]).key < Row(d[j]).key <=> i < j
  <2>1. d[i] \in StoreTickets /\ d[j] \in StoreTickets /\ d[i] \in q /\ d[j] \in q
    BY <1>d
  <2>2. /\ Row(d[i]).key = MakeIndex(d[i]) /\ Row(d[j]).key = MakeIndex(d[j])
        /\ MakeIndex(d[i]) \in Nat /\ MakeIndex(d[j]) \in Nat
        /\ MakeIndex(d[i]) <= MakeIndex(d[j]) <=> Natural(d[i], d[j])
        /\ MakeIndex(d[j]) <= MakeIndex(d[i]) <=> Natural(d[j], d[i])
    BY <2>1, RowIn, KeyOrder
  <2>3. MakeIndex(d[i]) = MakeIndex(d[j]) => i = j
    BY <1>2, <2>1 DEF KeysDistinct
  <2>4. CASE i < j
    BY <1>d, <1>1, <2>2, <2>3, <2>4
  <2>5. CASE j < i
    BY <1>d, <1>1, <2>2, <2>3, <2>5
  <2>6. CASE i = j
    BY <2>2, <2>6
  <2> QED
    BY <1>1, <2>4, <2>5, <2>6
<1>5. \A r \in rows : \E i \in 1..n : r = Row(d[i])
  BY <1>3 DEF RowsOf, Surjection
<1>6. ASSUME NEW i \in 1..n PROVE Cardinality(Below(Row(d[i]))) = i - 1 /\ Row(d[i]) \in rows
  <2> DEFINE f == [j \in 1..(i - 1) |-> Row(d[j])]
             B == Below(Row(d[i]))
  <2>1. ASSUME NEW j \in 1..(i - 1) PROVE j \in 1..n /\ j < i /\ d[j] \in StoreTickets
    <3>1. j \in 1..n /\ j < i
      BY <1>1
    <3>2. d[j] \in q
      BY <1>d, <3>1
    <3> QED
      BY <3>1, <3>2
  <2>2. \A j \in 1..n : Row(d[j]) \in rows
    BY <1>d DEF RowsOf
  <2>3. \A j \in 1..(i - 1) : f[j] \in B
    BY <1>4, <2>1, <2>2
  <2>4. \A r \in B : \E j \in 1..(i - 1) : f[j] = r
    <3> SUFFICES ASSUME NEW r \in B PROVE \E j \in 1..(i - 1) : f[j] = r
      OBVIOUS
    <3>1. PICK j \in 1..n : r = Row(d[j])
      BY <1>5
    <3>2. j < i
      BY <1>4, <3>1
    <3>3. j \in 1..(i - 1)
      BY <1>1, <3>2
    <3> QED
      BY <3>1, <3>3
  <2>5. \A j, k \in 1..(i - 1) : f[j] = f[k] => j = k
    <3> SUFFICES ASSUME NEW j \in 1..(i - 1), NEW k \in 1..(i - 1), f[j] = f[k] PROVE j = k
      OBVIOUS
    <3>1. d[j] = d[k]
      BY <2>1, RowIn
    <3> QED
      BY <1>2, <2>1, <3>1
  <2>6. f \in Bijection(1..(i - 1), B)
    <3>1. f \in [1..(i - 1) -> B]
      BY <2>3
    <3> HIDE DEF B, f
    <3> QED
      BY <2>4, <2>5, <3>1 DEF Bijection, Injection, Surjection, IsInjective
  <2>7. ExistsBijection(1..(i - 1), B)
    BY <2>6 DEF ExistsBijection
  <2>8. IsFiniteSet(1..(i - 1)) /\ Cardinality(1..(i - 1)) = i - 1
    <3>1. i - 1 \in Int /\ 1 \in Int /\ i - 1 >= 0 /\ i \in Int
      BY <1>1
    <3> QED
      BY <3>1, FS_Interval
  <2> HIDE DEF B
  <2> QED
    BY <2>2, <2>7, <2>8, FS_Bijection DEF B
<1>7. ASSUME NEW i \in 1..n
      PROVE  (CHOOSE r \in rows : Cardinality(Below(r)) = i - 1) = Row(d[i])
  <2>1. ASSUME NEW r \in rows, Cardinality(Below(r)) = i - 1 PROVE r = Row(d[i])
    <3>1. PICK j \in 1..n : r = Row(d[j])
      BY <1>5
    <3>2. Cardinality(Below(r)) = j - 1
      BY <1>6, <3>1
    <3> HIDE DEF Below
    <3>3. j = i
      BY <1>1, <2>1, <3>2
    <3> QED
      BY <3>1, <3>3
  <2>2. Cardinality(Below(Row(d[i]))) = i - 1 /\ Row(d[i]) \in rows
    BY <1>6
  <2> HIDE DEF Below, rows
  <2> QED
    BY <2>1, <2>2
<1>8. \A i \in 1..n : (CHOOSE r \in rows : Cardinality(Below(r)) = i - 1).value = d[i]
  BY <1>7, <1>d, RowIn
<1>9. InKeyOrder(rows) = [i \in 1..n |-> (CHOOSE r \in rows : Cardinality(Below(r)) = i - 1).value]
  BY <1>1 DEF InKeyOrder
<1> HIDE DEF Below, rows
<1>10. InKeyOrder(rows) = [i \in 1..n |-> d[i]]
  BY <1>8, <1>9
<1> QED
  BY <1>d, <1>10 DEF rows
-----------------------------------------------------------------------------
(* The length of a heap without copies. *)

HeapSum(c, q) == MapThenSumSet(LAMBDA t : c[t], q)

\* The element a fold takes first, and the recursion it is defined by.
Any(s) == CHOOSE x \in s : TRUE
Sums(c, f, q) == f = [s \in SUBSET q |-> IF s = {} THEN 0 ELSE c[Any(s)] + f[s \ {Any(s)}]]

\* The fold of HeapSum is such a recursion.
LEMMA SumUnfolds ==
    ASSUME NEW c, NEW q
    PROVE  HeapSum(c, q) = (CHOOSE f : Sums(c, f, q))[q]
BY Zenon DEF HeapSum, MapThenSumSet, MapThenFoldSet, Sums, Any

\* The element taken first is in the set.
LEMMA AnyIn == ASSUME NEW s, s # {} PROVE Any(s) \in s
BY DEF Any

\* Where two of these recursions are both defined they agree.
LEMMA SumsAgree ==
    ASSUME NEW c, NEW f, NEW g, NEW q, NEW r, Sums(c, f, q), Sums(c, g, r), NEW s \in SUBSET (q \cap r), IsFiniteSet(s)
    PROVE  f[s] = g[s]
<1> DEFINE Q == {x \in SUBSET s : f[x] # g[x]}
<1>1. ASSUME Q # {} PROVE FALSE
  <2>1. \A x \in Q : IsFiniteSet(x)
    BY FS_Subset
  <2>2. PICK x \in Q : \A y \in Q : y \subseteq x => y = x
    <3> HIDE DEF Q
    <3> QED
      BY <1>1, <2>1, SmallestExists
  <2> DEFINE y == x \ {Any(x)}
  <2>3. x \in SUBSET q /\ x \in SUBSET r /\ x \in SUBSET s
    OBVIOUS
  <2>4. x # {} => f[x] = c[Any(x)] + f[y] /\ g[x] = c[Any(x)] + g[y]
    BY <2>3 DEF Sums
  <2>5. x # {}
    BY <2>3 DEF Sums
  <2>6. y # x /\ y \subseteq x
    BY <2>5, AnyIn
  <2>7. f[y] = g[y]
    BY <2>2, <2>3, <2>6
  <2> QED
    BY <2>4, <2>5, <2>7
<1> QED
  BY <1>1

\* For a finite set there is such a recursion.
LEMMA SumsExist ==
    ASSUME NEW c, NEW S, IsFiniteSet(S)
    PROVE  \E f : Sums(c, f, S)
<1> DEFINE Q == {x \in SUBSET S : ~\E f : Sums(c, f, x)}
<1>1. ASSUME Q # {} PROVE FALSE
  <2>1. \A x \in Q : IsFiniteSet(x)
    BY FS_Subset
  <2>2. PICK x \in Q : \A y \in Q : y \subseteq x => y = x
    <3> HIDE DEF Q
    <3> QED
      BY <1>1, <2>1, SmallestExists
  <2> DEFINE G(y) == CHOOSE f : Sums(c, f, y)
  <2>3. ASSUME NEW y \in SUBSET x, y # x PROVE Sums(c, G(y), y) /\ IsFiniteSet(y)
    <3>1. y \in SUBSET S /\ y \notin Q
      BY <2>2, <2>3
    <3>2. \E f : Sums(c, f, y)
      BY <3>1
    <3> QED
      BY <3>1, <3>2, FS_Subset
  <2> DEFINE rest == x \ {Any(x)}
             h == [y \in SUBSET x |-> IF y = {} THEN 0
                                      ELSE IF y # x THEN G(y)[y]
                                      ELSE c[Any(x)] + G(rest)[rest]]
  <2> HIDE DEF G
  <2>4. ASSUME NEW y \in SUBSET x, y # {} PROVE h[y] = c[Any(y)] + h[y \ {Any(y)}]
    <3> DEFINE z == y \ {Any(y)}
    <3>1. z \in SUBSET x /\ z # x /\ z \in SUBSET y /\ z # y
      BY <2>4, AnyIn
    <3>2. h[z] = G(z)[z]
      <4>1. Sums(c, G(z), z)
        BY <2>3, <3>1
      <4>2. z = {} => G(z)[z] = 0
        BY <4>1 DEF Sums
      <4> HIDE DEF z
      <4> QED
        BY <3>1, <4>2
    <3>3. CASE y = x
      BY <2>4, <3>2, <3>3
    <3>4. CASE y # x
      <4>1. Sums(c, G(y), y) /\ Sums(c, G(z), z) /\ IsFiniteSet(z)
        BY <2>3, <3>1, <3>4
      <4>2. z \in SUBSET (y \cap z)
        BY <3>1
      <4>3. G(y)[z] = G(z)[z]
        <5> HIDE DEF z
        <5> QED
          BY <4>1, <4>2, SumsAgree
      <4>4. G(y)[y] = c[Any(y)] + G(y)[z]
        <5>1. y \in SUBSET y
          OBVIOUS
        <5> QED
          BY <2>4, <4>1, <5>1 DEF Sums
      <4>5. h[y] = G(y)[y]
        BY <2>4, <3>4
      <4>6. h[y] = c[Any(y)] + h[z]
        <5> HIDE DEF h, z
        <5> QED
          BY <3>2, <4>3, <4>4, <4>5
      <4> HIDE DEF h
      <4> QED
        BY <4>6
    <3> HIDE DEF h
    <3> QED
      BY <3>3, <3>4
  <2>5. h = [y \in SUBSET x |-> h[y]] /\ h[{}] = 0
    OBVIOUS
  <2> HIDE DEF h
  <2>6. h = [y \in SUBSET x |-> IF y = {} THEN 0 ELSE c[Any(y)] + h[y \ {Any(y)}]]
    BY <2>4, <2>5
  <2> QED
    BY <2>2, <2>6 DEF Sums
<1>2. S \in SUBSET S /\ S \notin Q
  BY <1>1
<1> QED
  BY <1>2

\* The sum over no tickets, and over one ticket more.
LEMMA SumRecursion ==
    ASSUME NEW c, NEW q, IsFiniteSet(q)
    PROVE  /\ q = {} => HeapSum(c, q) = 0
           /\ q # {} => HeapSum(c, q) = c[Any(q)] + HeapSum(c, q \ {Any(q)})
<1> DEFINE r == q \ {Any(q)}
           f == CHOOSE f : Sums(c, f, q)
           g == CHOOSE k : Sums(c, k, r)
<1>1. IsFiniteSet(r)
  BY FS_Subset
<1>2. Sums(c, f, q) /\ Sums(c, g, r)
  BY <1>1, SumsExist
<1>3. HeapSum(c, q) = f[q] /\ HeapSum(c, r) = g[r]
  BY SumUnfolds
<1> HIDE DEF f, g
<1>4. f[q] = IF q = {} THEN 0 ELSE c[Any(q)] + f[r]
  <2>1. q \in SUBSET q
    OBVIOUS
  <2> QED
    BY <1>2, <2>1 DEF Sums
<1>5. f[r] = g[r]
  <2>1. r \in SUBSET (q \cap r)
    OBVIOUS
  <2> HIDE DEF r
  <2> QED
    BY <1>1, <1>2, <2>1, SumsAgree
<1> QED
  BY <1>3, <1>4, <1>5

\* A heap with no ticket twice is as long as the set of its tickets.
LEMMA SumCounts ==
    ASSUME NEW c \in [StoreTickets -> {0, 1}]
    PROVE  HeapSum(c, StoreTickets) = Cardinality({t \in StoreTickets : c[t] > 0})
<1> DEFINE In(q) == {t \in q : c[t] > 0}
           Q == {q \in SUBSET StoreTickets : HeapSum(c, q) # Cardinality(In(q))}
<1>f. \A q \in SUBSET StoreTickets : IsFiniteSet(q) /\ IsFiniteSet(In(q))
  <2> SUFFICES ASSUME NEW q \in SUBSET StoreTickets PROVE IsFiniteSet(q) /\ IsFiniteSet(In(q))
    OBVIOUS
  <2>1. In(q) \in SUBSET StoreTickets
    OBVIOUS
  <2> HIDE DEF In
  <2> QED
    BY <2>1, FS_Subset
<1>1. ASSUME Q # {} PROVE FALSE
  <2>1. PICK q \in Q : \A r \in Q : r \subseteq q => r = q
    <3>1. \A q \in Q : IsFiniteSet(q)
      BY <1>f
    <3> HIDE DEF Q
    <3> QED
      BY <1>1, <3>1, SmallestExists
  <2>2. q \in SUBSET StoreTickets /\ IsFiniteSet(q) /\ HeapSum(c, q) # Cardinality(In(q))
    BY <1>f
  <2>3. q # {}
    <3> SUFFICES ASSUME q = {} PROVE FALSE
      OBVIOUS
    <3>1. In(q) = {}
      OBVIOUS
    <3> QED
      BY <2>2, <3>1, SumRecursion, FS_EmptySet
  <2>4. PICK x \in q : x = Any(q)
    BY <2>3, AnyIn
  <2> DEFINE r == q \ {x}
  <2>5. HeapSum(c, q) = c[x] + HeapSum(c, r)
    BY <2>2, <2>3, <2>4, SumRecursion
  <2>6. HeapSum(c, r) = Cardinality(In(r))
    <3>1. r \in SUBSET StoreTickets /\ r \subseteq q /\ r # q
      BY <2>2
    <3> HIDE DEF r
    <3> QED
      BY <2>1, <3>1
  <2>7. IsFiniteSet(In(r)) /\ Cardinality(In(r)) \in Nat
    <3>1. r \in SUBSET StoreTickets
      BY <2>2
    <3> HIDE DEF r
    <3> QED
      BY <1>f, <3>1, FS_CardinalityType
  <2>8. In(q) = IF c[x] = 1 THEN In(r) \cup {x} ELSE In(r)
    <3>1. c[x] \in {0, 1} /\ (c[x] > 0 <=> c[x] = 1)
      BY <2>2
    <3> QED
      BY <3>1
  <2>9. x \notin In(r) /\ c[x] \in {0, 1}
    BY <2>2
  <2> HIDE DEF In, r
  <2>10. Cardinality(In(q)) = IF c[x] = 1 THEN Cardinality(In(r)) + 1 ELSE Cardinality(In(r))
    BY <2>7, <2>8, <2>9, FS_AddElement
  <2> QED
    BY <2>2, <2>5, <2>6, <2>7, <2>9, <2>10
<1>2. In(StoreTickets) = {t \in StoreTickets : c[t] > 0} /\ StoreTickets \in SUBSET StoreTickets
  OBVIOUS
<1> HIDE DEF In
<1> QED
  BY <1>1, <1>2

-----------------------------------------------------------------------------
(* The stores agree. *)

\* What holds of the memory store's heaps whatever is done to redb.
HeapsInv ==
    /\ heaps \in [Heaps -> [StoreTickets -> Nat]]
    /\ allocated \in 0..MaxHeaps
    /\ mtickets \in [StoreChannels -> 0..allocated]
    /\ handle \in [StoreChannels -> 0..allocated]
    /\ \A h \in Heaps : h > allocated => heaps[h] = EmptyHeap
    /\ \A c, d \in StoreChannels : mtickets[c] = mtickets[d] /\ mtickets[c] # 0 => c = d

\* The table of a channel and its heap hold the same tickets.
Paired(ch) ==
    /\ mtickets[ch] = 0 => tables[ch] = NoTable
    /\ mtickets[ch] # 0 =>
        /\ tables[ch] = RowsOf(InHeap(mtickets[ch]))
        /\ \A t \in StoreTickets : heaps[mtickets[ch]][t] \in {0, 1}
        /\ KeysDistinct(InHeap(mtickets[ch]))

PairedInv == diverged = {} =>
    /\ open
    /\ answer.redb = answer.memory
    /\ out_table = out_indices
    /\ \A ch \in StoreChannels : Paired(ch)

LEMMA HeapsInit == StoresInit => HeapsInv /\ PairedInv
<1> SUFFICES ASSUME StoresInit PROVE HeapsInv /\ PairedInv
  OBVIOUS
<1>1. HeapsInv
  BY DEF StoresInit, HeapsInv, EmptyHeap
<1>2. PairedInv
  BY DEF StoresInit, PairedInv, Paired, Both
<1> QED
  BY <1>1, <1>2

LEMMA HeapsStep == ASSUME HeapsInv, [StoresNext]_storeVars PROVE HeapsInv'
<1>e. EmptyHeap \in [StoreTickets -> Nat]
  BY DEF EmptyHeap
<1>n. MaxHeaps \in Nat /\ allocated \in Nat /\ allocated <= MaxHeaps /\ Heaps = 1..MaxHeaps
  BY DEF HeapsInv, Heaps
<1>1. CASE UNCHANGED <<memoryVars, handle>>
  BY <1>1 DEF memoryVars, HeapsInv
<1>2. ASSUME NEW ch \in StoreChannels, OpenOrCreateQueue(ch) PROVE HeapsInv'
  <2> DEFINE h == IF mtickets[ch] = 0 THEN allocated + 1 ELSE mtickets[ch]
  <2>1. /\ h \in Heaps /\ heaps' = heaps
        /\ mtickets' = [mtickets EXCEPT ![ch] = h]
        /\ handle' = [handle EXCEPT ![ch] = h]
        /\ allocated' = IF h > allocated THEN h ELSE allocated
    BY <1>2 DEF OpenOrCreateQueue
  <2>2. h \in Nat /\ (mtickets[ch] # 0 => h = mtickets[ch] /\ h <= allocated)
        /\ (mtickets[ch] = 0 => h = allocated + 1)
    BY <1>n DEF HeapsInv
  <2> HIDE DEF h
  <2>3. allocated' \in 0..MaxHeaps /\ h <= allocated' /\ allocated <= allocated'
    BY <1>n, <2>1, <2>2
  <2>4. 0..allocated \subseteq 0..allocated' /\ h \in 0..allocated'
    BY <1>n, <2>2, <2>3
  <2>5. mtickets' \in [StoreChannels -> 0..allocated'] /\ handle' \in [StoreChannels -> 0..allocated']
    BY <2>1, <2>4 DEF HeapsInv
  <2>6. \A g \in Heaps : g > allocated' => heaps'[g] = EmptyHeap
    BY <1>n, <2>1, <2>3 DEF HeapsInv
  <2>7. ASSUME NEW c \in StoreChannels, NEW d \in StoreChannels, mtickets'[c] = mtickets'[d], mtickets'[c] # 0
        PROVE  c = d
    <3>1. mtickets[c] \in 0..allocated /\ mtickets[d] \in 0..allocated
      BY DEF HeapsInv
    <3>2. mtickets'[c] = (IF c = ch THEN h ELSE mtickets[c]) /\ mtickets'[d] = (IF d = ch THEN h ELSE mtickets[d])
      BY <2>1 DEF HeapsInv
    <3>3. mtickets[c] = mtickets[d] /\ mtickets[c] # 0 => c = d
      BY DEF HeapsInv
    <3>4. mtickets[ch] = mtickets[d] /\ mtickets[ch] # 0 => ch = d
      BY DEF HeapsInv
    <3>5. mtickets[c] = mtickets[ch] /\ mtickets[c] # 0 => c = ch
      BY DEF HeapsInv
    <3>6. CASE c # ch /\ d # ch
      BY <2>7, <3>2, <3>3, <3>6
    <3>7. CASE c = ch /\ d # ch
      <4>1. h = mtickets[d] /\ h # 0
        BY <2>7, <3>2, <3>7
      <4> QED
        BY <1>n, <2>2, <3>1, <3>4, <3>7, <4>1
    <3>8. CASE c # ch /\ d = ch
      <4>1. h = mtickets[c] /\ h # 0
        BY <2>7, <3>2, <3>8
      <4> QED
        BY <1>n, <2>2, <3>1, <3>5, <3>8, <4>1
    <3> QED
      BY <3>6, <3>7, <3>8
  <2>8. heaps' \in [Heaps -> [StoreTickets -> Nat]]
    BY <2>1 DEF HeapsInv
  <2> QED
    BY <2>3, <2>5, <2>6, <2>7, <2>8 DEF HeapsInv
<1>3. ASSUME NEW ch \in StoreChannels, DeleteQueue(ch) PROVE HeapsInv'
  <2>1. /\ allocated' = allocated /\ handle' = handle
        /\ mtickets' = [mtickets EXCEPT ![ch] = 0]
        /\ heaps' = IF mtickets[ch] = 0 THEN heaps ELSE [heaps EXCEPT ![mtickets[ch]] = EmptyHeap]
    BY <1>3 DEF DeleteQueue
  <2>2. heaps' \in [Heaps -> [StoreTickets -> Nat]]
        /\ \A g \in Heaps : g > allocated => heaps'[g] = EmptyHeap
    BY <1>e, <2>1 DEF HeapsInv
  <2>3. 0 \in 0..allocated
    BY <1>n
  <2>4. mtickets' \in [StoreChannels -> 0..allocated]
    BY <2>1, <2>3 DEF HeapsInv
  <2>5. \A c, d \in StoreChannels : mtickets'[c] = mtickets'[d] /\ mtickets'[c] # 0 => c = d
    BY <2>1 DEF HeapsInv
  <2> QED
    BY <2>1, <2>2, <2>4, <2>5 DEF HeapsInv
<1>4. ASSUME NEW ch \in StoreChannels, NEW t \in StoreTickets, handle[ch] # 0, NEW n \in Nat,
             heaps' = [heaps EXCEPT ![handle[ch]][t] = n], UNCHANGED <<allocated, mtickets, handle>>
      PROVE  HeapsInv'
  <2>1. handle[ch] \in Heaps /\ handle[ch] <= allocated
    BY <1>4, <1>n DEF HeapsInv
  <2>2. heaps' \in [Heaps -> [StoreTickets -> Nat]]
    BY <1>4, <2>1 DEF HeapsInv
  <2>3. \A g \in Heaps : g > allocated => heaps'[g] = EmptyHeap
    <3> SUFFICES ASSUME NEW g \in Heaps, g > allocated PROVE heaps'[g] = EmptyHeap
      OBVIOUS
    <3>1. g # handle[ch]
      BY <1>n, <2>1
    <3> QED
      BY <1>4, <3>1 DEF HeapsInv
  <2> QED
    BY <1>4, <2>2, <2>3 DEF HeapsInv
<1>5. ASSUME NEW ch \in StoreChannels, NEW t \in StoreTickets, PushTicket(ch, t) PROVE HeapsInv'
  <2>1. /\ handle[ch] # 0 /\ UNCHANGED <<allocated, mtickets, handle>>
        /\ heaps' = [heaps EXCEPT ![handle[ch]][t] = @ + 1]
    BY <1>5 DEF PushTicket
  <2> DEFINE n == heaps[handle[ch]][t] + 1
  <2>2. handle[ch] \in Heaps
    BY <1>n, <2>1 DEF HeapsInv
  <2>3. n \in Nat /\ heaps' = [heaps EXCEPT ![handle[ch]][t] = n]
    BY <2>1, <2>2 DEF HeapsInv
  <2> HIDE DEF n
  <2> QED
    BY <1>4, <2>1, <2>3
<1>6. ASSUME NEW ch \in StoreChannels, PopTicket(ch) PROVE HeapsInv'
  <2>1. /\ handle[ch] # 0 /\ UNCHANGED <<allocated, mtickets, handle>>
        /\ \/ UNCHANGED heaps
           \/ \E t \in Tops(handle[ch]) : heaps' = [heaps EXCEPT ![handle[ch]][t] = @ - 1]
    BY <1>6 DEF PopTicket
  <2>2. CASE UNCHANGED heaps
    BY <1>1, <2>1, <2>2 DEF HeapsInv
  <2>3. CASE \E t \in Tops(handle[ch]) : heaps' = [heaps EXCEPT ![handle[ch]][t] = @ - 1]
    <3>1. PICK t \in Tops(handle[ch]) : heaps' = [heaps EXCEPT ![handle[ch]][t] = @ - 1]
      BY <2>3
    <3> DEFINE n == heaps[handle[ch]][t] - 1
    <3>2. t \in StoreTickets /\ heaps[handle[ch]][t] > 0
      BY DEF Tops, InHeap
    <3>3. handle[ch] \in Heaps
      BY <1>n, <2>1 DEF HeapsInv
    <3>4. n \in Nat /\ heaps' = [heaps EXCEPT ![handle[ch]][t] = n]
      BY <3>1, <3>2, <3>3 DEF HeapsInv
    <3> HIDE DEF n
    <3> QED
      BY <1>4, <2>1, <3>2, <3>4
  <2> QED
    BY <2>1, <2>2, <2>3
<1>7. ASSUME NewStore PROVE HeapsInv'
  BY <1>7, <1>e, <1>n DEF NewStore, HeapsInv
<1>8. ASSUME NEW ch \in StoreChannels, NEW i \in StoredValues, SaveOutgoingIndex(ch, i) PROVE HeapsInv'
  BY <1>8 DEF SaveOutgoingIndex, HeapsInv
<1>9. ASSUME NEW ch \in StoreChannels, DeleteOutgoingIndex(ch) PROVE HeapsInv'
  BY <1>9 DEF DeleteOutgoingIndex, HeapsInv
<1>10. ASSUME NEW ch \in StoreChannels, RowCorrupted(ch) PROVE HeapsInv'
  BY <1>1, <1>10 DEF RowCorrupted
<1>11. ASSUME DropStore \/ UNCHANGED storeVars PROVE HeapsInv'
  BY <1>1, <1>11 DEF DropStore, storeVars, memoryVars
<1> QED
  BY <1>2, <1>3, <1>5, <1>6, <1>7, <1>8, <1>9, <1>10, <1>11 DEF StoresNext
\* A channel whose table and heap are left alone stays paired.
LEMMA PairedSame ==
    ASSUME NEW c \in StoreChannels, Paired(c), tables'[c] = tables[c], mtickets'[c] = mtickets[c],
           mtickets[c] # 0 => heaps'[mtickets[c]] = heaps[mtickets[c]]
    PROVE  Paired(c)'
<1>1. CASE mtickets[c] = 0
  BY <1>1 DEF Paired
<1>2. CASE mtickets[c] # 0
  <2>1. InHeap(mtickets[c])' = InHeap(mtickets[c])
    BY <1>2 DEF InHeap
  <2> QED
    BY <1>2, <2>1 DEF Paired
<1> QED
  BY <1>1, <1>2

\* A call that does not count for the agreement: one that diverges, or that
\* writes neither tables nor heaps.
LEMMA PairedAlone ==
    ASSUME PairedInv,
           diverged' # {} \/ (/\ UNCHANGED <<tables, open, heaps, mtickets, diverged>>
                              /\ answer'.redb = answer'.memory \/ UNCHANGED answer
                              /\ out_table = out_indices => out_table' = out_indices')
    PROVE  PairedInv'
<1>1. CASE diverged' # {}
  BY <1>1 DEF PairedInv
<1>2. CASE /\ UNCHANGED <<tables, open, heaps, mtickets, diverged>>
           /\ answer'.redb = answer'.memory \/ UNCHANGED answer
           /\ out_table = out_indices => out_table' = out_indices'
  <2> SUFFICES ASSUME diverged' = {} PROVE /\ open' /\ (answer.redb = answer.memory)'
                                           /\ (out_table = out_indices)'
                                           /\ \A ch \in StoreChannels : Paired(ch)'
    BY DEF PairedInv
  <2>1. \A ch \in StoreChannels : Paired(ch)
    BY <1>2 DEF PairedInv
  <2>2. \A ch \in StoreChannels : Paired(ch)'
    BY <1>2, <2>1, PairedSame
  <2> QED
    BY <1>2, <2>2 DEF PairedInv
<1> QED
  BY <1>1, <1>2

\* A call that writes the table and the heap of one channel.
LEMMA PairedCall ==
    ASSUME TablesInv, HeapsInv, PairedInv, NEW ch \in StoreChannels,
           UNCHANGED <<open, out_table, out_indices>>, diverged = {},
           answer'.redb = answer'.memory,
           \A c \in StoreChannels \ {ch} :
              /\ tables'[c] = tables[c] /\ mtickets'[c] = mtickets[c]
              /\ mtickets[c] # 0 => heaps'[mtickets[c]] = heaps[mtickets[c]],
           Paired(ch)'
    PROVE  PairedInv'
<1>1. ASSUME NEW c \in StoreChannels PROVE Paired(c)'
  <2>1. Paired(c)
    BY DEF PairedInv
  <2>2. CASE c = ch
    BY <2>2
  <2>3. CASE c # ch
    BY <2>1, <2>3, PairedSame
  <2> QED
    BY <2>2, <2>3
<1> QED
  BY <1>1 DEF PairedInv

\* A handle to the queue the store has: its tickets in redb and in memory.
LEMMA PairedQueue ==
    ASSUME TablesInv, HeapsInv, NEW ch \in StoreChannels, Paired(ch), mtickets[ch] # 0
    PROVE  \E h \in Heaps : /\ h = mtickets[ch] /\ InHeap(h) \in SUBSET StoreTickets
                            /\ tables[ch] # NoTable
                            /\ tables[ch] = RowsOf(InHeap(h)) /\ Rows(ch) = RowsOf(InHeap(h))
                            /\ heaps[h] \in [StoreTickets -> {0, 1}] /\ KeysDistinct(InHeap(h))
                            /\ Tops(h) = Least(InHeap(h))
<1>1. mtickets[ch] \in Heaps
  BY DEF HeapsInv, Heaps
<1> DEFINE h == mtickets[ch]
<1>2. InHeap(h) \in SUBSET StoreTickets
  BY DEF InHeap
<1>3. tables[ch] = RowsOf(InHeap(h)) /\ KeysDistinct(InHeap(h)) /\ \A t \in StoreTickets : heaps[h][t] \in {0, 1}
  BY DEF Paired
<1>4. heaps[h] \in [StoreTickets -> {0, 1}]
  <2>1. heaps[h] \in [StoreTickets -> Nat]
    BY <1>1 DEF HeapsInv
  <2> HIDE DEF h
  <2> QED
    BY <1>3, <2>1
<1>5. RowsOf(InHeap(h)) \in SUBSET AllRows
  BY <1>2, RowsOfAreRows
<1>6. tables[ch] # NoTable
  BY <1>3, <1>5
<1>7. Rows(ch) = RowsOf(InHeap(h))
  BY <1>3, <1>6 DEF Rows
<1>8. Tops(h) = Least(InHeap(h))
  BY DEF Tops, Least
<1> QED
  BY <1>1, <1>2, <1>3, <1>4, <1>6, <1>7, <1>8

LEMMA PairedOpen ==
    ASSUME TablesInv, HeapsInv, PairedInv, NEW ch \in StoreChannels, OpenOrCreateQueue(ch)
    PROVE  PairedInv'
<1>1. CASE diverged' # {}
  BY <1>1, PairedAlone
<1>2. CASE diverged' = {}
  <2>h. PICK h \in Heaps : h = IF mtickets[ch] = 0 THEN allocated + 1 ELSE mtickets[ch]
    BY DEF OpenOrCreateQueue
  <2>r. PICK rows : rows = Rows(ch)
    OBVIOUS
  <2>1. /\ diverged = {} /\ h \in Heaps /\ answer' = Both(Ok(<<>>))
        /\ tables' = [tables EXCEPT ![ch] = rows]
        /\ mtickets' = [mtickets EXCEPT ![ch] = h]
        /\ UNCHANGED <<heaps, open, out_table, out_indices>>
    BY <1>2, <2>h, <2>r DEF OpenOrCreateQueue
  <2>2. Paired(ch)
    BY <2>1 DEF PairedInv
  <2>3. tables'[ch] = rows /\ mtickets'[ch] = h
    BY <2>1 DEF TablesInv, HeapsInv
  <2>4. Paired(ch)'
    <3>1. CASE mtickets[ch] = 0
      <4>1. h = allocated + 1 /\ allocated \in Nat
        BY <2>h, <3>1 DEF HeapsInv
      <4>2. heaps'[h] = EmptyHeap /\ h # 0
        BY <2>1, <4>1 DEF HeapsInv
      <4>3. rows = {}
        BY <2>r, <2>2, <3>1 DEF Paired, Rows
      <4>4. InHeap(h)' = {}
        BY <4>2 DEF InHeap, EmptyHeap
      <4>5. \A t \in StoreTickets : heaps'[h][t] = 0
        BY <4>2 DEF EmptyHeap
      <4>6. RowsOf({}) = {}
        BY DEF RowsOf
      <4> QED
        BY <2>3, <4>2, <4>3, <4>4, <4>5, <4>6 DEF Paired, KeysDistinct
    <3>2. CASE mtickets[ch] # 0
      <4>1. h = mtickets[ch]
        BY <2>h, <3>2
      <4>2. rows = tables[ch]
        BY <2>r, <2>2, <3>2, PairedQueue
      <4> QED
        BY <2>1, <2>2, <2>3, <4>1, <4>2, PairedSame
    <3> QED
      BY <3>1, <3>2
  <2>5. \A c \in StoreChannels \ {ch} : tables'[c] = tables[c] /\ mtickets'[c] = mtickets[c]
    BY <2>1 DEF TablesInv, HeapsInv
  <2>6. answer'.redb = answer'.memory
    BY <2>1 DEF Both
  <2> QED
    BY <2>1, <2>4, <2>5, <2>6, PairedCall
<1> QED
  BY <1>1, <1>2

LEMMA PairedDelete ==
    ASSUME TablesInv, HeapsInv, PairedInv, NEW ch \in StoreChannels, DeleteQueue(ch)
    PROVE  PairedInv'
<1>1. CASE diverged' # {}
  BY <1>1, PairedAlone
<1>2. CASE diverged' = {}
  <2>1. /\ diverged = {}
        /\ tables' = [tables EXCEPT ![ch] = Undeleted(ch)]
        /\ mtickets' = [mtickets EXCEPT ![ch] = 0]
        /\ heaps' = IF mtickets[ch] = 0 THEN heaps ELSE [heaps EXCEPT ![mtickets[ch]] = EmptyHeap]
        /\ UNCHANGED <<open, out_table, out_indices>>
    BY <1>2 DEF DeleteQueue
  <2>2. PICK drained \in (IF mtickets[ch] = 0 THEN {<<>>} ELSE Drains(mtickets[ch])) :
          answer' = [redb   |-> IF Readable(Rows(ch)) = Rows(ch) THEN Ok(InKeyOrder(Rows(ch)))
                                ELSE Err("unreadable"),
                     memory |-> Ok(drained)]
    BY DEF DeleteQueue
  <2>3. Paired(ch)
    BY <2>1 DEF PairedInv
  <2>4. \A c \in StoreChannels \ {ch} :
           /\ tables'[c] = tables[c] /\ mtickets'[c] = mtickets[c]
           /\ mtickets[c] # 0 => heaps'[mtickets[c]] = heaps[mtickets[c]]
    <3> SUFFICES ASSUME NEW c \in StoreChannels \ {ch}
                 PROVE  /\ tables'[c] = tables[c] /\ mtickets'[c] = mtickets[c]
                        /\ mtickets[c] # 0 => heaps'[mtickets[c]] = heaps[mtickets[c]]
      OBVIOUS
    <3>1. tables'[c] = tables[c] /\ mtickets'[c] = mtickets[c]
      BY <2>1 DEF TablesInv, HeapsInv
    <3>2. mtickets[c] # 0 => mtickets[c] \in Heaps /\ mtickets[c] # mtickets[ch]
      BY DEF HeapsInv, Heaps
    <3> QED
      BY <2>1, <3>1, <3>2 DEF HeapsInv
  <2>5. /\ Readable(Rows(ch)) = Rows(ch)
        /\ InKeyOrder(Rows(ch)) = drained
    <3>1. CASE mtickets[ch] = 0
      <4>1. Rows(ch) = {}
        BY <2>3, <3>1 DEF Paired, Rows
      <4>2. drained = <<>>
        BY <2>2, <3>1
      <4>3. InKeyOrder({}) = <<>>
        BY FS_EmptySet DEF InKeyOrder
      <4> QED
        BY <4>1, <4>2, <4>3 DEF Readable
    <3>2. CASE mtickets[ch] # 0
      <4>1. PICK h \in Heaps : /\ h = mtickets[ch] /\ InHeap(h) \in SUBSET StoreTickets
                               /\ Rows(ch) = RowsOf(InHeap(h)) /\ KeysDistinct(InHeap(h))
        BY <2>3, <3>2, PairedQueue
      <4> DEFINE q == InHeap(h)
      <4>2. drained \in [1..Cardinality(q) -> q]
            /\ \A i, j \in 1..Cardinality(q) : i < j => drained[i] # drained[j] /\ Natural(drained[i], drained[j])
        BY <2>2, <3>2, <4>1 DEF Drains
      <4>3. q \in SUBSET StoreTickets /\ KeysDistinct(q) /\ Rows(ch) = RowsOf(q)
        BY <4>1
      <4> HIDE DEF q
      <4>4. InKeyOrder(RowsOf(q)) = drained
        BY <4>2, <4>3, DrainInKeyOrder
      <4> QED
        BY <4>3, <4>4, RowsOfAreRows
    <3> QED
      BY <3>1, <3>2
  <2>6. answer'.redb = answer'.memory
    BY <2>2, <2>5
  <2>7. Paired(ch)'
    <3>1. tables'[ch] = NoTable /\ mtickets'[ch] = 0
      BY <2>1, <2>5 DEF TablesInv, HeapsInv, Undeleted
    <3> QED
      BY <3>1 DEF Paired
  <2> QED
    BY <2>1, <2>4, <2>6, <2>7, PairedCall
<1> QED
  BY <1>1, <1>2

LEMMA PairedPush ==
    ASSUME TablesInv, HeapsInv, PairedInv, NEW ch \in StoreChannels, NEW t \in StoreTickets, PushTicket(ch, t)
    PROVE  PairedInv'
<1>1. CASE diverged' # {}
  BY <1>1, PairedAlone
<1>2. CASE diverged' = {}
  <2>1. /\ diverged = {} /\ Live(ch) /\ ~Twin(ch, t)
    BY <1>2 DEF PushTicket, Causes
  <2>2. /\ open /\ Paired(ch)
    BY <2>1 DEF PairedInv
  <2>3. PICK h \in Heaps : /\ h = mtickets[ch] /\ InHeap(h) \in SUBSET StoreTickets
                           /\ tables[ch] = RowsOf(InHeap(h)) /\ Rows(ch) = RowsOf(InHeap(h))
                           /\ heaps[h] \in [StoreTickets -> {0, 1}] /\ KeysDistinct(InHeap(h))
    BY <2>1, <2>2, PairedQueue DEF Live
  <2>4. /\ handle[ch] = h /\ h # 0
        /\ tables' = [tables EXCEPT ![ch] = RedbPush(ch, t)]
        /\ heaps' = [heaps EXCEPT ![h][t] = @ + 1]
        /\ answer'.redb = answer'.memory
        /\ UNCHANGED <<open, out_table, out_indices, mtickets>>
    BY <2>1, <2>2, <2>3 DEF PushTicket, Live
  <2>5. \A u \in InHeap(h) : MakeIndex(u) # MakeIndex(t)
    BY <2>1, <2>3, <2>4, KeyOrder DEF Twin
  <2>6. heaps[h] \in [StoreTickets -> Nat] /\ heaps \in [Heaps -> [StoreTickets -> Nat]]
    BY DEF HeapsInv
  <2>7. t \notin InHeap(h) /\ heaps[h][t] = 0
    BY <2>3, <2>5 DEF InHeap
  <2>8. heaps'[h] = [heaps[h] EXCEPT ![t] = 1]
    BY <2>4, <2>6, <2>7
  <2>9. InHeap(h)' = InHeap(h) \cup {t}
    BY <2>6, <2>8 DEF InHeap
  <2>10. RedbPush(ch, t) = RowsOf(InHeap(h) \cup {t})
    <3>1. \A r \in Rows(ch) : r.key # MakeIndex(t)
      BY <2>3, <2>5, RowIn DEF RowsOf
    <3>2. RedbPush(ch, t) = Rows(ch) \cup {Row(t)}
      BY <3>1 DEF RedbPush
    <3> QED
      BY <2>3, <3>2 DEF RowsOf
  <2>11. Paired(ch)'
    <3>1. tables'[ch] = RowsOf(InHeap(h)') /\ mtickets'[ch] = h
      BY <2>3, <2>4, <2>9, <2>10 DEF TablesInv
    <3>2. \A u \in StoreTickets : heaps'[h][u] \in {0, 1}
      BY <2>3, <2>6, <2>8
    <3>3. KeysDistinct(InHeap(h)')
      BY <2>3, <2>5, <2>9 DEF KeysDistinct
    <3> QED
      BY <2>4, <3>1, <3>2, <3>3 DEF Paired
  <2>12. \A c \in StoreChannels \ {ch} :
           /\ tables'[c] = tables[c] /\ mtickets'[c] = mtickets[c]
           /\ mtickets[c] # 0 => heaps'[mtickets[c]] = heaps[mtickets[c]]
    <3> SUFFICES ASSUME NEW c \in StoreChannels \ {ch}
                 PROVE  /\ tables'[c] = tables[c] /\ mtickets'[c] = mtickets[c]
                        /\ mtickets[c] # 0 => heaps'[mtickets[c]] = heaps[mtickets[c]]
      OBVIOUS
    <3>1. mtickets[c] # 0 => mtickets[c] \in Heaps /\ mtickets[c] # h
      BY <2>3 DEF HeapsInv, Heaps
    <3> QED
      BY <2>4, <2>6, <3>1 DEF TablesInv
  <2> QED
    BY <2>1, <2>4, <2>11, <2>12, PairedCall
<1> QED
  BY <1>1, <1>2

LEMMA PairedPop ==
    ASSUME TablesInv, HeapsInv, PairedInv, NEW ch \in StoreChannels, PopTicket(ch)
    PROVE  PairedInv'
<1>1. CASE diverged' # {}
  BY <1>1, PairedAlone
<1>2. CASE diverged' = {}
  <2>1. diverged = {} /\ Live(ch)
    BY <1>2 DEF PopTicket, Causes
  <2>2. /\ open /\ Paired(ch)
    BY <2>1 DEF PairedInv
  <2>3. PICK h \in Heaps : /\ h = mtickets[ch] /\ InHeap(h) \in SUBSET StoreTickets
                           /\ tables[ch] = RowsOf(InHeap(h)) /\ Rows(ch) = RowsOf(InHeap(h))
                           /\ heaps[h] \in [StoreTickets -> {0, 1}] /\ KeysDistinct(InHeap(h))
                           /\ Tops(h) = Least(InHeap(h))
    BY <2>1, <2>2, PairedQueue DEF Live
  <2> DEFINE popped == PoppedRows(Rows(ch))
  <2>4. /\ handle[ch] = h /\ h # 0
        /\ tables' = [tables EXCEPT ![ch] = Rows(ch) \ popped]
        /\ UNCHANGED <<open, out_table, out_indices, mtickets>>
        /\ \/ Tops(h) = {} /\ answer' = [redb |-> First(popped), memory |-> Ok(<<>>)] /\ UNCHANGED heaps
           \/ \E t \in Tops(h) : /\ answer' = [redb |-> First(popped), memory |-> Ok(<<t>>)]
                                 /\ heaps' = [heaps EXCEPT ![h][t] = @ - 1]
    BY <2>1, <2>2, <2>3 DEF PopTicket, Live
  <2>5. heaps[h] \in [StoreTickets -> Nat] /\ heaps \in [Heaps -> [StoreTickets -> Nat]]
    BY DEF HeapsInv
  <2>6. \A c \in StoreChannels \ {ch} :
           /\ tables'[c] = tables[c] /\ mtickets'[c] = mtickets[c]
           /\ mtickets[c] # 0 => heaps'[mtickets[c]] = heaps[mtickets[c]]
    <3> SUFFICES ASSUME NEW c \in StoreChannels \ {ch}
                 PROVE  /\ tables'[c] = tables[c] /\ mtickets'[c] = mtickets[c]
                        /\ mtickets[c] # 0 => heaps'[mtickets[c]] = heaps[mtickets[c]]
      OBVIOUS
    <3>1. mtickets[c] # 0 => mtickets[c] \in Heaps /\ mtickets[c] # h
      BY <2>3 DEF HeapsInv, Heaps
    <3>2. tables'[c] = tables[c]
      BY <2>4 DEF TablesInv
    <3>3. mtickets[c] # 0 => heaps'[mtickets[c]] = heaps[mtickets[c]]
      BY <2>4, <2>5, <3>1
    <3> QED
      BY <2>4, <3>2, <3>3
  <2>7. tables'[ch] = Rows(ch) \ popped
    BY <2>4 DEF TablesInv
  <2>8. CASE InHeap(h) = {}
    <3>1. Rows(ch) = {} /\ popped = {}
      BY <2>3, <2>8 DEF RowsOf, PoppedRows
    <3>2. Tops(h) = {}
      BY <2>3, <2>8 DEF Least
    <3>3. answer' = [redb |-> First(popped), memory |-> Ok(<<>>)] /\ UNCHANGED heaps
      BY <2>4, <3>2
    <3>4. First(popped) = Ok(<<>>)
      BY <3>1 DEF First
    <3>5. tables'[ch] = tables[ch]
      BY <2>3, <2>7, <3>1
    <3>6. Paired(ch)'
      BY <2>2, <2>4, <3>3, <3>5, PairedSame
    <3> HIDE DEF popped
    <3>7. answer'.redb = answer'.memory
      BY <3>3, <3>4
    <3> QED
      BY <2>1, <2>4, <2>6, <3>6, <3>7, PairedCall
  <2>9. CASE InHeap(h) # {}
    <3> DEFINE q == InHeap(h)
    <3>1. PICK t \in q : Least(q) = {t} /\ FirstRow(RowsOf(q)) = Row(t)
      BY <2>3, <2>9, LeastIsFirst
    <3>2. t \in StoreTickets /\ Row(t) \in Rows(ch) /\ t # Corrupt
      BY <2>3 DEF RowsOf
    <3>3. popped = {Row(t)}
      BY <2>3, <3>1, <3>2 DEF PoppedRows
    <3>4. First(popped) = Ok(<<t>>)
      <4>1. FirstRow(popped) = Row(t)
        BY <3>3 DEF FirstRow
      <4> QED
        BY <3>2, <3>3, <4>1, RowIn DEF First
    <3> HIDE DEF popped
    <3>5. answer' = [redb |-> First(popped), memory |-> Ok(<<t>>)] /\ heaps' = [heaps EXCEPT ![h][t] = @ - 1]
      BY <2>3, <2>4, <3>1
    <3>6. answer'.redb = answer'.memory
      BY <3>4, <3>5
    <3>7. heaps[h][t] = 1
      BY <2>3, <3>2 DEF InHeap
    <3>8. heaps'[h] = [heaps[h] EXCEPT ![t] = 0]
      BY <2>5, <3>5, <3>7
    <3>9. InHeap(h)' = q \ {t}
      BY <2>5, <3>8 DEF InHeap
    <3>10. Rows(ch) \ popped = RowsOf(q \ {t})
      <4>1. \A u \in q : Row(u) = Row(t) <=> u = t
        BY <2>3, RowIn
      <4> QED
        BY <2>3, <3>3, <4>1 DEF RowsOf
    <3>11. Paired(ch)'
      <4>1. tables'[ch] = RowsOf(InHeap(h)') /\ mtickets'[ch] = h
        BY <2>3, <2>4, <2>7, <3>9, <3>10
      <4>2. \A u \in StoreTickets : heaps'[h][u] \in {0, 1}
        BY <2>3, <2>5, <3>8
      <4>3. KeysDistinct(InHeap(h)')
        BY <2>3, <3>9 DEF KeysDistinct
      <4> QED
        BY <2>4, <4>1, <4>2, <4>3 DEF Paired
    <3> QED
      BY <2>1, <2>4, <2>6, <3>6, <3>11, PairedCall
  <2> QED
    BY <2>8, <2>9
<1> QED
  BY <1>1, <1>2

LEMMA PairedNext ==
    ASSUME TablesInv, HeapsInv, PairedInv, [StoresNext]_storeVars
    PROVE  PairedInv'
<1>1. CASE UNCHANGED storeVars
  BY <1>1, PairedAlone DEF storeVars, memoryVars
<1>2. ASSUME NEW ch \in StoreChannels, OpenOrCreateQueue(ch) PROVE PairedInv'
  BY <1>2, PairedOpen
<1>3. ASSUME NEW ch \in StoreChannels, DeleteQueue(ch) PROVE PairedInv'
  BY <1>3, PairedDelete
<1>4. ASSUME NEW ch \in StoreChannels, RowCorrupted(ch) PROVE PairedInv'
  <2>1. diverged' # {}
    BY <1>4 DEF RowCorrupted
  <2> QED
    BY <2>1, PairedAlone
<1>5. ASSUME NEW ch \in StoreChannels, PopTicket(ch) PROVE PairedInv'
  BY <1>5, PairedPop
<1>6. ASSUME NEW ch \in StoreChannels, NEW t \in StoreTickets, PushTicket(ch, t) PROVE PairedInv'
  BY <1>6, PairedPush
<1>7. ASSUME NEW ch \in StoreChannels, NEW i \in StoredValues, SaveOutgoingIndex(ch, i) PROVE PairedInv'
  BY <1>7, PairedAlone DEF SaveOutgoingIndex, Both
<1>8. ASSUME NEW ch \in StoreChannels, DeleteOutgoingIndex(ch) PROVE PairedInv'
  BY <1>8, PairedAlone DEF DeleteOutgoingIndex, Both
<1>9. ASSUME DropStore PROVE PairedInv'
  <2>1. diverged' # {}
    BY <1>9 DEF DropStore
  <2> QED
    BY <2>1, PairedAlone
<1>10. ASSUME NewStore PROVE PairedInv'
  <2>1. diverged' # {}
    BY <1>10 DEF NewStore, PairedInv
  <2> QED
    BY <2>1, PairedAlone
<1> QED
  BY <1>1, <1>2, <1>3, <1>4, <1>5, <1>6, <1>7, <1>8, <1>9, <1>10 DEF StoresNext

\* What a reader of a queue sees in both stores.
LEMMA ReadersAgree ==
    ASSUME TablesInv, HeapsInv, PairedInv, diverged = {}, NEW ch \in StoreChannels, Live(ch)
    PROVE  /\ CanRead(ch)
           /\ RedbLen(ch) = MemoryLen(ch) /\ RedbIsEmpty(ch) = MemoryIsEmpty(ch)
           /\ RedbPeek(ch) = MemoryPeek(ch)
           /\ RedbIter(ch) = MemoryIter(ch)
<1>1. Paired(ch) /\ open
  BY DEF PairedInv
<1>2. PICK h \in Heaps : /\ h = mtickets[ch] /\ InHeap(h) \in SUBSET StoreTickets
                         /\ tables[ch] # NoTable
                         /\ tables[ch] = RowsOf(InHeap(h)) /\ Rows(ch) = RowsOf(InHeap(h))
                         /\ heaps[h] \in [StoreTickets -> {0, 1}] /\ KeysDistinct(InHeap(h))
                         /\ Tops(h) = Least(InHeap(h))
  BY <1>1, PairedQueue DEF Live
<1>3. handle[ch] = h
  BY <1>2 DEF Live
<1> DEFINE q == InHeap(h)
<1>4. CanRead(ch)
  BY <1>1, <1>2 DEF CanRead
<1>5. RedbLen(ch) = MemoryLen(ch)
  <2>1. RedbLen(ch) = Cardinality(q)
    BY <1>2, RowsOfCardinality DEF RedbLen
  <2>2. HeapSum(heaps[h], StoreTickets) = Cardinality({t \in StoreTickets : heaps[h][t] > 0})
    BY <1>2, SumCounts
  <2>3. MemoryLen(ch) = HeapSum(heaps[handle[ch]], StoreTickets)
    BY Zenon DEF MemoryLen, HeapSum
  <2> QED
    BY <1>3, <2>1, <2>2, <2>3 DEF InHeap
<1>6. RedbIsEmpty(ch) = MemoryIsEmpty(ch)
  BY <1>2, <1>3, RowsOfAreRows DEF RedbIsEmpty, MemoryIsEmpty
<1>7. RedbPeek(ch) = MemoryPeek(ch)
  <2>1. CASE q = {}
    BY <1>2, <1>3, <2>1, RowsOfAreRows DEF RedbPeek, First, MemoryPeek, Least
  <2>2. CASE q # {}
    <3>1. PICK t \in q : Least(q) = {t} /\ FirstRow(RowsOf(q)) = Row(t)
      BY <1>2, <2>2, LeastIsFirst
    <3>2. RowsOf(q) # {} /\ t # Corrupt /\ Row(t).value = t
      BY <1>2, <2>2, RowsOfAreRows, RowIn
    <3>3. RedbPeek(ch) = Ok(<<t>>)
      BY <1>2, <3>1, <3>2 DEF RedbPeek, First
    <3>4. MemoryPeek(ch) = Ok(<<t>>)
      <4>1. Tops(handle[ch]) = {t}
        BY <1>2, <1>3, <3>1
      <4> QED
        BY <4>1 DEF MemoryPeek
    <3> QED
      BY <3>3, <3>4
  <2> QED
    BY <2>1, <2>2
<1>8. RedbIter(ch) = MemoryIter(ch)
  BY <1>2, <1>3, RowsOfAreRows DEF RedbIter, MemoryIter
<1> QED
  BY <1>4, <1>5, <1>6, <1>7, <1>8

\* The redb and the memory store answer every call alike - what they hand out,
\* their lengths and values, the queues and indices they list - until a ticket
\* is pushed twice, a row is corrupted, or a handle outlives its queue or store
\* (redb.rs, memory.rs): any channels, tickets and numbers of calls.
THEOREM StoresAgreeCorrect == StoresSpec => []StoresAgree
<1> DEFINE Inv == TablesInv /\ KeptInv /\ HeapsInv /\ PairedInv
<1>1. StoresInit => Inv
  <2> SUFFICES ASSUME StoresInit PROVE Inv
    OBVIOUS
  <2>1. tables = [ch \in StoreChannels |-> NoTable] /\ kept = {}
    BY DEF StoresInit
  <2>2. TablesInv
    BY <2>1 DEF TablesInv
  <2> QED
    BY <2>1, <2>2, HeapsInit DEF KeptInv
<1>2. Inv /\ [StoresNext]_storeVars => Inv'
  BY KeptNext, HeapsStep, PairedNext
<1>3. Inv => StoresAgree
  <2> SUFFICES ASSUME Inv, diverged = {}
               PROVE  /\ answer.redb = answer.memory
                      /\ out_table = out_indices
                      /\ {ch \in StoreChannels : tables[ch] # NoTable} = {ch \in StoreChannels : mtickets[ch] # 0}
                      /\ \A ch \in StoreChannels : Live(ch) =>
                          /\ CanRead(ch)
                          /\ RedbLen(ch) = MemoryLen(ch) /\ RedbIsEmpty(ch) = MemoryIsEmpty(ch)
                          /\ RedbPeek(ch) = MemoryPeek(ch)
                          /\ \A e \in StoreEpochs, i \in 0..(IndexSpan - 1) :
                              TotalValue(RedbIter(ch), e, i) = TotalValue(MemoryIter(ch), e, i)
    BY DEF StoresAgree
  <2>1. answer.redb = answer.memory /\ out_table = out_indices
    BY DEF PairedInv
  <2>2. \A ch \in StoreChannels : tables[ch] # NoTable <=> mtickets[ch] # 0
    <3> SUFFICES ASSUME NEW ch \in StoreChannels PROVE tables[ch] # NoTable <=> mtickets[ch] # 0
      OBVIOUS
    <3>1. Paired(ch)
      BY DEF PairedInv
    <3>2. mtickets[ch] # 0 => tables[ch] # NoTable
      BY <3>1, PairedQueue
    <3> QED
      BY <3>1, <3>2 DEF Paired
  <2>3. ASSUME NEW ch \in StoreChannels, Live(ch)
        PROVE  /\ CanRead(ch)
               /\ RedbLen(ch) = MemoryLen(ch) /\ RedbIsEmpty(ch) = MemoryIsEmpty(ch)
               /\ RedbPeek(ch) = MemoryPeek(ch)
               /\ \A e \in StoreEpochs, i \in 0..(IndexSpan - 1) :
                   TotalValue(RedbIter(ch), e, i) = TotalValue(MemoryIter(ch), e, i)
    BY <2>3, ReadersAgree
  <2> QED
    BY <2>1, <2>2, <2>3
<1> HIDE DEF Inv
<1> QED
  BY <1>1, <1>2, <1>3, PTL DEF StoresSpec
=============================================================================
