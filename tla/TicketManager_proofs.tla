------------------------ MODULE TicketManager_proofs ------------------------
(***************************************************************************)
(* TLAPS proofs about TicketManager: type correctness; that the queue      *)
(* never mixes epochs; that tickets leave it in order; that redeem streams *)
(* exclude each other; which tickets a failing store may lose; that a      *)
(* stream is answered for the next ticket or for one that was taken away;  *)
(* that only what is over is found invalid; and that the value of the      *)
(* tickets -- cached, reported and in the statistics -- is exact.          *)
(***************************************************************************)
EXTENDS TicketManager, FiniteSetTheorems, WellFoundedInduction, TLAPS

USE TicketManagerAssumption

\* Ranges of the constants and of the idle values.
LEMMA Constants ==
    /\ 1 \in Gens /\ 1 \in Epochs
    /\ Gens \subseteq Nat /\ 0 \notin Gens /\ Epochs \subseteq Nat
    /\ AnyTicket \in Tickets
    /\ \A t \in Tickets : t.epoch \in Epochs /\ t.index \in Nat /\ t.amount \in Nat
BY DEF Gens, Epochs, AnyTicket

\* The idle values of the model are well typed.
LEMMA IdleTypes ==
    /\ IdleStream \in StreamType
    /\ IdleNeglect \in NeglectType
    /\ IdleInsert \in InsertType
    /\ IdleSync \in SyncType
    /\ NoStats \in StatsType
<1>1. 0 \in Nat
  OBVIOUS
<1>2. IdleSync \in SyncType
  <2>1. [e \in Epochs |-> 0] \in [Epochs -> Nat]
    OBVIOUS
  <2> QED
    BY <2>1 DEF IdleSync, SyncType
<1> QED
  BY <1>1, <1>2, Constants DEF IdleStream, StreamType, IdleNeglect, NeglectType, IdleInsert,
     InsertType, NoStats, StatsType

-----------------------------------------------------------------------------
(* Sums. *)

\* A set of natural numbers that is not empty has a least element.
LEMMA LeastExists ==
    ASSUME NEW T \in SUBSET Nat, T # {}
    PROVE  \E x \in T : \A y \in T : x <= y
<1> DEFINE R == {ss \in Nat \X Nat : ss[1] < ss[2]}
<1>1. IsWellFoundedOn(R, Nat)
  BY NatLessThanWellFounded, Zenon DEF OpToRel
<1>2. PICK x \in T : \A y \in T : ~(<<y, x>> \in R)
  <2> HIDE DEF R
  <2> QED
    BY <1>1, WFMin
<1>3. ASSUME NEW y \in T PROVE x <= y
  <2>1. x \in Nat /\ y \in Nat
    OBVIOUS
  <2>2. y < x => <<y, x>> \in R
    BY <2>1
  <2> HIDE DEF R
  <2> QED
    BY <1>2, <2>1, <2>2
<1> QED
  BY <1>3

\* Of finite sets, one has no other of them inside: what a claim about every
\* finite set is proved by, at a smallest set it could fail of.
LEMMA SmallestExists ==
    ASSUME NEW Q, Q # {}, \A q \in Q : IsFiniteSet(q)
    PROVE  \E q \in Q : \A r \in Q : r \subseteq q => r = q
<1> DEFINE T == {Cardinality(q) : q \in Q}
<1>1. T \in SUBSET Nat /\ T # {}
  BY FS_CardinalityType
<1>2. PICK x \in T : \A y \in T : x <= y
  <2> HIDE DEF T
  <2> QED
    BY <1>1, LeastExists
<1>3. PICK q \in Q : Cardinality(q) = x
  OBVIOUS
<1>4. ASSUME NEW r \in Q, r \subseteq q PROVE r = q
  <2>1. Cardinality(r) \in T
    OBVIOUS
  <2>2. Cardinality(q) <= Cardinality(r) /\ IsFiniteSet(r) /\ IsFiniteSet(q)
    BY <1>2, <1>3, <2>1
  <2>3. Cardinality(r) \in Nat /\ Cardinality(q) \in Nat
    BY <2>2, FS_CardinalityType
  <2>4. Cardinality(r) <= Cardinality(q) /\ (Cardinality(r) = Cardinality(q) => r = q)
    BY <1>4, <2>2, FS_Subset
  <2> QED
    BY <2>2, <2>3, <2>4
<1> QED
  BY <1>4

\* The element a fold takes first, and the recursion it is defined by.
First(s) == CHOOSE x \in s : TRUE
Sums(f, q) == f = [s \in SUBSET q |-> IF s = {} THEN 0 ELSE First(s).amount + f[s \ {First(s)}]]

\* The fold of SumOf is such a recursion.
LEMMA SumUnfolds ==
    ASSUME NEW q
    PROVE  SumOf(q) = (CHOOSE f : Sums(f, q))[q]
BY Zenon DEF SumOf, MapThenSumSet, MapThenFoldSet, Sums, First

\* The element taken first is in the set.
LEMMA FirstIn == ASSUME NEW s, s # {} PROVE First(s) \in s
BY DEF First

\* Where two of these recursions are both defined they agree.
LEMMA SumsAgree ==
    ASSUME NEW f, NEW g, NEW q, NEW r, Sums(f, q), Sums(g, r), NEW s \in SUBSET (q \cap r), IsFiniteSet(s)
    PROVE  f[s] = g[s]
<1> DEFINE Q == {x \in SUBSET s : f[x] # g[x]}
<1>1. ASSUME Q # {} PROVE FALSE
  <2>1. \A x \in Q : IsFiniteSet(x)
    BY FS_Subset
  <2>2. PICK x \in Q : \A y \in Q : y \subseteq x => y = x
    <3> HIDE DEF Q
    <3> QED
      BY <1>1, <2>1, SmallestExists
  <2> DEFINE y == x \ {First(x)}
  <2>3. x \in SUBSET q /\ x \in SUBSET r /\ x \in SUBSET s
    OBVIOUS
  <2>4. x # {} => f[x] = First(x).amount + f[y] /\ g[x] = First(x).amount + g[y]
    BY <2>3 DEF Sums
  <2>5. x # {}
    BY <2>3 DEF Sums
  <2>6. y # x /\ y \subseteq x
    BY <2>5, FirstIn
  <2>7. f[y] = g[y]
    BY <2>2, <2>3, <2>6
  <2> QED
    BY <2>4, <2>5, <2>7
<1> QED
  BY <1>1

\* For a finite set there is such a recursion.
LEMMA SumsExist ==
    ASSUME NEW S, IsFiniteSet(S)
    PROVE  \E f : Sums(f, S)
<1> DEFINE Q == {x \in SUBSET S : ~\E f : Sums(f, x)}
<1>1. ASSUME Q # {} PROVE FALSE
  <2>1. \A x \in Q : IsFiniteSet(x)
    BY FS_Subset
  <2>2. PICK x \in Q : \A y \in Q : y \subseteq x => y = x
    <3> HIDE DEF Q
    <3> QED
      BY <1>1, <2>1, SmallestExists
  <2> DEFINE G(y) == CHOOSE f : Sums(f, y)
  <2>3. ASSUME NEW y \in SUBSET x, y # x PROVE Sums(G(y), y) /\ IsFiniteSet(y)
    <3>1. y \in SUBSET S /\ y \notin Q
      BY <2>2, <2>3
    <3>2. \E f : Sums(f, y)
      BY <3>1
    <3> QED
      BY <3>1, <3>2, FS_Subset
  <2> DEFINE rest == x \ {First(x)}
             h == [y \in SUBSET x |-> IF y = {} THEN 0
                                      ELSE IF y # x THEN G(y)[y]
                                      ELSE First(x).amount + G(rest)[rest]]
  <2> HIDE DEF G
  <2>4. ASSUME NEW y \in SUBSET x, y # {} PROVE h[y] = First(y).amount + h[y \ {First(y)}]
    <3> DEFINE z == y \ {First(y)}
    <3>1. z \in SUBSET x /\ z # x /\ z \in SUBSET y /\ z # y
      BY <2>4, FirstIn
    <3>2. h[z] = G(z)[z]
      <4>1. Sums(G(z), z)
        BY <2>3, <3>1
      <4>2. z = {} => G(z)[z] = 0
        BY <4>1 DEF Sums
      <4> HIDE DEF z
      <4> QED
        BY <3>1, <4>2
    <3>3. CASE y = x
      BY <2>4, <3>2, <3>3
    <3>4. CASE y # x
      <4>1. Sums(G(y), y) /\ Sums(G(z), z) /\ IsFiniteSet(z)
        BY <2>3, <3>1, <3>4
      <4>2. z \in SUBSET (y \cap z)
        BY <3>1
      <4>3. G(y)[z] = G(z)[z]
        <5> HIDE DEF z
        <5> QED
          BY <4>1, <4>2, SumsAgree
      <4>4. G(y)[y] = First(y).amount + G(y)[z]
        <5>1. y \in SUBSET y
          OBVIOUS
        <5> QED
          BY <2>4, <4>1, <5>1 DEF Sums
      <4>5. h[y] = G(y)[y]
        BY <2>4, <3>4
      <4>6. h[y] = First(y).amount + h[z]
        <5> HIDE DEF h, z
        <5> QED
          BY <3>2, <4>3, <4>4, <4>5
      <4> HIDE DEF h
      <4> QED
        BY <4>6
    <3> HIDE DEF h
    <3> QED
      BY <3>3, <3>4
  <2>5. h = [y \in SUBSET x |-> h[y]] /\ h[{}] = 0
    OBVIOUS
  <2> HIDE DEF h
  <2>6. h = [y \in SUBSET x |-> IF y = {} THEN 0 ELSE First(y).amount + h[y \ {First(y)}]]
    BY <2>4, <2>5
  <2> QED
    BY <2>2, <2>6 DEF Sums
<1>2. S \in SUBSET S /\ S \notin Q
  BY <1>1
<1> QED
  BY <1>2

\* The sum of no tickets, and of one ticket more.
LEMMA SumRecursion ==
    ASSUME NEW q, IsFiniteSet(q)
    PROVE  /\ q = {} => SumOf(q) = 0
           /\ q # {} => SumOf(q) = First(q).amount + SumOf(q \ {First(q)})
<1> DEFINE r == q \ {First(q)}
           f == CHOOSE f : Sums(f, q)
           g == CHOOSE k : Sums(k, r)
<1>1. IsFiniteSet(r)
  BY FS_Subset
<1>2. Sums(f, q) /\ Sums(g, r)
  BY <1>1, SumsExist
<1>3. SumOf(q) = f[q] /\ SumOf(r) = g[r]
  BY SumUnfolds
<1> HIDE DEF f, g
<1>4. f[q] = IF q = {} THEN 0 ELSE First(q).amount + f[r]
  <2>1. q \in SUBSET q
    OBVIOUS
  <2> QED
    BY <1>2, <2>1 DEF Sums
<1>5. f[r] = g[r]
  <2>1. r \in SUBSET (q \cap r)
    OBVIOUS
  <2> HIDE DEF r
  <2> QED
    BY <1>1, <1>2, <2>1, SumsAgree
<1> QED
  BY <1>3, <1>4, <1>5

\* Amounts of finitely many tickets add up to a natural number,
LEMMA SumType == ASSUME NEW q \in SUBSET Tickets PROVE SumOf(q) \in Nat /\ IsFiniteSet(q)
<1>f. \A x \in SUBSET Tickets : IsFiniteSet(x)
  BY FS_Subset
<1> DEFINE Q == {x \in SUBSET Tickets : SumOf(x) \notin Nat}
<1>1. ASSUME Q # {} PROVE FALSE
  <2>1. PICK x \in Q : \A y \in Q : y \subseteq x => y = x
    <3>1. \A x \in Q : IsFiniteSet(x)
      BY <1>f
    <3> HIDE DEF Q
    <3> QED
      BY <1>1, <3>1, SmallestExists
  <2> DEFINE y == x \ {First(x)}
  <2>2. x \in SUBSET Tickets /\ IsFiniteSet(x) /\ SumOf(x) \notin Nat
    BY <1>f
  <2>3. x # {} /\ First(x) \in Tickets /\ SumOf(x) = First(x).amount + SumOf(y)
    BY <2>2, SumRecursion, FirstIn
  <2>4. y \in SUBSET Tickets /\ y \subseteq x /\ y # x
    BY <2>2, <2>3, FirstIn
  <2>5. SumOf(y) \in Nat
    BY <2>1, <2>4
  <2> HIDE DEF y
  <2>6. First(x).amount \in Nat
    BY <2>3
  <2> QED
    BY <2>2, <2>3, <2>5, <2>6
<1> QED
  BY <1>1, <1>f

\* in whatever order they are taken,
LEMMA SumTake ==
    ASSUME NEW q \in SUBSET Tickets, NEW t \in q
    PROVE  SumOf(q) = t.amount + SumOf(q \ {t})
<1> DEFINE Q == {x \in SUBSET Tickets : \E u \in x : SumOf(x) # u.amount + SumOf(x \ {u})}
<1>1. ASSUME Q # {} PROVE FALSE
  <2>1. PICK x \in Q : \A y \in Q : y \subseteq x => y = x
    <3>1. \A x \in Q : IsFiniteSet(x)
      BY SumType
    <3> HIDE DEF Q
    <3> QED
      BY <1>1, <3>1, SmallestExists
  <2>2. PICK u \in x : SumOf(x) # u.amount + SumOf(x \ {u})
    OBVIOUS
  <2>3. PICK c \in x : c = First(x)
    BY <2>2, FirstIn
  <2>4. x \in SUBSET Tickets /\ IsFiniteSet(x)
    BY SumType
  <2>5. SumOf(x) = c.amount + SumOf(x \ {c})
    BY <2>3, <2>4, SumRecursion
  <2>6. c # u
    BY <2>2, <2>5
  <2>7. x \ {c} \notin Q /\ x \ {u} \notin Q /\ x \ {c} \in SUBSET Tickets /\ x \ {u} \in SUBSET Tickets
    BY <2>1, <2>4
  <2>8. SumOf(x \ {c}) = u.amount + SumOf((x \ {c}) \ {u})
    <3>1. u \in x \ {c}
      BY <2>6
    <3> QED
      BY <2>7, <3>1
  <2>9. SumOf(x \ {u}) = c.amount + SumOf((x \ {u}) \ {c})
    <3>1. c \in x \ {u}
      BY <2>6
    <3> QED
      BY <2>7, <3>1
  <2>10. (x \ {c}) \ {u} = (x \ {u}) \ {c} /\ (x \ {c}) \ {u} \in SUBSET Tickets
    BY <2>4
  <2>11. SumOf((x \ {c}) \ {u}) \in Nat /\ c.amount \in Nat /\ u.amount \in Nat
    BY <2>4, <2>10, SumType
  <2>12. SumOf((x \ {u}) \ {c}) = SumOf((x \ {c}) \ {u})
    BY <2>10
  <2> QED
    BY <2>2, <2>5, <2>8, <2>9, <2>11, <2>12
<1> QED
  BY <1>1

\* and in parts.
LEMMA SumSplit ==
    ASSUME NEW q \in SUBSET Tickets, NEW r \in SUBSET q
    PROVE  SumOf(q) = SumOf(r) + SumOf(q \ r) /\ SumOf(r) <= SumOf(q)
<1> DEFINE Q == {x \in SUBSET q : SumOf(q) # SumOf(x) + SumOf(q \ x)}
<1>1. ASSUME Q # {} PROVE FALSE
  <2>1. PICK x \in Q : \A y \in Q : y \subseteq x => y = x
    <3>1. \A x \in Q : IsFiniteSet(x)
      BY SumType
    <3> HIDE DEF Q
    <3> QED
      BY <1>1, <3>1, SmallestExists
  <2>2. x \in SUBSET Tickets /\ q \ x \in SUBSET Tickets /\ SumOf(q) # SumOf(x) + SumOf(q \ x)
    OBVIOUS
  <2>3. x # {}
    <3> SUFFICES ASSUME x = {} PROVE FALSE
      OBVIOUS
    <3>1. SumOf(x) = 0 /\ SumOf(q) \in Nat
      BY <2>2, SumType, SumRecursion
    <3>2. q \ x = q
      OBVIOUS
    <3>3. SumOf(q \ x) = SumOf(q)
      BY <3>2
    <3> QED
      BY <2>2, <3>1, <3>3
  <2>4. PICK u \in x : TRUE
    BY <2>3
  <2>5. SumOf(q) = SumOf(x \ {u}) + SumOf(q \ (x \ {u}))
    BY <2>1
  <2>6. SumOf(x) = u.amount + SumOf(x \ {u})
    BY <2>2, SumTake
  <2>7. SumOf(q \ (x \ {u})) = u.amount + SumOf(q \ x)
    <3>1. (q \ (x \ {u})) \ {u} = q \ x /\ u \in q \ (x \ {u}) /\ q \ (x \ {u}) \in SUBSET Tickets
      OBVIOUS
    <3> QED
      BY <3>1, SumTake
  <2>8. SumOf(x \ {u}) \in Nat /\ SumOf(q \ x) \in Nat /\ u.amount \in Nat
    <3>1. x \ {u} \in SUBSET Tickets
      BY <2>2
    <3> QED
      BY <2>2, <3>1, SumType
  <2> QED
    BY <2>2, <2>5, <2>6, <2>7, <2>8
<1>2. SumOf(q) = SumOf(r) + SumOf(q \ r)
  BY <1>1
<1>3. SumOf(r) \in Nat /\ SumOf(q \ r) \in Nat
  <2>1. r \in SUBSET Tickets /\ q \ r \in SUBSET Tickets
    OBVIOUS
  <2> QED
    BY <2>1, SumType
<1> QED
  BY <1>2, <1>3
-----------------------------------------------------------------------------
\* The value of a set of tickets, and what popping it leaves in the cache.
LEMMA Values ==
    ASSUME NEW q \in SUBSET Tickets
    PROVE  /\ SumOf(q) \in Nat
           /\ ValueOf(q) \in [Epochs -> Nat]
           /\ \A c \in [Epochs -> Nat] : Uncached(c, q) \in [Epochs -> Nat]
           /\ Cardinality(q) \in Nat
           /\ HeadEpoch(q) \in {0} \cup Epochs
<1>1. SumOf(q) \in Nat
  BY SumType
<1>2. ASSUME NEW e \in Epochs PROVE SumOf({t \in q : t.epoch = e}) \in Nat
  <2>1. {t \in q : t.epoch = e} \in SUBSET Tickets
    OBVIOUS
  <2> QED
    BY <2>1, SumType
<1>3. ValueOf(q) \in [Epochs -> Nat]
  BY <1>2 DEF ValueOf
<1>4. ASSUME NEW c \in [Epochs -> Nat] PROVE Uncached(c, q) \in [Epochs -> Nat]
  BY <1>3 DEF Uncached, Minus
<1>5. Cardinality(q) \in Nat
  BY FS_Subset, FS_CardinalityType
<1>6. HeadEpoch(q) \in {0} \cup Epochs
  BY Constants DEF HeadEpoch
<1> QED
  BY <1>1, <1>3, <1>4, <1>5, <1>6
-----------------------------------------------------------------------------
(* Type correctness. *)

\* The manager before its first synchronisation is well typed.
LEMMA TypeInit == Init => TypeOK
<1> SUFFICES ASSUME Init PROVE TypeOK
  OBVIOUS
<1>1. chain \in ChainType
  BY Constants DEF Init, Opened, ChainType
<1>2. /\ value_cache \in [Gens -> [Epochs -> Nat]]
      /\ current_epoch \in [Gens -> {0} \cup Epochs]
      /\ redeem_lock \in [Gens -> BOOLEAN] /\ received \in [Gens -> Nat]
  BY DEF Init
<1>3. stats \in [Gens -> StatsType] /\ stream \in [Streams -> StreamType]
  BY IdleTypes DEF Init
<1>4. neglector \in NeglectType /\ inserter \in InsertType /\ syncer \in SyncType
  BY IdleTypes DEF Init
<1> QED
  BY <1>1, <1>2, <1>3, <1>4 DEF Init, TypeOK

\* Statistics stay natural numbers when amounts are added to them.
LEMMA TypeStats ==
    ASSUME NEW st \in StatsType, NEW n \in Nat
    PROVE  /\ [st EXCEPT !.winning = @ + 1, !.neglected = @ + n] \in StatsType
           /\ [st EXCEPT !.neglected = @ + n] \in StatsType
<1>1. st.winning + 1 \in Nat /\ st.neglected + n \in Nat
  BY DEF StatsType
<1>2. [st EXCEPT !.winning = @ + 1, !.neglected = @ + n] \in StatsType
  <2> DEFINE u == [st EXCEPT !.winning = @ + 1]
  <2>1. u \in StatsType
    BY <1>1 DEF StatsType
  <2>2. [u EXCEPT !.neglected = u.neglected + n] \in StatsType
    <3> HIDE DEF u
    <3> QED
      BY <2>1 DEF StatsType
  <2> QED
    BY <2>2
<1>3. [st EXCEPT !.neglected = @ + n] =
          [winning |-> st.winning, redeemed |-> st.redeemed,
           neglected |-> st.neglected + n, rejected |-> st.rejected]
  BY DEF StatsType
<1> QED
  BY <1>1, <1>2, <1>3 DEF StatsType

\* A queue wrapper built over a stored queue is well typed.
LEMMA TypeNewQueue ==
    ASSUME TypeOK, NEW cache \in [Epochs -> Nat], NEW epoch \in {0} \cup Epochs,
           NEW q \in SUBSET Tickets, NewQueue(cache, epoch, q)
    PROVE  /\ current' \in {0} \cup Gens /\ created' \in {0} \cup Gens
           /\ value_cache' \in [Gens -> [Epochs -> Nat]]
           /\ current_epoch' \in [Gens -> {0} \cup Epochs]
           /\ stats' \in [Gens -> StatsType]
           /\ received' \in [Gens -> Nat]
<1>1. created + 1 \in Gens
  BY DEF TypeOK, NewQueue, Gens
<1>2. [NoStats EXCEPT !.winning = Cardinality(q)] \in StatsType
  BY Values, IdleTypes DEF NoStats, StatsType
<1>3. SumOf(q) \in Nat
  BY SumType
<1> QED
  BY <1>1, <1>2, <1>3 DEF TypeOK, NewQueue

\* Chain events, synchronisation and restarts keep the types.
LEMMA TypeSync == ASSUME TypeOK, SyncStep \/ ChainStep \/ Restart PROVE TypeOK'
<1>1. CASE CloseChannel
  BY <1>1 DEF CloseChannel, TypeOK, ChainType, queueVars, handleVars, ghostVars
<1>2. CASE ReopenChannel
  <2>1. chain.epoch + 1 \in Epochs
    BY <1>2 DEF ReopenChannel, TypeOK, ChainType, Epochs
  <2>2. chain' \in ChainType
    BY <1>2, <2>1 DEF ReopenChannel, Opened, ChainType
  <2> QED
    BY <1>2, <2>2 DEF ReopenChannel, TypeOK, queueVars, handleVars, ghostVars
<1>3. CASE SyncQueue
  <2>1. /\ table' \in SUBSET Tickets /\ exists' \in BOOLEAN /\ synced' \in BOOLEAN
        /\ settled' \in SUBSET Tickets
    BY <1>3 DEF SyncQueue, TypeOK, Prefix, queueVars
  <2>2. syncer' \in SyncType
    <3>1. ValueOf(table') \in [Epochs -> Nat] /\ HeadEpoch(table') \in {0} \cup Epochs
      BY <2>1, Values
    <3>2. CASE syncer' = [syncer EXCEPT !.pc = "remove"]
      BY <3>2 DEF TypeOK, SyncType
    <3>3. CASE syncer' = [pc |-> "insert", cache |-> ValueOf(table'), epoch |-> HeadEpoch(table')]
      BY <3>1, <3>3 DEF SyncType
    <3>4. CASE syncer' = syncer
      BY <3>4 DEF TypeOK
    <3> QED
      BY <1>3, <3>2, <3>3, <3>4 DEF SyncQueue
  <2> QED
    BY <1>3, <2>1, <2>2 DEF SyncQueue, TypeOK, handleVars
<1>4. CASE SyncMap
  <2>1. syncer.cache \in [Epochs -> Nat] /\ syncer.epoch \in {0} \cup Epochs
    BY DEF TypeOK, SyncType
  <2>2. table \in SUBSET Tickets
    BY DEF TypeOK
  <2>3. CASE syncer.pc = "insert" /\ NewQueue(syncer.cache, syncer.epoch, table)
    BY <1>4, <2>1, <2>2, <2>3, TypeNewQueue, IdleTypes DEF SyncMap, TypeOK, queueVars
  <2>4. CASE ~(syncer.pc = "insert" /\ NewQueue(syncer.cache, syncer.epoch, table))
    BY <1>4, <2>4, IdleTypes DEF SyncMap, TypeOK, queueVars
  <2> QED
    BY <2>3, <2>4
<1>5. CASE SyncFails
  BY <1>5 DEF SyncFails, TypeOK, handleVars, ghostVars
<1>7. CASE FundChannel
  BY <1>7 DEF FundChannel, TypeOK, ChainType, queueVars, handleVars, ghostVars
<1>6. CASE Restart
  <2>1. /\ value_cache' \in [Gens -> [Epochs -> Nat]]
        /\ current_epoch' \in [Gens -> {0} \cup Epochs]
        /\ redeem_lock' \in [Gens -> BOOLEAN] /\ received' \in [Gens -> Nat]
        /\ restarts' \in Nat
    BY <1>6 DEF Restart, TypeOK
  <2>2. /\ stats' \in [Gens -> StatsType] /\ stream' \in [Streams -> StreamType]
        /\ neglector' \in NeglectType /\ inserter' \in InsertType /\ syncer' \in SyncType
    BY <1>6, IdleTypes DEF Restart
  <2> QED
    BY <1>6, <2>1, <2>2 DEF Restart, TypeOK, queueVars
<1> QED
  BY <1>1, <1>2, <1>3, <1>4, <1>5, <1>6, <1>7 DEF SyncStep, ChainStep

\* The value cache of an insertion stays a function into Nat.
LEMMA TypeCacheOfInsert ==
    ASSUME NEW c \in [Epochs -> Nat], NEW q \in SUBSET Tickets, NEW t \in Tickets
    PROVE  CacheOfInsert(c, q, t) \in [Epochs -> Nat]
<1>1. Uncached(c, q) \in [Epochs -> Nat]
  BY Values
<1>2. t.epoch \in Epochs /\ t.amount \in Nat
  BY Constants
<1> QED
  BY <1>1, <1>2 DEF CacheOfInsert

\* Every outcome of inserting a ticket keeps the types.
LEMMA TypeInsert == ASSUME TypeOK, InsertStep PROVE TypeOK'
<1>1. ASSUME NEW t \in Tickets, InsertOutdated(t) PROVE TypeOK'
  <2>1. current \in Gens /\ t.amount \in Nat
    BY <1>1, Constants DEF InsertOutdated, TypeOK
  <2>2. stats' \in [Gens -> StatsType]
    <3>1. stats[current] \in StatsType
      BY <2>1 DEF TypeOK
    <3>2. [stats[current] EXCEPT !.winning = @ + 1, !.neglected = @ + t.amount] \in StatsType
      BY <2>1, <3>1, TypeStats
    <3> QED
      BY <1>1, <2>1, <3>2 DEF InsertOutdated, TypeOK
  <2>3. received' \in [Gens -> Nat]
    BY <1>1, <2>1 DEF InsertOutdated, TypeOK
  <2> QED
    BY <1>1, <2>2, <2>3 DEF InsertOutdated, InsertUnchanged, TypeOK
<1>2. ASSUME NEW t \in Tickets, InsertIncomingTicket(t) PROVE TypeOK'
  <2> DEFINE drained == Outdated(t)
             epoch == IF drained = {} THEN current_epoch[current] ELSE 0
  <2>1. current \in Gens /\ t.amount \in Nat /\ t.epoch \in Epochs
    BY <1>2, Constants DEF InsertIncomingTicket, TypeOK
  <2>2. drained \in SUBSET Tickets /\ SumOf(drained) \in Nat
    <3>1. drained \in SUBSET Tickets
      BY DEF TypeOK, Outdated
    <3> QED
      BY <3>1, SumType
  <2>3. epoch \in {0} \cup Epochs
    BY <2>1 DEF TypeOK
  <2>4. value_cache' \in [Gens -> [Epochs -> Nat]]
    <3>1. CacheOfInsert(value_cache[current], drained, t) \in [Epochs -> Nat]
      BY <2>1, <2>2, TypeCacheOfInsert DEF TypeOK
    <3> QED
      BY <1>2, <2>1, <3>1 DEF InsertIncomingTicket, TypeOK
  <2>5. current_epoch' \in [Gens -> {0} \cup Epochs]
    <3>1. current_epoch' = [current_epoch EXCEPT ![current] =
                               IF epoch < t.epoch THEN t.epoch ELSE epoch]
      BY <1>2 DEF InsertIncomingTicket
    <3> HIDE DEF epoch
    <3> QED
      BY <2>1, <2>3, <3>1 DEF TypeOK
  <2>6. stats' \in [Gens -> StatsType]
    <3>1. stats[current] \in StatsType
      BY <2>1 DEF TypeOK
    <3> HIDE DEF drained
    <3>2. [stats[current] EXCEPT !.winning = @ + 1, !.neglected = @ + SumOf(drained)] \in StatsType
      BY <2>2, <3>1, TypeStats
    <3>3. [stats[current] EXCEPT !.neglected = @ + SumOf(drained)] \in StatsType
      BY <2>2, <3>1, TypeStats
    <3>4. \/ stats' = [stats EXCEPT ![current].winning = @ + 1,
                                    ![current].neglected = @ + SumOf(drained)]
          \/ stats' = [stats EXCEPT ![current].neglected = @ + SumOf(drained)]
      BY <1>2 DEF InsertIncomingTicket, drained
    <3> QED
      BY <2>1, <3>2, <3>3, <3>4 DEF TypeOK
  <2>7. received' \in [Gens -> Nat]
    <3>1. received' = [received EXCEPT ![current] = @ + t.amount] \/ received' = received
      BY <1>2 DEF InsertIncomingTicket
    <3> QED
      BY <2>1, <3>1 DEF TypeOK
  <2>8. table' \in SUBSET Tickets /\ inserted' \in SUBSET Tickets /\ offered' \in SUBSET Tickets
    BY <1>2 DEF InsertIncomingTicket, TypeOK, Push
  <2>9. settled' \in SUBSET Tickets
    BY <1>2, <2>2 DEF InsertIncomingTicket, TypeOK
  <2> QED
    BY <1>2, <2>4, <2>5, <2>6, <2>7, <2>8, <2>9 DEF InsertIncomingTicket, InsertUnchanged, TypeOK
<1>3. ASSUME NEW t \in Tickets, DrainFails(t) PROVE TypeOK'
  <2>1. current \in Gens
    BY <1>3 DEF DrainFails, TypeOK
  <2>2. PICK popped \in SUBSET Outdated(t) :
            /\ table' = table \ popped
            /\ value_cache' = [value_cache EXCEPT ![current] = Uncached(@, popped)]
            /\ \E e \in EpochsAfter(popped, current_epoch[current], HeadEpoch(table')) :
                current_epoch' = [current_epoch EXCEPT ![current] = e]
    BY <1>3 DEF DrainFails
  <2>3. popped \in SUBSET Tickets /\ table' \in SUBSET Tickets
    BY <2>2 DEF TypeOK, Outdated
  <2>4. Uncached(value_cache[current], popped) \in [Epochs -> Nat]
    BY <2>1, <2>3, Values DEF TypeOK
  <2>5. EpochsAfter(popped, current_epoch[current], HeadEpoch(table')) \subseteq {0} \cup Epochs
    <3>1. HeadEpoch(table') \in {0} \cup Epochs /\ current_epoch[current] \in {0} \cup Epochs
      BY <2>1, <2>3, Values DEF TypeOK
    <3>2. \A u \in popped : u.epoch \in Epochs
      BY <2>3, Constants
    <3> QED
      BY <3>1, <3>2 DEF EpochsAfter
  <2>6. value_cache' \in [Gens -> [Epochs -> Nat]]
    BY <2>1, <2>2, <2>4 DEF TypeOK
  <2>7. current_epoch' \in [Gens -> {0} \cup Epochs]
    BY <2>1, <2>2, <2>5 DEF TypeOK
  <2> QED
    BY <1>3, <2>3, <2>6, <2>7 DEF DrainFails, InsertUnchanged, TypeOK
<1>4. ASSUME NEW t \in Tickets, InsertVacant(t) PROVE TypeOK'
  BY <1>4 DEF InsertVacant, InsertUnchanged, TypeOK, InsertType, handleVars
<1>5. CASE OpenQueue
  <2>1. inserter.ticket \in Tickets
    BY DEF TypeOK, InsertType
  <2>2. /\ {inserter.ticket} \in SUBSET Tickets
        /\ inserter.ticket.epoch \in {0} \cup Epochs
    BY <2>1, Constants
  <2>3. ValueOf({inserter.ticket}) \in [Epochs -> Nat]
    BY <2>2, Values
  <2>4. CASE NewQueue(ValueOf({inserter.ticket}), inserter.ticket.epoch, {inserter.ticket})
    BY <1>5, <2>1, <2>2, <2>3, <2>4, TypeNewQueue, IdleTypes DEF OpenQueue, TypeOK, handleVars
  <2>5. CASE UNCHANGED <<table, handleVars, received, inserted>>
    BY <1>5, <2>5, IdleTypes DEF OpenQueue, TypeOK, handleVars
  <2> QED
    BY <1>5, <2>4, <2>5 DEF OpenQueue
<1> QED
  BY <1>1, <1>2, <1>3, <1>4, <1>5 DEF InsertStep

\* Statistics after an answered redemption.
LEMMA TypeAccounted ==
    ASSUME NEW st \in StatsType, NEW t \in Tickets, NEW r, NEW q
    PROVE  Accounted(st, t, r, q) \in StatsType
<1> DEFINE neglected == IF r = "TooLow" THEN st.neglected + t.amount ELSE st.neglected
           redeemed2 == IF r = "Redeemed" THEN st.redeemed + t.amount ELSE st.redeemed
           rejected2 == IF r \in Rejections THEN st.rejected + t.amount ELSE st.rejected
           neglected2 == IF q = {} THEN Minus(neglected, t.amount) ELSE neglected
<1>1. /\ st.neglected \in Nat /\ st.redeemed \in Nat /\ st.rejected \in Nat
      /\ st.winning \in Nat /\ t.amount \in Nat
  BY Constants DEF StatsType
<1>2. neglected2 \in Nat /\ redeemed2 \in Nat /\ rejected2 \in Nat
  BY <1>1 DEF Minus
<1>3. Accounted(st, t, r, q) = [st EXCEPT !.redeemed = redeemed2, !.rejected = rejected2,
                                          !.neglected = neglected2]
  <2> DEFINE u == [st EXCEPT !.redeemed = redeemed2]
  <2>1. u.rejected = st.rejected /\ u.neglected = st.neglected
    BY DEF StatsType
  <2> QED
    BY <2>1 DEF Accounted
<1> HIDE DEF neglected2, redeemed2, rejected2
<1>4. [st EXCEPT !.redeemed = redeemed2, !.rejected = rejected2,
                 !.neglected = neglected2] \in StatsType
  BY <1>2 DEF StatsType
<1> QED
  BY <1>3, <1>4

\* Dropping a RedeemState keeps lock and stream well typed.
LEMMA TypeDrop ==
    ASSUME TypeOK, NEW s \in Streams, DropRedeemState(s)
    PROVE  redeem_lock' \in [Gens -> BOOLEAN] /\ stream' \in [Streams -> StreamType]
BY IdleTypes DEF DropRedeemState, TypeOK

\* Every step of a redemption stream keeps the types.
LEMMA TypeStream ==
    ASSUME TypeOK, NEW s \in Streams, RedeemStream(s) \/ StreamStep(s) \/ DropStream(s)
    PROVE  TypeOK'
<1> DEFINE t == stream[s].ticket
           g == stream[s].gen
<1>s. stream[s] \in StreamType /\ t \in Tickets /\ g \in Gens /\ t.index \in Nat
  BY Constants DEF TypeOK, StreamType
<1>1. CASE RedeemStream(s)
  <2>1. current \in Gens
    BY <1>1 DEF RedeemStream, TypeOK
  <2>2. [IdleStream EXCEPT !.pc = "next", !.gen = current] \in StreamType
    BY <2>1, Constants DEF IdleStream, StreamType
  <2>3. stream' \in [Streams -> StreamType]
    BY <1>1, <2>2 DEF RedeemStream, TypeOK
  <2>4. redeem_lock' \in [Gens -> BOOLEAN]
    BY <1>1, <2>1 DEF RedeemStream, TakeRedeemLock, TypeOK
  <2> QED
    BY <1>1, <2>3, <2>4 DEF RedeemStream, StreamUnchanged, TypeOK
<1>2. CASE Peek(s)
  <2>1. redeem_lock' \in [Gens -> BOOLEAN] /\ stream' \in [Streams -> StreamType]
    <3>1. CASE DropRedeemState(s)
      BY <3>1, TypeDrop
    <3>2. ASSUME NEW h \in table,
                 stream' = [stream EXCEPT
                    ![s].ticket = h,
                    ![s].pc = IF h.amount >= MinAmount THEN "await" ELSE "settle"],
                 UNCHANGED redeem_lock
          PROVE  redeem_lock' \in [Gens -> BOOLEAN] /\ stream' \in [Streams -> StreamType]
      <4>1. h \in Tickets
        BY DEF TypeOK
      <4>2. stream' = [stream EXCEPT ![s] = [stream[s] EXCEPT !.ticket = h,
                          !.pc = IF h.amount >= MinAmount THEN "await" ELSE "settle"]]
        BY <3>2 DEF TypeOK
      <4>3. [stream[s] EXCEPT !.ticket = h,
                 !.pc = IF h.amount >= MinAmount THEN "await" ELSE "settle"] \in StreamType
        BY <1>s, <4>1 DEF StreamType
      <4> QED
        BY <3>2, <4>2, <4>3 DEF TypeOK
    <3> QED
      BY <1>2, <3>1, <3>2 DEF Peek
  <2> QED
    BY <1>2, <2>1 DEF Peek, StreamUnchanged, TypeOK
<1>3. CASE RedeemTicket(s)
  <2>1. redeem_lock' \in [Gens -> BOOLEAN] /\ stream' \in [Streams -> StreamType]
    <3>1. CASE DropRedeemState(s)
      BY <3>1, TypeDrop
    <3>2. ASSUME NEW r \in {"Redeemed"} \cup Rejections, UNCHANGED redeem_lock,
                 stream' = [stream EXCEPT ![s].pc = "settle", ![s].result = r]
          PROVE  redeem_lock' \in [Gens -> BOOLEAN] /\ stream' \in [Streams -> StreamType]
      <4>1. stream' = [stream EXCEPT ![s] = [stream[s] EXCEPT !.pc = "settle", !.result = r]]
        BY <3>2 DEF TypeOK
      <4>2. [stream[s] EXCEPT !.pc = "settle", !.result = r] \in StreamType
        BY <1>s DEF StreamType
      <4> QED
        BY <3>2, <4>1, <4>2 DEF TypeOK
    <3> QED
      BY <1>3, <3>1, <3>2 DEF RedeemTicket, RejectionsOf, Rejections
  <2>2. chain' \in ChainType
    <3>1. [chain EXCEPT !.ticket_index = t.index + 1, !.stake = Minus(@, t.amount)] \in ChainType
      <4>1. chain.stake \in Nat /\ t.amount \in Nat
        BY <1>s, Constants DEF TypeOK, ChainType
      <4>2. Minus(chain.stake, t.amount) \in Nat /\ t.index + 1 \in Nat
        BY <1>s, <4>1 DEF Minus
      <4>3. ASSUME NEW c \in ChainType, NEW i \in Nat, NEW n \in Nat
            PROVE  [c EXCEPT !.ticket_index = i, !.stake = n] \in ChainType
        BY DEF ChainType
      <4> QED
        BY <4>2, <4>3 DEF TypeOK
    <3>2. chain' = chain \/ chain' = [chain EXCEPT !.ticket_index = t.index + 1,
                                                 !.stake = Minus(@, t.amount)]
      BY <1>3 DEF RedeemTicket
    <3> QED
      BY <3>1, <3>2 DEF TypeOK
  <2>3. landed' \in SUBSET Tickets /\ forsaken' \in SUBSET Tickets
    BY <1>3, <1>s DEF RedeemTicket, TypeOK
  <2> QED
    BY <1>3, <2>1, <2>2, <2>3 DEF RedeemTicket, StreamUnchanged, TypeOK
<1>4. CASE CompleteRedemption(s)
  <2> DEFINE popped == Popped(t)
  <2>1. popped \in SUBSET Tickets
    BY <1>s DEF Popped
  <2>2. table' \in SUBSET Tickets /\ settled' \in SUBSET Tickets
    BY <1>4, <1>s DEF CompleteRedemption, PopFails, TypeOK
  <2>3. /\ Uncached(value_cache[g], popped) \in [Epochs -> Nat]
        /\ HeadEpoch(table') \in {0} \cup Epochs
    BY <1>s, <2>1, <2>2, Values DEF TypeOK
  <2>4. value_cache' \in [Gens -> [Epochs -> Nat]]
    BY <1>4, <1>s, <2>3 DEF CompleteRedemption, PopFails, TypeOK
  <2>5. current_epoch' \in [Gens -> {0} \cup Epochs]
    BY <1>4, <1>s, <2>3 DEF CompleteRedemption, PopFails, TypeOK
  <2>6. stats' \in [Gens -> StatsType]
    <3>1. Accounted(stats[g], t, stream[s].result, popped) \in StatsType
      BY <1>s, TypeAccounted DEF TypeOK
    <3> QED
      BY <1>4, <1>s, <3>1 DEF CompleteRedemption, PopFails, TypeOK
  <2>7. redeem_lock' \in [Gens -> BOOLEAN] /\ stream' \in [Streams -> StreamType]
    <3>1. [IdleStream EXCEPT !.pc = "next", !.gen = g] \in StreamType
      BY <1>s, Constants DEF IdleStream, StreamType
    <3> QED
      BY <1>4, <3>1, TypeDrop DEF CompleteRedemption, PopFails, TypeOK
  <2> QED
    BY <1>4, <2>2, <2>4, <2>5, <2>6, <2>7 DEF CompleteRedemption, PopFails, StreamUnchanged, TypeOK
<1>5. CASE DropStream(s)
  BY <1>5, TypeDrop DEF DropStream, StreamUnchanged, TypeOK
<1> QED
  BY <1>1, <1>2, <1>3, <1>4, <1>5 DEF StreamStep

\* Neglecting tickets keeps the types.
LEMMA TypeNeglect ==
    ASSUME TypeOK, NeglectStep \/ \E n \in UpTo : NeglectTickets(n)
    PROVE  TypeOK'
<1>1. ASSUME NEW n \in UpTo, NeglectTickets(n) PROVE TypeOK'
  <2>1. n \in Nat /\ current \in Gens
    BY <1>1 DEF NeglectTickets, TypeOK
  <2>2. neglector' \in NeglectType
    BY <1>1, <2>1 DEF NeglectTickets, NeglectType
  <2> QED
    BY <1>1, <2>2 DEF NeglectTickets, NeglectUnchanged, TypeOK
<1>2. CASE NeglectNext
  <2> DEFINE g == neglector.gen
  <2>1. g \in Gens
    BY DEF TypeOK, NeglectType
  <2>2. PICK t \in table :
            /\ table' = table \ {t}
            /\ value_cache' = [value_cache EXCEPT ![g] = Uncached(@, {t})]
            /\ current_epoch' = [current_epoch EXCEPT ![g] = HeadEpoch(table')]
            /\ stats' = [stats EXCEPT ![g].neglected = @ + t.amount]
            /\ settled' = settled \cup {t}
    BY <1>2 DEF NeglectNext
  <2>3. t \in Tickets /\ {t} \in SUBSET Tickets /\ table' \in SUBSET Tickets /\ t.amount \in Nat
    BY <2>2, Constants DEF TypeOK
  <2>4. /\ Uncached(value_cache[g], {t}) \in [Epochs -> Nat]
        /\ HeadEpoch(table') \in {0} \cup Epochs
    BY <2>1, <2>3, Values DEF TypeOK
  <2>5. stats[g] \in StatsType /\ [stats[g] EXCEPT !.neglected = @ + t.amount] \in StatsType
    BY <2>1, <2>3, TypeStats DEF TypeOK
  <2>6. stats' \in [Gens -> StatsType]
    BY <2>1, <2>2, <2>5 DEF TypeOK
  <2>7. /\ value_cache' \in [Gens -> [Epochs -> Nat]]
        /\ current_epoch' \in [Gens -> {0} \cup Epochs]
    BY <2>1, <2>2, <2>4 DEF TypeOK
  <2> QED
    BY <1>2, <2>2, <2>3, <2>6, <2>7 DEF NeglectNext, NeglectUnchanged, TypeOK
<1>4. CASE NeglectFails
  <2> DEFINE g == neglector.gen
  <2>1. g \in Gens
    BY DEF TypeOK, NeglectType
  <2>2. PICK t \in table :
            /\ table' = table \ {t}
            /\ value_cache' = [value_cache EXCEPT ![g] = Uncached(@, {t})]
            /\ forsaken' = forsaken \cup {t}
    BY <1>4 DEF NeglectFails, PopFails
  <2>3. t \in Tickets /\ {t} \in SUBSET Tickets /\ table' \in SUBSET Tickets
    BY <2>2 DEF TypeOK
  <2>4. Uncached(value_cache[g], {t}) \in [Epochs -> Nat]
    BY <2>1, <2>3, Values DEF TypeOK
  <2>5. value_cache' \in [Gens -> [Epochs -> Nat]]
    BY <2>1, <2>2, <2>4 DEF TypeOK
  <2> QED
    BY <1>4, <2>2, <2>3, <2>5, IdleTypes DEF NeglectFails, PopFails, NeglectUnchanged, TypeOK
<1>3. CASE NeglectEnd
  BY <1>3, IdleTypes DEF NeglectEnd, NeglectUnchanged, TypeOK
<1> QED
  BY <1>1, <1>2, <1>3, <1>4 DEF NeglectStep

\* Every step of the manager keeps the types.
LEMMA TypeNext == ASSUME TypeOK, [Next]_vars PROVE TypeOK'
<1>1. CASE UNCHANGED vars
  BY <1>1 DEF vars, TypeOK
<1> QED
  BY <1>1, TypeSync, TypeInsert, TypeStream, TypeNeglect DEF Next

\* Every state of the ticket manager, its queue and its streams is well typed;
\* in particular the cached values and statistics never go below zero.
THEOREM TypeCorrect == Spec => []TypeOK
<1>1. Init => TypeOK
  BY TypeInit
<1>2. TypeOK /\ [Next]_vars => TypeOK'
  BY TypeNext
<1> QED
  BY <1>1, <1>2, PTL DEF Spec
-----------------------------------------------------------------------------
(* The order of the queue. *)

\* A redb key (epoch and index) holds one ticket.
KeysDistinct == \A t, u \in table : t.epoch = u.epoch /\ t.index = u.index => t = u

\* What the queue keeps up: inductive, unlike SingleEpoch alone, because only
\* with distinct keys a queue that is not empty has a next ticket.
QueueInv == SingleEpoch /\ KeysDistinct

\* A set of tickets of one epoch, with distinct indices, has a next ticket.
LEMMA HeadIn ==
    ASSUME NEW q \in SUBSET Tickets, q # {},
           \A t, u \in q : t.epoch = u.epoch /\ (t.index = u.index => t = u)
    PROVE  \E h \in q : IsHead(h, q)
<1> DEFINE T == {t.index : t \in q}
<1>1. T \in SUBSET Nat /\ T # {}
  BY Constants
<1>2. PICK x \in T : \A y \in T : x <= y
  <2> HIDE DEF T
  <2> QED
    BY <1>1, LeastExists
<1>3. PICK h \in q : h.index = x
  OBVIOUS
<1>4. ASSUME NEW u \in q \ {h} PROVE Before(h, u)
  <2>1. h.index \in Nat /\ u.index \in Nat /\ u.index \in T
    BY Constants
  <2>2. h.index <= u.index /\ h.epoch = u.epoch /\ h.index # u.index
    BY <1>2, <1>3, <2>1
  <2> QED
    BY <2>1, <2>2 DEF Before
<1> QED
  BY <1>4 DEF IsHead

\* A queue that is not empty has a next ticket: peek() finds one.
LEMMA HeadExists ==
    ASSUME TypeOK, QueueInv, table # {}
    PROVE  \E h \in table : IsHead(h, table)
<1>1. table \in SUBSET Tickets
  BY DEF TypeOK
<1>2. \A t, u \in table : t.epoch = u.epoch /\ (t.index = u.index => t = u)
  BY DEF QueueInv, SingleEpoch, KeysDistinct
<1> QED
  BY <1>1, <1>2, HeadIn

\* Two different tickets of the queue are ordered.
LEMMA TotalOrder ==
    ASSUME TypeOK, KeysDistinct, NEW t \in table, NEW u \in table, t # u
    PROVE  Before(t, u) \/ Before(u, t)
<1>1. t.epoch \in Nat /\ u.epoch \in Nat /\ t.index \in Nat /\ u.index \in Nat
  BY Constants DEF TypeOK
<1> QED
  BY <1>1 DEF KeysDistinct, Before

\* The order of tickets is transitive.
LEMMA Transitive ==
    ASSUME NEW t \in Tickets, NEW u \in Tickets, NEW v \in Tickets, Before(t, u), Before(u, v)
    PROVE  Before(t, v)
<1>1. /\ t.epoch \in Nat /\ u.epoch \in Nat /\ v.epoch \in Nat
      /\ t.index \in Nat /\ u.index \in Nat /\ v.index \in Nat
  BY Constants
<1> QED
  BY <1>1 DEF Before

\* A loop that pops the next ticket while it satisfies a condition removes
\* tickets that come before all it leaves.
LEMMA PrefixFirst ==
    ASSUME TypeOK, KeysDistinct, NEW S, NEW t \in Prefix(table, S),
           NEW u \in table \ Prefix(table, S)
    PROVE  Before(t, u)
<1>1. t \in table /\ u \in table /\ t # u
  BY DEF Prefix
<1>2. PICK w \in table : (w = u \/ Before(w, u)) /\ w \notin S
  BY DEF Prefix
<1>3. ASSUME Before(u, t) PROVE FALSE
  <2>1. Before(w, t)
    BY <1>1, <1>2, <1>3, Transitive DEF TypeOK
  <2> QED
    BY <1>2, <2>1 DEF Prefix
<1> QED
  BY <1>1, <1>3, TotalOrder

\* What one step may do to the queue: leave it, take some tickets from its
\* front, or put one ticket into it.
Shrinks == table' \subseteq table /\ \A t \in table \ table', u \in table' : Before(t, u)
Grows   == \E t \in Tickets :
             /\ table' = Push(table, t)
             /\ \A u \in table : u.epoch = t.epoch

\* Every step of the specification shrinks the queue from its front, drains it,
\* drains it and starts it anew, or pushes a ticket of the same epoch.
LEMMA QueueStep ==
    ASSUME TypeOK, QueueInv, [Next]_vars
    PROVE  Shrinks \/ Grows \/ \E t \in Tickets \ table : table' = {t}
<1>u. CASE UNCHANGED table
  BY <1>u DEF Shrinks
<1>p. ASSUME NEW S, table' = table \ Prefix(table, S) PROVE Shrinks
  BY <1>p, PrefixFirst DEF Shrinks, QueueInv
<1>h. ASSUME NEW h \in table, IsHead(h, table), table' = table \ {h} PROVE Shrinks
  BY <1>h DEF Shrinks, IsHead
<1>1. CASE ChainStep \/ Restart \/ SyncMap
  BY <1>1, <1>u DEF ChainStep, CloseChannel, ReopenChannel, FundChannel, Restart, SyncMap, queueVars
<1>2. CASE SyncQueue
  <2>1. CASE table' = {}
    BY <2>1 DEF Shrinks
  <2> QED
    BY <1>2, <2>1, <1>u, <1>p DEF SyncQueue, queueVars
<1>3. CASE SyncFails
  BY <1>3, <1>p DEF SyncFails
<1>4. ASSUME NEW t \in Tickets, InsertOutdated(t) \/ InsertVacant(t) PROVE Shrinks
  BY <1>4, <1>u DEF InsertOutdated, InsertVacant, Shrinks
<1>5. ASSUME NEW t \in Tickets, DrainFails(t) PROVE Shrinks
  BY <1>5, <1>p DEF DrainFails
<1>6. ASSUME NEW t \in Tickets, InsertIncomingTicket(t)
      PROVE  Shrinks \/ Grows \/ \E v \in Tickets \ table : table' = {v}
  <2>1. /\ table' = Push(table \ Outdated(t), t) \/ table' = table \ Outdated(t)
        /\ ~\E h \in table : IsHead(h, table) /\ h.epoch > t.epoch
    BY <1>6 DEF InsertIncomingTicket
  <2>2. CASE \E h \in table : IsHead(h, table) /\ h.epoch < t.epoch
    <3>1. PICK h \in table : h.epoch < t.epoch
      BY <2>2
    <3>2. h.epoch \in Nat /\ t.epoch \in Nat
      BY Constants DEF TypeOK
    <3>3. t \notin table
      BY <3>1, <3>2 DEF QueueInv, SingleEpoch
    <3>4. Outdated(t) = table
      BY <2>2 DEF Outdated
    <3> QED
      BY <2>1, <3>3, <3>4 DEF Push, Shrinks
  <2>3. CASE ~\E h \in table : IsHead(h, table) /\ h.epoch < t.epoch
    <3>1. Outdated(t) = {}
      BY <2>3 DEF Outdated
    <3>2. ASSUME NEW u \in table PROVE u.epoch = t.epoch
      <4>1. PICK h \in table : IsHead(h, table)
        BY HeadExists
      <4>2. h.epoch = t.epoch
        <5>1. h.epoch \in Nat /\ t.epoch \in Nat
          BY Constants DEF TypeOK
        <5> QED
          BY <2>1, <2>3, <4>1, <5>1
      <4> QED
        BY <4>2 DEF QueueInv, SingleEpoch
    <3>3. table \ Outdated(t) = table
      BY <3>1
    <3> QED
      BY <2>1, <3>2, <3>3, <1>u DEF Grows
  <2> QED
    BY <2>2, <2>3
<1>7. CASE OpenQueue
  <2>1. inserter.ticket \in Tickets
    BY DEF TypeOK, InsertType
  <2> QED
    BY <1>7, <1>u, <2>1 DEF OpenQueue
<1>8. ASSUME NEW s \in Streams, RedeemStream(s) \/ Peek(s) \/ RedeemTicket(s) \/ DropStream(s)
      PROVE  Shrinks
  BY <1>8 DEF RedeemStream, Peek, RedeemTicket, DropStream, Shrinks
<1>9. ASSUME NEW s \in Streams, CompleteRedemption(s) PROVE Shrinks
  <2>1. table' = table \ Popped(stream[s].ticket) \/ UNCHANGED table
    BY <1>9 DEF CompleteRedemption, PopFails
  <2>2. CASE IsHead(stream[s].ticket, table) /\ table' = table \ Popped(stream[s].ticket)
    <3>1. stream[s].ticket \in table
      BY <2>2 DEF IsHead
    <3> QED
      BY <2>2, <3>1, <1>h DEF Popped
  <2>3. CASE UNCHANGED table \/ ~IsHead(stream[s].ticket, table)
    BY <2>1, <2>3 DEF Popped, Shrinks
  <2> QED
    BY <2>1, <2>2, <2>3
<1>10. CASE NeglectNext
  BY <1>10, <1>h DEF NeglectNext
<1>13. CASE NeglectFails
  BY <1>13, <1>h DEF NeglectFails, PopFails
<1>11. CASE NeglectEnd \/ \E n \in UpTo : NeglectTickets(n)
  BY <1>11, <1>u DEF NeglectEnd, NeglectTickets
<1>12. CASE UNCHANGED vars
  BY <1>12, <1>u DEF vars
<1> QED
  BY <1>1, <1>2, <1>3, <1>4, <1>5, <1>6, <1>7, <1>8, <1>9, <1>10, <1>11, <1>12, <1>13
     DEF Next, ChainStep, SyncStep, InsertStep, StreamStep, NeglectStep

\* QueueInv is inductive, given types.
LEMMA QueueInvNext ==
    ASSUME TypeOK, QueueInv, [Next]_vars
    PROVE  QueueInv'
<1>1. CASE Shrinks
  BY <1>1 DEF Shrinks, QueueInv, SingleEpoch, KeysDistinct
<1>2. CASE Grows
  BY <1>2 DEF Grows, QueueInv, SingleEpoch, KeysDistinct, Push
<1>3. CASE \E t \in Tickets \ table : table' = {t}
  BY <1>3 DEF QueueInv, SingleEpoch, KeysDistinct
<1> QED
  BY <1>1, <1>2, <1>3, QueueStep

\* Types and QueueInv together are an invariant.
LEMMA QueueCorrect == Spec => [](TypeOK /\ QueueInv)
<1>1. Init => QueueInv
  BY DEF Init, QueueInv, SingleEpoch, KeysDistinct
<1>2. TypeOK /\ QueueInv /\ [Next]_vars => QueueInv'
  BY QueueInvNext
<1> QED
  BY <1>1, <1>2, TypeCorrect, PTL DEF Spec

\* The queue of a channel never mixes epochs (backend/mod.rs:30), for any
\* tickets, in any order, with failing stores, restarts and syncs at any time.
THEOREM SingleEpochCorrect == Spec => []SingleEpoch
<1>1. QueueInv => SingleEpoch
  BY DEF QueueInv
<1> QED
  BY <1>1, QueueCorrect, PTL

\* Tickets leave the queue in the order of their indices (manager.rs:42),
\* whichever of sync, insertion, redemption and neglection removes them.
THEOREM LeaveInOrderCorrect == Spec => LeaveInOrder
<1> DEFINE Ordered ==
        \A t \in table \ table' : \A u \in table \cap table' :
            Before(t, u) \/ \E v \in table' \ table : v.epoch = t.epoch /\ v.index = t.index
<1>1. ASSUME TypeOK, QueueInv, [Next]_vars PROVE [Ordered]_vars
  <2>1. CASE Shrinks
    BY <2>1 DEF Shrinks
  <2>2. CASE Grows
    <3>1. PICK v \in Tickets : table' = Push(table, v)
      BY <2>2 DEF Grows
    <3>2. ASSUME NEW t \in table \ table'
          PROVE  v \in table' \ table /\ v.epoch = t.epoch /\ v.index = t.index
      <4>1. v \in table' /\ t.epoch = v.epoch /\ t.index = v.index
        BY <3>1 DEF Push
      <4>2. v \in table => v = t
        BY <1>1, <4>1 DEF QueueInv, KeysDistinct
      <4> QED
        BY <4>1, <4>2
    <3> QED
      BY <3>2
  <2>3. CASE \E t \in Tickets \ table : table' = {t}
    BY <2>3
  <2> QED
    BY <1>1, <2>1, <2>2, <2>3, QueueStep
<1>2. TypeOK /\ QueueInv /\ [Next]_vars => [Ordered]_vars
  BY <1>1
<1> QED
  BY <1>2, QueueCorrect, PTL DEF Spec, LeaveInOrder
-----------------------------------------------------------------------------
(* Mutual exclusion of redeem streams. *)

\* A live stream holds the redeem_lock of the queue in the map, and the map
\* entry is replaced only before the manager is used or when there is none.
LockInv ==
    /\ OneStream
    /\ \A s \in Streams : stream[s].pc # "idle" =>
          redeem_lock[stream[s].gen] /\ synced /\ stream[s].gen = current
    /\ inserter.pc = "vacant" => current = 0
    /\ synced => syncer.pc = "idle"

\* Nothing that LockInv speaks of changes.
LEMMA LockUnchanged ==
    ASSUME LockInv, UNCHANGED <<stream, redeem_lock, current, synced, inserter, syncer>>
    PROVE  LockInv'
BY DEF LockInv, OneStream

\* Ending a stream releases the lock of that stream and of no other.
LEMMA LockDrop ==
    ASSUME TypeOK, LockInv, NEW s \in Streams, DropRedeemState(s), stream[s].pc # "idle",
           UNCHANGED <<current, synced, inserter, syncer>>
    PROVE  LockInv'
<1>1. ASSUME NEW r \in Streams, stream'[r].pc # "idle" PROVE FALSE
  <2>1. r # s
    BY <1>1 DEF DropRedeemState, IdleStream, TypeOK
  <2>2. stream[r].pc # "idle"
    BY <1>1, <2>1 DEF DropRedeemState, TypeOK
  <2> QED
    BY <2>1, <2>2 DEF LockInv, OneStream
<1> QED
  BY <1>1 DEF LockInv, OneStream

\* A step of a live stream that keeps its lock and its queue.
LEMMA LockStep ==
    ASSUME TypeOK, LockInv, NEW s \in Streams, stream[s].pc # "idle", NEW x,
           x.gen = stream[s].gen, stream' = [stream EXCEPT ![s] = x],
           UNCHANGED <<redeem_lock, current, synced, inserter, syncer>>
    PROVE  LockInv'
<1>1. ASSUME NEW r \in Streams, stream'[r].pc # "idle" PROVE r = s
  BY <1>1 DEF LockInv, OneStream, TypeOK
<1>2. stream'[s].gen = stream[s].gen
  BY DEF TypeOK
<1> QED
  BY <1>1, <1>2 DEF LockInv, OneStream

\* Each step of a redeem stream preserves LockInv.
LEMMA LockStream ==
    ASSUME TypeOK, LockInv, ~SyncConcurrently, NEW s \in Streams,
           RedeemStream(s) \/ StreamStep(s) \/ DropStream(s)
    PROVE  LockInv'
<1>s. stream[s] \in StreamType
  BY DEF TypeOK
<1>1. CASE RedeemStream(s)
  <2>1. /\ synced /\ current \in Gens /\ ~redeem_lock[current]
        /\ inserter.pc = "idle" /\ redeem_lock'[current] = TRUE
    BY <1>1 DEF RedeemStream, InUse, MapUnlocked, TakeRedeemLock, TypeOK
  <2>2. ASSUME NEW r \in Streams PROVE stream[r].pc = "idle"
    BY <2>1 DEF LockInv
  <2>3. stream'[s].gen = current
    BY <1>1 DEF RedeemStream, IdleStream, TypeOK
  <2>4. ASSUME NEW r \in Streams, r # s PROVE stream'[r].pc = "idle"
    BY <1>1, <2>2, <2>4 DEF RedeemStream, TypeOK
  <2> QED
    BY <1>1, <2>1, <2>3, <2>4 DEF RedeemStream, StreamUnchanged, LockInv, OneStream
<1>2. CASE Peek(s)
  <2>1. stream[s].pc # "idle" /\ UNCHANGED <<current, synced, inserter, syncer>>
    BY <1>2 DEF Peek, StreamUnchanged
  <2>2. CASE DropRedeemState(s)
    BY <2>1, <2>2, LockDrop
  <2>3. ASSUME NEW h \in table, UNCHANGED redeem_lock,
               stream' = [stream EXCEPT ![s].ticket = h,
                    ![s].pc = IF h.amount >= MinAmount THEN "await" ELSE "settle"]
        PROVE  LockInv'
    <3> DEFINE x == [stream[s] EXCEPT !.ticket = h,
                        !.pc = IF h.amount >= MinAmount THEN "await" ELSE "settle"]
    <3>1. stream' = [stream EXCEPT ![s] = x]
      BY <2>3 DEF TypeOK
    <3>2. x.gen = stream[s].gen
      BY <1>s DEF StreamType
    <3> HIDE DEF x
    <3> QED
      BY <2>1, <2>3, <3>1, <3>2, LockStep
  <2> QED
    BY <1>2, <2>2, <2>3 DEF Peek
<1>3. CASE RedeemTicket(s)
  <2>1. stream[s].pc # "idle" /\ UNCHANGED <<current, synced, inserter, syncer>>
    BY <1>3 DEF RedeemTicket, StreamUnchanged
  <2>2. CASE DropRedeemState(s)
    BY <2>1, <2>2, LockDrop
  <2>3. ASSUME NEW r, UNCHANGED redeem_lock,
               stream' = [stream EXCEPT ![s].pc = "settle", ![s].result = r]
        PROVE  LockInv'
    <3> DEFINE x == [stream[s] EXCEPT !.pc = "settle", !.result = r]
    <3>1. stream' = [stream EXCEPT ![s] = x]
      BY <2>3 DEF TypeOK
    <3>2. x.gen = stream[s].gen
      BY <1>s DEF StreamType
    <3> HIDE DEF x
    <3> QED
      BY <2>1, <2>3, <3>1, <3>2, LockStep
  <2> QED
    BY <1>3, <2>2, <2>3 DEF RedeemTicket
<1>4. CASE CompleteRedemption(s)
  <2>1. stream[s].pc # "idle" /\ UNCHANGED <<current, synced, inserter, syncer>>
    BY <1>4 DEF CompleteRedemption, PopFails, StreamUnchanged
  <2>2. CASE DropRedeemState(s)
    BY <2>1, <2>2, LockDrop
  <2>3. ASSUME UNCHANGED redeem_lock,
               stream' = [stream EXCEPT ![s] =
                             [IdleStream EXCEPT !.pc = "next", !.gen = stream[s].gen]]
        PROVE  LockInv'
    <3> DEFINE x == [IdleStream EXCEPT !.pc = "next", !.gen = stream[s].gen]
    <3>1. x.gen = stream[s].gen
      BY DEF IdleStream
    <3>2. stream' = [stream EXCEPT ![s] = x]
      BY <2>3
    <3> HIDE DEF x
    <3> QED
      BY <2>1, <2>3, <3>1, <3>2, LockStep
  <2> QED
    BY <1>4, <2>2, <2>3 DEF CompleteRedemption, PopFails
<1>5. CASE DropStream(s)
  BY <1>5, LockDrop DEF DropStream, StreamUnchanged
<1> QED
  BY <1>1, <1>2, <1>3, <1>4, <1>5 DEF StreamStep

\* LockInv is inductive when syncs do not run beside other operations.
LEMMA LockInvNext ==
    ASSUME TypeOK, LockInv, ~SyncConcurrently, [Next]_vars
    PROVE  LockInv'
<1>0. 0 \notin Gens /\ \A s \in Streams : stream[s].gen \in Gens
  BY Constants DEF TypeOK, StreamType
<1>1. CASE ChainStep \/ SyncFails \/ NeglectStep \/ \E n \in UpTo : NeglectTickets(n)
  BY <1>1, LockUnchanged DEF ChainStep, CloseChannel, ReopenChannel, FundChannel, SyncFails,
     NeglectStep, NeglectNext, NeglectFails, PopFails, NeglectEnd, NeglectTickets,
     NeglectUnchanged, handleVars
<1>2. CASE SyncQueue
  <2>1. ~synced /\ syncer.pc = "idle" /\ UNCHANGED <<stream, redeem_lock, current, inserter>>
    BY <1>2 DEF SyncQueue, handleVars
  <2>2. ASSUME NEW s \in Streams PROVE stream'[s].pc = "idle"
    BY <2>1 DEF LockInv
  <2>3. synced' => syncer'.pc = "idle"
    BY <1>2, <2>1 DEF SyncQueue
  <2> QED
    BY <2>1, <2>2, <2>3 DEF LockInv, OneStream
<1>3. CASE SyncMap
  <2>1. ~synced /\ inserter'.pc = "idle" /\ syncer'.pc = "idle" /\ UNCHANGED stream
    BY <1>3 DEF SyncMap, MapUnlocked, LockInv, IdleSync
  <2>2. ASSUME NEW s \in Streams PROVE stream'[s].pc = "idle"
    BY <2>1 DEF LockInv
  <2> QED
    BY <2>1, <2>2 DEF LockInv, OneStream
<1>4. CASE Restart
  BY <1>4 DEF Restart, LockInv, OneStream, IdleStream, IdleInsert, IdleSync
<1>5. ASSUME NEW t \in Tickets, InsertOutdated(t) \/ InsertIncomingTicket(t) \/ DrainFails(t)
      PROVE  LockInv'
  BY <1>5, LockUnchanged DEF InsertOutdated, InsertIncomingTicket, DrainFails, InsertUnchanged
<1>6. ASSUME NEW t \in Tickets, InsertVacant(t) PROVE LockInv'
  BY <1>6 DEF InsertVacant, InsertUnchanged, handleVars, LockInv, OneStream
<1>7. CASE OpenQueue
  <2>1. /\ current = 0 /\ inserter'.pc = "idle"
        /\ UNCHANGED <<stream, redeem_lock, synced, syncer>>
    BY <1>7 DEF OpenQueue, LockInv, IdleInsert
  <2>2. ASSUME NEW s \in Streams PROVE stream'[s].pc = "idle"
    BY <1>0, <2>1 DEF LockInv
  <2> QED
    BY <2>1, <2>2 DEF LockInv, OneStream
<1>8. CASE UNCHANGED vars
  BY <1>8, LockUnchanged DEF vars
<1> QED
  BY <1>1, <1>2, <1>3, <1>4, <1>5, <1>6, <1>7, <1>8, LockStream DEF Next, SyncStep, InsertStep

\* LockInv is an invariant when the manager is synchronised before it is used.
LEMMA LockCorrect == ASSUME ~SyncConcurrently PROVE Spec => []LockInv
<1>1. Init => LockInv
  BY DEF Init, LockInv, OneStream, IdleStream, IdleInsert, IdleSync
<1>2. TypeOK /\ LockInv /\ [Next]_vars => LockInv'
  BY LockInvNext
<1> QED
  BY <1>1, <1>2, TypeCorrect, PTL DEF Spec

\* When the manager is synchronised before it is used, a channel never has two
\* redeem streams (manager.rs:251), for any number of users and of restarts.
THEOREM OneStreamCorrect == ASSUME ~SyncConcurrently PROVE Spec => []OneStream
<1>1. LockInv => OneStream
  BY DEF LockInv
<1> QED
  BY <1>1, LockCorrect, PTL
-----------------------------------------------------------------------------
(* No ticket is lost. *)

\* The sender gives every ticket of an epoch an index of its own.
DistinctIndices ==
    \A t, u \in Tickets : t.epoch = u.epoch /\ t.index = u.index => t = u

\* Where the tickets of the manager come from.
OfferedInv ==
    /\ table \subseteq offered /\ inserted \subseteq offered
    /\ inserter.pc = "vacant" => inserter.ticket \in offered
    /\ \A t \in offered : t.epoch <= chain.epoch

\* The channel on chain only moves forward.
LEMMA ChainForward ==
    ASSUME TypeOK, [Next]_vars
    PROVE  /\ chain.epoch <= chain'.epoch
           /\ chain'.epoch = chain.epoch => chain.ticket_index <= chain'.ticket_index
<1>t. chain.epoch \in Nat /\ chain.ticket_index \in Nat
  BY Constants DEF TypeOK, ChainType
<1>u. CASE UNCHANGED chain
  BY <1>t, <1>u
<1>1. CASE CloseChannel
  BY <1>1, <1>t DEF CloseChannel, TypeOK, ChainType
<1>2. CASE ReopenChannel
  BY <1>2, <1>t DEF ReopenChannel, Opened
<1>6. CASE FundChannel
  BY <1>6, <1>t DEF FundChannel, TypeOK, ChainType
<1>3. ASSUME NEW s \in Streams, RedeemTicket(s)
      PROVE  /\ chain.epoch <= chain'.epoch
             /\ chain'.epoch = chain.epoch => chain.ticket_index <= chain'.ticket_index
  <2>1. stream[s].ticket.index \in Nat
    BY Constants DEF TypeOK, StreamType
  <2>2. CASE /\ Redeemable(stream[s].ticket)
             /\ chain' = [chain EXCEPT !.ticket_index = stream[s].ticket.index + 1,
                                       !.stake = Minus(@, stream[s].ticket.amount)]
    BY <1>t, <2>1, <2>2 DEF Redeemable, Invalid, TypeOK, ChainType
  <2> QED
    BY <1>3, <1>u, <2>2 DEF RedeemTicket
<1>4. CASE \/ SyncStep \/ Restart \/ InsertStep \/ NeglectStep
           \/ \E n \in UpTo : NeglectTickets(n)
           \/ UNCHANGED vars
  BY <1>4, <1>u DEF SyncStep, SyncQueue, SyncMap, SyncFails, Restart, InsertStep, InsertOutdated,
     InsertIncomingTicket, DrainFails, InsertVacant, OpenQueue, InsertUnchanged, NeglectStep,
     NeglectNext, NeglectFails, PopFails, NeglectEnd, NeglectTickets, NeglectUnchanged, vars
<1>5. ASSUME NEW s \in Streams, RedeemStream(s) \/ Peek(s) \/ CompleteRedemption(s) \/ DropStream(s)
      PROVE  UNCHANGED chain
  BY <1>5 DEF RedeemStream, Peek, CompleteRedemption, PopFails, DropStream
<1> QED
  BY <1>1, <1>2, <1>3, <1>4, <1>5, <1>6, <1>u DEF Next, ChainStep, StreamStep

\* A spent ticket stays spent.
LEMMA SpentStable ==
    ASSUME TypeOK, TypeOK', [Next]_vars, NEW t \in Tickets, Spent(t)
    PROVE  Spent(t)'
<1>1. /\ chain.epoch \in Nat /\ chain.ticket_index \in Nat
      /\ chain'.epoch \in Nat /\ chain'.ticket_index \in Nat
      /\ t.epoch \in Nat /\ t.index \in Nat
  BY Constants DEF TypeOK, ChainType
<1> QED
  BY <1>1, ChainForward DEF Spent

\* The ticket a stream has an answer for is spent or was given up.
GivenUpInv ==
    \A s \in Streams :
        stream[s].pc = "settle" => Spent(stream[s].ticket) \/ stream[s].ticket \in forsaken

\* Every step leaves what was given up, and keeps GivenUpInv.
LEMMA GivenUpNext ==
    ASSUME TypeOK, TypeOK', GivenUpInv, [Next]_vars
    PROVE  GivenUpInv' /\ forsaken \subseteq forsaken'
<1>1. forsaken \subseteq forsaken'
  BY DEF Next, ChainStep, CloseChannel, ReopenChannel, FundChannel, SyncStep, SyncQueue, SyncMap,
     SyncFails, Restart, InsertStep, InsertOutdated, InsertIncomingTicket, DrainFails,
     InsertVacant, OpenQueue, InsertUnchanged, RedeemStream, StreamStep, Peek, RedeemTicket,
     CompleteRedemption, PopFails, DropStream, NeglectStep, NeglectNext, NeglectFails, NeglectEnd,
     NeglectTickets, NeglectUnchanged, ghostVars, vars
<1>2. ASSUME NEW r \in Streams, NEW u \in Tickets, stream'[r].pc = "settle", u = stream'[r].ticket
      PROVE  (stream[r].pc = "settle" /\ u = stream[r].ticket) \/ Spent(u)' \/ u \in forsaken'
  <2>u. CASE stream' = stream
    BY <1>2, <2>u
  <2>d. ASSUME NEW s \in Streams, DropRedeemState(s)
        PROVE  stream[r].pc = "settle" /\ stream'[r].ticket = stream[r].ticket
    BY <1>2, <2>d DEF DropRedeemState, IdleStream, TypeOK
  <2>1. CASE \/ ChainStep \/ SyncStep \/ InsertStep \/ NeglectStep
             \/ \E n \in UpTo : NeglectTickets(n)
             \/ UNCHANGED vars
    BY <2>1, <2>u DEF ChainStep, CloseChannel, ReopenChannel, FundChannel, SyncStep, SyncQueue,
       SyncMap, SyncFails, InsertStep, InsertOutdated, InsertIncomingTicket, DrainFails, InsertVacant,
       OpenQueue, InsertUnchanged, NeglectStep, NeglectNext, NeglectFails, NeglectEnd,
       NeglectTickets, NeglectUnchanged, vars
  <2>2. CASE Restart
    BY <1>2, <2>2 DEF Restart, IdleStream
  <2>3. ASSUME NEW s \in Streams, RedeemStream(s) \/ CompleteRedemption(s) \/ DropStream(s)
        PROVE  stream[r].pc = "settle" /\ stream'[r].ticket = stream[r].ticket
    <3>1. CASE DropRedeemState(s)
      BY <2>d, <3>1
    <3>2. CASE \E g : stream' = [stream EXCEPT ![s] = [IdleStream EXCEPT !.pc = "next", !.gen = g]]
      BY <1>2, <3>2 DEF IdleStream, TypeOK
    <3> QED
      BY <2>3, <3>1, <3>2 DEF RedeemStream, CompleteRedemption, PopFails, DropStream
  <2>4. ASSUME NEW s \in Streams, Peek(s)
        PROVE  \/ stream[r].pc = "settle" /\ stream'[r].ticket = stream[r].ticket
               \/ stream'[r].ticket \in forsaken'
    <3>1. CASE DropRedeemState(s)
      BY <2>d, <3>1
    <3>2. ASSUME NEW t \in table,
                 stream' = [stream EXCEPT
                    ![s].ticket = t,
                    ![s].pc = IF t.amount >= MinAmount THEN "await" ELSE "settle"],
                 forsaken' = IF t.amount >= MinAmount THEN forsaken ELSE forsaken \cup {t}
          PROVE  \/ stream[r].pc = "settle" /\ stream'[r].ticket = stream[r].ticket
                 \/ stream'[r].ticket \in forsaken'
      BY <1>2, <3>2 DEF TypeOK, StreamType
    <3> QED
      BY <2>4, <3>1, <3>2 DEF Peek
  <2>5. ASSUME NEW s \in Streams, RedeemTicket(s)
        PROVE  \/ stream[r].pc = "settle" /\ stream'[r].ticket = stream[r].ticket
               \/ Spent(u)' \/ u \in forsaken'
    <3> DEFINE t == stream[s].ticket
    <3>1. CASE DropRedeemState(s)
      BY <2>d, <3>1
    <3>2. ASSUME NEW x, stream' = [stream EXCEPT ![s].pc = "settle", ![s].result = x]
          PROVE  stream'[r].ticket = stream[r].ticket /\ (r # s => stream'[r] = stream[r])
      BY <3>2 DEF TypeOK, StreamType
    <3>3. CASE /\ Redeemable(t)
               /\ chain' = [chain EXCEPT !.ticket_index = t.index + 1, !.stake = Minus(@, t.amount)]
               /\ stream' = [stream EXCEPT ![s].pc = "settle", ![s].result = "Redeemed"]
      <4>1. t.index \in Nat /\ chain'.ticket_index = t.index + 1 /\ chain'.epoch = t.epoch
        BY <3>3, Constants DEF TypeOK, StreamType, ChainType, Redeemable, Invalid
      <4>2. stream'[r].ticket = stream[r].ticket /\ (r # s => stream'[r] = stream[r])
        BY <3>2, <3>3
      <4>3. CASE r = s
        <5>1. u = t
          BY <1>2, <4>2, <4>3
        <5>2. u.epoch = chain'.epoch /\ u.index < chain'.ticket_index
          BY <4>1, <5>1
        <5> QED
          BY <5>2 DEF Spent
      <4> QED
        BY <1>2, <4>2, <4>3
    <3>4. CASE /\ \E x \in RejectionsOf(t) :
                    stream' = [stream EXCEPT ![s].pc = "settle", ![s].result = x]
               /\ forsaken' = forsaken \cup {t}
      BY <1>2, <3>2, <3>4
    <3> QED
      BY <2>5, <3>1, <3>3, <3>4 DEF RedeemTicket
  <2> QED
    <3>1. ASSUME NEW s \in Streams, RedeemStream(s) \/ StreamStep(s) \/ DropStream(s)
          PROVE  (stream[r].pc = "settle" /\ u = stream[r].ticket) \/ Spent(u)' \/ u \in forsaken'
      <4>1. CASE RedeemStream(s) \/ CompleteRedemption(s) \/ DropStream(s)
        BY <1>2, <2>3, <4>1
      <4>2. CASE Peek(s)
        BY <1>2, <2>4, <4>2
      <4>3. CASE RedeemTicket(s)
        BY <1>2, <2>5, <4>3
      <4> QED
        BY <3>1, <4>1, <4>2, <4>3 DEF StreamStep
    <3> QED
      BY <2>1, <2>2, <3>1 DEF Next
<1>3. ASSUME NEW r \in Streams, NEW u \in Tickets, stream'[r].pc = "settle", u = stream'[r].ticket
      PROVE  Spent(u)' \/ u \in forsaken'
  <2>1. CASE stream[r].pc = "settle" /\ u = stream[r].ticket
    <3>1. Spent(u) \/ u \in forsaken
      BY <2>1 DEF GivenUpInv
    <3>2. Spent(u) => Spent(u)'
      BY SpentStable
    <3> QED
      BY <1>1, <3>1, <3>2
  <2> QED
    BY <1>2, <1>3, <2>1
<1>4. \A r \in Streams : stream'[r].ticket \in Tickets
  BY DEF TypeOK, StreamType
<1>5. ASSUME NEW r \in Streams, stream'[r].pc = "settle"
      PROVE  stream'[r].ticket.epoch < chain'.epoch
             \/ (stream'[r].ticket.epoch = chain'.epoch /\ stream'[r].ticket.index < chain'.ticket_index)
             \/ stream'[r].ticket \in forsaken'
  BY <1>3, <1>4, <1>5 DEF Spent
<1> QED
  BY <1>1, <1>5 DEF GivenUpInv, Spent

\* A stream settles only what is spent or was given up.
LEMMA GivenUpCorrect == Spec => [](TypeOK /\ GivenUpInv)
<1>1. Init => GivenUpInv
  BY DEF Init, GivenUpInv, IdleStream
<1>2. TypeOK /\ TypeOK' /\ GivenUpInv /\ [Next]_vars => GivenUpInv'
  BY GivenUpNext
<1> QED
  BY <1>1, <1>2, TypeCorrect, PTL DEF Spec

\* What an action does to the tickets: those that leave the queue are settled,
\* spent or given up, those newly inserted are in the queue or settled.
Keeps ==
    /\ settled \subseteq settled'
    /\ \A t \in table \ table' : t \in settled' \/ (StoreMayFail /\ (Spent(t) \/ t \in forsaken'))
    /\ inserted' \subseteq inserted \cup table' \cup settled'

\* Every step keeps the tickets.
LEMMA KeepsStep ==
    ASSUME DistinctIndices, TypeOK, QueueInv, OfferedInv, GivenUpInv, [Next]_vars
    PROVE  Keeps
<1>u. CASE UNCHANGED <<table, inserted, settled>>
  BY <1>u DEF Keeps
<1>1. CASE ChainStep \/ Restart \/ SyncMap \/ NeglectEnd \/ UNCHANGED vars
  BY <1>1, <1>u DEF ChainStep, CloseChannel, ReopenChannel, FundChannel, Restart, SyncMap, NeglectEnd,
     NeglectUnchanged, queueVars, ghostVars, vars
<1>2. CASE SyncQueue
  BY <1>2 DEF SyncQueue, Keeps, queueVars
<1>3. CASE SyncFails
  <2>1. ASSUME NEW t \in table \ table' PROVE StoreMayFail /\ Spent(t)
    <3>1. Unredeemable(t) /\ StoreMayFail
      BY <1>3 DEF SyncFails, Prefix
    <3>2. t.epoch <= chain.epoch
      BY DEF OfferedInv
    <3>3. t.epoch \in Nat /\ chain.epoch \in Nat
      BY Constants DEF TypeOK, ChainType
    <3> QED
      BY <3>1, <3>2, <3>3 DEF Unredeemable, Spent
  <2> QED
    BY <1>3, <2>1 DEF SyncFails, Keeps, ghostVars
<1>4. ASSUME NEW t \in Tickets, InsertOutdated(t) PROVE Keeps
  BY <1>4 DEF InsertOutdated, Keeps
<1>5. ASSUME NEW t \in Tickets, InsertVacant(t) PROVE Keeps
  BY <1>5 DEF InsertVacant, Keeps
<1>6. ASSUME NEW t \in Tickets, DrainFails(t) PROVE Keeps
  <2>1. ASSUME NEW u \in table \ table' PROVE StoreMayFail /\ Spent(u)
    <3>1. PICK h \in table : h.epoch < t.epoch
      BY <1>6 DEF DrainFails, Outdated
    <3>2. StoreMayFail /\ t.epoch <= chain.epoch
      BY <1>6 DEF DrainFails, Receivable
    <3>3. u.epoch = h.epoch
      BY DEF QueueInv, SingleEpoch
    <3>4. u.epoch \in Nat /\ t.epoch \in Nat /\ chain.epoch \in Nat
      BY Constants DEF TypeOK, ChainType
    <3> QED
      BY <3>1, <3>2, <3>3, <3>4 DEF Spent
  <2> QED
    BY <1>6, <2>1 DEF DrainFails, Keeps
<1>7. ASSUME NEW t \in Tickets, InsertIncomingTicket(t) PROVE Keeps
  <2>1. settled' = settled \cup Outdated(t)
    BY <1>7 DEF InsertIncomingTicket
  <2>2. \/ table' = Push(table \ Outdated(t), t) /\ inserted' = inserted \cup {t}
        \/ table' = table \ Outdated(t) /\ inserted' = inserted
    BY <1>7 DEF InsertIncomingTicket
  <2>3. Push(table \ Outdated(t), t) = (table \ Outdated(t)) \cup {t}
    BY DEF Push, DistinctIndices, TypeOK
  <2> QED
    BY <2>1, <2>2, <2>3 DEF Keeps
<1>8. CASE OpenQueue
  BY <1>8 DEF OpenQueue, Keeps
<1>9. ASSUME NEW s \in Streams, RedeemStream(s) \/ Peek(s) \/ RedeemTicket(s) \/ DropStream(s)
      PROVE  Keeps
  BY <1>9, <1>u DEF RedeemStream, Peek, RedeemTicket, DropStream, StreamUnchanged
<1>10. ASSUME NEW s \in Streams, CompleteRedemption(s) PROVE Keeps
  <2>1. table \ table' \subseteq {stream[s].ticket} /\ UNCHANGED <<inserted, forsaken>>
    BY <1>10 DEF CompleteRedemption, PopFails, Popped, StreamUnchanged
  <2>2. Spent(stream[s].ticket) \/ stream[s].ticket \in forsaken
    BY <1>10 DEF CompleteRedemption, PopFails, GivenUpInv
  <2>3. \/ settled' = settled \cup {stream[s].ticket}
        \/ settled' = settled /\ (StoreMayFail \/ table' = table)
    BY <1>10 DEF CompleteRedemption, PopFails
  <2> QED
    BY <2>1, <2>2, <2>3 DEF Keeps
<1>11. CASE NeglectNext
  BY <1>11 DEF NeglectNext, NeglectUnchanged, Keeps
<1>13. CASE NeglectFails
  BY <1>13 DEF NeglectFails, PopFails, NeglectUnchanged, Keeps
<1>12. ASSUME NEW n \in UpTo, NeglectTickets(n) PROVE Keeps
  BY <1>12, <1>u DEF NeglectTickets, NeglectUnchanged
<1> QED
  BY <1>1, <1>2, <1>3, <1>4, <1>5, <1>6, <1>7, <1>8, <1>9, <1>10, <1>11, <1>12, <1>13
     DEF Next, SyncStep, InsertStep, StreamStep, NeglectStep

\* OfferedInv is inductive, given types.
LEMMA OfferedNext ==
    ASSUME TypeOK, TypeOK', OfferedInv, [Next]_vars
    PROVE  OfferedInv'
<1>c. ASSUME NEW t \in Tickets, t.epoch <= chain.epoch PROVE t.epoch <= chain'.epoch
  <2>1. t.epoch \in Nat /\ chain.epoch \in Nat /\ chain'.epoch \in Nat
    BY Constants DEF TypeOK, ChainType
  <2> QED
    BY <1>c, <2>1, ChainForward
<1>u. ASSUME table' \subseteq table, inserter' = inserter \/ inserter'.pc # "vacant",
             UNCHANGED <<offered, inserted>>
      PROVE  OfferedInv'
  BY <1>c, <1>u DEF OfferedInv, TypeOK
<1>1. CASE ChainStep \/ Restart \/ SyncStep
  <2>1. table' \subseteq table /\ UNCHANGED <<offered, inserted>>
    BY <1>1 DEF ChainStep, CloseChannel, ReopenChannel, FundChannel, Restart, SyncStep, SyncQueue,
       SyncMap, SyncFails, queueVars, ghostVars
  <2>2. inserter' = inserter \/ inserter'.pc # "vacant"
    BY <1>1 DEF ChainStep, CloseChannel, ReopenChannel, FundChannel, Restart, SyncStep, SyncQueue,
       SyncMap, SyncFails, IdleInsert
  <2> QED
    BY <2>1, <2>2, <1>u
<1>2. CASE NeglectStep \/ \E n \in UpTo : NeglectTickets(n)
  BY <1>2, <1>u DEF NeglectStep, NeglectNext, NeglectFails, PopFails, NeglectEnd, NeglectTickets,
     NeglectUnchanged
<1>3. ASSUME NEW s \in Streams, RedeemStream(s) \/ StreamStep(s) \/ DropStream(s)
      PROVE  OfferedInv'
  BY <1>3, <1>u DEF RedeemStream, StreamStep, Peek, RedeemTicket, CompleteRedemption, PopFails,
     DropStream, StreamUnchanged
<1>4. ASSUME NEW t \in Tickets,
             InsertOutdated(t) \/ InsertIncomingTicket(t) \/ DrainFails(t) \/ InsertVacant(t)
      PROVE  OfferedInv'
  <2>1. /\ t.epoch <= chain.epoch /\ UNCHANGED chain
        /\ offered' = offered \cup {t}
    BY <1>4 DEF InsertOutdated, InsertIncomingTicket, DrainFails, InsertVacant, InsertUnchanged,
       Receivable
  <2>2. table' \subseteq table \cup {t} /\ inserted' \subseteq inserted \cup {t}
    BY <1>4 DEF InsertOutdated, InsertIncomingTicket, DrainFails, InsertVacant, Push
  <2>3. inserter' = inserter \/ inserter'.ticket = t
    BY <1>4 DEF InsertOutdated, InsertIncomingTicket, DrainFails, InsertVacant
  <2> QED
    BY <2>1, <2>2, <2>3 DEF OfferedInv
<1>5. CASE OpenQueue
  BY <1>5 DEF OpenQueue, OfferedInv, IdleInsert
<1>6. CASE UNCHANGED vars
  BY <1>6, <1>u DEF vars
<1> QED
  BY <1>1, <1>2, <1>3, <1>4, <1>5, <1>6 DEF Next, InsertStep

\* OfferedInv is an invariant.
LEMMA OfferedCorrect == Spec => []OfferedInv
<1>1. Init => OfferedInv
  BY DEF Init, OfferedInv, IdleInsert
<1>2. TypeOK /\ TypeOK' /\ OfferedInv /\ [Next]_vars => OfferedInv'
  BY OfferedNext
<1> QED
  BY <1>1, <1>2, TypeCorrect, PTL DEF Spec

\* When the indices of an epoch are distinct, every ticket whose insertion
\* succeeded is queued or was settled; only where the store failed it may also be
\* worthless, refused by the chain or the connector, found too low or reached by a
\* neglection, in every interleaving and over any number of restarts.
THEOREM NoTicketLostCorrect == ASSUME DistinctIndices PROVE Spec => []NoTicketLost
<1>1. Init => NoTicketLost
  BY DEF Init, NoTicketLost
<1>2. ASSUME TypeOK, TypeOK', QueueInv, OfferedInv, GivenUpInv, NoTicketLost, [Next]_vars
      PROVE  NoTicketLost'
  <2>1. ASSUME NEW t \in inserted'
        PROVE  t \in table' \cup settled' \/ (StoreMayFail /\ (Spent(t)' \/ t \in forsaken'))
    <3>1. Keeps /\ t \in Tickets
      BY <1>2, KeepsStep DEF TypeOK
    <3>2. (Spent(t) => Spent(t)') /\ forsaken \subseteq forsaken'
      BY <1>2, <3>1, SpentStable, GivenUpNext
    <3> QED
      BY <1>2, <3>1, <3>2 DEF Keeps, NoTicketLost
  <2> QED
    BY <2>1 DEF NoTicketLost
<1>3. /\ TypeOK /\ TypeOK' /\ QueueInv /\ OfferedInv /\ GivenUpInv /\ NoTicketLost /\ [Next]_vars
      => NoTicketLost'
  BY <1>2
<1> QED
  BY <1>1, <1>3, OfferedCorrect, QueueCorrect, GivenUpCorrect, PTL DEF Spec
-----------------------------------------------------------------------------
\* Types, the order of the queue, the redeem_lock and what was received: the
\* invariants everything below stands on.
Base == TypeOK /\ QueueInv /\ LockInv /\ OfferedInv

LEMMA BaseCorrect == ASSUME ~SyncConcurrently PROVE Spec => []Base
<1>1. TypeOK /\ QueueInv /\ LockInv /\ OfferedInv => Base
  BY DEF Base
<1> QED
  BY <1>1, QueueCorrect, LockCorrect, OfferedCorrect, PTL
-----------------------------------------------------------------------------
(* What redeem streams wait for. *)

\* A stream that waits for the chain or for the queue's lock.
Answering(s) == stream[s].pc \in {"await", "settle"}

\* The ticket a stream has taken was received, and comes before every other
\* ticket of its epoch in the queue: with tickets received in order nothing is
\* put in front of it while the stream waits.
AnsweredInv ==
    \A s \in Streams : Answering(s) =>
        /\ stream[s].ticket \in offered
        /\ \A u \in table \ {stream[s].ticket} :
            u.epoch = stream[s].ticket.epoch => stream[s].ticket.index < u.index

\* No stream takes another ticket, and the queue gets none.
LEMMA AnsweredStays ==
    ASSUME AnsweredInv, table' \subseteq table, offered \subseteq offered',
           \A s \in Streams : Answering(s)' =>
                Answering(s) /\ stream'[s].ticket = stream[s].ticket
    PROVE  AnsweredInv'
<1>1. ASSUME NEW s \in Streams, Answering(s)'
      PROVE  /\ stream'[s].ticket \in offered'
             /\ \A u \in table' \ {stream'[s].ticket} :
                  u.epoch = stream'[s].ticket.epoch => stream'[s].ticket.index < u.index
  BY <1>1 DEF AnsweredInv
<1> QED
  BY <1>1 DEF AnsweredInv, Answering

\* A stream that drops its RedeemState waits for nothing, the others as before.
LEMMA DropAnswers ==
    ASSUME TypeOK, NEW s \in Streams, DropRedeemState(s), NEW r \in Streams, Answering(r)'
    PROVE  Answering(r) /\ stream'[r] = stream[r]
BY DEF DropRedeemState, TypeOK, Answering, IdleStream

\* A ticket of a live stream's channel that is received in order comes after
\* the one the stream waits for.
LEMMA AnsweredInsert ==
    ASSUME Base, InOrder, AnsweredInv, NEW t \in Tickets, Receivable(t),
           table' \subseteq table \cup {t}, offered' = offered \cup {t}, UNCHANGED stream
    PROVE  AnsweredInv'
<1>1. ASSUME NEW s \in Streams, Answering(s), NEW u \in table' \ {stream[s].ticket},
             u.epoch = stream[s].ticket.epoch
      PROVE  stream[s].ticket.index < u.index
  BY <1>1 DEF AnsweredInv, Receivable
<1>2. \A s \in Streams : Answering(s) => stream[s].ticket \in offered'
  BY DEF AnsweredInv
<1> QED
  BY <1>1, <1>2 DEF AnsweredInv, Answering

\* AnsweredInv is inductive when tickets are received in order.
LEMMA AnsweredNext ==
    ASSUME Base, InOrder, AnsweredInv, [Next]_vars
    PROVE  AnsweredInv'
<1>b. TypeOK /\ LockInv /\ OfferedInv
  BY DEF Base
<1>u. ASSUME UNCHANGED stream, table' \subseteq table, offered \subseteq offered' PROVE AnsweredInv'
  BY <1>u, AnsweredStays DEF Answering
<1>1. CASE ChainStep \/ SyncStep \/ UNCHANGED vars
  BY <1>1, <1>u DEF ChainStep, CloseChannel, ReopenChannel, FundChannel, SyncStep, SyncQueue, SyncMap,
     SyncFails, queueVars, ghostVars, vars
<1>2. CASE Restart
  <2>1. \A s \in Streams : ~Answering(s)'
    BY <1>2 DEF Restart, Answering, IdleStream
  <2> QED
    BY <2>1 DEF AnsweredInv
<1>3. ASSUME NEW t \in Tickets,
             InsertOutdated(t) \/ InsertIncomingTicket(t) \/ DrainFails(t) \/ InsertVacant(t)
      PROVE  AnsweredInv'
  BY <1>3, AnsweredInsert DEF InsertOutdated, InsertIncomingTicket, DrainFails, InsertVacant,
     InsertUnchanged, Push
<1>4. CASE OpenQueue
  <2>1. current = 0 /\ UNCHANGED stream
    BY <1>4, <1>b DEF OpenQueue, LockInv
  <2>2. \A s \in Streams : stream[s].gen # 0
    BY <1>b, Constants DEF TypeOK, StreamType
  <2>3. \A s \in Streams : ~Answering(s)'
    BY <1>b, <2>1, <2>2 DEF LockInv, Answering
  <2> QED
    BY <2>3 DEF AnsweredInv
<1>5. ASSUME NEW s \in Streams, RedeemStream(s) \/ DropStream(s) PROVE AnsweredInv'
  <2>1. ASSUME NEW r \in Streams, Answering(r)' PROVE Answering(r) /\ stream'[r] = stream[r]
    BY <1>5, <1>b, <2>1, DropAnswers DEF RedeemStream, DropStream, Answering, IdleStream, TypeOK
  <2>2. UNCHANGED <<table, offered>>
    BY <1>5 DEF RedeemStream, DropStream, StreamUnchanged
  <2> QED
    BY <2>1, <2>2, AnsweredStays
<1>6. ASSUME NEW s \in Streams, Peek(s) PROVE AnsweredInv'
  <2>1. UNCHANGED <<table, offered>>
    BY <1>6 DEF Peek, StreamUnchanged
  <2>2. CASE DropRedeemState(s)
    BY <1>b, <2>1, <2>2, DropAnswers, AnsweredStays
  <2>3. ASSUME NEW h \in table, IsHead(h, table),
               stream' = [stream EXCEPT
                    ![s].ticket = h,
                    ![s].pc = IF h.amount >= MinAmount THEN "await" ELSE "settle"]
        PROVE  AnsweredInv'
    <3>1. stream'[s].ticket = h /\ \A r \in Streams \ {s} : stream'[r] = stream[r]
      BY <1>b, <2>3 DEF TypeOK, StreamType
    <3>2. h \in offered /\ \A u \in table \ {h} : u.epoch = h.epoch => h.index < u.index
      <4>1. \A u \in table : u.epoch \in Nat
        BY <1>b, Constants DEF TypeOK
      <4> QED
        BY <1>b, <2>3, <4>1 DEF IsHead, Before, OfferedInv
    <3> QED
      BY <2>1, <3>1, <3>2 DEF AnsweredInv, Answering
  <2> QED
    BY <1>6, <2>2, <2>3 DEF Peek
<1>7. ASSUME NEW s \in Streams, RedeemTicket(s) PROVE AnsweredInv'
  <2>1. UNCHANGED <<table, offered>> /\ Answering(s)
    BY <1>7 DEF RedeemTicket, StreamUnchanged, Answering
  <2>2. CASE DropRedeemState(s)
    BY <1>b, <2>1, <2>2, DropAnswers, AnsweredStays
  <2>3. ASSUME NEW x, stream' = [stream EXCEPT ![s].pc = "settle", ![s].result = x] PROVE AnsweredInv'
    <3>1. \A r \in Streams : stream'[r].ticket = stream[r].ticket
      BY <1>b, <2>3 DEF TypeOK, StreamType
    <3>2. \A r \in Streams \ {s} : stream'[r] = stream[r]
      BY <1>b, <2>3 DEF TypeOK
    <3>3. ASSUME NEW r \in Streams, Answering(r)' PROVE Answering(r)
      BY <2>1, <3>2, <3>3 DEF Answering
    <3> QED
      BY <2>1, <3>1, <3>3, AnsweredStays
  <2> QED
    BY <1>7, <2>2, <2>3 DEF RedeemTicket
<1>8. ASSUME NEW s \in Streams, CompleteRedemption(s) PROVE AnsweredInv'
  <2>1. table' \subseteq table /\ UNCHANGED offered
    BY <1>8 DEF CompleteRedemption, PopFails, StreamUnchanged
  <2>2. ASSUME NEW r \in Streams, Answering(r)' PROVE Answering(r) /\ stream'[r] = stream[r]
    <3>1. CASE DropRedeemState(s)
      BY <1>b, <2>2, <3>1, DropAnswers
    <3>2. CASE stream' = [stream EXCEPT ![s] =
                             [IdleStream EXCEPT !.pc = "next", !.gen = stream[s].gen]]
      BY <1>b, <2>2, <3>2 DEF Answering, IdleStream, TypeOK
    <3> QED
      BY <1>8, <3>1, <3>2 DEF CompleteRedemption, PopFails
  <2> QED
    BY <2>1, <2>2, AnsweredStays
<1>9. CASE NeglectStep \/ \E n \in UpTo : NeglectTickets(n)
  BY <1>9, <1>u DEF NeglectStep, NeglectNext, NeglectFails, PopFails, NeglectEnd, NeglectTickets,
     NeglectUnchanged
<1> QED
  BY <1>1, <1>2, <1>3, <1>4, <1>5, <1>6, <1>7, <1>8, <1>9 DEF Next, InsertStep, StreamStep

\* AnsweredInv is an invariant when tickets are received in order.
LEMMA AnsweredCorrect ==
    ASSUME InOrder, ~SyncConcurrently
    PROVE  Spec => []AnsweredInv
<1>1. Init => AnsweredInv
  BY DEF Init, AnsweredInv, Answering, IdleStream
<1>2. Base /\ AnsweredInv /\ [Next]_vars => AnsweredInv'
  BY AnsweredNext
<1> QED
  BY <1>1, <1>2, BaseCorrect, PTL DEF Spec

\* A ticket that was answered is the next one, or was removed by neglection in
\* the meantime (manager.rs:340), however many tickets are received, neglected
\* and drained and whatever the store does while the stream waits.
THEOREM AnsweredIsHeadOrGoneCorrect ==
    ASSUME InOrder, ~SyncConcurrently
    PROVE  Spec => []AnsweredIsHeadOrGone
<1>1. ASSUME Base, AnsweredInv, NEW s \in Streams,
             stream[s].pc = "settle", stream[s].ticket \in table
      PROVE  IsHead(stream[s].ticket, table)
  BY <1>1 DEF Base, QueueInv, SingleEpoch, AnsweredInv, Answering, IsHead, Before
<1>2. Base /\ AnsweredInv => AnsweredIsHeadOrGone
  BY <1>1 DEF AnsweredIsHeadOrGone
<1> QED
  BY <1>2, BaseCorrect, AnsweredCorrect, PTL
-----------------------------------------------------------------------------
(* What is found invalid. *)

\* A ticket that can still be given to the chain.
Pending(t) ==
    \/ t \in table
    \/ \E s \in Streams : stream[s].pc = "await" /\ stream[s].ticket = t
    \/ inserter.pc = "vacant" /\ inserter.ticket = t

\* The chain's index of the channel comes from a ticket of the manager that
\* landed, and of what can still be given to it only such tickets are behind;
\* a stream that was not answered has no answer.
LandedInv ==
    /\ landed \subseteq offered
    /\ chain.ticket_index # 0 =>
          \E u \in landed : u.epoch = chain.epoch /\ chain.ticket_index = u.index + 1
    /\ \A t \in Tickets :
          Pending(t) /\ t.epoch = chain.epoch /\ t.index < chain.ticket_index => t \in landed
    /\ \A s \in Streams : stream[s].pc # "settle" => stream[s].result = "TooLow"

\* A ticket received in order is not behind the chain's index.
LEMMA ReceivableAhead ==
    ASSUME TypeOK, InOrder, LandedInv, NEW t \in Tickets, Receivable(t), t.epoch = chain.epoch
    PROVE  ~(t.index < chain.ticket_index)
<1>1. t.index \in Nat /\ chain.ticket_index \in Nat /\ \A u \in landed : u.index \in Nat
  BY Constants DEF TypeOK, ChainType
<1>2. CASE chain.ticket_index = 0
  BY <1>1, <1>2
<1>3. CASE chain.ticket_index # 0
  <2>1. PICK u \in landed : u.epoch = chain.epoch /\ chain.ticket_index = u.index + 1
    BY <1>3 DEF LandedInv
  <2>2. u.index < t.index
    BY <2>1 DEF LandedInv, Receivable
  <2> QED
    BY <1>1, <2>1, <2>2
<1> QED
  BY <1>2, <1>3

\* Nothing lands, and what becomes pending was just received.
LEMMA LandedStays ==
    ASSUME TypeOK, InOrder, LandedInv, UNCHANGED <<chain, landed>>, offered \subseteq offered',
           \A t \in Tickets : Pending(t)' => Pending(t) \/ Receivable(t),
           \A s \in Streams : stream'[s].pc # "settle" => stream'[s].result = "TooLow"
    PROVE  LandedInv'
<1>1. ASSUME NEW t \in Tickets, Pending(t)', t.epoch = chain'.epoch, t.index < chain'.ticket_index
      PROVE  t \in landed'
  BY <1>1, ReceivableAhead DEF LandedInv
<1> QED
  BY <1>1 DEF LandedInv

\* A ticket lands: everything pending is that ticket or comes after it.
LEMMA LandedLands ==
    ASSUME Base, AnsweredInv, LandedInv, NEW s \in Streams, stream[s].pc = "await",
           Redeemable(stream[s].ticket),
           chain' = [chain EXCEPT !.ticket_index = stream[s].ticket.index + 1,
                                  !.stake = Minus(@, stream[s].ticket.amount)],
           landed' = landed \cup {stream[s].ticket},
           UNCHANGED <<table, inserter, offered>>,
           stream'[s].pc # "await", stream'[s].pc # "settle" => stream'[s].result = "TooLow",
           \A r \in Streams \ {s} : stream'[r] = stream[r]
    PROVE  LandedInv'
<1> DEFINE c == stream[s].ticket
<1>b. TypeOK /\ LockInv
  BY DEF Base
<1>1. /\ c \in Tickets /\ c.index \in Nat /\ c \in offered /\ c.epoch = chain.epoch
      /\ chain'.epoch = chain.epoch /\ chain'.ticket_index = c.index + 1
  BY <1>b, Constants DEF TypeOK, StreamType, ChainType, AnsweredInv, Answering, Redeemable,
     Invalid
<1>2. ASSUME NEW t \in Tickets, Pending(t)', t.epoch = chain.epoch, t.index < c.index + 1
      PROVE  t \in landed'
  <2>1. t.index \in Nat
    BY Constants
  <2>2. ASSUME NEW r \in Streams, stream'[r].pc = "await" PROVE FALSE
    <3>1. r # s
      BY <2>2
    <3>2. stream[r].pc = "await"
      BY <2>2, <3>1
    <3> QED
      BY <1>b, <3>1, <3>2 DEF LockInv, OneStream
  <2>3. inserter.pc # "vacant"
    <3>1. stream[s].gen = current /\ stream[s].gen \in Gens
      BY <1>b DEF LockInv, TypeOK, StreamType
    <3> QED
      BY <1>b, <3>1, Constants DEF LockInv
  <2>4. t \in table
    BY <1>2, <2>2, <2>3 DEF Pending
  <2>5. t # c => c.index < t.index
    BY <1>1, <1>2, <2>4 DEF AnsweredInv, Answering
  <2> QED
    BY <1>1, <1>2, <2>1, <2>5
<1>3. \A r \in Streams : stream'[r].pc # "settle" => stream'[r].result = "TooLow"
  BY DEF LandedInv
<1>4. landed' \subseteq offered'
  BY <1>1 DEF LandedInv
<1> QED
  BY <1>1, <1>2, <1>3, <1>4 DEF LandedInv

\* LandedInv is inductive when tickets are received in order.
LEMMA LandedNext ==
    ASSUME Base, InOrder, AnsweredInv, LandedInv, [Next]_vars
    PROVE  LandedInv'
<1>b. TypeOK /\ LockInv /\ OfferedInv
  BY DEF Base
<1>u. ASSUME UNCHANGED <<chain, landed, stream, inserter>>,
             table' \subseteq table, offered \subseteq offered'
      PROVE  LandedInv'
  BY <1>b, <1>u, LandedStays DEF Pending, LandedInv
<1>1. CASE CloseChannel \/ FundChannel
  <2>1. /\ chain'.epoch = chain.epoch /\ chain'.ticket_index = chain.ticket_index
        /\ UNCHANGED <<landed, offered, stream, inserter, table>>
    BY <1>1, <1>b DEF CloseChannel, FundChannel, TypeOK, ChainType, queueVars, ghostVars
  <2> QED
    BY <2>1 DEF LandedInv, Pending
<1>2. CASE ReopenChannel
  <2>1. chain'.ticket_index = 0 /\ UNCHANGED <<landed, offered, stream, inserter, table>>
    BY <1>2 DEF ReopenChannel, Opened, queueVars, ghostVars
  <2>2. \A t \in Tickets : ~(t.index < 0)
    BY Constants
  <2> QED
    BY <2>1, <2>2 DEF LandedInv
<1>3. CASE SyncStep \/ UNCHANGED vars \/ NeglectStep \/ \E n \in UpTo : NeglectTickets(n)
  BY <1>3, <1>u DEF SyncStep, SyncQueue, SyncMap, SyncFails, NeglectStep, NeglectNext,
     NeglectFails, PopFails, NeglectEnd, NeglectTickets, NeglectUnchanged, queueVars, ghostVars,
     vars
<1>4. CASE Restart
  <2>1. UNCHANGED <<chain, landed, offered, table>>
    BY <1>4 DEF Restart, queueVars
  <2>2. \A s \in Streams : stream'[s].pc = "idle" /\ stream'[s].result = "TooLow"
    BY <1>4 DEF Restart, IdleStream
  <2>3. inserter'.pc = "idle"
    BY <1>4 DEF Restart, IdleInsert
  <2> QED
    BY <1>b, <2>1, <2>2, <2>3, LandedStays DEF Pending
<1>5. ASSUME NEW t \in Tickets,
             InsertOutdated(t) \/ InsertIncomingTicket(t) \/ DrainFails(t) \/ InsertVacant(t)
      PROVE  LandedInv'
  <2>1. UNCHANGED <<chain, landed, stream>> /\ offered \subseteq offered' /\ Receivable(t)
    BY <1>5 DEF InsertOutdated, InsertIncomingTicket, DrainFails, InsertVacant, InsertUnchanged
  <2>2. table' \subseteq table \cup {t} /\ (inserter' = inserter \/ inserter'.ticket = t)
    BY <1>5 DEF InsertOutdated, InsertIncomingTicket, DrainFails, InsertVacant, Push
  <2>3. \A u \in Tickets : Pending(u)' => Pending(u) \/ Receivable(u)
    BY <2>1, <2>2 DEF Pending
  <2> QED
    BY <1>b, <2>1, <2>3, LandedStays DEF LandedInv
<1>6. CASE OpenQueue
  <2>1. UNCHANGED <<chain, landed, stream, offered>>
    BY <1>6 DEF OpenQueue
  <2>2. /\ inserter.pc = "vacant" /\ inserter'.pc = "idle"
        /\ table' \subseteq table \cup {inserter.ticket}
    BY <1>6 DEF OpenQueue, IdleInsert
  <2>3. \A u \in Tickets : Pending(u)' => Pending(u)
    BY <2>1, <2>2 DEF Pending
  <2> QED
    BY <1>b, <2>1, <2>3, LandedStays DEF LandedInv
<1>7. ASSUME NEW s \in Streams, RedeemStream(s) \/ DropStream(s) \/ Peek(s) \/ CompleteRedemption(s)
      PROVE  LandedInv'
  <2>1. UNCHANGED <<chain, landed, offered, inserter>> /\ table' \subseteq table
    BY <1>7 DEF RedeemStream, DropStream, Peek, CompleteRedemption, PopFails, StreamUnchanged
  <2>2. CASE DropRedeemState(s)
    <3>1. ASSUME NEW r \in Streams
          PROVE  \/ stream'[r] = stream[r]
                 \/ stream'[r].pc = "idle" /\ stream'[r].result = "TooLow"
      BY <1>b, <2>2 DEF DropRedeemState, TypeOK, IdleStream
    <3>2. \A t \in Tickets : Pending(t)' => Pending(t)
      BY <2>1, <3>1 DEF Pending
    <3>3. \A r \in Streams : stream'[r].pc # "settle" => stream'[r].result = "TooLow"
      BY <3>1 DEF LandedInv
    <3> QED
      BY <1>b, <2>1, <3>2, <3>3, LandedStays
  <2>3. ASSUME NEW x, x.pc = "next", x.result = "TooLow", stream' = [stream EXCEPT ![s] = x]
        PROVE  LandedInv'
    <3>1. ASSUME NEW r \in Streams PROVE stream'[r] = stream[r] \/ stream'[r] = x
      BY <1>b, <2>3 DEF TypeOK
    <3>2. \A t \in Tickets : Pending(t)' => Pending(t)
      BY <2>1, <2>3, <3>1 DEF Pending
    <3>3. \A r \in Streams : stream'[r].pc # "settle" => stream'[r].result = "TooLow"
      BY <2>3, <3>1 DEF LandedInv
    <3> QED
      BY <1>b, <2>1, <3>2, <3>3, LandedStays
  <2>4. ASSUME NEW g, stream' = [stream EXCEPT ![s] = [IdleStream EXCEPT !.pc = "next", !.gen = g]]
        PROVE  LandedInv'
    <3> DEFINE x == [IdleStream EXCEPT !.pc = "next", !.gen = g]
    <3>1. x.pc = "next" /\ x.result = "TooLow"
      BY DEF IdleStream
    <3> HIDE DEF x
    <3> QED
      BY <2>3, <2>4, <3>1 DEF x
  <2>5. ASSUME NEW h \in table, stream[s].pc = "next",
               stream' = [stream EXCEPT
                    ![s].ticket = h,
                    ![s].pc = IF h.amount >= MinAmount THEN "await" ELSE "settle"]
        PROVE  LandedInv'
    <3>1. /\ stream'[s].ticket = h /\ stream'[s].result = stream[s].result
          /\ \A r \in Streams \ {s} : stream'[r] = stream[r]
      BY <1>b, <2>5 DEF TypeOK, StreamType
    <3>2. \A t \in Tickets : Pending(t)' => Pending(t)
      BY <2>1, <2>5, <3>1 DEF Pending
    <3>3. \A r \in Streams : stream'[r].pc # "settle" => stream'[r].result = "TooLow"
      BY <2>5, <3>1 DEF LandedInv
    <3> QED
      BY <1>b, <2>1, <3>2, <3>3, LandedStays
  <2> QED
    BY <1>7, <2>2, <2>4, <2>5 DEF RedeemStream, DropStream, Peek, CompleteRedemption, PopFails
<1>8. ASSUME NEW s \in Streams, RedeemTicket(s) PROVE LandedInv'
  <2>1. UNCHANGED <<table, offered, inserter>> /\ stream[s].pc = "await"
    BY <1>8 DEF RedeemTicket, StreamUnchanged
  <2>2. /\ \A r \in Streams \ {s} : stream'[r] = stream[r]
        /\ stream'[s].pc # "await"
        /\ stream'[s].pc # "settle" => stream'[s].result = "TooLow"
    <3>1. CASE DropRedeemState(s)
      BY <1>b, <3>1 DEF DropRedeemState, TypeOK, IdleStream
    <3>2. ASSUME NEW x, stream' = [stream EXCEPT ![s].pc = "settle", ![s].result = x]
          PROVE  (\A r \in Streams \ {s} : stream'[r] = stream[r]) /\ stream'[s].pc = "settle"
      BY <1>b, <3>2 DEF TypeOK, StreamType
    <3> QED
      BY <1>8, <3>1, <3>2 DEF RedeemTicket
  <2>3. CASE UNCHANGED <<chain, landed>>
    <3>1. \A t \in Tickets : Pending(t)' => Pending(t)
      BY <2>1, <2>2 DEF Pending
    <3>2. \A r \in Streams : stream'[r].pc # "settle" => stream'[r].result = "TooLow"
      BY <2>2 DEF LandedInv
    <3> QED
      BY <1>b, <2>1, <2>3, <3>1, <3>2, LandedStays
  <2> QED
    BY <1>8, <2>1, <2>2, <2>3, LandedLands DEF RedeemTicket
<1> QED
  BY <1>1, <1>2, <1>3, <1>4, <1>5, <1>6, <1>7, <1>8 DEF Next, ChainStep, InsertStep, StreamStep

\* LandedInv is an invariant when tickets are received in order.
LEMMA LandedCorrect ==
    ASSUME InOrder, ~SyncConcurrently
    PROVE  Spec => []LandedInv
<1>1. Init => LandedInv
  <2>1. ASSUME Init PROVE LandedInv
    <3>1. chain.ticket_index = 0 /\ landed = {} /\ table = {} /\ inserter.pc = "idle"
      BY <2>1 DEF Init, Opened, IdleInsert
    <3>2. \A s \in Streams : stream[s].pc = "idle" /\ stream[s].result = "TooLow"
      BY <2>1 DEF Init, IdleStream
    <3>3. \A t \in Tickets : ~Pending(t)
      BY <3>1, <3>2 DEF Pending
    <3> QED
      BY <3>1, <3>2, <3>3 DEF LandedInv
  <2> QED
    BY <2>1
<1>2. Base /\ InOrder /\ AnsweredInv /\ LandedInv /\ [Next]_vars => LandedInv'
  BY LandedNext
<1> QED
  BY <1>1, <1>2, BaseCorrect, AnsweredCorrect, PTL DEF Spec

\* Why a ticket may be invalid.
Over(t) == t \in landed \/ t.epoch < chain.epoch \/ chain.status = "Closed"

\* Once a received ticket is over, it stays so: a channel that is opened again
\* has a new epoch.
LEMMA OverStable ==
    ASSUME Base, [Next]_vars, NEW t \in offered, Over(t)
    PROVE  Over(t)'
<1>b. TypeOK /\ OfferedInv
  BY DEF Base
<1>t. t.epoch <= chain.epoch /\ t.epoch \in Nat /\ chain.epoch \in Nat
  BY <1>b, Constants DEF OfferedInv, TypeOK, ChainType
<1>u. CASE UNCHANGED chain /\ landed \subseteq landed'
  BY <1>u DEF Over
<1>1. CASE CloseChannel \/ FundChannel
  <2>1. /\ chain'.epoch = chain.epoch /\ UNCHANGED landed
        /\ chain'.status = chain.status \/ chain'.status = "Closed"
    BY <1>1, <1>b DEF CloseChannel, FundChannel, ghostVars, TypeOK, ChainType
  <2> QED
    BY <2>1 DEF Over
<1>2. CASE ReopenChannel
  <2>1. chain'.epoch = chain.epoch + 1
    BY <1>2 DEF ReopenChannel, Opened
  <2> QED
    BY <1>t, <2>1 DEF Over
<1>3. ASSUME NEW s \in Streams, RedeemTicket(s) PROVE Over(t)'
  <2>1. landed \subseteq landed' /\ chain'.epoch = chain.epoch /\ chain'.status = chain.status
    BY <1>3, <1>b DEF RedeemTicket, TypeOK, ChainType
  <2> QED
    BY <2>1 DEF Over
<1>4. CASE \/ SyncStep \/ Restart \/ InsertStep \/ NeglectStep
           \/ \E n \in UpTo : NeglectTickets(n)
           \/ UNCHANGED vars
  BY <1>4, <1>u DEF SyncStep, SyncQueue, SyncMap, SyncFails, Restart, InsertStep, InsertOutdated,
     InsertIncomingTicket, DrainFails, InsertVacant, OpenQueue, InsertUnchanged, NeglectStep,
     NeglectNext, NeglectFails, PopFails, NeglectEnd, NeglectTickets, NeglectUnchanged, ghostVars,
     vars
<1>5. ASSUME NEW s \in Streams, RedeemStream(s) \/ Peek(s) \/ CompleteRedemption(s) \/ DropStream(s)
      PROVE  UNCHANGED <<chain, landed>>
  BY <1>5 DEF RedeemStream, Peek, CompleteRedemption, PopFails, DropStream
<1> QED
  BY <1>1, <1>2, <1>3, <1>4, <1>5, <1>u DEF Next, ChainStep, StreamStep

\* A stream has the answer "Invalid" because its ticket has just been found
\* invalid, or had it before.
LEMMA InvalidStep ==
    ASSUME TypeOK, LandedInv, [Next]_vars, NEW s \in Streams,
           stream'[s].pc = "settle", stream'[s].result = "Invalid"
    PROVE  /\ stream'[s].ticket = stream[s].ticket
           /\ \/ stream[s].pc = "settle" /\ stream[s].result = "Invalid"
              \/ /\ stream[s].pc = "await" /\ Invalid(stream[s].ticket)
                 /\ UNCHANGED <<chain, landed>>
<1>u. CASE stream'[s] = stream[s]
  BY <1>u
<1>1. CASE ChainStep \/ SyncStep \/ NeglectStep \/ InsertStep \/ UNCHANGED vars
           \/ \E n \in UpTo : NeglectTickets(n)
  BY <1>1, <1>u DEF ChainStep, CloseChannel, ReopenChannel, FundChannel, SyncStep, SyncQueue,
     SyncMap, SyncFails, NeglectStep, NeglectNext, NeglectFails, PopFails, NeglectEnd,
     NeglectTickets, NeglectUnchanged, InsertStep, InsertOutdated, InsertIncomingTicket,
     DrainFails, InsertVacant, OpenQueue, InsertUnchanged, vars
<1>2. CASE Restart
  BY <1>2 DEF Restart, IdleStream
<1>3. ASSUME NEW r \in Streams, DropRedeemState(r) PROVE stream'[s] = stream[s]
  BY <1>3 DEF DropRedeemState, IdleStream, TypeOK
<1>4. ASSUME NEW r \in Streams, NEW g,
             stream' = [stream EXCEPT ![r] = [IdleStream EXCEPT !.pc = "next", !.gen = g]]
      PROVE  stream'[s] = stream[s]
  BY <1>4 DEF IdleStream, TypeOK
<1>5. ASSUME NEW r \in Streams, Peek(r) PROVE stream'[s] = stream[s]
  <2>1. ASSUME NEW h, NEW p, stream[r].pc = "next",
               stream' = [stream EXCEPT ![r].ticket = h, ![r].pc = p]
        PROVE  stream'[s] = stream[s]
    <3>1. r # s => stream'[s] = stream[s]
      BY <2>1 DEF TypeOK
    <3>2. stream'[r].result = stream[r].result
      BY <2>1 DEF TypeOK, StreamType
    <3>3. stream[r].result = "TooLow"
      BY <2>1 DEF LandedInv
    <3> QED
      BY <3>1, <3>2, <3>3
  <2> QED
    BY <1>3, <1>5, <2>1 DEF Peek
<1>6. ASSUME NEW r \in Streams, RedeemTicket(r), stream'[s] # stream[s]
      PROVE  /\ stream'[s].ticket = stream[s].ticket
             /\ stream[s].pc = "await" /\ Invalid(stream[s].ticket)
             /\ UNCHANGED <<chain, landed>>
  <2>1. ~DropRedeemState(r) /\ stream[r].pc = "await"
    BY <1>3, <1>6 DEF RedeemTicket
  <2>2. ASSUME NEW x, stream' = [stream EXCEPT ![r].pc = "settle", ![r].result = x]
        PROVE  r = s /\ x = "Invalid" /\ stream'[s].ticket = stream[s].ticket
    <3>1. r = s
      BY <1>6, <2>2 DEF TypeOK
    <3>2. stream'[s].result = x /\ stream'[s].ticket = stream[s].ticket
      BY <2>2, <3>1 DEF TypeOK, StreamType
    <3> QED
      BY <3>1, <3>2
  <2>3. \/ stream' = [stream EXCEPT ![r].pc = "settle", ![r].result = "Redeemed"]
        \/ \E x \in RejectionsOf(stream[r].ticket) :
                /\ stream' = [stream EXCEPT ![r].pc = "settle", ![r].result = x]
                /\ UNCHANGED <<chain, landed>>
    BY <1>6, <2>1 DEF RedeemTicket
  <2>4. "Redeemed" # "Invalid"
    OBVIOUS
  <2>5. "Invalid" \in RejectionsOf(stream[r].ticket) => Invalid(stream[r].ticket)
    BY DEF RejectionsOf
  <2> QED
    BY <2>1, <2>2, <2>3, <2>4, <2>5
<1>7. ASSUME NEW r \in Streams, RedeemStream(r) \/ CompleteRedemption(r) \/ DropStream(r)
      PROVE  stream'[s] = stream[s]
  BY <1>3, <1>4, <1>7 DEF RedeemStream, CompleteRedemption, PopFails, DropStream
<1> QED
  BY <1>u, <1>1, <1>2, <1>5, <1>6, <1>7 DEF Next, StreamStep

\* A ticket is found invalid for its index or its epoch (Invalid: checks of the
\* connector and the contract) only when it was redeemed before or when the
\* channel of its epoch is over: redeeming in order, the manager never makes a
\* queued ticket worthless, whatever is refused for its stake or its transaction.
THEOREM InvalidOnlyIfSpentCorrect ==
    ASSUME InOrder, ~SyncConcurrently
    PROVE  Spec => []InvalidOnlyIfSpent
<1> DEFINE Inv == \A s \in Streams : stream[s].pc = "settle" /\ stream[s].result = "Invalid" =>
                      Over(stream[s].ticket)
<1>1. Init => Inv
  BY DEF Init, IdleStream
<1>2. ASSUME Base, AnsweredInv, LandedInv, Inv, [Next]_vars PROVE Inv'
  <2>1. ASSUME NEW s \in Streams, stream'[s].pc = "settle", stream'[s].result = "Invalid",
               NEW t, t = stream[s].ticket
        PROVE  Over(t)'
    <3>b. TypeOK /\ OfferedInv
      BY <1>2 DEF Base
    <3>1. Answering(s) /\ t \in offered
      BY <1>2, <2>1, <3>b, InvalidStep DEF Answering, AnsweredInv
    <3>2. CASE stream[s].pc = "settle" /\ stream[s].result = "Invalid"
      BY <1>2, <2>1, <3>1, <3>2, OverStable
    <3>3. CASE stream[s].pc = "await" /\ Invalid(t)
      <4>1. t \in Tickets /\ t.epoch \in Nat /\ t.index \in Nat
        BY <2>1, <3>b, Constants DEF TypeOK, StreamType
      <4>2. t.epoch <= chain.epoch /\ chain.epoch \in Nat /\ chain.ticket_index \in Nat
            /\ chain.status \in {"Open", "Closed"}
        BY <3>1, <3>b, Constants DEF OfferedInv, TypeOK, ChainType
      <4>3. t.epoch = chain.epoch /\ t.index < chain.ticket_index => t \in landed
        BY <1>2, <2>1, <3>3, <4>1 DEF LandedInv, Pending
      <4>4. Over(t)
        BY <3>3, <4>1, <4>2, <4>3 DEF Invalid, Over
      <4> QED
        BY <1>2, <3>1, <4>4, OverStable
    <3> QED
      BY <1>2, <2>1, <3>2, <3>3, <3>b, InvalidStep
  <2>2. ASSUME NEW s \in Streams, stream'[s].pc = "settle", stream'[s].result = "Invalid"
        PROVE  stream'[s].ticket \in landed' \/ stream'[s].ticket.epoch < chain'.epoch
               \/ chain'.status = "Closed"
    <3>1. stream'[s].ticket = stream[s].ticket
      BY <1>2, <2>2, InvalidStep DEF Base
    <3>2. PICK t : t = stream[s].ticket
      OBVIOUS
    <3>3. Over(t)'
      BY <2>1, <2>2, <3>2
    <3> QED
      BY <3>1, <3>2, <3>3 DEF Over
  <2> QED
    BY <2>2 DEF Over
<1>3. Base /\ AnsweredInv /\ LandedInv /\ Inv /\ [Next]_vars => Inv'
  BY <1>2
<1>4. Inv => InvalidOnlyIfSpent
  BY DEF InvalidOnlyIfSpent, Over
<1> QED
  BY <1>1, <1>3, <1>4, BaseCorrect, AnsweredCorrect, LandedCorrect, PTL DEF Spec

\* A sync leaves only tickets that the chain would still redeem: the epoch of
\* the channel's queue is over as a whole or not at all, and in it what may
\* leave comes first.
THEOREM SyncLeavesRedeemableCorrect == Spec => SyncLeavesRedeemable
<1> DEFINE Left == syncer.pc = "idle" /\ syncer'.pc = "insert" =>
                      \A t \in table' : t.epoch = chain.epoch /\ t.index >= chain.ticket_index
<1>1. ASSUME TypeOK, QueueInv, OfferedInv, [Next]_vars PROVE [Left]_vars
  <2> SUFFICES ASSUME syncer.pc = "idle", syncer'.pc = "insert", NEW t \in table'
               PROVE  t.epoch = chain.epoch /\ t.index >= chain.ticket_index
    OBVIOUS
  <2>1. CASE SyncQueue
    <3> DEFINE S == {u \in table : Unredeemable(u)}
    <3>1. t \in table \ Prefix(table, S)
      BY <2>1 DEF SyncQueue
    <3>2. PICK u \in table : (u = t \/ Before(u, t)) /\ u \notin S
      BY <3>1 DEF Prefix
    <3>3. ~Unredeemable(u) /\ u.epoch = t.epoch /\ u.epoch <= chain.epoch
      BY <1>1, <3>1, <3>2 DEF QueueInv, SingleEpoch, OfferedInv
    <3>4. /\ u.epoch \in Nat /\ u.index \in Nat /\ t.index \in Nat /\ t.epoch \in Nat
          /\ chain.epoch \in Nat /\ chain.ticket_index \in Nat
      BY <1>1, <3>1, Constants DEF TypeOK, ChainType
    <3> QED
      BY <3>2, <3>3, <3>4 DEF Unredeemable, Before
  <2>2. CASE SyncMap \/ Restart \/ OpenQueue \/ UNCHANGED syncer
    BY <2>2 DEF SyncMap, Restart, OpenQueue, IdleSync
  <2>3. CASE ~SyncQueue /\ ~(SyncMap \/ Restart \/ OpenQueue)
    <3>1. UNCHANGED syncer
      BY <1>1, <2>3 DEF Next, ChainStep, CloseChannel, ReopenChannel, FundChannel, SyncStep,
         SyncFails, InsertStep, InsertOutdated, InsertIncomingTicket, DrainFails, InsertVacant,
         InsertUnchanged, StreamStep, RedeemStream, Peek, RedeemTicket, CompleteRedemption,
         DropStream, StreamUnchanged, NeglectStep, NeglectNext, NeglectFails, PopFails,
         NeglectEnd, NeglectTickets, NeglectUnchanged, vars
    <3> QED
      BY <2>2, <3>1
  <2> QED
    BY <2>1, <2>2, <2>3
<1>2. TypeOK /\ QueueInv /\ OfferedInv /\ [Next]_vars => [Left]_vars
  BY <1>1
<1> QED
  BY <1>2, QueueCorrect, OfferedCorrect, PTL DEF Spec, SyncLeavesRedeemable
-----------------------------------------------------------------------------
(* The values of tickets. *)

\* What can be taken out of a sum is exactly what is left.
LEMMA MinusExact == \A a, b \in Nat : Minus(a + b, a) = b /\ Minus(a + b, b) = a
BY DEF Minus

\* Popping tickets leaves the values of the others in the cache.
LEMMA UncachedValue ==
    ASSUME NEW q \in SUBSET Tickets, NEW r \in SUBSET q
    PROVE  Uncached(ValueOf(q), r) = ValueOf(q \ r)
<1>1. ASSUME NEW e \in Epochs PROVE Minus(ValueOf(q)[e], ValueOf(r)[e]) = ValueOf(q \ r)[e]
  <2> DEFINE qe == {t \in q : t.epoch = e}
             re == {t \in r : t.epoch = e}
             ve == {t \in q \ r : t.epoch = e}
  <2>1. qe \in SUBSET Tickets /\ re \in SUBSET qe /\ ve = qe \ re
    OBVIOUS
  <2>2. ValueOf(q)[e] = SumOf(qe) /\ ValueOf(r)[e] = SumOf(re) /\ ValueOf(q \ r)[e] = SumOf(ve)
    BY DEF ValueOf
  <2> HIDE DEF qe, re, ve
  <2>3. SumOf(qe) = SumOf(re) + SumOf(ve)
    BY <2>1, SumSplit
  <2>4. SumOf(re) \in Nat /\ SumOf(ve) \in Nat
    <3>1. re \in SUBSET Tickets /\ ve \in SUBSET Tickets
      BY <2>1
    <3> QED
      BY <3>1, SumType
  <2> QED
    BY <2>2, <2>3, <2>4, MinusExact
<1>2. ValueOf(q \ r) = [e \in Epochs |-> ValueOf(q \ r)[e]]
  BY DEF ValueOf
<1>3. Uncached(ValueOf(q), r) = [e \in Epochs |-> ValueOf(q \ r)[e]]
  BY <1>1 DEF Uncached
<1> QED
  BY <1>2, <1>3

\* Pushing a ticket adds its amount to the value of its epoch.
LEMMA ValueAdd ==
    ASSUME NEW q \in SUBSET Tickets, NEW t \in Tickets \ q
    PROVE  [ValueOf(q) EXCEPT ![t.epoch] = @ + t.amount] = ValueOf(q \cup {t})
<1> DEFINE v == [ValueOf(q) EXCEPT ![t.epoch] = @ + t.amount]
<1>0. ValueOf(q) \in [Epochs -> Nat] /\ t.epoch \in Epochs
  BY Values, Constants
<1>1. ASSUME NEW e \in Epochs PROVE v[e] = ValueOf(q \cup {t})[e]
  <2> DEFINE qe == {u \in q : u.epoch = e}
             re == {u \in q \cup {t} : u.epoch = e}
  <2>1. ValueOf(q)[e] = SumOf(qe) /\ ValueOf(q \cup {t})[e] = SumOf(re)
    BY DEF ValueOf
  <2>2. CASE e = t.epoch
    <3>1. re \in SUBSET Tickets /\ t \in re /\ qe = re \ {t}
      BY <2>2
    <3>2. SumOf(re) = t.amount + SumOf(qe)
      <4> HIDE DEF qe, re
      <4> QED
        BY <3>1, SumTake
    <3>3. SumOf(qe) \in Nat /\ t.amount \in Nat
      <4>1. qe \in SUBSET Tickets
        OBVIOUS
      <4> HIDE DEF qe
      <4> QED
        BY <4>1, SumType, Constants
    <3>4. v[e] = ValueOf(q)[e] + t.amount
      BY <1>0, <2>2
    <3> HIDE DEF v, qe, re
    <3> QED
      BY <2>1, <3>2, <3>3, <3>4
  <2>3. CASE e # t.epoch
    <3>1. re = qe
      BY <2>3
    <3>2. v[e] = ValueOf(q)[e]
      BY <1>0, <2>3
    <3> HIDE DEF v, qe, re
    <3> QED
      BY <2>1, <3>1, <3>2
  <2> QED
    BY <2>2, <2>3
<1>2. v = [e \in Epochs |-> v[e]]
  BY <1>0
<1>3. ValueOf(q \cup {t}) = [e \in Epochs |-> ValueOf(q \cup {t})[e]]
  BY DEF ValueOf
<1> HIDE DEF v
<1>4. v = ValueOf(q \cup {t})
  BY <1>1, <1>2, <1>3
<1> QED
  BY <1>4 DEF v

\* A set of tickets a channel's queue can be: of one epoch, indices distinct.
IsQueue(q) == \A t, u \in q : t.epoch = u.epoch /\ (t.index = u.index => t = u)

\* All the value of a queue is of the epoch of its next ticket.
LEMMA HeadValue ==
    ASSUME NEW q \in SUBSET Tickets, IsQueue(q)
    PROVE  /\ \A t \in q : HeadEpoch(q) = t.epoch
           /\ q = {} => HeadEpoch(q) = 0
           /\ q # {} => HeadEpoch(q) \in Epochs /\ ValueOf(q)[HeadEpoch(q)] = SumOf(q)
<1>1. CASE q = {}
  BY <1>1 DEF HeadEpoch, IsHead
<1>2. CASE q # {}
  <2>1. \E t \in q : IsHead(t, q)
    BY <1>2, HeadIn DEF IsQueue
  <2>2. PICK h \in q : HeadEpoch(q) = h.epoch
    BY <2>1 DEF HeadEpoch
  <2>3. \A t \in q : HeadEpoch(q) = t.epoch
    BY <2>2 DEF IsQueue
  <2>4. {t \in q : t.epoch = HeadEpoch(q)} = q
    BY <2>3
  <2>5. HeadEpoch(q) \in Epochs
    BY <2>2, Constants
  <2>6. ValueOf(q)[HeadEpoch(q)] = SumOf({t \in q : t.epoch = HeadEpoch(q)})
    BY <2>5 DEF ValueOf
  <2> QED
    BY <1>2, <2>3, <2>4, <2>5, <2>6
<1> QED
  BY <1>1, <1>2

\* The queue of the channel is one.
LEMMA TableIsQueue ==
    /\ TypeOK /\ QueueInv => table \in SUBSET Tickets /\ IsQueue(table)
    /\ TypeOK' /\ QueueInv' => table' \in SUBSET Tickets /\ IsQueue(table')
BY DEF TypeOK, QueueInv, SingleEpoch, KeysDistinct, IsQueue

\* A ticket received in order takes nobody's place.
LEMMA PushReceived ==
    ASSUME Base, InOrder, NEW t \in Tickets, Receivable(t), NEW q \in SUBSET table
    PROVE  Push(q, t) = q \cup {t} /\ t \notin q
<1>1. table \subseteq offered /\ \A u \in table : u.index \in Nat
  BY Constants DEF Base, OfferedInv, TypeOK
<1>2. \A u \in q : ~(u.epoch = t.epoch /\ u.index = t.index) /\ u # t
  BY <1>1, Constants DEF Receivable
<1> QED
  BY <1>2 DEF Push
-----------------------------------------------------------------------------
(* Who works on the queue of the map. *)

\* The map has an entry, and operations run, only after the first sync; the
\* neglecting one runs on that entry; and the values a sync has loaded stay
\* those of the tickets until they are put into the map.
SyncInv ==
    /\ current # 0 => synced
    /\ inserter.pc = "vacant" => synced
    /\ neglector.pc = "run" => synced /\ current # 0 /\ neglector.gen = current
    /\ syncer.pc = "insert" =>
          syncer.cache = ValueOf(table) /\ syncer.epoch = HeadEpoch(table)

\* A step that starts nothing on the queue, when the manager is in use.
LEMMA SyncStays ==
    ASSUME SyncInv, LockInv, LockInv', synced, synced',
           inserter'.pc = "vacant" => synced',
           current # 0 => UNCHANGED current,
           neglector' = neglector \/ neglector'.pc # "run"
    PROVE  SyncInv'
<1>1. syncer'.pc = "idle"
  BY DEF LockInv
<1> QED
  BY <1>1 DEF SyncInv

\* SyncInv is inductive.
LEMMA SyncInvNext ==
    ASSUME Base, Base', ~SyncConcurrently, SyncInv, [Next]_vars
    PROVE  SyncInv'
<1>b. TypeOK /\ LockInv /\ LockInv'
  BY DEF Base
<1>t. table' \in SUBSET Tickets
  BY DEF Base, TypeOK
<1>u. CASE UNCHANGED <<current, synced, inserter, neglector, syncer, table>>
  BY <1>u DEF SyncInv
<1>1. CASE ChainStep \/ UNCHANGED vars
  BY <1>1, <1>u DEF ChainStep, CloseChannel, ReopenChannel, FundChannel, queueVars, handleVars, vars
<1>2. CASE SyncQueue
  <2>1. ~synced /\ UNCHANGED <<current, inserter, neglector>>
    BY <1>2 DEF SyncQueue, handleVars
  <2>2. syncer'.pc = "insert" =>
            syncer'.cache = ValueOf(table') /\ syncer'.epoch = HeadEpoch(table')
    <3>1. CASE syncer' = [pc |-> "insert", cache |-> ValueOf(table'), epoch |-> HeadEpoch(table')]
      BY <3>1
    <3>2. CASE syncer' = [syncer EXCEPT !.pc = "remove"] \/ syncer' = syncer
      BY <1>2, <1>b, <3>2 DEF SyncQueue, TypeOK, SyncType
    <3> QED
      BY <1>2, <3>1, <3>2 DEF SyncQueue
  <2> QED
    BY <2>1, <2>2 DEF SyncInv
<1>3. CASE SyncMap
  <2>1. ~synced /\ synced' /\ UNCHANGED <<inserter, neglector>> /\ syncer'.pc = "idle"
    BY <1>3, <1>b DEF SyncMap, LockInv, IdleSync
  <2> QED
    BY <2>1 DEF SyncInv
<1>4. CASE SyncFails
  <2>1. UNCHANGED <<current, synced, inserter, neglector, syncer>> /\ syncer.pc = "idle"
    BY <1>4 DEF SyncFails, handleVars
  <2> QED
    BY <2>1 DEF SyncInv
<1>5. CASE Restart
  BY <1>5 DEF Restart, SyncInv, IdleInsert, IdleNeglect, IdleSync
<1>6. ASSUME NEW t \in Tickets,
             InsertOutdated(t) \/ InsertIncomingTicket(t) \/ DrainFails(t) \/ InsertVacant(t)
      PROVE  SyncInv'
  <2>1. synced /\ UNCHANGED <<synced, neglector, current>>
    BY <1>6 DEF InsertOutdated, InsertIncomingTicket, DrainFails, InsertVacant, InsertUnchanged,
       InUse, handleVars
  <2> QED
    BY <1>b, <2>1, SyncStays
<1>7. CASE OpenQueue
  <2>1. current = 0 /\ synced /\ UNCHANGED <<synced, neglector>>
    BY <1>7, <1>b DEF OpenQueue, LockInv, SyncInv
  <2> QED
    BY <1>b, <2>1, SyncStays
<1>8. ASSUME NEW s \in Streams, RedeemStream(s) \/ StreamStep(s) \/ DropStream(s) PROVE SyncInv'
  <2>1. synced
    BY <1>8, <1>b DEF RedeemStream, InUse, StreamStep, Peek, RedeemTicket, CompleteRedemption,
       PopFails, DropStream, LockInv
  <2>2. UNCHANGED <<synced, neglector, current>>
    BY <1>8 DEF RedeemStream, StreamStep, Peek, RedeemTicket, CompleteRedemption, PopFails,
       DropStream, StreamUnchanged
  <2> QED
    BY <1>b, <2>1, <2>2, SyncStays
<1>9. ASSUME NEW n \in UpTo, NeglectTickets(n) PROVE SyncInv'
  <2>1. synced /\ UNCHANGED <<synced, current, inserter, syncer>> /\ current # 0
        /\ neglector'.gen = current
    BY <1>9 DEF NeglectTickets, NeglectUnchanged, InUse
  <2>2. syncer'.pc = "idle"
    BY <1>b, <2>1 DEF LockInv
  <2> QED
    BY <2>1, <2>2 DEF SyncInv
<1>10. CASE NeglectStep
  <2>1. synced /\ UNCHANGED <<synced, current>> /\ (neglector' = neglector \/ neglector'.pc # "run")
    BY <1>10 DEF NeglectStep, NeglectNext, NeglectFails, PopFails, NeglectEnd, NeglectUnchanged,
       SyncInv, IdleNeglect
  <2> QED
    BY <1>b, <2>1, SyncStays
<1> QED
  BY <1>1, <1>2, <1>3, <1>4, <1>5, <1>6, <1>7, <1>8, <1>9, <1>10 DEF Next, SyncStep, InsertStep

\* SyncInv is an invariant when the manager is synchronised before it is used.
LEMMA SyncCorrect == ASSUME ~SyncConcurrently PROVE Spec => []SyncInv
<1>1. Init => SyncInv
  BY DEF Init, SyncInv, IdleInsert, IdleNeglect, IdleSync
<1>2. Base /\ Base' /\ SyncInv /\ [Next]_vars => SyncInv'
  BY SyncInvNext
<1> QED
  BY <1>1, <1>2, BaseCorrect, PTL DEF Spec
-----------------------------------------------------------------------------
(* What the map's queue knows of its tickets. *)

\* It caches the value and the epoch of the tickets stored; all value it has
\* received is queued or accounted for; and a ticket that was taken away from
\* a waiting stream is counted as neglected, so its value can be taken out of
\* the neglected value again.
CacheInv == current # 0 =>
    /\ value_cache[current] = ValueOf(table)
    /\ current_epoch[current] = HeadEpoch(table)

NeglectedInv ==
    \A s \in Streams : Answering(s) /\ stream[s].ticket \notin table =>
        stats[current].neglected >= stream[s].ticket.amount

ValueInv == CacheInv /\ ValueAccounted /\ NeglectedInv

\* Nothing that ValueInv speaks of changes but streams, which take only tickets
\* of the queue.
LEMMA ValueStays ==
    ASSUME ValueInv, UNCHANGED <<table, current, value_cache, current_epoch, stats, received>>,
           \A s \in Streams : Answering(s)' =>
                \/ stream'[s].ticket \in table
                \/ Answering(s) /\ stream'[s].ticket = stream[s].ticket
    PROVE  ValueInv'
<1>1. NeglectedInv'
  <2>1. ASSUME NEW s \in Streams, Answering(s)', stream'[s].ticket \notin table'
        PROVE  stats'[current'].neglected >= stream'[s].ticket.amount
    BY <2>1 DEF ValueInv, NeglectedInv
  <2> QED
    BY <2>1 DEF NeglectedInv
<1> QED
  BY <1>1 DEF ValueInv, CacheInv, ValueAccounted

\* Where the map has no entry there is nothing to know.
LEMMA ValueVacuous ==
    ASSUME current' = 0, \A s \in Streams : ~Answering(s)'
    PROVE  ValueInv'
BY DEF ValueInv, CacheInv, ValueAccounted, NeglectedInv

\* Tickets of the queue are popped and neglected, and one may be received.
LEMMA NeglectedStays ==
    ASSUME Base, NeglectedInv, UNCHANGED <<current, stream>>,
           current # 0 =>
              /\ stats[current].neglected <= stats'[current].neglected
              /\ \A t \in table \ table' : t.amount <= stats'[current].neglected,
           stats' \in [Gens -> StatsType]
    PROVE  NeglectedInv'
<1>b. TypeOK /\ LockInv
  BY DEF Base
<1>1. ASSUME NEW s \in Streams, Answering(s), stream[s].ticket \notin table'
      PROVE  stats'[current].neglected >= stream[s].ticket.amount
  <2>1. stream[s].gen = current /\ current \in Gens /\ current # 0
    BY <1>1, <1>b, Constants DEF LockInv, Answering, TypeOK, StreamType
  <2>2. /\ stats[current].neglected \in Nat /\ stats'[current].neglected \in Nat
        /\ stream[s].ticket.amount \in Nat
    BY <1>b, <2>1, Constants DEF TypeOK, StatsType, StreamType
  <2>3. CASE stream[s].ticket \in table
    BY <1>1, <2>1, <2>2, <2>3
  <2>4. CASE stream[s].ticket \notin table
    BY <1>1, <2>1, <2>2, <2>4 DEF NeglectedInv
  <2> QED
    BY <2>3, <2>4
<1> QED
  BY <1>1 DEF NeglectedInv, Answering

\* A ChannelTicketQueue built over a stored queue knows its tickets.
LEMMA ValueNew ==
    ASSUME TypeOK, NEW q \in SUBSET Tickets, NewQueue(ValueOf(q), HeadEpoch(q), q), table' = q,
           \A s \in Streams : ~Answering(s)'
    PROVE  ValueInv'
<1>1. created + 1 \in Gens /\ current' = created + 1
  BY DEF TypeOK, NewQueue, Gens
<1>2. value_cache'[current'] = ValueOf(q) /\ current_epoch'[current'] = HeadEpoch(q)
      /\ received'[current'] = SumOf(q)
  BY <1>1 DEF NewQueue, TypeOK
<1>3. /\ stats'[current'].redeemed = 0 /\ stats'[current'].neglected = 0
      /\ stats'[current'].rejected = 0
  BY <1>1 DEF NewQueue, TypeOK, NoStats
<1>4. SumOf(q) \in Nat
  BY SumType
<1> QED
  BY <1>2, <1>3, <1>4 DEF ValueInv, CacheInv, ValueAccounted, NeglectedInv

\* A ticket of an old epoch is received and neglected at once.
LEMMA ValueOutdated ==
    ASSUME Base, Base', ValueInv, NEW t \in Tickets, InsertOutdated(t)
    PROVE  ValueInv'
<1> DEFINE g == current
<1>b. TypeOK /\ TypeOK'
  BY DEF Base
<1>1. g \in Gens /\ g # 0 /\ t.amount \in Nat
      /\ UNCHANGED <<table, current, value_cache, current_epoch, stream>>
  BY <1>b, Constants DEF InsertOutdated, InsertUnchanged, TypeOK
<1>2. /\ stats[g].neglected \in Nat /\ stats[g].redeemed \in Nat /\ stats[g].rejected \in Nat
      /\ received[g] \in Nat /\ SumOf(table) \in Nat
  BY <1>b, <1>1, SumType DEF TypeOK, StatsType
<1>3. /\ stats'[g].neglected = stats[g].neglected + t.amount
      /\ stats'[g].redeemed = stats[g].redeemed /\ stats'[g].rejected = stats[g].rejected
  BY <1>b, <1>1 DEF InsertOutdated, TypeOK, StatsType
<1>4. received'[g] = received[g] + t.amount
  BY <1>b, <1>1 DEF InsertOutdated, TypeOK
<1>5. ValueAccounted'
  BY <1>1, <1>2, <1>3, <1>4 DEF ValueInv, ValueAccounted
<1>6. NeglectedInv'
  <2>1. stats[g].neglected <= stats'[g].neglected /\ stats' \in [Gens -> StatsType]
    BY <1>b, <1>1, <1>2, <1>3 DEF TypeOK
  <2> QED
    BY <1>1, <2>1, NeglectedStays DEF ValueInv
<1> QED
  BY <1>1, <1>5, <1>6 DEF ValueInv, CacheInv

\* A ticket is pushed; tickets of an older epoch are drained and neglected.
LEMMA ValueInsert ==
    ASSUME Base, Base', InOrder, ~StoreMayFail, ValueInv, NEW t \in Tickets,
           InsertIncomingTicket(t)
    PROVE  ValueInv'
<1> DEFINE g == current
           drained == Outdated(t)
           rest == table \ drained
<1>b. TypeOK /\ TypeOK' /\ QueueInv /\ QueueInv'
  BY DEF Base
<1>1. g \in Gens /\ g # 0 /\ t.amount \in Nat /\ t.epoch \in Nat \ {0}
      /\ UNCHANGED <<current, stream>>
  BY <1>b, Constants DEF InsertIncomingTicket, InsertUnchanged, TypeOK, Epochs
<1>2. drained \in SUBSET table /\ drained \in SUBSET Tickets /\ rest \in SUBSET table
      /\ rest \in SUBSET Tickets /\ table \in SUBSET Tickets /\ table' \in SUBSET Tickets
  BY <1>b DEF Outdated, TypeOK
<1>3. table' = rest \cup {t} /\ t \notin rest
  <2>1. Receivable(t) /\ table' = Push(rest, t)
    BY DEF InsertIncomingTicket
  <2> HIDE DEF rest
  <2> QED
    BY <1>2, <2>1, PushReceived
<1>4. /\ SumOf(table) = SumOf(drained) + SumOf(rest)
      /\ SumOf(table') = t.amount + SumOf(rest)
      /\ SumOf(drained) \in Nat /\ SumOf(rest) \in Nat
      /\ \A u \in drained : u.amount <= SumOf(drained)
  <2>1. SumOf(table) = SumOf(drained) + SumOf(rest)
    <3> HIDE DEF drained
    <3> QED
      BY <1>2, SumSplit
  <2>2. table' \ {t} = rest /\ t \in table'
    BY <1>3
  <2>3. SumOf(table') = t.amount + SumOf(rest)
    <3>1. PICK q \in SUBSET Tickets : q = table'
      BY <1>2
    <3>2. SumOf(q) = t.amount + SumOf(q \ {t})
      BY <2>2, <3>1, SumTake
    <3> HIDE DEF rest
    <3> QED
      BY <2>2, <3>1, <3>2
  <2> HIDE DEF drained, rest
  <2>4. ASSUME NEW u \in drained PROVE u.amount <= SumOf(drained)
    <3>1. SumOf(drained) = u.amount + SumOf(drained \ {u})
      BY <1>2, SumTake
    <3>2. drained \ {u} \in SUBSET Tickets /\ u.amount \in Nat
      BY <1>2, Constants
    <3>3. SumOf(drained \ {u}) \in Nat
      BY <3>2, SumType
    <3> QED
      BY <3>1, <3>2, <3>3
  <2> QED
    BY <1>2, <2>1, <2>3, <2>4, SumType
<1>5. /\ stats[g].neglected \in Nat /\ stats[g].redeemed \in Nat /\ stats[g].rejected \in Nat
      /\ received[g] \in Nat
  BY <1>b, <1>1 DEF TypeOK, StatsType
<1>6. /\ stats' = [stats EXCEPT ![g].winning = @ + 1, ![g].neglected = @ + SumOf(drained)]
      /\ received' = [received EXCEPT ![g] = @ + t.amount]
  BY DEF InsertIncomingTicket
<1>7. /\ stats'[g].neglected = stats[g].neglected + SumOf(drained)
      /\ stats'[g].redeemed = stats[g].redeemed /\ stats'[g].rejected = stats[g].rejected
      /\ received'[g] = received[g] + t.amount
  <2> HIDE DEF drained
  <2> QED
    BY <1>b, <1>1, <1>6 DEF TypeOK, StatsType
<1>8. ValueAccounted'
  <2>1. received[g] = SumOf(table) + stats[g].redeemed + stats[g].neglected + stats[g].rejected
    BY <1>1 DEF ValueInv, ValueAccounted
  <2> HIDE DEF drained, rest
  <2>2. received'[g] = SumOf(table') + stats'[g].redeemed + stats'[g].neglected + stats'[g].rejected
    BY <1>1, <1>4, <1>5, <1>7, <2>1
  <2> QED
    BY <1>1, <2>2 DEF ValueAccounted
<1>9. NeglectedInv'
  <2>1. /\ stats[g].neglected <= stats'[g].neglected
        /\ \A u \in drained : u.amount <= stats'[g].neglected
    <3>1. \A u \in drained : u.amount \in Nat
      BY <1>2, Constants
    <3> HIDE DEF drained, rest
    <3> QED
      BY <1>4, <1>5, <1>7, <3>1
  <2>2. \A u \in table \ table' : u \in drained
    BY <1>3
  <2>3. stats' \in [Gens -> StatsType]
    BY <1>b DEF TypeOK
  <2> HIDE DEF drained, rest
  <2> QED
    BY <1>1, <2>1, <2>2, <2>3, NeglectedStays DEF ValueInv
<1>10. value_cache'[g] = ValueOf(table')
  <2>1. value_cache'[g] = CacheOfInsert(ValueOf(table), drained, t)
    BY <1>b, <1>1 DEF InsertIncomingTicket, TypeOK, ValueInv, CacheInv
  <2> HIDE DEF drained
  <2>2. Uncached(ValueOf(table), drained) = ValueOf(rest)
    BY <1>2, UncachedValue
  <2> HIDE DEF rest
  <2>3. [ValueOf(rest) EXCEPT ![t.epoch] = @ + t.amount] = ValueOf(rest \cup {t})
    BY <1>2, <1>3, ValueAdd
  <2> QED
    BY <1>3, <2>1, <2>2, <2>3 DEF CacheOfInsert
<1>11. current_epoch'[g] = HeadEpoch(table')
  <2> DEFINE epoch == IF drained = {} THEN current_epoch[g] ELSE 0
  <2>1. HeadEpoch(table') = t.epoch
    <3>1. PICK q : q = table'
      OBVIOUS
    <3>2. q \in SUBSET Tickets /\ IsQueue(q) /\ t \in q
      BY <1>b, <1>3, <3>1, TableIsQueue
    <3> QED
      BY <3>1, <3>2, HeadValue
  <2>2. current_epoch'[g] = IF epoch < t.epoch THEN t.epoch ELSE epoch
    BY <1>b, <1>1 DEF InsertIncomingTicket, TypeOK
  <2>3. current_epoch[g] = HeadEpoch(table)
    BY <1>1 DEF ValueInv, CacheInv
  <2>4. table \in SUBSET Tickets /\ IsQueue(table)
    BY <1>b, TableIsQueue
  <2>5. CASE table = {}
    <3>1. HeadEpoch(table) = 0 /\ drained = {}
      BY <2>4, <2>5, HeadValue DEF Outdated
    <3> QED
      BY <1>1, <2>1, <2>2, <2>3, <3>1
  <2>6. CASE table # {}
    <3>1. PICK h \in table : IsHead(h, table)
      BY <1>b, <2>6, HeadExists
    <3>2. HeadEpoch(table) = h.epoch /\ h.epoch \in Nat /\ ~(h.epoch > t.epoch)
      BY <2>4, <3>1, HeadValue, Constants DEF InsertIncomingTicket
    <3>3. CASE h.epoch < t.epoch
      <4>1. drained = table
        BY <3>1, <3>3 DEF Outdated
      <4>2. epoch = 0
        BY <2>6, <4>1
      <4> QED
        BY <1>1, <2>1, <2>2, <4>2
    <3>4. CASE ~(h.epoch < t.epoch)
      <4>1. HeadEpoch(table) = t.epoch
        BY <1>1, <3>2, <3>4
      <4>2. drained = {}
        <5>1. \A u \in table : u.epoch = t.epoch
          BY <2>4, <4>1, HeadValue
        <5> QED
          BY <1>1, <5>1 DEF Outdated
      <4> HIDE DEF drained
      <4> QED
        BY <1>1, <2>1, <2>2, <2>3, <4>1, <4>2
    <3> QED
      BY <3>3, <3>4
  <2> QED
    BY <2>5, <2>6
<1> QED
  BY <1>1, <1>8, <1>9, <1>10, <1>11 DEF ValueInv, CacheInv

\* The next ticket is popped and neglected.
LEMMA ValueNeglect ==
    ASSUME Base, Base', SyncInv, ValueInv, NeglectNext
    PROVE  ValueInv'
<1> DEFINE g == current
<1>b. TypeOK /\ TypeOK'
  BY DEF Base
<1>1. g \in Gens /\ g # 0 /\ neglector.gen = g /\ UNCHANGED <<current, stream, received>>
  BY <1>b DEF NeglectNext, NeglectUnchanged, SyncInv, TypeOK
<1>2. PICK t \in table :
          /\ table' = table \ {t}
          /\ value_cache' = [value_cache EXCEPT ![g] = Uncached(@, {t})]
          /\ current_epoch' = [current_epoch EXCEPT ![g] = HeadEpoch(table')]
          /\ stats' = [stats EXCEPT ![g].neglected = @ + t.amount]
  BY <1>1 DEF NeglectNext
<1>3. table \in SUBSET Tickets /\ {t} \in SUBSET table /\ t.amount \in Nat
  BY <1>b, Constants DEF TypeOK
<1>4. SumOf(table) = t.amount + SumOf(table') /\ SumOf(table') \in Nat
  <2>1. SumOf(table) = t.amount + SumOf(table \ {t}) /\ table \ {t} \in SUBSET Tickets
    BY <1>3, SumTake
  <2> QED
    BY <1>2, <2>1, SumType
<1>5. /\ stats[g].neglected \in Nat /\ stats[g].redeemed \in Nat /\ stats[g].rejected \in Nat
      /\ received[g] \in Nat
  BY <1>b, <1>1 DEF TypeOK, StatsType
<1>6. /\ stats'[g].neglected = stats[g].neglected + t.amount
      /\ stats'[g].redeemed = stats[g].redeemed /\ stats'[g].rejected = stats[g].rejected
  BY <1>b, <1>1, <1>2 DEF TypeOK, StatsType
<1>7. ValueAccounted'
  BY <1>1, <1>3, <1>4, <1>5, <1>6 DEF ValueInv, ValueAccounted
<1>8. NeglectedInv'
  <2>1. stats' \in [Gens -> StatsType]
    BY <1>b DEF TypeOK
  <2> QED
    BY <1>1, <1>2, <1>3, <1>5, <1>6, <2>1, NeglectedStays DEF ValueInv
<1>9. value_cache'[g] = ValueOf(table') /\ current_epoch'[g] = HeadEpoch(table')
  <2>1. value_cache'[g] = Uncached(ValueOf(table), {t}) /\ current_epoch'[g] = HeadEpoch(table')
    BY <1>b, <1>1, <1>2 DEF TypeOK, ValueInv, CacheInv
  <2> QED
    BY <1>2, <1>3, <2>1, UncachedValue
<1> QED
  BY <1>1, <1>7, <1>8, <1>9 DEF ValueInv, CacheInv

\* What the statistics say after an answer for a ticket that was popped, and
\* for one that had been taken away and counted as neglected.
LEMMA AccountedSum ==
    ASSUME NEW st \in StatsType, NEW t \in Tickets, NEW q,
           NEW r \in {"Redeemed", "TooLow"} \cup Rejections,
           q = {} => st.neglected >= t.amount,
           NEW v, v = Accounted(st, t, r, q)
    PROVE  v.redeemed + v.neglected + v.rejected =
               st.redeemed + st.neglected + st.rejected + (IF q = {} THEN 0 ELSE t.amount)
<1>1. /\ st.neglected \in Nat /\ st.redeemed \in Nat /\ st.rejected \in Nat /\ t.amount \in Nat
  BY Constants DEF StatsType
<1> DEFINE neglected == IF r = "TooLow" THEN st.neglected + t.amount ELSE st.neglected
<1>2. /\ v.redeemed = IF r = "Redeemed" THEN st.redeemed + t.amount ELSE st.redeemed
      /\ v.rejected = IF r \in Rejections THEN st.rejected + t.amount ELSE st.rejected
      /\ v.neglected = IF q = {} THEN Minus(neglected, t.amount) ELSE neglected
  BY DEF Accounted, StatsType
<1>3. \/ r = "Redeemed" /\ r # "TooLow" /\ r \notin Rejections
      \/ r = "TooLow" /\ r # "Redeemed" /\ r \notin Rejections
      \/ r \in Rejections /\ r # "Redeemed" /\ r # "TooLow"
  BY DEF Rejections
<1> QED
  BY <1>1, <1>2, <1>3 DEF Minus

\* The queue's lock is taken, the answered ticket is popped if it is still the
\* next one, and the answer is accounted for.
LEMMA ValueComplete ==
    ASSUME Base, Base', ~StoreMayFail, AnsweredInv, ValueInv, NEW s \in Streams,
           CompleteRedemption(s)
    PROVE  ValueInv'
<1> DEFINE g == current
           t == stream[s].ticket
           popped == Popped(t)
           r == stream[s].result
<1>b. TypeOK /\ TypeOK' /\ LockInv
  BY DEF Base
<1>1. /\ g \in Gens /\ g # 0 /\ stream[s].gen = g /\ t \in Tickets /\ t.amount \in Nat
      /\ r \in {"Redeemed", "TooLow"} \cup Rejections /\ stream[s].pc = "settle"
      /\ UNCHANGED <<current, received>>
  BY <1>b, Constants DEF CompleteRedemption, PopFails, StreamUnchanged, LockInv, TypeOK, StreamType
<1>2. ASSUME NEW q \in Streams PROVE ~Answering(q)'
  <2>1. q # s => stream[q].pc = "idle" /\ stream'[q] = stream[q]
    BY <1>b, <1>1 DEF CompleteRedemption, PopFails, DropRedeemState, LockInv, OneStream, TypeOK
  <2>2. stream'[s].pc \in {"next", "idle"}
    <3>1. CASE stream' = [stream EXCEPT ![s] = IdleStream]
      BY <1>b, <3>1 DEF IdleStream, TypeOK
    <3>2. CASE stream' = [stream EXCEPT ![s] = [IdleStream EXCEPT !.pc = "next", !.gen = stream[s].gen]]
      BY <1>b, <3>2 DEF IdleStream, TypeOK
    <3> QED
      BY <3>1, <3>2 DEF CompleteRedemption, PopFails, DropRedeemState
  <2> QED
    BY <2>1, <2>2 DEF Answering
<1>3. CASE UNCHANGED <<table, value_cache, current_epoch, stats>>
  BY <1>1, <1>2, <1>3, ValueStays
<1>4. CASE /\ table' = table \ popped
           /\ value_cache' = [value_cache EXCEPT ![g] = Uncached(@, popped)]
           /\ current_epoch' = [current_epoch EXCEPT ![g] =
                                   IF popped = {} THEN @ ELSE HeadEpoch(table')]
           /\ stats' = [stats EXCEPT ![g] = Accounted(@, t, r, popped)]
  <2>1. popped \in SUBSET table /\ table \in SUBSET Tickets /\ table' = table \ popped
    BY <1>b, <1>4 DEF Popped, IsHead, TypeOK
  <2>2. popped = {} => table' = table /\ t \notin table
    <3>1. t \in table => IsHead(t, table)
      BY <1>1, <1>b DEF Base, QueueInv, SingleEpoch, AnsweredInv, Answering, IsHead, Before
    <3> QED
      BY <2>1, <3>1 DEF Popped
  <2>3. popped # {} => popped = {t} /\ t \in table
    BY DEF Popped, IsHead
  <2>4. SumOf(table) = SumOf(table') + (IF popped = {} THEN 0 ELSE t.amount)
        /\ SumOf(table') \in Nat
    <3>1. CASE popped = {}
      <4>1. SumOf(table') = SumOf(table) /\ SumOf(table) \in Nat
        BY <2>1, <2>2, <3>1, SumType
      <4> QED
        BY <3>1, <4>1
    <3>2. CASE popped # {}
      <4>1. SumOf(table) = t.amount + SumOf(table \ {t}) /\ table \ {t} \in SUBSET Tickets
        BY <2>1, <2>3, <3>2, SumTake
      <4>2. table' = table \ {t}
        BY <2>1, <2>3, <3>2
      <4>3. SumOf(table') \in Nat /\ SumOf(table) = t.amount + SumOf(table')
        BY <4>1, <4>2, SumType
      <4> QED
        BY <1>1, <3>2, <4>3
    <3> QED
      BY <3>1, <3>2
  <2>5. stats[g] \in StatsType /\ stats'[g] \in StatsType /\ received[g] \in Nat
        /\ stats'[g] = Accounted(stats[g], t, r, popped)
    BY <1>b, <1>1, <1>4 DEF TypeOK
  <2>6. popped = {} => stats[g].neglected >= t.amount
    BY <1>1, <2>2 DEF ValueInv, NeglectedInv, Answering
  <2>7. stats'[g].redeemed + stats'[g].neglected + stats'[g].rejected =
            stats[g].redeemed + stats[g].neglected + stats[g].rejected
            + (IF popped = {} THEN 0 ELSE t.amount)
    <3> HIDE DEF popped, t, r
    <3> QED
      BY <1>1, <2>5, <2>6, AccountedSum
  <2>8. ValueAccounted'
    <3>1. received[g] = SumOf(table) + stats[g].redeemed + stats[g].neglected + stats[g].rejected
      BY <1>1 DEF ValueInv, ValueAccounted
    <3>2. /\ stats[g].neglected \in Nat /\ stats[g].redeemed \in Nat /\ stats[g].rejected \in Nat
          /\ stats'[g].neglected \in Nat /\ stats'[g].redeemed \in Nat
          /\ stats'[g].rejected \in Nat
      BY <2>5 DEF StatsType
    <3> HIDE DEF popped, t
    <3>3. received[g] = SumOf(table') + stats'[g].redeemed + stats'[g].neglected + stats'[g].rejected
      BY <1>1, <2>4, <2>7, <3>1, <3>2
    <3> QED
      BY <1>1, <3>3 DEF ValueAccounted
  <2>9. value_cache'[g] = ValueOf(table')
    <3>1. value_cache'[g] = Uncached(ValueOf(table), popped)
      BY <1>b, <1>1, <1>4 DEF TypeOK, ValueInv, CacheInv
    <3> HIDE DEF popped
    <3> QED
      BY <2>1, <3>1, UncachedValue
  <2>10. current_epoch'[g] = HeadEpoch(table')
    <3>1. current_epoch'[g] = IF popped = {} THEN current_epoch[g] ELSE HeadEpoch(table')
      BY <1>b, <1>1, <1>4 DEF TypeOK
    <3>2. popped = {} => HeadEpoch(table') = HeadEpoch(table)
      BY <2>2
    <3>3. current_epoch[g] = HeadEpoch(table)
      BY <1>1 DEF ValueInv, CacheInv
    <3> HIDE DEF popped
    <3> QED
      BY <3>1, <3>2, <3>3
  <2>11. NeglectedInv'
    BY <1>2 DEF NeglectedInv
  <2> QED
    BY <1>1, <2>8, <2>9, <2>10, <2>11 DEF ValueInv, CacheInv
<1> QED
  BY <1>1, <1>3, <1>4 DEF CompleteRedemption, PopFails

\* Every step keeps what the map's queue knows of its tickets.
LEMMA ValueNext ==
    ASSUME Base, Base', InOrder, ~SyncConcurrently, ~StoreMayFail, AnsweredInv, SyncInv,
           ValueInv, [Next]_vars
    PROVE  ValueInv'
<1>b. TypeOK /\ TypeOK' /\ LockInv /\ LockInv' /\ QueueInv'
  BY DEF Base
<1>z. 0 \notin Gens /\ \A s \in Streams : stream[s].gen \in Gens
  BY <1>b, Constants DEF TypeOK, StreamType
<1>u. ASSUME UNCHANGED <<table, current, value_cache, current_epoch, stats, received, stream>>
      PROVE  ValueInv'
  BY <1>u, ValueStays DEF Answering
<1>i. ASSUME current = 0, UNCHANGED stream PROVE \A s \in Streams : ~Answering(s)'
  BY <1>b, <1>i, <1>z DEF LockInv, Answering
<1>1. CASE ChainStep \/ UNCHANGED vars
  BY <1>1, <1>u DEF ChainStep, CloseChannel, ReopenChannel, FundChannel, queueVars, handleVars,
     ghostVars, vars
<1>2. CASE SyncQueue
  <2>1. current = 0 /\ UNCHANGED <<current, stream>>
    BY <1>2 DEF SyncQueue, SyncInv, handleVars
  <2> QED
    BY <1>i, <2>1, ValueVacuous
<1>3. CASE SyncMap
  <2>1. current = 0 /\ UNCHANGED <<stream, table>>
    BY <1>3, <1>b DEF SyncMap, LockInv, SyncInv, queueVars
  <2>2. \A s \in Streams : ~Answering(s)'
    BY <1>i, <2>1
  <2>3. CASE current' = 0
    BY <2>2, <2>3, ValueVacuous
  <2>4. CASE syncer.pc = "insert" /\ NewQueue(syncer.cache, syncer.epoch, table)
    <3>1. NewQueue(ValueOf(table), HeadEpoch(table), table)
      BY <2>4 DEF SyncInv
    <3>2. PICK q \in SUBSET Tickets : q = table
      BY <1>b DEF TypeOK
    <3>3. NewQueue(ValueOf(q), HeadEpoch(q), q) /\ table' = q
      BY <2>1, <3>1, <3>2
    <3> QED
      BY <1>b, <2>2, <3>3, ValueNew
  <2> QED
    BY <1>3, <2>3, <2>4 DEF SyncMap
<1>4. CASE SyncFails
  BY <1>4 DEF SyncFails
<1>5. CASE Restart
  <2>1. current' = 0 /\ \A s \in Streams : ~Answering(s)'
    BY <1>5 DEF Restart, Answering, IdleStream
  <2> QED
    BY <2>1, ValueVacuous
<1>6. ASSUME NEW t \in Tickets,
             InsertOutdated(t) \/ InsertIncomingTicket(t) \/ DrainFails(t) \/ InsertVacant(t)
      PROVE  ValueInv'
  <2>1. CASE DrainFails(t)
    BY <2>1 DEF DrainFails
  <2>2. CASE InsertVacant(t)
    BY <2>2, <1>u DEF InsertVacant, InsertUnchanged, handleVars
  <2> QED
    BY <1>6, <2>1, <2>2, ValueOutdated, ValueInsert
<1>7. CASE OpenQueue
  <2>1. current = 0 /\ UNCHANGED stream
    BY <1>7, <1>b DEF OpenQueue, LockInv
  <2>2. \A s \in Streams : ~Answering(s)'
    BY <1>i, <2>1
  <2>3. CASE UNCHANGED handleVars
    <3>1. current' = 0
      BY <2>1, <2>3 DEF handleVars
    <3> QED
      BY <2>2, <3>1, ValueVacuous
  <2>4. CASE ~UNCHANGED handleVars
    <3>1. PICK t \in Tickets : t = inserter.ticket
      BY <1>b DEF TypeOK, InsertType
    <3>2. table' = {t} /\ NewQueue(ValueOf({t}), t.epoch, {t})
      BY <1>7, <2>4, <3>1 DEF OpenQueue
    <3>3. HeadEpoch({t}) = t.epoch /\ {t} \in SUBSET Tickets
      BY HeadValue DEF IsQueue
    <3> QED
      BY <1>b, <2>2, <3>2, <3>3, ValueNew
  <2> QED
    BY <2>3, <2>4
<1>8. ASSUME NEW s \in Streams, RedeemStream(s) \/ DropStream(s) \/ Peek(s) \/ RedeemTicket(s)
      PROVE  ValueInv'
  <2>1. UNCHANGED <<table, current, value_cache, current_epoch, stats, received>>
    BY <1>8 DEF RedeemStream, DropStream, Peek, RedeemTicket, StreamUnchanged
  <2>2. ASSUME NEW r \in Streams, Answering(r)'
        PROVE  \/ stream'[r].ticket \in table
               \/ Answering(r) /\ stream'[r].ticket = stream[r].ticket
    <3>1. CASE stream'[r] = stream[r]
      BY <2>2, <3>1 DEF Answering
    <3>2. CASE DropRedeemState(s)
      BY <1>b, <2>2, <3>2, DropAnswers
    <3>3. CASE RedeemStream(s)
      BY <1>b, <2>2, <3>1, <3>3 DEF RedeemStream, TypeOK, Answering, IdleStream
    <3>4. ASSUME NEW h \in table,
                 stream' = [stream EXCEPT
                    ![s].ticket = h,
                    ![s].pc = IF h.amount >= MinAmount THEN "await" ELSE "settle"]
          PROVE  stream'[r] = stream[r] \/ stream'[r].ticket \in table
      BY <1>b, <3>4 DEF TypeOK, StreamType
    <3>5. ASSUME NEW x, stream[s].pc = "await",
                 stream' = [stream EXCEPT ![s].pc = "settle", ![s].result = x]
          PROVE  stream'[r] = stream[r] \/ (Answering(r) /\ stream'[r].ticket = stream[r].ticket)
      BY <1>b, <3>5 DEF TypeOK, StreamType, Answering
    <3> QED
      BY <1>8, <3>1, <3>2, <3>3, <3>4, <3>5 DEF DropStream, Peek, RedeemTicket
  <2> QED
    BY <2>1, <2>2, ValueStays
<1>9. ASSUME NEW s \in Streams, CompleteRedemption(s) PROVE ValueInv'
  BY <1>9, ValueComplete
<1>10. CASE NeglectNext
  BY <1>10, ValueNeglect
<1>11. CASE NeglectEnd \/ \E n \in UpTo : NeglectTickets(n)
  BY <1>11, <1>u DEF NeglectEnd, NeglectTickets, NeglectUnchanged
<1>12. ~NeglectFails
  BY DEF NeglectFails
<1> QED
  BY <1>1, <1>2, <1>3, <1>4, <1>5, <1>6, <1>7, <1>8, <1>9, <1>10, <1>11, <1>12
     DEF Next, SyncStep, InsertStep, StreamStep, NeglectStep

\* ValueInv is an invariant when tickets are received in order, the manager is
\* synchronised before it is used, and the store does not fail.
LEMMA ValueCorrect ==
    ASSUME InOrder, ~SyncConcurrently, ~StoreMayFail
    PROVE  Spec => []ValueInv
<1>1. Init => ValueInv
  BY DEF Init, ValueInv, CacheInv, ValueAccounted, NeglectedInv, Answering, IdleStream
<1>2. ASSUME Base, Base', AnsweredInv, SyncInv, ValueInv, [Next]_vars PROVE ValueInv'
  BY <1>2, ValueNext
<1>3. Base /\ Base' /\ AnsweredInv /\ SyncInv /\ ValueInv /\ [Next]_vars => ValueInv'
  BY <1>2
<1> QED
  BY <1>1, <1>3, BaseCorrect, AnsweredCorrect, SyncCorrect, PTL DEF Spec

\* All value the queue has received is queued, redeemed, neglected or rejected,
\* also when the ticket a stream waits for is neglected or drained meanwhile.
THEOREM ValueAccountedCorrect ==
    ASSUME InOrder, ~SyncConcurrently, ~StoreMayFail
    PROVE  Spec => []ValueAccounted
<1>1. ValueInv => ValueAccounted
  BY DEF ValueInv
<1> QED
  BY <1>1, ValueCorrect, PTL

\* Readers of the unrealized value, of the statistics and of the remaining
\* stake are told the value of exactly the tickets stored, in every state.
THEOREM UnrealizedValueExactCorrect ==
    ASSUME InOrder, ~SyncConcurrently, ~StoreMayFail
    PROVE  Spec => []UnrealizedValueExact
<1>1. ASSUME Base, ValueInv, current # 0 PROVE UnrealizedValueExact
  <2>1. table \in SUBSET Tickets /\ IsQueue(table) /\ SumOf(table) \in Nat
    BY <1>1, TableIsQueue, SumType DEF Base
  <2>2. value_cache[current] = ValueOf(table) /\ current_epoch[current] = HeadEpoch(table)
    BY <1>1 DEF ValueInv, CacheInv
  <2>3. CachedUnrealizedValue(current) = SumOf(table) /\ UnredeemedValue = SumOf(table)
    <3>1. CASE table = {}
      <4>1. HeadEpoch(table) = 0
        BY <2>1, <3>1, HeadValue
      <4>2. SumOf(table) = 0
        BY <2>1, <3>1, SumType, SumRecursion
      <4> QED
        BY <2>2, <3>1, <4>1, <4>2 DEF CachedUnrealizedValue, UnredeemedValue
    <3>2. CASE table # {}
      <4>1. HeadEpoch(table) \in Epochs /\ ValueOf(table)[HeadEpoch(table)] = SumOf(table)
        BY <2>1, <3>2, HeadValue
      <4>2. HeadEpoch(table) # 0
        BY <4>1 DEF Epochs
      <4> QED
        BY <2>2, <3>2, <4>1, <4>2 DEF CachedUnrealizedValue, UnredeemedValue
    <3> QED
      BY <3>1, <3>2
  <2>4. ASSUME NEW n PROVE UnrealizedValueFrom(n) = SumOf({t \in table : t.index >= n})
    <3>1. \A t \in table : t.epoch = HeadEpoch(table)
      BY <2>1, HeadValue
    <3>2. {t \in table : t.epoch = HeadEpoch(table) /\ t.index >= n} = {t \in table : t.index >= n}
      BY <3>1
    <3> QED
      BY <3>2 DEF UnrealizedValueFrom
  <2>5. RemainingStake(SumOf(Tickets)) + SumOf(table) = SumOf(Tickets)
    <3>1. SumOf(table) <= SumOf(Tickets) /\ SumOf(Tickets) \in Nat
      BY <2>1, SumSplit, SumType
    <3> QED
      BY <1>1, <2>1, <2>3, <3>1 DEF RemainingStake, Minus
  <2> QED
    BY <2>3, <2>4, <2>5 DEF UnrealizedValueExact
<1>2. Base /\ ValueInv => UnrealizedValueExact
  BY <1>1 DEF UnrealizedValueExact
<1> QED
  BY <1>2, BaseCorrect, ValueCorrect, PTL
-----------------------------------------------------------------------------
(* The ledger of the tickets. *)

\* Everything the ledger has on its books.
Booked == table \cup settled \cup landed

\* What redeemed tickets, streams and an insertion that waits for the store are
\* to the ledger: the chain is past the first, the ticket a stream waits for is in
\* hand or was returned, and the ticket of the insertion is the newest.
LedgerInv ==
    /\ \A t \in landed : Spent(t)
    /\ settled \subseteq offered
    /\ \A s \in Streams : Answering(s) => stream[s].ticket \in table \cup settled
    /\ inserter.pc = "vacant" =>
          \A u \in Booked : u.epoch = inserter.ticket.epoch => u.index < inserter.ticket.index

\* A ticket received in order is newer than all on the books.
LEMMA ReceivableIsNewest ==
    ASSUME Base, InOrder, LandedInv, LedgerInv, NEW t \in Tickets, Receivable(t)
    PROVE  \A u \in Booked : u.epoch = t.epoch => u.index < t.index
<1>1. Booked \subseteq offered
  BY DEF Base, OfferedInv, LandedInv, LedgerInv, Booked
<1> QED
  BY <1>1 DEF Receivable

\* The queue takes a ticket of its epoch, gives way to one of a newer epoch, or
\* turns down one of an older epoch.
LEMMA ReceiveStep ==
    ASSUME TypeOK, NEW t \in Tickets, UNCHANGED landed,
           \A u \in Booked : u.epoch = t.epoch => u.index < t.index,
           \A u, v \in table : u.epoch = v.epoch,
           \/ /\ table' = table \cup {t} /\ settled' = settled
              /\ \A u \in table : u.epoch = t.epoch
           \/ /\ table' = {t} /\ settled' = settled \cup table
              /\ \A u \in table : u.epoch < t.epoch
           \/ /\ table' = table /\ settled' = settled \cup {t}
              /\ \E u \in table : t.epoch < u.epoch
    PROVE  Ledger!Receive(t)
<1> DEFINE newest == {u \in table \cup {t} : \A v \in table \cup {t} : v.epoch <= u.epoch}
<1>1. /\ t.epoch \in Nat /\ t.index \in Nat
      /\ \A u \in table : u.epoch \in Nat /\ u.index \in Nat
  BY Constants DEF TypeOK
<1>2. t \notin table
  BY <1>1 DEF Booked
<1>3. CASE /\ table' = table \cup {t} /\ settled' = settled
           /\ \A u \in table : u.epoch = t.epoch
  <2>1. newest = table \cup {t}
    BY <1>1, <1>3
  <2> QED
    BY <1>3, <2>1 DEF Ledger!Receive, Booked
<1>4. CASE /\ table' = {t} /\ settled' = settled \cup table
           /\ \A u \in table : u.epoch < t.epoch
  <2>1. newest = {t}
    BY <1>1, <1>4
  <2>2. (table \cup {t}) \ {t} = table
    BY <1>2
  <2> QED
    BY <1>4, <2>1, <2>2 DEF Ledger!Receive, Booked
<1>5. CASE /\ table' = table /\ settled' = settled \cup {t}
           /\ \E u \in table : t.epoch < u.epoch
  <2>1. newest = table
    BY <1>1, <1>5
  <2>2. (table \cup {t}) \ table = {t}
    BY <1>2
  <2> QED
    BY <1>5, <2>1, <2>2 DEF Ledger!Receive, Booked
<1> QED
  BY <1>3, <1>4, <1>5

\* Tickets leave the queue from its front and are settled.
LEMMA ReturnStep ==
    ASSUME NEW S \in SUBSET table, \A t \in S, u \in table \ S : Before(t, u),
           table' = table \ S, settled' = settled \cup S, UNCHANGED landed
    PROVE  Ledger!Next
<1>1. Ledger!Return(S)
  BY DEF Ledger!Return, Ledger!Precedes, Before
<1> QED
  BY <1>1 DEF Ledger!Next

\* What a step may do to the books.
LedgerStep == Ledger!Next \/ UNCHANGED <<table, settled, landed>>

\* Nothing lands and nothing new is booked.
LEMMA LedgerStays ==
    ASSUME TypeOK, TypeOK', [Next]_vars, LedgerInv, UNCHANGED landed, offered \subseteq offered',
           settled' \subseteq settled \cup table, table \cup settled = table' \cup settled',
           settled' \subseteq offered',
           inserter' = inserter \/ inserter'.pc # "vacant",
           \A s \in Streams : Answering(s)' => \/ stream'[s].ticket \in table
                                               \/ Answering(s) /\ stream'[s].ticket = stream[s].ticket
    PROVE  LedgerInv'
<1>1. \A t \in landed' : Spent(t)'
  BY SpentStable DEF LedgerInv, TypeOK
<1>2. Booked' = Booked
  BY DEF Booked
<1>3. \A s \in Streams : Answering(s)' => stream'[s].ticket \in table' \cup settled'
  BY DEF LedgerInv
<1>4. inserter'.pc = "vacant" =>
        \A u \in Booked' : u.epoch = inserter'.ticket.epoch => u.index < inserter'.ticket.index
  BY <1>2 DEF LedgerInv
<1> QED
  BY <1>1, <1>3, <1>4 DEF LedgerInv

\* A ticket that was just offered is booked, or waits for the store.
LEMMA LedgerInsert ==
    ASSUME TypeOK, TypeOK', [Next]_vars, LedgerInv, UNCHANGED <<landed, stream>>,
           offered \subseteq offered', table \cup settled \subseteq table' \cup settled',
           settled' \subseteq offered', inserter'.pc # "vacant"
    PROVE  LedgerInv'
<1>1. \A t \in landed' : Spent(t)'
  BY SpentStable DEF LedgerInv, TypeOK
<1>2. \A s \in Streams : Answering(s)' => stream'[s].ticket \in table' \cup settled'
  BY DEF LedgerInv, Answering
<1> QED
  BY <1>1, <1>2 DEF LedgerInv

\* Every step of the manager is one of the ledger or leaves it as it is, and the
\* invariant behind that is kept.
LEMMA LedgerNext ==
    ASSUME Base, TypeOK', InOrder, ~StoreMayFail, AnsweredInv, LandedInv, LedgerInv, [Next]_vars
    PROVE  LedgerStep /\ LedgerInv'
<1>b. TypeOK /\ QueueInv /\ LockInv /\ OfferedInv
  BY DEF Base
<1>e. \A u, v \in table : u.epoch = v.epoch
  BY <1>b DEF QueueInv, SingleEpoch
<1>o. settled \subseteq offered /\ table \subseteq offered
  BY <1>b DEF LedgerInv, OfferedInv
<1>u. ASSUME UNCHANGED <<table, settled, landed>>, offered \subseteq offered',
             inserter' = inserter \/ inserter'.pc # "vacant",
             \A s \in Streams : Answering(s)' =>
                \/ stream'[s].ticket \in table
                \/ Answering(s) /\ stream'[s].ticket = stream[s].ticket
      PROVE  LedgerStep /\ LedgerInv'
  <2>1. LedgerInv'
    BY <1>b, <1>o, <1>u, LedgerStays
  <2> QED
    BY <1>u, <2>1 DEF LedgerStep
<1>1. CASE ChainStep \/ SyncMap \/ UNCHANGED vars
  <2>1. UNCHANGED <<table, settled, landed, offered, inserter, stream>>
    BY <1>1 DEF ChainStep, CloseChannel, ReopenChannel, FundChannel, SyncMap, queueVars,
       ghostVars, vars
  <2> QED
    BY <1>u, <2>1 DEF Answering
<1>2. CASE Restart
  <2>1. UNCHANGED <<table, settled, landed, offered>> /\ inserter'.pc # "vacant"
    BY <1>2 DEF Restart, queueVars, IdleInsert
  <2>2. \A s \in Streams : ~Answering(s)'
    BY <1>2 DEF Restart, Answering, IdleStream
  <2> QED
    BY <1>u, <2>1, <2>2
<1>3. CASE SyncQueue
  <2>1. UNCHANGED <<landed, offered, inserter, stream>>
    BY <1>3 DEF SyncQueue
  <2>2. CASE UNCHANGED <<table, settled>>
    BY <1>u, <2>1, <2>2 DEF Answering
  <2>3. CASE table' = {} /\ settled' = settled \cup table
    <3>1. Ledger!Next
      <4>1. table' = table \ table
        BY <2>3
      <4> QED
        BY <2>1, <2>3, <4>1, ReturnStep
    <3>2. LedgerInv'
      BY <1>b, <1>o, <2>1, <2>3, LedgerStays DEF Answering
    <3> QED
      BY <3>1, <3>2 DEF LedgerStep
  <2>4. ASSUME NEW S, S = Prefix(table, {t \in table : Unredeemable(t)}),
               table' = table \ S, settled' = settled \cup S
        PROVE  LedgerStep /\ LedgerInv'
    <3>1. S \in SUBSET table
      BY <2>4 DEF Prefix
    <3>2. \A t \in S, u \in table \ S : Before(t, u)
      BY <1>b, <2>4, PrefixFirst DEF QueueInv
    <3>3. Ledger!Next
      BY <2>1, <2>4, <3>1, <3>2, ReturnStep
    <3>4. LedgerInv'
      <4>1. settled' \subseteq settled \cup table /\ table \cup settled = table' \cup settled'
        BY <2>4, <3>1
      <4> QED
        BY <1>b, <1>o, <2>1, <4>1, LedgerStays DEF Answering
    <3> QED
      BY <3>3, <3>4 DEF LedgerStep
  <2> QED
    BY <1>3, <2>2, <2>3, <2>4 DEF SyncQueue, queueVars
<1>4. CASE SyncFails \/ \E t \in Tickets : DrainFails(t)
  BY <1>4 DEF SyncFails, DrainFails
<1>5. ASSUME NEW t \in Tickets, InsertOutdated(t) PROVE LedgerStep /\ LedgerInv'
  <2>1. /\ Receivable(t) /\ MapUnlocked
        /\ table' = table /\ settled' = settled \cup {t} /\ offered' = offered \cup {t}
        /\ UNCHANGED <<landed, stream, inserter>>
    BY <1>5 DEF InsertOutdated, InsertUnchanged
  <2>2. PICK h \in table : h.epoch > t.epoch
    BY <1>5 DEF InsertOutdated
  <2>3. t.epoch < h.epoch
    <3>1. t.epoch \in Nat /\ h.epoch \in Nat
      BY <1>b, Constants DEF TypeOK
    <3> QED
      BY <2>2, <3>1
  <2>4. Ledger!Receive(t)
    <3>1. \A u \in Booked : u.epoch = t.epoch => u.index < t.index
      BY <2>1, ReceivableIsNewest
    <3> QED
      BY <1>b, <1>e, <2>1, <2>3, <3>1, ReceiveStep
  <2>5. LedgerInv'
    BY <1>b, <1>o, <2>1, LedgerInsert DEF MapUnlocked
  <2> QED
    BY <2>4, <2>5 DEF LedgerStep, Ledger!Next
<1>6. ASSUME NEW t \in Tickets, InsertIncomingTicket(t) PROVE LedgerStep /\ LedgerInv'
  <2> DEFINE drained == Outdated(t)
  <2>1. /\ Receivable(t) /\ MapUnlocked
        /\ ~\E h \in table : IsHead(h, table) /\ h.epoch > t.epoch
        /\ table' = Push(table \ drained, t) /\ settled' = settled \cup drained
        /\ offered' = offered \cup {t}
        /\ UNCHANGED <<landed, stream, inserter>>
    BY <1>6 DEF InsertIncomingTicket, InsertUnchanged
  <2>2. \A u \in Booked : u.epoch = t.epoch => u.index < t.index
    BY <2>1, ReceivableIsNewest
  <2>3. t.epoch \in Nat /\ t.index \in Nat /\ \A u \in table : u.epoch \in Nat /\ u.index \in Nat
    BY <1>b, Constants DEF TypeOK
  <2>4. table' = (table \ drained) \cup {t}
    BY <2>1, <2>2, <2>3 DEF Push, Booked
  <2>5. \/ drained = {} /\ \A u \in table : u.epoch = t.epoch
        \/ drained = table /\ \A u \in table : u.epoch < t.epoch
    <3>1. CASE table = {}
      BY <3>1 DEF Outdated
    <3>2. CASE table # {}
      <4>1. PICK h \in table : IsHead(h, table)
        BY <1>b, <3>2, HeadExists
      <4>2. h.epoch < t.epoch \/ h.epoch = t.epoch
        BY <2>1, <2>3, <4>1
      <4>3. \A u \in table : u.epoch = h.epoch
        BY <1>e
      <4> QED
        BY <2>3, <4>1, <4>2, <4>3 DEF Outdated
    <3> QED
      BY <3>1, <3>2
  <2> HIDE DEF drained
  <2>6. Ledger!Receive(t)
    <3>1. CASE drained = {} /\ \A u \in table : u.epoch = t.epoch
      <4>1. table' = table \cup {t} /\ settled' = settled
        BY <2>1, <2>4, <3>1
      <4> QED
        BY <1>b, <1>e, <2>1, <2>2, <3>1, <4>1, ReceiveStep
    <3>2. CASE drained = table /\ \A u \in table : u.epoch < t.epoch
      <4>1. table' = {t} /\ settled' = settled \cup table
        BY <2>1, <2>4, <3>2
      <4> QED
        BY <1>b, <1>e, <2>1, <2>2, <3>2, <4>1, ReceiveStep
    <3> QED
      BY <2>5, <3>1, <3>2
  <2>7. LedgerInv'
    <3>1. table \cup settled \subseteq table' \cup settled' /\ settled' \subseteq offered'
      BY <1>o, <2>1, <2>4, <2>5
    <3> QED
      BY <1>b, <2>1, <3>1, LedgerInsert DEF MapUnlocked
  <2> QED
    BY <2>6, <2>7 DEF LedgerStep, Ledger!Next
<1>7. ASSUME NEW t \in Tickets, InsertVacant(t) PROVE LedgerStep /\ LedgerInv'
  <2>1. /\ Receivable(t) /\ inserter'.ticket = t /\ offered' = offered \cup {t}
        /\ UNCHANGED <<table, settled, landed, stream, chain>>
    BY <1>7 DEF InsertVacant, InsertUnchanged
  <2>2. \A u \in Booked : u.epoch = t.epoch => u.index < t.index
    BY <2>1, ReceivableIsNewest
  <2>3. Booked' = Booked
    BY <2>1 DEF Booked
  <2>4. /\ \A u \in landed' : Spent(u)'
        /\ settled' \subseteq offered'
        /\ \A s \in Streams : Answering(s)' => stream'[s].ticket \in table' \cup settled'
    BY <2>1 DEF LedgerInv, Answering, Spent
  <2> QED
    BY <2>1, <2>2, <2>3, <2>4 DEF LedgerInv, LedgerStep
<1>8. CASE OpenQueue
  <2> DEFINE t == inserter.ticket
  <2>1. /\ inserter.pc = "vacant" /\ inserter'.pc # "vacant"
        /\ UNCHANGED <<settled, landed, stream, offered>>
    BY <1>8 DEF OpenQueue, IdleInsert
  <2>2. CASE UNCHANGED table
    BY <1>u, <2>1, <2>2 DEF Answering
  <2>3. CASE table = {} /\ table' = {t}
    <3>1. t \in Tickets /\ \A u \in Booked : u.epoch = t.epoch => u.index < t.index
      BY <1>b, <2>1 DEF TypeOK, InsertType, LedgerInv
    <3>2. Ledger!Receive(t)
      <4>1. table' = table \cup {t} /\ \A u \in table : u.epoch = t.epoch
        BY <2>3
      <4> HIDE DEF t
      <4> QED
        BY <1>b, <1>e, <2>1, <3>1, <4>1, ReceiveStep
    <3>3. LedgerInv'
      BY <1>b, <1>o, <2>1, <2>3, LedgerInsert
    <3> QED
      BY <3>1, <3>2, <3>3 DEF LedgerStep, Ledger!Next
  <2> QED
    BY <1>8, <2>2, <2>3 DEF OpenQueue
<1>9. ASSUME NEW s \in Streams, RedeemStream(s) \/ Peek(s) \/ DropStream(s)
      PROVE  LedgerStep /\ LedgerInv'
  <2>1. UNCHANGED <<table, settled, landed, offered, inserter>>
    BY <1>9 DEF RedeemStream, Peek, DropStream, StreamUnchanged
  <2>2. \A r \in Streams : Answering(r)' => \/ stream'[r].ticket \in table
                                            \/ Answering(r) /\ stream'[r].ticket = stream[r].ticket
    <3>1. CASE DropRedeemState(s)
      BY <1>b, <3>1, DropAnswers
    <3>2. CASE /\ stream[s].pc = "next"
               /\ \E t \in table : \E p \in {"await", "settle"} :
                    stream' = [stream EXCEPT ![s].ticket = t, ![s].pc = p]
      <4>1. PICK t \in table, p \in {"await", "settle"} :
              stream' = [stream EXCEPT ![s].ticket = t, ![s].pc = p]
        BY <3>2
      <4>2. stream'[s].ticket = t /\ \A r \in Streams \ {s} : stream'[r] = stream[r]
        BY <1>b, <4>1 DEF TypeOK, StreamType
      <4> QED
        BY <4>2 DEF Answering
    <3>3. CASE stream' = [stream EXCEPT ![s] = [IdleStream EXCEPT !.pc = "next", !.gen = current]]
      <4>1. stream'[s].pc = "next" /\ \A r \in Streams \ {s} : stream'[r] = stream[r]
        BY <1>b, <3>3 DEF TypeOK, StreamType, IdleStream
      <4> QED
        BY <4>1 DEF Answering
    <3> QED
      BY <1>9, <3>1, <3>2, <3>3 DEF RedeemStream, Peek, DropStream
  <2> QED
    BY <1>u, <2>1, <2>2
<1>10. ASSUME NEW s \in Streams, RedeemTicket(s) PROVE LedgerStep /\ LedgerInv'
  <2> DEFINE t == stream[s].ticket
  <2>1. UNCHANGED <<table, settled, offered, inserter>> /\ Answering(s)
    BY <1>10 DEF RedeemTicket, StreamUnchanged, Answering
  <2>2. \A r \in Streams : Answering(r)' => Answering(r) /\ stream'[r].ticket = stream[r].ticket
    <3>1. CASE DropRedeemState(s)
      BY <1>b, <3>1, DropAnswers
    <3>2. CASE \E x \in {"Redeemed"} \cup RejectionsOf(t) :
                 stream' = [stream EXCEPT ![s].pc = "settle", ![s].result = x]
      <4>1. stream'[s].ticket = stream[s].ticket /\ \A r \in Streams \ {s} : stream'[r] = stream[r]
        BY <1>b, <3>2 DEF TypeOK, StreamType
      <4> QED
        BY <2>1, <4>1 DEF Answering
    <3> QED
      BY <1>10, <3>1, <3>2 DEF RedeemTicket
  <2>3. CASE UNCHANGED landed
    BY <1>u, <2>1, <2>2, <2>3
  <2>4. CASE /\ Redeemable(t) /\ landed' = landed \cup {t}
             /\ chain' = [chain EXCEPT !.ticket_index = t.index + 1, !.stake = Minus(@, t.amount)]
    <3>1. /\ t \in Tickets /\ t.epoch \in Nat /\ t.index \in Nat
          /\ chain.epoch = t.epoch /\ chain.ticket_index \in Nat /\ chain.ticket_index <= t.index
          /\ chain'.epoch = t.epoch /\ chain'.ticket_index = t.index + 1
      BY <1>b, <2>4, Constants DEF TypeOK, StreamType, ChainType, Redeemable, Invalid
    <3>2. t \in table \cup settled
      BY <2>1 DEF LedgerInv
    <3>3. ASSUME NEW u \in landed PROVE Ledger!Precedes(u, t)
      <4>1. Spent(u) /\ u.epoch \in Nat /\ u.index \in Nat
        BY <1>b, Constants DEF LedgerInv, TypeOK
      <4> QED
        BY <3>1, <4>1 DEF Spent, Ledger!Precedes
    <3>4. \A u \in table \ {t} : u.epoch = t.epoch => Ledger!Precedes(t, u)
      BY <2>1 DEF AnsweredInv, Ledger!Precedes
    <3>5. Ledger!Redeem(t)
      BY <2>1, <2>4, <3>2, <3>3, <3>4 DEF Ledger!Redeem
    <3>6. \A u \in landed' : Spent(u)'
      <4>1. ASSUME NEW u \in landed', u = t PROVE Spent(u)'
        BY <3>1, <4>1 DEF Spent
      <4>2. \A u \in landed : Spent(u)'
        BY <1>b, SpentStable DEF LedgerInv, TypeOK
      <4>3. landed' = landed \cup {t}
        BY <2>4
      <4> QED
        BY <4>1, <4>2, <4>3
    <3>7. Booked' = Booked
      BY <2>1, <2>4, <3>2 DEF Booked
    <3>8. \A r \in Streams : Answering(r)' => stream'[r].ticket \in table' \cup settled'
      BY <2>1, <2>2 DEF LedgerInv
    <3>9. inserter'.pc = "vacant" =>
            \A u \in Booked' : u.epoch = inserter'.ticket.epoch => u.index < inserter'.ticket.index
      BY <2>1, <3>7 DEF LedgerInv
    <3>10. LedgerInv'
      BY <1>o, <2>1, <3>6, <3>8, <3>9 DEF LedgerInv
    <3> QED
      BY <3>1, <3>5, <3>10 DEF LedgerStep, Ledger!Next
  <2> QED
    BY <1>10, <2>3, <2>4 DEF RedeemTicket
<1>11. ASSUME NEW s \in Streams, CompleteRedemption(s) PROVE LedgerStep /\ LedgerInv'
  <2> DEFINE t == stream[s].ticket
  <2>1. UNCHANGED <<landed, offered, inserter>> /\ Answering(s)
    BY <1>11 DEF CompleteRedemption, PopFails, StreamUnchanged, Answering
  <2>2. \A r \in Streams : Answering(r)' => Answering(r) /\ stream'[r].ticket = stream[r].ticket
    <3>1. CASE DropRedeemState(s)
      BY <1>b, <3>1, DropAnswers
    <3>2. CASE stream' = [stream EXCEPT ![s] = [IdleStream EXCEPT !.pc = "next", !.gen = stream[s].gen]]
      <4>1. stream'[s].pc = "next" /\ \A r \in Streams \ {s} : stream'[r] = stream[r]
        BY <1>b, <3>2 DEF TypeOK, StreamType, IdleStream
      <4> QED
        BY <4>1 DEF Answering
    <3> QED
      BY <1>11, <3>1, <3>2 DEF CompleteRedemption, PopFails
  <2>3. CASE UNCHANGED <<table, settled>>
    BY <1>u, <2>1, <2>2, <2>3
  <2>4. CASE table' = table \ Popped(t) /\ settled' = settled \cup {t}
    <3>1. t \in table \cup settled
      BY <2>1 DEF LedgerInv
    <3>2. t \in table => IsHead(t, table)
      BY <1>e, <2>1 DEF AnsweredInv, IsHead, Before
    <3>3. CASE t \in table
      <4>1. Popped(t) = {t} /\ \A u \in table \ {t} : Before(t, u)
        BY <3>2, <3>3 DEF Popped, IsHead
      <4>2. table' = table \ {t}
        BY <2>4, <4>1
      <4> HIDE DEF t
      <4>3. Ledger!Next
        <5>1. {t} \in SUBSET table /\ \A x \in {t}, u \in table \ {t} : Before(x, u)
          BY <3>3, <4>1
        <5> QED
          BY <2>1, <2>4, <4>2, <5>1, ReturnStep
      <4>4. LedgerInv'
        BY <1>b, <1>o, <2>1, <2>2, <2>4, <3>3, <4>2, LedgerStays
      <4> QED
        BY <4>3, <4>4 DEF LedgerStep
    <3>4. CASE t \notin table
      <4>1. UNCHANGED <<table, settled>>
        BY <2>4, <3>1, <3>4 DEF Popped, IsHead
      <4> QED
        BY <2>3, <4>1
    <3> QED
      BY <3>3, <3>4
  <2> QED
    BY <1>11, <2>3, <2>4 DEF CompleteRedemption, PopFails
<1>12. CASE NeglectEnd \/ \E n \in UpTo : NeglectTickets(n)
  <2>1. UNCHANGED <<table, settled, landed, offered, inserter, stream>>
    BY <1>12 DEF NeglectEnd, NeglectTickets, NeglectUnchanged
  <2> QED
    BY <1>u, <2>1 DEF Answering
<1>13. CASE NeglectNext
  <2>1. UNCHANGED <<landed, offered, inserter, stream>>
    BY <1>13 DEF NeglectNext, NeglectUnchanged
  <2>2. PICK t \in table : IsHead(t, table) /\ table' = table \ {t} /\ settled' = settled \cup {t}
    BY <1>13 DEF NeglectNext
  <2>3. Ledger!Next
    <3>1. {t} \in SUBSET table /\ \A x \in {t}, u \in table \ {t} : Before(x, u)
      BY <2>2 DEF IsHead
    <3> QED
      BY <2>1, <2>2, <3>1, ReturnStep
  <2>4. LedgerInv'
    BY <1>b, <1>o, <2>1, <2>2, LedgerStays DEF Answering
  <2> QED
    BY <2>3, <2>4 DEF LedgerStep
<1>14. ~NeglectFails
  BY DEF NeglectFails
<1> QED
  BY <1>1, <1>2, <1>3, <1>4, <1>5, <1>6, <1>7, <1>8, <1>9, <1>10, <1>11, <1>12, <1>13, <1>14
     DEF Next, SyncStep, InsertStep, StreamStep, NeglectStep

\* When tickets are received in order and the store does not fail, the manager
\* implements the ledger: over restarts, and whatever is neglected, drained and
\* synchronised while a stream waits, every ticket is returned in order once it was
\* received, and the chain takes each at most once and never at another's cost.
THEOREM LedgerImplemented ==
    ASSUME InOrder, ~SyncConcurrently, ~StoreMayFail
    PROVE  Spec => ImplementsLedger
<1>1. ASSUME Init PROVE Ledger!Init /\ LedgerInv
  <2>1. table = {} /\ settled = {} /\ landed = {} /\ inserter.pc = "idle"
    BY <1>1 DEF Init, IdleInsert
  <2>2. \A s \in Streams : ~Answering(s)
    BY <1>1 DEF Init, Answering, IdleStream
  <2> QED
    BY <2>1, <2>2 DEF Ledger!Init, LedgerInv
<1>2. Base /\ TypeOK' /\ AnsweredInv /\ LandedInv /\ LedgerInv /\ [Next]_vars => LedgerInv'
  BY LedgerNext
<1>3. Base /\ TypeOK' /\ AnsweredInv /\ LandedInv /\ LedgerInv /\ [Next]_vars
      => [Ledger!Next]_(Ledger!ledgerVars)
  BY LedgerNext DEF LedgerStep, Ledger!ledgerVars
<1>4. Init => Ledger!Init /\ LedgerInv
  BY <1>1
<1> QED
  BY <1>2, <1>3, <1>4, TypeCorrect, BaseCorrect, AnsweredCorrect, LandedCorrect, PTL
     DEF Spec, ImplementsLedger, Ledger!Spec
=============================================================================
