---------------------------- MODULE Graph_proofs ----------------------------
(***************************************************************************)
(* TLAPS proofs about MCGraph: the views of the network graph agree, inside *)
(* and handed out; both directions of an edge to a neighbour say the same; *)
(* reports are recorded on the edges they are about; scores follow what was *)
(* observed; the path search finds what there is; probers probe every peer *)
(* in time; sessions follow the allow list and the rules; and the loopback *)
(* service echoes what it gets.                                            *)
(***************************************************************************)
EXTENDS MCGraph, FiniteSetTheorems, WellFoundedInduction, TLAPS

USE GraphAssumption

-----------------------------------------------------------------------------
(* Graphs that are put together right. *)

IsObservations(o) ==
    o = [immediate |-> o.immediate, intermediate |-> o.intermediate, health |-> o.health,
         last_update |-> o.last_update]

\* The vertices, the index, the slots and the edges of a graph fit together.
Fit(v, ix, sl, w) ==
    /\ v \in Seq(GraphKeys) /\ ix \in [GraphKeys -> Nat] /\ ix[me] # 0
    /\ \A k \in GraphKeys : ix[k] # 0 => ix[k] \in 1..Len(v) /\ v[ix[k]] = k
    /\ sl = [s \in SlotValues |-> {ix[k] : k \in {l \in GraphKeys : ix[l] # 0 /\ Encode[l] = s}}]
    /\ w = [e \in DOMAIN w |-> w[e]]
    /\ \A e \in DOMAIN w : IsObservations(w[e])
    /\ \A e \in DOMAIN w : \E k, l \in GraphKeys : ix[k] # 0 /\ ix[l] # 0 /\ e = <<ix[k], ix[l]>>

OkGraph(g) ==
    /\ g = [vertices |-> g.vertices, index |-> g.index, slots |-> g.slots, weight |-> g.weight]
    /\ Fit(g.vertices, g.index, g.slots, g.weight)

\* What the graph has observed immediately of the edge between two keys.
Seen(g, a, b) == IF EdgeOf(g, a, b) \in DOMAIN g.weight THEN Immediates(g.weight[EdgeOf(g, a, b)]) ELSE NoImmediates

HasEdge(g, a, b) == EdgeOf(g, a, b) \in DOMAIN g.weight

\* A call that adds to the graph.
Grown(g, h) ==
    /\ \A a \in GraphKeys : g.index[a] # 0 => h.index[a] = g.index[a]
    /\ \A a, b \in GraphKeys : HasEdge(g, a, b) => HasEdge(h, a, b)
\* A call that tells nothing of immediate observations.
SameSeen(g, h) == \A a, b \in GraphKeys : Seen(h, a, b) = Seen(g, a, b)

LEMMA FitTypes ==
    ASSUME NEW v, NEW ix, NEW sl, NEW w, Fit(v, ix, sl, w)
    PROVE  v \in Seq(GraphKeys) /\ Len(v) \in Nat /\ ix \in [GraphKeys -> Nat] /\ ix[me] # 0
<1>1. v \in Seq(GraphKeys) /\ ix \in [GraphKeys -> Nat] /\ ix[me] # 0
  BY Zenon DEF Fit
<1> QED
  BY <1>1

LEMMA Slotted == ASSUME NEW k \in GraphKeys PROVE Encode[k] \in SlotValues /\ Encode[k] \in Nat \ {0}
<1>1. Encode \in [GraphKeys -> Nat \ {0}]
  BY DEF GraphAssumption
<1> QED
  BY <1>1 DEF SlotValues

\* Keys with one index are one key, and no edge leads to a key without.
LEMMA IndexInjective ==
    ASSUME NEW g, OkGraph(g), NEW a \in GraphKeys, NEW b \in GraphKeys, g.index[a] = g.index[b], g.index[a] # 0
    PROVE  a = b
<1>1. g.vertices[g.index[a]] = a
  BY DEF OkGraph, Fit
<1>2. g.vertices[g.index[b]] = b
  BY DEF OkGraph, Fit
<1> QED
  BY <1>1, <1>2

LEMMA EdgeHasEnds ==
    ASSUME NEW g, OkGraph(g), NEW a \in GraphKeys, NEW b \in GraphKeys, HasEdge(g, a, b)
    PROVE  g.index[a] # 0 /\ g.index[b] # 0
BY DEF OkGraph, Fit, HasEdge, EdgeOf

LEMMA SeenUnknown ==
    ASSUME NEW g, OkGraph(g), NEW a \in GraphKeys, NEW b \in GraphKeys, g.index[a] = 0 \/ g.index[b] = 0
    PROVE  Seen(g, a, b) = NoImmediates
BY EdgeHasEnds DEF Seen, HasEdge

\* Pairs of keys with the same edge are the same pair.
LEMMA EdgeInjective ==
    ASSUME NEW g, OkGraph(g), NEW a \in GraphKeys, NEW b \in GraphKeys, NEW c \in GraphKeys, NEW d \in GraphKeys,
           EdgeOf(g, a, b) = EdgeOf(g, c, d), HasEdge(g, a, b)
    PROVE  a = c /\ b = d
<1>1. g.index[a] = g.index[c] /\ g.index[b] = g.index[d]
  BY DEF EdgeOf
<1> QED
  BY <1>1, EdgeHasEnds, IndexInjective

LEMMA FitAddVertex ==
    ASSUME NEW v, NEW ix, NEW sl, NEW w, Fit(v, ix, sl, w), NEW k \in GraphKeys, ix[k] = 0
    PROVE  Fit(Append(v, k), [ix EXCEPT ![k] = Len(v) + 1], [sl EXCEPT ![Encode[k]] = @ \cup {Len(v) + 1}], w)
<1> DEFINE n == Len(v) + 1
           v2 == Append(v, k)
           ix2 == [ix EXCEPT ![k] = n]
           sl2 == [sl EXCEPT ![Encode[k]] = @ \cup {n}]
           Claims(s) == {l \in GraphKeys : ix[l] # 0 /\ Encode[l] = s}
           Claims2(s) == {l \in GraphKeys : ix2[l] # 0 /\ Encode[l] = s}
<1>1. v \in Seq(GraphKeys) /\ ix \in [GraphKeys -> Nat] /\ n \in Nat /\ n # 0 /\ Len(v) \in Nat
  <2> HIDE DEF v2, ix2, sl2, Claims, Claims2
  <2>1. v \in Seq(GraphKeys) /\ ix \in [GraphKeys -> Nat] /\ Len(v) \in Nat
    BY FitTypes
  <2> QED
    BY <2>1
<1>2. v2 \in Seq(GraphKeys) /\ Len(v2) = n /\ v2[n] = k /\ \A i \in 1..Len(v) : v2[i] = v[i]
  BY <1>1
<1>3. ix2 \in [GraphKeys -> Nat] /\ ix2[k] = n /\ \A l \in GraphKeys \ {k} : ix2[l] = ix[l]
  BY <1>1
<1>4. \A l \in GraphKeys : ix2[l] # 0 => ix2[l] \in 1..Len(v2) /\ v2[ix2[l]] = l
  <2> SUFFICES ASSUME NEW l \in GraphKeys, ix2[l] # 0 PROVE ix2[l] \in 1..Len(v2) /\ v2[ix2[l]] = l
    OBVIOUS
  <2>1. CASE l = k
    BY <1>1, <1>2, <1>3, <2>1
  <2>2. CASE l # k
    <3>1. ix[l] \in 1..Len(v) /\ v[ix[l]] = l /\ ix2[l] = ix[l]
      BY <1>3, <2>2 DEF Fit
    <3> QED
      BY <1>1, <1>2, <3>1
  <2> QED
    BY <2>1, <2>2
<1>5. sl2 = [s \in SlotValues |-> {ix2[l] : l \in Claims2(s)}]
  <2>1. sl = [s \in SlotValues |-> {ix[l] : l \in Claims(s)}]
    BY DEF Fit
  <2>2. ASSUME NEW s \in SlotValues
        PROVE  {ix2[l] : l \in Claims2(s)} = IF s = Encode[k] THEN {ix[l] : l \in Claims(s)} \cup {n}
                                             ELSE {ix[l] : l \in Claims(s)}
    BY <1>1, <1>3
  <2> HIDE DEF ix2, n, Claims, Claims2
  <2> QED
    BY <2>1, <2>2, Slotted
<1>6. \A e \in DOMAIN w : \E a, b \in GraphKeys : ix2[a] # 0 /\ ix2[b] # 0 /\ e = <<ix2[a], ix2[b]>>
  <2> SUFFICES ASSUME NEW e \in DOMAIN w
               PROVE  \E a, b \in GraphKeys : ix2[a] # 0 /\ ix2[b] # 0 /\ e = <<ix2[a], ix2[b]>>
    OBVIOUS
  <2>1. PICK a \in GraphKeys, b \in GraphKeys : ix[a] # 0 /\ ix[b] # 0 /\ e = <<ix[a], ix[b]>>
    BY DEF Fit
  <2>2. a # k /\ b # k
    BY <2>1
  <2> QED
    BY <1>3, <2>1, <2>2
<1>7. ix2[me] # 0
  BY <1>1, <1>3 DEF Fit
<1> HIDE DEF n, v2, ix2, sl2
<1> QED
  BY <1>2, <1>3, <1>4, <1>5, <1>6, <1>7 DEF Fit, n, v2, ix2, sl2

\* A node is added: it is in the graph, and nothing else has changed.
LEMMA AddNodeFits ==
    ASSUME NEW g, OkGraph(g), NEW k \in GraphKeys
    PROVE  /\ OkGraph(AddNode(g, k)) /\ AddNode(g, k).index[k] # 0
           /\ Grown(g, AddNode(g, k)) /\ SameSeen(g, AddNode(g, k))
<1>1. CASE g.index[k] # 0
  <2>1. AddNode(g, k) = g
    BY <1>1 DEF AddNode
  <2> QED
    BY <1>1, <2>1 DEF Grown, SameSeen
<1>2. CASE g.index[k] = 0
  <2> DEFINE n == Len(g.vertices) + 1
             h == [vertices |-> Append(g.vertices, k), index |-> [g.index EXCEPT ![k] = n],
                   slots |-> [g.slots EXCEPT ![Encode[k]] = @ \cup {n}], weight |-> g.weight]
  <2>1. AddNode(g, k) = h
    BY <1>2, Zenon DEF AddNode, ClaimSlot, OkGraph
  <2>2. OkGraph(h)
    BY <1>2, FitAddVertex DEF OkGraph
  <2>3. g.index \in [GraphKeys -> Nat] /\ n # 0 /\ g.vertices \in Seq(GraphKeys)
    <3> HIDE DEF h
    <3>1. g.index \in [GraphKeys -> Nat] /\ Len(g.vertices) \in Nat /\ g.vertices \in Seq(GraphKeys)
      BY FitTypes, Zenon DEF OkGraph
    <3> QED
      BY <3>1
  <2>4. h.index[k] = n /\ (\A a \in GraphKeys \ {k} : h.index[a] = g.index[a]) /\ h.weight = g.weight
    BY <2>3
  <2> HIDE DEF h
  <2>5. ASSUME NEW a \in GraphKeys, NEW b \in GraphKeys
        PROVE  (HasEdge(g, a, b) => HasEdge(h, a, b)) /\ Seen(h, a, b) = Seen(g, a, b)
    <3>1. CASE a # k /\ b # k
      BY <2>4, <3>1 DEF HasEdge, Seen, EdgeOf
    <3>2. CASE a = k \/ b = k
      <4>1. ~HasEdge(g, a, b)
        BY <1>2, <3>2, EdgeHasEnds
      <4>2. ~HasEdge(h, a, b)
        <5> SUFFICES ASSUME HasEdge(h, a, b) PROVE FALSE
          OBVIOUS
        <5>1. PICK c \in GraphKeys, d \in GraphKeys :
                 g.index[c] # 0 /\ g.index[d] # 0 /\ EdgeOf(h, a, b) = <<g.index[c], g.index[d]>>
          BY <2>4 DEF HasEdge, OkGraph, Fit
        <5>2. g.index[c] \in 1..Len(g.vertices) /\ g.index[d] \in 1..Len(g.vertices)
          BY <5>1 DEF OkGraph, Fit
        <5>3. n \in {g.index[c], g.index[d]}
          BY <2>4, <3>2, <5>1 DEF EdgeOf
        <5>4. Len(g.vertices) \in Nat
          BY <2>3
        <5> QED
          BY <5>2, <5>3, <5>4
      <4> QED
        BY <4>1, <4>2 DEF HasEdge, Seen
    <3> QED
      BY <3>1, <3>2
  <2>6. \A a \in GraphKeys : g.index[a] # 0 => h.index[a] = g.index[a]
    BY <1>2, <2>4
  <2> HIDE DEF n
  <2> QED
    BY <2>1, <2>2, <2>3, <2>4, <2>5, <2>6 DEF Grown, SameSeen
<1> QED
  BY <1>1, <1>2

\* A node is removed: nothing is left of it, and nothing else has changed.
LEMMA RemoveNodeFits ==
    ASSUME NEW g, OkGraph(g), NEW k \in GraphKeys \ {me}
    PROVE  /\ OkGraph(RemoveNode(g, k)) /\ RemoveNode(g, k).index[k] = 0
           /\ RemoveNode(g, k).vertices = g.vertices
           /\ \A a \in GraphKeys \ {k} : RemoveNode(g, k).index[a] = g.index[a]
           /\ \A a, b \in GraphKeys \ {k} : /\ HasEdge(RemoveNode(g, k), a, b) <=> HasEdge(g, a, b)
                                            /\ Seen(RemoveNode(g, k), a, b) = Seen(g, a, b)
<1>1. CASE g.index[k] = 0
  BY <1>1 DEF RemoveNode
<1>2. CASE g.index[k] # 0
  <2> DEFINE i == g.index[k]
             kept == {e \in DOMAIN g.weight : e[1] # i /\ e[2] # i}
             w == [e \in kept |-> g.weight[e]]
             ix == [g.index EXCEPT ![k] = 0]
             sl == [g.slots EXCEPT ![Encode[k]] = @ \ {i}]
             h == [vertices |-> g.vertices, index |-> ix, slots |-> sl, weight |-> w]
  <2>1. RemoveNode(g, k) = h
    BY <1>2, Zenon DEF RemoveNode, ReleaseSlot, OkGraph
  <2>2. ix \in [GraphKeys -> Nat] /\ ix[k] = 0 /\ \A l \in GraphKeys \ {k} : ix[l] = g.index[l]
    BY DEF OkGraph, Fit
  <2>3. \A l \in GraphKeys \ {k} : g.index[l] # i
    BY <1>2, IndexInjective
  <2>4. sl = [s \in SlotValues |-> {ix[l] : l \in {m \in GraphKeys : ix[m] # 0 /\ Encode[m] = s}}]
    <3>1. g.slots = [s \in SlotValues |-> {g.index[l] : l \in {m \in GraphKeys : g.index[m] # 0 /\ Encode[m] = s}}]
      BY DEF OkGraph, Fit
    <3>2. ASSUME NEW s \in SlotValues
          PROVE  {ix[l] : l \in {m \in GraphKeys : ix[m] # 0 /\ Encode[m] = s}}
                    = IF s = Encode[k] THEN {g.index[l] : l \in {m \in GraphKeys : g.index[m] # 0 /\ Encode[m] = s}} \ {i}
                      ELSE {g.index[l] : l \in {m \in GraphKeys : g.index[m] # 0 /\ Encode[m] = s}}
      <4> HIDE DEF ix
      <4>1. CASE s = Encode[k]
        <5> HIDE DEF i
        <5>1. i = g.index[k]
          BY DEF i
        <5> QED
          BY <2>2, <2>3, <4>1, <5>1
      <4>2. CASE s # Encode[k]
        BY <2>2, <4>2
      <4> QED
        BY <4>1, <4>2
    <3> HIDE DEF ix, i
    <3> QED
      BY <3>1, <3>2, Slotted
  <2>5. \A e \in kept : \E a, b \in GraphKeys : ix[a] # 0 /\ ix[b] # 0 /\ e = <<ix[a], ix[b]>>
    <3> SUFFICES ASSUME NEW e \in kept PROVE \E a, b \in GraphKeys : ix[a] # 0 /\ ix[b] # 0 /\ e = <<ix[a], ix[b]>>
      OBVIOUS
    <3>1. PICK a \in GraphKeys, b \in GraphKeys : g.index[a] # 0 /\ g.index[b] # 0 /\ e = <<g.index[a], g.index[b]>>
      BY DEF OkGraph, Fit
    <3>2. a # k /\ b # k
      BY <3>1
    <3> QED
      BY <2>2, <3>1, <3>2
  <2>6. w = [e \in DOMAIN w |-> w[e]] /\ DOMAIN w = kept /\ \A e \in kept : w[e] = g.weight[e]
    OBVIOUS
  <2>7. OkGraph(h)
    <3>1. \A e \in kept : IsObservations(w[e])
      BY <2>6 DEF OkGraph, Fit
    <3>2. \A l \in GraphKeys : ix[l] # 0 => ix[l] \in 1..Len(g.vertices) /\ g.vertices[ix[l]] = l
      BY <2>2 DEF OkGraph, Fit
    <3>3. g.vertices \in Seq(GraphKeys) /\ ix[me] # 0
      BY <2>2, GraphAssumption DEF OkGraph, Fit
    <3> HIDE DEF ix, sl, w, kept
    <3>4. Fit(g.vertices, ix, sl, w)
      BY <2>2, <2>4, <2>5, <2>6, <3>1, <3>2, <3>3 DEF Fit
    <3>5. h.vertices = g.vertices /\ h.index = ix /\ h.slots = sl /\ h.weight = w
      OBVIOUS
    <3> QED
      BY <3>4, <3>5 DEF OkGraph
  <2>8. \A a, b \in GraphKeys \ {k} : EdgeOf(g, a, b) \in kept <=> HasEdge(g, a, b)
    BY <2>3 DEF HasEdge, EdgeOf
  <2>9. h.index = ix /\ h.weight = w /\ h.vertices = g.vertices
    OBVIOUS
  <2>10. \A a, b \in GraphKeys \ {k} : EdgeOf(h, a, b) = EdgeOf(g, a, b)
    BY <2>2, <2>9 DEF EdgeOf
  <2> HIDE DEF h, ix, sl, w, kept
  <2> QED
    BY <2>1, <2>2, <2>6, <2>7, <2>8, <2>9, <2>10 DEF HasEdge, Seen
<1> QED
  BY <1>1, <1>2

\* The weights are replaced by others that fit.
LEMMA Reweighted ==
    ASSUME NEW g, OkGraph(g), NEW w, w = [e \in DOMAIN w |-> w[e]], \A e \in DOMAIN w : IsObservations(w[e]),
           \A e \in DOMAIN w : e \in DOMAIN g.weight
                \/ \E k, l \in GraphKeys : g.index[k] # 0 /\ g.index[l] # 0 /\ e = <<g.index[k], g.index[l]>>,
           NEW h, h = [g EXCEPT !.weight = w]
    PROVE  /\ OkGraph(h)
           /\ h.vertices = g.vertices /\ h.index = g.index /\ h.slots = g.slots /\ h.weight = w
           /\ \A a, b \in GraphKeys : (HasEdge(h, a, b) <=> EdgeOf(g, a, b) \in DOMAIN w) /\ EdgeOf(h, a, b) = EdgeOf(g, a, b)
<1>1. h = [vertices |-> g.vertices, index |-> g.index, slots |-> g.slots, weight |-> w]
  BY DEF OkGraph
<1>2. h.vertices = g.vertices /\ h.index = g.index /\ h.slots = g.slots /\ h.weight = w
  BY <1>1
<1>3. \A e \in DOMAIN w : \E k, l \in GraphKeys : g.index[k] # 0 /\ g.index[l] # 0 /\ e = <<g.index[k], g.index[l]>>
  BY DEF OkGraph, Fit
<1>4. Fit(g.vertices, g.index, g.slots, w)
  BY <1>3 DEF OkGraph, Fit
<1>5. OkGraph(h)
  BY <1>1, <1>2, <1>4 DEF OkGraph
<1> QED
  BY <1>2, <1>5 DEF HasEdge, EdgeOf

\* An edge is added: it exists, and nothing was observed of it.
LEMMA AddEdgeFits ==
    ASSUME NEW g, OkGraph(g), NEW a \in GraphKeys, NEW b \in GraphKeys, g.index[a] # 0, g.index[b] # 0
    PROVE  /\ OkGraph(AddEdge(g, a, b)) /\ HasEdge(AddEdge(g, a, b), a, b)
           /\ AddEdge(g, a, b).index = g.index
           /\ Grown(g, AddEdge(g, a, b)) /\ SameSeen(g, AddEdge(g, a, b))
<1> DEFINE e == EdgeOf(g, a, b)
           w == [d \in (DOMAIN g.weight) \cup {e} |-> IF d = e THEN NoObservations ELSE g.weight[d]]
<1>1. 0 \notin ToSet(e)
  BY DEF EdgeOf, ToSet
<1>2. CASE e \in DOMAIN g.weight
  BY <1>1, <1>2 DEF AddEdge, HasEdge, Grown, SameSeen
<1>3. CASE e \notin DOMAIN g.weight
  <2>1. AddEdge(g, a, b) = [g EXCEPT !.weight = w]
    BY <1>1, <1>3, Zenon DEF AddEdge
  <2>2. IsObservations(NoObservations) /\ Immediates(NoObservations) = NoImmediates
    BY DEF IsObservations, NoObservations, Immediates
  <2>3. /\ w = [d \in DOMAIN w |-> w[d]] /\ DOMAIN w = (DOMAIN g.weight) \cup {e}
        /\ w[e] = NoObservations /\ \A d \in DOMAIN g.weight : w[d] = g.weight[d]
    BY <1>3
  <2>4. \A d \in DOMAIN w : IsObservations(w[d])
    BY <2>2, <2>3 DEF OkGraph, Fit
  <2>5. e = <<g.index[a], g.index[b]>>
    BY DEF EdgeOf
  <2> HIDE DEF w
  <2>6. \A d \in DOMAIN w : d \in DOMAIN g.weight
                \/ \E k, l \in GraphKeys : g.index[k] # 0 /\ g.index[l] # 0 /\ d = <<g.index[k], g.index[l]>>
    BY <2>3, <2>5
  <2> HIDE DEF e
  <2> DEFINE h == AddEdge(g, a, b)
  <2> HIDE DEF h
  <2>0. h = [g EXCEPT !.weight = w]
    BY <2>1 DEF h
  <2>7. /\ OkGraph(h) /\ h.index = g.index /\ h.weight = w
        /\ \A c, d \in GraphKeys : (HasEdge(h, c, d) <=> EdgeOf(g, c, d) \in DOMAIN w) /\ EdgeOf(h, c, d) = EdgeOf(g, c, d)
    BY <2>0, <2>3, <2>4, <2>6, Reweighted
  <2>8. \A c, d \in GraphKeys : (HasEdge(g, c, d) => HasEdge(h, c, d)) /\ Seen(h, c, d) = Seen(g, c, d)
    BY <1>3, <2>2, <2>3, <2>7 DEF HasEdge, Seen
  <2>9. HasEdge(h, a, b)
    BY <2>3, <2>7 DEF e
  <2> QED
    BY <2>7, <2>8, <2>9 DEF Grown, SameSeen, h
<1> QED
  BY <1>2, <1>3

\* An edge is removed, and nothing else has changed.
LEMMA RemoveEdgeFits ==
    ASSUME NEW g, OkGraph(g), NEW a \in GraphKeys, NEW b \in GraphKeys, HasEdge(g, a, b)
    PROVE  /\ OkGraph(RemoveEdge(g, a, b))
           /\ RemoveEdge(g, a, b).index = g.index /\ RemoveEdge(g, a, b).vertices = g.vertices
           /\ \A c, d \in GraphKeys : <<c, d>> # <<a, b>> =>
                    /\ HasEdge(RemoveEdge(g, a, b), c, d) <=> HasEdge(g, c, d)
                    /\ Seen(RemoveEdge(g, a, b), c, d) = Seen(g, c, d)
<1> DEFINE e == EdgeOf(g, a, b)
           w == [d \in (DOMAIN g.weight) \ {e} |-> g.weight[d]]
           h == RemoveEdge(g, a, b)
<1>1. h = [g EXCEPT !.weight = w]
  BY Zenon DEF RemoveEdge
<1>2. w = [d \in DOMAIN w |-> w[d]] /\ DOMAIN w = (DOMAIN g.weight) \ {e} /\ \A d \in DOMAIN w : w[d] = g.weight[d]
  OBVIOUS
<1>3. \A d \in DOMAIN w : IsObservations(w[d]) /\ d \in DOMAIN g.weight
  BY <1>2 DEF OkGraph, Fit
<1> HIDE DEF w, e, h
<1>4. /\ OkGraph(h) /\ h.index = g.index /\ h.weight = w /\ h.vertices = g.vertices
      /\ \A c, d \in GraphKeys : (HasEdge(h, c, d) <=> EdgeOf(g, c, d) \in DOMAIN w) /\ EdgeOf(h, c, d) = EdgeOf(g, c, d)
  BY <1>1, <1>2, <1>3, Reweighted
<1>5. \A c, d \in GraphKeys : <<c, d>> # <<a, b>> => EdgeOf(g, c, d) # e
  BY EdgeInjective DEF e
<1>6. \A c, d \in GraphKeys : <<c, d>> # <<a, b>> => (HasEdge(h, c, d) <=> HasEdge(g, c, d)) /\ Seen(h, c, d) = Seen(g, c, d)
  BY <1>2, <1>4, <1>5 DEF HasEdge, Seen
<1> QED
  BY <1>4, <1>6 DEF h
-----------------------------------------------------------------------------
(* Measurements. *)

\* What a measurement makes of immediate observations.
Told(imm, m) ==
    IF m.kind = "Immediate" THEN [imm EXCEPT !.link = LinkRecord(@, m.value)]
    ELSE IF m.kind = "Connected" THEN [imm EXCEPT !.is_connected = m.value] ELSE imm
Kept(imm) == IF imm = Missing THEN NoImmediates ELSE imm
After(imm, ms) == IF Len(ms) = 1 THEN Kept(Told(imm, ms[1])) ELSE Kept(Told(Kept(Told(imm, ms[1])), ms[2]))

GraphKinds == {"Immediate", "Connected", "Intermediate", "Balance", "Surb"}
Report(ms) == Len(ms) \in {1, 2} /\ \A i \in 1..Len(ms) : ms[i].kind \in GraphKinds
\* A report that says nothing of immediate observations.
Indirect(ms) == Report(ms) /\ \A i \in 1..Len(ms) : ms[i].kind \notin {"Immediate", "Connected"}

LEMMA RecordOne ==
    ASSUME NEW o, IsObservations(o), NEW m, m.kind \in GraphKinds, NEW t
    PROVE  IsObservations(Record(o, m, t)) /\ Immediates(Record(o, m, t)) = Kept(Told(Immediates(o), m))
<1> DEFINE imm == Immediates(o)
           inter == Intermediates(o)
           at == [o EXCEPT !.last_update = t]
<1>1. at = [immediate |-> o.immediate, intermediate |-> o.intermediate, health |-> o.health, last_update |-> t]
  BY DEF IsObservations
<1> HIDE DEF at
<1>2. ASSUME NEW x
      PROVE  /\ IsObservations([at EXCEPT !.immediate = x]) /\ [at EXCEPT !.immediate = x].immediate = x
             /\ IsObservations([at EXCEPT !.intermediate = x]) /\ [at EXCEPT !.intermediate = x].immediate = o.immediate
  <2>1. [at EXCEPT !.immediate = x] = [immediate |-> x, intermediate |-> o.intermediate, health |-> o.health, last_update |-> t]
    BY <1>1
  <2>2. [at EXCEPT !.intermediate = x] = [immediate |-> o.immediate, intermediate |-> x, health |-> o.health, last_update |-> t]
    BY <1>1
  <2> QED
    BY <2>1, <2>2 DEF IsObservations
<1>3. Kept(imm) = imm
  BY DEF Kept, Immediates
<1>4. CASE m.kind = "Immediate"
  <2>1. Record(o, m, t) = [at EXCEPT !.immediate = [imm EXCEPT !.link = LinkRecord(@, m.value)]]
    BY <1>4, Zenon DEF Record, at
  <2>2. Told(imm, m) = [imm EXCEPT !.link = LinkRecord(@, m.value)]
    BY <1>4, Zenon DEF Told
  <2> HIDE DEF imm
  <2>3. IsObservations(Record(o, m, t)) /\ Record(o, m, t).immediate = Told(imm, m)
    <3>1. Record(o, m, t) = [at EXCEPT !.immediate = Told(imm, m)]
      BY <2>1, <2>2, Zenon
    <3> QED
      BY <1>2, <3>1, Zenon
  <2> QED
    BY <2>3 DEF Immediates, Kept, imm
<1>5. CASE m.kind = "Connected"
  <2>1. Record(o, m, t) = [at EXCEPT !.immediate = [imm EXCEPT !.is_connected = m.value]]
    BY <1>5, Zenon DEF Record, at
  <2>2. Told(imm, m) = [imm EXCEPT !.is_connected = m.value]
    BY <1>5 DEF Told
  <2> HIDE DEF imm
  <2>3. IsObservations(Record(o, m, t)) /\ Record(o, m, t).immediate = Told(imm, m)
    <3>1. Record(o, m, t) = [at EXCEPT !.immediate = Told(imm, m)]
      BY <2>1, <2>2, Zenon
    <3> QED
      BY <1>2, <3>1, Zenon
  <2> QED
    BY <2>3 DEF Immediates, Kept, imm
<1>6. CASE m.kind \in {"Intermediate", "Balance", "Surb"}
  <2>1. PICK x : Record(o, m, t) = [at EXCEPT !.intermediate = x]
    <3>1. CASE m.kind = "Intermediate"
      <4>1. Record(o, m, t) = [at EXCEPT !.intermediate = [inter EXCEPT !.link = LinkRecord(@, m.value)]]
        BY <3>1, Zenon DEF Record, at
      <4> QED
        BY <4>1
    <3>2. CASE m.kind = "Balance"
      <4>1. Record(o, m, t) = [at EXCEPT !.intermediate = [inter EXCEPT !.balance = m.value]]
        BY <3>2, Zenon DEF Record, at
      <4> QED
        BY <4>1
    <3>3. CASE m.kind = "Surb"
      <4>1. Record(o, m, t) = [at EXCEPT !.intermediate = RecordSurbRoundTrips(inter, m.value[1], m.value[2], t)]
        BY <3>3, Zenon DEF Record, at
      <4> QED
        BY <4>1
    <3> QED
      BY <1>6, <3>1, <3>2, <3>3
  <2>2. IsObservations(Record(o, m, t)) /\ Record(o, m, t).immediate = o.immediate
    BY <1>2, <2>1
  <2>3. Told(imm, m) = imm
    BY <1>6 DEF Told
  <2> QED
    BY <1>3, <2>2, <2>3 DEF Immediates
<1> QED
  BY <1>4, <1>5, <1>6 DEF GraphKinds

LEMMA RecordReport ==
    ASSUME NEW o, IsObservations(o), NEW ms, Report(ms)
    PROVE  IsObservations(Recorded(o, ms)) /\ Immediates(Recorded(o, ms)) = After(Immediates(o), ms)
<1> DEFINE one == Record(o, ms[1], now)
<1>1. Len(ms) \in {1, 2} /\ ms[1].kind \in GraphKinds /\ (Len(ms) = 2 => ms[2].kind \in GraphKinds)
  BY DEF Report
<1>2. IsObservations(one) /\ Immediates(one) = Kept(Told(Immediates(o), ms[1]))
  BY <1>1, RecordOne
<1>3. CASE Len(ms) = 1
  BY <1>2, <1>3 DEF Recorded, After
<1>4. CASE Len(ms) = 2
  <2> HIDE DEF one
  <2>1. IsObservations(Record(one, ms[2], now))
        /\ Immediates(Record(one, ms[2], now)) = Kept(Told(Immediates(one), ms[2]))
    BY <1>1, <1>2, <1>4, RecordOne
  <2>2. Recorded(o, ms) = Record(one, ms[2], now)
    <3>1. Len(ms) # 1
      BY <1>4
    <3> QED
      BY <3>1, Zenon DEF Recorded, one
  <2>3. After(Immediates(o), ms) = Kept(Told(Kept(Told(Immediates(o), ms[1])), ms[2]))
    BY <1>4 DEF After
  <2> QED
    BY <1>2, <2>1, <2>2, <2>3
<1> QED
  BY <1>1, <1>3, <1>4

LEMMA IndirectTellsNothing ==
    ASSUME NEW ms, Indirect(ms), NEW o
    PROVE  After(Immediates(o), ms) = Immediates(o)
<1>1. Kept(Immediates(o)) = Immediates(o)
  BY DEF Kept, Immediates
<1>2. \A i \in 1..Len(ms) : Told(Immediates(o), ms[i]) = Immediates(o)
  BY DEF Indirect, Told
<1>3. Len(ms) = 1 \/ Len(ms) = 2
  BY DEF Indirect, Report
<1>4. 1 \in 1..Len(ms) /\ (Len(ms) = 2 => 2 \in 1..Len(ms))
  <2> DEFINE l == Len(ms)
  <2>1. l = 1 \/ l = 2
    BY <1>3
  <2> HIDE DEF l
  <2>2. 1 \in 1..l /\ (l = 2 => 2 \in 1..l)
    BY <2>1
  <2> QED
    BY <2>2 DEF l
<1> QED
  BY <1>1, <1>2, <1>3, <1>4 DEF After

\* A report is recorded on the edges it is about, and on no others.
LEMMA RecordAllFits ==
    ASSUME NEW g, OkGraph(g), NEW edges, NEW ms, Report(ms)
    PROVE  LET h == RecordAll(g, edges, ms)
           IN  /\ OkGraph(h)
               /\ h.vertices = g.vertices /\ h.index = g.index /\ DOMAIN h.weight = DOMAIN g.weight
               /\ \A a, b \in GraphKeys : (HasEdge(h, a, b) <=> HasEdge(g, a, b)) /\ EdgeOf(h, a, b) = EdgeOf(g, a, b)
               /\ \A a, b \in GraphKeys :
                    Seen(h, a, b) = IF HasEdge(g, a, b) /\ EdgeOf(g, a, b) \in edges THEN After(Seen(g, a, b), ms)
                                    ELSE Seen(g, a, b)
<1> DEFINE w == [e \in DOMAIN g.weight |-> IF e \in edges THEN Recorded(g.weight[e], ms) ELSE g.weight[e]]
           h == RecordAll(g, edges, ms)
<1>1. h = [g EXCEPT !.weight = w]
  BY Zenon DEF RecordAll
<1>2. w = [e \in DOMAIN w |-> w[e]] /\ DOMAIN w = DOMAIN g.weight
  OBVIOUS
<1>3. \A e \in DOMAIN g.weight : w[e] = IF e \in edges THEN Recorded(g.weight[e], ms) ELSE g.weight[e]
  OBVIOUS
<1>4. \A e \in DOMAIN g.weight : IsObservations(g.weight[e])
  BY DEF OkGraph, Fit
<1> HIDE DEF w, h
<1>5. \A e \in DOMAIN w : IsObservations(w[e])
  BY <1>2, <1>3, <1>4, RecordReport
<1>6. /\ OkGraph(h) /\ h.index = g.index /\ h.weight = w /\ h.vertices = g.vertices
      /\ \A c, d \in GraphKeys : (HasEdge(h, c, d) <=> EdgeOf(g, c, d) \in DOMAIN w) /\ EdgeOf(h, c, d) = EdgeOf(g, c, d)
  BY <1>1, <1>2, <1>5, Reweighted
<1>7. \A e \in DOMAIN g.weight :
        Immediates(w[e]) = IF e \in edges THEN After(Immediates(g.weight[e]), ms) ELSE Immediates(g.weight[e])
  BY <1>3, <1>4, RecordReport
<1>8. \A a, b \in GraphKeys :
        Seen(h, a, b) = IF HasEdge(g, a, b) /\ EdgeOf(g, a, b) \in edges THEN After(Seen(g, a, b), ms) ELSE Seen(g, a, b)
  BY <1>2, <1>6, <1>7 DEF Seen, HasEdge
<1> QED
  BY <1>2, <1>6, <1>8 DEF HasEdge, h

\* A report about the edge between two keys is recorded there, and nowhere else.
LEMMA UpsertFits ==
    ASSUME NEW g, OkGraph(g), NEW a \in GraphKeys, NEW b \in GraphKeys, NEW ms, Report(ms)
    PROVE  LET h == UpsertEdge(g, a, b, ms)
           IN  /\ OkGraph(h) /\ Grown(g, h) /\ HasEdge(h, a, b)
               /\ \A c, d \in GraphKeys :
                    Seen(h, c, d) = IF c = a /\ d = b THEN After(Seen(g, a, b), ms) ELSE Seen(g, c, d)
<1> DEFINE g1 == AddNode(g, a)
           g2 == AddNode(g1, b)
           g3 == AddEdge(g2, a, b)
           h == UpsertEdge(g, a, b, ms)
<1>1. OkGraph(g1) /\ g1.index[a] # 0 /\ Grown(g, g1) /\ SameSeen(g, g1)
  BY AddNodeFits
<1> HIDE DEF g1
<1>2. OkGraph(g2) /\ g2.index[b] # 0 /\ Grown(g1, g2) /\ SameSeen(g1, g2)
  BY <1>1, AddNodeFits
<1>3. g2.index[a] # 0
  BY <1>1, <1>2 DEF Grown
<1> HIDE DEF g2
<1>4. OkGraph(g3) /\ HasEdge(g3, a, b) /\ Grown(g2, g3) /\ SameSeen(g2, g3)
  BY <1>2, <1>3, AddEdgeFits
<1> DEFINE e == EdgeOf(g3, a, b)
<1>5. h = RecordAll(g3, {e}, ms)
  BY Zenon DEF UpsertEdge, g1, g2
<1> HIDE DEF g3, h
<1>6. /\ OkGraph(h) /\ h.index = g3.index
      /\ \A c, d \in GraphKeys : HasEdge(h, c, d) <=> HasEdge(g3, c, d)
      /\ \A c, d \in GraphKeys :
            Seen(h, c, d) = IF HasEdge(g3, c, d) /\ EdgeOf(g3, c, d) \in {e} THEN After(Seen(g3, c, d), ms)
                            ELSE Seen(g3, c, d)
  BY <1>4, <1>5, RecordAllFits
<1>7. \A c, d \in GraphKeys : (HasEdge(g3, c, d) /\ EdgeOf(g3, c, d) \in {e}) <=> (c = a /\ d = b)
  BY <1>4, EdgeInjective
<1>8. \A c, d \in GraphKeys : Seen(h, c, d) = IF c = a /\ d = b THEN After(Seen(g3, a, b), ms) ELSE Seen(g3, c, d)
  BY <1>6, <1>7
<1>9. \A c, d \in GraphKeys : Seen(g3, c, d) = Seen(g, c, d)
  BY <1>1, <1>2, <1>4 DEF SameSeen
<1>10. \A c, d \in GraphKeys : Seen(h, c, d) = IF c = a /\ d = b THEN After(Seen(g, a, b), ms) ELSE Seen(g, c, d)
  BY <1>8, <1>9
<1>11. Grown(g, h)
  BY <1>1, <1>2, <1>4, <1>6 DEF Grown
<1> QED
  BY <1>4, <1>6, <1>10, <1>11 DEF h

\* A health report tells nothing of immediate observations.
LEMMA HealthFits ==
    ASSUME NEW g, OkGraph(g), NEW k \in GraphKeys, NEW health
    PROVE  LET h == SetNodeHealth(g, k, health)
           IN  OkGraph(h) /\ h.index = g.index /\ Grown(g, h) /\ SameSeen(g, h)
<1> DEFINE x == IF health < Unit THEN health ELSE Missing
           w == [e \in DOMAIN g.weight |-> IF e[2] = g.index[k] THEN [g.weight[e] EXCEPT !.health = x] ELSE g.weight[e]]
           h == SetNodeHealth(g, k, health)
<1>1. h = [g EXCEPT !.weight = w]
  BY Zenon DEF SetNodeHealth
<1> HIDE DEF x
<1>2. w = [e \in DOMAIN w |-> w[e]] /\ DOMAIN w = DOMAIN g.weight
  OBVIOUS
<1>3. \A e \in DOMAIN g.weight : w[e] = IF e[2] = g.index[k] THEN [g.weight[e] EXCEPT !.health = x] ELSE g.weight[e]
  OBVIOUS
<1>4. \A e \in DOMAIN g.weight : IsObservations(g.weight[e])
  BY DEF OkGraph, Fit
<1> HIDE DEF w, h
<1>5. \A e \in DOMAIN w : IsObservations(w[e]) /\ w[e].immediate = g.weight[e].immediate
  BY <1>2, <1>3, <1>4 DEF IsObservations
<1>6. /\ OkGraph(h) /\ h.index = g.index /\ h.weight = w
      /\ \A c, d \in GraphKeys : (HasEdge(h, c, d) <=> EdgeOf(g, c, d) \in DOMAIN w) /\ EdgeOf(h, c, d) = EdgeOf(g, c, d)
  BY <1>1, <1>2, <1>5, Reweighted
<1>7. \A a, b \in GraphKeys : Seen(h, a, b) = Seen(g, a, b)
  BY <1>2, <1>5, <1>6 DEF Seen, HasEdge, Immediates
<1> QED
  BY <1>2, <1>6, <1>7 DEF HasEdge, Grown, SameSeen, h
-----------------------------------------------------------------------------
(* The graph at the start. *)

LEMMA SetToSeqOnto ==
    ASSUME NEW S, IsFiniteSet(S)
    PROVE  SetToSeq(S) \in Seq(S) /\ \A x \in S : \E i \in 1..Len(SetToSeq(S)) : SetToSeq(S)[i] = x
<1> DEFINE n == Cardinality(S)
           q == SetToSeq(S)
<1>1. n \in Nat /\ ExistsBijection(1..n, S)
  BY FS_CardinalityType
<1>2. \E f \in [1..n -> S] : IsInjective(f)
  BY <1>1 DEF ExistsBijection, Bijection, Injection
<1>3. q \in [1..n -> S] /\ IsInjective(q)
  BY <1>2, Zenon DEF SetToSeq
<1> HIDE DEF q
<1>4. q \in Injection(1..n, S)
  BY <1>3 DEF Injection
<1>5. q \in Surjection(1..n, S)
  <2>1. IsFiniteSet(1..n) /\ Cardinality(1..n) = n
    <3>1. 1 \in Int /\ n \in Int /\ (1 > n <=> n = 0) /\ n - 1 + 1 = n
      BY <1>1
    <3>2. IsFiniteSet(1..n) /\ Cardinality(1..n) = IF 1 > n THEN 0 ELSE n - 1 + 1
      BY <3>1, FS_Interval, Zenon
    <3> QED
      BY <3>1, <3>2
  <2> QED
    BY <1>4, <2>1, FS_Injection
<1>6. \A x \in S : \E i \in 1..n : q[i] = x
  BY <1>5 DEF Surjection
<1>7. q \in Seq(S) /\ Len(q) = n
  BY <1>1, <1>3
<1> QED
  BY <1>6, <1>7 DEF q

LEMMA StartFits ==
    ASSUME NEW known \in Starts
    PROVE  /\ OkGraph(StartGraph(known))
           /\ \A a, b \in GraphKeys : Seen(StartGraph(known), a, b) = NoImmediates
<1> DEFINE rest == SetToSeq(known \ {me})
           order == <<me>> \o rest
           at == [k \in GraphKeys |-> IF k \in known THEN CHOOSE i \in DOMAIN order : order[i] = k ELSE 0]
           pairs == {<<at[p[1]], at[p[2]]>> : p \in {q \in known \X known : q[1] # q[2]}}
           sl == [s \in SlotValues |-> {at[k] : k \in {l \in known : Encode[l] = s}}]
           w == [e \in pairs |-> NoObservations]
           g == [vertices |-> order, index |-> at, slots |-> sl, weight |-> w]
<1>1. StartGraph(known) = g
  BY Zenon DEF StartGraph
<1>2. me \in known /\ known \subseteq GraphKeys
  BY DEF GraphAssumption
<1>3. rest \in Seq(known \ {me}) /\ \A x \in known \ {me} : \E i \in 1..Len(rest) : rest[i] = x
  <2>1. IsFiniteSet(known \ {me})
    BY <1>2, FS_Subset DEF GraphAssumption
  <2> QED
    BY <2>1, SetToSeqOnto
<1> HIDE DEF rest
<1>4. rest \in Seq(GraphKeys) /\ Len(rest) \in Nat
  BY <1>2, <1>3
<1>5. /\ order \in Seq(GraphKeys) /\ Len(order) = Len(rest) + 1 /\ order[1] = me
      /\ \A i \in 1..Len(rest) : order[i + 1] = rest[i]
  BY <1>2, <1>4
<1> HIDE DEF order
<1>6. \A k \in known : \E i \in DOMAIN order : order[i] = k
  <2> SUFFICES ASSUME NEW k \in known PROVE \E i \in DOMAIN order : order[i] = k
    OBVIOUS
  <2>1. DOMAIN order = 1..(Len(rest) + 1)
    BY <1>5
  <2>2. CASE k = me
    BY <1>4, <1>5, <2>1, <2>2
  <2>3. CASE k # me
    <3>1. PICK i \in 1..Len(rest) : rest[i] = k
      BY <1>3, <2>3
    <3>2. i + 1 \in DOMAIN order
      BY <1>4, <2>1
    <3> QED
      BY <1>5, <3>1, <3>2
  <2> QED
    BY <2>2, <2>3
<1>7. \A k \in known : at[k] \in DOMAIN order /\ order[at[k]] = k
  BY <1>2, <1>6
<1>8. \A k \in GraphKeys : k \notin known => at[k] = 0
  OBVIOUS
<1>9. at = [k \in GraphKeys |-> at[k]]
  OBVIOUS
<1> HIDE DEF at
<1>10. DOMAIN order = 1..Len(order) /\ Len(order) \in Nat
  BY <1>5
<1>11. \A k \in known : at[k] \in 1..Len(order) /\ at[k] \in Nat /\ at[k] # 0
  BY <1>7, <1>10
<1>12. at \in [GraphKeys -> Nat]
  <2>1. \A k \in GraphKeys : at[k] \in Nat
    BY <1>8, <1>11
  <2> QED
    BY <1>9, <2>1
<1>13. \A k \in GraphKeys : at[k] # 0 <=> k \in known
  BY <1>2, <1>8, <1>11
<1>14. sl = [s \in SlotValues |-> {at[k] : k \in {l \in GraphKeys : at[l] # 0 /\ Encode[l] = s}}]
  <2>1. ASSUME NEW s \in SlotValues
        PROVE  {at[k] : k \in {l \in known : Encode[l] = s}} = {at[k] : k \in {l \in GraphKeys : at[l] # 0 /\ Encode[l] = s}}
    BY <1>2, <1>13
  <2> QED
    BY <2>1
<1>15. \A e \in pairs : \E k, l \in GraphKeys : at[k] # 0 /\ at[l] # 0 /\ e = <<at[k], at[l]>>
  <2> SUFFICES ASSUME NEW k \in known, NEW l \in known
               PROVE  \E a, b \in GraphKeys : at[a] # 0 /\ at[b] # 0 /\ <<at[k], at[l]>> = <<at[a], at[b]>>
    OBVIOUS
  <2> QED
    BY <1>2, <1>11
<1>16. DOMAIN w = pairs /\ w = [e \in DOMAIN w |-> w[e]] /\ \A e \in DOMAIN w : w[e] = NoObservations
  OBVIOUS
<1>17. IsObservations(NoObservations) /\ Immediates(NoObservations) = NoImmediates
  BY DEF IsObservations, NoObservations, Immediates
<1> HIDE DEF pairs, w, sl
<1>18. at[me] # 0
  BY <1>2, <1>11
<1>19. Fit(order, at, sl, w)
  BY <1>5, <1>7, <1>11, <1>12, <1>13, <1>14, <1>15, <1>16, <1>17, <1>18 DEF Fit
<1>20. g.vertices = order /\ g.index = at /\ g.slots = sl /\ g.weight = w
  OBVIOUS
<1>21. OkGraph(g)
  BY <1>19, <1>20 DEF OkGraph
<1> HIDE DEF g
<1>22. \A a, b \in GraphKeys : Seen(g, a, b) = NoImmediates
  BY <1>16, <1>17, <1>20 DEF Seen
<1> QED
  BY <1>1, <1>21, <1>22
-----------------------------------------------------------------------------
(* Both directions of an edge to a neighbour.                              *)
(*                                                                         *)
(* A peer whose updates neither overlapped nor met a removal has at most   *)
(* one update of which one direction is missing: what the edge to it shows *)
(* is what the edge from it will show once that direction is written.      *)

Balanced(g, open, p) ==
    /\ \A h, i \in open : h.peer = p /\ i.peer = p => h = i
    /\ (~\E h \in open : h.peer = p) => Seen(g, me, p) = Seen(g, p, me)
    /\ \A h \in open : h.peer = p => Seen(g, me, p) = After(Seen(g, p, me), h.ms)

OkHalves(open) == \A h \in open : h.peer \in GraphKeys \ {me} /\ Report(h.ms)

GraphInv ==
    /\ OkGraph(Graph) /\ OkHalves(halves)
    /\ \A p \in GraphKeys \ (parted \cup {me}) : Balanced(Graph, halves, p)

LEMMA BecomesIs == ASSUME NEW g, OkGraph(g), Becomes(g) PROVE Graph' = g
BY DEF OkGraph, Becomes, Graph

\* What is observed of the edges between this node and a peer is all that counts.
LEMMA StaysBalanced ==
    ASSUME NEW g, NEW h, NEW open, NEW p, Balanced(g, open, p), Seen(h, me, p) = Seen(g, me, p), Seen(h, p, me) = Seen(g, p, me)
    PROVE  Balanced(h, open, p)
BY DEF Balanced

LEMMA NeighbourReportsAreReports == ASSUME NEW ms \in NeighbourReports PROVE Report(ms)
<1>1. CASE \E l \in Latencies : ms = <<Connected(TRUE), Probed(l)>>
  BY <1>1 DEF Report, GraphKinds, Connected, Probed
<1>2. CASE ms = <<Probed(Missing)>>
  BY <1>2 DEF Report, GraphKinds, Probed
<1>3. CASE \E c \in BOOLEAN : ms = <<Connected(c)>>
  BY <1>3 DEF Report, GraphKinds, Connected
<1> QED
  BY <1>1, <1>2, <1>3 DEF NeighbourReports

\* Calls that tell nothing of immediate observations.
LEMMA QuietCall ==
    ASSUME GraphInv, NEW g, OkGraph(g), SameSeen(Graph, g), Becomes(g), UNCHANGED <<halves, parted>>
    PROVE  GraphInv'
<1>1. Graph' = g
  BY BecomesIs
<1>2. \A p \in GraphKeys \ (parted \cup {me}) : Balanced(g, halves, p)
  BY GraphAssumption, StaysBalanced DEF GraphInv, SameSeen
<1> QED
  BY <1>1, <1>2 DEF GraphInv

LEMMA NodeRecordedBalanced == ASSUME GraphInv, NEW k \in GraphKeys, NodeRecorded(k) PROVE GraphInv'
BY QuietCall, AddNodeFits DEF GraphInv, NodeRecorded, Change

LEMMA NodeRemovedBalanced == ASSUME GraphInv, NEW k \in GraphKeys, NodeRemoved(k) PROVE GraphInv'
<1> DEFINE g == RemoveNode(Graph, k)
<1>1. OkGraph(Graph) /\ OkHalves(halves) /\ k \in GraphKeys \ {me} /\ Becomes(g)
  BY DEF NodeRemoved, GraphInv, Change
<1>2. /\ OkGraph(g) /\ g.index[k] = 0
      /\ \A a, b \in GraphKeys \ {k} : Seen(g, a, b) = Seen(Graph, a, b)
  BY <1>1, RemoveNodeFits
<1>3. Graph' = g
  BY <1>1, <1>2, BecomesIs
<1> HIDE DEF g
<1>4. ASSUME NEW p \in GraphKeys \ (parted' \cup {me}) PROVE Balanced(g, halves, p)
  <2>1. CASE p = k
    <3>1. ~\E h \in halves : h.peer = k
      BY <1>4, <2>1 DEF NodeRemoved
    <3>2. Seen(g, me, k) = NoImmediates /\ Seen(g, k, me) = NoImmediates
      BY <1>1, <1>2, SeenUnknown DEF GraphAssumption
    <3> QED
      BY <2>1, <3>1, <3>2 DEF Balanced
  <2>2. CASE p # k
    <3>1. p \notin parted
      BY <1>4, <2>2 DEF NodeRemoved
    <3>2. Balanced(Graph, halves, p)
      BY <3>1 DEF GraphInv
    <3>3. Seen(g, me, p) = Seen(Graph, me, p) /\ Seen(g, p, me) = Seen(Graph, p, me)
      BY <1>1, <1>2, <2>2 DEF GraphAssumption
    <3> QED
      BY <3>2, <3>3, StaysBalanced
  <2> QED
    BY <2>1, <2>2
<1>5. halves' = halves
  BY DEF NodeRemoved
<1> QED
  BY <1>1, <1>2, <1>3, <1>4, <1>5 DEF GraphInv

LEMMA EdgeAddedBalanced ==
    ASSUME GraphInv, NEW k \in GraphKeys, NEW l \in GraphKeys, EdgeAdded(k, l) PROVE GraphInv'
<1>1. Graph.index[k] # 0 /\ Graph.index[l] # 0 /\ Becomes(AddEdge(Graph, k, l)) /\ UNCHANGED <<halves, parted>>
  BY DEF EdgeAdded, Nodes, Graph, Change
<1>2. OkGraph(AddEdge(Graph, k, l)) /\ SameSeen(Graph, AddEdge(Graph, k, l))
  BY <1>1, AddEdgeFits DEF GraphInv
<1> QED
  BY <1>1, <1>2, QuietCall

LEMMA EdgeRemovedBalanced ==
    ASSUME GraphInv, NEW k \in GraphKeys, NEW l \in GraphKeys, EdgeRemoved(k, l) PROVE GraphInv'
<1> DEFINE g == RemoveEdge(Graph, k, l)
<1>1. OkGraph(Graph) /\ HasEdge(Graph, k, l) /\ Becomes(g) /\ halves' = halves /\ parted' = parted \cup ({k, l} \ {me})
  BY DEF EdgeRemoved, GraphInv, Change, HasEdge, Graph
<1>2. OkGraph(g) /\ \A c, d \in GraphKeys : <<c, d>> # <<k, l>> => Seen(g, c, d) = Seen(Graph, c, d)
  BY <1>1, RemoveEdgeFits
<1>3. Graph' = g
  BY <1>1, <1>2, BecomesIs
<1> HIDE DEF g
<1>4. ASSUME NEW p \in GraphKeys \ (parted' \cup {me}) PROVE Balanced(g, halves, p)
  <2>1. p \notin parted /\ p # k /\ p # l /\ p # me
    BY <1>1, <1>4
  <2>2. Balanced(Graph, halves, p)
    BY <2>1 DEF GraphInv
  <2>3. Seen(g, me, p) = Seen(Graph, me, p) /\ Seen(g, p, me) = Seen(Graph, p, me)
    BY <1>2, <2>1 DEF GraphAssumption
  <2> QED
    BY <2>2, <2>3, StaysBalanced
<1> QED
  BY <1>1, <1>2, <1>3, <1>4 DEF GraphInv

LEMMA BalanceReportedBalanced ==
    ASSUME GraphInv, NEW k \in GraphKeys, NEW l \in GraphKeys, BalanceReported(k, l) PROVE GraphInv'
<1> DEFINE ms == <<[kind |-> "Balance", value |-> 1]>>
           g == UpsertEdge(Graph, k, l, ms)
<1>1. OkGraph(Graph) /\ Becomes(g) /\ UNCHANGED <<halves, parted>>
  BY DEF BalanceReported, GraphInv, Change
<1>2. Indirect(ms)
  BY DEF Indirect, Report, GraphKinds
<1> HIDE DEF ms
<1>3. OkGraph(g) /\ \A c, d \in GraphKeys :
            Seen(g, c, d) = IF c = k /\ d = l THEN After(Seen(Graph, k, l), ms) ELSE Seen(Graph, c, d)
  BY <1>1, <1>2, UpsertFits DEF Indirect
<1> HIDE DEF g
<1>4. After(Seen(Graph, k, l), ms) = Seen(Graph, k, l)
  <2>1. NoImmediates = Immediates(NoObservations)
    BY DEF Immediates, NoObservations
  <2> QED
    BY <1>2, <2>1, IndirectTellsNothing DEF Seen
<1>5. SameSeen(Graph, g)
  BY <1>3, <1>4 DEF SameSeen
<1> QED
  BY <1>1, <1>3, <1>5, QuietCall

LEMMA HealthReportedBalanced == ASSUME GraphInv, NEW k \in GraphKeys, HealthReported(k) PROVE GraphInv'
<1>1. Becomes(SetNodeHealth(Graph, k, 0)) /\ UNCHANGED <<halves, parted>>
  BY DEF HealthReported, Change
<1>2. OkGraph(SetNodeHealth(Graph, k, 0)) /\ SameSeen(Graph, SetNodeHealth(Graph, k, 0))
  BY HealthFits DEF GraphInv
<1> QED
  BY <1>1, <1>2, QuietCall

LEMMA NeighbourReportedBalanced ==
    ASSUME GraphInv, NEW p \in GraphKeys, NEW ms \in NeighbourReports, NeighbourReported(p, ms) PROVE GraphInv'
<1> DEFINE g == UpsertEdge(Graph, me, p, ms)
           half == [peer |-> p, ms |-> ms, call |-> ops]
<1>1. /\ OkGraph(Graph) /\ OkHalves(halves) /\ p # me /\ Becomes(g) /\ halves' = halves \cup {half}
      /\ parted' = IF \E h \in halves : h.peer = p THEN parted \cup {p} ELSE parted
  BY DEF NeighbourReported, GraphInv, Change
<1>2. Report(ms) /\ me \in GraphKeys
  BY NeighbourReportsAreReports DEF GraphAssumption
<1>3. OkGraph(g) /\ \A c, d \in GraphKeys :
            Seen(g, c, d) = IF c = me /\ d = p THEN After(Seen(Graph, me, p), ms) ELSE Seen(Graph, c, d)
  BY <1>1, <1>2, UpsertFits
<1>4. Graph' = g
  BY <1>1, <1>3, BecomesIs
<1>5. half.peer = p /\ half.ms = ms
  OBVIOUS
<1> HIDE DEF g, half
<1>6. OkHalves(halves')
  BY <1>1, <1>2, <1>5 DEF OkHalves
<1>7. ASSUME NEW q \in GraphKeys \ (parted' \cup {me}) PROVE Balanced(g, halves \cup {half}, q)
  <2>1. q \notin parted /\ q # me
    BY <1>1, <1>7
  <2>2. Balanced(Graph, halves, q)
    BY <2>1 DEF GraphInv
  <2>3. CASE q = p
    <3>1. ~\E h \in halves : h.peer = p
      BY <1>1, <1>7, <2>3
    <3>2. Seen(Graph, me, p) = Seen(Graph, p, me)
      BY <2>2, <2>3, <3>1 DEF Balanced
    <3>3. Seen(g, me, p) = After(Seen(Graph, me, p), ms) /\ Seen(g, p, me) = Seen(Graph, p, me)
      BY <1>1, <1>2, <1>3
    <3> QED
      BY <1>5, <2>3, <3>1, <3>2, <3>3 DEF Balanced
  <2>4. CASE q # p
    <3>1. Seen(g, me, q) = Seen(Graph, me, q) /\ Seen(g, q, me) = Seen(Graph, q, me)
      BY <1>2, <1>3, <2>1, <2>4
    <3>2. Balanced(g, halves, q)
      BY <2>2, <3>1, StaysBalanced
    <3> QED
      BY <1>5, <2>4, <3>2 DEF Balanced
  <2> QED
    BY <2>3, <2>4
<1> QED
  BY <1>1, <1>3, <1>4, <1>6, <1>7 DEF GraphInv

LEMMA NeighbourCompletedBalanced == ASSUME GraphInv, NEW h \in halves, NeighbourCompleted(h) PROVE GraphInv'
<1> DEFINE p == h.peer
           g == UpsertEdge(Graph, p, me, h.ms)
<1>1. OkGraph(Graph) /\ OkHalves(halves) /\ Becomes(g) /\ halves' = halves \ {h} /\ parted' = parted
  BY DEF NeighbourCompleted, OtherHalf, GraphInv
<1>2. p \in GraphKeys \ {me} /\ Report(h.ms) /\ me \in GraphKeys
  BY <1>1 DEF OkHalves, GraphAssumption
<1> HIDE DEF p
<1>3. OkGraph(g) /\ \A c, d \in GraphKeys :
            Seen(g, c, d) = IF c = p /\ d = me THEN After(Seen(Graph, p, me), h.ms) ELSE Seen(Graph, c, d)
  BY <1>1, <1>2, UpsertFits
<1>4. Graph' = g
  BY <1>1, <1>3, BecomesIs
<1> HIDE DEF g
<1>5. OkHalves(halves \ {h})
  BY <1>1 DEF OkHalves
<1>6. ASSUME NEW q \in GraphKeys \ (parted \cup {me}) PROVE Balanced(g, halves \ {h}, q)
  <2>1. Balanced(Graph, halves, q)
    BY DEF GraphInv
  <2>2. CASE q = p
    <3>1. \A i \in halves : i.peer = p => i = h
      BY <2>1, <2>2 DEF Balanced, p
    <3>2. Seen(Graph, me, p) = After(Seen(Graph, p, me), h.ms)
      BY <2>1, <2>2 DEF Balanced, p
    <3>3. Seen(g, me, p) = Seen(Graph, me, p) /\ Seen(g, p, me) = After(Seen(Graph, p, me), h.ms)
      BY <1>2, <1>3
    <3> QED
      BY <2>2, <3>1, <3>2, <3>3 DEF Balanced
  <2>3. CASE q # p
    <3>1. Seen(g, me, q) = Seen(Graph, me, q) /\ Seen(g, q, me) = Seen(Graph, q, me)
      BY <1>2, <1>3, <1>6, <2>3
    <3>2. Balanced(g, halves, q)
      BY <2>1, <3>1, StaysBalanced
    <3> QED
      BY <2>3, <3>2 DEF Balanced, p
  <2> QED
    BY <2>2, <2>3
<1> QED
  BY <1>1, <1>3, <1>4, <1>5, <1>6 DEF GraphInv

\* A report about a path is about intermediate observations.
LEMMA PathReportBalanced ==
    ASSUME GraphInv, NEW edges, NEW m, m.kind \in {"Intermediate", "Surb"},
           Becomes(RecordAll(Graph, edges, <<m>>)), UNCHANGED <<halves, parted>>
    PROVE  GraphInv'
<1> DEFINE ms == <<m>>
           g == RecordAll(Graph, edges, ms)
<1>1. Indirect(ms)
  BY DEF Indirect, Report, GraphKinds
<1>2. \A a, b \in GraphKeys : After(Seen(Graph, a, b), ms) = Seen(Graph, a, b)
  <2>1. NoImmediates = Immediates(NoObservations)
    BY DEF Immediates, NoObservations
  <2> HIDE DEF ms
  <2> QED
    BY <1>1, <2>1, IndirectTellsNothing DEF Seen
<1>3. Becomes(g)
  OBVIOUS
<1> HIDE DEF ms
<1>4. OkGraph(g) /\ \A a, b \in GraphKeys :
            Seen(g, a, b) = IF HasEdge(Graph, a, b) /\ EdgeOf(Graph, a, b) \in edges THEN After(Seen(Graph, a, b), ms)
                            ELSE Seen(Graph, a, b)
  BY <1>1, RecordAllFits DEF Indirect, GraphInv
<1> HIDE DEF g
<1>5. SameSeen(Graph, g)
  BY <1>2, <1>4 DEF SameSeen
<1> QED
  BY <1>3, <1>4, <1>5, QuietCall

LEMMA LoopReportedBalanced == ASSUME GraphInv, NEW f \in flying, NEW rtt, LoopReported(f, rtt) PROVE GraphInv'
<1>1. CASE UNCHANGED <<vertices, index, slots, weight>>
  <2>1. Graph' = Graph /\ UNCHANGED <<halves, parted>>
    BY <1>1 DEF Graph, LoopReported
  <2> QED
    BY <2>1 DEF GraphInv
<1>2. CASE ~UNCHANGED <<vertices, index, slots, weight>>
  <2>1. PICK edges, v : Becomes(RecordAll(Graph, edges, <<[kind |-> "Intermediate", value |-> v]>>))
    BY <1>2, Zenon DEF LoopReported
  <2>2. UNCHANGED <<halves, parted>>
    BY DEF LoopReported
  <2> DEFINE m == [kind |-> "Intermediate", value |-> v]
  <2>3. m.kind = "Intermediate" /\ Becomes(RecordAll(Graph, edges, <<m>>))
    BY <2>1
  <2> HIDE DEF m
  <2> QED
    BY <2>2, <2>3, PathReportBalanced
<1> QED
  BY <1>1, <1>2

LEMMA RoundTripsReportedBalanced ==
    ASSUME GraphInv, NEW f \in flying, NEW traffic, RoundTripsReported(f, traffic) PROVE GraphInv'
<1> DEFINE m == [kind |-> "Surb", value |-> traffic]
<1>1. PICK edges : Becomes(RecordAll(Graph, edges, <<m>>))
  BY Zenon DEF RoundTripsReported
<1>2. m.kind = "Surb" /\ UNCHANGED <<halves, parted>>
  BY DEF RoundTripsReported
<1> HIDE DEF m
<1> QED
  BY <1>1, <1>2, PathReportBalanced

LEMMA StillBalanced ==
    ASSUME GraphInv, UNCHANGED <<vertices, index, slots, weight, halves, parted>> PROVE GraphInv'
<1>1. Graph' = Graph
  BY DEF Graph
<1> QED
  BY <1>1 DEF GraphInv

LEMMA GraphStepBalanced == ASSUME GraphInv, GraphStep PROVE GraphInv'
<1>1. CASE \E k \in GraphKeys : NodeRecorded(k)
  BY <1>1, NodeRecordedBalanced
<1>2. CASE \E k \in GraphKeys : NodeRemoved(k)
  BY <1>2, NodeRemovedBalanced
<1>3. CASE \E k \in GraphKeys : HealthReported(k)
  BY <1>3, HealthReportedBalanced
<1>4. CASE \E k \in GraphKeys : RoundTripSent(k)
  BY <1>4, StillBalanced DEF RoundTripSent
<1>5. CASE \E k, l \in GraphKeys : EdgeAdded(k, l)
  BY <1>5, EdgeAddedBalanced
<1>6. CASE \E k, l \in GraphKeys : EdgeRemoved(k, l)
  BY <1>6, EdgeRemovedBalanced
<1>7. CASE \E k, l \in GraphKeys : BalanceReported(k, l)
  BY <1>7, BalanceReportedBalanced
<1>8. CASE \E k \in GraphKeys, ms \in NeighbourReports : NeighbourReported(k, ms)
  BY <1>8, NeighbourReportedBalanced
<1>9. CASE \E h \in halves : NeighbourCompleted(h)
  BY <1>9, NeighbourCompletedBalanced
<1>10. CASE \E hops \in 0..(MAX_LOOPBACK_HOPS + 1) : LoopSent(hops)
  BY <1>10, StillBalanced DEF LoopSent
<1>11. CASE \E f \in flying, rtt \in Rtts : LoopReported(f, rtt)
  BY <1>11, LoopReportedBalanced
<1>12. CASE \E f \in flying, traffic \in Traffic : RoundTripsReported(f, traffic)
  BY <1>12, RoundTripsReportedBalanced
<1>13. CASE \E f \in flying : ReportDropped(f)
  BY <1>13, StillBalanced DEF ReportDropped
<1> QED
  BY <1>1, <1>2, <1>3, <1>4, <1>5, <1>6, <1>7, <1>8, <1>9, <1>10, <1>11, <1>12, <1>13, Zenon DEF GraphStep

LEMMA GraphInvInit == GraphInit => GraphInv
<1> SUFFICES ASSUME GraphInit PROVE GraphInv
  OBVIOUS
<1>1. PICK known \in Starts : LET g == StartGraph(known)
                              IN  vertices = g.vertices /\ index = g.index /\ slots = g.slots /\ weight = g.weight
  BY Zenon DEF GraphInit
<1> DEFINE g == StartGraph(known)
<1>2. OkGraph(g) /\ \A a, b \in GraphKeys : Seen(g, a, b) = NoImmediates
  BY StartFits
<1>3. vertices = g.vertices /\ index = g.index /\ slots = g.slots /\ weight = g.weight
  BY <1>1
<1> HIDE DEF g
<1>4. Graph = g
  BY <1>2, <1>3 DEF OkGraph, Graph
<1>5. halves = {} /\ parted = {}
  BY DEF GraphInit
<1> QED
  BY <1>2, <1>4, <1>5 DEF GraphInv, OkHalves, Balanced, GraphAssumption

LEMMA GraphInvNext == GraphInv /\ [Next]_vars => GraphInv'
<1> SUFFICES ASSUME GraphInv, [Next]_vars PROVE GraphInv'
  OBVIOUS
<1>1. CASE part = "graph" /\ GraphStep
  BY <1>1, GraphStepBalanced
<1>2. CASE UNCHANGED graphVars
  BY <1>2, StillBalanced DEF graphVars
<1> QED
  BY <1>1, <1>2, Zenon DEF Next, Explore, vars

LEMMA GraphInvAlways == Spec => []GraphInv
<1>1. Init => GraphInv
  BY GraphInvInit DEF Init
<1> QED
  BY <1>1, GraphInvNext, PTL DEF Spec

\* Once an update of a peer is complete, both directions of the edge to it show the
\* same of it, whatever other calls took the lock of the graph between its two halves.
THEOREM DirectionsAgreeCorrect == Spec => []DirectionsAgree
<1>1. GraphInv => DirectionsAgree
  <2> SUFFICES ASSUME GraphInv, NEW p \in Nodes \ (parted \cup {me}), ~\E h \in halves : h.peer = p
               PROVE  LET seen(e) == IF e \in DOMAIN weight THEN Immediates(weight[e]) ELSE NoImmediates
                      IN  seen(EdgeOf(Graph, me, p)) = seen(EdgeOf(Graph, p, me))
    BY DEF DirectionsAgree
  <2>1. Seen(Graph, me, p) = Seen(Graph, p, me)
    BY DEF GraphInv, Balanced, Nodes
  <2>2. Graph.weight = weight
    BY DEF Graph
  <2> QED
    BY <2>1, <2>2 DEF Seen
<1> QED
  BY <1>1, GraphInvAlways, PTL
-----------------------------------------------------------------------------
(* The views of the graph. *)

LEMMA LeastExists ==
    ASSUME NEW T \in SUBSET Nat, T # {}
    PROVE  \E x \in T : \A y \in T : x <= y
<1> DEFINE R == {ss \in Nat \X Nat : ss[1] < ss[2]}
<1>1. IsWellFoundedOn(R, Nat)
  BY NatLessThanWellFounded, Zenon DEF OpToRel
<1>2. PICK x \in T : \A y \in T : ~(<<y, x>> \in R)
  <2> HIDE DEF R
  <2> QED
    BY <1>1, WFMin
<1>3. ASSUME NEW y \in T PROVE x <= y
  <2>1. x \in Nat /\ y \in Nat
    OBVIOUS
  <2>2. y < x => <<y, x>> \in R
    BY <2>1
  <2> HIDE DEF R
  <2> QED
    BY <1>2, <2>1, <2>2
<1> QED
  BY <1>3

\* The keys in the graph that a slot may stand for.
Claimants(g, slot) == {k \in GraphKeys : g.index[k] # 0 /\ Encode[k] = slot}

\* A slot leads to the only key in the graph that encodes to it, if there is one.
LEMMA ResolveIs ==
    ASSUME NEW g, OkGraph(g), NEW k \in GraphKeys, g.index[k] # 0
    PROVE  Resolve(g, Encode[k]) = IF \E l \in GraphKeys \ {k} : g.index[l] # 0 /\ Encode[l] = Encode[k] THEN 0
                                   ELSE g.index[k]
<1> DEFINE s == Encode[k]
           claims == {g.index[l] : l \in Claimants(g, s)}
<1>1. s \in SlotValues /\ s # 0 /\ s \in DOMAIN g.slots /\ g.slots[s] = claims
  <2>1. s \in SlotValues /\ s # 0
    BY Slotted
  <2>2. g.slots = [t \in SlotValues |-> {g.index[l] : l \in {m \in GraphKeys : g.index[m] # 0 /\ Encode[m] = t}}]
    BY DEF OkGraph, Fit
  <2> HIDE DEF s
  <2> QED
    BY <2>1, <2>2 DEF Claimants
<1>2. g.index[k] \in claims
  BY DEF Claimants
<1>3. Resolve(g, s) = IF Cardinality(g.slots[s]) # 1 THEN 0 ELSE CHOOSE i \in g.slots[s] : TRUE
  <2>1. Resolve(g, s) = IF s = 0 \/ s \notin DOMAIN g.slots \/ Cardinality(g.slots[s]) # 1 THEN 0
                        ELSE CHOOSE i \in g.slots[s] : TRUE
    BY Zenon DEF Resolve
  <2> HIDE DEF s
  <2> QED
    BY <1>1, <2>1
<1>4. CASE \E l \in GraphKeys \ {k} : g.index[l] # 0 /\ Encode[l] = s
  <2>1. PICK l \in GraphKeys \ {k} : g.index[l] # 0 /\ Encode[l] = s
    BY <1>4
  <2>2. g.index[l] \in claims /\ g.index[l] # g.index[k]
    BY <2>1, IndexInjective DEF Claimants
  <2>3. IsFiniteSet(claims)
    <3>1. IsFiniteSet(Claimants(g, s))
      BY FS_Subset DEF GraphAssumption, Claimants
    <3> DEFINE to == [m \in Claimants(g, s) |-> g.index[m]]
    <3>2. to \in Surjection(Claimants(g, s), claims)
      BY DEF Surjection
    <3> QED
      BY <3>1, <3>2, FS_Surjection
  <2> HIDE DEF claims
  <2>4. Cardinality(claims) # 1
    <3> SUFFICES ASSUME Cardinality(claims) = 1 PROVE FALSE
      OBVIOUS
    <3>1. PICK x : claims = {x}
      BY <2>3, FS_Singleton
    <3> QED
      BY <1>2, <2>2, <3>1
  <2> QED
    BY <1>1, <1>3, <1>4, <2>4
<1>5. CASE ~\E l \in GraphKeys \ {k} : g.index[l] # 0 /\ Encode[l] = s
  <2>1. claims = {g.index[k]}
    BY <1>2, <1>5 DEF Claimants
  <2> HIDE DEF claims
  <2>2. Cardinality(claims) = 1
    BY <2>1, FS_Singleton
  <2> QED
    BY <1>1, <1>3, <1>5, <2>1, <2>2
<1> QED
  BY <1>4, <1>5

\* A slot that leads anywhere leads to a key in the graph.
LEMMA ResolvesToKey ==
    ASSUME NEW g, OkGraph(g), NEW k \in GraphKeys, Resolve(g, Encode[k]) # 0
    PROVE  \E l \in GraphKeys : g.index[l] # 0 /\ Encode[l] = Encode[k] /\ Resolve(g, Encode[k]) = g.index[l]
<1> DEFINE s == Encode[k]
<1>1. s \in SlotValues /\ s # 0
  BY Slotted
<1>2. Cardinality(g.slots[s]) = 1
  BY Zenon DEF Resolve
<1>3. g.slots[s] = {g.index[l] : l \in Claimants(g, s)}
  <2>1. g.slots = [t \in SlotValues |-> {g.index[l] : l \in {m \in GraphKeys : g.index[m] # 0 /\ Encode[m] = t}}]
    BY DEF OkGraph, Fit
  <2> HIDE DEF s
  <2> QED
    BY <1>1, <2>1 DEF Claimants
<1>4. g.slots[s] # {}
  <2> SUFFICES ASSUME g.slots[s] = {} PROVE FALSE
    OBVIOUS
  <2>1. Cardinality(g.slots[s]) = 0
    BY FS_EmptySet, Zenon
  <2> HIDE DEF s
  <2> QED
    BY <1>2, <2>1
<1>5. PICK l \in Claimants(g, s) : TRUE
  BY <1>3, <1>4
<1>6. l \in GraphKeys /\ g.index[l] # 0 /\ Encode[l] = s
  BY <1>5 DEF Claimants
<1> HIDE DEF s
<1>7. Resolve(g, s) = Resolve(g, Encode[l])
  BY <1>6
<1>8. Resolve(g, Encode[l]) \in {0, g.index[l]}
  BY <1>6, ResolveIs
<1> QED
  BY <1>6, <1>7, <1>8 DEF s

LEMMA EdgesJoinVertices ==
    ASSUME NEW g, OkGraph(g), NEW e \in DOMAIN g.weight
    PROVE  /\ e = <<e[1], e[2]>> /\ e[1] \in 1..Len(g.vertices) /\ e[2] \in 1..Len(g.vertices)
           /\ g.vertices[e[1]] \in GraphKeys /\ g.index[g.vertices[e[1]]] = e[1]
           /\ g.vertices[e[2]] \in GraphKeys /\ g.index[g.vertices[e[2]]] = e[2]
           /\ HasEdge(g, g.vertices[e[1]], g.vertices[e[2]])
<1>1. PICK k \in GraphKeys, l \in GraphKeys : g.index[k] # 0 /\ g.index[l] # 0 /\ e = <<g.index[k], g.index[l]>>
  BY DEF OkGraph, Fit
<1>2. g.index[k] \in 1..Len(g.vertices) /\ g.vertices[g.index[k]] = k
  BY <1>1 DEF OkGraph, Fit
<1>3. g.index[l] \in 1..Len(g.vertices) /\ g.vertices[g.index[l]] = l
  BY <1>1 DEF OkGraph, Fit
<1>4. e[1] = g.index[k] /\ e[2] = g.index[l]
  BY <1>1
<1> QED
  BY <1>1, <1>2, <1>3, <1>4 DEF HasEdge, EdgeOf

\* The nodes reached from this node: it and the ends of the edges from within.
LEMMA ReachedAre ==
    ASSUME OkGraph(Graph)
    PROVE  LET r == Reachable(index[me])
           IN  /\ index[me] \in r
               /\ \A e \in DOMAIN weight : e[1] \in r => e[2] \in r
               /\ \A n \in r : n = index[me] \/ \E e \in DOMAIN weight : e[1] \in r /\ e[2] = n
<1> DEFINE V == 1..Len(vertices)
           from == index[me]
           Closed(s) == from \in s /\ \A e \in DOMAIN weight : e[1] \in s => e[2] \in s
           r == Reachable(from)
<1>1. Graph.vertices = vertices /\ Graph.index = index /\ Graph.weight = weight
  BY DEF Graph
<1>2. from \in V
  <2>1. Fit(vertices, index, Graph.slots, weight)
    BY <1>1 DEF OkGraph
  <2> QED
    BY <2>1 DEF Fit, GraphAssumption
<1>3. \A e \in DOMAIN weight : e[2] \in V
  BY <1>1, EdgesJoinVertices
<1> HIDE DEF V, from
<1>4. r = {n \in V : \A s \in {t \in SUBSET V : Closed(t)} : n \in s}
  BY Zenon DEF Reachable, V
<1> HIDE DEF r
<1>5. from \in r
  BY <1>2, <1>4
<1>6. \A e \in DOMAIN weight : e[1] \in r => e[2] \in r
  BY <1>3, <1>4
<1> DEFINE t == {n \in r : n = from \/ \E e \in DOMAIN weight : e[1] \in r /\ e[2] = n}
<1>7. t \in SUBSET V
  BY <1>4
<1>8. Closed(t)
  BY <1>5, <1>6
<1>9. r \subseteq t
  <2> HIDE DEF t
  <2> SUFFICES ASSUME NEW n \in r PROVE n \in t
    OBVIOUS
  <2>1. \A s \in {u \in SUBSET V : Closed(u)} : n \in s
    BY <1>4
  <2>2. t \in {u \in SUBSET V : Closed(u)}
    BY <1>7, <1>8
  <2> QED
    BY <2>1, <2>2
<1> QED
  BY <1>5, <1>6, <1>9 DEF r, from

\* The reachable edges are those that lead on from this node or another of them.
LEMMA ReachableEdgesAre ==
    ASSUME OkGraph(Graph)
    PROVE  LET reached == ReachableEdges
               ends == {me} \cup {e[2] : e \in reached}
           IN  reached = {e \in ConnectedEdges : e[1] \in ends}
<1> DEFINE r == Reachable(index[me])
           reached == ReachableEdges
           ends == {me} \cup {e[2] : e \in reached}
<1>1. Graph.vertices = vertices /\ Graph.index = index /\ Graph.weight = weight
  BY DEF Graph
<1>2. \A e \in DOMAIN weight : /\ index[vertices[e[1]]] = e[1] /\ index[vertices[e[2]]] = e[2]
                               /\ vertices[e[1]] \in GraphKeys /\ vertices[e[2]] \in GraphKeys
  BY <1>1, EdgesJoinVertices
<1>3. /\ index[me] \in r /\ (\A e \in DOMAIN weight : e[1] \in r => e[2] \in r)
      /\ \A n \in r : n = index[me] \/ \E e \in DOMAIN weight : e[1] \in r /\ e[2] = n
  BY ReachedAre
<1> HIDE DEF r
<1>4. vertices[index[me]] = me
  <2>1. Fit(vertices, index, Graph.slots, weight)
    BY <1>1 DEF OkGraph
  <2> QED
    BY <2>1 DEF Fit, GraphAssumption
<1>5. \A e : e \in reached <=> \E d \in DOMAIN weight : d[1] \in r /\ d[2] \in r /\ e = <<vertices[d[1]], vertices[d[2]]>>
  BY DEF ReachableEdges, NamedEdge, r
<1>6. \A e : e \in ConnectedEdges <=> \E d \in DOMAIN weight : e = <<vertices[d[1]], vertices[d[2]]>>
  BY DEF ConnectedEdges, NamedEdge
<1> HIDE DEF reached
<1>7. \A d \in DOMAIN weight : d[1] \in r <=> vertices[d[1]] \in ends
  <2> SUFFICES ASSUME NEW d \in DOMAIN weight PROVE d[1] \in r <=> vertices[d[1]] \in ends
    OBVIOUS
  <2>1. ASSUME d[1] \in r PROVE vertices[d[1]] \in ends
    <3>1. CASE d[1] = index[me]
      BY <1>4, <3>1
    <3>2. CASE d[1] # index[me]
      <4>1. PICK c \in DOMAIN weight : c[1] \in r /\ c[2] = d[1]
        BY <1>3, <2>1, <3>2
      <4>2. <<vertices[c[1]], vertices[c[2]]>> \in reached
        BY <1>5, <2>1, <4>1
      <4> QED
        BY <4>1, <4>2
    <3> QED
      BY <3>1, <3>2
  <2>2. ASSUME vertices[d[1]] \in ends PROVE d[1] \in r
    <3>1. CASE vertices[d[1]] = me
      BY <1>2, <1>3, <3>1
    <3>2. CASE \E e \in reached : vertices[d[1]] = e[2]
      <4>1. PICK c \in DOMAIN weight : c[2] \in r /\ vertices[d[1]] = vertices[c[2]]
        BY <1>5, <3>2
      <4> QED
        BY <1>2, <4>1
    <3> QED
      BY <2>2, <3>1, <3>2
  <2> QED
    BY <2>1, <2>2
<1> HIDE DEF ends
<1>8. \A e : e \in reached <=> e \in ConnectedEdges /\ e[1] \in ends
  <2> SUFFICES ASSUME NEW e PROVE e \in reached <=> e \in ConnectedEdges /\ e[1] \in ends
    OBVIOUS
  <2>1. ASSUME e \in reached PROVE e \in ConnectedEdges /\ e[1] \in ends
    BY <1>5, <1>6, <1>7, <2>1
  <2>2. ASSUME e \in ConnectedEdges, e[1] \in ends PROVE e \in reached
    <3>1. PICK d \in DOMAIN weight : e = <<vertices[d[1]], vertices[d[2]]>>
      BY <1>6, <2>2
    <3>2. d[1] \in r
      BY <1>7, <2>2, <3>1
    <3> QED
      BY <1>3, <1>5, <3>1, <3>2
  <2> QED
    BY <2>1, <2>2
<1> QED
  BY <1>8 DEF ends, reached

LEMMA ViewsAgree == ASSUME OkGraph(Graph) PROVE ViewsOfGraphAgree
<1>1. Fit(vertices, index, slots, weight)
  BY DEF OkGraph, Graph
<1>2. \A k \in GraphKeys : index[k] # 0 => index[k] \in 1..Len(vertices) /\ vertices[index[k]] = k
  BY <1>1 DEF Fit
<1>3. \A s \in SlotValues : slots[s] = {index[k] : k \in {n \in Nodes : Encode[n] = s}}
  <2>1. slots = [s \in SlotValues |-> {index[k] : k \in {n \in GraphKeys : index[n] # 0 /\ Encode[n] = s}}]
    BY <1>1 DEF Fit
  <2>2. \A s : {n \in Nodes : Encode[n] = s} = {n \in GraphKeys : index[n] # 0 /\ Encode[n] = s}
    BY DEF Nodes
  <2> QED
    BY <2>1, <2>2
<1>4. \A e \in DOMAIN weight : {e[1], e[2]} \subseteq {index[k] : k \in Nodes}
  <2> SUFFICES ASSUME NEW e \in DOMAIN weight PROVE {e[1], e[2]} \subseteq {index[k] : k \in Nodes}
    OBVIOUS
  <2>1. PICK k \in GraphKeys, l \in GraphKeys : index[k] # 0 /\ index[l] # 0 /\ e = <<index[k], index[l]>>
    BY <1>1 DEF Fit
  <2>2. k \in Nodes /\ l \in Nodes /\ e[1] = index[k] /\ e[2] = index[l]
    BY <2>1 DEF Nodes
  <2> QED
    BY <2>2
<1> QED
  BY <1>2, <1>3, <1>4 DEF ViewsOfGraphAgree
-----------------------------------------------------------------------------
(* From slots back to the edges of a path.                                 *)
(*                                                                         *)
(* What a slot of a path leads to is the node of the path or nothing: the  *)
(* path then resolves to its own edges or to none.                         *)

LeadsTo(g, k) == Resolve(g, Encode[k]) \in {0, g.index[k]}

EncodeAll(keys) == [n \in 1..Len(keys) |-> Encode[keys[n]]]
EdgesBetween(g, keys) == [n \in 1..(Len(keys) - 1) |-> <<g.index[keys[n]], g.index[keys[n + 1]]>>]

Distinct(keys, n) == \A i, j \in 1..n : i # j => keys[i] # keys[j]

LoopFits(keys, path) ==
    /\ keys \in Seq(GraphKeys) /\ Len(keys) \in 3..PathIdLen
    /\ keys[1] = me /\ keys[Len(keys)] = me /\ Distinct(keys, Len(keys) - 1)
    /\ path = PathId(keys)

Legs(out, back) ==
    /\ out \in Seq(GraphKeys) /\ Len(out) \in 2..PathIdLen /\ Distinct(out, Len(out))
    /\ back \in Seq(GraphKeys) /\ Len(back) \in 2..PathIdLen /\ Distinct(back, Len(back))
    /\ out[1] = me /\ back[Len(back)] = me /\ out[Len(out)] = back[1]

LEMMA FirstAtIs ==
    ASSUME NEW path, Len(path) \in Nat, NEW slot, NEW from \in Nat \ {0}, NEW n \in from..Len(path), path[n] = slot
    PROVE  FirstAt(path, slot, from) \in from..n /\ path[FirstAt(path, slot, from)] = slot
<1> DEFINE at == {i \in from..Len(path) : path[i] = slot}
<1>1. n \in at /\ at \in SUBSET Nat
  OBVIOUS
<1>2. \E i \in at : \A j \in at : i <= j
  <2> HIDE DEF at
  <2> QED
    BY <1>1, LeastExists
<1>3. FirstAt(path, slot, from) = CHOOSE i \in at : \A j \in at : i <= j
  <2>1. at # {}
    BY <1>1
  <2> QED
    BY <2>1, Zenon DEF FirstAt
<1>4. FirstAt(path, slot, from) \in at /\ \A j \in at : FirstAt(path, slot, from) <= j
  <2> HIDE DEF at
  <2> QED
    BY <1>2, <1>3, Zenon
<1> QED
  BY <1>1, <1>4

LEMMA FirstAtFinds ==
    ASSUME NEW path, Len(path) \in Nat, NEW slot, NEW from \in Nat \ {0}, FirstAt(path, slot, from) # 0
    PROVE  FirstAt(path, slot, from) \in from..Len(path) /\ path[FirstAt(path, slot, from)] = slot
<1> DEFINE at == {i \in from..Len(path) : path[i] = slot}
<1>1. at # {}
  BY Zenon DEF FirstAt
<1>2. PICK i \in at : TRUE
  BY <1>1
<1> QED
  BY <1>2, FirstAtIs

LEMMA PathIdIs ==
    ASSUME NEW keys \in Seq(GraphKeys)
    PROVE  /\ Len(PathId(keys)) = PathIdLen
           /\ \A n \in 1..PathIdLen : PathId(keys)[n] = IF n <= Len(keys) THEN Encode[keys[n]] ELSE 0
<1>1. PathIdLen \in Nat
  BY DEF GraphAssumption
<1> QED
  BY <1>1 DEF PathId

LEMMA SameSlot ==
    ASSUME NEW g, OkGraph(g), NEW a \in GraphKeys, NEW b \in GraphKeys, LeadsTo(g, a), LeadsTo(g, b),
           Encode[a] = Encode[b], Resolve(g, Encode[a]) # 0
    PROVE  a = b
<1>1. g.index[a] = Resolve(g, Encode[a]) /\ g.index[b] = Resolve(g, Encode[a])
  BY DEF LeadsTo
<1> QED
  BY <1>1, IndexInjective

\* A path whose slots lead to its nodes resolves to its edges, if to any.
LEMMA AlongIs ==
    ASSUME NEW g, OkGraph(g), NEW keys \in Seq(GraphKeys), Len(keys) >= 2,
           \A n \in 1..Len(keys) : LeadsTo(g, keys[n]), EdgesAlong(g, EncodeAll(keys)) # <<>>
    PROVE  /\ EdgesAlong(g, EncodeAll(keys)) = EdgesBetween(g, keys)
           /\ \A n \in 1..(Len(keys) - 1) : EdgesBetween(g, keys)[n] \in DOMAIN g.weight
           /\ \A n \in 1..Len(keys) : Resolve(g, Encode[keys[n]]) # 0 /\ g.index[keys[n]] # 0
<1> DEFINE path == EncodeAll(keys)
           L == Len(keys)
           edges == [n \in 1..(Len(path) - 1) |-> <<Resolve(g, path[n]), Resolve(g, path[n + 1])>>]
<1>1. L \in Nat /\ L >= 2
  OBVIOUS
<1>2. Len(path) = L /\ \A n \in 1..L : path[n] = Encode[keys[n]]
  BY <1>1 DEF EncodeAll
<1> HIDE DEF path
<1>3. EdgesAlong(g, path) = edges /\ \A n \in DOMAIN edges : edges[n] \in DOMAIN g.weight
  <2>1. EdgesAlong(g, path) = IF \A n \in DOMAIN edges : edges[n] \in DOMAIN g.weight THEN edges ELSE <<>>
    BY Zenon DEF EdgesAlong
  <2>2. EdgesAlong(g, path) # <<>>
    BY DEF path
  <2> HIDE DEF edges
  <2> QED
    BY <2>1, <2>2
<1> HIDE DEF L
<1>4. edges = [n \in 1..(L - 1) |-> <<Resolve(g, path[n]), Resolve(g, path[n + 1])>>]
  BY <1>2
<1>5. \A n \in 1..(L - 1) : <<Resolve(g, path[n]), Resolve(g, path[n + 1])>> \in DOMAIN g.weight
  BY <1>3, <1>4
<1>6. \A n \in 1..(L - 1) : Resolve(g, path[n]) # 0 /\ Resolve(g, path[n + 1]) # 0
  <2> SUFFICES ASSUME NEW n \in 1..(L - 1) PROVE Resolve(g, path[n]) # 0 /\ Resolve(g, path[n + 1]) # 0
    OBVIOUS
  <2> DEFINE e == <<Resolve(g, path[n]), Resolve(g, path[n + 1])>>
  <2>1. e \in DOMAIN g.weight
    BY <1>5
  <2>2. e[1] \in 1..Len(g.vertices) /\ e[2] \in 1..Len(g.vertices)
    <3> HIDE DEF e
    <3> QED
      BY <2>1, EdgesJoinVertices
  <2> QED
    BY <2>2
<1>7. \A n \in 1..L : Resolve(g, path[n]) # 0
  <2> SUFFICES ASSUME NEW n \in 1..L PROVE Resolve(g, path[n]) # 0
    OBVIOUS
  <2>1. CASE n \in 1..(L - 1)
    BY <1>6, <2>1
  <2>2. CASE n = L
    <3>1. L - 1 \in 1..(L - 1) /\ L - 1 + 1 = n
      BY <1>1, <2>2
    <3> QED
      BY <1>6, <3>1
  <2> QED
    BY <1>1, <2>1, <2>2
<1>8. \A n \in 1..L : Resolve(g, path[n]) = g.index[keys[n]] /\ Resolve(g, path[n]) = Resolve(g, Encode[keys[n]])
  BY <1>2, <1>7 DEF LeadsTo, L
<1>9. edges = [n \in 1..(L - 1) |-> <<g.index[keys[n]], g.index[keys[n + 1]]>>]
  <2>1. \A n \in 1..(L - 1) : n \in 1..L /\ n + 1 \in 1..L
    BY <1>1
  <2>2. \A n \in 1..(L - 1) : <<Resolve(g, path[n]), Resolve(g, path[n + 1])>> = <<g.index[keys[n]], g.index[keys[n + 1]]>>
    BY <1>8, <2>1
  <2> QED
    BY <1>4, <2>2
<1> HIDE DEF edges
<1>10. edges = EdgesBetween(g, keys)
  BY <1>9 DEF EdgesBetween, L
<1>11. \A n \in 1..(L - 1) : edges[n] \in DOMAIN g.weight
  BY <1>3, <1>9
<1> QED
  BY <1>3, <1>7, <1>8, <1>10, <1>11 DEF path, L

\* A path whose slots lead to its nodes, and whose edges are there, resolves.
LEMMA AlongExists ==
    ASSUME NEW g, OkGraph(g), NEW keys \in Seq(GraphKeys), Len(keys) >= 2,
           \A n \in 1..Len(keys) : Resolve(g, Encode[keys[n]]) = g.index[keys[n]],
           \A n \in 1..(Len(keys) - 1) : HasEdge(g, keys[n], keys[n + 1])
    PROVE  EdgesAlong(g, EncodeAll(keys)) # <<>>
<1> DEFINE path == EncodeAll(keys)
           L == Len(keys)
           edges == [n \in 1..(Len(path) - 1) |-> <<Resolve(g, path[n]), Resolve(g, path[n + 1])>>]
<1>1. L \in Nat /\ L >= 2
  OBVIOUS
<1>2. Len(path) = L /\ \A n \in 1..L : path[n] = Encode[keys[n]]
  BY <1>1 DEF EncodeAll
<1> HIDE DEF path
<1>3. EdgesAlong(g, path) = IF \A n \in DOMAIN edges : edges[n] \in DOMAIN g.weight THEN edges ELSE <<>>
  BY Zenon DEF EdgesAlong
<1>4. DOMAIN edges = 1..(L - 1)
  BY <1>2
<1>5. \A n \in 1..(L - 1) : edges[n] = EdgeOf(g, keys[n], keys[n + 1])
  <2>1. \A n \in 1..(L - 1) : n \in 1..L /\ n + 1 \in 1..L
    BY <1>1
  <2> QED
    BY <1>2, <2>1 DEF EdgeOf
<1> HIDE DEF edges
<1>6. \A n \in DOMAIN edges : edges[n] \in DOMAIN g.weight
  <2> SUFFICES ASSUME NEW n \in 1..(L - 1) PROVE edges[n] \in DOMAIN g.weight
    BY <1>4, Zenon
  <2>1. HasEdge(g, keys[n], keys[n + 1])
    BY Zenon
  <2>2. edges[n] = EdgeOf(g, keys[n], keys[n + 1])
    BY <1>5, Zenon
  <2> QED
    BY <2>1, <2>2, Zenon DEF HasEdge
<1>7. edges # <<>>
  BY <1>1, <1>4
<1> QED
  BY <1>3, <1>6, <1>7 DEF path

LEMMA FunIsSeq ==
    ASSUME NEW S, NEW m \in Nat, NEW f \in [1..m -> S] PROVE f \in Seq(S) /\ Len(f) = m
OBVIOUS

LEMMA SameSeq ==
    ASSUME NEW S, NEW q \in Seq(S), NEW r \in Seq(S), Len(q) = Len(r), \A n \in 1..Len(q) : q[n] = r[n]
    PROVE  q = r
OBVIOUS

LEMMA LoopEndsAt ==
    ASSUME NEW g, OkGraph(g), NEW keys, NEW path, LoopFits(keys, path), \A n \in 1..Len(keys) : LeadsTo(g, keys[n]),
           NEW end \in 2..Len(keys), Encode[keys[end]] = Encode[me], Resolve(g, Encode[me]) # 0
    PROVE  end = Len(keys)
<1>1. keys \in Seq(GraphKeys) /\ Len(keys) \in Nat /\ Len(keys) >= 3 /\ keys[1] = me /\ me \in GraphKeys
  BY DEF LoopFits, GraphAssumption
<1>2. keys[end] \in GraphKeys /\ LeadsTo(g, keys[end]) /\ LeadsTo(g, keys[1])
  BY <1>1
<1>3. keys[end] = me
  <2>1. Encode[keys[end]] = Encode[keys[1]] /\ Resolve(g, Encode[keys[1]]) # 0
    BY <1>1, Zenon
  <2> QED
    BY <1>1, <1>2, <2>1, SameSlot, Zenon
<1> QED
  BY <1>1, <1>3 DEF LoopFits, Distinct

\* The slots of a loop up to its end.
LEMMA LoopSlots ==
    ASSUME NEW keys, NEW path, LoopFits(keys, path)
    PROVE  LET end == FirstAt(path, Encode[me], 2)
           IN  /\ end \in 2..Len(keys) /\ path[end] = Encode[keys[end]] /\ Encode[keys[end]] = Encode[me]
               /\ SubSeq(keys, 1, end) \in Seq(GraphKeys) /\ Len(SubSeq(keys, 1, end)) = end
               /\ \A n \in 1..end : SubSeq(keys, 1, end)[n] = keys[n]
               /\ SubSeq(path, 1, end) = EncodeAll(SubSeq(keys, 1, end))
<1> DEFINE L == Len(keys)
           end == FirstAt(path, Encode[me], 2)
           sub == SubSeq(keys, 1, end)
<1>1. keys \in Seq(GraphKeys) /\ L \in Nat /\ L >= 3 /\ L <= PathIdLen /\ keys[L] = me /\ PathIdLen \in Nat
  BY DEF LoopFits, GraphAssumption
<1>2. Len(path) = PathIdLen /\ \A n \in 1..L : path[n] = Encode[keys[n]]
  BY <1>1, PathIdIs DEF LoopFits
<1>3. end \in 2..L /\ path[end] = Encode[me]
  <2> HIDE DEF sub
  <2>1. L \in 1..L /\ L \in 2..Len(path)
    BY <1>1, <1>2
  <2>2. path[L] = Encode[me]
    BY <1>1, <1>2, <2>1
  <2>3. Len(path) \in Nat /\ 2 \in Nat \ {0}
    BY <1>1, <1>2
  <2> HIDE DEF L, end
  <2>4. FirstAt(path, Encode[me], 2) \in 2..L /\ path[FirstAt(path, Encode[me], 2)] = Encode[me]
    BY <2>1, <2>2, <2>3, FirstAtIs
  <2> QED
    BY <2>4, Zenon DEF end
<1> HIDE DEF end
<1>4. sub \in Seq(GraphKeys) /\ Len(sub) = end /\ \A n \in 1..end : sub[n] = keys[n]
  BY <1>1, <1>3
<1>5. SubSeq(path, 1, end) = [n \in 1..end |-> path[n]]
  <2>1. path = PathId(keys) /\ path = [n \in 1..PathIdLen |-> path[n]]
    BY DEF LoopFits, PathId
  <2> QED
    BY <1>1, <1>2, <1>3 DEF SubSeq
<1> HIDE DEF sub
<1>6. EncodeAll(sub) = [n \in 1..end |-> path[n]]
  <2>1. \A n \in 1..end : Encode[sub[n]] = path[n]
    <3> SUFFICES ASSUME NEW n \in 1..end PROVE Encode[sub[n]] = path[n]
      OBVIOUS
    <3>1. n \in 1..L
      BY <1>1, <1>3
    <3> QED
      BY <1>2, <1>4, <3>1
  <2> QED
    BY <1>4, <2>1 DEF EncodeAll
<1>7. path[end] = Encode[keys[end]] /\ Encode[keys[end]] = Encode[me]
  <2>1. end \in 1..L
    BY <1>1, <1>3
  <2> QED
    BY <1>2, <1>3, <2>1
<1>8. SubSeq(path, 1, end) = EncodeAll(sub)
  BY <1>5, <1>6
<1> QED
  BY <1>3, <1>4, <1>7, <1>8 DEF end, sub

LEMMA LoopEdges ==
    ASSUME NEW g, OkGraph(g), NEW keys, NEW path, LoopFits(keys, path), \A n \in 1..Len(keys) : LeadsTo(g, keys[n]),
           ResolveLoopback(g, path) # <<>>
    PROVE  /\ ResolveLoopback(g, path) = EdgesBetween(g, keys)
           /\ \A n \in 1..(Len(keys) - 1) : EdgesBetween(g, keys)[n] \in DOMAIN g.weight
<1> DEFINE end == FirstAt(path, Encode[me], 2)
           sub == SubSeq(keys, 1, end)
<1>1. ResolveLoopback(g, path) = EdgesAlong(g, SubSeq(path, 1, end))
  BY Zenon DEF ResolveLoopback
<1>2. /\ end \in 2..Len(keys) /\ path[end] = Encode[keys[end]] /\ Encode[keys[end]] = Encode[me]
      /\ sub \in Seq(GraphKeys) /\ Len(sub) = end /\ \A n \in 1..end : sub[n] = keys[n]
      /\ SubSeq(path, 1, end) = EncodeAll(sub)
  BY LoopSlots
<1>3. keys \in Seq(GraphKeys) /\ Len(keys) \in Nat
  BY DEF LoopFits
<1> HIDE DEF end, sub
<1>4. \A n \in 1..Len(sub) : LeadsTo(g, sub[n])
  <2> SUFFICES ASSUME NEW n \in 1..Len(sub) PROVE LeadsTo(g, sub[n])
    OBVIOUS
  <2>1. n \in 1..end /\ n \in 1..Len(keys)
    BY <1>2, <1>3
  <2>2. sub[n] = keys[n]
    BY <1>2, <2>1, Zenon
  <2> QED
    BY <2>1, <2>2, Zenon
<1>5. EdgesAlong(g, EncodeAll(sub)) # <<>>
  BY <1>1, <1>2
<1>6. /\ EdgesAlong(g, EncodeAll(sub)) = EdgesBetween(g, sub)
      /\ \A n \in 1..(Len(sub) - 1) : EdgesBetween(g, sub)[n] \in DOMAIN g.weight
      /\ \A n \in 1..Len(sub) : Resolve(g, Encode[sub[n]]) # 0 /\ g.index[sub[n]] # 0
  <2>1. Len(sub) >= 2
    BY <1>2, <1>3
  <2> QED
    BY <1>2, <1>4, <1>5, <2>1, AlongIs
<1>7. Resolve(g, Encode[me]) # 0
  <2>1. end \in 1..Len(sub) /\ sub[end] = keys[end]
    BY <1>2, <1>3
  <2> QED
    BY <1>2, <1>6, <2>1
<1>8. end = Len(keys)
  BY <1>2, <1>7, LoopEndsAt
<1>9. sub = keys
  BY <1>2, <1>3, <1>8, SameSeq
<1> QED
  BY <1>1, <1>2, <1>6, <1>9

\* A loop whose slots lead to its nodes, and whose edges are there, resolves.
LEMMA LoopResolves ==
    ASSUME NEW g, OkGraph(g), NEW keys, NEW path, LoopFits(keys, path),
           \A n \in 1..Len(keys) : Resolve(g, Encode[keys[n]]) = g.index[keys[n]] /\ g.index[keys[n]] # 0,
           \A n \in 1..(Len(keys) - 1) : HasEdge(g, keys[n], keys[n + 1])
    PROVE  ResolveLoopback(g, path) # <<>>
<1> DEFINE L == Len(keys)
           end == FirstAt(path, Encode[me], 2)
           sub == SubSeq(keys, 1, end)
<1>1. /\ keys \in Seq(GraphKeys) /\ L \in Nat /\ L >= 3 /\ L <= PathIdLen /\ keys[1] = me /\ keys[L] = me
      /\ PathIdLen \in Nat /\ path = PathId(keys)
  BY DEF LoopFits, GraphAssumption
<1>2. /\ end \in 2..Len(keys) /\ path[end] = Encode[keys[end]] /\ Encode[keys[end]] = Encode[me]
      /\ sub \in Seq(GraphKeys) /\ Len(sub) = end /\ \A n \in 1..end : sub[n] = keys[n]
      /\ SubSeq(path, 1, end) = EncodeAll(sub)
  BY LoopSlots
<1>3. \A n \in 1..L : LeadsTo(g, keys[n])
  BY DEF LeadsTo
<1>4. Resolve(g, Encode[me]) # 0
  BY <1>1
<1> HIDE DEF end, sub
<1>5. end = L
  BY <1>2, <1>3, <1>4, LoopEndsAt
<1>6. sub = keys
  <2>1. Len(sub) = Len(keys) /\ \A n \in 1..Len(keys) : sub[n] = keys[n]
    BY <1>2, <1>5, Zenon
  <2> QED
    BY <1>1, <1>2, <2>1, SameSeq, Zenon
<1>7. EdgesAlong(g, SubSeq(path, 1, end)) # <<>>
  <2>1. \A n \in 1..Len(keys) : Resolve(g, Encode[keys[n]]) = g.index[keys[n]]
    OBVIOUS
  <2>2. Len(keys) >= 2
    BY <1>1
  <2>3. EdgesAlong(g, EncodeAll(keys)) # <<>>
    BY <1>1, <2>1, <2>2, AlongExists
  <2> QED
    BY <1>2, <1>6, <2>3
<1>8. /\ Len(path) = PathIdLen /\ path[1] = Encode[me] /\ ~(end < 3)
      /\ ~\E n \in (end + 1)..Len(path) : path[n] # 0
  <2>1. Len(path) = PathIdLen /\ \A n \in 1..PathIdLen : path[n] = IF n <= L THEN Encode[keys[n]] ELSE 0
    BY <1>1, PathIdIs
  <2> QED
    BY <1>1, <1>5, <2>1
<1>9. ResolveLoopback(g, path) = EdgesAlong(g, SubSeq(path, 1, end))
  <2>1. ResolveLoopback(g, path) =
           IF \/ Len(path) # PathIdLen \/ path[1] # Encode[me] \/ end < 3
              \/ \E n \in (end + 1)..Len(path) : path[n] # 0
           THEN <<>> ELSE EdgesAlong(g, SubSeq(path, 1, end))
    BY Zenon DEF ResolveLoopback, end
  <2> QED
    BY <1>8, <2>1
<1> QED
  BY <1>7, <1>9
\* Two legs up to where they join and to where the second comes home.
Joined(out, back, j, h) == SubSeq(out, 1, j) \o SubSeq(back, 2, h)

LEMMA ConcatAt ==
    ASSUME NEW S, NEW a \in Seq(S), NEW b \in Seq(S)
    PROVE  /\ a \o b \in Seq(S) /\ Len(a \o b) = Len(a) + Len(b)
           /\ \A n \in 1..Len(a) : (a \o b)[n] = a[n]
           /\ \A n \in 1..Len(b) : (a \o b)[Len(a) + n] = b[n]
<1>1. Len(a) \in Nat /\ Len(b) \in Nat
  OBVIOUS
<1>2. a \o b \in Seq(S) /\ Len(a \o b) = Len(a) + Len(b)
  OBVIOUS
<1>3. \A n \in 1..Len(a) : (a \o b)[n] = a[n]
  OBVIOUS
<1>4. ASSUME NEW n \in 1..Len(b) PROVE (a \o b)[Len(a) + n] = b[n]
  <2>1. Len(a) + n \in 1..(Len(a) + Len(b)) /\ Len(a) + n > Len(a) /\ Len(a) + n - Len(a) = n
    BY <1>1
  <2>2. (a \o b)[Len(a) + n] = b[Len(a) + n - Len(a)]
    BY <1>1, <2>1
  <2> QED
    BY <2>1, <2>2
<1> QED
  BY <1>2, <1>3, <1>4

Joins(q, S, out, back, j, h) ==
    /\ q \in Seq(S) /\ Len(q) = j + h - 1
    /\ \A n \in 1..j : q[n] = out[n]
    /\ \A n \in 2..h : q[j + n - 1] = back[n]

LEMMA JoinedIs ==
    ASSUME NEW S, NEW out \in Seq(S), NEW back \in Seq(S), NEW j, j \in 1..Len(out), NEW h, h \in 2..Len(back)
    PROVE  Joins(Joined(out, back, j, h), S, out, back, j, h)
<1> DEFINE a == SubSeq(out, 1, j)
           b == SubSeq(back, 2, h)
<1>1. j \in Nat /\ h \in Nat /\ j >= 1 /\ h >= 2 /\ Len(out) \in Nat /\ Len(back) \in Nat
  OBVIOUS
<1>2. a \in Seq(S) /\ Len(a) = j /\ \A n \in 1..j : a[n] = out[n]
  BY <1>1
<1>3. b \in Seq(S) /\ Len(b) = h - 1 /\ \A n \in 1..(h - 1) : b[n] = back[n + 1]
  BY <1>1
<1> HIDE DEF a, b
<1>4. /\ a \o b \in Seq(S) /\ Len(a \o b) = Len(a) + Len(b)
      /\ \A n \in 1..Len(a) : (a \o b)[n] = a[n]
      /\ \A n \in 1..Len(b) : (a \o b)[Len(a) + n] = b[n]
  <2>1. a \in Seq(S) /\ b \in Seq(S)
    BY <1>2, <1>3
  <2> QED
    BY <2>1, ConcatAt
<1> DEFINE c == a \o b
<1> HIDE DEF c
<1>5. /\ c \in Seq(S) /\ Len(c) = Len(a) + Len(b)
      /\ \A n \in 1..Len(a) : c[n] = a[n]
      /\ \A n \in 1..Len(b) : c[Len(a) + n] = b[n]
  BY <1>4, Zenon DEF c
<1>6. ASSUME NEW n \in 2..h PROVE c[j + n - 1] = back[n]
  <2>1. n - 1 \in 1..(h - 1) /\ n - 1 + 1 = n /\ j + n - 1 = j + (n - 1)
    BY <1>1
  <2>2. c[j + (n - 1)] = b[n - 1] /\ b[n - 1] = back[n]
    BY <1>2, <1>3, <1>5, <2>1
  <2> QED
    BY <2>1, <2>2
<1>7. Len(c) = j + h - 1
  BY <1>1, <1>2, <1>3, <1>5
<1>8. \A n \in 1..j : c[n] = out[n]
  BY <1>2, <1>5
<1>9. Joined(out, back, j, h) = c
  BY DEF Joined, a, b, c
<1> QED
  BY <1>5, <1>6, <1>7, <1>8, <1>9, Zenon DEF Joins

\* The whole of both legs.
LEMMA WholeTrip ==
    ASSUME NEW S, NEW out \in Seq(S), NEW back \in Seq(S), Len(out) >= 1, Len(back) >= 2
    PROVE  out \o Tail(back) = Joined(out, back, Len(out), Len(back))
<1>1. Len(out) \in Nat /\ Len(back) \in Nat
  OBVIOUS
<1>2. SubSeq(out, 1, Len(out)) = out
  BY <1>1
<1>3. SubSeq(back, 2, Len(back)) = Tail(back)
  <2> DEFINE t == Tail(back)
             u == SubSeq(back, 2, Len(back))
  <2>1. t \in Seq(S) /\ Len(t) = Len(back) - 1 /\ \A n \in 1..(Len(back) - 1) : t[n] = back[n + 1]
    BY <1>1
  <2>2. u \in Seq(S) /\ Len(u) = Len(back) - 1 /\ \A n \in 1..(Len(back) - 1) : u[n] = back[n + 1]
    BY <1>1
  <2> HIDE DEF t, u
  <2>3. t = u
    BY <1>1, <2>1, <2>2, SameSeq
  <2> QED
    BY <2>3 DEF t, u
<1> QED
  BY <1>2, <1>3 DEF Joined

IsTrip(keys, out, back) == keys = out \o Tail(back)
AllLead(g, keys) == \A n \in 1..Len(keys) : LeadsTo(g, keys[n])
AllResolve(g, keys) == \A n \in 1..Len(keys) : Resolve(g, Encode[keys[n]]) = g.index[keys[n]] /\ g.index[keys[n]] # 0
AllEdges(g, keys) == \A n \in 1..(Len(keys) - 1) : HasEdge(g, keys[n], keys[n + 1])

LEMMA LegsAre ==
    ASSUME NEW out, NEW back, Legs(out, back)
    PROVE  /\ out \in Seq(GraphKeys) /\ Len(out) \in Nat /\ Len(out) >= 2 /\ Len(out) <= PathIdLen
           /\ back \in Seq(GraphKeys) /\ Len(back) \in Nat /\ Len(back) >= 2 /\ Len(back) <= PathIdLen
           /\ PathIdLen \in Nat /\ 1 \in 1..Len(out) /\ Len(out) \in 1..Len(out) /\ Len(back) \in 1..Len(back)
           /\ Len(back) \in 2..Len(back) /\ 1 \in 1..Len(back)
           /\ out[1] = me /\ back[Len(back)] = me /\ out[Len(out)] = back[1]
           /\ Distinct(out, Len(out)) /\ Distinct(back, Len(back))
BY DEF Legs, GraphAssumption

\* What a trip visits is what its legs visit.
LEMMA TripIs ==
    ASSUME NEW out, NEW back, Legs(out, back), NEW keys, IsTrip(keys, out, back)
    PROVE  /\ keys = Joined(out, back, Len(out), Len(back))
           /\ keys \in Seq(GraphKeys) /\ Len(keys) = Len(out) + Len(back) - 1
           /\ \A n \in 1..Len(out) : n \in 1..Len(keys) /\ keys[n] = out[n]
           /\ \A n \in 1..Len(back) : Len(out) + n - 1 \in 1..Len(keys) /\ keys[Len(out) + n - 1] = back[n]
<1> DEFINE joined == Joined(out, back, Len(out), Len(back))
           a == Len(out)
           b == Len(back)
<1>1. /\ out \in Seq(GraphKeys) /\ a \in Nat /\ a >= 2
      /\ back \in Seq(GraphKeys) /\ b \in Nat /\ b >= 2 /\ out[a] = back[1]
      /\ a \in 1..Len(out) /\ b \in 2..Len(back)
  BY LegsAre
<1>2. keys = joined
  <2>1. a >= 1
    BY <1>1
  <2> QED
    BY <1>1, <2>1, WholeTrip DEF IsTrip
<1>3. /\ joined \in Seq(GraphKeys) /\ Len(joined) = a + b - 1
      /\ \A n \in 1..a : joined[n] = out[n]
      /\ \A n \in 2..b : joined[a + n - 1] = back[n]
  <2>1. out \in Seq(GraphKeys) /\ back \in Seq(GraphKeys) /\ a \in 1..Len(out) /\ b \in 2..Len(back)
    BY <1>1
  <2>9. Joins(Joined(out, back, a, b), GraphKeys, out, back, a, b)
    BY <2>1, JoinedIs
  <2> QED
    BY <2>9 DEF Joins
<1> HIDE DEF joined
<1>4. \A n \in 1..a : n \in 1..Len(joined) /\ joined[n] = out[n]
  BY <1>1, <1>3
<1>5. ASSUME NEW n \in 1..b PROVE a + n - 1 \in 1..Len(joined) /\ joined[a + n - 1] = back[n]
  <2>1. CASE n = 1
    <3>1. a + n - 1 = a /\ a \in 1..a /\ a \in 1..Len(joined)
      BY <1>1, <1>3, <2>1
    <3> QED
      BY <1>1, <1>3, <2>1, <3>1
  <2>2. CASE n # 1
    <3>1. n \in 2..b /\ a + n - 1 \in 1..Len(joined)
      BY <1>1, <1>3, <2>2
    <3> QED
      BY <1>3, <3>1
  <2> QED
    BY <2>1, <2>2
<1> QED
  BY <1>2, <1>3, <1>4, <1>5, Zenon DEF joined

LEMMA TripSlots ==
    ASSUME NEW out, NEW back, Legs(out, back)
    PROVE  LET forward == PathId(out)
               reply == PathId(back)
               j == FirstAt(forward, reply[1], 1)
               h == FirstAt(reply, Encode[me], 2)
           IN  /\ j \in 1..Len(out) /\ Encode[out[j]] = Encode[back[1]]
               /\ h \in 2..Len(back) /\ Encode[back[h]] = Encode[me]
               /\ forward[1] = Encode[me]
               /\ SubSeq(forward, 1, j) \o SubSeq(reply, 2, h) = EncodeAll(Joined(out, back, j, h))
<1> DEFINE forward == PathId(out)
           reply == PathId(back)
           slot == reply[1]
           j == FirstAt(forward, slot, 1)
           h == FirstAt(reply, Encode[me], 2)
<1>0. /\ Len(out) \in Nat /\ Len(out) >= 2 /\ Len(out) <= PathIdLen
      /\ Len(back) \in Nat /\ Len(back) >= 2 /\ Len(back) <= PathIdLen /\ PathIdLen \in Nat
      /\ 1 \in 1..Len(out) /\ Len(out) \in 1..Len(out) /\ Len(back) \in 1..Len(back) /\ 1 \in 1..Len(back)
  BY LegsAre
<1>1. /\ out \in Seq(GraphKeys) /\ back \in Seq(GraphKeys)
      /\ out[1] = me /\ back[Len(back)] = me /\ out[Len(out)] = back[1]
  BY LegsAre
<1>2. /\ Len(forward) = PathIdLen /\ \A n \in 1..Len(out) : forward[n] = Encode[out[n]]
      /\ Len(reply) = PathIdLen /\ \A n \in 1..Len(back) : reply[n] = Encode[back[n]]
  <2>1. /\ Len(forward) = PathIdLen /\ \A n \in 1..PathIdLen : forward[n] = IF n <= Len(out) THEN Encode[out[n]] ELSE 0
        /\ Len(reply) = PathIdLen /\ \A n \in 1..PathIdLen : reply[n] = IF n <= Len(back) THEN Encode[back[n]] ELSE 0
    BY <1>1, PathIdIs, Zenon
  <2> HIDE DEF forward, reply
  <2> QED
    BY <1>0, <2>1
<1>3. forward \in Seq(Nat) /\ reply \in Seq(Nat)
  <2>1. \A k \in GraphKeys : Encode[k] \in Nat
    BY Slotted
  <2>2. ASSUME NEW q \in Seq(GraphKeys) PROVE PathId(q) \in [1..PathIdLen -> Nat]
    <3>1. \A n \in 1..Len(q) : Encode[q[n]] \in Nat
      BY <2>1
    <3>2. \A n \in 1..PathIdLen : n <= Len(q) => n \in 1..Len(q)
      BY <1>0
    <3> QED
      BY <3>1, <3>2 DEF PathId
  <2>3. forward \in [1..PathIdLen -> Nat] /\ reply \in [1..PathIdLen -> Nat]
    BY <1>1, <2>2, Zenon
  <2>4. PathIdLen \in Nat
    BY DEF GraphAssumption
  <2> HIDE DEF forward, reply, j, h, slot
  <2> QED
    BY <2>3, <2>4, FunIsSeq, Zenon
<1> HIDE DEF forward, reply
<1>4. slot = Encode[back[1]] /\ Encode[out[Len(out)]] = slot
  BY <1>0, <1>1, <1>2
<1> HIDE DEF slot
<1>5. j \in 1..Len(out) /\ forward[j] = slot
  <2>1. Len(out) \in 1..Len(forward) /\ forward[Len(out)] = slot /\ Len(forward) \in Nat /\ 1 \in Nat \ {0}
    BY <1>0, <1>2, <1>4
  <2> QED
    BY <2>1, FirstAtIs, Zenon DEF j
<1>6. h \in 2..Len(back) /\ reply[h] = Encode[me]
  <2>1. Len(back) \in 2..Len(reply) /\ Len(reply) \in Nat /\ 2 \in Nat \ {0}
    BY <1>0, <1>2
  <2>2. reply[Len(back)] = Encode[me]
    BY <1>0, <1>1, <1>2
  <2> QED
    BY <2>1, <2>2, FirstAtIs DEF h
<1> HIDE DEF j, h
<1>7. Encode[out[j]] = slot /\ Encode[back[h]] = Encode[me]
  <2>1. h \in 1..Len(back)
    BY <1>0, <1>6
  <2> QED
    BY <1>2, <1>5, <1>6, <2>1
<1> DEFINE keys == Joined(out, back, j, h)
           path == Joined(forward, reply, j, h)
<1>8. /\ keys \in Seq(GraphKeys) /\ Len(keys) = j + h - 1 /\ \A n \in 1..j : keys[n] = out[n]
      /\ \A n \in 2..h : keys[j + n - 1] = back[n]
  <2>1. out \in Seq(GraphKeys) /\ back \in Seq(GraphKeys) /\ j \in 1..Len(out) /\ h \in 2..Len(back)
    BY <1>1, <1>5, <1>6
  <2>9. Joins(Joined(out, back, j, h), GraphKeys, out, back, j, h)
    BY <2>1, JoinedIs
  <2> QED
    BY <2>9 DEF Joins
<1>9. /\ path \in Seq(Nat) /\ Len(path) = j + h - 1 /\ \A n \in 1..j : path[n] = forward[n]
      /\ \A n \in 2..h : path[j + n - 1] = reply[n]
  <2>1. j \in 1..Len(forward) /\ h \in 2..Len(reply)
    BY <1>0, <1>2, <1>5, <1>6
  <2>9. Joins(Joined(forward, reply, j, h), Nat, forward, reply, j, h)
    BY <1>3, <2>1, JoinedIs
  <2> QED
    BY <2>9 DEF Joins
<1> HIDE DEF keys, path
<1>10. \A n \in 1..(j + h - 1) : path[n] = Encode[keys[n]]
  <2> SUFFICES ASSUME NEW n \in 1..(j + h - 1) PROVE path[n] = Encode[keys[n]]
    OBVIOUS
  <2>1. j \in Nat /\ h \in Nat /\ j >= 1 /\ h >= 2 /\ n \in Nat
    BY <1>0, <1>5, <1>6
  <2>2. CASE n <= j
    <3>1. n \in 1..j /\ n \in 1..Len(out)
      BY <1>0, <1>5, <2>1, <2>2
    <3> QED
      BY <1>2, <1>8, <1>9, <3>1
  <2>3. CASE n > j
    <3> DEFINE m == n - j + 1
    <3>1. m \in 2..h /\ m \in 1..Len(back) /\ j + m - 1 = n
      BY <1>0, <1>6, <2>1, <2>3
    <3> HIDE DEF m
    <3>2. path[j + m - 1] = reply[m] /\ keys[j + m - 1] = back[m] /\ reply[m] = Encode[back[m]]
      BY <1>2, <1>8, <1>9, <3>1
    <3> QED
      BY <3>1, <3>2
  <2> QED
    BY <2>1, <2>2, <2>3
<1>11. path = EncodeAll(keys)
  <2>1. path = [n \in 1..(j + h - 1) |-> path[n]]
    BY <1>9
  <2>2. EncodeAll(keys) = [n \in 1..(j + h - 1) |-> Encode[keys[n]]]
    BY <1>8 DEF EncodeAll
  <2> QED
    BY <1>10, <2>1, <2>2
<1>12. forward[1] = Encode[me]
  BY <1>0, <1>1, <1>2
<1>13. SubSeq(forward, 1, j) \o SubSeq(reply, 2, h) = EncodeAll(Joined(out, back, j, h))
  BY <1>11 DEF path, keys, Joined
<1>14. Encode[out[j]] = Encode[back[1]]
  BY <1>4, <1>7
<1> QED
  BY <1>5, <1>6, <1>7, <1>12, <1>13, <1>14, Zenon DEF forward, reply, j, h, slot

\* A leg has its last node only at its end.
LEMMA LegEnds ==
    ASSUME NEW g, OkGraph(g), NEW keys \in Seq(GraphKeys), Distinct(keys, Len(keys)), NEW i \in 1..Len(keys),
           NEW m \in 1..Len(keys), LeadsTo(g, keys[i]), LeadsTo(g, keys[m]), Encode[keys[i]] = Encode[keys[m]],
           Resolve(g, Encode[keys[m]]) # 0
    PROVE  i = m
<1>1. keys[i] \in GraphKeys /\ keys[m] \in GraphKeys
  OBVIOUS
<1>2. keys[i] = keys[m]
  BY <1>1, SameSlot
<1> QED
  BY <1>2 DEF Distinct

\* The slots of a trip, and the nodes they stand for.
LEMMA TripPath ==
    ASSUME NEW g, OkGraph(g), NEW out, NEW back, Legs(out, back), NEW keys, IsTrip(keys, out, back), AllLead(g, keys)
    PROVE  LET forward == PathId(out)
               reply == PathId(back)
               j == FirstAt(forward, reply[1], 1)
               h == FirstAt(reply, Encode[me], 2)
               sub == Joined(out, back, j, h)
           IN  /\ ResolveRoundTrip(g, forward, reply) = EdgesAlong(g, EncodeAll(sub))
               /\ sub \in Seq(GraphKeys) /\ Len(sub) >= 2 /\ AllLead(g, sub)
               /\ (\A n \in 1..Len(sub) : Resolve(g, Encode[sub[n]]) # 0) => sub = keys
               /\ AllResolve(g, keys) => sub = keys
<1> DEFINE forward == PathId(out)
           reply == PathId(back)
           j == FirstAt(forward, reply[1], 1)
           h == FirstAt(reply, Encode[me], 2)
           sub == Joined(out, back, j, h)
<1>1. /\ j \in 1..Len(out) /\ Encode[out[j]] = Encode[back[1]]
      /\ h \in 2..Len(back) /\ Encode[back[h]] = Encode[me] /\ forward[1] = Encode[me]
      /\ SubSeq(forward, 1, j) \o SubSeq(reply, 2, h) = EncodeAll(sub)
  BY TripSlots, Zenon
<1>2. ResolveRoundTrip(g, forward, reply) = IF forward[1] # Encode[me] \/ j = 0 \/ h = 0 THEN <<>>
                                            ELSE EdgesAlong(g, SubSeq(forward, 1, j) \o SubSeq(reply, 2, h))
  BY Zenon DEF ResolveRoundTrip
<1> HIDE DEF j, h, forward, reply
<1>3. /\ Len(out) \in Nat /\ Len(out) >= 2 /\ Len(back) \in Nat /\ Len(back) >= 2
      /\ Len(out) \in 1..Len(out) /\ Len(back) \in 1..Len(back) /\ 1 \in 1..Len(back)
  BY LegsAre
<1>4. /\ out \in Seq(GraphKeys) /\ back \in Seq(GraphKeys)
      /\ back[Len(back)] = me /\ out[Len(out)] = back[1] /\ Distinct(out, Len(out)) /\ Distinct(back, Len(back))
  BY LegsAre
<1>5. j # 0 /\ h # 0 /\ j \in Nat /\ h \in Nat /\ h \in 1..Len(back) /\ j >= 1 /\ h >= 2
  BY <1>1, <1>3
<1>6. ResolveRoundTrip(g, forward, reply) = EdgesAlong(g, EncodeAll(sub))
  BY <1>1, <1>2, <1>5, Zenon
<1>7. /\ sub \in Seq(GraphKeys) /\ Len(sub) = j + h - 1 /\ \A n \in 1..j : sub[n] = out[n]
      /\ \A n \in 2..h : sub[j + n - 1] = back[n]
  <2>1. out \in Seq(GraphKeys) /\ back \in Seq(GraphKeys) /\ j \in 1..Len(out) /\ h \in 2..Len(back)
    BY <1>1, <1>4
  <2>9. Joins(Joined(out, back, j, h), GraphKeys, out, back, j, h)
    BY <2>1, JoinedIs
  <2> QED
    BY <2>9 DEF Joins
<1>8. /\ keys = Joined(out, back, Len(out), Len(back))
      /\ \A n \in 1..Len(out) : n \in 1..Len(keys) /\ keys[n] = out[n]
      /\ \A n \in 1..Len(back) : Len(out) + n - 1 \in 1..Len(keys) /\ keys[Len(out) + n - 1] = back[n]
  BY TripIs
<1>9. (\A n \in 1..Len(out) : LeadsTo(g, out[n])) /\ (\A n \in 1..Len(back) : LeadsTo(g, back[n]))
  <2>1. \A n \in 1..Len(keys) : LeadsTo(g, keys[n])
    BY DEF AllLead
  <2>2. \A n \in 1..Len(out) : LeadsTo(g, out[n])
    BY <1>8, <2>1, Zenon
  <2>3. \A n \in 1..Len(back) : LeadsTo(g, back[n])
    BY <1>8, <2>1, Zenon
  <2> QED
    BY <2>2, <2>3
<1> HIDE DEF sub
<1>10. AllLead(g, sub)
  <2> SUFFICES ASSUME NEW n \in 1..Len(sub) PROVE LeadsTo(g, sub[n])
    BY DEF AllLead
  <2>1. CASE n \in 1..j
    <3>1. n \in 1..Len(out)
      BY <1>1, <1>3, <2>1
    <3> QED
      BY <1>7, <1>9, <2>1, <3>1
  <2>2. CASE n \notin 1..j
    <3> DEFINE m == n - j + 1
    <3>1. m \in 2..h /\ m \in 1..Len(back) /\ j + m - 1 = n
      BY <1>1, <1>3, <1>5, <1>7, <2>2
    <3> HIDE DEF m
    <3>2. sub[n] = back[m]
      BY <1>7, <3>1
    <3> QED
      BY <1>9, <3>1, <3>2
  <2> QED
    BY <2>1, <2>2
<1>11. Len(sub) >= 2
  BY <1>5, <1>7
<1>12. ASSUME Resolve(g, Encode[out[Len(out)]]) # 0 PROVE j = Len(out)
  <2>1. out \in Seq(GraphKeys) /\ Distinct(out, Len(out)) /\ j \in 1..Len(out) /\ Len(out) \in 1..Len(out)
    BY <1>1, <1>3, <1>4
  <2>2. LeadsTo(g, out[j]) /\ LeadsTo(g, out[Len(out)]) /\ Encode[out[j]] = Encode[out[Len(out)]]
    BY <1>1, <1>4, <1>9, <2>1
  <2> QED
    BY <1>12, <2>1, <2>2, LegEnds
<1>13. ASSUME Resolve(g, Encode[back[Len(back)]]) # 0 PROVE h = Len(back)
  BY <1>1, <1>3, <1>4, <1>5, <1>9, <1>13, LegEnds
<1>14. ASSUME Resolve(g, Encode[out[Len(out)]]) # 0, Resolve(g, Encode[back[Len(back)]]) # 0 PROVE sub = keys
  BY <1>8, <1>12, <1>13, <1>14 DEF sub
<1>15. ASSUME \A n \in 1..Len(sub) : Resolve(g, Encode[sub[n]]) # 0 PROVE sub = keys
  <2>1. j \in 1..Len(sub) /\ j \in 1..j /\ j + h - 1 \in 1..Len(sub) /\ h \in 2..h
    BY <1>5, <1>7
  <2>2. sub[j] = out[j] /\ sub[j + h - 1] = back[h]
    BY <1>7, <2>1
  <2>3. Resolve(g, Encode[out[j]]) # 0 /\ Resolve(g, Encode[back[h]]) # 0
    BY <1>15, <2>1, <2>2, Zenon
  <2>4. Encode[out[Len(out)]] = Encode[out[j]] /\ Encode[back[Len(back)]] = Encode[back[h]]
    BY <1>1, <1>4
  <2> QED
    BY <1>14, <2>3, <2>4
<1>16. ASSUME AllResolve(g, keys) PROVE sub = keys
  <2>1. \A n \in 1..Len(keys) : Resolve(g, Encode[keys[n]]) # 0
    BY <1>16 DEF AllResolve
  <2>2. Resolve(g, Encode[out[Len(out)]]) # 0
    <3>1. Len(out) \in 1..Len(keys) /\ keys[Len(out)] = out[Len(out)]
      BY <1>3, <1>8, Zenon
    <3> QED
      BY <2>1, <3>1, Zenon
  <2>3. Resolve(g, Encode[back[Len(back)]]) # 0
    <3> DEFINE at == Len(out) + Len(back) - 1
    <3>1. at \in 1..Len(keys) /\ keys[at] = back[Len(back)]
      BY <1>3, <1>8, Zenon
    <3> HIDE DEF at
    <3> QED
      BY <2>1, <3>1, Zenon
  <2> QED
    BY <1>14, <2>2, <2>3
<1> QED
  BY <1>6, <1>7, <1>10, <1>11, <1>15, <1>16, Zenon DEF forward, reply, j, h, sub

LEMMA TripEdges ==
    ASSUME NEW g, OkGraph(g), NEW out, NEW back, Legs(out, back), NEW keys, IsTrip(keys, out, back), AllLead(g, keys),
           ResolveRoundTrip(g, PathId(out), PathId(back)) # <<>>
    PROVE  /\ ResolveRoundTrip(g, PathId(out), PathId(back)) = EdgesBetween(g, keys)
           /\ \A n \in 1..(Len(keys) - 1) : EdgesBetween(g, keys)[n] \in DOMAIN g.weight
<1>1. PICK sub \in Seq(GraphKeys) :
        /\ ResolveRoundTrip(g, PathId(out), PathId(back)) = EdgesAlong(g, EncodeAll(sub))
        /\ Len(sub) >= 2 /\ AllLead(g, sub)
        /\ (\A n \in 1..Len(sub) : Resolve(g, Encode[sub[n]]) # 0) => sub = keys
  <2> DEFINE sub == Joined(out, back, FirstAt(PathId(out), PathId(back)[1], 1), FirstAt(PathId(back), Encode[me], 2))
  <2>1. /\ ResolveRoundTrip(g, PathId(out), PathId(back)) = EdgesAlong(g, EncodeAll(sub))
        /\ sub \in Seq(GraphKeys) /\ Len(sub) >= 2 /\ AllLead(g, sub)
        /\ (\A n \in 1..Len(sub) : Resolve(g, Encode[sub[n]]) # 0) => sub = keys
    BY TripPath
  <2> HIDE DEF sub
  <2> QED
    BY <2>1, Zenon
<1>2. EdgesAlong(g, EncodeAll(sub)) # <<>> /\ \A n \in 1..Len(sub) : LeadsTo(g, sub[n])
  BY <1>1, Zenon DEF AllLead
<1>3. /\ EdgesAlong(g, EncodeAll(sub)) = EdgesBetween(g, sub)
      /\ \A n \in 1..(Len(sub) - 1) : EdgesBetween(g, sub)[n] \in DOMAIN g.weight
      /\ \A n \in 1..Len(sub) : Resolve(g, Encode[sub[n]]) # 0 /\ g.index[sub[n]] # 0
  BY <1>1, <1>2, AlongIs, Zenon
<1>4. sub = keys
  BY <1>1, <1>3, Zenon
<1> QED
  BY <1>1, <1>3, <1>4, Zenon

LEMMA TripResolves ==
    ASSUME NEW g, OkGraph(g), NEW out, NEW back, Legs(out, back), NEW keys, IsTrip(keys, out, back),
           AllResolve(g, keys), AllEdges(g, keys)
    PROVE  ResolveRoundTrip(g, PathId(out), PathId(back)) # <<>>
<1>1. AllLead(g, keys)
  BY DEF AllLead, AllResolve, LeadsTo
<1>2. PICK sub \in Seq(GraphKeys) :
        /\ ResolveRoundTrip(g, PathId(out), PathId(back)) = EdgesAlong(g, EncodeAll(sub))
        /\ Len(sub) >= 2 /\ sub = keys
  <2> DEFINE sub == Joined(out, back, FirstAt(PathId(out), PathId(back)[1], 1), FirstAt(PathId(back), Encode[me], 2))
  <2>1. /\ ResolveRoundTrip(g, PathId(out), PathId(back)) = EdgesAlong(g, EncodeAll(sub))
        /\ sub \in Seq(GraphKeys) /\ Len(sub) >= 2 /\ sub = keys
    BY <1>1, TripPath
  <2> HIDE DEF sub
  <2> QED
    BY <2>1, Zenon
<1>3. /\ \A n \in 1..Len(keys) : Resolve(g, Encode[keys[n]]) = g.index[keys[n]]
      /\ \A n \in 1..(Len(keys) - 1) : HasEdge(g, keys[n], keys[n + 1])
  BY DEF AllResolve, AllEdges
<1>4. EdgesAlong(g, EncodeAll(keys)) # <<>>
  BY <1>2, <1>3, AlongExists, Zenon
<1> QED
  BY <1>2, <1>4
-----------------------------------------------------------------------------
(* Paths in flight.                                                        *)
(*                                                                         *)
(* A path that lost neither a node nor an edge is a path of the graph.     *)

TripFits(keys, forward, reply) ==
    \E out, back : Legs(out, back) /\ IsTrip(keys, out, back) /\ forward = PathId(out) /\ reply = PathId(back)

OkFlight(f) ==
    /\ f = [kind |-> f.kind, nodes |-> f.nodes, forward |-> f.forward, reply |-> f.reply, gone |-> f.gone, cut |-> f.cut]
    /\ f.gone \in BOOLEAN /\ f.cut \in BOOLEAN
    /\ \/ f.kind = "loop" /\ LoopFits(f.nodes, f.forward)
       \/ f.kind = "surb" /\ TripFits(f.nodes, f.forward, f.reply)

AllKnown(g, keys) == \A n \in 1..Len(keys) : g.index[keys[n]] # 0
Standing(g, f) == (~f.gone => AllKnown(g, f.nodes)) /\ (~f.gone /\ ~f.cut => AllEdges(g, f.nodes))

Placed(a) == a.edge \in a.meant \/ (a.gone /\ \E k \in a.nodes : Shared(k, GraphKeys))

FlightInv ==
    /\ \A f \in flying : OkFlight(f) /\ Standing(Graph, f)
    /\ \A a \in attributed : Placed(a)

LEMMA FlightNodes ==
    ASSUME NEW f, OkFlight(f)
    PROVE  f.nodes \in Seq(GraphKeys) /\ Len(f.nodes) \in Nat /\ Len(f.nodes) >= 3 /\ f.nodes[1] = me
<1>1. CASE LoopFits(f.nodes, f.forward)
  BY <1>1 DEF LoopFits, GraphAssumption
<1>2. CASE TripFits(f.nodes, f.forward, f.reply)
  <2>1. PICK out, back : Legs(out, back) /\ IsTrip(f.nodes, out, back)
    BY <1>2 DEF TripFits
  <2>2. /\ Len(out) \in Nat /\ Len(out) >= 2 /\ Len(back) \in Nat /\ Len(back) >= 2
        /\ 1 \in 1..Len(out) /\ out[1] = me
    BY <2>1, LegsAre
  <2>3. /\ f.nodes \in Seq(GraphKeys) /\ Len(f.nodes) = Len(out) + Len(back) - 1
        /\ \A n \in 1..Len(out) : n \in 1..Len(f.nodes) /\ f.nodes[n] = out[n]
    BY <2>1, TripIs
  <2>4. f.nodes[1] = me
    BY <2>2, <2>3
  <2>5. \A a, b \in Nat : a >= 2 /\ b >= 2 => a + b - 1 \in Nat /\ a + b - 1 >= 3
    OBVIOUS
  <2> QED
    BY <2>2, <2>3, <2>4, <2>5
<1> QED
  BY <1>1, <1>2 DEF OkFlight

LEMMA StillStanding ==
    ASSUME NEW g, NEW h, NEW f, OkFlight(f), Standing(g, f), Grown(g, h)
    PROVE  Standing(h, f)
<1> DEFINE L == Len(f.nodes)
<1>1. \A n \in 1..L : f.nodes[n] \in GraphKeys
  BY FlightNodes
<1>2. L \in Nat
  BY FlightNodes
<1> HIDE DEF L
<1>3. \A n \in 1..(L - 1) : f.nodes[n] \in GraphKeys /\ f.nodes[n + 1] \in GraphKeys
  <2>1. \A n \in 1..(L - 1) : n \in 1..L /\ n + 1 \in 1..L
    BY <1>2
  <2> QED
    BY <1>1, <2>1
<1>4. ASSUME AllKnown(g, f.nodes) PROVE AllKnown(h, f.nodes)
  BY <1>1, <1>4 DEF AllKnown, Grown, L
<1>5. ASSUME AllEdges(g, f.nodes) PROVE AllEdges(h, f.nodes)
  BY <1>3, <1>5 DEF AllEdges, Grown, L
<1> QED
  BY <1>4, <1>5 DEF Standing

LEMMA GrowingCall ==
    ASSUME GraphInv, FlightInv, NEW g, OkGraph(g), Grown(Graph, g), Becomes(g), UNCHANGED <<flying, attributed>>
    PROVE  FlightInv'
<1>1. Graph' = g
  BY BecomesIs
<1>2. \A f \in flying : OkFlight(f) /\ Standing(g, f)
  BY StillStanding DEF FlightInv
<1> QED
  BY <1>1, <1>2 DEF FlightInv

LEMMA NodeRecordedFlies == ASSUME GraphInv, FlightInv, NEW k \in GraphKeys, NodeRecorded(k) PROVE FlightInv'
<1>1. OkGraph(AddNode(Graph, k)) /\ Grown(Graph, AddNode(Graph, k))
  BY AddNodeFits DEF GraphInv
<1> QED
  BY <1>1, GrowingCall DEF NodeRecorded, Change

LEMMA EdgeAddedFlies ==
    ASSUME GraphInv, FlightInv, NEW k \in GraphKeys, NEW l \in GraphKeys, EdgeAdded(k, l) PROVE FlightInv'
<1>1. Graph.index[k] # 0 /\ Graph.index[l] # 0
  BY DEF EdgeAdded, Nodes, Graph
<1>2. OkGraph(AddEdge(Graph, k, l)) /\ Grown(Graph, AddEdge(Graph, k, l))
  BY <1>1, AddEdgeFits DEF GraphInv
<1> QED
  BY <1>2, GrowingCall DEF EdgeAdded, Change

LEMMA HealthReportedFlies == ASSUME GraphInv, FlightInv, NEW k \in GraphKeys, HealthReported(k) PROVE FlightInv'
<1>1. OkGraph(SetNodeHealth(Graph, k, 0)) /\ Grown(Graph, SetNodeHealth(Graph, k, 0))
  BY HealthFits DEF GraphInv
<1> QED
  BY <1>1, GrowingCall DEF HealthReported, Change

LEMMA UpsertFlies ==
    ASSUME GraphInv, FlightInv, NEW a \in GraphKeys, NEW b \in GraphKeys, NEW ms, Report(ms),
           Becomes(UpsertEdge(Graph, a, b, ms)), UNCHANGED <<flying, attributed>>
    PROVE  FlightInv'
<1>1. OkGraph(UpsertEdge(Graph, a, b, ms)) /\ Grown(Graph, UpsertEdge(Graph, a, b, ms))
  BY UpsertFits DEF GraphInv
<1> QED
  BY <1>1, GrowingCall

LEMMA BalanceReportedFlies ==
    ASSUME GraphInv, FlightInv, NEW k \in GraphKeys, NEW l \in GraphKeys, BalanceReported(k, l) PROVE FlightInv'
<1> DEFINE ms == <<[kind |-> "Balance", value |-> 1]>>
<1>1. Report(ms)
  BY DEF Report, GraphKinds
<1>2. Becomes(UpsertEdge(Graph, k, l, ms)) /\ UNCHANGED <<flying, attributed>>
  BY DEF BalanceReported, Change
<1> HIDE DEF ms
<1> QED
  BY <1>1, <1>2, UpsertFlies

LEMMA NeighbourReportedFlies ==
    ASSUME GraphInv, FlightInv, NEW p \in GraphKeys, NEW ms \in NeighbourReports, NeighbourReported(p, ms) PROVE FlightInv'
<1>1. Becomes(UpsertEdge(Graph, me, p, ms)) /\ UNCHANGED <<flying, attributed>>
  BY DEF NeighbourReported, Change
<1>2. Report(ms) /\ me \in GraphKeys
  BY NeighbourReportsAreReports DEF GraphAssumption
<1> QED
  BY <1>1, <1>2, UpsertFlies

LEMMA NeighbourCompletedFlies == ASSUME GraphInv, FlightInv, NEW h \in halves, NeighbourCompleted(h) PROVE FlightInv'
<1>1. Becomes(UpsertEdge(Graph, h.peer, me, h.ms)) /\ UNCHANGED <<flying, attributed>>
  BY DEF NeighbourCompleted, OtherHalf
<1>2. Report(h.ms) /\ h.peer \in GraphKeys /\ me \in GraphKeys
  BY DEF GraphInv, OkHalves, GraphAssumption
<1> QED
  BY <1>1, <1>2, UpsertFlies

\* What becomes of a path when a node or an edge is removed.
LEMMA MarkedGone ==
    ASSUME NEW f, OkFlight(f), NEW x \in BOOLEAN
    PROVE  LET h == [f EXCEPT !.gone = x] IN OkFlight(h) /\ h.nodes = f.nodes /\ h.gone = x /\ h.cut = f.cut
<1> DEFINE h == [f EXCEPT !.gone = x]
<1>1. f = [kind |-> f.kind, nodes |-> f.nodes, forward |-> f.forward, reply |-> f.reply, gone |-> f.gone, cut |-> f.cut]
  BY Zenon DEF OkFlight
<1>2. h = [kind |-> f.kind, nodes |-> f.nodes, forward |-> f.forward, reply |-> f.reply, gone |-> x, cut |-> f.cut]
  BY <1>1
<1> HIDE DEF h
<1>3. /\ h.kind = f.kind /\ h.nodes = f.nodes /\ h.forward = f.forward /\ h.reply = f.reply
      /\ h.gone = x /\ h.cut = f.cut
  BY <1>2, Zenon
<1>4. h = [kind |-> h.kind, nodes |-> h.nodes, forward |-> h.forward, reply |-> h.reply, gone |-> h.gone, cut |-> h.cut]
  BY <1>2, <1>3, Zenon
<1>5. OkFlight(h)
  BY <1>3, <1>4, Zenon DEF OkFlight
<1> QED
  BY <1>3, <1>5, Zenon DEF h

LEMMA MarkedCut ==
    ASSUME NEW f, OkFlight(f), NEW x \in BOOLEAN
    PROVE  LET h == [f EXCEPT !.cut = x] IN OkFlight(h) /\ h.nodes = f.nodes /\ h.gone = f.gone /\ h.cut = x
<1> DEFINE h == [f EXCEPT !.cut = x]
<1>1. f = [kind |-> f.kind, nodes |-> f.nodes, forward |-> f.forward, reply |-> f.reply, gone |-> f.gone, cut |-> f.cut]
  BY Zenon DEF OkFlight
<1>2. h = [kind |-> f.kind, nodes |-> f.nodes, forward |-> f.forward, reply |-> f.reply, gone |-> f.gone, cut |-> x]
  BY <1>1
<1> HIDE DEF h
<1>3. /\ h.kind = f.kind /\ h.nodes = f.nodes /\ h.forward = f.forward /\ h.reply = f.reply
      /\ h.gone = f.gone /\ h.cut = x
  BY <1>2, Zenon
<1>4. h = [kind |-> h.kind, nodes |-> h.nodes, forward |-> h.forward, reply |-> h.reply, gone |-> h.gone, cut |-> h.cut]
  BY <1>2, <1>3, Zenon
<1>5. OkFlight(h)
  BY <1>3, <1>4, Zenon DEF OkFlight
<1> QED
  BY <1>3, <1>5, Zenon DEF h

LEMMA NodeRemovedFlies == ASSUME GraphInv, FlightInv, NEW k \in GraphKeys, NodeRemoved(k) PROVE FlightInv'
<1> DEFINE g == RemoveNode(Graph, k)
<1>1. /\ OkGraph(Graph) /\ k \in GraphKeys \ {me} /\ Becomes(g) /\ attributed' = attributed
      /\ flying' = {[f EXCEPT !.gone = @ \/ k \in ToSet(f.nodes)] : f \in flying}
  BY DEF NodeRemoved, GraphInv, Change
<1>2. /\ OkGraph(g) /\ \A a \in GraphKeys \ {k} : g.index[a] = Graph.index[a]
      /\ \A a, b \in GraphKeys \ {k} : HasEdge(g, a, b) <=> HasEdge(Graph, a, b)
  BY <1>1, RemoveNodeFits
<1>3. Graph' = g
  BY <1>1, <1>2, BecomesIs
<1> HIDE DEF g
<1>4. ASSUME NEW f \in flying PROVE LET h == [f EXCEPT !.gone = @ \/ k \in ToSet(f.nodes)] IN OkFlight(h) /\ Standing(g, h)
  <2> DEFINE lost == k \in ToSet(f.nodes)
             h == [f EXCEPT !.gone = @ \/ lost]
  <2>1. OkFlight(f) /\ Standing(Graph, f)
    BY DEF FlightInv
  <2>4. OkFlight(h) /\ h.nodes = f.nodes /\ (~h.gone => ~f.gone /\ ~lost) /\ (~h.cut => ~f.cut)
    <3> DEFINE x == f.gone \/ lost
    <3>1. h = [f EXCEPT !.gone = x]
      OBVIOUS
    <3>2. x \in BOOLEAN
      BY Zenon
    <3>3. x <=> f.gone \/ lost
      BY Zenon
    <3> HIDE DEF x, h, lost
    <3>4. OkFlight(h) /\ h.nodes = f.nodes /\ h.gone = x /\ h.cut = f.cut
      BY <2>1, <3>1, <3>2, MarkedGone, Zenon
    <3> QED
      BY <3>3, <3>4, Zenon
  <2> HIDE DEF h, lost
  <2>5. f.nodes \in Seq(GraphKeys) /\ Len(f.nodes) \in Nat
    BY <2>1, FlightNodes
  <2>6. ASSUME ~lost PROVE \A n \in 1..Len(f.nodes) : f.nodes[n] \in GraphKeys \ {k}
    <3>1. \A n \in 1..Len(f.nodes) : f.nodes[n] \in GraphKeys /\ f.nodes[n] \in ToSet(f.nodes)
      BY <2>5 DEF ToSet
    <3> QED
      BY <2>6, <3>1 DEF lost
  <2>7. ASSUME ~h.gone PROVE AllKnown(g, h.nodes)
    <3>1. ~lost /\ AllKnown(Graph, f.nodes)
      BY <2>1, <2>4, <2>7 DEF Standing
    <3> QED
      BY <1>2, <2>4, <2>6, <3>1 DEF AllKnown
  <2>8. ASSUME ~h.gone, ~h.cut PROVE AllEdges(g, h.nodes)
    <3>1. ~lost /\ AllEdges(Graph, f.nodes)
      BY <2>1, <2>4, <2>8 DEF Standing
    <3>2. \A n \in 1..(Len(f.nodes) - 1) : n \in 1..Len(f.nodes) /\ n + 1 \in 1..Len(f.nodes)
      BY <2>5
    <3>3. \A n \in 1..(Len(f.nodes) - 1) : f.nodes[n] \in GraphKeys \ {k} /\ f.nodes[n + 1] \in GraphKeys \ {k}
      BY <2>6, <3>1, <3>2
    <3> QED
      BY <1>2, <2>4, <3>1, <3>3 DEF AllEdges
  <2> QED
    BY <2>4, <2>7, <2>8 DEF Standing, h, lost
<1>5. \A h \in flying' : OkFlight(h) /\ Standing(g, h)
  BY <1>1, <1>4, Zenon
<1> QED
  BY <1>1, <1>3, <1>5 DEF FlightInv

LEMMA EdgeRemovedFlies ==
    ASSUME GraphInv, FlightInv, NEW k \in GraphKeys, NEW l \in GraphKeys, EdgeRemoved(k, l) PROVE FlightInv'
<1> DEFINE g == RemoveEdge(Graph, k, l)
<1>1. /\ OkGraph(Graph) /\ HasEdge(Graph, k, l) /\ Becomes(g) /\ attributed' = attributed
      /\ flying' = {[f EXCEPT !.cut = @ \/ <<k, l>> \in EdgesOfKeys(f.nodes)] : f \in flying}
  BY DEF EdgeRemoved, GraphInv, Change, HasEdge, Graph
<1>2. /\ OkGraph(g) /\ g.index = Graph.index
      /\ \A c, d \in GraphKeys : <<c, d>> # <<k, l>> => (HasEdge(g, c, d) <=> HasEdge(Graph, c, d))
  BY <1>1, RemoveEdgeFits
<1>3. Graph' = g
  BY <1>1, <1>2, BecomesIs
<1> HIDE DEF g
<1>4. ASSUME NEW f \in flying
      PROVE  LET h == [f EXCEPT !.cut = @ \/ <<k, l>> \in EdgesOfKeys(f.nodes)] IN OkFlight(h) /\ Standing(g, h)
  <2> DEFINE severed == <<k, l>> \in EdgesOfKeys(f.nodes)
             h == [f EXCEPT !.cut = @ \/ severed]
  <2>1. OkFlight(f) /\ Standing(Graph, f)
    BY DEF FlightInv
  <2>4. OkFlight(h) /\ h.nodes = f.nodes /\ (~h.gone => ~f.gone) /\ (~h.cut => ~f.cut /\ ~severed)
    <3> DEFINE x == f.cut \/ severed
    <3>1. h = [f EXCEPT !.cut = x]
      OBVIOUS
    <3>2. x \in BOOLEAN
      BY Zenon
    <3>3. x <=> f.cut \/ severed
      BY Zenon
    <3> HIDE DEF x, h, severed
    <3>4. OkFlight(h) /\ h.nodes = f.nodes /\ h.gone = f.gone /\ h.cut = x
      BY <2>1, <3>1, <3>2, MarkedCut, Zenon
    <3> QED
      BY <3>3, <3>4, Zenon
  <2> HIDE DEF h, severed
  <2>5. f.nodes \in Seq(GraphKeys) /\ Len(f.nodes) \in Nat
    BY <2>1, FlightNodes
  <2>6. ASSUME ~h.gone PROVE AllKnown(g, h.nodes)
    BY <1>2, <2>1, <2>4, <2>6 DEF Standing, AllKnown
  <2>7. ASSUME ~h.gone, ~h.cut PROVE AllEdges(g, h.nodes)
    <3>1. ~severed /\ AllEdges(Graph, f.nodes)
      BY <2>1, <2>4, <2>7 DEF Standing
    <3>2. \A n \in 1..(Len(f.nodes) - 1) : n \in 1..Len(f.nodes) /\ n + 1 \in 1..Len(f.nodes)
      BY <2>5
    <3>3. \A n \in 1..(Len(f.nodes) - 1) : f.nodes[n] \in GraphKeys /\ f.nodes[n + 1] \in GraphKeys
      BY <2>5, <3>2
    <3>4. \A n \in 1..(Len(f.nodes) - 1) : <<f.nodes[n], f.nodes[n + 1]>> # <<k, l>>
      BY <3>1 DEF severed, EdgesOfKeys
    <3> QED
      BY <1>2, <2>4, <3>1, <3>3, <3>4 DEF AllEdges
  <2> QED
    BY <2>4, <2>6, <2>7 DEF Standing, h, severed
<1>5. \A h \in flying' : OkFlight(h) /\ Standing(g, h)
  BY <1>1, <1>4, Zenon
<1> QED
  BY <1>1, <1>3, <1>5 DEF FlightInv

\* The keys on a simple path of the graph.
Walks(g, q, n) ==
    /\ q \in Seq(GraphKeys) /\ Len(q) = n + 1 /\ Distinct(q, n + 1)
    /\ \A i \in 1..(n + 1) : g.index[q[i]] # 0
    /\ \A i \in 1..n : HasEdge(g, q[i], q[i + 1])

Follows(g, p, source, goals, n) ==
    /\ Walks(g, KeysOf(g, p), n) /\ p = [i \in 1..(n + 1) |-> p[i]]
    /\ g.index[KeysOf(g, p)[1]] = source /\ g.index[KeysOf(g, p)[n + 1]] \in goals
    /\ g.index[KeysOf(g, p)[n + 1]] = p[n + 1]

LEMMA WalkKeys ==
    ASSUME NEW g, OkGraph(g), NEW n \in Nat, n >= 1, NEW source, NEW goals,
           NEW p \in P!SimplePaths(DOMAIN g.weight, source, goals, n)
    PROVE  Follows(g, p, source, goals, n)
<1> DEFINE q == KeysOf(g, p)
           V(i) == g.vertices[p[i]]
<1>1. /\ p = [i \in 1..(n + 1) |-> p[i]] /\ DOMAIN p = 1..(n + 1) /\ p[1] = source /\ p[n + 1] \in goals
      /\ \A i \in 1..n : <<p[i], p[i + 1]>> \in DOMAIN g.weight
      /\ \A i, j \in 1..(n + 1) : i # j => p[i] # p[j]
  BY DEF P!SimplePaths
<1>2. \A i \in 1..n : /\ V(i) \in GraphKeys /\ g.index[V(i)] = p[i] /\ p[i] \in 1..Len(g.vertices)
                      /\ V(i + 1) \in GraphKeys /\ g.index[V(i + 1)] = p[i + 1] /\ p[i + 1] \in 1..Len(g.vertices)
  <2> SUFFICES ASSUME NEW i \in 1..n
               PROVE  /\ V(i) \in GraphKeys /\ g.index[V(i)] = p[i] /\ p[i] \in 1..Len(g.vertices)
                      /\ V(i + 1) \in GraphKeys /\ g.index[V(i + 1)] = p[i + 1] /\ p[i + 1] \in 1..Len(g.vertices)
    OBVIOUS
  <2> DEFINE e == <<p[i], p[i + 1]>>
  <2>1. e \in DOMAIN g.weight /\ e[1] = p[i] /\ e[2] = p[i + 1]
    BY <1>1
  <2> HIDE DEF e
  <2>2. /\ e[1] \in 1..Len(g.vertices) /\ e[2] \in 1..Len(g.vertices)
        /\ g.vertices[e[1]] \in GraphKeys /\ g.index[g.vertices[e[1]]] = e[1]
        /\ g.vertices[e[2]] \in GraphKeys /\ g.index[g.vertices[e[2]]] = e[2]
    BY <2>1, EdgesJoinVertices
  <2> QED
    BY <2>1, <2>2
<1>3. \A i \in 1..(n + 1) : V(i) \in GraphKeys /\ g.index[V(i)] = p[i] /\ p[i] \in 1..Len(g.vertices)
  <2> SUFFICES ASSUME NEW i \in 1..(n + 1)
               PROVE  V(i) \in GraphKeys /\ g.index[V(i)] = p[i] /\ p[i] \in 1..Len(g.vertices)
    OBVIOUS
  <2>1. CASE i \in 1..n
    BY <1>2, <2>1
  <2>2. CASE i \notin 1..n
    <3>1. i = n + 1 /\ n \in 1..n
      BY <2>2
    <3> QED
      BY <1>2, <3>1
  <2> QED
    BY <2>1, <2>2
<1>4. Len(g.vertices) \in Nat
  BY DEF OkGraph, Fit
<1>5. q = [i \in 1..(n + 1) |-> V(i)]
  BY <1>1 DEF KeysOf
<1>6. \A i \in 1..(n + 1) : q[i] = V(i)
  BY <1>5
<1>7. q \in Seq(GraphKeys) /\ Len(q) = n + 1
  <2>1. q \in [1..(n + 1) -> GraphKeys]
    BY <1>3, <1>5
  <2> HIDE DEF q
  <2> QED
    BY <2>1, FunIsSeq
<1> HIDE DEF q
<1>8. Distinct(q, n + 1)
  <2> SUFFICES ASSUME NEW i \in 1..(n + 1), NEW j \in 1..(n + 1), i # j PROVE q[i] # q[j]
    BY DEF Distinct
  <2>1. g.index[q[i]] = p[i] /\ g.index[q[j]] = p[j]
    BY <1>3, <1>6
  <2>2. p[i] # p[j]
    BY <1>1
  <2> QED
    BY <2>1, <2>2
<1>9. \A i \in 1..(n + 1) : g.index[q[i]] # 0
  <2> SUFFICES ASSUME NEW i \in 1..(n + 1) PROVE g.index[q[i]] # 0
    OBVIOUS
  <2>1. g.index[q[i]] = p[i] /\ p[i] \in 1..Len(g.vertices)
    BY <1>3, <1>6
  <2> QED
    BY <1>4, <2>1
<1>10. \A i \in 1..n : HasEdge(g, q[i], q[i + 1])
  <2> SUFFICES ASSUME NEW i \in 1..n PROVE HasEdge(g, q[i], q[i + 1])
    OBVIOUS
  <2>1. i \in 1..(n + 1) /\ i + 1 \in 1..(n + 1)
    OBVIOUS
  <2>2. g.index[q[i]] = p[i] /\ g.index[q[i + 1]] = p[i + 1]
    BY <1>3, <1>6, <2>1
  <2>3. <<p[i], p[i + 1]>> \in DOMAIN g.weight
    BY <1>1
  <2> QED
    BY <2>2, <2>3 DEF HasEdge, EdgeOf
<1>11. 1 \in 1..(n + 1) /\ n + 1 \in 1..(n + 1)
  OBVIOUS
<1>12. g.index[q[1]] = source /\ g.index[q[n + 1]] \in goals /\ g.index[q[n + 1]] = p[n + 1]
  BY <1>1, <1>3, <1>6, <1>11
<1> QED
  BY <1>1, <1>7, <1>8, <1>9, <1>10, <1>12, Zenon DEF q, Walks, Follows

\* A path that is sent is one of the graph.
LEMMA LoopSentFits ==
    ASSUME NEW g, OkGraph(g), NEW hops, NEW keys \in Loopbacks(g, hops)
    PROVE  LoopFits(keys, PathId(keys)) /\ AllKnown(g, keys) /\ AllEdges(g, keys)
<1> DEFINE n == hops
           home == g.index[me]
<1>1. /\ hops \in MIN_LOOPBACK_HOPS..MAX_LOOPBACK_HOPS
      /\ keys \in {KeysOf(g, Append(p, home)) : p \in P!SimplePaths(DOMAIN g.weight, home, ClosingNeighbours(g), hops)}
  BY Zenon DEF Loopbacks
<1>2. n \in Nat /\ n >= 1 /\ n + 2 \in 3..PathIdLen
  BY <1>1 DEF GraphAssumption
<1>3. PICK p \in P!SimplePaths(DOMAIN g.weight, home, ClosingNeighbours(g), n) : keys = KeysOf(g, Append(p, home))
  BY <1>1
<1> DEFINE q == KeysOf(g, p)
<1> DEFINE goals == ClosingNeighbours(g)
<1>4. /\ Walks(g, q, n) /\ p = [i \in 1..(n + 1) |-> p[i]]
      /\ g.index[q[1]] = home /\ g.index[q[n + 1]] \in goals /\ g.index[q[n + 1]] = p[n + 1]
  <2>1. p \in P!SimplePaths(DOMAIN g.weight, home, goals, n)
    BY <1>3
  <2>2. n \in Nat /\ n >= 1 /\ OkGraph(g)
    BY <1>2
  <2>3. Follows(g, p, home, goals, n)
    <3> HIDE DEF home, goals, n
    <3> QED
      BY <2>1, <2>2, WalkKeys
  <2> HIDE DEF home, goals, n
  <2> QED
    BY <2>3, Zenon DEF Follows
<1>5. /\ me \in GraphKeys /\ home # 0 /\ home \in 1..Len(g.vertices) /\ g.vertices[home] = me
  BY DEF OkGraph, Fit, GraphAssumption
<1>6. \A i \in 1..(n + 1) : q[i] = g.vertices[p[i]]
  BY <1>4 DEF KeysOf
<1> HIDE DEF home, q
<1>7. p \in Seq({p[i] : i \in 1..(n + 1)}) /\ Len(p) = n + 1
  <2>1. p \in [1..(n + 1) -> {p[i] : i \in 1..(n + 1)}] /\ n + 1 \in Nat
    BY <1>2, <1>4
  <2> QED
    BY <2>1, FunIsSeq
<1> DEFINE r == Append(p, home)
<1>8. DOMAIN r = 1..(n + 2) /\ r[n + 2] = home /\ \A i \in 1..(n + 1) : r[i] = p[i]
  BY <1>2, <1>7
<1> HIDE DEF r
<1>9. keys = [i \in 1..(n + 2) |-> g.vertices[r[i]]]
  BY <1>3, <1>8 DEF KeysOf, r
<1>10. keys[n + 2] = me /\ \A i \in 1..(n + 1) : keys[i] = q[i]
  <2>1. n + 2 \in 1..(n + 2) /\ \A i \in 1..(n + 1) : i \in 1..(n + 2)
    BY <1>2
  <2> QED
    BY <1>5, <1>6, <1>8, <1>9, <2>1
<1>11. /\ q \in Seq(GraphKeys) /\ Len(q) = n + 1 /\ Distinct(q, n + 1)
       /\ \A i \in 1..(n + 1) : g.index[q[i]] # 0
       /\ \A i \in 1..n : HasEdge(g, q[i], q[i + 1])
  BY <1>4 DEF Walks
<1>12. \A i \in 1..(n + 1) : q[i] \in GraphKeys
  BY <1>2, <1>11
<1>13. \A i \in 1..(n + 2) : keys[i] \in GraphKeys
  <2>1. \A i \in 1..(n + 2) : i \in 1..(n + 1) \/ i = n + 2
    BY <1>2
  <2>2. \A i \in 1..(n + 1) : keys[i] \in GraphKeys
    BY <1>10, <1>12, Zenon
  <2> QED
    BY <1>5, <1>10, <2>1, <2>2, Zenon
<1>14. keys \in Seq(GraphKeys) /\ Len(keys) = n + 2
  <2>1. keys = [i \in 1..(n + 2) |-> keys[i]]
    BY <1>9
  <2> DEFINE m == n + 2
  <2>2. keys = [i \in 1..m |-> keys[i]] /\ \A i \in 1..m : keys[i] \in GraphKeys
    BY <1>13, <2>1
  <2>3. m \in Nat
    BY <1>2
  <2> HIDE DEF m
  <2>4. keys \in [1..m -> GraphKeys]
    BY <2>2
  <2>5. keys \in Seq(GraphKeys) /\ Len(keys) = m
    BY <2>3, <2>4, FunIsSeq
  <2> QED
    BY <2>5 DEF m
<1>15. keys[1] = me
  <2>1. 1 \in 1..(n + 1)
    BY <1>2
  <2>2. q[1] = me
    BY <1>4, <1>5, <1>12, <2>1, IndexInjective DEF home
  <2> QED
    BY <1>10, <2>1, <2>2
<1>16. Distinct(keys, n + 1)
  BY <1>10, <1>11 DEF Distinct
<1>17. LoopFits(keys, PathId(keys))
  <2>1. Len(keys) - 1 = n + 1
    BY <1>2, <1>14
  <2> QED
    BY <1>2, <1>10, <1>14, <1>15, <1>16, <2>1 DEF LoopFits
<1>18. AllKnown(g, keys)
  <2>1. \A i \in 1..(n + 2) : i \in 1..(n + 1) \/ i = n + 2
    BY <1>2
  <2> QED
    BY <1>5, <1>10, <1>11, <1>14, <2>1 DEF AllKnown, home
<1>19. HasEdge(g, keys[n + 1], me)
  <2>1. <<p[n + 1], home>> \in DOMAIN g.weight
    BY <1>4 DEF ClosingNeighbours, home, goals
  <2>2. n + 1 \in 1..(n + 1)
    BY <1>2
  <2> QED
    BY <1>4, <1>10, <2>1, <2>2 DEF HasEdge, EdgeOf, home
<1>20. AllEdges(g, keys)
  <2> SUFFICES ASSUME NEW i \in 1..(Len(keys) - 1) PROVE HasEdge(g, keys[i], keys[i + 1])
    BY DEF AllEdges
  <2>1. CASE i \in 1..n
    <3>1. i \in 1..(n + 1) /\ i + 1 \in 1..(n + 1)
      BY <1>2, <2>1
    <3> QED
      BY <1>10, <1>11, <2>1, <3>1
  <2>2. CASE i \notin 1..n
    <3>1. i = n + 1 /\ i + 1 = n + 2
      BY <1>2, <1>14, <2>2
    <3> QED
      BY <1>10, <1>19, <3>1
  <2> QED
    BY <2>1, <2>2
<1> QED
  BY <1>17, <1>18, <1>20

\* The edges of both legs are the edges of the trip.
LEMMA TripAlong ==
    ASSUME NEW g, NEW out, NEW back, Legs(out, back), NEW keys, IsTrip(keys, out, back),
           Walks(g, out, Len(out) - 1), Walks(g, back, Len(back) - 1)
    PROVE  AllKnown(g, keys) /\ AllEdges(g, keys)
<1> DEFINE a == Len(out)
           b == Len(back)
           L == Len(keys)
<1>1. a \in Nat /\ a >= 2 /\ b \in Nat /\ b >= 2
  BY LegsAre
<1>2. /\ L = a + b - 1
      /\ \A n \in 1..a : n \in 1..L /\ keys[n] = out[n]
      /\ \A n \in 1..b : a + n - 1 \in 1..L /\ keys[a + n - 1] = back[n]
  BY TripIs
<1>3. /\ \A n \in 1..a : g.index[out[n]] # 0
      /\ \A n \in 1..(a - 1) : HasEdge(g, out[n], out[n + 1])
  <2>1. a - 1 + 1 = a
    BY <1>1
  <2> HIDE DEF a
  <2>2. Walks(g, out, a - 1)
    BY DEF a
  <2> QED
    BY <2>1, <2>2 DEF Walks
<1>4. /\ \A n \in 1..b : g.index[back[n]] # 0
      /\ \A n \in 1..(b - 1) : HasEdge(g, back[n], back[n + 1])
  <2>1. b - 1 + 1 = b
    BY <1>1
  <2> HIDE DEF b
  <2>2. Walks(g, back, b - 1)
    BY DEF b
  <2> QED
    BY <2>1, <2>2 DEF Walks
<1> HIDE DEF a, b, L
<1>5. ASSUME NEW n \in 1..L PROVE g.index[keys[n]] # 0
  <2>1. CASE n \in 1..a
    BY <1>2, <1>3, <2>1
  <2>2. CASE n \notin 1..a
    <3> DEFINE m == n - a + 1
    <3>1. m \in 1..b /\ a + m - 1 = n
      BY <1>1, <1>2, <2>2
    <3> HIDE DEF m
    <3>2. keys[a + m - 1] = back[m] /\ g.index[back[m]] # 0
      BY <1>2, <1>4, <3>1
    <3> QED
      BY <3>1, <3>2
  <2> QED
    BY <2>1, <2>2
<1>6. ASSUME NEW n \in 1..(L - 1) PROVE HasEdge(g, keys[n], keys[n + 1])
  <2>1. CASE n \in 1..(a - 1)
    <3>1. n \in 1..a /\ n + 1 \in 1..a
      BY <1>1, <2>1
    <3>2. keys[n] = out[n] /\ keys[n + 1] = out[n + 1]
      BY <1>2, <3>1
    <3> QED
      BY <1>3, <2>1, <3>2
  <2>2. CASE n \notin 1..(a - 1)
    <3> DEFINE m == n - a + 1
    <3>1. m \in 1..(b - 1) /\ m \in 1..b /\ m + 1 \in 1..b /\ a + m - 1 = n /\ a + (m + 1) - 1 = n + 1
      BY <1>1, <1>2, <2>2
    <3> HIDE DEF m
    <3>2. keys[a + m - 1] = back[m] /\ keys[a + (m + 1) - 1] = back[m + 1] /\ HasEdge(g, back[m], back[m + 1])
      BY <1>2, <1>4, <3>1
    <3> QED
      BY <3>1, <3>2
  <2> QED
    BY <2>1, <2>2
<1> QED
  BY <1>5, <1>6 DEF AllKnown, AllEdges, L

\* A leg that is sent: where it starts and ends.
LEMMA LegSentFits ==
    ASSUME NEW g, OkGraph(g), NEW n \in 1..2, NEW a \in GraphKeys, NEW b \in GraphKeys, g.index[a] # 0,
           NEW p, p \in P!SimplePaths(DOMAIN g.weight, g.index[a], {g.index[b]}, n)
    PROVE  LET q == KeysOf(g, p)
           IN  /\ q \in Seq(GraphKeys) /\ Len(q) \in 2..PathIdLen /\ Distinct(q, Len(q))
               /\ q[1] = a /\ q[Len(q)] = b /\ Walks(g, q, Len(q) - 1)
<1> DEFINE q == KeysOf(g, p)
           goals == {g.index[b]}
           source == g.index[a]
<1>1. Follows(g, p, source, goals, n)
  <2>1. p \in P!SimplePaths(DOMAIN g.weight, source, goals, n) /\ n \in Nat /\ n >= 1
    OBVIOUS
  <2> HIDE DEF source, goals
  <2> QED
    BY <2>1, WalkKeys
<1>2. Walks(g, q, n) /\ g.index[q[1]] = g.index[a] /\ g.index[q[n + 1]] = g.index[b]
  BY <1>1 DEF Follows
<1> HIDE DEF q
<1>3. /\ q \in Seq(GraphKeys) /\ Len(q) = n + 1 /\ Distinct(q, n + 1)
      /\ \A i \in 1..(n + 1) : g.index[q[i]] # 0
  BY <1>2 DEF Walks
<1>4. n + 1 \in 2..PathIdLen /\ 1 \in 1..Len(q) /\ n + 1 \in 1..Len(q) /\ Len(q) - 1 = n
  BY <1>3 DEF GraphAssumption
<1>5. q[1] \in GraphKeys /\ q[n + 1] \in GraphKeys /\ g.index[q[1]] # 0 /\ g.index[q[n + 1]] # 0
  BY <1>3, <1>4
<1>6. q[1] = a /\ q[n + 1] = b
  BY <1>2, <1>5, IndexInjective
<1> QED
  BY <1>2, <1>3, <1>4, <1>6 DEF q

LEMMA RoundTripFits ==
    ASSUME NEW g, OkGraph(g), NEW out, NEW back, Legs(out, back),
           Walks(g, out, Len(out) - 1), Walks(g, back, Len(back) - 1)
    PROVE  OkFlight(RoundTrip(out, back)) /\ Standing(g, RoundTrip(out, back))
<1> DEFINE keys == out \o Tail(back)
           f == RoundTrip(out, back)
<1>1. IsTrip(keys, out, back)
  BY DEF IsTrip
<1>2. f = [kind |-> "surb", nodes |-> keys, forward |-> PathId(out), reply |-> PathId(back), gone |-> FALSE, cut |-> FALSE]
  BY Zenon DEF RoundTrip
<1> HIDE DEF keys, f
<1>3. AllKnown(g, keys) /\ AllEdges(g, keys)
  BY <1>1, TripAlong, Zenon
<1>4. /\ f.kind = "surb" /\ f.nodes = keys /\ f.forward = PathId(out) /\ f.reply = PathId(back)
      /\ f.gone = FALSE /\ f.cut = FALSE
  BY <1>2, Zenon
<1>5. TripFits(f.nodes, f.forward, f.reply)
  BY <1>1, <1>4, Zenon DEF TripFits
<1>6. f = [kind |-> f.kind, nodes |-> f.nodes, forward |-> f.forward, reply |-> f.reply, gone |-> f.gone, cut |-> f.cut]
  BY <1>2, <1>4, Zenon
<1>7. OkFlight(f)
  BY <1>4, <1>5, <1>6, Zenon DEF OkFlight
<1>8. Standing(g, f)
  BY <1>3, <1>4, Zenon DEF Standing
<1> QED
  BY <1>7, <1>8, Zenon DEF f

LEMMA LoopFlies ==
    ASSUME NEW g, NEW keys, LoopFits(keys, PathId(keys)), AllKnown(g, keys), AllEdges(g, keys)
    PROVE  OkFlight(Loop(keys)) /\ Standing(g, Loop(keys))
<1> DEFINE f == Loop(keys)
<1>2. f = [kind |-> "loop", nodes |-> keys, forward |-> PathId(keys), reply |-> <<>>, gone |-> FALSE, cut |-> FALSE]
  BY Zenon DEF Loop
<1> HIDE DEF f
<1>4. /\ f.kind = "loop" /\ f.nodes = keys /\ f.forward = PathId(keys) /\ f.gone = FALSE /\ f.cut = FALSE /\ f.reply = <<>>
  BY <1>2, Zenon
<1>6. f = [kind |-> f.kind, nodes |-> f.nodes, forward |-> f.forward, reply |-> f.reply, gone |-> f.gone, cut |-> f.cut]
  BY <1>2, <1>4, Zenon
<1>7. OkFlight(f)
  BY <1>4, <1>6, Zenon DEF OkFlight
<1>8. Standing(g, f)
  BY <1>4, Zenon DEF Standing
<1> QED
  BY <1>7, <1>8, Zenon DEF f

LEMMA LoopSentFlies == ASSUME GraphInv, FlightInv, NEW hops, LoopSent(hops) PROVE FlightInv'
<1>1. PICK keys \in Loopbacks(Graph, hops) : flying' = {Loop(keys)}
  BY Zenon DEF LoopSent
<1>2. UNCHANGED <<vertices, index, slots, weight, attributed>>
  BY Zenon DEF LoopSent
<1>3. Graph' = Graph
  BY <1>2 DEF Graph
<1>4. LoopFits(keys, PathId(keys)) /\ AllKnown(Graph, keys) /\ AllEdges(Graph, keys)
  BY LoopSentFits, Zenon DEF GraphInv
<1>5. OkFlight(Loop(keys)) /\ Standing(Graph, Loop(keys))
  BY <1>4, LoopFlies, Zenon
<1>6. \A f \in flying' : OkFlight(f) /\ Standing(Graph, f)
  BY <1>1, <1>5, Zenon
<1> QED
  BY <1>2, <1>3, <1>6 DEF FlightInv

LEMMA RoundTripSentFlies == ASSUME GraphInv, FlightInv, NEW r \in GraphKeys, RoundTripSent(r) PROVE FlightInv'
<1> DEFINE g == Graph
<1>11. PICK n \in 1..2, m \in 1..2 :
           \E out \in P!SimplePaths(DOMAIN weight, index[me], {index[r]}, n),
              back \in P!SimplePaths(DOMAIN weight, index[r], {index[me]}, m) :
                   flying' = {RoundTrip(KeysOf(Graph, out), KeysOf(Graph, back))}
  BY Zenon DEF RoundTripSent
<1>1. PICK out \in P!SimplePaths(DOMAIN weight, index[me], {index[r]}, n),
           back \in P!SimplePaths(DOMAIN weight, index[r], {index[me]}, m) :
           flying' = {RoundTrip(KeysOf(Graph, out), KeysOf(Graph, back))}
  BY <1>11, Zenon
<1>2. UNCHANGED <<vertices, index, slots, weight, attributed>> /\ index[r] # 0
  BY DEF RoundTripSent, Nodes
<1>3. Graph' = Graph
  BY <1>2 DEF Graph
<1>4. /\ OkGraph(g) /\ g.weight = weight /\ g.index = index /\ me \in GraphKeys /\ index[me] # 0
  BY DEF GraphInv, Graph, OkGraph, Fit, GraphAssumption
<1> DEFINE a == KeysOf(g, out)
           b == KeysOf(g, back)
<1> HIDE DEF g
<1>5. /\ a \in Seq(GraphKeys) /\ Len(a) \in 2..PathIdLen /\ Distinct(a, Len(a))
      /\ a[1] = me /\ a[Len(a)] = r /\ Walks(g, a, Len(a) - 1)
  <2>1. out \in P!SimplePaths(DOMAIN g.weight, g.index[me], {g.index[r]}, n) /\ g.index[me] # 0
    BY <1>4
  <2> QED
    BY <1>4, <2>1, LegSentFits, Zenon
<1>6. /\ b \in Seq(GraphKeys) /\ Len(b) \in 2..PathIdLen /\ Distinct(b, Len(b))
      /\ b[1] = r /\ b[Len(b)] = me /\ Walks(g, b, Len(b) - 1)
  <2>1. back \in P!SimplePaths(DOMAIN g.weight, g.index[r], {g.index[me]}, m) /\ g.index[r] # 0
    BY <1>2, <1>4
  <2> QED
    BY <1>4, <2>1, LegSentFits, Zenon
<1>7. flying' = {RoundTrip(a, b)}
  BY <1>1 DEF g
<1> HIDE DEF a, b
<1>8. Legs(a, b)
  BY <1>5, <1>6, Zenon DEF Legs
<1>9. OkFlight(RoundTrip(a, b)) /\ Standing(g, RoundTrip(a, b))
  BY <1>4, <1>5, <1>6, <1>8, RoundTripFits, Zenon
<1>10. \A f \in flying' : OkFlight(f) /\ Standing(Graph, f)
  BY <1>7, <1>9, Zenon DEF g
<1> QED
  BY <1>2, <1>3, <1>10 DEF FlightInv

LEMMA ReportDroppedFlies == ASSUME GraphInv, FlightInv, NEW f \in flying, ReportDropped(f) PROVE FlightInv'
<1>1. flying' \subseteq flying /\ UNCHANGED <<vertices, index, slots, weight, attributed>>
  BY DEF ReportDropped
<1>2. Graph' = Graph
  BY <1>1 DEF Graph
<1> QED
  BY <1>1, <1>2 DEF FlightInv
-----------------------------------------------------------------------------
(* Reports that come back. *)

Leading(g, f) == ~(f.gone /\ \E k \in ToSet(f.nodes) : Shared(k, GraphKeys)) => AllLead(g, f.nodes)

\* Unless a key with the slot of one of its nodes may have taken the place of a
\* removed one, the slots of a path lead to its nodes, or nowhere.
LEMMA PathLeads == ASSUME NEW g, OkGraph(g), NEW f, OkFlight(f), Standing(g, f) PROVE Leading(g, f)
<1> SUFFICES ASSUME ~(f.gone /\ \E k \in ToSet(f.nodes) : Shared(k, GraphKeys)), NEW n \in 1..Len(f.nodes)
             PROVE  LeadsTo(g, f.nodes[n])
  BY Zenon DEF Leading, AllLead
<1> DEFINE k == f.nodes[n]
<1>1. k \in GraphKeys /\ k \in ToSet(f.nodes)
  <2>1. f.nodes \in Seq(GraphKeys)
    BY FlightNodes
  <2> QED
    BY <2>1 DEF ToSet
<1>2. ~f.gone => g.index[k] # 0
  BY DEF Standing, AllKnown
<1> HIDE DEF k
<1>3. ASSUME ~f.gone PROVE LeadsTo(g, k)
  BY <1>1, <1>2, <1>3, ResolveIs DEF LeadsTo
<1>4. ASSUME f.gone PROVE LeadsTo(g, k)
  <2>1. ~Shared(k, GraphKeys)
    BY <1>1, <1>4
  <2>2. \A l \in GraphKeys : Encode[l] = Encode[k] => l = k
    BY <1>1, <2>1 DEF Shared
  <2>3. CASE Resolve(g, Encode[k]) = 0
    BY <2>3 DEF LeadsTo
  <2>4. CASE Resolve(g, Encode[k]) # 0
    <3>1. PICK l \in GraphKeys : g.index[l] # 0 /\ Encode[l] = Encode[k] /\ Resolve(g, Encode[k]) = g.index[l]
      BY <1>1, <2>4, ResolvesToKey
    <3> QED
      BY <2>2, <3>1 DEF LeadsTo
  <2> QED
    BY <2>3, <2>4
<1> QED
  BY <1>3, <1>4 DEF k

NameOf(g, e) == <<g.vertices[e[1]], g.vertices[e[2]]>>

\* An edge between two nodes of a path is named by their keys.
LEMMA NamesOfEdges ==
    ASSUME NEW g, OkGraph(g), NEW keys \in Seq(GraphKeys), NEW n \in 1..(Len(keys) - 1),
           EdgesBetween(g, keys)[n] \in DOMAIN g.weight
    PROVE  NameOf(g, EdgesBetween(g, keys)[n]) = <<keys[n], keys[n + 1]>>
<1> DEFINE a == keys[n]
           b == keys[n + 1]
<1>1. a \in GraphKeys /\ b \in GraphKeys
  OBVIOUS
<1>2. EdgesBetween(g, keys)[n] = <<g.index[a], g.index[b]>>
  BY DEF EdgesBetween
<1> HIDE DEF a, b
<1>3. HasEdge(g, a, b)
  BY <1>2 DEF HasEdge, EdgeOf
<1>4. g.index[a] # 0 /\ g.index[b] # 0
  BY <1>1, <1>3, EdgeHasEnds
<1>5. g.vertices[g.index[a]] = a /\ g.vertices[g.index[b]] = b
  BY <1>1, <1>4 DEF OkGraph, Fit
<1> QED
  BY <1>2, <1>5 DEF NameOf, a, b

LEMMA Crediting ==
    ASSUME GraphInv, FlightInv, NEW f \in flying, NEW edges, Credit(f, edges),
           AllLead(Graph, f.nodes) => \A e \in edges : NameOf(Graph, e) \in Meant(f)
    PROVE  \A a \in attributed' : Placed(a)
<1>1. attributed' = attributed \cup
        {[meant |-> Meant(f), edge |-> NameOf(Graph, e), gone |-> f.gone, nodes |-> ToSet(f.nodes)] : e \in edges}
  BY DEF Credit, NameOf, Graph
<1>2. ASSUME NEW e \in edges
      PROVE  Placed([meant |-> Meant(f), edge |-> NameOf(Graph, e), gone |-> f.gone, nodes |-> ToSet(f.nodes)])
  <2> DEFINE a == [meant |-> Meant(f), edge |-> NameOf(Graph, e), gone |-> f.gone, nodes |-> ToSet(f.nodes)]
  <2>1. a.meant = Meant(f) /\ a.edge = NameOf(Graph, e) /\ a.gone = f.gone /\ a.nodes = ToSet(f.nodes)
    BY Zenon
  <2>2. Leading(Graph, f)
    BY PathLeads DEF GraphInv, FlightInv
  <2> HIDE DEF a
  <2>3. Placed(a)
    BY <1>2, <2>1, <2>2, Zenon DEF Placed, Leading
  <2> QED
    BY <2>3 DEF a
<1> QED
  BY <1>1, <1>2, Zenon DEF FlightInv

LEMMA ReportingCall ==
    ASSUME GraphInv, FlightInv, NEW edges, NEW ms, Report(ms), Becomes(RecordAll(Graph, edges, ms)),
           flying' \subseteq flying, \A a \in attributed' : Placed(a)
    PROVE  FlightInv'
<1> DEFINE g == RecordAll(Graph, edges, ms)
<1>1. OkGraph(g) /\ g.index = Graph.index
      /\ \A a, b \in GraphKeys : HasEdge(g, a, b) <=> HasEdge(Graph, a, b)
  BY RecordAllFits DEF GraphInv
<1>2. Becomes(g)
  OBVIOUS
<1> HIDE DEF g
<1>3. Grown(Graph, g) /\ Graph' = g
  BY <1>1, <1>2, BecomesIs DEF Grown
<1>4. \A f \in flying : OkFlight(f) /\ Standing(g, f)
  BY <1>3, StillStanding DEF FlightInv
<1> QED
  BY <1>3, <1>4 DEF FlightInv

\* What a loopback probe is recorded on is the edge before the last of its loop.
LEMMA LoopTarget ==
    ASSUME NEW g, OkGraph(g), NEW f, OkFlight(f), f.kind = "loop", AllLead(g, f.nodes),
           NEW edges, edges = ResolveLoopback(g, f.forward), edges # <<>>
    PROVE  NameOf(g, edges[Len(edges) - 1]) \in Meant(f)
<1> DEFINE keys == f.nodes
           L == Len(keys)
<1>1. LoopFits(keys, f.forward)
  BY Zenon DEF OkFlight
<1>2. \A n \in 1..Len(keys) : LeadsTo(g, keys[n])
  BY DEF AllLead
<1>3. edges = EdgesBetween(g, keys) /\ \A n \in 1..(L - 1) : EdgesBetween(g, keys)[n] \in DOMAIN g.weight
  <2> HIDE DEF keys
  <2> QED
    BY <1>1, <1>2, LoopEdges DEF L
<1>4. keys \in Seq(GraphKeys) /\ L \in Nat /\ L >= 3
  BY <1>1 DEF LoopFits
<1>5. Meant(f) = {<<keys[L - 2], keys[L - 1]>>}
  BY Zenon DEF Meant
<1> HIDE DEF keys, L
<1>6. Len(edges) = L - 1
  BY <1>3, <1>4 DEF EdgesBetween, L
<1> DEFINE n == L - 2
<1>7. n \in 1..(L - 1) /\ n + 1 = L - 1 /\ Len(edges) - 1 = n
  BY <1>4, <1>6
<1> HIDE DEF n
<1>8. NameOf(g, EdgesBetween(g, keys)[n]) = <<keys[n], keys[n + 1]>>
  BY <1>3, <1>4, <1>7, NamesOfEdges DEF L
<1>9. <<keys[n], keys[n + 1]>> \in Meant(f)
  BY <1>5, <1>7 DEF n
<1> QED
  BY <1>3, <1>7, <1>8, <1>9

\* What round trips are recorded on are edges of their path.
LEMMA TripTargets ==
    ASSUME NEW g, OkGraph(g), NEW f, OkFlight(f), f.kind = "surb", AllLead(g, f.nodes),
           NEW edges, edges = ResolveRoundTrip(g, f.forward, f.reply)
    PROVE  \A e \in ToSet(edges) : NameOf(g, e) \in Meant(f)
<1> DEFINE keys == f.nodes
<1>1. TripFits(keys, f.forward, f.reply)
  BY Zenon DEF OkFlight
<1>2. Meant(f) = {<<keys[n], keys[n + 1]>> : n \in 1..(Len(keys) - 1)}
  BY Zenon DEF Meant, EdgesOfKeys
<1>3. CASE edges = <<>>
  BY <1>3 DEF ToSet
<1>4. CASE edges # <<>>
  <2>1. AllLead(g, keys)
    OBVIOUS
  <2>2. PICK out, back : Legs(out, back) /\ IsTrip(keys, out, back) /\ f.forward = PathId(out) /\ f.reply = PathId(back)
    BY <1>1, Zenon DEF TripFits
  <2> HIDE DEF keys
  <2>3. ResolveRoundTrip(g, PathId(out), PathId(back)) # <<>> /\ edges = ResolveRoundTrip(g, PathId(out), PathId(back))
    BY <1>4, <2>2
  <2>4. edges = EdgesBetween(g, keys) /\ \A n \in 1..(Len(keys) - 1) : EdgesBetween(g, keys)[n] \in DOMAIN g.weight
    BY <2>1, <2>2, <2>3, TripEdges, Zenon
  <2>5. keys \in Seq(GraphKeys)
    BY <2>2, TripIs
  <2>6. \A e \in ToSet(edges) : \E n \in 1..(Len(keys) - 1) : e = EdgesBetween(g, keys)[n]
    <3>1. Len(keys) \in Nat /\ Len(keys) - 1 \in Int
      BY <2>5
    <3> DEFINE ends == EdgesBetween(g, keys)
    <3>2. DOMAIN ends = 1..(Len(keys) - 1)
      BY DEF EdgesBetween
    <3> HIDE DEF ends
    <3>3. ToSet(edges) = {ends[n] : n \in DOMAIN ends}
      BY <2>4 DEF ToSet, ends
    <3> QED
      BY <3>2, <3>3 DEF ends
  <2> SUFFICES ASSUME NEW e \in ToSet(edges) PROVE NameOf(g, e) \in Meant(f)
    OBVIOUS
  <2>7. PICK n \in 1..(Len(keys) - 1) : e = EdgesBetween(g, keys)[n]
    BY <2>6
  <2>8. NameOf(g, e) = <<keys[n], keys[n + 1]>>
    BY <2>4, <2>5, <2>7, NamesOfEdges
  <2> QED
    BY <1>2, <2>8, Zenon
<1> QED
  BY <1>3, <1>4

LEMMA LoopReportedFlies == ASSUME GraphInv, FlightInv, NEW f \in flying, NEW rtt, LoopReported(f, rtt) PROVE FlightInv'
<1> DEFINE edges == ResolveLoopback(Graph, f.forward)
           aim == edges[Len(edges) - 1]
<1>1. f.kind = "loop" /\ flying' = flying \ {f}
  BY Zenon DEF LoopReported
<1>2. CASE UNCHANGED <<vertices, index, slots, weight, attributed>>
  <2>1. Graph' = Graph
    BY <1>2 DEF Graph
  <2> QED
    BY <1>1, <1>2, <2>1 DEF FlightInv
<1>3. CASE ~UNCHANGED <<vertices, index, slots, weight, attributed>>
  <2>1. PICK v : /\ Becomes(RecordAll(Graph, {aim}, <<[kind |-> "Intermediate", value |-> v]>>))
                 /\ Credit(f, {aim}) /\ edges # <<>>
    BY <1>3, Zenon DEF LoopReported
  <2> DEFINE ms == <<[kind |-> "Intermediate", value |-> v]>>
  <2>2. Report(ms)
    BY DEF Report, GraphKinds
  <2>3. Becomes(RecordAll(Graph, {aim}, ms))
    BY <2>1
  <2> HIDE DEF ms
  <2>4. OkGraph(Graph) /\ OkFlight(f)
    BY DEF GraphInv, FlightInv
  <2>5. AllLead(Graph, f.nodes) => NameOf(Graph, aim) \in Meant(f)
    BY <1>1, <2>1, <2>4, LoopTarget, Zenon
  <2> HIDE DEF aim, edges
  <2>6. \A a \in attributed' : Placed(a)
    <3>1. Credit(f, {aim}) /\ (AllLead(Graph, f.nodes) => \A e \in {aim} : NameOf(Graph, e) \in Meant(f))
      BY <2>1, <2>5
    <3> QED
      BY <3>1, Crediting, Zenon
  <2>7. flying' \subseteq flying
    BY <1>1
  <2> QED
    BY <2>2, <2>3, <2>6, <2>7, ReportingCall, Zenon
<1> QED
  BY <1>2, <1>3

LEMMA RoundTripsReportedFlies ==
    ASSUME GraphInv, FlightInv, NEW f \in flying, NEW traffic, RoundTripsReported(f, traffic) PROVE FlightInv'
<1> DEFINE edges == ResolveRoundTrip(Graph, f.forward, f.reply)
           ms == <<[kind |-> "Surb", value |-> traffic]>>
<1>1. /\ f.kind = "surb" /\ flying' = flying \ {f}
      /\ Becomes(RecordAll(Graph, ToSet(edges), ms)) /\ Credit(f, ToSet(edges))
  BY Zenon DEF RoundTripsReported
<1>2. Report(ms)
  BY DEF Report, GraphKinds
<1> HIDE DEF ms
<1>3. OkGraph(Graph) /\ OkFlight(f)
  BY DEF GraphInv, FlightInv
<1>4. AllLead(Graph, f.nodes) => \A e \in ToSet(edges) : NameOf(Graph, e) \in Meant(f)
  BY <1>1, <1>3, TripTargets, Zenon
<1> HIDE DEF edges
<1>5. \A a \in attributed' : Placed(a)
  BY <1>1, <1>4, Crediting, Zenon
<1>6. flying' \subseteq flying
  BY <1>1
<1> QED
  BY <1>1, <1>2, <1>5, <1>6, ReportingCall, Zenon
-----------------------------------------------------------------------------
(* What is said of paths in flight, of reports and of the views handed out. *)

LEMMA StillFlying == ASSUME FlightInv, UNCHANGED <<vertices, index, slots, weight, flying, attributed>> PROVE FlightInv'
<1>1. Graph' = Graph
  BY DEF Graph
<1> QED
  BY <1>1 DEF FlightInv

LEMMA GraphStepFlies == ASSUME GraphInv, FlightInv, GraphStep PROVE FlightInv'
<1>1. CASE \E k \in GraphKeys : NodeRecorded(k)
  BY <1>1, NodeRecordedFlies
<1>2. CASE \E k \in GraphKeys : NodeRemoved(k)
  BY <1>2, NodeRemovedFlies
<1>3. CASE \E k \in GraphKeys : HealthReported(k)
  BY <1>3, HealthReportedFlies
<1>4. CASE \E k \in GraphKeys : RoundTripSent(k)
  BY <1>4, RoundTripSentFlies
<1>5. CASE \E k, l \in GraphKeys : EdgeAdded(k, l)
  BY <1>5, EdgeAddedFlies
<1>6. CASE \E k, l \in GraphKeys : EdgeRemoved(k, l)
  BY <1>6, EdgeRemovedFlies
<1>7. CASE \E k, l \in GraphKeys : BalanceReported(k, l)
  BY <1>7, BalanceReportedFlies
<1>8. CASE \E k \in GraphKeys, ms \in NeighbourReports : NeighbourReported(k, ms)
  BY <1>8, NeighbourReportedFlies
<1>9. CASE \E h \in halves : NeighbourCompleted(h)
  BY <1>9, NeighbourCompletedFlies
<1>10. CASE \E hops \in 0..(MAX_LOOPBACK_HOPS + 1) : LoopSent(hops)
  BY <1>10, LoopSentFlies
<1>11. CASE \E f \in flying, rtt \in Rtts : LoopReported(f, rtt)
  BY <1>11, LoopReportedFlies
<1>12. CASE \E f \in flying, traffic \in Traffic : RoundTripsReported(f, traffic)
  BY <1>12, RoundTripsReportedFlies
<1>13. CASE \E f \in flying : ReportDropped(f)
  BY <1>13, ReportDroppedFlies
<1> QED
  BY <1>1, <1>2, <1>3, <1>4, <1>5, <1>6, <1>7, <1>8, <1>9, <1>10, <1>11, <1>12, <1>13, Zenon DEF GraphStep

LEMMA FlightInvAlways == Spec => []FlightInv
<1>1. Init => FlightInv
  <2>1. GraphInit => flying = {} /\ attributed = {}
    BY DEF GraphInit
  <2> QED
    BY <2>1 DEF Init, FlightInv
<1>2. GraphInv /\ FlightInv /\ [Next]_vars => FlightInv'
  <2> SUFFICES ASSUME GraphInv, FlightInv, [Next]_vars PROVE FlightInv'
    OBVIOUS
  <2>1. CASE part = "graph" /\ GraphStep
    BY <2>1, GraphStepFlies
  <2>2. CASE UNCHANGED graphVars
    BY <2>2, StillFlying DEF graphVars
  <2> QED
    BY <2>1, <2>2, Zenon DEF Next, Explore, vars
<1> QED
  BY <1>1, <1>2, GraphInvAlways, PTL DEF Spec

\* A path resolves while its nodes and edges are all there and no other node in the
\* graph shares a slot with one of them.
LEMMA StandingResolves ==
    ASSUME GraphInv, FlightInv, NEW f \in flying, ~f.gone, ~f.cut, \A k \in ToSet(f.nodes) : ~Shared(k, Nodes)
    PROVE  EdgesOf(f) # <<>>
<1> DEFINE keys == f.nodes
           g == Graph
<1>1. OkGraph(g) /\ OkFlight(f) /\ AllKnown(g, keys) /\ AllEdges(g, keys) /\ g.index = index
  BY DEF GraphInv, FlightInv, Standing, Graph
<1>2. keys \in Seq(GraphKeys)
  BY <1>1, FlightNodes
<1>3. \A k \in GraphKeys : index[k] # 0 => k \in Nodes
  BY DEF Nodes
<1>4. \A n \in 1..Len(keys) : keys[n] \in GraphKeys /\ keys[n] \in ToSet(keys)
  BY <1>2 DEF ToSet
<1>5. \A n \in 1..Len(keys) : ~Shared(keys[n], Nodes)
  BY <1>4
<1>6. EdgesOf(f) = IF f.kind = "loop" THEN ResolveLoopback(g, f.forward) ELSE ResolveRoundTrip(g, f.forward, f.reply)
  BY Zenon DEF EdgesOf
<1> HIDE DEF g
<1>7. AllResolve(g, keys)
  <2> SUFFICES ASSUME NEW n \in 1..Len(keys)
               PROVE  Resolve(g, Encode[keys[n]]) = g.index[keys[n]] /\ g.index[keys[n]] # 0
    BY DEF AllResolve
  <2> DEFINE k == keys[n]
  <2>1. k \in GraphKeys /\ g.index[k] # 0 /\ ~Shared(k, Nodes)
    BY <1>1, <1>4, <1>5 DEF AllKnown
  <2> HIDE DEF k
  <2>2. ~\E l \in GraphKeys \ {k} : g.index[l] # 0 /\ Encode[l] = Encode[k]
    BY <1>1, <1>3, <2>1 DEF Shared
  <2>3. Resolve(g, Encode[k]) = g.index[k]
    BY <1>1, <2>1, <2>2, ResolveIs
  <2> QED
    BY <2>1, <2>3 DEF k
<1> HIDE DEF keys
<1>8. CASE f.kind = "loop"
  <2>1. LoopFits(keys, f.forward)
    BY <1>1, <1>8, Zenon DEF OkFlight, keys
  <2>2. /\ \A n \in 1..Len(keys) : Resolve(g, Encode[keys[n]]) = g.index[keys[n]] /\ g.index[keys[n]] # 0
        /\ \A n \in 1..(Len(keys) - 1) : HasEdge(g, keys[n], keys[n + 1])
    BY <1>1, <1>7 DEF AllResolve, AllEdges
  <2>3. ResolveLoopback(g, f.forward) # <<>>
    BY <1>1, <2>1, <2>2, LoopResolves, Zenon
  <2> QED
    BY <1>6, <1>8, <2>3
<1>9. CASE f.kind = "surb"
  <2>1. TripFits(keys, f.forward, f.reply)
    BY <1>1, <1>9, Zenon DEF OkFlight, keys
  <2>2. PICK out, back : Legs(out, back) /\ IsTrip(keys, out, back) /\ f.forward = PathId(out) /\ f.reply = PathId(back)
    BY <2>1, Zenon DEF TripFits
  <2>3. ResolveRoundTrip(g, PathId(out), PathId(back)) # <<>>
    BY <1>1, <1>7, <2>2, TripResolves, Zenon
  <2> QED
    BY <1>6, <1>9, <2>2, <2>3
<1> QED
  BY <1>1, <1>8, <1>9, Zenon DEF OkFlight

\* However the graph changes between a path and the report about it, the report is
\* recorded on edges of that path, or on none, unless a node was removed and a key
\* with the slot of one of the nodes may have taken its place; and a path none of
\* whose nodes and edges was removed resolves while its slots are not shared.
THEOREM ReportsAreAttributedRightCorrect == Spec => []ReportsAreAttributedRight
<1>1. GraphInv /\ FlightInv => ReportsAreAttributedRight
  <2> SUFFICES ASSUME GraphInv, FlightInv PROVE SentPathsResolve /\ ReportsHitTheirEdges
    BY DEF ReportsAreAttributedRight
  <2>1. SentPathsResolve
    BY StandingResolves, Zenon DEF SentPathsResolve
  <2>2. ReportsHitTheirEdges
    BY Zenon DEF FlightInv, Placed, ReportsHitTheirEdges
  <2> QED
    BY <2>1, <2>2
<1> QED
  BY <1>1, GraphInvAlways, FlightInvAlways, PTL

\* The edges of a path that is all there can be followed from this node.
LEMMA StandingReached ==
    ASSUME GraphInv, FlightInv, NEW f \in flying, ~f.gone, ~f.cut
    PROVE  EdgesOfKeys(f.nodes) \subseteq ReachableEdges
<1> DEFINE keys == f.nodes
           L == Len(keys)
           E(n) == <<keys[n], keys[n + 1]>>
           reached == ReachableEdges
           stray == {n \in 1..(L - 1) : E(n) \notin reached}
<1>1. keys \in Seq(GraphKeys) /\ L \in Nat /\ L >= 3 /\ keys[1] = me
  BY FlightNodes DEF FlightInv
<1>2. \A n \in 1..(L - 1) : E(n) \in ConnectedEdges
  <2> SUFFICES ASSUME NEW n \in 1..(L - 1) PROVE E(n) \in ConnectedEdges
    OBVIOUS
  <2> DEFINE a == keys[n]
             b == keys[n + 1]
  <2>1. a \in GraphKeys /\ b \in GraphKeys /\ HasEdge(Graph, a, b)
    <3>1. AllEdges(Graph, keys)
      BY Zenon DEF FlightInv, Standing
    <3> QED
      BY <1>1, <3>1 DEF AllEdges
  <2> HIDE DEF a, b
  <2>2. OkGraph(Graph) /\ Graph.index = index /\ Graph.weight = weight /\ Graph.vertices = vertices
    BY DEF GraphInv, Graph
  <2>3. index[a] # 0 /\ index[b] # 0
    BY <2>1, <2>2, EdgeHasEnds
  <2>4. vertices[index[a]] = a /\ vertices[index[b]] = b
    BY <2>1, <2>2, <2>3 DEF OkGraph, Fit
  <2>5. <<index[a], index[b]>> \in DOMAIN weight
    BY <2>1, <2>2 DEF HasEdge, EdgeOf
  <2> DEFINE e == <<index[a], index[b]>>
  <2>6. NamedEdge(e) = <<a, b>>
    BY <2>4 DEF NamedEdge
  <2> HIDE DEF e
  <2>7. <<a, b>> \in ConnectedEdges
    BY <2>5, <2>6 DEF ConnectedEdges, e
  <2> QED
    BY <2>7 DEF a, b
<1>3. reached = {e \in ConnectedEdges : e[1] \in {me} \cup {d[2] : d \in reached}}
  BY ReachableEdgesAre DEF GraphInv
<1>4. EdgesOfKeys(keys) = {E(n) : n \in 1..(L - 1)}
  BY Zenon DEF EdgesOfKeys
<1> HIDE DEF keys, L, reached
<1>5. stray = {}
  <2> SUFFICES ASSUME stray # {} PROVE FALSE
    OBVIOUS
  <2>1. stray \in SUBSET Nat
    BY <1>1
  <2> HIDE DEF stray
  <2>2. PICK n \in stray : \A m \in stray : n <= m
    BY <2>1, LeastExists
  <2>3. n \in 1..(L - 1) /\ E(n) \notin reached
    BY <2>2 DEF stray
  <2>4. CASE n = 1
    BY <1>1, <1>2, <1>3, <2>3, <2>4
  <2>5. CASE n # 1
    <3> DEFINE m == n - 1
    <3>1. m \in 1..(L - 1) /\ m + 1 = n /\ m < n
      BY <1>1, <2>3, <2>5
    <3> HIDE DEF m
    <3>2. m \notin stray
      BY <2>1, <2>2, <3>1
    <3>3. E(m) \in reached
      BY <3>1, <3>2 DEF stray
    <3>4. E(m)[2] = keys[n]
      BY <3>1
    <3>5. keys[n] \in {d[2] : d \in reached}
      BY <3>3, <3>4
    <3> QED
      BY <1>2, <1>3, <2>3, <3>5
  <2> QED
    BY <2>4, <2>5
<1> QED
  BY <1>4, <1>5 DEF keys, reached

\* After any removals and returns, the vertices, indices, slots and edges inside fit
\* together, and so does what is handed out: slots, reachable edges and sent paths.
THEOREM GraphIsConsistentCorrect == Spec => []GraphIsConsistent
<1>1. GraphInv /\ FlightInv => ViewsOfGraphAgree /\ PublicViewsAgree
  <2> SUFFICES ASSUME GraphInv, FlightInv PROVE ViewsOfGraphAgree /\ PublicViewsAgree
    OBVIOUS
  <2>1. ViewsOfGraphAgree
    BY ViewsAgree DEF GraphInv
  <2>2. ASSUME NEW k \in Nodes
        PROVE  Resolve(Graph, PathSlot(k)) = IF Shared(k, Nodes) THEN 0 ELSE index[k]
    <3>1. OkGraph(Graph) /\ Graph.index = index /\ k \in GraphKeys /\ index[k] # 0
      BY DEF GraphInv, Graph, Nodes
    <3>2. PathSlot(k) = Encode[k]
      BY DEF PathSlot
    <3>3. Shared(k, Nodes) <=> \E l \in GraphKeys \ {k} : index[l] # 0 /\ Encode[l] = Encode[k]
      BY DEF Shared, Nodes
    <3>4. Resolve(Graph, Encode[k]) = IF \E l \in GraphKeys \ {k} : index[l] # 0 /\ Encode[l] = Encode[k] THEN 0
                                      ELSE index[k]
      BY <3>1, ResolveIs
    <3> QED
      BY <3>2, <3>3, <3>4
  <2>3. LET reached == ReachableEdges
            ends == {me} \cup {e[2] : e \in reached}
        IN  reached = {e \in ConnectedEdges : e[1] \in ends}
    BY ReachableEdgesAre DEF GraphInv
  <2>4. \A f \in flying : ~f.gone /\ ~f.cut => EdgesOfKeys(f.nodes) \subseteq ReachableEdges
    BY StandingReached
  <2> QED
    BY <2>1, <2>2, <2>3, <2>4, Zenon DEF PublicViewsAgree
<1> QED
  BY <1>1, GraphInvAlways, FlightInvAlways, PTL DEF GraphIsConsistent
-----------------------------------------------------------------------------
(* Probing.                                                                *)
(*                                                                         *)
(* A peer that may be probed is in the batch and was probed on the last    *)
(* tick, or may be probed only since after the batch was computed.         *)

USE ProbingAssumption

Time == Nat \cup {Never}

EligibleInv ==
    /\ tick \in Nat /\ eligible \in [Peers -> Time] /\ connection = [p \in Peers |-> connection[p]]
    /\ \A p \in Peers : eligible[p] # Never <=> p \in Candidates
    /\ \A p \in Peers : eligible[p] # Never => eligible[p] <= tick

BatchInv ==
    /\ tick = 0 => batch = Unprobed
    /\ tick > 0 =>
        /\ batch.created_at \in 0..(tick - 1) /\ tick <= batch.created_at + ShuffleTtl
        /\ \A p \in Peers \cap batch.probes : probed.full[p] = tick - 1
        /\ \A p \in Peers \ batch.probes : eligible[p] # Never => eligible[p] > batch.created_at

ListedInv ==
    /\ \A p \in Peers : eligible[p] # Never /\ eligible[p] < tick => p \in listed_of
    /\ \A p \in Peers : eligible[p] # Never /\ eligible[p] < tick - 1 => probed.immediate[p] = tick - 1

ProbedInv ==
    /\ probed = [full |-> probed.full, immediate |-> probed.immediate]
    /\ probed.full \in [Peers -> Time] /\ probed.immediate \in [Peers -> Time]

ProbingInv == EligibleInv /\ BatchInv /\ ListedInv /\ ProbedInv

LEMMA ProbingInvInit == ProbingInit => ProbingInv
<1> SUFFICES ASSUME ProbingInit PROVE ProbingInv
  OBVIOUS
<1>1. Never \in Time /\ Never = -1 /\ 0 \in Nat /\ 0 - 1 = -1
  BY DEF Time, Never
<1>2. /\ tick = 0 /\ batch = Unprobed /\ nodes_of = {} /\ eligible = [p \in Peers |-> Never]
      /\ connection = [p \in Peers |-> "unchecked"]
      /\ probed = [full |-> [p \in Peers |-> Never], immediate |-> [p \in Peers |-> Never]]
  BY DEF ProbingInit
<1>3. ProbedInv
  BY <1>1, <1>2 DEF ProbedInv
<1>4. \A p \in Peers : eligible[p] = Never /\ p \notin Candidates
  BY <1>2 DEF Candidates
<1>5. eligible \in [Peers -> Time] /\ connection = [p \in Peers |-> connection[p]]
  BY <1>1, <1>2
<1> QED
  BY <1>1, <1>2, <1>3, <1>4, <1>5 DEF ProbingInv, EligibleInv, BatchInv, ListedInv

LEMMA GraphChangesEligible ==
    ASSUME ProbingInv, NEW p \in Peers, GraphChanges(p)
    PROVE  /\ EligibleInv' /\ UNCHANGED <<batch, listed_of, tick, probed>>
           /\ \A q \in Peers : eligible'[q] # Never => (eligible'[q] = eligible[q] /\ eligible[q] # Never) \/ eligible'[q] = tick
<1> DEFINE May == p \in nodes_of' /\ (ProbeConnectedOnly => connection'[p] # "down")
           e == IF May THEN IF eligible[p] = Never THEN tick ELSE eligible[p] ELSE Never
<1>1. /\ eligible' = [eligible EXCEPT ![p] = e] /\ UNCHANGED <<batch, listed_of, tick, probed>>
      /\ tick \in Nat /\ eligible \in [Peers -> Time] /\ connection = [q \in Peers |-> connection[q]]
  BY DEF GraphChanges, ProbingInv, EligibleInv
<1>2. /\ connection' = [q \in Peers |-> connection'[q]]
      /\ \A q \in Peers \ {p} : connection'[q] = connection[q] /\ (q \in nodes_of' <=> q \in nodes_of)
  BY <1>1 DEF GraphChanges
<1>3. e \in Time /\ (e # Never <=> May) /\ (e # Never => (e = eligible[p] /\ eligible[p] # Never) \/ e = tick)
  <2>1. tick # Never /\ tick \in Time
    BY <1>1 DEF Time, Never
  <2> HIDE DEF May
  <2> QED
    BY <1>1, <2>1 DEF Time
<1> HIDE DEF e
<1>4. /\ eligible' \in [Peers -> Time] /\ eligible'[p] = e
      /\ \A q \in Peers \ {p} : eligible'[q] = eligible[q]
  BY <1>1, <1>3
<1>5. \A q \in Peers : eligible'[q] # Never => (eligible'[q] = eligible[q] /\ eligible[q] # Never) \/ eligible'[q] = tick
  BY <1>3, <1>4
<1>6. \A q \in Peers : (eligible'[q] # Never <=> q \in Candidates')
  <2> SUFFICES ASSUME NEW q \in Peers PROVE eligible'[q] # Never <=> q \in Candidates'
    OBVIOUS
  <2>1. q \in Candidates' <=> q \in nodes_of' /\ (ProbeConnectedOnly => connection'[q] # "down")
    BY DEF Candidates
  <2>2. CASE q = p
    BY <1>3, <1>4, <2>1, <2>2
  <2>3. CASE q # p
    <3>1. eligible[q] # Never <=> q \in nodes_of /\ (ProbeConnectedOnly => connection[q] # "down")
      BY DEF ProbingInv, EligibleInv, Candidates
    <3> QED
      BY <1>2, <1>4, <2>1, <2>3, <3>1
  <2> QED
    BY <2>2, <2>3
<1>7. \A q \in Peers : eligible'[q] # Never => eligible'[q] <= tick
  BY <1>1, <1>5 DEF ProbingInv, EligibleInv
<1> QED
  BY <1>1, <1>2, <1>4, <1>5, <1>6, <1>7 DEF EligibleInv

LEMMA GraphChangesProbing == ASSUME ProbingInv, NEW p \in Peers, GraphChanges(p) PROVE ProbingInv'
<1>1. /\ EligibleInv' /\ UNCHANGED <<batch, listed_of, tick, probed>>
      /\ \A q \in Peers : eligible'[q] # Never => (eligible'[q] = eligible[q] /\ eligible[q] # Never) \/ eligible'[q] = tick
  BY GraphChangesEligible
<1>2. tick \in Nat
  BY DEF ProbingInv, EligibleInv
<1>3. BatchInv'
  BY <1>1, <1>2 DEF ProbingInv, BatchInv
<1>4. ListedInv'
  BY <1>1, <1>2 DEF ProbingInv, ListedInv
<1>5. ProbedInv'
  BY <1>1 DEF ProbingInv, ProbedInv
<1> QED
  BY <1>1, <1>3, <1>4, <1>5 DEF ProbingInv

LEMMA TickProbing == ASSUME ProbingInv, Tick PROVE ProbingInv'
<1>1. /\ tick \in Nat /\ tick' = tick + 1 /\ listed_of' = nodes_of /\ UNCHANGED <<nodes_of, connection, eligible>>
      /\ batch' = IF NeedsRefresh THEN [probes |-> Candidates, created_at |-> tick] ELSE batch
      /\ probed' = [full |-> Mark(probed.full, batch'.probes), immediate |-> Mark(probed.immediate, listed_of)]
  BY DEF Tick, FullRound, ImmediateRound, ProbingInv, EligibleInv
<1>2. /\ \A p \in Peers : eligible[p] # Never <=> p \in Candidates
      /\ \A p \in Peers : eligible[p] # Never => eligible[p] <= tick
      /\ \A p \in Peers : eligible[p] # Never => eligible[p] \in Nat
      /\ probed.full \in [Peers -> Time] /\ probed.immediate \in [Peers -> Time]
  BY DEF ProbingInv, EligibleInv, ProbedInv, Time
<1>3. /\ probed'.full = [p \in Peers |-> IF p \in batch'.probes THEN tick ELSE probed.full[p]]
      /\ probed'.immediate = [p \in Peers |-> IF p \in listed_of THEN tick ELSE probed.immediate[p]]
      /\ probed' = [full |-> probed'.full, immediate |-> probed'.immediate]
  BY <1>1, Zenon DEF Mark
<1>4. EligibleInv'
  <2>1. Candidates' = Candidates
    BY <1>1 DEF Candidates
  <2>2. \A p \in Peers : eligible[p] # Never => eligible[p] <= tick + 1
    BY <1>1, <1>2
  <2> QED
    BY <1>1, <1>2, <2>1, <2>2 DEF EligibleInv, ProbingInv
<1>5. BatchInv'
  <2>1. \A p \in Peers \cap batch'.probes : probed'.full[p] = tick
    BY <1>3
  <2>2. CASE NeedsRefresh
    <3>1. batch'.probes = Candidates /\ batch'.created_at = tick
      BY <1>1, <2>2
    <3>2. tick \in 0..((tick + 1) - 1) /\ tick + 1 <= tick + ShuffleTtl /\ (tick + 1) - 1 = tick /\ tick + 1 > 0
      BY <1>1 DEF ProbingAssumption
    <3>3. \A p \in Peers \ batch'.probes : eligible'[p] = Never
      BY <1>1, <1>2, <3>1
    <3> QED
      BY <1>1, <2>1, <3>1, <3>2, <3>3 DEF BatchInv
  <2>3. CASE ~NeedsRefresh
    <3>1. batch' = batch /\ batch # Unprobed /\ ~(tick - batch.created_at >= ShuffleTtl)
      BY <1>1, <2>3 DEF NeedsRefresh
    <3>2. tick > 0 /\ batch.created_at \in 0..(tick - 1)
          /\ \A p \in Peers \ batch.probes : eligible[p] # Never => eligible[p] > batch.created_at
      BY <1>1, <3>1 DEF ProbingInv, BatchInv
    <3>3. batch.created_at \in 0..((tick + 1) - 1) /\ tick + 1 <= batch.created_at + ShuffleTtl /\ (tick + 1) - 1 = tick
      BY <1>1, <3>1, <3>2 DEF ProbingAssumption
    <3> QED
      BY <1>1, <2>1, <3>1, <3>2, <3>3 DEF BatchInv
  <2> QED
    BY <2>2, <2>3
<1>6. ListedInv'
  <2>1. \A p \in Peers : eligible[p] # Never => p \in nodes_of
    BY <1>2 DEF Candidates
  <2>2. (tick + 1) - 1 = tick
    BY <1>1
  <2>3. \A p \in Peers : eligible[p] # Never /\ eligible[p] < tick => probed'.immediate[p] = tick
    BY <1>3 DEF ProbingInv, ListedInv
  <2> QED
    BY <1>1, <2>1, <2>2, <2>3 DEF ListedInv
<1>7. ProbedInv'
  <2>1. tick \in Time
    BY <1>1 DEF Time
  <2>2. probed'.full \in [Peers -> Time] /\ probed'.immediate \in [Peers -> Time]
    BY <1>2, <1>3, <2>1
  <2> QED
    BY <1>3, <2>2 DEF ProbedInv
<1> QED
  BY <1>4, <1>5, <1>6, <1>7 DEF ProbingInv

LEMMA ProbingInvAlways == Spec => []ProbingInv
<1>1. Init => ProbingInv
  BY ProbingInvInit DEF Init
<1>2. ProbingInv /\ [Next]_vars => ProbingInv'
  <2> SUFFICES ASSUME ProbingInv, [Next]_vars PROVE ProbingInv'
    OBVIOUS
  <2>1. CASE part = "probing" /\ ProbingNext
    BY <2>1, TickProbing, GraphChangesProbing DEF ProbingNext
  <2>2. CASE UNCHANGED probingVars
    BY <2>2 DEF probingVars, ProbingInv, EligibleInv, BatchInv, ListedInv, ProbedInv, Candidates
  <2> QED
    BY <2>1, <2>2, Zenon DEF Next, Explore, vars
<1> QED
  BY <1>1, <1>2, PTL DEF Spec

\* Weighing more weighs no less.
LEMMA Weighs ==
    ASSUME NEW w \in 0..2, NEW x \in Nat, NEW y \in Nat, x <= y
    PROVE  w * x \in Nat /\ w * y \in Nat /\ w * x <= w * y
<1>1. CASE w = 0
  BY <1>1
<1>2. CASE w = 1
  BY <1>2
<1>3. CASE w = 2
  BY <1>3
<1> QED
  BY <1>1, <1>2, <1>3

\* Of a valid configuration, at any time.
LEMMA ValidIs ==
    ASSUME NEW c \in ProberConfigs, ValidProber(c)
    PROVE  /\ c.staleness_weight \in 0..2 /\ c.quality_weight \in 0..2 /\ c.base_priority \in 0..2
           /\ c.staleness_weight + c.quality_weight + c.base_priority > 0
<1>1. /\ c.staleness_weight \in 0..3 /\ c.quality_weight \in 0..3 /\ c.base_priority \in 0..3
      /\ {"staleness_weight", "quality_weight", "base_priority"} \subseteq DOMAIN c
  BY DEF ProberConfigs
<1>2. c.staleness_weight <= Whole /\ c.quality_weight <= Whole /\ c.base_priority <= Whole
  BY <1>1 DEF ValidProber
<1> QED
  BY <1>1, <1>2 DEF ValidProber, Whole

\* The weight of three factors, each at most its greatest.
LEMMA WeighedSum ==
    ASSUME NEW M \in Nat \ {0}, NEW s \in 0..2, NEW q \in 0..2, NEW b \in 0..2, s + q + b > 0,
           NEW x \in 0..M, NEW y \in 0..2
    PROVE  /\ s * x * 2 + q * y * M + b * 2 * M \in 0..(s * M * 2 + q * 2 * M + b * 2 * M)
           /\ 0 < s * M * 2 + q * 2 * M + b * 2 * M
           /\ s * M * 2 + q * 2 * M + b * 2 * M <= 3 * 2 * 2 * M
<1>1. s * x \in Nat /\ s * M \in Nat /\ s * x <= s * M
  BY Weighs
<1>2. s * M <= 2 * M /\ (s > 0 => s * M >= M)
  <2>1. s = 0 \/ s = 1 \/ s = 2
    OBVIOUS
  <2> QED
    BY <2>1
<1>3. q * y * M \in Nat /\ q * y * M <= q * 2 * M
  <2> DEFINE z == q * y
             most == q * 2
  <2>1. z \in Nat /\ z <= most
    <3>1. y \in Nat /\ 2 \in Nat /\ y <= 2
      OBVIOUS
    <3> QED
      BY <3>1, Weighs
  <2>2. most = 0 \/ most = 2 \/ most = 4
    <3>1. q = 0 \/ q = 1 \/ q = 2
      OBVIOUS
    <3> QED
      BY <3>1
  <2> HIDE DEF z, most
  <2>3. z = 0 \/ z = 1 \/ z = 2 \/ z = 3 \/ z = 4
    BY <2>1, <2>2
  <2>4. z * M \in Nat /\ z * M <= most * M
    BY <2>1, <2>2, <2>3
  <2> QED
    BY <2>4 DEF z, most
<1>4. q * 2 * M \in Nat /\ q * 2 * M <= 4 * M /\ (q > 0 => q * 2 * M >= M)
  <2>1. q = 0 \/ q = 1 \/ q = 2
    OBVIOUS
  <2> QED
    BY <2>1
<1>5. b * 2 * M \in Nat /\ b * 2 * M <= 4 * M /\ (b > 0 => b * 2 * M >= M)
  <2>1. b = 0 \/ b = 1 \/ b = 2
    OBVIOUS
  <2> QED
    BY <2>1
<1>6. s > 0 \/ q > 0 \/ b > 0
  OBVIOUS
<1> DEFINE sx == s * x
           sm == s * M
           qy == q * y * M
           qm == q * 2 * M
           bm == b * 2 * M
<1> HIDE DEF sx, sm, qy, qm, bm
<1>7. sx \in Nat /\ sm \in Nat /\ sx <= sm /\ qy \in Nat /\ qm \in Nat /\ qy <= qm /\ bm \in Nat
  BY <1>1, <1>3, <1>4, <1>5 DEF sx, sm, qy, qm, bm
<1>8. sm <= 2 * M /\ qm <= 4 * M /\ bm <= 4 * M /\ (sm >= M \/ qm >= M \/ bm >= M)
  BY <1>2, <1>4, <1>5, <1>6 DEF sm, qm, bm
<1>9. /\ sx * 2 + qy + bm \in 0..(sm * 2 + qm + bm) /\ 0 < sm * 2 + qm + bm
      /\ sm * 2 + qm + bm <= 3 * 2 * 2 * M
  BY <1>7, <1>8
<1> QED
  BY <1>9 DEF sx, sm, qy, qm, bm

LEMMA ClampIs == ASSUME NEW x \in Int, NEW most \in Nat PROVE Clamp(x, most) \in 0..most
BY DEF Clamp

LEMMA UnmeasuredFirst == ASSUME tick \in Nat PROVE UnmeasuredComeFirst
<1> SUFFICES ASSUME NEW c \in ProberConfigs, ValidProber(c)
             PROVE  LET most == Priority(0, 0, tick, c)
                    IN  /\ 0 < most /\ most <= 3 * Whole * Whole * MaxStaleness
                        /\ \A score \in {-1, 1, Whole + 1}, at \in 0..(tick + 1) : Priority(score, at, tick, c) \in 0..most
  BY Zenon DEF UnmeasuredComeFirst
<1> DEFINE s == c.staleness_weight
           q == c.quality_weight
           b == c.base_priority
           M == MaxStaleness
           most == s * M * 2 + q * 2 * M + b * 2 * M
<1>1. s \in 0..2 /\ q \in 0..2 /\ b \in 0..2 /\ s + q + b > 0 /\ M \in Nat \ {0} /\ Whole = 2
  BY ValidIs DEF ProbingAssumption, Whole
<1>2. Priority(0, 0, tick, c) = most
  BY <1>1 DEF Priority, Clamp
<1>3. 0 < most /\ most <= 3 * 2 * 2 * M
  <2>1. 0 \in 0..M /\ 0 \in 0..2
    BY <1>1
  <2> QED
    BY <1>1, <2>1, WeighedSum
<1>4. ASSUME NEW score \in {-1, 1, Whole + 1}, NEW at \in 0..(tick + 1) PROVE Priority(score, at, tick, c) \in 0..most
  <2> DEFINE x == IF at = 0 THEN M ELSE Clamp(tick - at, M)
             y == Whole - Clamp(score, Whole)
  <2>1. x \in 0..M
    <3>1. CASE at = 0
      BY <1>1, <3>1
    <3>2. CASE at # 0
      <4>1. tick - at \in Int
        OBVIOUS
      <4>2. Clamp(tick - at, M) \in 0..M
        BY <1>1, <4>1, ClampIs
      <4> QED
        BY <3>2, <4>2
    <3> QED
      BY <3>1, <3>2
  <2>2. y \in 0..2
    BY <1>1 DEF Clamp
  <2>3. Priority(score, at, tick, c) = s * x * 2 + q * y * M + b * 2 * M
    BY <1>1, Zenon DEF Priority
  <2> HIDE DEF x, y, s, q, b, M
  <2>4. s * x * 2 + q * y * M + b * 2 * M \in 0..most
    BY <1>1, <2>1, <2>2, WeighedSum
  <2> QED
    BY <2>3, <2>4
<1> QED
  BY <1>1, <1>2, <1>3, <1>4

\* As long as a peer may be probed, the full-network prober probes it within the
\* life of a batch, whatever happens to other peers in between, and the immediate
\* prober on every tick but the first; and whatever a valid configuration weighs, a
\* peer never measured has the greatest weight.
THEOREM ProbesAreFairCorrect == Spec => []ProbesAreFair
<1>1. ProbingInv => PeersAreProbedInTime
  <2> SUFFICES ASSUME ProbingInv, NEW p \in Peers, eligible[p] # Never
               PROVE  LET since(last) == IF last > eligible[p] THEN last ELSE eligible[p]
                      IN  /\ tick - since(probed.full[p]) <= ShuffleTtl
                          /\ tick - since(probed.immediate[p]) <= 1
    BY DEF PeersAreProbedInTime
  <2>1. /\ tick \in Nat /\ eligible[p] \in Nat /\ eligible[p] <= tick
        /\ probed.full[p] \in Int /\ probed.immediate[p] \in Int /\ ShuffleTtl \in Nat /\ ShuffleTtl >= 1
    BY DEF ProbingInv, EligibleInv, ProbedInv, Time, Never, ProbingAssumption
  <2>2. \/ tick - eligible[p] <= ShuffleTtl
        \/ probed.full[p] = tick - 1
    <3>1. CASE tick = 0
      BY <2>1, <3>1
    <3>2. CASE tick # 0 /\ p \in batch.probes
      BY <2>1, <3>2 DEF ProbingInv, BatchInv
    <3>3. CASE tick # 0 /\ p \notin batch.probes
      <4>1. /\ eligible[p] > batch.created_at /\ tick <= batch.created_at + ShuffleTtl
            /\ batch.created_at \in 0..(tick - 1)
        BY <2>1, <3>3 DEF ProbingInv, BatchInv
      <4> QED
        BY <2>1, <4>1
    <3> QED
      BY <3>1, <3>2, <3>3
  <2>3. tick - eligible[p] <= 1 \/ probed.immediate[p] = tick - 1
    BY <2>1 DEF ProbingInv, ListedInv
  <2> QED
    BY <2>1, <2>2, <2>3
<1>2. ProbingInv => UnmeasuredComeFirst
  BY UnmeasuredFirst DEF ProbingInv, EligibleInv
<1> QED
  BY <1>1, <1>2, ProbingInvAlways, PTL DEF ProbesAreFair

-----------------------------------------------------------------------------
(* Names.                                                                  *)

USE ForwarderAssumption, PatternAssumption

Labels == [text : STRING, up : BOOLEAN]
TextsAgree(a, b) == Len(a) = Len(b) /\ \A i \in 1..Len(a) : a[i].text = b[i].text
Ends(n) == n[Len(n)].text

LEMMA NameIs == ASSUME NEW n \in Names PROVE n \in Seq(Labels) /\ Len(n) \in Nat /\ Len(n) >= 1 /\ Len(n) \in 1..Len(n)
<1>1. n \in Seq(Labels) /\ n # <<>>
  BY DEF Names, Labels
<1> QED
  BY <1>1

LEMMA LowerIs ==
    ASSUME NEW n \in Seq(Labels)
    PROVE  /\ Lower(n) \in Seq(Labels) /\ Len(Lower(n)) = Len(n) /\ TextsAgree(Lower(n), n)
           /\ Lower(n) = [i \in 1..Len(n) |-> Label(n[i].text)]
<1>1. \A i \in 1..Len(n) : Label(n[i].text) \in Labels /\ Label(n[i].text).text = n[i].text
  <2>1. \A i \in 1..Len(n) : n[i] \in Labels
    OBVIOUS
  <2> QED
    BY <2>1 DEF Label, Labels
<1>2. Lower(n) = [i \in 1..Len(n) |-> Label(n[i].text)] /\ Len(n) \in Nat
  BY DEF Lower
<1> DEFINE low == Lower(n)
           m == Len(n)
<1>3. low \in [1..m -> Labels] /\ m \in Nat /\ \A i \in 1..m : low[i].text = n[i].text
  BY <1>1, <1>2
<1> HIDE DEF low, m
<1>4. low \in Seq(Labels) /\ Len(low) = m
  BY <1>3, FunIsSeq
<1> QED
  BY <1>2, <1>3, <1>4 DEF TextsAgree, low, m

\* Names are equal but for their case when they have the same texts.
LEMMA LowerSame ==
    ASSUME NEW a \in Seq(Labels), NEW b \in Seq(Labels)
    PROVE  Lower(a) = Lower(b) <=> TextsAgree(a, b)
<1>1. ASSUME Lower(a) = Lower(b) PROVE TextsAgree(a, b)
  BY <1>1, LowerIs DEF TextsAgree
<1>2. ASSUME TextsAgree(a, b) PROVE Lower(a) = Lower(b)
  BY <1>2, LowerIs DEF TextsAgree
<1> QED
  BY <1>1, <1>2

LEMMA FrontIs ==
    ASSUME NEW n \in Names
    PROVE  Front(n) \in Seq(Labels) /\ Len(Front(n)) = Len(n) - 1 /\ \A i \in 1..(Len(n) - 1) : Front(n)[i] = n[i]
<1> DEFINE k == Len(n) - 1
<1>1. n \in Seq(Labels) /\ k \in 0..Len(n)
  BY NameIs
<1> HIDE DEF k
<1>2. SubSeq(n, 1, k) \in Seq(Labels) /\ Len(SubSeq(n, 1, k)) = k /\ \A i \in 1..k : SubSeq(n, 1, k)[i] = n[i]
  BY <1>1
<1> QED
  BY <1>2 DEF Front, k

LEMMA BareIs ==
    ASSUME NEW n \in Names
    PROVE  /\ WithoutRootDot(n) \in Names /\ Last(n).text = Ends(n)
           /\ WithoutRootDot(n) = IF Len(n) > 1 /\ Ends(n) = NoText THEN Front(n) ELSE n
           /\ Len(WithoutRootDot(n)) = IF Len(n) > 1 /\ Ends(n) = NoText THEN Len(n) - 1 ELSE Len(n)
           /\ \A i \in 1..Len(WithoutRootDot(n)) : WithoutRootDot(n)[i] = n[i]
<1>1. n \in Seq(Labels) /\ Len(n) \in Nat /\ Len(n) >= 1
  BY NameIs
<1>2. Front(n) \in Seq(Labels) /\ Len(Front(n)) = Len(n) - 1 /\ \A i \in 1..(Len(n) - 1) : Front(n)[i] = n[i]
  BY FrontIs
<1>3. Last(n).text = Ends(n)
  BY DEF Last, Ends
<1>4. WithoutRootDot(n) = IF Len(n) > 1 /\ Ends(n) = NoText THEN Front(n) ELSE n
  BY <1>3, Zenon DEF WithoutRootDot
<1>5. CASE Len(n) > 1 /\ Ends(n) = NoText
  <2>1. WithoutRootDot(n) = Front(n)
    BY <1>4, <1>5
  <2>2. Front(n) # <<>>
    BY <1>1, <1>2, <1>5
  <2> QED
    BY <1>1, <1>2, <1>3, <1>4, <1>5, <2>1, <2>2 DEF Names, Labels
<1>6. CASE ~(Len(n) > 1 /\ Ends(n) = NoText)
  <2>1. WithoutRootDot(n) = n
    BY <1>4, <1>6
  <2> QED
    BY <1>3, <1>4, <1>6, <2>1
<1> QED
  BY <1>5, <1>6

\* Names that are one host are equal without their root dots, and names that are
\* equal without them are one host if anything is left of them.
LEMMA SameHostNames ==
    ASSUME NEW a, NEW b, IsHost(a), IsHost(b), a.kind = "Dns", SameHost(a, b)
    PROVE  /\ b.kind = "Dns" /\ a.port = b.port /\ a.name \in Names /\ b.name \in Names
           /\ EqIgnoreCase(WithoutRootDot(a.name), WithoutRootDot(b.name))
<1>1. CASE a = b
  BY <1>1 DEF EqIgnoreCase, IsHost
<1>2. CASE a # b
  <2> DEFINE x == a.name
             y == b.name
             Cut(n) == IF Ends(n) = NoText THEN Front(n) ELSE n
  <2>1. b.kind = "Dns" /\ a.port = b.port /\ x \in Names /\ y \in Names
    BY <1>2, Zenon DEF SameHost, IsHost
  <2>2. Lower(Cut(x)) = Lower(Cut(y))
    <3>1. Lower(IF Last(x).text = NoText THEN Front(x) ELSE x) = Lower(IF Last(y).text = NoText THEN Front(y) ELSE y)
      BY <1>2, Zenon DEF SameHost
    <3> QED
      BY <2>1, <3>1, BareIs, Zenon
  <2> HIDE DEF x, y
  <2>3. ASSUME NEW n \in Names
        PROVE  /\ Cut(n) \in Seq(Labels) /\ Len(Cut(n)) \in Nat
               /\ Len(Cut(n)) = 0 => WithoutRootDot(n) = n /\ Len(n) = 1 /\ Ends(n) = NoText
               /\ Len(Cut(n)) # 0 => Cut(n) = WithoutRootDot(n)
    <3>1. /\ n \in Seq(Labels) /\ Len(n) \in Nat /\ Len(n) >= 1
          /\ Front(n) \in Seq(Labels) /\ Len(Front(n)) = Len(n) - 1
      BY NameIs, FrontIs
    <3>2. WithoutRootDot(n) = IF Len(n) > 1 /\ Ends(n) = NoText THEN Front(n) ELSE n
      BY BareIs
    <3>3. CASE Ends(n) = NoText
      BY <3>1, <3>2, <3>3
    <3>4. CASE Ends(n) # NoText
      BY <3>1, <3>2, <3>4
    <3> QED
      BY <3>3, <3>4
  <2> HIDE DEF Cut
  <2>4. Len(Cut(x)) = Len(Cut(y)) /\ TextsAgree(Cut(x), Cut(y))
    BY <2>1, <2>2, <2>3, LowerSame DEF TextsAgree
  <2>5. CASE Len(Cut(x)) # 0
    BY <2>1, <2>2, <2>3, <2>4, <2>5 DEF EqIgnoreCase, x, y
  <2>6. CASE Len(Cut(x)) = 0
    <3>0. Len(x) = 1 /\ Ends(x) = NoText /\ Len(y) = 1 /\ Ends(y) = NoText
      BY <2>1, <2>3, <2>4, <2>6
    <3>1. TextsAgree(x, y)
      BY <3>0 DEF TextsAgree, Ends
    <3>2. Lower(x) = Lower(y)
      BY <2>1, <3>1, LowerSame, NameIs
    <3> QED
      BY <2>1, <2>3, <2>4, <2>6, <3>2 DEF EqIgnoreCase, x, y
  <2> QED
    BY <2>5, <2>6
<1> QED
  BY <1>1, <1>2

LEMMA SameNamesHost ==
    ASSUME NEW a, NEW b, IsHost(a), IsHost(b), a.kind = "Dns", b.kind = "Dns", a.port = b.port,
           ~DnsEntryProblem(a.name), EqIgnoreCase(WithoutRootDot(a.name), WithoutRootDot(b.name))
    PROVE  SameHost(a, b)
<1> DEFINE x == WithoutRootDot(a.name)
           y == WithoutRootDot(b.name)
           bare(n) == Lower(IF Last(n).text = NoText THEN Front(n) ELSE n)
<1>1. a.name \in Names /\ b.name \in Names
  BY DEF IsHost
<1>2. x \in Names /\ y \in Names
  BY <1>1, BareIs
<1>3. Lower(x) = Lower(y)
  BY Zenon DEF EqIgnoreCase
<1>4. \A i \in DOMAIN x : x[i].text # NoText
  BY Zenon DEF DnsEntryProblem
<1>5. ASSUME NEW n \in Names, Ends(WithoutRootDot(n)) # NoText PROVE bare(n) = Lower(WithoutRootDot(n))
  BY <1>5, BareIs, NameIs DEF Ends
<1> HIDE DEF x, y
<1>6. TextsAgree(x, y) /\ Len(x) \in 1..Len(x)
  BY <1>2, <1>3, LowerSame, NameIs
<1>7. Ends(x) # NoText /\ Ends(y) # NoText
  <2>1. x[Len(x)].text # NoText
    BY <1>2, <1>4, <1>6, NameIs
  <2> QED
    BY <1>6, <2>1 DEF TextsAgree, Ends
<1>8. bare(a.name) = bare(b.name)
  BY <1>1, <1>3, <1>5, <1>7 DEF x, y
<1> QED
  BY <1>8, Zenon DEF SameHost

-----------------------------------------------------------------------------
(* Sessions.  Only covered addresses are connected to: what the list settles *)
(* at once is covered by the target's own name or literally, the rest by     *)
(* what listed names were found to lead to.                                  *)

TargetHosts == target.form = "stream" => IsHost(target.host)
ListHosts == \A h \in cfg.list : IsHost(h) /\ (h.kind = "Dns" => ~DnsEntryProblem(h.name))

\* Where a session is, and what it knows of its target there.
Resolved == target.form = "stream" /\ (target.host.kind # "Dns" => resolved = {<<target.host.ip, target.host.port>>})

AddressInv ==
    /\ TargetHosts /\ ListHosts
    /\ stage \in {"resolved", "looking"} => Resolved
    /\ stage = "looking" => cfg.use_list /\ ~ListedByName(target.host) /\ \E a \in resolved : ~IsListed(a)
    /\ stage = "connecting" => \A a \in resolved : CoveredByList(a)
    /\ OnlyAllowedTargetsAreReached

\* Another spelling of the target covers what the list covers by its name.
LEMMA NamedIsCovered ==
    ASSUME ListHosts, TargetHosts, target.form = "stream", ListedByName(target.host), NEW a
    PROVE  CoveredByList(a)
<1>1. IsHost(target.host)
  BY DEF TargetHosts
<1>2. PICK h \in cfg.list : /\ target.host.kind = "Dns" /\ h.kind = "Dns" /\ h.port = target.host.port
                            /\ EqIgnoreCase(WithoutRootDot(h.name), WithoutRootDot(target.host.name))
  BY Zenon DEF ListedByName
<1>3. IsHost(h) /\ ~DnsEntryProblem(h.name)
  BY <1>2, Zenon DEF ListHosts
<1>4. SameHost(h, target.host)
  BY <1>1, <1>2, <1>3, SameNamesHost, Zenon
<1> QED
  BY <1>4, Zenon DEF CoveredByList

\* What is not listed by name or literally, nor found, is not covered.
LEMMA UnlistedIsNot ==
    ASSUME ListHosts, TargetHosts, Resolved, cfg.use_list, ~ListedByName(target.host),
           NEW a \in resolved, ~IsListed(a), a \notin by_name
    PROVE  ~CoveredByList(a)
<1> SUFFICES ASSUME NEW h \in cfg.list, SameHost(h, target.host) PROVE FALSE
  BY Zenon DEF CoveredByList, IsListed
<1>1. IsHost(h) /\ IsHost(target.host)
  BY Zenon DEF ListHosts, TargetHosts, Resolved
<1>2. CASE h.kind = "Dns"
  <2>1. /\ target.host.kind = "Dns" /\ h.port = target.host.port
        /\ EqIgnoreCase(WithoutRootDot(h.name), WithoutRootDot(target.host.name))
    BY <1>1, <1>2, SameHostNames, Zenon
  <2> QED
    BY <1>2, <2>1, Zenon DEF ListedByName
<1>3. CASE h.kind # "Dns"
  <2>1. h = target.host
    BY <1>3, Zenon DEF SameHost
  <2>2. h.kind = "Ip"
    <3>1. h = [kind |-> "Ip", ip |-> h.ip, port |-> h.port]
      BY <1>1, <1>3, Zenon DEF IsHost
    <3> QED
      BY <3>1
  <2>3. a = <<h.ip, h.port>>
    BY <1>3, <2>1 DEF Resolved
  <2> QED
    BY <2>2, <2>3, Zenon DEF IsListed
<1> QED
  BY <1>2, <1>3

LEMMA AddressInit == ForwarderInit => AddressInv
<1> SUFFICES ASSUME ForwarderInit PROVE AddressInv
  OBVIOUS
<1>1. TargetHosts
  BY DEF ForwarderInit, TargetHosts
<1>2. cfg \in Configs /\ Valid(cfg) /\ stage = "asked" /\ contacted = {}
  BY DEF ForwarderInit
<1>3. ListHosts
  <2>1. \A h \in cfg.list : IsHost(h)
    BY <1>2
  <2>2. \A h \in cfg.list : h.kind = "Dns" => ~DnsEntryProblem(h.name)
    BY <1>2, Zenon DEF Valid
  <2> QED
    BY <2>1, <2>2, Zenon DEF ListHosts
<1> QED
  BY <1>1, <1>2, <1>3 DEF AddressInv, OnlyAllowedTargetsAreReached

\* Lookups only add to what is covered.
LEMMA StaysCovered ==
    ASSUME UNCHANGED <<cfg, target>>, by_name \subseteq by_name', NEW a, CoveredByList(a)
    PROVE  CoveredByList(a)'
BY Zenon DEF CoveredByList

LEMMA AddressStep == ASSUME AddressInv, [ForwarderNext]_forwarderVars PROVE AddressInv'
<1> DEFINE Same == UNCHANGED <<cfg, target>>
           Quiet == UNCHANGED <<cfg, target, resolved, by_name, contacted>>
<1>0. Same => TargetHosts' /\ ListHosts' /\ (resolved' = resolved => (Resolved' <=> Resolved))
  BY DEF AddressInv, TargetHosts, ListHosts, Resolved
<1>1. ASSUME Quiet, stage' = stage \/ stage' \in {"admitted", "refused", "failed", "loopback", "ended"} PROVE AddressInv'
  <2>1. \A a : CoveredByList(a)' <=> CoveredByList(a)
    BY <1>1 DEF CoveredByList
  <2>2. ListedByName(target.host)' <=> ListedByName(target.host)
    BY <1>1 DEF ListedByName
  <2>3. \A a : IsListed(a)' <=> IsListed(a)
    BY <1>1 DEF IsListed
  <2> QED
    BY <1>0, <1>1, <2>1, <2>2, <2>3 DEF AddressInv, OnlyAllowedTargetsAreReached
<1>2. CASE ResolveTarget
  <2>1. Same /\ UNCHANGED <<by_name, contacted>> /\ target.form = "stream" /\ stage = "admitted"
    BY <1>2 DEF ResolveTarget, requestVars, Fails
  <2>2. CASE stage' = "failed" /\ UNCHANGED resolved
    BY <1>1, <2>1, <2>2
  <2>3. CASE stage' = "resolved" /\ \E a \in Lookup(target.host) : resolved' = Lookup(target.host) \/ resolved' = {a}
    <3>1. target.host.kind # "Dns" => target.host.kind = "Ip"
      <4>1. ASSUME target.host.kind # "Dns" PROVE target.host = [kind |-> "Ip", ip |-> target.host.ip, port |-> target.host.port]
        BY <2>1, <4>1, Zenon DEF AddressInv, TargetHosts, IsHost
      <4> QED
        BY <4>1
    <3>2. Resolved'
      BY <2>1, <2>3, <3>1 DEF Resolved, Lookup
    <3>3. \A a \in contacted' : CoveredByList(a)'
      BY <2>1, StaysCovered DEF AddressInv, OnlyAllowedTargetsAreReached
    <3> QED
      BY <1>0, <2>1, <2>3, <3>2, <3>3 DEF AddressInv, OnlyAllowedTargetsAreReached
  <2> QED
    BY <1>2, <2>2, <2>3 DEF ResolveTarget, Fails
<1>3. CASE CheckList
  <2>1. Same /\ UNCHANGED <<resolved, by_name, contacted>> /\ stage = "resolved" /\ Resolved
    BY <1>3 DEF CheckList, requestVars, AddressInv
  <2>2. \A a \in contacted' : CoveredByList(a)'
    BY <2>1, StaysCovered DEF AddressInv, OnlyAllowedTargetsAreReached
  <2>3. CASE stage' = "connecting" /\ (~cfg.use_list \/ ListedByName(target.host) \/ \A a \in resolved : IsListed(a))
    <3>1. \A a \in resolved : CoveredByList(a)
      <4>1. CASE ~cfg.use_list
        BY <4>1, Zenon DEF CoveredByList
      <4>2. CASE ListedByName(target.host)
        BY <2>1, <4>2, NamedIsCovered DEF AddressInv, Resolved
      <4>3. CASE \A a \in resolved : IsListed(a)
        BY <4>3, Zenon DEF CoveredByList, IsListed
      <4> QED
        BY <2>3, <4>1, <4>2, <4>3
    <3>2. \A a \in resolved' : CoveredByList(a)'
      BY <2>1, <3>1, StaysCovered
    <3> QED
      BY <1>0, <2>1, <2>2, <2>3, <3>2 DEF AddressInv, OnlyAllowedTargetsAreReached
  <2>4. CASE stage' = "looking" /\ cfg.use_list /\ ~ListedByName(target.host) /\ \E a \in resolved : ~IsListed(a)
    <3>1. cfg'.use_list /\ ~ListedByName(target.host)' /\ \E a \in resolved' : ~IsListed(a)'
      BY <2>1, <2>4 DEF ListedByName, IsListed
    <3> QED
      BY <1>0, <2>1, <2>2, <2>4, <3>1 DEF AddressInv, OnlyAllowedTargetsAreReached
  <2> QED
    BY <1>3, <2>3, <2>4 DEF CheckList
<1>4. ASSUME NEW h \in pending, LookedUp(h) PROVE AddressInv'
  <2>1. Same /\ UNCHANGED <<stage, resolved, contacted>> /\ stage = "looking" /\ by_name \subseteq by_name'
    BY <1>4 DEF LookedUp, requestVars
  <2>2. \A a \in contacted' : CoveredByList(a)'
    BY <2>1, StaysCovered DEF AddressInv, OnlyAllowedTargetsAreReached
  <2>3. cfg'.use_list /\ ~ListedByName(target.host)' /\ \E a \in resolved' : ~IsListed(a)'
    BY <2>1 DEF ListedByName, IsListed, AddressInv
  <2> QED
    BY <1>0, <2>1, <2>2, <2>3 DEF AddressInv, OnlyAllowedTargetsAreReached
<1>5. CASE Decide
  <2>1. /\ Same /\ UNCHANGED <<resolved, by_name, contacted>> /\ stage = "looking" /\ Resolved
        /\ cfg.use_list /\ ~ListedByName(target.host)
    BY <1>5 DEF Decide, requestVars, AddressInv
  <2>2. \A a \in contacted' : CoveredByList(a)'
    BY <2>1, StaysCovered DEF AddressInv, OnlyAllowedTargetsAreReached
  <2>3. CASE stage' = "connecting" /\ \A a \in resolved : IsListed(a) \/ a \in by_name
    <3>1. \A a \in resolved : CoveredByList(a)
      BY <2>3, Zenon DEF CoveredByList, IsListed
    <3>2. \A a \in resolved' : CoveredByList(a)'
      BY <2>1, <3>1, StaysCovered
    <3> QED
      BY <1>0, <2>1, <2>2, <2>3, <3>2 DEF AddressInv, OnlyAllowedTargetsAreReached
  <2>4. CASE stage' = "denied" /\ ~\A a \in resolved : IsListed(a) \/ a \in by_name
    <3>1. PICK a \in resolved : ~IsListed(a) /\ a \notin by_name
      BY <2>4
    <3>2. ~CoveredByList(a)
      BY <2>1, <3>1, UnlistedIsNot DEF AddressInv
    <3>3. ~CoveredByList(a)'
      BY <2>1, <3>2 DEF CoveredByList
    <3> QED
      BY <1>0, <2>1, <2>2, <2>4, <3>1, <3>3 DEF AddressInv, OnlyAllowedTargetsAreReached
  <2> QED
    BY <1>5, <2>3, <2>4 DEF Decide
<1>6. CASE ConnectionSucceeds \/ ConnectionFails
  <2>1. Same /\ UNCHANGED <<resolved, by_name>> /\ contacted' \subseteq contacted \cup resolved /\ stage = "connecting"
        /\ stage' \in {"bridged", "connecting", "failed"}
    BY <1>6 DEF ConnectionSucceeds, ConnectionFails, ConnectTo, requestVars
  <2>2. \A a \in contacted' \cup resolved' : CoveredByList(a)'
    BY <2>1, StaysCovered DEF AddressInv, OnlyAllowedTargetsAreReached
  <2> QED
    BY <1>0, <2>1, <2>2 DEF AddressInv, OnlyAllowedTargetsAreReached
<1>7. CASE Admit
  BY <1>1, <1>7 DEF Admit
<1>8. CASE Service
  BY <1>1, <1>8 DEF Service, Fails, requestVars
<1>9. CASE LoopbackStep \/ LoopbackError
  BY <1>1, <1>9 DEF LoopbackStep, LoopbackError, Arrives, Reads, ReadsEnd, ReadFails, Writes, WriteFails, WriteIsRefused,
     WriterEnds, LoopbackEnds, Looping, requestVars
<1>10. CASE \E name \in Hosts : DnsChanges(name)
  BY <1>1, <1>10 DEF DnsChanges
<1>11. CASE UNCHANGED forwarderVars
  BY <1>1, <1>11 DEF forwarderVars
<1> QED
  BY <1>2, <1>3, <1>4, <1>5, <1>6, <1>7, <1>8, <1>9, <1>10, <1>11 DEF ForwarderNext, SessionStep

-----------------------------------------------------------------------------
(* Sessions.  Their terms do not depend on how names are spelled: a pattern  *)
(* selects every spelling of a host or none, and is read back as it was.     *)

ReadNames == {n \in Names : n # Invalid /\ IsDnsCharset(n) /\ Lower(n) = n}

\* The hosts of the patterns there are.
HostRead(h) ==
    \/ h = [kind |-> "Any"]
    \/ \E net \in DOMAIN Blocks : h = [kind |-> "Network", net |-> net]
    \/ \E ip \in Ips : /\ h = [kind |-> "Address", ip |-> ip]
                       /\ ip # <<Star>> /\ ip[1] # Star /\ ~(Len(ip) = 1 /\ ip[1].text \in DOMAIN Blocks)
    \/ \E n \in ReadNames : h = [kind |-> "Name", name |-> n]
    \/ \E n \in ReadNames : h = [kind |-> "Subdomain", name |-> n]

PatternRead(p) ==
    \/ p = [form |-> "*"]
    \/ p = [form |-> "service", id |-> p.id]
    \/ p = StreamPattern(p.protocol, p.host, p.port) /\ HostRead(p.host) /\ p.host # Invalid /\ p # Invalid
       /\ p.protocol \in {"*", "tcp", "udp"} /\ p.port \in PortNumbers \cup {Wild}

LEMMA DnsNameRead == ASSUME NEW w \in Names, DnsName(w) # Invalid PROVE DnsName(w) \in ReadNames
<1> DEFINE m == WithoutRootDot(w)
<1>1. m \in Names /\ IsDnsCharset(m) /\ DnsName(w) = Lower(m)
  BY BareIs, Zenon DEF DnsName
<1> HIDE DEF m
<1>2. m \in Seq(Labels) /\ Len(m) \in Nat /\ Len(m) >= 1
  BY <1>1, NameIs
<1>3. Lower(m) \in Seq(Labels) /\ Len(Lower(m)) = Len(m) /\ TextsAgree(Lower(m), m)
  BY <1>2, LowerIs
<1>4. Lower(m) \in Names
  BY <1>2, <1>3 DEF Names, Labels
<1>5. Lower(Lower(m)) = Lower(m)
  BY <1>2, <1>3, LowerSame, Zenon
<1>6. IsDnsCharset(Lower(m))
  BY <1>1, <1>2, <1>3 DEF IsDnsCharset, TextsAgree
<1> QED
  BY <1>1, <1>4, <1>5, <1>6, Zenon DEF ReadNames

LEMMA HostIsRead == ASSUME NEW w \in Names, ParseHost(w) # Invalid PROVE HostRead(ParseHost(w))
<1>1. CASE w = <<Star>>
  BY <1>1, Zenon DEF ParseHost, HostRead
<1>2. CASE w # <<Star>> /\ w[1] = Star
  <2>1. ParseHost(w) = Named("Subdomain", DnsName(Tail(w)))
    BY <1>2, Zenon DEF ParseHost
  <2>2. Tail(w) \in Names
    <3>1. w \in Seq(Labels) /\ Len(w) \in Nat /\ Len(w) >= 1
      BY NameIs
    <3>2. Len(w) # 1
      BY <1>2, <3>1
    <3> DEFINE t == Tail(w)
    <3>3. t \in Seq(Labels) /\ Len(t) = Len(w) - 1
      BY <3>1, <3>2
    <3> HIDE DEF t
    <3>4. t # <<>>
      BY <3>1, <3>2, <3>3
    <3> QED
      BY <3>3, <3>4, Zenon DEF Names, Labels, t
  <2>3. DnsName(Tail(w)) # Invalid /\ ParseHost(w) = [kind |-> "Subdomain", name |-> DnsName(Tail(w))]
    BY <2>1, Zenon DEF Named
  <2> QED
    BY <2>2, <2>3, DnsNameRead, Zenon DEF HostRead
<1>3. CASE w # <<Star>> /\ w[1] # Star /\ Len(w) = 1 /\ w[1].text \in DOMAIN Blocks
  BY <1>3, Zenon DEF ParseHost, HostRead
<1>4. CASE w # <<Star>> /\ w[1] # Star /\ ~(Len(w) = 1 /\ w[1].text \in DOMAIN Blocks) /\ w \in Ips
  BY <1>4, Zenon DEF ParseHost, HostRead
<1>5. CASE w # <<Star>> /\ w[1] # Star /\ ~(Len(w) = 1 /\ w[1].text \in DOMAIN Blocks) /\ w \notin Ips
  <2>1. ParseHost(w) = Named("Name", DnsName(w))
    BY <1>5, Zenon DEF ParseHost
  <2>2. DnsName(w) # Invalid /\ ParseHost(w) = [kind |-> "Name", name |-> DnsName(w)]
    BY <2>1, Zenon DEF Named
  <2> QED
    BY <2>2, DnsNameRead, Zenon DEF HostRead
<1> QED
  BY <1>1, <1>2, <1>3, <1>4, <1>5

\* A rule of a valid configuration holds a pattern.
LEMMA RuleIsRead ==
    ASSUME NEW r, IsRule(r), Parse(r.target) # Invalid
    PROVE  PatternRead(Parse(r.target))
<1>1. CASE r.target.form # "stream"
  <2>1. Parse(r.target) = r.target
    BY <1>1, Zenon DEF Parse
  <2>2. r.target = [form |-> "*"] \/ r.target = [form |-> "service", id |-> r.target.id]
    BY <1>1, Zenon DEF IsRule
  <2> QED
    BY <2>1, <2>2, Zenon DEF PatternRead
<1>2. CASE r.target.form = "stream"
  <2> DEFINE w == r.target.host
             h == ParseHost(w)
  <2>1. w \in Names
    BY <1>2, Zenon DEF IsRule
  <2>2. /\ h # Invalid /\ Parse(r.target) = StreamPattern(r.target.protocol, h, r.target.port)
        /\ r.target.protocol \in {"*", "tcp", "udp"} /\ r.target.port \in PortNumbers \cup {Wild}
    BY <1>2, Zenon DEF Parse
  <2>3. HostRead(h)
    BY <2>1, <2>2, HostIsRead, Zenon
  <2> HIDE DEF h
  <2>4. ASSUME NEW p, p = StreamPattern(r.target.protocol, h, r.target.port)
        PROVE  p.protocol = r.target.protocol /\ p.host = h /\ p.port = r.target.port
    BY <2>4 DEF StreamPattern
  <2> QED
    BY <2>2, <2>3, <2>4, Zenon DEF PatternRead
<1> QED
  BY <1>1, <1>2


LEMMA StarThenName ==
    ASSUME NEW S, NEW x \in S, NEW n \in Seq(S)
    PROVE  Len(<<x>> \o n) = Len(n) + 1 /\ (<<x>> \o n)[1] = x /\ Tail(<<x>> \o n) = n
<1> DEFINE w == <<x>> \o n
<1>1. w \in Seq(S) /\ Len(w) = Len(n) + 1 /\ w[1] = x /\ Len(n) \in Nat
  OBVIOUS
<1>2. \A i \in 1..Len(n) : w[i + 1] = n[i]
  OBVIOUS
<1> HIDE DEF w
<1>3. Tail(w) \in Seq(S) /\ Len(Tail(w)) = Len(n) /\ \A i \in 1..Len(n) : Tail(w)[i] = w[i + 1]
  BY <1>1
<1>4. Tail(w) = n
  BY <1>2, <1>3
<1> QED
  BY <1>1, <1>4 DEF w


\* A host that does not end in an empty label is read back from what it displays
\* as, unless it is a name that is an address.
LEMMA HostReadBack ==
    ASSUME NEW h, HostRead(h), h # Invalid, h.kind = "Name" => h.name \notin Ips,
           h.kind \in {"Name", "Subdomain"} => Last(h.name).text # NoText
    PROVE  ParseHost(DisplayHost(h)) = h
<1>1. ASSUME NEW n \in ReadNames, Last(n).text # NoText
      PROVE  /\ DnsName(n) = n /\ n # <<Star>> /\ n[1] # Star /\ ~(Len(n) = 1 /\ n[1].text \in DOMAIN Blocks)
             /\ n \in Names /\ n # Invalid
  <2>1. n \in Names /\ n # Invalid /\ IsDnsCharset(n) /\ Lower(n) = n
    BY Zenon DEF ReadNames
  <2>2. WithoutRootDot(n) = n
    BY <1>1, Zenon DEF WithoutRootDot
  <2>3. n[1].text \notin NotDns
    <3>1. 1 \in DOMAIN n
      BY <2>1, NameIs
    <3> QED
      BY <2>1, <3>1, Zenon DEF IsDnsCharset
  <2>4. n[1] # Star
    <3>1. Star.text = "*"
      BY DEF Star, Label
    <3> QED
      BY <2>3, <3>1, Zenon
  <2>5. n # <<Star>>
    BY <2>4
  <2>6. n # NoName
    <3>1. Last(NoName).text = NoText
      BY DEF NoName, Last, Label
    <3> QED
      BY <1>1, <3>1, Zenon
  <2> QED
    BY <2>1, <2>2, <2>3, <2>4, <2>5, <2>6, Zenon DEF DnsName
<1>2. CASE h = [kind |-> "Any"]
  <2>1. DisplayHost(h) = <<Star>>
    BY <1>2, Zenon DEF DisplayHost
  <2> QED
    BY <1>2, <2>1, Zenon DEF ParseHost
<1>3. ASSUME NEW net \in DOMAIN Blocks, h = [kind |-> "Network", net |-> net] PROVE ParseHost(DisplayHost(h)) = h
  <2>1. h.kind = "Network" /\ h.net = net
    BY <1>3
  <2>2. DisplayHost(h) = <<Label(net)>>
    BY <2>1, Zenon DEF DisplayHost
  <2> DEFINE w == <<Label(net)>>
  <2>3. Len(w) = 1 /\ w[1] = Label(net) /\ Label(net).text = net /\ Label(net) # Star
    BY <1>3 DEF Star, Label
  <2>4. w # <<Star>>
    BY <2>3
  <2> HIDE DEF w
  <2> QED
    BY <1>3, <2>2, <2>3, <2>4, Zenon DEF ParseHost, w
<1>4. ASSUME NEW ip \in Ips, h = [kind |-> "Address", ip |-> ip], ip # <<Star>>, ip[1] # Star,
             ~(Len(ip) = 1 /\ ip[1].text \in DOMAIN Blocks)
      PROVE  ParseHost(DisplayHost(h)) = h
  <2>1. h.kind = "Address" /\ h.ip = ip
    BY <1>4
  <2>2. DisplayHost(h) = ip
    BY <2>1, Zenon DEF DisplayHost
  <2> QED
    BY <1>4, <2>2, Zenon DEF ParseHost
<1>5. ASSUME NEW n \in ReadNames, h = [kind |-> "Name", name |-> n] PROVE ParseHost(DisplayHost(h)) = h
  <2>1. h.kind = "Name" /\ h.name = n
    BY <1>5
  <2>2. DisplayHost(h) = n
    BY <2>1, Zenon DEF DisplayHost
  <2>3. n \notin Ips /\ Last(n).text # NoText
    BY <2>1
  <2>4. ParseHost(n) = Named("Name", n) /\ n # Invalid
    BY <1>1, <2>3, Zenon DEF ParseHost
  <2> QED
    BY <1>5, <2>2, <2>4, Zenon DEF Named
<1>6. ASSUME NEW n \in ReadNames, h = [kind |-> "Subdomain", name |-> n] PROVE ParseHost(DisplayHost(h)) = h
  <2>1. h.kind = "Subdomain" /\ h.name = n
    BY <1>6
  <2>2. DisplayHost(h) = <<Star>> \o n
    BY <2>1, Zenon DEF DisplayHost
  <2>3. Last(n).text # NoText
    BY <2>1
  <2>4. DnsName(n) = n /\ n \in Names /\ n # Invalid
    BY <1>1, <2>3, Zenon
  <2> DEFINE w == <<Star>> \o n
  <2>5. Len(w) = Len(n) + 1 /\ w[1] = Star /\ Tail(w) = n /\ Len(n) >= 1 /\ Len(n) \in Nat
    <3>1. n \in Seq(Labels) /\ Len(n) \in Nat /\ Len(n) >= 1
      BY <2>4, NameIs
    <3>2. n \in Seq(Labels \cup {Star})
      BY <3>1
    <3> QED
      BY <3>1, <3>2, StarThenName
  <2>6. w # <<Star>>
    BY <2>5
  <2> HIDE DEF w
  <2>7. ParseHost(w) = Named("Subdomain", n)
    BY <2>4, <2>5, <2>6, Zenon DEF ParseHost
  <2> QED
    BY <1>6, <2>2, <2>4, <2>7, Zenon DEF Named, w
<1> QED
  BY <1>2, <1>3, <1>4, <1>5, <1>6, Zenon DEF HostRead


\* A rule that does not read differently is the same after it was saved and loaded.
LEMMA RuleReloaded ==
    ASSUME NEW r, IsRule(r), Parse(r.target) # Invalid, ~ReadsDifferently(ParseRule(r))
    PROVE  Reloaded(ParseRule(r)) = ParseRule(r)
<1> DEFINE p == Parse(r.target)
           q == ParseRule(r)
<1>1. /\ q.target = p
      /\ q = [target |-> q.target, enforce_pix |-> q.enforce_pix, min |-> q.min, max |-> q.max]
  BY DEF IsRule, ParseRule
<1>2. PatternRead(p) /\ p # Invalid
  BY RuleIsRead, Zenon
<1> HIDE DEF p, q
<1>3. Parse(Display(p)) = p
  <2>1. CASE p.form # "stream"
    BY <2>1, Zenon DEF Parse, Display
  <2>2. CASE p.form = "stream"
    <3> DEFINE h == p.host
    <3>1. /\ p = StreamPattern(p.protocol, h, p.port) /\ HostRead(h) /\ h # Invalid
          /\ p.protocol \in {"*", "tcp", "udp"} /\ p.port \in PortNumbers \cup {Wild}
      <4>1. ~(p = [form |-> "*"]) /\ ~(p = [form |-> "service", id |-> p.id])
        <5>1. ASSUME p = [form |-> "*"] PROVE FALSE
          BY <2>2, <5>1
        <5>2. ASSUME p = [form |-> "service", id |-> p.id] PROVE FALSE
          BY <2>2, <5>2
        <5> QED
          BY <5>1, <5>2
      <4> QED
        BY <1>2, <4>1, Zenon DEF PatternRead
    <3>2. /\ h.kind = "Name" => h.name \notin Ips
          /\ h.kind \in {"Name", "Subdomain"} => Last(h.name).text # NoText
      BY <1>1, <2>2, Zenon DEF ReadsDifferently, q
    <3>3. ParseHost(DisplayHost(h)) = h
      BY <3>1, <3>2, HostReadBack, Zenon
    <3> HIDE DEF h
    <3> DEFINE d == Display(p)
    <3>4. d.form = "stream" /\ d.protocol = p.protocol /\ d.port = p.port /\ d.host = DisplayHost(h)
      <4>1. ASSUME NEW shown PROVE LET w == [p EXCEPT !.host = shown]
                                   IN  w.form = "stream" /\ w.protocol = p.protocol /\ w.port = p.port /\ w.host = shown
        BY <2>2, <3>1 DEF StreamPattern
      <4>2. d = [p EXCEPT !.host = DisplayHost(h)]
        BY <2>2, Zenon DEF Display, h
      <4> QED
        BY <4>1, <4>2, Zenon
    <3> HIDE DEF d
    <3>5. Parse(d) = StreamPattern(p.protocol, h, p.port)
      BY <3>1, <3>3, <3>4, Zenon DEF Parse
    <3> QED
      BY <3>1, <3>5 DEF d
  <2> QED
    BY <2>1, <2>2
<1>4. Reloaded(q) = [q EXCEPT !.target = Parse(Display(q.target))]
  BY <1>1, <1>2, Zenon DEF Reloaded
<1>5. Reloaded(q) = [q EXCEPT !.target = q.target]
  BY <1>1, <1>3, <1>4
<1>6. [q EXCEPT !.target = q.target] = q
  BY <1>1
<1> QED
  BY <1>5, <1>6 DEF q

\* Two spellings of a host are selected by the same patterns.
LEMMA HostMatchesSame ==
    ASSUME NEW h, HostRead(h), NEW a, NEW b, IsHost(a), IsHost(b), SameHost(a, b)
    PROVE  HostMatches(h, a) <=> HostMatches(h, b)
<1>1. CASE a.kind # "Dns"
  <2>1. a = b
    BY <1>1, Zenon DEF SameHost
  <2> QED
    BY <2>1
<1>2. CASE a.kind = "Dns"
  <2> DEFINE x == WithoutRootDot(a.name)
             y == WithoutRootDot(b.name)
  <2>1. b.kind = "Dns" /\ x \in Names /\ y \in Names /\ Lower(x) = Lower(y)
    BY <1>2, SameHostNames, BareIs, Zenon DEF EqIgnoreCase
  <2>2. ~(a.kind = "Ip") /\ ~(b.kind = "Ip")
    BY <1>2, <2>1
  <2>3. ASSUME h = [kind |-> "Any"] PROVE HostMatches(h, a) /\ HostMatches(h, b)
    <3>1. h.kind = "Any"
      BY <2>3
    <3> QED
      BY <3>1, Zenon DEF HostMatches
  <2>4. ASSUME NEW net, h = [kind |-> "Network", net |-> net] PROVE ~HostMatches(h, a) /\ ~HostMatches(h, b)
    <3>1. h.kind = "Network"
      BY <2>4
    <3> QED
      BY <2>2, <3>1, Zenon DEF HostMatches
  <2>5. ASSUME NEW ip, h = [kind |-> "Address", ip |-> ip] PROVE ~HostMatches(h, a) /\ ~HostMatches(h, b)
    <3>1. h.kind = "Address"
      BY <2>5
    <3> QED
      BY <2>2, <3>1, Zenon DEF HostMatches
  <2>6. ASSUME NEW n, h = [kind |-> "Name", name |-> n] PROVE HostMatches(h, a) <=> HostMatches(h, b)
    <3>1. h.kind = "Name" /\ h.name = n
      BY <2>6
    <3>2. \A host : HostMatches(h, host) <=> host.kind = "Dns" /\ EqIgnoreCase(n, WithoutRootDot(host.name))
      BY <3>1, Zenon DEF HostMatches
    <3> QED
      BY <1>2, <2>1, <3>2, Zenon DEF EqIgnoreCase
  <2>7. ASSUME NEW n \in ReadNames, h = [kind |-> "Subdomain", name |-> n] PROVE HostMatches(h, a) <=> HostMatches(h, b)
    <3>1. h.kind = "Subdomain" /\ h.name = n
      BY <2>7
    <3> DEFINE Fits(m) == LET split == Len(m) - Len(n)
                          IN  split >= 1 /\ EqIgnoreCase(SubSeq(m, split + 1, Len(m)), n)
    <3>2. \A host : HostMatches(h, host) <=> host.kind = "Dns" /\ Fits(WithoutRootDot(host.name))
      BY <3>1, Zenon DEF HostMatches
    <3>3. Fits(x) <=> Fits(y)
      <4>1. n \in Names
        BY Zenon DEF ReadNames
      <4> HIDE DEF x, y
      <4>2. x \in Seq(Labels) /\ y \in Seq(Labels) /\ Len(x) \in Nat /\ Len(n) \in Nat /\ Len(n) >= 1
        BY <2>1, <4>1, NameIs
      <4>3. TextsAgree(x, y)
        BY <2>1, <4>2, LowerSame
      <4> DEFINE k == Len(x) - Len(n)
                 s == SubSeq(x, k + 1, Len(x))
                 t == SubSeq(y, k + 1, Len(x))
      <4>4. CASE k >= 1
        <5>1. s \in Seq(Labels) /\ t \in Seq(Labels) /\ TextsAgree(s, t)
          BY <4>2, <4>3, <4>4 DEF TextsAgree
        <5>2. Lower(s) = Lower(t)
          <6> HIDE DEF s, t
          <6> QED
            BY <5>1, LowerSame
        <5>3. Len(y) = Len(x)
          BY <4>3 DEF TextsAgree
        <5> QED
          BY <4>4, <5>2, <5>3, Zenon DEF EqIgnoreCase
      <4>5. CASE ~(k >= 1)
        BY <4>3, <4>5 DEF TextsAgree
      <4> QED
        BY <4>4, <4>5
    <3> HIDE DEF Fits
    <3> QED
      BY <1>2, <2>1, <3>2, <3>3, Zenon
  <2> QED
    BY <2>3, <2>4, <2>5, <2>6, <2>7, Zenon DEF HostRead
<1> QED
  BY <1>1, <1>2

LEMMA MatchesSame ==
    ASSUME NEW p, PatternRead(p), NEW t, NEW u, t.form = "stream", u.form = "stream", t.protocol = u.protocol,
           IsHost(t.host), IsHost(u.host), SameHost(t.host, u.host)
    PROVE  Matches(p, t) <=> Matches(p, u)
<1>1. CASE p = [form |-> "*"]
  <2>1. p.form = "*"
    BY <1>1
  <2> QED
    BY <2>1, Zenon DEF Matches
<1>2. CASE p = [form |-> "service", id |-> p.id]
  <2>1. p.form = "service" /\ t.form # "service" /\ u.form # "service"
    BY <1>2
  <2> QED
    BY <2>1, Zenon DEF Matches
<1>3. CASE p = StreamPattern(p.protocol, p.host, p.port) /\ HostRead(p.host)
  <2>1. p.form = "stream"
    BY <1>3 DEF StreamPattern
  <2>2. t.host.port = u.host.port
    BY Zenon DEF SameHost
  <2>3. HostMatches(p.host, t.host) <=> HostMatches(p.host, u.host)
    BY <1>3, HostMatchesSame, Zenon
  <2>4. \A x : Matches(p, x) <=> /\ x.form = "stream"
                                 /\ p.protocol \in {"*", x.protocol} /\ p.port \in {Wild, x.host.port}
                                 /\ HostMatches(p.host, x.host)
    BY <2>1, Zenon DEF Matches
  <2> QED
    BY <2>2, <2>3, <2>4, Zenon
<1> QED
  BY <1>1, <1>2, <1>3, Zenon DEF PatternRead

\* The terms are those of the first rule that selects the target.
LEMMA TermsSame ==
    ASSUME NEW rules, NEW t, NEW u,
           \A i \in 1..Len(rules) : Matches(rules[i].target, t) <=> Matches(rules[i].target, u)
    PROVE  Terms(rules, t) = Terms(rules, u)
<1> DEFINE Of(x) == {i \in 1..Len(rules) : Matches(rules[i].target, x)}
           At(x) == IF Of(x) # {} THEN Min(Of(x)) ELSE 0
           or(value, default) == IF value = Unset THEN default ELSE value
           By(n) == IF n = 0 THEN NodesOwnTerms
                    ELSE [enforce_pix |-> rules[n].enforce_pix,
                          quota |-> IF rules[n].min = Unset /\ rules[n].max = Unset THEN Unset
                                    ELSE <<or(rules[n].min, 0), or(rules[n].max, MAX_QUOTA)>>]
<1>1. Of(t) = Of(u)
  BY Zenon
<1>2. \A x : Terms(rules, x) = By(At(x))
  BY Zenon DEF Terms, SelectInSeq
<1> QED
  BY <1>1, <1>2, Zenon


ConfigHolds == cfg \in Configs /\ Valid(cfg) /\ target \in Targets

\* The terms a session has once it was admitted.
TermsInv ==
    /\ ConfigHolds
    /\ stage = "asked" => terms = NodesOwnTerms
    /\ stage = "admitted" /\ target.opens => terms = Terms(Rules(cfg.rules), target)

LEMMA RulesAre ==
    ASSUME ConfigHolds
    PROVE  LET rules == Rules(cfg.rules)
           IN  /\ Len(rules) = Len(cfg.rules) /\ DOMAIN rules = 1..Len(rules)
               /\ \A i \in 1..Len(rules) :
                     /\ rules[i] = ParseRule(cfg.rules[i]) /\ IsRule(cfg.rules[i]) /\ Parse(cfg.rules[i].target) # Invalid
                     /\ rules[i].target = Parse(cfg.rules[i].target)
               /\ rules = [i \in DOMAIN rules |-> rules[i]]
<1> DEFINE w == cfg.rules
           rules == Rules(w)
           S == ToSet(w)
<1>1. w \in Seq(S) /\ \A i \in DOMAIN w : IsRule(w[i])
  BY Zenon DEF ConfigHolds, ForwarderAssumption
<1>2. \A i \in DOMAIN w : ParseRule(w[i]).target # Invalid
  BY Zenon DEF ConfigHolds, Valid
<1>3. ASSUME NEW r, IsRule(r) PROVE ParseRule(r).target = Parse(r.target)
  BY <1>3 DEF IsRule, ParseRule
<1> HIDE DEF w, S
<1>4. Len(w) \in Nat /\ DOMAIN w = 1..Len(w)
  BY <1>1
<1>5. rules = [i \in 1..Len(w) |-> ParseRule(w[i])]
  BY <1>4, Zenon DEF Rules
<1> HIDE DEF rules
<1>6. DOMAIN rules = 1..Len(w) /\ Len(rules) = Len(w)
  <2> DEFINE T == {ParseRule(w[i]) : i \in 1..Len(w)}
  <2>1. rules \in [1..Len(w) -> T]
    BY <1>5
  <2> HIDE DEF T
  <2> QED
    BY <1>4, <2>1, FunIsSeq
<1> QED
  BY <1>1, <1>2, <1>3, <1>4, <1>5, <1>6, Zenon DEF rules, w

LEMMA NoRulesOwnTerms == ASSUME ConfigHolds, cfg.rules = <<>>, NEW t PROVE Terms(Rules(cfg.rules), t) = NodesOwnTerms
<1> DEFINE rules == Rules(cfg.rules)
           Of(x) == {i \in 1..Len(rules) : Matches(rules[i].target, x)}
           At(x) == IF Of(x) # {} THEN Min(Of(x)) ELSE 0
<1>1. Len(rules) = 0
  <2>1. Len(rules) = Len(cfg.rules)
    BY RulesAre, Zenon
  <2> HIDE DEF rules
  <2> QED
    BY <2>1
<1>2. Of(t) = {}
  BY <1>1
<1>3. At(t) = 0
  BY <1>2, Zenon
<1>4. SelectInSeq(rules, LAMBDA r : Matches(r.target, t)) = At(t)
  BY Zenon DEF SelectInSeq
<1> QED
  BY <1>3, <1>4, Zenon DEF Terms

LEMMA TermsInit == ForwarderInit => TermsInv
BY DEF ForwarderInit, TermsInv, ConfigHolds

LEMMA TermsStep == ASSUME TermsInv, [ForwarderNext]_forwarderVars PROVE TermsInv'
<1>1. ASSUME UNCHANGED <<cfg, target, terms>>, stage' # "asked" \/ stage' = stage, stage' # "admitted" \/ stage' = stage
      PROVE  TermsInv'
  <2>1. ConfigHolds' /\ (Terms(Rules(cfg.rules), target))' = Terms(Rules(cfg.rules), target) /\ target'.opens = target.opens
    BY <1>1 DEF TermsInv, ConfigHolds
  <2> QED
    BY <1>1, <2>1 DEF TermsInv
<1>2. CASE Admit
  <2>1. UNCHANGED <<cfg, target>> /\ stage = "asked" /\ terms = NodesOwnTerms /\ ConfigHolds
    BY <1>2 DEF Admit, TermsInv
  <2>2. ConfigHolds' /\ (Terms(Rules(cfg.rules), target))' = Terms(Rules(cfg.rules), target) /\ target'.opens = target.opens
    BY <2>1 DEF ConfigHolds
  <2>3. CASE stage' = "refused"
    BY <2>2, <2>3 DEF TermsInv
  <2>4. CASE cfg.rules = <<>> /\ stage' = "admitted" /\ UNCHANGED terms
    <3>1. terms' = Terms(Rules(cfg.rules), target)
      BY <2>1, <2>4, NoRulesOwnTerms, Zenon
    <3> QED
      BY <2>2, <2>4, <3>1 DEF TermsInv
  <2>5. CASE stage' = "admitted" /\ terms' = Terms(Rules(cfg.rules), Unsealed(target))
    <3>1. target.opens => Unsealed(target) = target
      BY Zenon DEF Unsealed
    <3>2. target.opens => terms' = Terms(Rules(cfg.rules), target)
      BY <2>5, <3>1, Zenon
    <3> QED
      BY <2>2, <2>5, <3>2 DEF TermsInv
  <2> QED
    BY <1>2, <2>3, <2>4, <2>5 DEF Admit
<1>3. CASE ResolveTarget
  BY <1>1, <1>3 DEF ResolveTarget, requestVars, Fails
<1>4. CASE CheckList
  BY <1>1, <1>4 DEF CheckList, requestVars
<1>5. CASE \E h \in pending : LookedUp(h)
  BY <1>1, <1>5 DEF LookedUp, requestVars
<1>6. CASE Decide
  BY <1>1, <1>6 DEF Decide, requestVars
<1>7. CASE ConnectionSucceeds \/ ConnectionFails
  BY <1>1, <1>7 DEF ConnectionSucceeds, ConnectionFails, requestVars
<1>8. CASE Service
  BY <1>1, <1>8 DEF Service, Fails, requestVars
<1>9. CASE LoopbackStep \/ LoopbackError
  BY <1>1, <1>9 DEF LoopbackStep, LoopbackError, Arrives, Reads, ReadsEnd, ReadFails, Writes, WriteFails, WriteIsRefused,
     WriterEnds, LoopbackEnds, Looping, requestVars
<1>10. CASE \E name \in Hosts : DnsChanges(name)
  BY <1>1, <1>10 DEF DnsChanges
<1>11. CASE UNCHANGED forwarderVars
  BY <1>1, <1>11 DEF forwarderVars
<1> QED
  BY <1>2, <1>3, <1>4, <1>5, <1>6, <1>7, <1>8, <1>9, <1>10, <1>11 DEF ForwarderNext, SessionStep

LEMMA SpellingsAgree == TermsInv => TermsIgnoreSpelling
<1> SUFFICES ASSUME TermsInv, stage = "admitted", target.opens PROVE TermsIgnoreSpelling
  BY Zenon DEF TermsIgnoreSpelling
<1> DEFINE rules == Rules(cfg.rules)
<1>1. ConfigHolds /\ terms = Terms(rules, target)
  BY DEF TermsInv
<1>2. /\ DOMAIN rules = 1..Len(rules) /\ rules = [i \in DOMAIN rules |-> rules[i]]
      /\ \A i \in 1..Len(rules) :
            /\ rules[i] = ParseRule(cfg.rules[i]) /\ IsRule(cfg.rules[i]) /\ Parse(cfg.rules[i].target) # Invalid
            /\ rules[i].target = Parse(cfg.rules[i].target)
  BY <1>1, RulesAre, Zenon
<1>3. \A i \in 1..Len(rules) : PatternRead(rules[i].target)
  BY <1>2, RuleIsRead, Zenon
<1> HIDE DEF rules
<1>4. ASSUME NEW t \in Targets, t = target \/ (t.form = "stream" /\ target.form = "stream"
                                    /\ t.protocol = target.protocol /\ SameHost(t.host, target.host))
      PROVE  Terms(rules, t) = terms
  <2>1. CASE t = target
    BY <1>1, <2>1, Zenon
  <2>2. CASE t.form = "stream" /\ target.form = "stream" /\ t.protocol = target.protocol /\ SameHost(t.host, target.host)
    <3>1. target \in Targets
      BY <1>1, Zenon DEF ConfigHolds
    <3>2. t.form # "service" /\ target.form # "service"
      BY <2>2
    <3>3. IsHost(t.host) /\ IsHost(target.host)
      BY <3>1, <3>2, Zenon DEF ForwarderAssumption
    <3>4. \A i \in 1..Len(rules) : Matches(rules[i].target, t) <=> Matches(rules[i].target, target)
      BY <1>3, <2>2, <3>3, MatchesSame, Zenon
    <3> QED
      BY <1>1, <3>4, TermsSame, Zenon
  <2> QED
    BY <1>4, <2>1, <2>2
<1>5. ASSUME \A i \in DOMAIN rules : ~ReadsDifferently(rules[i])
      PROVE  Terms([i \in DOMAIN rules |-> Reloaded(rules[i])], target) = terms
  <2>1. \A i \in DOMAIN rules : Reloaded(rules[i]) = rules[i]
    BY <1>2, <1>5, RuleReloaded, Zenon
  <2>2. [i \in DOMAIN rules |-> Reloaded(rules[i])] = rules
    BY <1>2, <2>1, Zenon
  <2> QED
    BY <1>1, <2>2, Zenon
<1> QED
  BY <1>4, <1>5, Zenon DEF TermsIgnoreSpelling, rules

\* A session connects only to addresses that the allow list covers when the list is
\* used, and is denied only because of one it does not cover; and the terms it is
\* admitted on are those of every spelling of its target, and of the rules after
\* they were saved and loaded.
THEOREM SessionsFollowTheRulesCorrect == Spec => []SessionsFollowTheRules
<1> DEFINE Inv == part = "sessions" => AddressInv /\ TermsInv
<1>1. Init => Inv
  BY AddressInit, TermsInit DEF Init
<1>2. Inv /\ [Next]_vars => Inv'
  <2> SUFFICES ASSUME Inv, [Next]_vars, part' = "sessions" PROVE (AddressInv /\ TermsInv)'
    BY Zenon
  <2>1. part = "sessions" /\ [ForwarderNext]_forwarderVars
    BY DEF Next, Explore, vars
  <2> QED
    BY <2>1, AddressStep, TermsStep
<1>3. Inv => SessionsFollowTheRules
  BY SpellingsAgree DEF SessionsFollowTheRules, AddressInv
<1> QED
  BY <1>1, <1>2, <1>3, PTL DEF Spec

-----------------------------------------------------------------------------
(* The path search. *)

\* A set of numbers that has 0, and with each number the next, has all.
LEMMA CountingUp ==
    ASSUME NEW T, 0 \in T, \A n \in Nat : n \in T => n + 1 \in T
    PROVE  \A n \in Nat : n \in T
<1> SUFFICES ASSUME NEW n \in Nat, n \notin T PROVE FALSE
  OBVIOUS
<1> DEFINE U == {m \in Nat : m \notin T}
<1>1. PICK x \in U : \A y \in U : x <= y
  <2>1. U \in SUBSET Nat /\ U # {}
    OBVIOUS
  <2> HIDE DEF U
  <2> QED
    BY <2>1, LeastExists
<1>2. x \in Nat /\ x - 1 \in Nat /\ ~(x <= x - 1) /\ (x - 1) + 1 = x
  OBVIOUS
<1>3. x - 1 \in T
  BY <1>1, <1>2
<1> QED
  BY <1>2, <1>3

LEMMA SumExists ==
    ASSUME NEW n \in Nat, NEW w, \A i \in 1..n : w[i] \in Nat
    PROVE  \E f \in [0..n -> Nat] : f[0] = 0 /\ \A i \in 1..n : f[i] = f[i - 1] + w[i]
<1> DEFINE Sums(m) == {f \in [0..m -> Nat] : f[0] = 0 /\ \A i \in 1..m : f[i] = f[i - 1] + w[i]}
           T == {m \in Nat : m <= n => Sums(m) # {}}
<1>1. 0 \in T
  <2> DEFINE z == [i \in 0..0 |-> 0]
  <2>1. z \in [0..0 -> Nat] /\ z[0] = 0
    OBVIOUS
  <2>2. ASSUME NEW i \in 1..0 PROVE FALSE
    <3>1. i \in Int /\ 1 <= i /\ i <= 0
      OBVIOUS
    <3> QED
      BY <3>1
  <2> HIDE DEF z
  <2>3. z \in Sums(0)
    BY <2>1, <2>2
  <2> QED
    BY <2>3
<1>2. ASSUME NEW m \in Nat, m \in T PROVE m + 1 \in T
  <2> HIDE DEF Sums
  <2> SUFFICES ASSUME m + 1 <= n PROVE Sums(m + 1) # {}
    OBVIOUS
  <2>1. PICK f \in Sums(m) : TRUE
    BY <1>2
  <2> USE DEF Sums
  <2> DEFINE g == [i \in 0..(m + 1) |-> IF i <= m THEN f[i] ELSE f[m] + w[m + 1]]
  <2>2. f \in [0..m -> Nat] /\ f[0] = 0 /\ (\A i \in 1..m : f[i] = f[i - 1] + w[i]) /\ w[m + 1] \in Nat
    BY <2>1
  <2>3. g \in [0..(m + 1) -> Nat]
    BY <2>2
  <2>4. g[0] = 0
    BY <2>2
  <2>5. ASSUME NEW i \in 1..(m + 1) PROVE g[i] = g[i - 1] + w[i]
    <3>1. CASE i <= m
      <4>1. i \in 1..m /\ g[i] = f[i] /\ g[i - 1] = f[i - 1]
        BY <3>1
      <4> HIDE DEF g
      <4> QED
        BY <2>2, <4>1
    <3>2. CASE i = m + 1
      <4>1. g[i] = f[m] + w[m + 1] /\ g[i - 1] = f[m]
        BY <3>2
      <4> HIDE DEF g
      <4> QED
        BY <3>2, <4>1
    <3> QED
      BY <3>1, <3>2
  <2> HIDE DEF g
  <2> QED
    BY <2>3, <2>4, <2>5
<1> HIDE DEF T
<1>3. n \in T
  BY <1>1, <1>2, CountingUp
<1>4. Sums(n) # {}
  <2> HIDE DEF Sums
  <2> QED
    BY <1>3 DEF T
<1> QED
  BY <1>4

LEMMA SumGrows ==
    ASSUME NEW n \in Nat, NEW f \in [0..n -> Nat], \A i \in 1..n : f[i - 1] <= f[i], NEW d \in 0..n
    PROVE  f[d] <= f[n]
<1> DEFINE T == {m \in Nat : d + m <= n => f[d] <= f[d + m]}
<1>1. 0 \in T
  OBVIOUS
<1>2. ASSUME NEW m \in Nat, m \in T PROVE m + 1 \in T
  <2> SUFFICES ASSUME d + (m + 1) <= n PROVE f[d] <= f[d + (m + 1)]
    OBVIOUS
  <2>1. f[d] <= f[d + m] /\ d + m \in 0..n /\ d + (m + 1) \in 1..n /\ d + (m + 1) - 1 = d + m
    BY <1>2
  <2>2. f[d + m] <= f[d + (m + 1)]
    BY <2>1
  <2> QED
    BY <2>1, <2>2
<1> HIDE DEF T
<1>3. \A m \in Nat : m \in T
  BY <1>1, <1>2, CountingUp
<1>4. n - d \in Nat /\ d + (n - d) = n
  OBVIOUS
<1>5. n - d \in T
  BY <1>3, <1>4
<1> QED
  BY <1>4, <1>5 DEF T

\* What a path has cost after each edge.
LEMMA SpentIs ==
    ASSUME length \in Nat, NEW p, \A i \in 1..length : cost[<<p[i], p[i + 1]>>] \in Nat
    PROVE  /\ Spent(p) \in [0..length -> Nat] /\ Spent(p)[0] = 0
           /\ \A i \in 1..length : Spent(p)[i] = Spent(p)[i - 1] + cost[<<p[i], p[i + 1]>>]
<1> DEFINE w == [i \in 1..length |-> cost[<<p[i], p[i + 1]>>]]
           Step(f) == [i \in 0..length |-> IF i = 0 THEN 0 ELSE f[i - 1] + cost[<<p[i], p[i + 1]>>]]
           s == Spent(p)
<1>1. \E f : f = Step(f)
  <2>1. PICK f \in [0..length -> Nat] : f[0] = 0 /\ \A i \in 1..length : f[i] = f[i - 1] + w[i]
    <3>1. \A i \in 1..length : w[i] \in Nat
      OBVIOUS
    <3> HIDE DEF w
    <3> QED
      BY <3>1, SumExists
  <2>2. f = Step(f)
    BY <2>1
  <2> QED
    BY <2>2
<1>2. s = Step(s)
  <2>1. s = CHOOSE f : f = Step(f)
    BY DEF Spent
  <2> HIDE DEF s, Step
  <2> QED
    BY <1>1, <2>1
<1> HIDE DEF s
<1>3. s[0] = 0 /\ \A i \in 1..length : s[i] = s[i - 1] + cost[<<p[i], p[i + 1]>>]
  BY <1>2
<1> DEFINE T == {m \in Nat : m <= length => s[m] \in Nat}
<1>4. \A m \in Nat : m \in T
  <2>1. 0 \in T
    BY <1>3
  <2>2. ASSUME NEW m \in Nat, m \in T PROVE m + 1 \in T
    <3> SUFFICES ASSUME m + 1 <= length PROVE s[m + 1] \in Nat
      OBVIOUS
    <3>1. s[m] \in Nat /\ m + 1 \in 1..length /\ (m + 1) - 1 = m
      BY <2>2
    <3>2. s[m + 1] = s[m] + cost[<<p[m + 1], p[(m + 1) + 1]>>] /\ cost[<<p[m + 1], p[(m + 1) + 1]>>] \in Nat
      BY <1>3, <3>1
    <3> QED
      BY <3>1, <3>2
  <2> HIDE DEF T
  <2> QED
    BY <2>1, <2>2, CountingUp
<1>5. s \in [0..length -> Nat]
  <2>1. s = [i \in 0..length |-> s[i]]
    BY <1>2
  <2>2. \A i \in 0..length : s[i] \in Nat
    BY <1>4
  <2> QED
    BY <2>1, <2>2
<1> QED
  BY <1>3, <1>5 DEF s

\* The search between two steps: it is on a simple path, each frame holds edges
\* from its node that were not tried, and what is left is what the path leaves.
PathNodes   == {Source} \cup {e[2] : e \in DOMAIN cost}
SearchPaths == SimplePaths(DOMAIN cost, Source, targets, length)

SearchTypes ==
    /\ length \in Nat \ {0}
    /\ \A e \in DOMAIN cost : e = <<e[1], e[2]>> /\ cost[e] \in Nat

SearchShape ==
    /\ visited \in Seq(PathNodes) /\ stack \in Seq(SUBSET PathNodes) /\ left \in Seq(Int)
    /\ Len(stack) = Len(visited) /\ Len(left) = Len(visited) /\ Len(visited) <= length

OnSimplePath ==
    /\ Len(visited) # 0 => visited[1] = Source
    /\ \A j \in 1..(Len(visited) - 1) : <<visited[j], visited[j + 1]>> \in DOMAIN cost
    /\ \A i, j \in 1..Len(visited) : i # j => visited[i] # visited[j]

FramesAreOpen ==
    /\ \A j \in 1..Len(visited) : stack[j] \subseteq Successors(DOMAIN cost, visited[j])
    /\ \A j \in 1..(Len(visited) - 1) : visited[j + 1] \notin stack[j]

\* A path that begins as the one being explored.
Agrees(p, j) == \A i \in 1..j : p[i] = visited[i]

LeftIsExact ==
    \A p \in SearchPaths : \A j \in 1..Len(visited) : Agrees(p, j) => left[j] = Budget - Spent(p)[j - 1]

\* A path is still to come if it leaves the explored one by an edge not tried.
Pending(p) == \E j \in 1..Len(visited) : Agrees(p, j) /\ p[j + 1] \in stack[j]

YieldedIsRest == yielded = {p \in Wanted : ~Pending(p)}
EachYieldedOnce == IsFiniteSet(yielded) /\ returns = Cardinality(yielded)

PlaceInv == SearchTypes /\ SearchShape /\ OnSimplePath /\ FramesAreOpen /\ LeftIsExact
SearchInv == PlaceInv /\ YieldedIsRest /\ EachYieldedOnce

\* What a path of the wanted length is.
LEMMA SearchPathIs ==
    ASSUME SearchTypes, NEW p
    PROVE  p \in SearchPaths <=>
             /\ p \in [1..(length + 1) -> PathNodes]
             /\ p[1] = Source /\ p[length + 1] \in targets
             /\ \A i \in 1..length : <<p[i], p[i + 1]>> \in DOMAIN cost
             /\ \A i, j \in 1..(length + 1) : i # j => p[i] # p[j]
BY DEF SearchPaths, SimplePaths, PathNodes

LEMMA SpentAlong ==
    ASSUME SearchTypes, NEW p \in SearchPaths
    PROVE  /\ Spent(p) \in [0..length -> Nat] /\ Spent(p)[0] = 0
           /\ \A i \in 1..length : Spent(p)[i] = Spent(p)[i - 1] + cost[<<p[i], p[i + 1]>>]
           /\ \A i \in 0..length : Spent(p)[i] <= Spent(p)[length]
<1>1. length \in Nat /\ \A i \in 1..length : cost[<<p[i], p[i + 1]>>] \in Nat
  <2>1. \A i \in 1..length : <<p[i], p[i + 1]>> \in DOMAIN cost
    BY SearchPathIs
  <2> QED
    BY <2>1 DEF SearchTypes
<1> DEFINE s == Spent(p)
<1>2. /\ s \in [0..length -> Nat] /\ s[0] = 0
      /\ \A i \in 1..length : s[i] = s[i - 1] + cost[<<p[i], p[i + 1]>>]
  BY <1>1, SpentIs
<1> HIDE DEF s
<1>3. ASSUME NEW i \in 1..length PROVE s[i - 1] <= s[i]
  <2> DEFINE c == cost[<<p[i], p[i + 1]>>]
  <2>1. c \in Nat /\ s[i - 1] \in Nat /\ s[i] = s[i - 1] + c
    BY <1>1, <1>2
  <2> HIDE DEF c
  <2> QED
    BY <2>1
<1>4. \A i \in 0..length : s[i] <= s[length]
  BY <1>1, <1>2, <1>3, SumGrows
<1> QED
  BY <1>2, <1>4 DEF s

\* An edge that is not tried again: what the search knows of it.
LEMMA EdgeTried ==
    ASSUME PlaceInv, stack # <<>>, NEW child \in Last(stack)
    PROVE  /\ length \in Nat \ {0} /\ Len(visited) \in Nat \ {0} /\ Len(visited) \in 1..length
           /\ Len(visited) \in 1..Len(visited) /\ Last(stack) = stack[Len(visited)] /\ child \in stack[Len(visited)]
           /\ Last(visited) = visited[Len(visited)] /\ Last(left) = left[Len(visited)]
           /\ <<visited[Len(visited)], child>> \in DOMAIN cost /\ child \in PathNodes
           /\ ToSet(visited) = {visited[i] : i \in 1..Len(visited)}
<1>1. /\ length \in Nat \ {0} /\ Len(visited) \in Nat \ {0} /\ Len(visited) \in 1..length
      /\ Len(visited) \in 1..Len(visited)
  BY DEF PlaceInv, SearchShape, SearchTypes
<1>2. Last(stack) = stack[Len(visited)] /\ Last(visited) = visited[Len(visited)] /\ Last(left) = left[Len(visited)]
  BY DEF Last, PlaceInv, SearchShape
<1>3. child \in Successors(DOMAIN cost, visited[Len(visited)]) /\ child \in PathNodes
  <2>1. stack[Len(visited)] \subseteq Successors(DOMAIN cost, visited[Len(visited)])
    BY <1>1 DEF PlaceInv, FramesAreOpen
  <2>2. stack \in Seq(SUBSET PathNodes) /\ Len(visited) \in 1..Len(stack)
    BY <1>1 DEF PlaceInv, SearchShape
  <2>3. stack[Len(visited)] \in SUBSET PathNodes
    BY <2>2
  <2> QED
    BY <1>2, <2>1, <2>3
<1>4. <<visited[Len(visited)], child>> \in DOMAIN cost
  BY <1>3 DEF Successors, PlaceInv, SearchTypes
<1>5. ToSet(visited) = {visited[i] : i \in 1..Len(visited)}
  <2>1. DOMAIN visited = 1..Len(visited)
    BY DEF PlaceInv, SearchShape
  <2> QED
    BY <2>1 DEF ToSet
<1> QED
  BY <1>1, <1>2, <1>3, <1>4, <1>5

\* The paths that are lost when an edge is taken off its frame, and those that are not.
Through(p, child) == Agrees(p, Len(visited)) /\ p[Len(visited) + 1] = child
PendingElse(p, child) ==
    \E j \in 1..Len(visited) :
        Agrees(p, j) /\ p[j + 1] \in stack[j] /\ ~(j = Len(visited) /\ p[j + 1] = child)

LEMMA PendingSplits ==
    ASSUME PlaceInv, stack # <<>>, NEW child \in Last(stack), NEW p
    PROVE  /\ Pending(p) <=> PendingElse(p, child) \/ Through(p, child)
           /\ ~(PendingElse(p, child) /\ Through(p, child))
<1>1. Len(visited) \in Nat \ {0} /\ Len(visited) \in 1..Len(visited) /\ child \in stack[Len(visited)]
  BY EdgeTried
<1>2. Pending(p) => PendingElse(p, child) \/ Through(p, child)
  BY DEF Pending, PendingElse, Through
<1>3. PendingElse(p, child) => Pending(p)
  BY DEF Pending, PendingElse
<1>4. Through(p, child) => Pending(p)
  BY <1>1 DEF Pending, Through
<1>5. ASSUME PendingElse(p, child), Through(p, child) PROVE FALSE
  <2>1. PICK j \in 1..Len(visited) : p[j + 1] \in stack[j] /\ ~(j = Len(visited) /\ p[j + 1] = child)
    BY <1>5 DEF PendingElse
  <2>2. CASE j = Len(visited)
    BY <1>5, <2>1, <2>2 DEF Through
  <2>3. CASE j # Len(visited)
    <3>1. j \in 1..(Len(visited) - 1) /\ j + 1 \in 1..Len(visited)
      BY <1>1, <2>3
    <3>2. p[j + 1] = visited[j + 1]
      BY <1>5, <3>1 DEF Through, Agrees
    <3>3. visited[j + 1] \notin stack[j]
      BY <3>1 DEF PlaceInv, FramesAreOpen
    <3> QED
      BY <2>1, <3>2, <3>3
  <2> QED
    BY <2>2, <2>3
<1> QED
  BY <1>2, <1>3, <1>4, <1>5

LEMMA WantedIs == \A p : p \in Wanted <=> p \in SearchPaths /\ Spent(p)[length] <= Budget
BY DEF Wanted, SearchPaths

\* What is left after an edge is what a path through it has left there.
LEMMA LeftThrough ==
    ASSUME PlaceInv, stack # <<>>, NEW child \in Last(stack), NEW p \in SearchPaths, Through(p, child)
    PROVE  /\ Last(left) - cost[<<Last(visited), child>>] = Budget - Spent(p)[Len(visited)]
           /\ Spent(p)[Len(visited)] \in Nat
<1> DEFINE d == Len(visited)
<1>1. d \in 1..length /\ Last(left) = left[d] /\ Last(visited) = visited[d] /\ length \in Nat /\ d \in Nat
  BY EdgeTried
<1>2. p[d] = visited[d] /\ p[d + 1] = child /\ Agrees(p, d)
  BY <1>1 DEF Through, Agrees
<1>3. left[d] = Budget - Spent(p)[d - 1]
  BY <1>1, <1>2 DEF PlaceInv, LeftIsExact
<1>4. /\ Spent(p)[d] = Spent(p)[d - 1] + cost[<<visited[d], child>>]
      /\ Spent(p)[d] \in Nat /\ Spent(p)[d - 1] \in Nat
  <2>1. /\ Spent(p) \in [0..length -> Nat]
        /\ \A i \in 1..length : Spent(p)[i] = Spent(p)[i - 1] + cost[<<p[i], p[i + 1]>>]
    BY SpentAlong DEF PlaceInv
  <2>2. d \in 0..length /\ d - 1 \in 0..length
    BY <1>1
  <2> HIDE DEF d
  <2> QED
    BY <1>1, <1>2, <2>1, <2>2
<1>5. cost[<<visited[d], child>>] \in Nat
  BY <1>1, EdgeTried DEF PlaceInv, SearchTypes
<1> HIDE DEF d
<1>6. Last(left) - cost[<<Last(visited), child>>] = Budget - Spent(p)[d]
  BY <1>1, <1>3, <1>4, <1>5, PathSearchAssumption
<1> QED
  BY <1>4, <1>6 DEF d

\* An edge back to the explored path, or one too dear, is on no path wanted.
LEMMA SkippedIsUnwanted ==
    ASSUME PlaceInv, stack # <<>>, NEW child \in Last(stack), NEW p \in Wanted, Through(p, child)
    PROVE  child \notin ToSet(visited) /\ ~(Last(left) - cost[<<Last(visited), child>>] < 0)
<1> DEFINE d == Len(visited)
<1>1. d \in 1..length /\ length \in Nat /\ d \in Nat /\ ToSet(visited) = {visited[i] : i \in 1..d}
  BY EdgeTried
<1>2. p \in SearchPaths /\ Spent(p)[length] <= Budget
  BY WantedIs
<1>3. child \notin ToSet(visited)
  <2> SUFFICES ASSUME NEW i \in 1..d, visited[i] = child PROVE FALSE
    BY <1>1
  <2>1. p[i] = p[d + 1]
    BY DEF Through, Agrees
  <2>2. i \in 1..(length + 1) /\ d + 1 \in 1..(length + 1) /\ i # d + 1
    BY <1>1
  <2>3. \A a, b \in 1..(length + 1) : a # b => p[a] # p[b]
    BY <1>2, SearchPathIs DEF PlaceInv
  <2> HIDE DEF d
  <2> QED
    BY <2>1, <2>2, <2>3
<1>4. Spent(p)[d] <= Spent(p)[length] /\ Spent(p)[length] \in Nat
  <2>1. d \in 0..length /\ length \in 0..length
    BY <1>1
  <2> HIDE DEF d
  <2> QED
    BY <1>2, <2>1, SpentAlong DEF PlaceInv
<1>5. /\ Last(left) - cost[<<Last(visited), child>>] = Budget - Spent(p)[d]
      /\ Spent(p)[d] \in Nat
  BY <1>2, LeftThrough
<1> HIDE DEF d
<1>6. Budget \in Int
  BY PathSearchAssumption
<1> QED
  BY <1>2, <1>3, <1>4, <1>5, <1>6

\* A branch is cut where no target is left to end on.
LEMMA CutIsUnwanted ==
    ASSUME PlaceInv, stack # <<>>, NEW child \in Last(stack), NEW p \in Wanted, Through(p, child),
           Len(visited) < length
    PROVE  Expands(child)
<1> DEFINE d == Len(visited)
           t == p[length + 1]
<1>1. d \in 1..length /\ length \in Nat /\ d \in Nat /\ ToSet(visited) = {visited[i] : i \in 1..d}
  BY EdgeTried
<1>2. t \in targets /\ \A a, b \in 1..(length + 1) : a # b => p[a] # p[b]
  BY WantedIs, SearchPathIs DEF PlaceInv
<1>3. length + 1 \in 1..(length + 1) /\ d + 1 \in 1..(length + 1) /\ d + 1 # length + 1
  BY <1>1
<1>4. t # child
  <2>1. p[d + 1] = child
    BY DEF Through
  <2> HIDE DEF d
  <2> QED
    BY <1>2, <1>3, <2>1
<1>5. ASSUME NEW i \in 1..d PROVE t # visited[i]
  <2>1. i \in 1..(length + 1) /\ i # length + 1
    BY <1>1
  <2>2. p[i] = visited[i]
    BY DEF Through, Agrees
  <2> QED
    BY <1>2, <1>3, <2>1, <2>2
<1> QED
  BY <1>1, <1>2, <1>4, <1>5 DEF Expands

\* What ends on a target at the wanted length is wanted, and nothing else begins so.
LEMMA FoundIsWanted ==
    ASSUME PlaceInv, stack # <<>>, NEW child \in Last(stack), child \notin ToSet(visited), Len(visited) = length,
           ~(Last(left) - cost[<<Last(visited), child>>] < 0)
    PROVE  \A p : p \in Wanted /\ Through(p, child) <=> p = Append(visited, child) /\ child \in targets
<1> DEFINE q == Append(visited, child)
<1>1. /\ length \in Nat \ {0} /\ visited \in Seq(PathNodes) /\ child \in PathNodes /\ length \in 1..length
      /\ <<visited[length], child>> \in DOMAIN cost /\ ToSet(visited) = {visited[i] : i \in 1..length}
  BY EdgeTried DEF PlaceInv, SearchShape, SearchTypes
<1>2. q \in Seq(PathNodes) /\ Len(q) = length + 1 /\ q[length + 1] = child /\ \A i \in 1..length : q[i] = visited[i]
  BY <1>1
<1>3. q \in [1..(length + 1) -> PathNodes]
  <2> HIDE DEF q
  <2> QED
    BY <1>1, <1>2
<1> HIDE DEF q
<1>4. Through(q, child)
  BY <1>2 DEF Through, Agrees
<1>5. ASSUME child \in targets PROVE q \in SearchPaths
  <2>1. q[1] = Source /\ q[length + 1] \in targets
    BY <1>1, <1>2, <1>5 DEF PlaceInv, OnSimplePath
  <2>2. ASSUME NEW i \in 1..length PROVE <<q[i], q[i + 1]>> \in DOMAIN cost
    <3>1. CASE i = length
      BY <1>1, <1>2, <3>1
    <3>2. CASE i # length
      <4>1. i \in 1..(length - 1) /\ i + 1 \in 1..length
        BY <1>1, <3>2
      <4>2. <<visited[i], visited[i + 1]>> \in DOMAIN cost
        BY <4>1 DEF PlaceInv, OnSimplePath
      <4> QED
        BY <1>2, <4>1, <4>2
    <3> QED
      BY <3>1, <3>2
  <2>3. ASSUME NEW i \in 1..(length + 1), NEW j \in 1..(length + 1), i # j PROVE q[i] # q[j]
    <3>1. \A a \in 1..length : visited[a] # child
      BY <1>1
    <3>2. \A a, b \in 1..length : a # b => visited[a] # visited[b]
      BY DEF PlaceInv, OnSimplePath
    <3>3. i \in 1..length \/ i = length + 1
      BY <1>1
    <3>4. j \in 1..length \/ j = length + 1
      BY <1>1
    <3> QED
      BY <1>2, <2>3, <3>1, <3>2, <3>3, <3>4
  <2> QED
    BY <1>3, <2>1, <2>2, <2>3, SearchPathIs DEF PlaceInv
<1>6. ASSUME child \in targets PROVE q \in Wanted
  <2>1. /\ Last(left) - cost[<<Last(visited), child>>] = Budget - Spent(q)[length]
        /\ Spent(q)[length] \in Nat
    BY <1>4, <1>5, <1>6, LeftThrough
  <2>2. Spent(q)[length] <= Budget
    BY <2>1, PathSearchAssumption
  <2> QED
    BY <1>5, <1>6, <2>2, WantedIs
<1>7. ASSUME NEW p \in Wanted, Through(p, child) PROVE p = q /\ child \in targets
  <2>1. p \in [1..(length + 1) -> PathNodes] /\ p[length + 1] \in targets
    BY WantedIs, SearchPathIs DEF PlaceInv
  <2>2. p[length + 1] = child /\ \A i \in 1..length : p[i] = visited[i]
    BY <1>7 DEF Through, Agrees
  <2>3. ASSUME NEW i \in 1..(length + 1) PROVE p[i] = q[i]
    <3>1. i \in 1..length \/ i = length + 1
      BY <1>1
    <3> QED
      BY <1>2, <2>2, <3>1
  <2> QED
    BY <1>3, <2>1, <2>2, <2>3
<1> QED
  BY <1>4, <1>6, <1>7 DEF q

LEMMA SameSearch ==
    ASSUME UNCHANGED <<cost, targets, length>>
    PROVE  /\ PathNodes' = PathNodes /\ SearchPaths' = SearchPaths /\ Wanted' = Wanted /\ SearchTypes' = SearchTypes
           /\ \A p : Spent(p)' = Spent(p)
<1>1. \A p : Spent(p)' = Spent(p)
  BY DEF Spent
<1>2. PathNodes' = PathNodes /\ SearchPaths' = SearchPaths /\ SearchTypes' = SearchTypes
  BY DEF PathNodes, SearchPaths, SearchTypes
<1>3. Wanted' = Wanted
  BY <1>1 DEF Wanted
<1> QED
  BY <1>1, <1>2, <1>3

LEMMA SuccessorIs ==
    ASSUME NEW edges, NEW u, NEW v, <<u, v>> \in edges
    PROVE  v \in Successors(edges, u)
<1>1. <<u, v>> \in {e \in edges : e[1] = u} /\ v = <<u, v>>[2]
  OBVIOUS
<1> QED
  BY <1>1 DEF Successors

\* The stack without an edge of its last frame.
Tried(st, x) == [st EXCEPT ![Len(st)] = @ \ {x}]

LEMMA TriedIs ==
    ASSUME NEW T, NEW st \in Seq(SUBSET T), Len(st) # 0, NEW x
    PROVE  /\ Tried(st, x) \in Seq(SUBSET T) /\ Len(Tried(st, x)) = Len(st)
           /\ \A j \in 1..Len(st) : Tried(st, x)[j] = IF j = Len(st) THEN st[j] \ {x} ELSE st[j]
<1> DEFINE less == [st EXCEPT ![Len(st)] = @ \ {x}]
<1>1. st \in [1..Len(st) -> SUBSET T] /\ Len(st) \in Nat /\ Len(st) \in 1..Len(st)
  OBVIOUS
<1>2. less \in [1..Len(st) -> SUBSET T] /\ \A j \in 1..Len(st) : less[j] = IF j = Len(st) THEN st[j] \ {x} ELSE st[j]
  BY <1>1
<1> HIDE DEF less
<1>3. less \in Seq(SUBSET T) /\ Len(less) = Len(st)
  BY <1>1, <1>2, FunIsSeq
<1> QED
  BY <1>2, <1>3 DEF less, Tried

LEMMA Appended ==
    ASSUME NEW T, NEW q \in Seq(T), NEW x \in T
    PROVE  /\ Append(q, x) \in Seq(T) /\ Len(Append(q, x)) = Len(q) + 1 /\ Append(q, x)[Len(q) + 1] = x
           /\ \A j \in 1..Len(q) : Append(q, x)[j] = q[j]
OBVIOUS

LEMMA LeftIs ==
    ASSUME UNCHANGED <<cost, targets, length>>
    PROVE  LeftIsExact' <=> \A p \in SearchPaths : \A j \in 1..Len(visited') :
                                Agrees(p, j)' => left'[j] = Budget - Spent(p)[j - 1]
<1>1. SearchPaths' = SearchPaths /\ \A p : Spent(p)' = Spent(p)
  BY SameSearch
<1>2. LeftIsExact' <=> \A p \in SearchPaths' : \A j \in 1..Len(visited') :
                            Agrees(p, j)' => left'[j] = Budget - Spent(p)'[j - 1]
  BY DEF LeftIsExact
<1> QED
  BY <1>1, <1>2

\* The edge is off its frame, and the search is where it was.
LEMMA StayKeeps ==
    ASSUME PlaceInv, stack # <<>>, NEW child \in Last(stack), UNCHANGED <<cost, targets, length, visited, left>>,
           stack' = [stack EXCEPT ![Len(stack)] = @ \ {child}]
    PROVE  PlaceInv' /\ \A p : Pending(p)' <=> PendingElse(p, child)
<1>1. /\ stack \in Seq(SUBSET PathNodes) /\ Len(stack) = Len(visited) /\ Len(visited) \in 1..Len(visited)
      /\ Len(visited) \in Nat
  BY EdgeTried DEF PlaceInv, SearchShape
<1>2. /\ stack' \in Seq(SUBSET PathNodes) /\ Len(stack') = Len(stack)
      /\ \A j \in 1..Len(visited) : stack'[j] = IF j = Len(visited) THEN stack[j] \ {child} ELSE stack[j]
  <2>1. stack' = Tried(stack, child)
    BY DEF Tried
  <2>2. Len(stack) # 0
    BY <1>1
  <2>3. /\ Tried(stack, child) \in Seq(SUBSET PathNodes) /\ Len(Tried(stack, child)) = Len(stack)
        /\ \A j \in 1..Len(stack) :
                Tried(stack, child)[j] = IF j = Len(stack) THEN stack[j] \ {child} ELSE stack[j]
    BY <1>1, <2>2, TriedIs
  <2> QED
    BY <1>1, <2>1, <2>3
<1>3. SearchTypes' /\ SearchShape'
  BY <1>2, SameSearch DEF PlaceInv, SearchShape
<1>4. OnSimplePath'
  BY DEF PlaceInv, OnSimplePath
<1>5. FramesAreOpen'
  <2>1. \A j \in 1..Len(visited) : stack'[j] \subseteq stack[j]
    <3> SUFFICES ASSUME NEW j \in 1..Len(visited) PROVE stack'[j] \subseteq stack[j]
      OBVIOUS
    <3>1. stack'[j] = stack[j] \/ stack'[j] = stack[j] \ {child}
      BY <1>2
    <3> QED
      BY <3>1
  <2>2. \A j \in 1..(Len(visited) - 1) : j \in 1..Len(visited)
    BY <1>1
  <2> QED
    BY <2>1, <2>2 DEF PlaceInv, FramesAreOpen
<1>6. LeftIsExact'
  BY SameSearch DEF PlaceInv, LeftIsExact, Agrees
<1>7. ASSUME NEW p PROVE Pending(p)' <=> PendingElse(p, child)
  <2>1. ASSUME NEW j \in 1..Len(visited)
        PROVE  p[j + 1] \in stack'[j] <=> p[j + 1] \in stack[j] /\ ~(j = Len(visited) /\ p[j + 1] = child)
    <3>1. CASE j = Len(visited)
      <4>1. stack'[j] = stack[j] \ {child}
        BY <1>2, <3>1
      <4> QED
        BY <3>1, <4>1
    <3>2. CASE j # Len(visited)
      <4>1. stack'[j] = stack[j]
        BY <1>2, <3>2
      <4> QED
        BY <3>2, <4>1
    <3> QED
      BY <3>1, <3>2
  <2>2. Pending(p)' <=> \E j \in 1..Len(visited) : Agrees(p, j) /\ p[j + 1] \in stack'[j]
    BY DEF Pending, Agrees
  <2> QED
    BY <2>1, <2>2 DEF PendingElse
<1> QED
  BY <1>3, <1>4, <1>5, <1>6, <1>7 DEF PlaceInv

\* The search goes one node down: the paths through it stay to come.
LEMMA DownKeeps ==
    ASSUME PlaceInv, stack # <<>>, NEW child \in Last(stack), UNCHANGED <<cost, targets, length>>,
           child \notin ToSet(visited), Len(visited) < length,
           visited' = Append(visited, child),
           left' = Append(left, Last(left) - cost[<<Last(visited), child>>]),
           stack' = Append([stack EXCEPT ![Len(stack)] = @ \ {child}], Successors(DOMAIN cost, child))
    PROVE  PlaceInv' /\ \A p \in SearchPaths : Pending(p)' <=> Pending(p)
<1>0. PICK d : d = Len(visited)
  OBVIOUS
<1> DEFINE new_cost == Last(left) - cost[<<Last(visited), child>>]
           deeper == Successors(DOMAIN cost, child)
           rest == Tried(stack, child)
<1>1. /\ length \in Nat \ {0} /\ d \in Nat \ {0} /\ d \in 1..length /\ d \in 1..d /\ child \in stack[d]
      /\ child \in PathNodes /\ <<visited[d], child>> \in DOMAIN cost /\ Last(left) = left[d] /\ Last(visited) = visited[d]
      /\ ToSet(visited) = {visited[i] : i \in 1..d}
  BY <1>0, EdgeTried
<1>2. /\ visited \in Seq(PathNodes) /\ stack \in Seq(SUBSET PathNodes) /\ left \in Seq(Int)
      /\ Len(stack) = d /\ Len(left) = d
  BY <1>0 DEF PlaceInv, SearchShape
<1>3. new_cost \in Int /\ deeper \in SUBSET PathNodes
  <2>1. left[d] \in Int /\ cost[<<visited[d], child>>] \in Nat
    BY <1>1, <1>2 DEF PlaceInv, SearchTypes
  <2>2. deeper \in SUBSET PathNodes
    BY DEF Successors, PathNodes
  <2> QED
    BY <1>1, <2>1, <2>2
<1>4. /\ rest \in Seq(SUBSET PathNodes) /\ Len(rest) = d
      /\ \A j \in 1..d : rest[j] = IF j = d THEN stack[j] \ {child} ELSE stack[j]
  <2>1. Len(stack) # 0
    BY <1>1, <1>2
  <2>2. /\ Tried(stack, child) \in Seq(SUBSET PathNodes) /\ Len(Tried(stack, child)) = Len(stack)
        /\ \A j \in 1..Len(stack) :
                Tried(stack, child)[j] = IF j = Len(stack) THEN stack[j] \ {child} ELSE stack[j]
    BY <1>2, <2>1, TriedIs
  <2> QED
    BY <1>2, <2>2
<1> HIDE DEF new_cost, deeper, rest
<1>5. /\ visited' \in Seq(PathNodes) /\ Len(visited') = d + 1 /\ visited'[d + 1] = child
      /\ \A j \in 1..d : visited'[j] = visited[j]
  BY <1>1, <1>2, <1>0
<1>6. /\ left' \in Seq(Int) /\ Len(left') = d + 1 /\ left'[d + 1] = new_cost
      /\ \A j \in 1..d : left'[j] = left[j]
  BY <1>1, <1>2, <1>3 DEF new_cost
<1>7. /\ stack' \in Seq(SUBSET PathNodes) /\ Len(stack') = d + 1 /\ stack'[d + 1] = deeper
      /\ \A j \in 1..d : stack'[j] = IF j = d THEN stack[j] \ {child} ELSE stack[j]
  <2>1. stack' = Append(rest, deeper)
    BY DEF rest, deeper, Tried
  <2>2. /\ Append(rest, deeper) \in Seq(SUBSET PathNodes) /\ Len(Append(rest, deeper)) = d + 1
        /\ Append(rest, deeper)[d + 1] = deeper /\ \A j \in 1..d : Append(rest, deeper)[j] = rest[j]
    BY <1>3, <1>4, Appended
  <2> QED
    BY <1>4, <2>1, <2>2
<1>8. /\ \A j \in 1..(d + 1) : j \in 1..d \/ j = d + 1
      /\ \A j \in 1..d : j \in 1..(d + 1)
      /\ 1 \in 1..d /\ d + 1 \in 1..(d + 1)
      /\ \A j \in 1..d : (j \in 1..(d - 1) /\ j + 1 \in 1..d) \/ j = d
  BY <1>1
<1>9. SearchTypes' /\ SearchShape'
  <2>1. d + 1 <= length
    BY <1>1, <1>0
  <2> QED
    BY <1>5, <1>6, <1>7, <2>1, SameSearch DEF PlaceInv, SearchShape
<1>10. OnSimplePath'
  <2>1. visited'[1] = Source
    BY <1>1, <1>5, <1>8, <1>0 DEF PlaceInv, OnSimplePath
  <2>2. \A j \in 1..d : <<visited'[j], visited'[j + 1]>> \in DOMAIN cost
    <3> SUFFICES ASSUME NEW j \in 1..d PROVE <<visited'[j], visited'[j + 1]>> \in DOMAIN cost
      OBVIOUS
    <3>1. CASE j = d
      BY <1>1, <1>5, <3>1
    <3>2. CASE j # d
      <4>1. j \in 1..(d - 1) /\ j + 1 \in 1..d
        BY <1>8, <3>2
      <4>2. <<visited[j], visited[j + 1]>> \in DOMAIN cost
        BY <4>1, <1>0 DEF PlaceInv, OnSimplePath
      <4> QED
        BY <1>5, <4>1, <4>2
    <3> QED
      BY <3>1, <3>2
  <2>3. \A i, j \in 1..(d + 1) : i # j => visited'[i] # visited'[j]
    <3>1. \A i, j \in 1..d : i # j => visited[i] # visited[j]
      BY <1>0 DEF PlaceInv, OnSimplePath
    <3>2. \A i \in 1..d : visited[i] # child
      BY <1>1
    <3> QED
      BY <1>5, <1>8, <3>1, <3>2
  <2>4. Len(visited') - 1 = d
    BY <1>1, <1>5
  <2> QED
    BY <1>5, <2>1, <2>2, <2>3, <2>4 DEF OnSimplePath
<1>11. FramesAreOpen'
  <2>1. \A j \in 1..(d + 1) : stack'[j] \subseteq Successors(DOMAIN cost, visited'[j])
    <3>1. \A j \in 1..d : stack[j] \subseteq Successors(DOMAIN cost, visited[j])
      BY <1>0 DEF PlaceInv, FramesAreOpen
    <3> SUFFICES ASSUME NEW j \in 1..(d + 1) PROVE stack'[j] \subseteq Successors(DOMAIN cost, visited'[j])
      OBVIOUS
    <3>2. CASE j \in 1..d
      BY <1>5, <1>7, <3>1, <3>2
    <3>3. CASE j = d + 1
      BY <1>5, <1>7, <3>3 DEF deeper
    <3> QED
      BY <1>8, <3>2, <3>3
  <2>2. \A j \in 1..d : visited'[j + 1] \notin stack'[j]
    <3> SUFFICES ASSUME NEW j \in 1..d PROVE visited'[j + 1] \notin stack'[j]
      OBVIOUS
    <3>1. CASE j = d
      BY <1>5, <1>7, <3>1
    <3>2. CASE j # d
      <4>1. j \in 1..(d - 1) /\ j + 1 \in 1..d
        BY <1>8, <3>2
      <4>2. visited[j + 1] \notin stack[j]
        BY <4>1, <1>0 DEF PlaceInv, FramesAreOpen
      <4> QED
        BY <1>5, <1>7, <3>2, <4>1, <4>2
    <3> QED
      BY <3>1, <3>2
  <2>3. Len(visited') - 1 = d
    BY <1>1, <1>5
  <2> QED
    BY <1>5, <2>1, <2>2, <2>3 DEF FramesAreOpen
<1>12. ASSUME NEW p PROVE (\A j \in 1..d : Agrees(p, j)' <=> Agrees(p, j)) /\ (Agrees(p, d + 1)' <=> Through(p, child))
  <2>1. ASSUME NEW j \in 1..d PROVE Agrees(p, j)' <=> Agrees(p, j)
    <3>1. \A i \in 1..j : i \in 1..d
      BY <1>1
    <3> QED
      BY <1>5, <3>1 DEF Agrees
  <2>2. Agrees(p, d + 1)' <=> Through(p, child)
    <3>1. Agrees(p, d + 1)' <=> \A i \in 1..(d + 1) : p[i] = visited'[i]
      BY DEF Agrees
    <3>2. Through(p, child) <=> (\A i \in 1..d : p[i] = visited[i]) /\ p[d + 1] = child
      BY <1>0 DEF Through, Agrees
    <3> QED
      BY <1>5, <1>8, <3>1, <3>2
  <2> QED
    BY <2>1, <2>2
<1>13. LeftIsExact'
  <2> SUFFICES ASSUME NEW p \in SearchPaths, NEW j \in 1..(d + 1), Agrees(p, j)'
               PROVE  left'[j] = Budget - Spent(p)[j - 1]
    BY <1>5, LeftIs
  <2>1. CASE j \in 1..d
    BY <1>6, <1>12, <2>1, <1>0 DEF PlaceInv, LeftIsExact
  <2>2. CASE j = d + 1
    <3>0. Agrees(p, d + 1)' /\ (d + 1) - 1 = d
      BY <1>1, <2>2
    <3>1. Through(p, child) /\ (d + 1) - 1 = d
      BY <1>12, <3>0
    <3>2. new_cost = Budget - Spent(p)[d]
      BY <3>1, LeftThrough, <1>0 DEF new_cost
    <3> QED
      BY <1>6, <2>2, <3>1, <3>2
  <2> QED
    BY <1>8, <2>1, <2>2
<1>14. ASSUME NEW p \in SearchPaths PROVE Pending(p)' <=> Pending(p)
  <2>1. Pending(p)' <=> \E j \in 1..(d + 1) : Agrees(p, j)' /\ p[j + 1] \in stack'[j]
    BY <1>5 DEF Pending
  <2>2. (\E j \in 1..d : Agrees(p, j)' /\ p[j + 1] \in stack'[j]) <=> PendingElse(p, child)
    BY <1>7, <1>12, <1>0 DEF PendingElse
  <2>3. (Agrees(p, d + 1)' /\ p[(d + 1) + 1] \in stack'[d + 1]) <=> Through(p, child)
    <3>1. ASSUME Through(p, child) PROVE p[(d + 1) + 1] \in deeper
      <4>1. d + 1 \in 1..length
        BY <1>1, <1>0
      <4>2. <<p[d + 1], p[(d + 1) + 1]>> \in DOMAIN cost
        BY <4>1, SearchPathIs DEF PlaceInv
      <4>3. p[d + 1] = child
        BY <3>1, <1>0 DEF Through
      <4> QED
        BY <4>2, <4>3, SuccessorIs DEF deeper
    <3> QED
      BY <1>7, <1>12, <3>1
  <2>4. Pending(p) <=> PendingElse(p, child) \/ Through(p, child)
    BY PendingSplits
  <2>5. (\E j \in 1..(d + 1) : Agrees(p, j)' /\ p[j + 1] \in stack'[j])
            <=> \/ \E j \in 1..d : Agrees(p, j)' /\ p[j + 1] \in stack'[j]
                \/ Agrees(p, d + 1)' /\ p[(d + 1) + 1] \in stack'[d + 1]
    BY <1>8, Zenon
  <2> QED
    BY <2>1, <2>2, <2>3, <2>4, <2>5
<1> QED
  BY <1>9, <1>10, <1>11, <1>13, <1>14 DEF PlaceInv

\* A frame is done: no path through it was left.
LEMMA BackKeeps ==
    ASSUME PlaceInv, stack # <<>>, Last(stack) = {}, UNCHANGED <<cost, targets, length>>,
           stack' = Front(stack), visited' = Front(visited), left' = Front(left)
    PROVE  PlaceInv' /\ \A p : Pending(p)' <=> Pending(p)
<1> DEFINE d == Len(visited)
<1>1. /\ visited \in Seq(PathNodes) /\ stack \in Seq(SUBSET PathNodes) /\ left \in Seq(Int)
      /\ Len(stack) = d /\ Len(left) = d /\ d \in Nat /\ d # 0 /\ d <= length /\ length \in Nat
  BY DEF PlaceInv, SearchShape, SearchTypes
<1> HIDE DEF d
<1>2. /\ visited' \in Seq(PathNodes) /\ Len(visited') = d - 1 /\ \A j \in 1..(d - 1) : visited'[j] = visited[j]
  BY <1>1 DEF Front, d
<1>3. /\ stack' \in Seq(SUBSET PathNodes) /\ Len(stack') = d - 1 /\ \A j \in 1..(d - 1) : stack'[j] = stack[j]
  BY <1>1 DEF Front
<1>4. /\ left' \in Seq(Int) /\ Len(left') = d - 1 /\ \A j \in 1..(d - 1) : left'[j] = left[j]
  BY <1>1 DEF Front
<1>5. /\ \A j \in 1..(d - 1) : j \in 1..d
      /\ \A j \in 1..((d - 1) - 1) : j \in 1..(d - 1) /\ j + 1 \in 1..(d - 1)
      /\ d - 1 # 0 => 1 \in 1..(d - 1)
      /\ \A j \in 1..d : j \in 1..(d - 1) \/ j = d
      /\ d \in 1..d /\ d - 1 <= length
  BY <1>1
<1>6. SearchTypes' /\ SearchShape'
  BY <1>2, <1>3, <1>4, <1>5, SameSearch DEF PlaceInv, SearchShape
<1>7. OnSimplePath'
  <2>1. /\ visited[1] = Source
        /\ \A j \in 1..(d - 1) : <<visited[j], visited[j + 1]>> \in DOMAIN cost
        /\ \A i, j \in 1..d : i # j => visited[i] # visited[j]
    BY <1>1 DEF PlaceInv, OnSimplePath, d
  <2> QED
    <3>1. Len(visited') # 0 => visited'[1] = Source
      BY <1>2, <1>5, <2>1
    <3>2. \A j \in 1..(Len(visited') - 1) : <<visited'[j], visited'[j + 1]>> \in DOMAIN cost
      <4> SUFFICES ASSUME NEW j \in 1..((d - 1) - 1) PROVE <<visited'[j], visited'[j + 1]>> \in DOMAIN cost
        BY <1>2
      <4>1. j \in 1..(d - 1) /\ j + 1 \in 1..(d - 1)
        BY <1>5
      <4> QED
        BY <1>2, <2>1, <4>1
    <3>3. \A i, j \in 1..Len(visited') : i # j => visited'[i] # visited'[j]
      BY <1>2, <1>5, <2>1
    <3> QED
      BY <3>1, <3>2, <3>3 DEF OnSimplePath
<1>8. FramesAreOpen'
  <2>1. /\ \A j \in 1..d : stack[j] \subseteq Successors(DOMAIN cost, visited[j])
        /\ \A j \in 1..(d - 1) : visited[j + 1] \notin stack[j]
    BY DEF PlaceInv, FramesAreOpen, d
  <2> QED
    BY <1>2, <1>3, <1>5, <2>1 DEF FramesAreOpen
<1>9. ASSUME NEW p, NEW j \in 1..(d - 1) PROVE Agrees(p, j)' <=> Agrees(p, j)
  <2>1. \A i \in 1..j : i \in 1..(d - 1)
    BY <1>1
  <2> QED
    BY <1>2, <2>1 DEF Agrees
<1>10. LeftIsExact'
  <2>1. \A p \in SearchPaths : \A j \in 1..d : Agrees(p, j) => left[j] = Budget - Spent(p)[j - 1]
    BY DEF PlaceInv, LeftIsExact, d
  <2> QED
    BY <1>2, <1>4, <1>5, <1>9, <2>1, LeftIs
<1>11. ASSUME NEW p PROVE Pending(p)' <=> Pending(p)
  <2>1. stack[d] = {}
    BY <1>1 DEF Last
  <2>2. Pending(p) <=> \E j \in 1..d : Agrees(p, j) /\ p[j + 1] \in stack[j]
    BY DEF Pending, d
  <2>3. Pending(p)' <=> \E j \in 1..(d - 1) : Agrees(p, j)' /\ p[j + 1] \in stack'[j]
    BY <1>2 DEF Pending
  <2> QED
    BY <1>3, <1>5, <1>9, <2>1, <2>2, <2>3
<1> QED
  BY <1>6, <1>7, <1>8, <1>10, <1>11 DEF PlaceInv

LEMMA SearchStart == ASSUME SearchInit PROVE SearchInv
<1>1. PICK edges \in SUBSET {e \in Vertices \X Vertices : e[1] # e[2] /\ e[2] # Source} : cost \in [edges -> Costs]
  BY Zenon DEF SearchInit
<1>2. /\ visited = <<Source>> /\ stack = <<Successors(DOMAIN cost, Source)>> /\ left = <<Budget>>
      /\ yielded = {} /\ returns = 0 /\ length \in Nat \ {0} /\ length \in Nat /\ Budget \in Int
  BY PathSearchAssumption DEF SearchInit
<1>3. SearchTypes
  <2>1. ASSUME NEW e \in DOMAIN cost PROVE e = <<e[1], e[2]>> /\ cost[e] \in Nat
    <3>1. e \in edges /\ cost[e] \in Costs
      BY <1>1
    <3>2. e \in Vertices \X Vertices
      BY <3>1
    <3>3. e = <<e[1], e[2]>>
      BY <3>2
    <3> QED
      BY <3>1, <3>3, PathSearchAssumption
  <2> QED
    BY <1>2, <2>1 DEF SearchTypes
<1>4. SearchShape
  <2>1. Source \in PathNodes /\ Successors(DOMAIN cost, Source) \in SUBSET PathNodes
    BY DEF PathNodes, Successors
  <2> QED
    BY <1>2, <2>1 DEF SearchShape
<1>5. OnSimplePath /\ FramesAreOpen
  <2>1. Len(visited) = 1 /\ visited[1] = Source /\ stack[1] = Successors(DOMAIN cost, Source)
    BY <1>2
  <2>2. \A j \in 1..1 : j = 1
    OBVIOUS
  <2>3. ASSUME NEW j \in 1..(1 - 1) PROVE FALSE
    OBVIOUS
  <2> QED
    BY <2>1, <2>2, <2>3 DEF OnSimplePath, FramesAreOpen
<1>6. LeftIsExact
  <2> SUFFICES ASSUME NEW p \in SearchPaths PROVE left[1] = Budget - Spent(p)[1 - 1]
    BY <1>2 DEF LeftIsExact
  <2>1. Spent(p)[0] = 0
    BY <1>3, SpentAlong
  <2> QED
    BY <1>2, <2>1
<1>7. ASSUME NEW p \in Wanted PROVE Pending(p)
  <2>1. p[1] = Source /\ <<p[1], p[2]>> \in DOMAIN cost
    <3>1. 1 \in 1..length /\ 1 + 1 = 2
      BY <1>2
    <3> QED
      BY <1>3, <3>1, WantedIs, SearchPathIs
  <2>2. p[2] \in stack[1] /\ 1 \in 1..Len(visited)
    BY <1>2, <2>1, SuccessorIs
  <2>3. Agrees(p, 1)
    BY <1>2, <2>1 DEF Agrees
  <2> QED
    BY <2>2, <2>3 DEF Pending
<1>8. YieldedIsRest
  BY <1>2, <1>7 DEF YieldedIsRest
<1>9. EachYieldedOnce
  BY <1>2, FS_EmptySet DEF EachYieldedOnce
<1> QED
  BY <1>3, <1>4, <1>5, <1>6, <1>8, <1>9 DEF SearchInv, PlaceInv

\* A step that finds nothing and forgets nothing.
LEMMA NothingYielded ==
    ASSUME SearchInv, UNCHANGED <<cost, targets, length, yielded, returns>>,
           \A p \in Wanted : Pending(p)' <=> Pending(p)
    PROVE  YieldedIsRest' /\ EachYieldedOnce'
<1>1. Wanted' = Wanted
  BY SameSearch
<1>2. YieldedIsRest'
  BY <1>1 DEF SearchInv, YieldedIsRest
<1>3. EachYieldedOnce'
  BY DEF SearchInv, EachYieldedOnce
<1> QED
  BY <1>2, <1>3

LEMMA TryEdgeKeeps == ASSUME SearchInv, TryEdge PROVE SearchInv'
<1>1. stack # <<>> /\ UNCHANGED <<cost, targets, length>>
  BY DEF TryEdge
<1>2. PICK child \in Last(stack) :
        LET rest     == [stack EXCEPT ![Len(stack)] = @ \ {child}]
            new_cost == Last(left) - cost[<<Last(visited), child>>]
            skipped  == child \in ToSet(visited) \/ new_cost < 0
        IN  \/ /\ skipped
               /\ stack' = rest /\ UNCHANGED <<visited, left, yielded, returns>>
            \/ /\ ~skipped
               /\ yielded' = IF Yields(child) THEN yielded \cup {Append(visited, child)} ELSE yielded
               /\ returns' = IF Yields(child) THEN returns + 1 ELSE returns
               /\ \/ /\ Expands(child)
                     /\ visited' = Append(visited, child) /\ left' = Append(left, new_cost)
                     /\ stack' = Append(rest, Successors(DOMAIN cost, child))
                  \/ /\ ~Expands(child)
                     /\ stack' = rest /\ UNCHANGED <<visited, left>>
  BY Zenon DEF TryEdge
<1> DEFINE rest == [stack EXCEPT ![Len(stack)] = @ \ {child}]
           new_cost == Last(left) - cost[<<Last(visited), child>>]
           skipped == child \in ToSet(visited) \/ new_cost < 0
<1>3. PlaceInv /\ length \in Nat /\ Len(visited) \in Nat /\ Len(visited) <= length
  <2>1. PlaceInv
    BY DEF SearchInv
  <2>2. length \in Nat \ {0} /\ Len(visited) \in Nat \ {0} /\ Len(visited) \in 1..length
    BY <1>1, <2>1, EdgeTried
  <2> QED
    BY <2>1, <2>2
<1>4. \A p : Pending(p) <=> PendingElse(p, child) \/ Through(p, child)
  BY <1>1, <1>3, PendingSplits
<1>5. \A p : ~(PendingElse(p, child) /\ Through(p, child))
  BY <1>1, <1>3, PendingSplits
<1>6. \A p \in Wanted : p \in SearchPaths
  BY WantedIs
<1>7. CASE skipped /\ stack' = rest /\ UNCHANGED <<visited, left, yielded, returns>>
  <2>1. PlaceInv' /\ \A p : Pending(p)' <=> PendingElse(p, child)
    BY <1>1, <1>3, <1>7, StayKeeps
  <2>2. \A p \in Wanted : ~Through(p, child)
    BY <1>1, <1>3, <1>7, SkippedIsUnwanted
  <2>3. YieldedIsRest' /\ EachYieldedOnce'
    BY <1>1, <1>4, <1>7, <2>1, <2>2, NothingYielded
  <2> QED
    BY <2>1, <2>3 DEF SearchInv
<1>8. CASE /\ ~skipped /\ Expands(child)
           /\ yielded' = (IF Yields(child) THEN yielded \cup {Append(visited, child)} ELSE yielded)
           /\ returns' = (IF Yields(child) THEN returns + 1 ELSE returns)
           /\ visited' = Append(visited, child) /\ left' = Append(left, new_cost)
           /\ stack' = Append(rest, Successors(DOMAIN cost, child))
  <2>1. Len(visited) < length
    BY <1>8 DEF Expands
  <2>2. ~Yields(child)
    BY <1>3, <2>1 DEF Yields
  <2>3. PlaceInv' /\ \A p \in SearchPaths : Pending(p)' <=> Pending(p)
    BY <1>1, <1>3, <1>8, <2>1, DownKeeps
  <2>4. YieldedIsRest' /\ EachYieldedOnce'
    BY <1>1, <1>6, <1>8, <2>2, <2>3, NothingYielded
  <2> QED
    BY <2>3, <2>4 DEF SearchInv
<1>9. CASE /\ ~skipped /\ ~Expands(child)
           /\ yielded' = (IF Yields(child) THEN yielded \cup {Append(visited, child)} ELSE yielded)
           /\ returns' = (IF Yields(child) THEN returns + 1 ELSE returns)
           /\ stack' = rest /\ UNCHANGED <<visited, left>>
  <2>1. PlaceInv' /\ \A p : Pending(p)' <=> PendingElse(p, child)
    BY <1>1, <1>3, <1>9, StayKeeps
  <2>2. ASSUME Len(visited) < length PROVE YieldedIsRest' /\ EachYieldedOnce'
    <3>1. \A p \in Wanted : ~Through(p, child)
      BY <1>1, <1>3, <1>9, <2>2, CutIsUnwanted
    <3>2. ~Yields(child)
      BY <1>3, <2>2 DEF Yields
    <3> QED
      BY <1>1, <1>4, <1>9, <2>1, <3>1, <3>2, NothingYielded
  <2>3. ASSUME Len(visited) = length PROVE YieldedIsRest' /\ EachYieldedOnce'
    <3> DEFINE q == Append(visited, child)
    <3>1. \A p : p \in Wanted /\ Through(p, child) <=> p = q /\ child \in targets
      BY <1>1, <1>3, <1>9, <2>3, FoundIsWanted
    <3>2. Yields(child) <=> child \in targets
      BY <1>3, <2>3 DEF Yields
    <3> HIDE DEF q
    <3>3. yielded = {p \in Wanted : ~Pending(p)} /\ IsFiniteSet(yielded) /\ returns = Cardinality(yielded)
      BY DEF SearchInv, YieldedIsRest, EachYieldedOnce
    <3>4. CASE child \notin targets
      <4>1. \A p \in Wanted : ~Through(p, child)
        BY <3>1, <3>4
      <4> QED
        BY <1>1, <1>4, <1>9, <2>1, <3>2, <3>4, <4>1, NothingYielded
    <3>5. CASE child \in targets
      <4>1. yielded' = yielded \cup {q} /\ returns' = returns + 1
        BY <1>9, <3>2, <3>5 DEF q
      <4>2. q \in Wanted /\ Through(q, child)
        BY <3>1, <3>5
      <4>3. q \notin yielded
        BY <1>4, <3>3, <4>2
      <4>4. {p \in Wanted : ~PendingElse(p, child)} = yielded \cup {q}
        <5>1. \A p \in Wanted : ~PendingElse(p, child) <=> ~Pending(p) \/ p = q
          BY <1>4, <1>5, <3>1, <4>2
        <5> QED
          BY <3>3, <4>2, <5>1
      <4>5. YieldedIsRest'
        <5>1. Wanted' = Wanted
          BY <1>1, SameSearch
        <5> QED
          BY <2>1, <4>1, <4>4, <5>1 DEF YieldedIsRest
      <4>6. EachYieldedOnce'
        BY <3>3, <4>1, <4>3, FS_AddElement DEF EachYieldedOnce
      <4> QED
        BY <4>5, <4>6
    <3> QED
      BY <3>4, <3>5
  <2>4. YieldedIsRest' /\ EachYieldedOnce'
    BY <1>3, <2>2, <2>3
  <2> QED
    BY <2>1, <2>4 DEF SearchInv
<1> QED
  BY <1>2, <1>7, <1>8, <1>9, Zenon

LEMMA BacktrackKeeps == ASSUME SearchInv, Backtrack PROVE SearchInv'
<1>1. PlaceInv' /\ \A p : Pending(p)' <=> Pending(p)
  BY BackKeeps DEF Backtrack, SearchInv
<1>2. YieldedIsRest' /\ EachYieldedOnce'
  BY <1>1, NothingYielded DEF Backtrack
<1> QED
  BY <1>1, <1>2 DEF SearchInv

\* The iterator over simple paths yields paths that are simple, end on a target, are
\* as long as was asked and stay above the least cost, yields each of them once, and
\* has yielded all of them when it ends: for every graph, every order of the edges
\* and every order in which targets lie on the way to one another.
THEOREM SearchIsExactCorrect == Spec => []SearchIsExact
<1> DEFINE Inv == IF part = "search" THEN SearchInv ELSE NoSearch
<1>1. Init => Inv
  BY SearchStart DEF Init
<1>2. Inv /\ [Next]_vars => Inv'
  <2> SUFFICES ASSUME Inv, [Next]_vars PROVE Inv'
    OBVIOUS
  <2>1. part' = part /\ ((part = "search" /\ SearchNext) \/ UNCHANGED searchVars)
    BY DEF Next, Explore, vars
  <2>2. CASE part = "search" /\ SearchNext
    BY <2>1, <2>2, TryEdgeKeeps, BacktrackKeeps DEF SearchNext
  <2>3. CASE UNCHANGED searchVars
    <3>1. SearchInv' <=> SearchInv
      BY <2>3 DEF searchVars, SearchInv, PlaceInv, SearchTypes, SearchShape, OnSimplePath, FramesAreOpen, LeftIsExact,
                  YieldedIsRest, EachYieldedOnce, Wanted, SearchPaths, Pending, Agrees, Spent, PathNodes
    <3>2. NoSearch' <=> NoSearch
      BY <2>3 DEF searchVars, NoSearch
    <3> QED
      BY <2>1, <3>1, <3>2
  <2> QED
    BY <2>1, <2>2, <2>3
<1>3. SearchInv => SearchIsExact
  <2> SUFFICES ASSUME SearchInv PROVE SearchIsExact
    OBVIOUS
  <2>1. yielded = {p \in Wanted : ~Pending(p)} /\ returns = Cardinality(yielded)
    BY DEF SearchInv, YieldedIsRest, EachYieldedOnce
  <2>2. ASSUME stack = <<>>, NEW p, Pending(p) PROVE FALSE
    <3>1. Len(visited) = 0
      BY <2>2 DEF SearchInv, PlaceInv, SearchShape
    <3>2. PICK j \in 1..Len(visited) : TRUE
      BY <2>2 DEF Pending
    <3> QED
      BY <3>1, <3>2
  <2> QED
    BY <2>1, <2>2 DEF SearchIsExact
<1>4. NoSearch => SearchIsExact
  <2> SUFFICES ASSUME NoSearch PROVE SearchIsExact
    OBVIOUS
  <2>1. Wanted = {}
    BY DEF NoSearch, Wanted, SimplePaths
  <2>2. yielded = {} /\ returns = 0
    BY DEF NoSearch
  <2> QED
    BY <2>1, <2>2, FS_EmptySet DEF SearchIsExact
<1>5. Inv => SearchIsExact
  BY <1>3, <1>4
<1> QED
  BY <1>1, <1>2, <1>5, PTL DEF Spec

-----------------------------------------------------------------------------
(* The loopback service. *)

Scripted == Seq({"data", "surb"})
Readers == {"running", "ended", "failed"}
Writers == {"running", "ended", "refused", "failed"}
LoopType == [script : Scripted, wire : Scripted, forward : Nat, pipe : Nat, surbs : Nat, echoed : Nat,
             reader : Readers, writer : Writers]

\* What has come in so far, of one kind.
Came(l, kind) == {i \in 1..(Len(l.script) - Len(l.wire)) : l.script[i] = kind}

\* What came in is on its way, was echoed or used, and what is still to come is the
\* rest of the script.  A write is refused only when there are fewer SURBs than data,
\* and the reader ends before the writer only when everything has been passed on, or
\* with an error.
Broken(l) == l.writer \in {"failed", "refused"}

Conserved(l) ==
    /\ Len(l.wire) <= Len(l.script)
    /\ \A i \in 1..Len(l.wire) : l.wire[i] = l.script[Len(l.script) - Len(l.wire) + i]
    /\ Cardinality(Came(l, "surb")) = l.surbs + l.echoed
    /\ ~Broken(l) => Cardinality(Came(l, "data")) = l.forward + l.pipe + l.echoed

InOrderly(l) ==
    /\ l.writer = "refused" => l.wire = <<>> /\ Count(l.script, "data") > Count(l.script, "surb")
    /\ ~Broken(l) /\ l.reader = "ended" => l.forward = 0 /\ l.wire = <<>>
    /\ l.writer = "ended" => l.pipe = 0 /\ l.reader # "running"

LoopInv ==
    stage \in {"loopback", "ended"} =>
        /\ loop \in LoopType /\ Conserved(loop) /\ InOrderly(loop)
        /\ stage = "ended" => loop.reader # "running" /\ loop.writer # "running"

LEMMA LoopFields ==
    ASSUME NEW l \in LoopType
    PROVE  /\ l = [script |-> l.script, wire |-> l.wire, forward |-> l.forward, pipe |-> l.pipe, surbs |-> l.surbs,
                   echoed |-> l.echoed, reader |-> l.reader, writer |-> l.writer]
           /\ l.script \in Scripted /\ l.wire \in Scripted
           /\ l.forward \in Nat /\ l.pipe \in Nat /\ l.surbs \in Nat /\ l.echoed \in Nat
           /\ l.reader \in Readers /\ l.writer \in Writers
  BY DEF LoopType

LEMMA LoopTyped ==
    ASSUME NEW s \in Scripted, NEW w \in Scripted, NEW f \in Nat, NEW p \in Nat, NEW b \in Nat, NEW e \in Nat,
           NEW r \in Readers, NEW x \in Writers
    PROVE  [script |-> s, wire |-> w, forward |-> f, pipe |-> p, surbs |-> b, echoed |-> e, reader |-> r,
            writer |-> x] \in LoopType
  BY DEF LoopType

LEMMA ScriptLength == ASSUME NEW s \in Scripted PROVE Len(s) \in Nat /\ DOMAIN s = 1..Len(s)
  BY DEF Scripted

LEMMA UpToFinite == ASSUME NEW n \in Nat PROVE IsFiniteSet(1..n)
<1>1. 1 \in Int /\ n \in Int
  OBVIOUS
<1> QED
  BY <1>1, FS_Interval

LEMMA CameFinite ==
    ASSUME NEW l \in LoopType, Len(l.wire) <= Len(l.script), NEW kind
    PROVE  /\ IsFiniteSet(Came(l, kind)) /\ Cardinality(Came(l, kind)) \in Nat
           /\ l.wire = <<>> => Cardinality(Came(l, kind)) = Count(l.script, kind)
<1> DEFINE n == Len(l.script) - Len(l.wire)
<1>1. n \in Nat /\ l.script \in Scripted /\ Len(l.script) \in Nat /\ DOMAIN l.script = 1..Len(l.script)
  <2>1. l.script \in Scripted /\ l.wire \in Scripted
    BY LoopFields
  <2>2. Len(l.script) \in Nat /\ DOMAIN l.script = 1..Len(l.script) /\ Len(l.wire) \in Nat
    BY <2>1, ScriptLength
  <2> QED
    BY <2>1, <2>2
<1>2. IsFiniteSet(1..n)
  BY <1>1, UpToFinite
<1>3. Came(l, kind) \subseteq 1..n
  BY DEF Came
<1>4. IsFiniteSet(Came(l, kind))
  BY <1>2, <1>3, FS_Subset
<1>5. Cardinality(Came(l, kind)) \in Nat
  BY <1>4, FS_CardinalityType
<1>6. ASSUME l.wire = <<>> PROVE Came(l, kind) = {i \in DOMAIN l.script : l.script[i] = kind}
  <2>1. n = Len(l.script)
    BY <1>1, <1>6
  <2>2. 1..n = DOMAIN l.script
    BY <1>1, <2>1
  <2> QED
    BY <2>2 DEF Came
<1> QED
  BY <1>4, <1>5, <1>6 DEF Count

LEMMA ArrivalCounted ==
    ASSUME stage = "loopback", LoopInv, Arrives
    PROVE  loop' \in LoopType /\ Conserved(loop)' /\ InOrderly(loop)'
<1> DEFINE n == Len(loop.script) - Len(loop.wire)
           x == Head(loop.wire)
<1>1. /\ loop \in LoopType /\ Conserved(loop) /\ InOrderly(loop) /\ loop.wire # <<>>
      /\ loop' = [loop EXCEPT !.wire = Tail(@),
                              !.forward = IF Head(loop.wire) = "data" THEN @ + 1 ELSE @,
                              !.surbs = IF Head(loop.wire) = "surb" THEN @ + 1 ELSE @]
  BY DEF LoopInv, Arrives, Looping
<1>2. /\ loop.wire \in Scripted /\ loop.script \in Scripted /\ loop.reader \in Readers /\ loop.writer \in Writers
      /\ loop.forward \in Nat /\ loop.pipe \in Nat /\ loop.surbs \in Nat /\ loop.echoed \in Nat
  BY <1>1, LoopFields
<1>3. Len(loop.wire) \in Nat \ {0} /\ Len(loop.script) \in Nat /\ Len(loop.wire) <= Len(loop.script) /\ n \in Nat
  <2>1. Len(loop.wire) # 0
    BY <1>1, <1>2 DEF Scripted
  <2>2. Len(loop.wire) <= Len(loop.script)
    BY <1>1 DEF Conserved
  <2> QED
    BY <1>2, <2>1, <2>2, ScriptLength
<1>4. /\ Tail(loop.wire) \in Scripted /\ Len(Tail(loop.wire)) = Len(loop.wire) - 1
      /\ \A i \in 1..(Len(loop.wire) - 1) : Tail(loop.wire)[i] = loop.wire[i + 1]
  BY <1>1, <1>2 DEF Scripted
<1>5. x \in {"data", "surb"} /\ x = loop.script[n + 1]
  <2>1. 1 \in 1..Len(loop.wire)
    BY <1>3
  <2>2. x \in {"data", "surb"} /\ x = loop.wire[1]
    BY <1>1, <1>2 DEF Scripted
  <2>3. \A i \in 1..Len(loop.wire) : loop.wire[i] = loop.script[n + i]
    BY <1>1 DEF Conserved
  <2> QED
    BY <2>1, <2>2, <2>3
<1> DEFINE f == IF x = "data" THEN loop.forward + 1 ELSE loop.forward
           b == IF x = "surb" THEN loop.surbs + 1 ELSE loop.surbs
<1>6. f \in Nat /\ b \in Nat
  BY <1>2
<1>7. loop' = [loop EXCEPT !.wire = Tail(loop.wire), !.forward = f, !.surbs = b]
  BY <1>1
<1>8. /\ loop' \in LoopType /\ loop'.script = loop.script /\ loop'.wire = Tail(loop.wire) /\ loop'.forward = f
      /\ loop'.surbs = b /\ loop'.pipe = loop.pipe /\ loop'.echoed = loop.echoed /\ loop'.reader = loop.reader
      /\ loop'.writer = loop.writer
  <2> DEFINE t == Tail(loop.wire)
  <2>1. loop \in LoopType /\ t \in Scripted
    BY <1>1, <1>4
  <2>2. loop' = [loop EXCEPT !.wire = t, !.forward = f, !.surbs = b]
    BY <1>7
  <2> HIDE DEF f, b, t
  <2>3. /\ loop' \in LoopType /\ loop'.script = loop.script /\ loop'.wire = t /\ loop'.forward = f
        /\ loop'.surbs = b /\ loop'.pipe = loop.pipe /\ loop'.echoed = loop.echoed /\ loop'.reader = loop.reader
        /\ loop'.writer = loop.writer
    BY ONLY <1>6, <2>1, <2>2 DEF LoopType
  <2> QED
    BY <2>3 DEF t
<1>9. Len(loop'.script) - Len(loop'.wire) = n + 1
  <2>1. Len(loop'.script) = Len(loop.script) /\ Len(loop'.wire) = Len(loop.wire) - 1
    BY <1>4, <1>8
  <2> QED
    BY <1>3, <2>1
<1> HIDE DEF n, x
<1>10. ASSUME NEW kind
       PROVE  Cardinality(Came(loop', kind)) = IF x = kind THEN Cardinality(Came(loop, kind)) + 1
                                               ELSE Cardinality(Came(loop, kind))
  <2>1. Came(loop, kind) = {i \in 1..n : loop.script[i] = kind}
    BY DEF Came, n
  <2>2. Came(loop', kind) = {i \in 1..(n + 1) : loop.script[i] = kind}
    BY <1>8, <1>9 DEF Came
  <2>3. \A i \in 1..(n + 1) : i \in 1..n \/ i = n + 1
    BY <1>3
  <2>4. n + 1 \notin 1..n /\ n + 1 \in 1..(n + 1) /\ \A i \in 1..n : i \in 1..(n + 1)
    BY <1>3
  <2>5. CASE x = kind
    <3>1. Came(loop', kind) = Came(loop, kind) \cup {n + 1} /\ n + 1 \notin Came(loop, kind)
      BY <1>5, <2>1, <2>2, <2>3, <2>4, <2>5
    <3>2. IsFiniteSet(Came(loop, kind))
      BY <1>1, <1>3, CameFinite
    <3> QED
      BY <2>5, <3>1, <3>2, FS_AddElement
  <2>6. CASE x # kind
    <3>1. Came(loop', kind) = Came(loop, kind)
      BY <1>5, <2>1, <2>2, <2>3, <2>4, <2>6
    <3> QED
      BY <2>6, <3>1
  <2> QED
    BY <2>5, <2>6
<1>11. Cardinality(Came(loop', "surb")) = loop'.surbs + loop'.echoed
  <2>1. Cardinality(Came(loop, "surb")) = loop.surbs + loop.echoed
    BY <1>1 DEF Conserved
  <2>2. Cardinality(Came(loop', "surb")) = IF x = "surb" THEN Cardinality(Came(loop, "surb")) + 1
                                           ELSE Cardinality(Came(loop, "surb"))
    BY <1>10
  <2>3. Cardinality(Came(loop', "surb")) = b + loop.echoed
    BY <1>2, <2>1, <2>2
  <2> QED
    BY <1>8, <2>3
<1>12. ~Broken(loop') => Cardinality(Came(loop', "data")) = loop'.forward + loop'.pipe + loop'.echoed
  <2>1. ~Broken(loop) => Cardinality(Came(loop, "data")) = loop.forward + loop.pipe + loop.echoed
    BY <1>1 DEF Conserved
  <2>2. Cardinality(Came(loop', "data")) = IF x = "data" THEN Cardinality(Came(loop, "data")) + 1
                                           ELSE Cardinality(Came(loop, "data"))
    BY <1>10
  <2>3. ~Broken(loop) => Cardinality(Came(loop', "data")) = f + loop.pipe + loop.echoed
    BY <1>2, <2>1, <2>2
  <2> QED
    BY <1>8, <2>3 DEF Broken
<1>13. \A i \in 1..Len(loop'.wire) : loop'.wire[i] = loop'.script[Len(loop'.script) - Len(loop'.wire) + i]
  <2> SUFFICES ASSUME NEW i \in 1..(Len(loop.wire) - 1) PROVE Tail(loop.wire)[i] = loop.script[(n + 1) + i]
    BY <1>4, <1>8, <1>9
  <2>1. i + 1 \in 1..Len(loop.wire) /\ n + (i + 1) = (n + 1) + i
    BY <1>3
  <2>2. \A k \in 1..Len(loop.wire) : loop.wire[k] = loop.script[n + k]
    BY <1>1 DEF Conserved, n
  <2>3. loop.wire[i + 1] = loop.script[(n + 1) + i]
    BY <2>1, <2>2
  <2> QED
    BY <1>4, <2>3
<1>14. Conserved(loop)'
  <2>1. Len(loop'.wire) <= Len(loop'.script)
    BY <1>3, <1>4, <1>8
  <2> QED
    BY <1>11, <1>12, <1>13, <2>1 DEF Conserved
<1>15. InOrderly(loop)'
  <2>1. /\ loop.writer # "refused" /\ (Broken(loop) \/ loop.reader # "ended")
        /\ loop.writer = "ended" => loop.pipe = 0 /\ loop.reader # "running"
    BY <1>1 DEF InOrderly
  <2> QED
    BY <1>8, <2>1 DEF InOrderly, Broken
<1> QED
  BY <1>8, <1>14, <1>15

\* The steps behind the session take nothing in.
LEMMA PassedOnCounted ==
    ASSUME stage = "loopback", LoopInv,
           Reads \/ ReadsEnd \/ ReadFails \/ Writes \/ WriteFails \/ WriteIsRefused \/ WriterEnds
    PROVE  loop' \in LoopType /\ Conserved(loop)' /\ InOrderly(loop)'
<1>1. loop \in LoopType /\ Conserved(loop) /\ InOrderly(loop)
  BY DEF LoopInv
<1>2. /\ loop.wire \in Scripted /\ loop.script \in Scripted /\ loop.reader \in Readers /\ loop.writer \in Writers
      /\ loop.forward \in Nat /\ loop.pipe \in Nat /\ loop.surbs \in Nat /\ loop.echoed \in Nat
      /\ loop = [script |-> loop.script, wire |-> loop.wire, forward |-> loop.forward, pipe |-> loop.pipe,
                 surbs |-> loop.surbs, echoed |-> loop.echoed, reader |-> loop.reader, writer |-> loop.writer]
  BY <1>1, LoopFields
<1>3. ASSUME loop'.script = loop.script, loop'.wire = loop.wire PROVE \A kind : Came(loop', kind) = Came(loop, kind)
  BY <1>3 DEF Came
<1>4. /\ Cardinality(Came(loop, "surb")) = loop.surbs + loop.echoed
      /\ ~Broken(loop) => Cardinality(Came(loop, "data")) = loop.forward + loop.pipe + loop.echoed
      /\ Len(loop.wire) <= Len(loop.script)
      /\ \A i \in 1..Len(loop.wire) : loop.wire[i] = loop.script[Len(loop.script) - Len(loop.wire) + i]
  BY <1>1 DEF Conserved
<1>5. CASE Reads
  <2>1. loop.reader = "running" /\ loop.forward > 0
    BY <1>5 DEF Reads
  <2>2. CASE loop.writer = "running"
    <3>1. loop' = [loop EXCEPT !.forward = @ - 1, !.pipe = @ + 1]
      BY <1>5, <2>2 DEF Reads, Looping
    <3>2. /\ loop'.script = loop.script /\ loop'.wire = loop.wire /\ loop'.forward = loop.forward - 1
          /\ loop'.pipe = loop.pipe + 1 /\ loop'.surbs = loop.surbs /\ loop'.echoed = loop.echoed
          /\ loop'.reader = loop.reader /\ loop'.writer = loop.writer /\ loop' \in LoopType
      <4>1. loop' = [script |-> loop.script, wire |-> loop.wire, forward |-> loop.forward - 1, pipe |-> loop.pipe + 1, surbs |-> loop.surbs,
                     echoed |-> loop.echoed, reader |-> loop.reader, writer |-> loop.writer]
        BY <1>2, <3>1
      <4>2. loop.forward - 1 \in Nat /\ loop.pipe + 1 \in Nat
        BY <1>2, <2>1
      <4>3. loop' \in LoopType
        BY <1>2, <4>1, <4>2, LoopTyped
      <4> QED
        BY <4>1, <4>3
    <3>3. Conserved(loop)'
      <4>1. Cardinality(Came(loop', "data")) = loop'.forward + loop'.pipe + loop'.echoed
        BY <1>2, <1>3, <1>4, <2>2, <3>2 DEF Broken
      <4> QED
        BY <1>3, <1>4, <3>2, <4>1 DEF Conserved
    <3>4. InOrderly(loop)'
      BY <1>1, <2>1, <2>2, <3>2 DEF InOrderly, Broken
    <3> QED
      BY <3>2, <3>3, <3>4
  <2>3. CASE loop.writer # "running"
    <3>1. loop' = [loop EXCEPT !.forward = @ - 1, !.reader = "ended"]
      BY <1>5, <2>3 DEF Reads, Looping
    <3>2. /\ loop'.script = loop.script /\ loop'.wire = loop.wire /\ loop'.forward = loop.forward - 1
          /\ loop'.pipe = loop.pipe /\ loop'.surbs = loop.surbs /\ loop'.echoed = loop.echoed
          /\ loop'.reader = "ended" /\ loop'.writer = loop.writer /\ loop' \in LoopType
      <4>1. loop' = [script |-> loop.script, wire |-> loop.wire, forward |-> loop.forward - 1, pipe |-> loop.pipe, surbs |-> loop.surbs,
                     echoed |-> loop.echoed, reader |-> "ended", writer |-> loop.writer]
        BY <1>2, <3>1
      <4>2. loop.forward - 1 \in Nat /\ "ended" \in Readers
        BY <1>2, <2>1 DEF Readers
      <4>3. loop' \in LoopType
        BY <1>2, <4>1, <4>2, LoopTyped
      <4> QED
        BY <4>1, <4>3
    <3>3. Broken(loop) /\ Broken(loop')
      BY <1>1, <1>2, <2>1, <2>3, <3>2 DEF InOrderly, Writers, Broken
    <3>4. Conserved(loop)'
      BY <1>3, <1>4, <3>2, <3>3 DEF Conserved
    <3>5. InOrderly(loop)'
      BY <1>1, <3>2, <3>3 DEF InOrderly, Broken
    <3> QED
      BY <3>2, <3>4, <3>5
  <2> QED
    BY <2>2, <2>3
<1>6. ASSUME NEW r \in {"ended", "failed"}, loop.reader = "running", loop' = [loop EXCEPT !.reader = r],
             r = "ended" => loop.forward = 0 /\ loop.wire = <<>>
      PROVE  loop' \in LoopType /\ Conserved(loop)' /\ InOrderly(loop)'
  <2>1. /\ loop'.script = loop.script /\ loop'.wire = loop.wire /\ loop'.forward = loop.forward
        /\ loop'.pipe = loop.pipe /\ loop'.surbs = loop.surbs /\ loop'.echoed = loop.echoed
        /\ loop'.reader = r /\ loop'.writer = loop.writer /\ loop' \in LoopType
    <3>1. loop' = [script |-> loop.script, wire |-> loop.wire, forward |-> loop.forward, pipe |-> loop.pipe, surbs |-> loop.surbs,
                   echoed |-> loop.echoed, reader |-> r, writer |-> loop.writer]
      BY <1>2, <1>6
    <3>2. r \in Readers
      BY DEF Readers
    <3>3. loop' \in LoopType
      BY <1>2, <3>1, <3>2, LoopTyped
    <3> QED
      BY <3>1, <3>3
  <2>2. Conserved(loop)'
    BY <1>2, <1>3, <1>4, <2>1 DEF Conserved, Broken
  <2>3. InOrderly(loop)'
    BY <1>1, <1>6, <2>1 DEF InOrderly, Broken
  <2> QED
    BY <2>1, <2>2, <2>3
<1>7. CASE Writes
  <2>1. /\ loop.writer = "running" /\ loop.pipe > 0 /\ loop.surbs > 0
        /\ loop' = [loop EXCEPT !.pipe = @ - 1, !.surbs = @ - 1, !.echoed = @ + 1]
    BY <1>7 DEF Writes, Looping
  <2>2. /\ loop'.script = loop.script /\ loop'.wire = loop.wire /\ loop'.forward = loop.forward
        /\ loop'.pipe = loop.pipe - 1 /\ loop'.surbs = loop.surbs - 1 /\ loop'.echoed = loop.echoed + 1
        /\ loop'.reader = loop.reader /\ loop'.writer = loop.writer /\ loop' \in LoopType
    <3> DEFINE p == loop.pipe - 1
               b == loop.surbs - 1
               e == loop.echoed + 1
    <3>1. loop' = [loop EXCEPT !.pipe = p, !.surbs = b, !.echoed = e]
      BY <2>1
    <3>2. p \in Nat /\ b \in Nat /\ e \in Nat
      <4>1. loop.pipe \in Nat /\ loop.surbs \in Nat /\ loop.echoed \in Nat
        BY <1>2
      <4>2. loop.pipe > 0 /\ loop.surbs > 0
        BY <2>1
      <4> QED
        BY ONLY <4>1, <4>2
    <3>3. loop \in LoopType
      BY <1>1
    <3> HIDE DEF p, b, e
    <3>4. /\ loop' \in LoopType /\ loop'.script = loop.script /\ loop'.wire = loop.wire
          /\ loop'.forward = loop.forward /\ loop'.pipe = p /\ loop'.surbs = b /\ loop'.echoed = e
          /\ loop'.reader = loop.reader /\ loop'.writer = loop.writer
      BY ONLY <3>1, <3>2, <3>3 DEF LoopType
    <3> QED
      BY <3>4 DEF p, b, e
  <2>3. Conserved(loop)'
    <3>1. /\ Cardinality(Came(loop', "surb")) = loop'.surbs + loop'.echoed
          /\ Cardinality(Came(loop', "data")) = loop'.forward + loop'.pipe + loop'.echoed
      <4>1. /\ loop.surbs + loop.echoed = (loop.surbs - 1) + (loop.echoed + 1)
            /\ loop.forward + loop.pipe + loop.echoed = loop.forward + (loop.pipe - 1) + (loop.echoed + 1)
        <5>1. loop.forward \in Nat /\ loop.pipe \in Nat /\ loop.surbs \in Nat /\ loop.echoed \in Nat
          BY <1>2
        <5> QED
          BY ONLY <5>1
      <4>2. \A kind : Came(loop', kind) = Came(loop, kind)
        BY <1>3, <2>2
      <4>3. ~Broken(loop)
        BY <2>1 DEF Broken
      <4> QED
        BY <1>4, <2>2, <4>1, <4>2, <4>3
    <3> QED
      BY <1>3, <1>4, <2>2, <3>1 DEF Conserved
  <2>4. InOrderly(loop)'
    BY <1>1, <2>1, <2>2 DEF InOrderly, Broken
  <2> QED
    BY <2>2, <2>3, <2>4
<1>8. ASSUME NEW x \in {"ended", "refused", "failed"}, loop.writer = "running",
             loop' = [loop EXCEPT !.writer = x],
             x = "ended" => loop.pipe = 0 /\ loop.reader # "running",
             x = "refused" => loop.pipe > 0 /\ loop.surbs = 0 /\ loop.wire = <<>>
      PROVE  loop' \in LoopType /\ Conserved(loop)' /\ InOrderly(loop)'
  <2>1. /\ loop'.script = loop.script /\ loop'.wire = loop.wire /\ loop'.forward = loop.forward
        /\ loop'.pipe = loop.pipe /\ loop'.surbs = loop.surbs /\ loop'.echoed = loop.echoed
        /\ loop'.reader = loop.reader /\ loop'.writer = x /\ loop' \in LoopType
    <3>1. loop' = [script |-> loop.script, wire |-> loop.wire, forward |-> loop.forward, pipe |-> loop.pipe, surbs |-> loop.surbs,
                   echoed |-> loop.echoed, reader |-> loop.reader, writer |-> x]
      BY <1>2, <1>8
    <3>2. x \in Writers
      BY DEF Writers
    <3>3. loop' \in LoopType
      BY <1>2, <3>1, <3>2, LoopTyped
    <3> QED
      BY <3>1, <3>3
  <2>2. Cardinality(Came(loop, "data")) = loop.forward + loop.pipe + loop.echoed
    BY <1>4, <1>8 DEF Broken
  <2>3. Conserved(loop)'
    BY <1>3, <1>4, <2>1, <2>2 DEF Conserved
  <2>4. x = "refused" => Count(loop.script, "data") > Count(loop.script, "surb")
    <3> SUFFICES ASSUME x = "refused" PROVE Count(loop.script, "data") > Count(loop.script, "surb")
      OBVIOUS
    <3>1. Cardinality(Came(loop, "data")) > Cardinality(Came(loop, "surb"))
      BY <1>2, <1>4, <1>8, <2>2
    <3> QED
      BY <1>1, <1>4, <1>8, <3>1, CameFinite
  <2>5. InOrderly(loop)'
    BY <1>1, <1>8, <2>1, <2>4 DEF InOrderly, Broken
  <2> QED
    BY <2>1, <2>3, <2>5
<1>9. CASE ReadsEnd \/ ReadFails
  BY <1>6, <1>9 DEF ReadsEnd, ReadFails, Looping
<1>10. CASE WriteFails \/ WriteIsRefused \/ WriterEnds
  BY <1>8, <1>10 DEF WriteFails, WriteIsRefused, WriterEnds, Looping
<1> QED
  BY <1>5, <1>7, <1>9, <1>10

LEMMA LoopStarts ==
    ASSUME NEW script \in Scripts,
           loop' = [Idle EXCEPT !.script = script, !.wire = script, !.reader = "running", !.writer = "running"]
    PROVE  loop' \in LoopType /\ Conserved(loop)' /\ InOrderly(loop)'
<1>1. script \in Scripted /\ Len(script) \in Nat
  <2>1. script \in Scripted
    BY ForwarderAssumption DEF Scripted
  <2> QED
    BY <2>1, ScriptLength
<1>2. /\ loop'.script = script /\ loop'.wire = script /\ loop'.forward = 0 /\ loop'.pipe = 0 /\ loop'.surbs = 0
      /\ loop'.echoed = 0 /\ loop'.reader = "running" /\ loop'.writer = "running" /\ loop' \in LoopType
  <2>1. loop' = [script |-> script, wire |-> script, forward |-> 0, pipe |-> 0, surbs |-> 0, echoed |-> 0,
                 reader |-> "running", writer |-> "running"]
    BY DEF Idle
  <2>2. 0 \in Nat /\ "running" \in Readers /\ "running" \in Writers
    BY DEF Readers, Writers
  <2>3. [script |-> script, wire |-> script, forward |-> 0, pipe |-> 0, surbs |-> 0, echoed |-> 0,
         reader |-> "running", writer |-> "running"] \in LoopType
    BY ONLY <1>1, <2>2, LoopTyped
  <2> QED
    BY ONLY <2>1, <2>3
<1>3. ASSUME NEW kind PROVE Cardinality(Came(loop', kind)) = 0
  <2>1. Len(script) - Len(script) = 0
    BY <1>1
  <2>2. ASSUME NEW i \in 1..0 PROVE FALSE
    OBVIOUS
  <2>3. Came(loop', kind) = {}
    BY <1>2, <2>1, <2>2 DEF Came
  <2> QED
    BY <2>3, FS_EmptySet
<1>4. Conserved(loop)'
  BY <1>1, <1>2, <1>3 DEF Conserved
<1>5. InOrderly(loop)'
  BY <1>2 DEF InOrderly, Broken
<1> QED
  BY <1>2, <1>4, <1>5

LEMMA LoopStep == ASSUME LoopInv, [ForwarderNext]_forwarderVars PROVE LoopInv'
<1>1. CASE UNCHANGED <<stage, loop>>
  BY <1>1 DEF LoopInv, Conserved, InOrderly, Broken, Came, Count
<1>2. CASE /\ stage = "loopback"
           /\ \/ Arrives \/ Reads \/ ReadsEnd \/ ReadFails
              \/ Writes \/ WriteFails \/ WriteIsRefused \/ WriterEnds
  <2>1. loop' \in LoopType /\ Conserved(loop)' /\ InOrderly(loop)'
    BY <1>2, ArrivalCounted, PassedOnCounted
  <2>2. stage' = "loopback"
    BY <1>2 DEF Arrives, Reads, ReadsEnd, ReadFails, Writes, WriteFails, WriteIsRefused, WriterEnds, Looping
  <2> QED
    BY <2>1, <2>2 DEF LoopInv
<1>3. CASE LoopbackEnds
  <2>1. UNCHANGED loop /\ stage = "loopback" /\ loop.reader # "running" /\ loop.writer # "running"
    BY <1>3 DEF LoopbackEnds
  <2> QED
    BY <2>1 DEF LoopInv, Conserved, InOrderly, Broken, Came, Count
<1>4. CASE stage' = "loopback" /\ \E script \in Scripts :
                loop' = [Idle EXCEPT !.script = script, !.wire = script, !.reader = "running", !.writer = "running"]
  BY <1>4, LoopStarts DEF LoopInv
<1>5. CASE stage' \notin {"loopback", "ended"}
  BY <1>5 DEF LoopInv
<1>6. CASE LoopbackStep \/ LoopbackError
  <2>1. stage = "loopback"
    BY <1>6 DEF LoopbackStep, LoopbackError, Arrives, Reads, ReadsEnd, ReadFails, Writes, WriteFails, WriteIsRefused,
       WriterEnds, LoopbackEnds, Looping
  <2> QED
    BY <1>2, <1>3, <1>6, <2>1 DEF LoopbackStep, LoopbackError
<1>7. CASE SessionStep
  <2>1. CASE Service
    <3>1. stage' = "failed" \/ (stage' = "loopback" /\ \E script \in Scripts :
                loop' = [Idle EXCEPT !.script = script, !.wire = script, !.reader = "running", !.writer = "running"])
      BY <2>1 DEF Service, Fails
    <3> QED
      BY <1>4, <1>5, <3>1
  <2>2. CASE ~Service
    <3>1. UNCHANGED <<stage, loop>> \/ stage' \notin {"loopback", "ended"}
      BY <1>7, <2>2 DEF SessionStep, Admit, ResolveTarget, CheckList, Decide, LookedUp, Fails
    <3> QED
      BY <1>1, <1>5, <3>1
  <2> QED
    BY <2>1, <2>2
<1>8. CASE ConnectionSucceeds \/ ConnectionFails
  <2>1. UNCHANGED <<stage, loop>> \/ stage' \notin {"loopback", "ended"}
    BY <1>8 DEF ConnectionSucceeds, ConnectionFails
  <2> QED
    BY <1>1, <1>5, <2>1
<1>9. CASE \E name \in Hosts : DnsChanges(name)
  BY <1>1, <1>9 DEF DnsChanges
<1>10. CASE UNCHANGED forwarderVars
  BY <1>1, <1>10 DEF forwarderVars
<1> QED
  BY <1>6, <1>7, <1>8, <1>9, <1>10 DEF ForwarderNext

LEMMA LoopAlways == Spec => [](part = "sessions" => LoopInv)
<1> DEFINE Inv == part = "sessions" => LoopInv
<1>1. Init => Inv
  BY DEF Init, ForwarderInit, LoopInv
<1>2. Inv /\ [Next]_vars => Inv'
  <2> SUFFICES ASSUME Inv, [Next]_vars, part' = "sessions" PROVE LoopInv'
    BY Zenon
  <2>1. part = "sessions" /\ [ForwarderNext]_forwarderVars
    BY DEF Next, Explore, vars
  <2> QED
    BY <2>1, LoopStep
<1> QED
  BY <1>1, <1>2, PTL DEF Spec

\* Without sessions the loopback service is not there.
LEMMA NoLoopElsewhere == Spec => [](part = "sessions" \/ stage = "asked")
<1>1. Init => (part = "sessions" \/ stage = "asked")
  BY DEF Init, AnySession
<1>2. (part = "sessions" \/ stage = "asked") /\ [Next]_vars => (part = "sessions" \/ stage = "asked")'
  BY DEF Next, Explore, vars, forwarderVars
<1> QED
  BY <1>1, <1>2, PTL DEF Spec

\* When the loopback service ends without a failed write, it has echoed all it read, if
\* it was sent as many SURBs as data: whatever order they came in, however reader and
\* writer took turns, and wherever reading failed; without a failed read, that is all.
THEOREM LoopbackEchoesAllCorrect == Spec => []LoopbackEchoesAll
<1>1. LoopInv => LoopbackEchoesAll
  <2> SUFFICES ASSUME LoopInv, stage = "ended", Count(loop.script, "data") <= Count(loop.script, "surb"),
                      loop.writer # "failed"
               PROVE  loop.pipe = 0 /\ (loop.reader = "ended" => loop.echoed = Count(loop.script, "data"))
    BY DEF LoopbackEchoesAll
  <2>1. loop \in LoopType /\ Conserved(loop) /\ InOrderly(loop) /\ loop.writer # "running"
    BY DEF LoopInv
  <2>2. \A kind : Count(loop.script, kind) \in Nat
    <3> TAKE kind
    <3>1. loop.script \in Scripted
      BY <2>1, LoopFields
    <3>2. IsFiniteSet(1..Len(loop.script)) /\ DOMAIN loop.script = 1..Len(loop.script)
      BY <3>1, ScriptLength, UpToFinite
    <3>3. {i \in DOMAIN loop.script : loop.script[i] = kind} \subseteq 1..Len(loop.script)
      BY <3>2
    <3> QED
      BY <3>2, <3>3, FS_Subset, FS_CardinalityType DEF Count
  <2>3. loop.writer = "ended" /\ ~Broken(loop)
    <3>1. loop.writer # "refused" /\ loop.writer \in Writers
      BY <2>1, <2>2, LoopFields DEF InOrderly
    <3> QED
      BY <2>1, <3>1 DEF Writers, Broken
  <2>4. loop.pipe = 0
    BY <2>1, <2>3 DEF InOrderly
  <2>5. ASSUME loop.reader = "ended" PROVE loop.echoed = Count(loop.script, "data")
    <3>1. loop.forward = 0 /\ loop.wire = <<>>
      BY <2>1, <2>3, <2>5 DEF InOrderly
    <3>2. Cardinality(Came(loop, "data")) = Count(loop.script, "data")
      BY <2>1, <3>1, CameFinite DEF Conserved
    <3>3. Cardinality(Came(loop, "data")) = loop.forward + loop.pipe + loop.echoed /\ loop.echoed \in Nat
      BY <2>1, <2>3, LoopFields DEF Conserved
    <3> QED
      BY <2>4, <3>1, <3>2, <3>3
  <2> QED
    BY <2>4, <2>5
<1>2. stage = "asked" => LoopbackEchoesAll
  BY DEF LoopbackEchoesAll
<1> QED
  BY <1>1, <1>2, LoopAlways, NoLoopElsewhere, PTL

-----------------------------------------------------------------------------
(* Observations of one edge. *)

\* Observed replies that make a ratio of r for what was expected, or nothing at all.
AtRate(r, expected, observed) ==
    /\ r * expected <= Unit * observed /\ (expected = 0 => observed = 0)
    /\ expected > 0 => Unit * observed < (r + 1) * expected

\* What was heard, and that a link has samples exactly if it was probed.
RatiosOf(hd) == {h[2] : h \in {n \in hd : n[1] = "Surb"}}
HeardInv(hd) ==
    /\ IsFiniteSet(RatiosOf(hd))
    /\ \A h \in hd : /\ h = <<h[1], h[2]>> /\ (h[1] # "Surb" => h[2] = Missing)
                     /\ h[1] = "Surb" => h[2] \in (Nat \ {1}) \cup {Missing}
Links == {link \in LinkType : link.answered > 0 => link.latency # Missing}
LinksInv(near, far, hd) ==
    /\ near \in Links /\ far \in Links
    /\ near.samples > 0 <=> <<"Immediate", Missing>> \in hd
    /\ far.samples > 0 <=> <<"Intermediate", Missing>> \in hd

\* Nothing is counted ahead of time, and the peak was last raised, or kept, by the
\* last report that expected something or a later one.
WindowInv(sb, pk, t) ==
    /\ t \in Slices /\ sb \in [Slices -> Nat \X Nat] /\ pk \in [value : Nat, at : Slices] \cup {Missing}
    /\ \A s \in Slices : s > t => sb[s] = <<0, 0>>
    /\ pk # Missing => pk.at <= t
    /\ \A s \in Slices : sb[s][1] > 0 => pk # Missing /\ s <= pk.at

\* As long as all reports show one ratio, every slice does and the peak is that ratio.
SteadyInv(sb, pk, hd) ==
    \A r \in Nat \ {0} : (\A h \in hd : h[1] = "Surb" => h[2] = r) =>
        /\ \A s \in Slices : AtRate(r, sb[s][1], sb[s][2])
        /\ pk # Missing => pk.value = r

ObsType ==
    [immediate : ImmediatesType \cup {Missing}, intermediate : IntermediatesType \cup {Missing}, health : {Missing},
     last_update : Slices]

WeightInv ==
    LET near == Immediates(obs)
        far  == Intermediates(obs)
    IN  /\ obs \in ObsType /\ HeardInv(heard) /\ LinksInv(near.link, far.link, heard)
        /\ WindowInv(far.surb, far.surb_peak, now) /\ SteadyInv(far.surb, far.surb_peak, heard)

-----------------------------------------------------------------------------
(* Sums over the slices of a window. *)

SliceSum(sb, i, q) == MapThenSumSet(LAMBDA s : sb[s][i], q)

\* The element a fold takes first, and the recursion it is defined by.
FirstOf(s) == CHOOSE x \in s : TRUE
Table(sb, i, f, q) ==
    f = [s \in SUBSET q |-> IF s = {} THEN 0 ELSE sb[FirstOf(s)][i] + f[s \ {FirstOf(s)}]]

LEMMA SliceSumUnfolds ==
    ASSUME NEW sb, NEW i, NEW q
    PROVE  SliceSum(sb, i, q) = (CHOOSE f : Table(sb, i, f, q))[q]
BY Zenon DEF SliceSum, MapThenSumSet, MapThenFoldSet, Table, FirstOf

LEMMA FirstIn == ASSUME NEW s, s # {} PROVE FirstOf(s) \in s
BY DEF FirstOf

\* Of finite sets, one has no other of them inside.
LEMMA SmallestSet ==
    ASSUME NEW Q, Q # {}, \A q \in Q : IsFiniteSet(q)
    PROVE  \E q \in Q : \A r \in Q : r \subseteq q => r = q
<1> DEFINE T == {Cardinality(q) : q \in Q}
<1>1. T \in SUBSET Nat /\ T # {}
  BY FS_CardinalityType
<1>2. PICK x \in T : \A y \in T : x <= y
  <2> HIDE DEF T
  <2> QED
    BY <1>1, LeastExists
<1>3. PICK q \in Q : Cardinality(q) = x
  OBVIOUS
<1>4. ASSUME NEW r \in Q, r \subseteq q PROVE r = q
  <2>1. Cardinality(r) \in T
    OBVIOUS
  <2>2. Cardinality(q) <= Cardinality(r) /\ IsFiniteSet(r) /\ IsFiniteSet(q)
    BY <1>2, <1>3, <2>1
  <2>3. Cardinality(r) \in Nat /\ Cardinality(q) \in Nat
    BY <2>2, FS_CardinalityType
  <2>4. Cardinality(r) <= Cardinality(q) /\ (Cardinality(r) = Cardinality(q) => r = q)
    BY <1>4, <2>2, FS_Subset
  <2> QED
    BY <2>2, <2>3, <2>4
<1> QED
  BY <1>4

\* What holds of no slices, and of some once it holds of them without the first,
\* holds of all: a smallest set it fails of would have a smaller one.
LEMMA TakingFirst ==
    ASSUME NEW q, IsFiniteSet(q), NEW T, {} \in T,
           \A x \in SUBSET q : x # {} /\ x \ {FirstOf(x)} \in T => x \in T
    PROVE  \A x \in SUBSET q : x \in T
<1> DEFINE Q == {x \in SUBSET q : x \notin T}
<1>1. ASSUME Q # {} PROVE FALSE
  <2>1. \A x \in Q : IsFiniteSet(x)
    BY FS_Subset
  <2>2. PICK x \in Q : \A y \in Q : y \subseteq x => y = x
    <3> HIDE DEF Q
    <3> QED
      BY <1>1, <2>1, SmallestSet
  <2>3. x # {} /\ x \in SUBSET q /\ x \notin T
    OBVIOUS
  <2>4. FirstOf(x) \in x
    BY <2>3, FirstIn
  <2>5. x \ {FirstOf(x)} \in T
    BY <2>2, <2>3, <2>4
  <2> QED
    BY <2>3, <2>5
<1> QED
  BY <1>1

\* Where two of these recursions are both defined they agree.
LEMMA TablesAgree ==
    ASSUME NEW sb, NEW i, NEW f, NEW g, NEW q, NEW r, Table(sb, i, f, q), Table(sb, i, g, r),
           NEW s \in SUBSET (q \cap r), IsFiniteSet(s)
    PROVE  f[s] = g[s]
<1> DEFINE T == {x \in SUBSET s : f[x] = g[x]}
<1>1. {} \in T
  BY DEF Table
<1>2. ASSUME NEW x \in SUBSET s, x # {}, x \ {FirstOf(x)} \in T PROVE x \in T
  <2>1. x \in SUBSET q /\ x \in SUBSET r
    OBVIOUS
  <2>2. f[x] = sb[FirstOf(x)][i] + f[x \ {FirstOf(x)}] /\ g[x] = sb[FirstOf(x)][i] + g[x \ {FirstOf(x)}]
    BY <1>2, <2>1 DEF Table
  <2> QED
    BY <1>2, <2>2
<1>3. \A x \in SUBSET s : x \in T
  <2> HIDE DEF T
  <2> QED
    BY <1>1, <1>2, TakingFirst
<1> QED
  BY <1>3

\* For a finite set there is such a recursion.
LEMMA TableExists ==
    ASSUME NEW sb, NEW i, NEW S, IsFiniteSet(S)
    PROVE  \E f : Table(sb, i, f, S)
<1> DEFINE Q == {x \in SUBSET S : ~\E f : Table(sb, i, f, x)}
<1>1. ASSUME Q # {} PROVE FALSE
  <2>1. \A x \in Q : IsFiniteSet(x)
    BY FS_Subset
  <2>2. PICK x \in Q : \A y \in Q : y \subseteq x => y = x
    <3> HIDE DEF Q
    <3> QED
      BY <1>1, <2>1, SmallestSet
  <2> DEFINE G(y) == CHOOSE f : Table(sb, i, f, y)
  <2>3. ASSUME NEW y \in SUBSET x, y # x PROVE Table(sb, i, G(y), y) /\ IsFiniteSet(y)
    <3>1. y \in SUBSET S /\ y \notin Q
      BY <2>2, <2>3
    <3>2. \E f : Table(sb, i, f, y)
      BY <3>1
    <3> QED
      BY <3>1, <3>2, FS_Subset
  <2> DEFINE rest == x \ {FirstOf(x)}
             h == [y \in SUBSET x |-> IF y = {} THEN 0
                                      ELSE IF y # x THEN G(y)[y]
                                      ELSE sb[FirstOf(x)][i] + G(rest)[rest]]
  <2> HIDE DEF G
  <2>4. ASSUME NEW y \in SUBSET x, y # {} PROVE h[y] = sb[FirstOf(y)][i] + h[y \ {FirstOf(y)}]
    <3> DEFINE z == y \ {FirstOf(y)}
    <3>1. z \in SUBSET x /\ z # x /\ z \in SUBSET y /\ z # y
      BY <2>4, FirstIn
    <3>2. h[z] = G(z)[z]
      <4>1. Table(sb, i, G(z), z)
        BY <2>3, <3>1
      <4>2. z = {} => G(z)[z] = 0
        BY <4>1 DEF Table
      <4> HIDE DEF z
      <4> QED
        BY <3>1, <4>2
    <3>3. CASE y = x
      BY <2>4, <3>2, <3>3
    <3>4. CASE y # x
      <4>1. Table(sb, i, G(y), y) /\ Table(sb, i, G(z), z) /\ IsFiniteSet(z)
        BY <2>3, <3>1, <3>4
      <4>2. z \in SUBSET (y \cap z)
        BY <3>1
      <4>3. G(y)[z] = G(z)[z]
        <5> HIDE DEF z
        <5> QED
          BY <4>1, <4>2, TablesAgree
      <4>4. G(y)[y] = sb[FirstOf(y)][i] + G(y)[z]
        <5>1. y \in SUBSET y
          OBVIOUS
        <5> QED
          BY <2>4, <4>1, <5>1 DEF Table
      <4>5. h[y] = G(y)[y]
        BY <2>4, <3>4
      <4>6. h[y] = sb[FirstOf(y)][i] + h[z]
        <5> HIDE DEF h, z
        <5> QED
          BY <3>2, <4>3, <4>4, <4>5
      <4> HIDE DEF h
      <4> QED
        BY <4>6
    <3> HIDE DEF h
    <3> QED
      BY <3>3, <3>4
  <2>5. h = [y \in SUBSET x |-> h[y]] /\ h[{}] = 0
    OBVIOUS
  <2> HIDE DEF h
  <2>6. h = [y \in SUBSET x |-> IF y = {} THEN 0 ELSE sb[FirstOf(y)][i] + h[y \ {FirstOf(y)}]]
    BY <2>4, <2>5
  <2> QED
    BY <2>2, <2>6 DEF Table
<1>2. S \in SUBSET S /\ S \notin Q
  BY <1>1
<1> QED
  BY <1>2

\* The sum over no slices, and over one slice more.
LEMMA SliceSumRecursion ==
    ASSUME NEW sb, NEW i, NEW q, IsFiniteSet(q)
    PROVE  /\ q = {} => SliceSum(sb, i, q) = 0
           /\ q # {} => SliceSum(sb, i, q) = sb[FirstOf(q)][i] + SliceSum(sb, i, q \ {FirstOf(q)})
<1> DEFINE r == q \ {FirstOf(q)}
           f == CHOOSE f : Table(sb, i, f, q)
           g == CHOOSE k : Table(sb, i, k, r)
<1>1. IsFiniteSet(r)
  BY FS_Subset
<1>2. Table(sb, i, f, q) /\ Table(sb, i, g, r)
  BY <1>1, TableExists
<1>3. SliceSum(sb, i, q) = f[q] /\ SliceSum(sb, i, r) = g[r]
  BY SliceSumUnfolds
<1> HIDE DEF f, g
<1>4. f[q] = IF q = {} THEN 0 ELSE sb[FirstOf(q)][i] + f[r]
  <2>1. q \in SUBSET q
    OBVIOUS
  <2> QED
    BY <1>2, <2>1 DEF Table
<1>5. f[r] = g[r]
  <2>1. r \in SUBSET (r \cap r) /\ r \in SUBSET (q \cap r)
    OBVIOUS
  <2> HIDE DEF r
  <2> QED
    BY <1>1, <1>2, <2>1, TablesAgree
<1> QED
  BY <1>3, <1>4, <1>5

Window == [Slices -> Nat \X Nat]

\* The sums of a window: naturals, not zero where some slice is not, and of one
\* ratio where every slice is.
LEMMA SlicesFinite == IsFiniteSet(Slices)
<1>1. 0 \in Int /\ MaxSlices \in Int
  BY DecayAssumption
<1> QED
  BY <1>1, FS_Interval DEF Slices

LEMMA SumIsNat ==
    ASSUME NEW sb \in Window, NEW i \in {1, 2}, NEW q \in SUBSET Slices
    PROVE  /\ SliceSum(sb, i, q) \in Nat
           /\ SliceSum(sb, i, q) = 0 <=> \A s \in q : sb[s][i] = 0
<1> DEFINE Fine(x) == /\ SliceSum(sb, i, x) \in Nat
                      /\ SliceSum(sb, i, x) = 0 <=> \A s \in x : sb[s][i] = 0
           T == {x \in SUBSET Slices : Fine(x)}
<1>0. \A s \in Slices : sb[s][i] \in Nat
  BY DEF Window
<1>1. {} \in T
  <2>1. SliceSum(sb, i, {}) = 0
    BY FS_EmptySet, SliceSumRecursion
  <2> QED
    BY <2>1
<1>2. ASSUME NEW x \in SUBSET Slices, x # {}, x \ {FirstOf(x)} \in T PROVE x \in T
  <2> DEFINE y == x \ {FirstOf(x)}
  <2>1. IsFiniteSet(x)
    BY SlicesFinite, FS_Subset
  <2>2. SliceSum(sb, i, x) = sb[FirstOf(x)][i] + SliceSum(sb, i, y)
    BY <1>2, <2>1, SliceSumRecursion
  <2>3. FirstOf(x) \in x /\ x = y \cup {FirstOf(x)}
    BY <1>2, FirstIn
  <2>4. sb[FirstOf(x)][i] \in Nat
    BY <1>0, <2>3
  <2>5. Fine(y)
    BY <1>2
  <2> HIDE DEF y
  <2> QED
    BY <2>2, <2>3, <2>4, <2>5
<1>3. \A x \in SUBSET Slices : x \in T
  <2> HIDE DEF T
  <2> QED
    BY <1>1, <1>2, SlicesFinite, TakingFirst
<1> QED
  BY <1>3

LEMMA RatesAdd ==
    ASSUME NEW r \in Nat, NEW a \in Nat, NEW b \in Nat, NEW c \in Nat, NEW d \in Nat, AtRate(r, a, b), AtRate(r, c, d)
    PROVE  AtRate(r, a + c, b + d)
<1>1. Unit \in Nat /\ Unit # 0
  BY DecayAssumption
<1>2. r * (a + c) = r * a + r * c /\ Unit * (b + d) = Unit * b + Unit * d /\ (r + 1) * (a + c) = (r + 1) * a + (r + 1) * c
  BY <1>1
<1>3. r * a \in Int /\ r * c \in Int /\ Unit * b \in Int /\ Unit * d \in Int /\ (r + 1) * a \in Int /\ (r + 1) * c \in Int
  BY <1>1
<1>4. Unit * 0 = 0 /\ (r + 1) * 0 = 0
  BY <1>1
<1>5. r * (a + c) <= Unit * (b + d)
  BY <1>2, <1>3 DEF AtRate
<1>6. a + c = 0 => b + d = 0
  BY DEF AtRate
<1>7. ASSUME a + c > 0 PROVE Unit * (b + d) < (r + 1) * (a + c)
  <2>1. Unit * b <= (r + 1) * a /\ Unit * d <= (r + 1) * c
    BY <1>3, <1>4 DEF AtRate
  <2>2. a > 0 \/ c > 0
    BY <1>7
  <2>3. Unit * b < (r + 1) * a \/ Unit * d < (r + 1) * c
    BY <2>2 DEF AtRate
  <2> QED
    BY <1>2, <1>3, <2>1, <2>3
<1> QED
  BY <1>5, <1>6, <1>7 DEF AtRate

LEMMA SumAtRate ==
    ASSUME NEW sb \in Window, NEW r \in Nat, \A s \in Slices : AtRate(r, sb[s][1], sb[s][2]), NEW q \in SUBSET Slices
    PROVE  AtRate(r, SliceSum(sb, 1, q), SliceSum(sb, 2, q))
<1> DEFINE T == {x \in SUBSET Slices : AtRate(r, SliceSum(sb, 1, x), SliceSum(sb, 2, x))}
<1>1. {} \in T
  <2>1. SliceSum(sb, 1, {}) = 0 /\ SliceSum(sb, 2, {}) = 0
    BY FS_EmptySet, SliceSumRecursion
  <2>2. r * 0 <= Unit * 0
    BY DecayAssumption
  <2> QED
    BY <2>1, <2>2 DEF AtRate
<1>2. ASSUME NEW x \in SUBSET Slices, x # {}, x \ {FirstOf(x)} \in T PROVE x \in T
  <2> DEFINE y == x \ {FirstOf(x)}
  <2>1. IsFiniteSet(x)
    BY SlicesFinite, FS_Subset
  <2>2. \A i \in {1, 2} : SliceSum(sb, i, x) = sb[FirstOf(x)][i] + SliceSum(sb, i, y)
    BY <1>2, <2>1, SliceSumRecursion
  <2>3. FirstOf(x) \in Slices /\ y \in SUBSET Slices
    BY <1>2, FirstIn
  <2>4. sb[FirstOf(x)][1] \in Nat /\ sb[FirstOf(x)][2] \in Nat
    BY <2>3 DEF Window
  <2>5. SliceSum(sb, 1, y) \in Nat /\ SliceSum(sb, 2, y) \in Nat
    BY <2>3, SumIsNat
  <2>6. AtRate(r, SliceSum(sb, 1, y), SliceSum(sb, 2, y))
    BY <1>2
  <2>7. AtRate(r, sb[FirstOf(x)][1] + SliceSum(sb, 1, y), sb[FirstOf(x)][2] + SliceSum(sb, 2, y))
    BY <2>3, <2>4, <2>5, <2>6, RatesAdd
  <2> QED
    BY <2>2, <2>7
<1>3. \A x \in SUBSET Slices : x \in T
  <2> HIDE DEF T
  <2> QED
    BY <1>1, <1>2, SlicesFinite, TakingFirst
<1> QED
  BY <1>3

\* Whole division.
LEMMA Divides ==
    ASSUME NEW x \in Nat, NEW y \in Nat \ {0}
    PROVE  x \div y \in Nat /\ (x \div y) * y <= x /\ x < (x \div y + 1) * y
  OBVIOUS

LEMMA TimesMonotone ==
    ASSUME NEW a \in Nat, NEW b \in Nat, NEW y \in Nat, a <= b
    PROVE  a * y <= b * y
  OBVIOUS

LEMMA DividesOnce ==
    ASSUME NEW x \in Nat, NEW y \in Nat \ {0}, NEW q \in Nat, q * y <= x, x < (q + 1) * y
    PROVE  x \div y = q
<1> DEFINE p == x \div y
<1>1. p \in Nat /\ p * y <= x /\ x < (p + 1) * y
  BY Divides
<1> HIDE DEF p
<1>2. p * y \in Nat /\ q * y \in Nat /\ (p + 1) * y \in Nat /\ (q + 1) * y \in Nat
  BY <1>1
<1>3. ASSUME p + 1 <= q PROVE FALSE
  <2>1. (p + 1) * y <= q * y
    BY <1>1, <1>3, TimesMonotone
  <2> QED
    BY <1>1, <1>2, <2>1
<1>4. ASSUME q + 1 <= p PROVE FALSE
  <2>1. (q + 1) * y <= p * y
    BY <1>1, <1>4, TimesMonotone
  <2> QED
    BY <1>1, <1>2, <2>1
<1>5. p = q
  BY <1>1, <1>3, <1>4
<1> QED
  BY <1>5 DEF p

LEMMA RatioAtRate ==
    ASSUME NEW r \in Nat, NEW a \in Nat \ {0}, NEW b \in Nat
    PROVE  AtRate(r, a, b) <=> Ratio(b, a) = r
<1>1. Unit * b \in Nat
  BY DecayAssumption
<1>2. AtRate(r, a, b) => Ratio(b, a) = r
  <2>1. r * a <= Unit * b /\ Unit * b < (r + 1) * a => (Unit * b) \div a = r
    BY <1>1, DividesOnce
  <2> QED
    BY <2>1 DEF AtRate, Ratio
<1>3. Ratio(b, a) = r => AtRate(r, a, b)
  <2>1. ((Unit * b) \div a) * a <= Unit * b /\ Unit * b < ((Unit * b) \div a + 1) * a
    BY <1>1, Divides
  <2> QED
    BY <2>1 DEF AtRate, Ratio
<1> QED
  BY <1>2, <1>3

\* Missing is nothing else.
LEMMA MissingIsNone ==
    /\ \A x \in Int : x # Missing
    /\ \A x \in ImmediatesType : x # Missing
    /\ \A x \in IntermediatesType : x # Missing
    /\ \A x \in [value : Nat, at : Slices] : x # Missing
  BY Zenon, EvidenceAssumption

Known == Nat \cup {Missing}
Peaks == [value : Nat, at : Slices] \cup {Missing}
WindowSlices(n, t) == {s \in Slices : s > t - n /\ s <= t}

\* What the window shows, and when it shows nothing.
LEMMA WindowValueIs ==
    ASSUME NEW sb \in Window, NEW n, NEW t
    PROVE  /\ WindowValue(sb, n, t) \in Known
           /\ WindowValue(sb, n, t) = Missing <=> \A s \in WindowSlices(n, t) : sb[s][1] = 0
           /\ \A r \in Nat : (\A s \in Slices : AtRate(r, sb[s][1], sb[s][2])) /\ WindowValue(sb, n, t) # Missing
                                => WindowValue(sb, n, t) = r
<1> DEFINE q == WindowSlices(n, t)
           E == SliceSum(sb, 1, q)
           O == SliceSum(sb, 2, q)
<1>1. WindowValue(sb, n, t) = RatioOf(O, E)
  BY Zenon DEF WindowValue, SliceSum, WindowSlices
<1>2. q \in SUBSET Slices
  BY DEF WindowSlices
<1>3. E \in Nat /\ O \in Nat /\ (E = 0 <=> \A s \in q : sb[s][1] = 0)
  BY <1>2, SumIsNat
<1>4. \A r \in Nat : (\A s \in Slices : AtRate(r, sb[s][1], sb[s][2])) => AtRate(r, E, O)
  BY <1>2, SumAtRate
<1> HIDE DEF q, E, O
<1>5. CASE E = 0
  <2>1. WindowValue(sb, n, t) = Missing
    BY <1>1, <1>5 DEF RatioOf
  <2> QED
    BY <1>3, <1>5, <2>1 DEF Known, q
<1>6. CASE E # 0
  <2>1. WindowValue(sb, n, t) = Ratio(O, E)
    BY <1>1, <1>6 DEF RatioOf
  <2>2. Unit * O \in Nat
    BY <1>3, DecayAssumption
  <2>3. Ratio(O, E) \in Nat
    BY <1>3, <1>6, <2>2, Divides DEF Ratio
  <2>4. Ratio(O, E) # Missing
    BY <2>3, MissingIsNone
  <2>5. \A r \in Nat : (\A s \in Slices : AtRate(r, sb[s][1], sb[s][2])) => Ratio(O, E) = r
    BY <1>3, <1>4, <1>6, RatioAtRate
  <2> QED
    BY <1>3, <1>6, <2>1, <2>3, <2>4, <2>5 DEF Known, q
<1> QED
  BY <1>5, <1>6

\* The slice a report falls in is in every window.
LEMMA NowInWindow ==
    ASSUME NEW t \in Slices, NEW n \in Nat \ {0}
    PROVE  t \in WindowSlices(n, t)
<1>1. t \in Int
  BY DecayAssumption DEF Slices
<1> QED
  BY <1>1 DEF WindowSlices

PeakOf(pk, t) == IF pk = Missing THEN Missing ELSE Times(pk.value, Decay[t - pk.at])

\* A peak only decays, and within the window not to nothing.
LEMMA PeakOfIs ==
    ASSUME NEW pk \in Peaks, NEW t \in Slices, pk # Missing => pk.at <= t
    PROVE  /\ PeakOf(pk, t) \in Known
           /\ PeakOf(pk, t) = Missing <=> pk = Missing
           /\ pk # Missing => PeakOf(pk, t) <= pk.value
           /\ pk # Missing /\ pk.value >= 2 /\ t - pk.at <= SURB_BUCKETS => PeakOf(pk, t) # 0
<1>1. CASE pk = Missing
  BY <1>1 DEF PeakOf, Known
<1>2. CASE pk # Missing
  <2> DEFINE v == pk.value
             n == t - pk.at
             D == Decay[n]
             p == (v * D) \div Unit
  <2>1. v \in Nat /\ pk.at \in Slices
    BY <1>2 DEF Peaks
  <2>2. n \in 0..MaxSlices
    BY <1>2, <2>1, DecayAssumption DEF Slices
  <2> HIDE DEF n
  <2>3. D \in 0..Unit /\ Unit \in Nat \ {0} /\ (n <= SURB_BUCKETS => 2 * D >= Unit)
    BY <2>2, DecayAssumption, EvidenceAssumption
  <2> HIDE DEF v, D
  <2>4. PeakOf(pk, t) = p
    BY <1>2 DEF PeakOf, Times, v, D, n
  <2>5. v * D \in Nat
    BY <2>1, <2>3
  <2>6. p \in Nat /\ p * Unit <= v * D /\ v * D < (p + 1) * Unit
    BY <2>3, <2>5, Divides
  <2> HIDE DEF p
  <2>7. p <= v
    <3> SUFFICES ASSUME v + 1 <= p PROVE FALSE
      BY <2>1, <2>6
    <3>1. (v + 1) * Unit <= p * Unit
      BY <2>1, <2>3, <2>6, TimesMonotone
    <3>2. D * v <= Unit * v
      BY <2>1, <2>3, TimesMonotone
    <3>3. (v + 1) * Unit = Unit * v + Unit /\ D * v = v * D /\ Unit * v \in Nat
      BY <2>1, <2>3
    <3> QED
      BY <2>3, <2>5, <2>6, <3>1, <3>2, <3>3
  <2>8. v >= 2 /\ n <= SURB_BUCKETS => p # 0
    <3> SUFFICES ASSUME v >= 2, n <= SURB_BUCKETS, p = 0 PROVE FALSE
      OBVIOUS
    <3>1. 2 * D <= v * D
      BY <2>1, <2>3, TimesMonotone
    <3>2. v * D < 1 * Unit
      BY <2>6
    <3> QED
      BY <2>3, <2>5, <3>1, <3>2
  <2>9. p # Missing
    BY <2>6, MissingIsNone
  <2> QED
    BY <1>2, <2>4, <2>6, <2>7, <2>8, <2>9 DEF Known, v, n
<1> QED
  BY <1>1, <1>2

LEMMA AgainstIs ==
    ASSUME NEW v \in Known, NEW ref \in Known
    PROVE  /\ Against(v, ref) \in Known
           /\ Against(v, ref) = Missing <=> v = Missing \/ ref \in {Missing, 0}
           /\ v = 0 => Against(v, ref) \in {0, Missing}
           /\ v # Missing /\ ref \notin {Missing, 0} /\ ref <= v => Against(v, ref) = Unit
<1>1. CASE v = Missing \/ ref \in {Missing, 0}
  BY <1>1, MissingIsNone DEF Against, Known
<1>2. CASE v # Missing /\ ref \notin {Missing, 0}
  <2>1. v \in Nat /\ ref \in Nat \ {0} /\ Unit \in Nat \ {0}
    BY <1>2, DecayAssumption DEF Known
  <2> DEFINE p == (Unit * v) \div ref
  <2>2. Unit * v \in Nat /\ (v = 0 => Unit * v = 0)
    BY <2>1
  <2>3. p \in Nat /\ p * ref <= Unit * v /\ Unit * v < (p + 1) * ref
    BY <2>1, <2>2, Divides
  <2>4. v = 0 => p = 0
    <3> SUFFICES ASSUME v = 0 PROVE p = 0
      OBVIOUS
    <3>1. 0 * ref <= 0 /\ 0 < (0 + 1) * ref
      BY <2>1
    <3> QED
      BY <2>1, <2>2, <3>1, DividesOnce
  <2>5. Against(v, ref) = Smaller(p, Unit)
    BY <1>2 DEF Against, Ratio
  <2> HIDE DEF p
  <2>6. ref <= v => Unit <= p
    <3> SUFFICES ASSUME ref <= v, p + 1 <= Unit PROVE FALSE
      BY <2>1, <2>3
    <3>1. (p + 1) * ref <= Unit * ref
      BY <2>1, <2>3, TimesMonotone
    <3>2. ref * Unit <= v * Unit
      BY <2>1, TimesMonotone
    <3>3. ref * Unit = Unit * ref /\ v * Unit = Unit * v /\ Unit * ref \in Nat /\ (p + 1) * ref \in Nat
      BY <2>1, <2>3
    <3> QED
      BY <2>2, <2>3, <3>1, <3>2, <3>3
  <2>7. /\ Smaller(p, Unit) \in Nat /\ (p = 0 => Smaller(p, Unit) = 0)
        /\ Unit <= p => Smaller(p, Unit) = Unit
    BY <2>1, <2>3 DEF Smaller
  <2>8. Smaller(p, Unit) # Missing
    BY <2>7, MissingIsNone
  <2> QED
    BY <1>2, <2>4, <2>5, <2>6, <2>7, <2>8 DEF Known
<1> QED
  BY <1>1, <1>2

\* Delivery: when there is none, when it collapses, and when it is full.
Delivery(full, lately, peak) == Discounted(Against(full, peak), Against(lately, full))

LEMMA DeliveryIs ==
    ASSUME NEW full \in Known, NEW lately \in Known, NEW peak \in Known
    PROVE  /\ Delivery(full, lately, peak) \in Known
           /\ Delivery(full, lately, peak) = Missing <=> full = Missing \/ peak \in {Missing, 0}
           /\ lately = 0 => Delivery(full, lately, peak) \in {0, Missing}
           /\ full \notin {Missing, 0} /\ peak \notin {Missing, 0} /\ peak <= full /\ lately \in {full, Missing}
                => Delivery(full, lately, peak) = Unit
<1> DEFINE d == Against(full, peak)
           w == Against(lately, full)
<1>1. /\ d \in Known /\ (d = Missing <=> full = Missing \/ peak \in {Missing, 0})
      /\ full = 0 => d \in {0, Missing}
      /\ full # Missing /\ peak \notin {Missing, 0} /\ peak <= full => d = Unit
  BY AgainstIs
<1>2. /\ w \in Known /\ (w = Missing <=> lately = Missing \/ full \in {Missing, 0})
      /\ lately = 0 => w \in {0, Missing}
      /\ lately # Missing /\ full \notin {Missing, 0} /\ full <= lately => w = Unit
  BY AgainstIs
<1> HIDE DEF d, w
<1>3. Delivery(full, lately, peak) = Discounted(d, w)
  BY DEF Delivery, d, w
<1>4. Unit \in Nat \ {0}
  BY DecayAssumption
<1>5. CASE d # Missing /\ w # Missing /\ 2 * w < Unit
  <2>1. d \in Nat /\ w \in Nat
    BY <1>1, <1>2, <1>5 DEF Known
  <2>2. Discounted(d, w) = (d * w) \div Unit
    BY <1>5 DEF Discounted, Times
  <2>3. d * w \in Nat
    BY <2>1
  <2>4. (d * w) \div Unit \in Nat
    BY <1>4, <2>3, Divides
  <2>5. (d * w) \div Unit # Missing
    BY <2>4, MissingIsNone
  <2>6. lately = 0 => (d * w) \div Unit = 0
    <3> SUFFICES ASSUME lately = 0 PROVE (d * w) \div Unit = 0
      OBVIOUS
    <3>1. w = 0
      BY <1>2, <1>5
    <3>2. d * w = 0 /\ 0 * Unit <= 0 /\ 0 < (0 + 1) * Unit
      BY <1>4, <2>1, <3>1
    <3> QED
      BY <1>4, <3>2, DividesOnce
  <2>7. ~(full \notin {Missing, 0} /\ lately \in {full, Missing})
    <3> SUFFICES ASSUME full \notin {Missing, 0}, lately \in {full, Missing} PROVE FALSE
      OBVIOUS
    <3>1. full \in Nat /\ lately = full
      BY <1>2, <1>5 DEF Known
    <3>2. w = Unit
      BY <1>2, <3>1
    <3> QED
      BY <1>4, <1>5, <3>2
  <2> QED
    BY <1>1, <1>3, <1>5, <2>2, <2>4, <2>5, <2>6, <2>7 DEF Known
<1>6. CASE ~(d # Missing /\ w # Missing /\ 2 * w < Unit)
  <2>1. Discounted(d, w) = d
    BY <1>6 DEF Discounted
  <2>2. lately = 0 => d \in {0, Missing}
    <3> SUFFICES ASSUME lately = 0, d # Missing PROVE d = 0
      OBVIOUS
    <3>1. CASE w = Missing
      <4>1. full = 0
        BY <1>1, <1>2, <3>1, MissingIsNone
      <4> QED
        BY <1>1, <4>1
    <3>2. CASE w # Missing
      <4>1. w = 0
        BY <1>2, <3>2
      <4>2. 2 * w < Unit
        BY <1>4, <4>1
      <4> QED
        BY <1>6, <3>2, <4>2
    <3> QED
      BY <3>1, <3>2
  <2> QED
    BY <1>1, <1>3, <2>1, <2>2
<1> QED
  BY <1>5, <1>6

\* An average is a number, whatever it is the average of.
LEMMA AverageIsInt ==
    ASSUME NEW avg \in Int, NEW x \in Int, NEW count \in Nat \ {0}, NEW n \in Nat \ {0}
    PROVE  Average(avg, x, count, n) \in Int
<1> DEFINE k == Smaller(count, n)
<1>1. k \in Nat \ {0}
  BY DEF Smaller
<1> HIDE DEF k
<1>2. (x - avg) \div k \in Int
  BY <1>1
<1>3. Average(avg, x, count, n) = avg + (x - avg) \div k
  BY DEF Average, k
<1> QED
  BY <1>2, <1>3

LEMMA LinkRecordIs ==
    ASSUME NEW link \in Links, NEW v \in Int \cup {Missing}
    PROVE  LinkRecord(link, v) \in Links /\ LinkRecord(link, v).samples > 0
<1>1. /\ link.latency \in Int \cup {Missing} /\ link.answered \in Nat /\ link.rate \in Int /\ link.samples \in Nat
      /\ Unit \in Int /\ (link.answered > 0 => link.latency # Missing)
  BY DecayAssumption DEF Links, LinkType
<1> DEFINE failed == v = Missing
           n == link.samples + 1
           rate == Average(link.rate, IF failed THEN 0 ELSE Unit, n, 5)
           answered == IF failed THEN link.answered ELSE link.answered + 1
           latency == IF failed THEN link.latency
                      ELSE IF link.answered = 0 THEN v
                      ELSE Average(link.latency, v, link.answered + 1, 3)
<1>2. n \in Nat /\ n > 0 /\ n \in Nat \ {0} /\ answered \in Nat
  BY <1>1
<1>3. rate \in Int
  <2> DEFINE x == IF failed THEN 0 ELSE Unit
  <2>1. x \in Int
    BY <1>1
  <2>2. 5 \in Nat \ {0} /\ link.rate \in Int
    BY <1>1
  <2> HIDE DEF x, n
  <2>3. Average(link.rate, x, n, 5) \in Int
    BY <1>2, <2>1, <2>2, AverageIsInt, Zenon
  <2> QED
    BY <2>3, Zenon DEF x
<1>4. latency \in Int \cup {Missing} /\ (answered > 0 => latency # Missing)
  <2>1. CASE failed
    BY <1>1, <2>1
  <2>2. CASE ~failed /\ link.answered = 0
    BY <1>1, <2>2
  <2>3. CASE ~failed /\ link.answered # 0
    <3>1. v \in Int /\ link.latency \in Int /\ link.answered + 1 \in Nat \ {0}
      BY <1>1, <2>3
    <3>2. Average(link.latency, v, link.answered + 1, 3) \in Int
      <4>1. 3 \in Nat \ {0}
        OBVIOUS
      <4> QED
        BY <3>1, <4>1, AverageIsInt, Zenon
    <3>3. latency = Average(link.latency, v, link.answered + 1, 3)
      BY <2>3
    <3> QED
      BY <3>2, <3>3, MissingIsNone
  <2> QED
    BY <2>1, <2>2, <2>3
<1>5. LinkRecord(link, v) = [samples |-> n, rate |-> rate, answered |-> answered, latency |-> latency]
  BY Zenon DEF LinkRecord
<1> HIDE DEF n, rate, answered, latency
<1> QED
  BY <1>2, <1>3, <1>4, <1>5 DEF Links, LinkType

\* A link is scored exactly if it was probed.
LEMMA TimesIsInt == ASSUME NEW x \in Int, NEW y \in Int PROVE Times(x, y) \in Int
<1>1. x * y \in Int /\ Unit \in Nat \ {0}
  BY DecayAssumption
<1> QED
  BY <1>1 DEF Times

LEMMA LatencyScoreIsInt == \A ms : LatencyScore(ms) \in Int
<1>1. Ratio(70, 100) \in Int /\ Ratio(30, 100) \in Int /\ Ratio(15, 100) \in Int /\ Unit \in Int
  BY DecayAssumption DEF Ratio
<1> QED
  BY <1>1 DEF LatencyScore

LEMMA LinkScoreIs ==
    ASSUME NEW link \in Links
    PROVE  /\ LinkScore(link) \in Int \cup {Missing} /\ (LinkScore(link) = Missing <=> link.samples = 0)
           /\ ProbeRate(link) \in Int \cup {Missing} /\ (ProbeRate(link) = Missing <=> link.samples = 0)
<1>1. link.latency \in Int \cup {Missing} /\ link.rate \in Int /\ link.samples \in Nat
  BY DEF Links, LinkType
<1>2. NO_LATENCY_DATA_FLOOR \in Int
  BY DecayAssumption DEF NO_LATENCY_DATA_FLOOR, Ratio
<1> DEFINE x == IF link.latency = Missing THEN NO_LATENCY_DATA_FLOOR ELSE LatencyScore(link.latency)
<1>3. x \in Int
  BY <1>2, LatencyScoreIsInt
<1>4. Times(link.rate, x) \in Int /\ Times(link.rate, x) # Missing
  <2> HIDE DEF x
  <2> QED
    BY <1>1, <1>3, TimesIsInt, MissingIsNone
<1>5. LinkScore(link) = IF link.samples = 0 THEN Missing ELSE Times(link.rate, x)
  BY Zenon DEF LinkScore
<1> HIDE DEF x
<1>6. link.rate # Missing
  BY <1>1, MissingIsNone
<1> QED
  BY <1>1, <1>4, <1>5, <1>6 DEF ProbeRate

\* The delivery of an edge, from what its window shows.
LEMMA DeliveryRateIs ==
    ASSUME NEW inter, NEW t
    PROVE  SurbDeliveryRate(inter, t)
           = Delivery(WindowValue(inter.surb, SURB_BUCKETS, t), WindowValue(inter.surb, SURB_RECENT_SLICES, t),
                      PeakOf(inter.surb_peak, t))
  BY Zenon DEF SurbDeliveryRate, SurbTrend, PeakAt, PeakOf, Delivery

LEMMA IntermediateScoreIs ==
    ASSUME NEW inter, inter.link \in Links, NEW d, d \in Known, NEW t, SurbDeliveryRate(inter, t) = d
    PROVE  /\ IntermediateScore(inter, t) \in Int \cup {Missing}
           /\ IntermediateScore(inter, t) = Missing <=> d = Missing /\ inter.link.samples = 0
<1> DEFINE p == ProbeRate(inter.link)
           r == Worse(d, p)
           ms == inter.link.latency
<1>1. p \in Int \cup {Missing} /\ (p = Missing <=> inter.link.samples = 0)
  BY LinkScoreIs
<1>2. d \in Int \cup {Missing}
  BY DEF Known
<1>3. IntermediateScore(inter, t) = ByLatency(r, ms)
  BY Zenon DEF IntermediateScore, IntermediateRate
<1> HIDE DEF p
<1>4. r \in Int \cup {Missing} /\ (r = Missing <=> d = Missing /\ p = Missing)
  BY <1>1, <1>2 DEF Worse, Smaller
<1> HIDE DEF r
<1>5. CASE r = Missing
  <2>1. ByLatency(r, ms) = Missing
    BY <1>5 DEF ByLatency
  <2> QED
    BY <1>1, <1>3, <1>4, <1>5, <2>1
<1>6. CASE r # Missing
  <2>1. r \in Int /\ LatencyScore(ms) \in Int
    BY <1>4, <1>6, LatencyScoreIsInt
  <2>2. Times(r, LatencyScore(ms)) \in Int
    BY <2>1, TimesIsInt
  <2>3. ByLatency(r, ms) \in Int
    BY <2>1, <2>2 DEF ByLatency
  <2>4. ByLatency(r, ms) # Missing
    BY <2>3, MissingIsNone
  <2> QED
    BY <1>1, <1>3, <1>4, <1>6, <2>3, <2>4
<1> QED
  BY <1>5, <1>6

\* The observations an edge starts with.
LEMMA NothingObserved ==
    /\ NoLink \in Links /\ NoLink.samples = 0
    /\ NoImmediates \in ImmediatesType /\ NoImmediates.link = NoLink
    /\ NoIntermediates \in IntermediatesType /\ NoIntermediates.link = NoLink
    /\ NoIntermediates.surb \in Window /\ NoIntermediates.surb_peak = Missing
    /\ \A s \in Slices : NoIntermediates.surb[s] = <<0, 0>>
<1>1. NoLink \in LinkType /\ NoLink \in Links /\ NoLink.samples = 0
  BY DEF NoLink, Links, LinkType
<1>2. NoImmediates \in ImmediatesType /\ NoImmediates.link = NoLink
  BY <1>1 DEF NoImmediates, ImmediatesType
<1> DEFINE sb == [s \in Slices |-> <<0, 0>>]
<1>3. sb \in Window /\ \A s \in Slices : sb[s] = <<0, 0>>
  BY DEF Window
<1>4. NoIntermediates = [link |-> NoLink, balance |-> Missing, surb |-> sb, surb_peak |-> Missing]
  BY DEF NoIntermediates
<1> HIDE DEF sb
<1>5. NoIntermediates \in IntermediatesType
  BY <1>1, <1>3, <1>4 DEF IntermediatesType, Window
<1> QED
  BY <1>1, <1>2, <1>3, <1>4, <1>5

\* What a report makes of the observations of an edge.
Counted(sb, expected, observed, t) == [sb EXCEPT ![t] = <<@[1] + expected, @[2] + observed>>]

Linked(x, link) == [x EXCEPT !.link = link]

LEMMA LinkedImmediates ==
    ASSUME NEW x \in ImmediatesType, NEW link \in LinkType
    PROVE  Linked(x, link) \in ImmediatesType /\ Linked(x, link).link = link
  BY DEF Linked, ImmediatesType

LEMMA LinkedIntermediates ==
    ASSUME NEW x \in IntermediatesType, NEW link \in LinkType
    PROVE  /\ Linked(x, link) \in IntermediatesType /\ Linked(x, link).link = link
           /\ Linked(x, link).surb = x.surb /\ Linked(x, link).surb_peak = x.surb_peak
  BY DEF Linked, IntermediatesType

LEMMA CountedIs ==
    ASSUME NEW sb \in Window, NEW e \in Nat, NEW o \in Nat, NEW t \in Slices
    PROVE  /\ Counted(sb, e, o, t) \in Window
           /\ Counted(sb, e, o, t)[t][1] = sb[t][1] + e /\ Counted(sb, e, o, t)[t][2] = sb[t][2] + o
           /\ \A s \in Slices : s # t => Counted(sb, e, o, t)[s] = sb[s]
<1>1. sb[t][1] \in Nat /\ sb[t][2] \in Nat
  BY DEF Window
<1> DEFINE p == <<sb[t][1] + e, sb[t][2] + o>>
<1>2. p \in Nat \X Nat /\ p[1] = sb[t][1] + e /\ p[2] = sb[t][2] + o
  BY <1>1
<1>3. Counted(sb, e, o, t) = [sb EXCEPT ![t] = p]
  BY DEF Counted
<1> HIDE DEF p
<1> QED
  BY <1>2, <1>3 DEF Window

RaisedTo(pk, sb, t) == RaisedPeak(pk, PeakOf(pk, t), WindowValue(sb, SURB_BUCKETS, t), t)

LEMMA RaisedToIs ==
    ASSUME NEW pk \in Peaks, NEW sb \in Window, NEW t \in Slices, pk # Missing => pk.at <= t
    PROVE  /\ RaisedTo(pk, sb, t) \in Peaks
           /\ RaisedTo(pk, sb, t) # Missing => RaisedTo(pk, sb, t).at <= t
           /\ WindowValue(sb, SURB_BUCKETS, t) = Missing => RaisedTo(pk, sb, t) = pk
           /\ WindowValue(sb, SURB_BUCKETS, t) # Missing =>
                /\ RaisedTo(pk, sb, t) # Missing /\ RaisedTo(pk, sb, t).at = t
                /\ (pk # Missing => pk.value = WindowValue(sb, SURB_BUCKETS, t)) =>
                        RaisedTo(pk, sb, t).value = WindowValue(sb, SURB_BUCKETS, t)
<1> DEFINE v == WindowValue(sb, SURB_BUCKETS, t)
           d == PeakOf(pk, t)
<1>1. v \in Known
  BY WindowValueIs
<1>2. d \in Known /\ (d = Missing <=> pk = Missing) /\ (pk # Missing => d <= pk.value)
  BY PeakOfIs
<1> HIDE DEF v, d
<1>3. RaisedTo(pk, sb, t) = RaisedPeak(pk, d, v, t)
  BY DEF RaisedTo, v, d
<1>4. t <= t
  BY DecayAssumption DEF Slices
<1>5. CASE v = Missing
  BY <1>3, <1>5 DEF RaisedPeak, v
<1>6. CASE v # Missing
  <2> DEFINE x == IF d = Missing THEN v ELSE Larger(d, v)
  <2>1. v \in Nat
    BY <1>1, <1>6 DEF Known
  <2>2. x \in Nat
    BY <1>2, <2>1 DEF Known, Larger
  <2>3. pk # Missing /\ pk.value = v => x = v
    BY <1>2, <2>1 DEF Known, Larger
  <2>4. pk = Missing => x = v
    BY <1>2
  <2>5. RaisedTo(pk, sb, t) = [value |-> x, at |-> t]
    BY <1>3, <1>6 DEF RaisedPeak
  <2> HIDE DEF x
  <2>6. RaisedTo(pk, sb, t) \in [value : Nat, at : Slices] /\ RaisedTo(pk, sb, t).value = x /\ RaisedTo(pk, sb, t).at = t
    BY <2>2, <2>5
  <2>7. RaisedTo(pk, sb, t) # Missing
    BY <2>6, MissingIsNone
  <2> QED
    BY <1>4, <1>6, <2>3, <2>4, <2>6, <2>7 DEF Peaks, v
<1> QED
  BY <1>5, <1>6

WithImmediate(o, x, t) == [[o EXCEPT !.last_update = t] EXCEPT !.immediate = x]
WithIntermediate(o, x, t) == [[o EXCEPT !.last_update = t] EXCEPT !.intermediate = x]

LEMMA PartReplaced ==
    ASSUME NEW o \in ObsType, NEW t \in Slices, NEW x \in ImmediatesType, NEW y \in IntermediatesType
    PROVE  /\ WithImmediate(o, x, t) \in ObsType /\ Immediates(WithImmediate(o, x, t)) = x
           /\ Intermediates(WithImmediate(o, x, t)) = Intermediates(o)
           /\ WithIntermediate(o, y, t) \in ObsType /\ Intermediates(WithIntermediate(o, y, t)) = y
           /\ Immediates(WithIntermediate(o, y, t)) = Immediates(o)
<1>1. x # Missing /\ y # Missing
  BY MissingIsNone
<1>2. /\ WithImmediate(o, x, t) \in ObsType /\ WithImmediate(o, x, t).immediate = x
      /\ WithImmediate(o, x, t).intermediate = o.intermediate
  BY DEF WithImmediate, ObsType
<1>3. /\ WithIntermediate(o, y, t) \in ObsType /\ WithIntermediate(o, y, t).intermediate = y
      /\ WithIntermediate(o, y, t).immediate = o.immediate
  BY DEF WithIntermediate, ObsType
<1> QED
  BY <1>1, <1>2, <1>3 DEF Immediates, Intermediates

LEMMA PartsTyped ==
    ASSUME NEW o \in ObsType
    PROVE  Immediates(o) \in ImmediatesType /\ Intermediates(o) \in IntermediatesType
<1>1. o.immediate \in ImmediatesType \cup {Missing} /\ o.intermediate \in IntermediatesType \cup {Missing}
  BY DEF ObsType
<1> QED
  BY <1>1, NothingObserved DEF Immediates, Intermediates

\* What a measurement changes, and what it leaves alone.
LEMMA RecordIs ==
    ASSUME NEW o \in ObsType, NEW t \in Slices, NEW m \in Measurements,
           Immediates(o).link \in Links, Intermediates(o).link \in Links,
           WindowInv(Intermediates(o).surb, Intermediates(o).surb_peak, t), NEW r, r = Record(o, m, t)
    PROVE  /\ r \in ObsType
           /\ IF m.kind = "Immediate" THEN Immediates(r).link = LinkRecord(Immediates(o).link, m.value)
              ELSE Immediates(r).link = Immediates(o).link
           /\ IF m.kind = "Intermediate" THEN Intermediates(r).link = LinkRecord(Intermediates(o).link, m.value)
              ELSE Intermediates(r).link = Intermediates(o).link
           /\ IF m.kind = "Surb"
              THEN /\ Intermediates(r).surb = Counted(Intermediates(o).surb, m.value[1], m.value[2], t)
                   /\ Intermediates(r).surb_peak = RaisedTo(Intermediates(o).surb_peak, Intermediates(r).surb, t)
              ELSE /\ Intermediates(r).surb = Intermediates(o).surb
                   /\ Intermediates(r).surb_peak = Intermediates(o).surb_peak
<1> DEFINE x == Immediates(o)
           y == Intermediates(o)
<1>1. x \in ImmediatesType /\ y \in IntermediatesType
  BY PartsTyped
<1>2. x.link \in Links /\ y.link \in Links
  OBVIOUS
<1>3. /\ y.surb \in Window /\ y.surb_peak \in Peaks /\ (y.surb_peak # Missing => y.surb_peak.at <= t)
  BY DEF WindowInv, Window, Peaks
<1>4. \A z \in Links : z \in LinkType
  BY DEF Links
<1> HIDE DEF x, y
<1>5. CASE m.kind = "Immediate"
  <2> DEFINE link == LinkRecord(x.link, m.value)
  <2>1. m.value \in Int \cup {Missing}
    <3>1. m.value \in Latencies \cup {Missing}
      BY <1>5 DEF Measurements
    <3>2. Latencies \subseteq Nat
      BY EvidenceAssumption
    <3>3. m.value \in Nat \/ m.value = Missing
      BY <3>1, <3>2, Zenon
    <3> QED
      BY <3>3
  <2>2. link \in LinkType
    BY <1>2, <1>4, <2>1, LinkRecordIs
  <2>3. r = WithImmediate(o, Linked(x, link), t)
    BY <1>5, Zenon DEF Record, WithImmediate, Linked, x
  <2> HIDE DEF link
  <2>4. Linked(x, link) \in ImmediatesType /\ Linked(x, link).link = link
    BY <1>1, <2>2, LinkedImmediates
  <2>5. r \in ObsType /\ Immediates(r) = Linked(x, link) /\ Intermediates(r) = y
    BY <1>1, <2>3, <2>4, PartReplaced DEF y
  <2> QED
    BY <1>5, <2>4, <2>5 DEF x, y, link
<1>6. CASE m.kind = "Intermediate"
  <2> DEFINE link == LinkRecord(y.link, m.value)
  <2>1. m.value \in Int \cup {Missing}
    <3>1. m.value \in Latencies \cup {Missing}
      BY <1>6 DEF Measurements
    <3>2. Latencies \subseteq Nat
      BY EvidenceAssumption
    <3>3. m.value \in Nat \/ m.value = Missing
      BY <3>1, <3>2, Zenon
    <3> QED
      BY <3>3
  <2>2. link \in LinkType
    BY <1>2, <1>4, <2>1, LinkRecordIs
  <2>3. r = WithIntermediate(o, Linked(y, link), t)
    BY <1>6, Zenon DEF Record, WithIntermediate, Linked, y
  <2> HIDE DEF link
  <2>4. /\ Linked(y, link) \in IntermediatesType /\ Linked(y, link).link = link
        /\ Linked(y, link).surb = y.surb /\ Linked(y, link).surb_peak = y.surb_peak
    BY <1>1, <2>2, LinkedIntermediates
  <2>5. r \in ObsType /\ Intermediates(r) = Linked(y, link) /\ Immediates(r) = x
    BY <1>1, <2>3, <2>4, PartReplaced DEF x
  <2> QED
    BY <1>6, <2>4, <2>5 DEF x, y, link
<1>7. CASE m.kind = "Connected"
  <2> DEFINE z == [x EXCEPT !.is_connected = m.value]
  <2>1. m.value \in BOOLEAN
    BY <1>7 DEF Measurements
  <2>2. z \in ImmediatesType /\ z.link = x.link
    BY <1>1, <2>1 DEF ImmediatesType
  <2>3. r = WithImmediate(o, z, t)
    BY <1>7, Zenon DEF Record, WithImmediate, x
  <2> HIDE DEF z
  <2>4. r \in ObsType /\ Immediates(r) = z /\ Intermediates(r) = y
    BY <1>1, <2>2, <2>3, PartReplaced DEF y
  <2> QED
    BY <1>7, <2>2, <2>4 DEF x, y
<1>8. CASE m.kind = "Balance"
  <2> DEFINE z == [y EXCEPT !.balance = m.value]
  <2>1. m.value \in {Missing, 1}
    BY <1>8 DEF Measurements
  <2>2. z \in IntermediatesType /\ z.link = y.link /\ z.surb = y.surb /\ z.surb_peak = y.surb_peak
    BY <1>1, <2>1 DEF IntermediatesType
  <2>3. r = WithIntermediate(o, z, t)
    BY <1>8, Zenon DEF Record, WithIntermediate, y
  <2> HIDE DEF z
  <2>4. r \in ObsType /\ Intermediates(r) = z /\ Immediates(r) = x
    BY <1>1, <2>2, <2>3, PartReplaced DEF x
  <2> QED
    BY <1>8, <2>2, <2>4 DEF x, y
<1>9. CASE m.kind = "Conformance"
  <2> DEFINE sent == AckDecay(x.messages_sent, m.value[1])
             got == AckDecay(x.acks_received, m.value[2])
             z == [x EXCEPT !.messages_sent = sent, !.acks_received = got]
  <2>1. m.value[1] \in Nat /\ m.value[2] \in Nat
    <3>1. m.value \in {<<1, 0>>, <<1, 1>>}
      BY <1>9 DEF Measurements
    <3> QED
      BY <3>1
  <2>2. x.messages_sent \in Nat /\ x.acks_received \in Nat
    BY <1>1 DEF ImmediatesType
  <2>3. sent \in Nat /\ got \in Nat
    <3>1. \A c, n \in Nat : AckDecay(c, n) \in Nat
      <4> TAKE c, n \in Nat
      <4>1. c * 9 \in Nat /\ 10 \in Nat \ {0} /\ 10 * n \in Nat
        OBVIOUS
      <4>2. (c * 9) \div 10 \in Nat
        BY <4>1, Divides
      <4> QED
        BY <4>1, <4>2 DEF AckDecay
    <3> QED
      BY <2>1, <2>2, <3>1
  <2>4. r = WithImmediate(o, z, t)
    BY <1>9, Zenon DEF Record, WithImmediate, x
  <2> HIDE DEF sent, got
  <2>5. z \in ImmediatesType /\ z.link = x.link
    BY <1>1, <2>3 DEF ImmediatesType
  <2> HIDE DEF z
  <2>6. r \in ObsType /\ Immediates(r) = z /\ Intermediates(r) = y
    BY <1>1, <2>4, <2>5, PartReplaced DEF y
  <2> QED
    BY <1>9, <2>5, <2>6 DEF x, y
<1>10. CASE m.kind = "Surb"
  <2> DEFINE e == m.value[1]
             b == m.value[2]
             sb == Counted(y.surb, e, b, t)
             pk == RaisedTo(y.surb_peak, sb, t)
             z == [y EXCEPT !.surb = sb, !.surb_peak = pk]
  <2>1. e \in Nat /\ b \in Nat
    <3>1. m.value \in Traffic
      BY <1>10 DEF Measurements
    <3> QED
      BY <3>1, EvidenceAssumption
  <2>2. sb \in Window
    BY <1>3, <2>1, CountedIs
  <2>3. r = WithIntermediate(o, RecordSurbRoundTrips(y, e, b, t), t)
    BY <1>10, Zenon DEF Record, WithIntermediate, y
  <2>4. RecordSurbRoundTrips(y, e, b, t) = z
    BY DEF RecordSurbRoundTrips, RaisedTo, PeakOf, PeakAt, Counted
  <2> HIDE DEF sb
  <2>5. pk \in Peaks
    BY <1>3, <2>2, RaisedToIs
  <2> HIDE DEF e, b, pk
  <2>6. z \in IntermediatesType /\ z.link = y.link /\ z.surb = sb /\ z.surb_peak = pk
    BY <1>1, <2>2, <2>5 DEF IntermediatesType, Window, Peaks
  <2> HIDE DEF z
  <2>7. r \in ObsType /\ Intermediates(r) = z /\ Immediates(r) = x
    BY <1>1, <2>3, <2>4, <2>6, PartReplaced DEF x
  <2> QED
    BY <1>10, <2>6, <2>7 DEF x, y, e, b, sb, pk
<1>11. m.kind \in {"Immediate", "Intermediate", "Connected", "Balance", "Conformance", "Surb"}
  BY DEF Measurements
<1> QED
  BY <1>5, <1>6, <1>7, <1>8, <1>9, <1>10, <1>11

\* The step of a measurement, by what it reports.
LEMMA HeardGrows ==
    ASSUME HeardInv(heard), NEW m \in Measurements
    PROVE  /\ HeardInv(heard \cup {News(m)})
           /\ m.kind # "Surb" => News(m) = <<m.kind, Missing>>
           /\ m.kind = "Surb" => /\ News(m)[1] = "Surb"
                                 /\ \A r \in Nat \ {0} : News(m)[2] = r => AtRate(r, m.value[1], m.value[2])
<1> DEFINE n == News(m)
<1>1. CASE m.kind # "Surb"
  <2>1. n = <<m.kind, Missing>>
    BY <1>1 DEF News
  <2>2. n = <<n[1], n[2]>> /\ n[1] # "Surb" /\ n[2] = Missing
    BY <1>1, <2>1
  <2> HIDE DEF n
  <2>3. HeardInv(heard \cup {n})
    <3>1. RatiosOf(heard \cup {n}) = RatiosOf(heard)
      BY <2>2 DEF RatiosOf
    <3> QED
      BY <2>2, <3>1 DEF HeardInv
  <2> QED
    BY <1>1, <2>1, <2>3 DEF n
<1>2. CASE m.kind = "Surb"
  <2> DEFINE a == m.value[1]
             b == m.value[2]
             v == IF a = 0 THEN Missing ELSE Ratio(b, a)
  <2>1. m.value \in Traffic /\ a \in Nat /\ b \in Nat
    <3>1. m.value \in Traffic
      BY <1>2 DEF Measurements
    <3> QED
      BY <3>1, EvidenceAssumption
  <2>2. a > 0 /\ b > 0 => Unit * b >= 2 * a
    BY <2>1, EvidenceAssumption
  <2>3. n = <<"Surb", v>>
    BY <1>2 DEF News
  <2> HIDE DEF a, b
  <2>4. v \in (Nat \ {1}) \cup {Missing}
    <3>1. CASE a = 0
      BY <3>1
    <3>2. CASE a # 0
      <4>1. Unit * b \in Nat /\ a \in Nat \ {0} /\ (b = 0 => Unit * b = 0)
        BY <2>1, <3>2, DecayAssumption
      <4>2. (Unit * b) \div a \in Nat /\ Unit * b < ((Unit * b) \div a + 1) * a /\ ((Unit * b) \div a) * a <= Unit * b
        BY <4>1, Divides
      <4>3. (Unit * b) \div a # 1
        <5> SUFFICES ASSUME (Unit * b) \div a = 1 PROVE FALSE
          OBVIOUS
        <5>1. Unit * b < 2 * a /\ a <= Unit * b
          BY <4>1, <4>2
        <5> QED
          BY <2>1, <2>2, <4>1, <5>1
      <4> QED
        BY <3>2, <4>2, <4>3 DEF Ratio
    <3> QED
      BY <3>1, <3>2
  <2>5. \A r \in Nat \ {0} : v = r => AtRate(r, a, b)
    <3> TAKE r \in Nat \ {0}
    <3> HAVE v = r
    <3>1. a # 0
      BY MissingIsNone
    <3> QED
      BY <2>1, <3>1, RatioAtRate
  <2> HIDE DEF v
  <2>6. n = <<n[1], n[2]>> /\ n[1] = "Surb" /\ n[2] = v
    BY <2>3
  <2> HIDE DEF n
  <2>7. HeardInv(heard \cup {n})
    <3>1. RatiosOf(heard \cup {n}) = RatiosOf(heard) \cup {n[2]}
      BY <2>6 DEF RatiosOf
    <3>3. IsFiniteSet(RatiosOf(heard))
      BY DEF HeardInv
    <3>4. IsFiniteSet(RatiosOf(heard) \cup {n[2]})
      BY <3>3, FS_AddElement
    <3>2. IsFiniteSet(RatiosOf(heard \cup {n}))
      BY <3>1, <3>4
    <3> QED
      BY <2>4, <2>6, <3>2 DEF HeardInv
  <2> QED
    BY <1>2, <2>5, <2>6, <2>7 DEF n, a, b
<1> QED
  BY <1>1, <1>2

LEMMA LinksFollow ==
    ASSUME NEW near, NEW far, NEW near1, NEW far1, NEW hd, NEW m, LinksInv(near, far, hd), NEW n,
           IF m.kind = "Immediate" THEN near1 \in Links /\ near1.samples > 0 ELSE near1 = near,
           IF m.kind = "Intermediate" THEN far1 \in Links /\ far1.samples > 0 ELSE far1 = far,
           m.kind # "Surb" => n = <<m.kind, Missing>>, m.kind = "Surb" => n[1] = "Surb"
    PROVE  LinksInv(near1, far1, hd \cup {n})
<1>1. n = <<"Immediate", Missing>> <=> m.kind = "Immediate"
  <2>1. CASE m.kind = "Surb"
    BY <2>1
  <2>2. CASE m.kind # "Surb"
    BY <2>2
  <2> QED
    BY <2>1, <2>2
<1>2. n = <<"Intermediate", Missing>> <=> m.kind = "Intermediate"
  <2>1. CASE m.kind = "Surb"
    BY <2>1
  <2>2. CASE m.kind # "Surb"
    BY <2>2
  <2> QED
    BY <2>1, <2>2
<1> QED
  BY <1>1, <1>2, Zenon DEF LinksInv

\* A report is counted, and the window shows it at once.
LEMMA WindowFollows ==
    ASSUME NEW sb, NEW pk, NEW t, WindowInv(sb, pk, t), NEW e \in Nat, NEW o \in Nat
    PROVE  LET new == Counted(sb, e, o, t) IN WindowInv(new, RaisedTo(pk, new, t), t)
<1> DEFINE new == Counted(sb, e, o, t)
           up == RaisedTo(pk, new, t)
           v == WindowValue(new, SURB_BUCKETS, t)
<1>1. /\ t \in Slices /\ sb \in Window /\ pk \in Peaks /\ (pk # Missing => pk.at <= t)
      /\ \A s \in Slices : s > t => sb[s] = <<0, 0>>
      /\ \A s \in Slices : sb[s][1] > 0 => pk # Missing /\ s <= pk.at
  BY DEF WindowInv, Window, Peaks
<1>2. /\ new \in Window /\ new[t][1] = sb[t][1] + e
      /\ \A s \in Slices : s # t => new[s] = sb[s]
  <2>1. sb \in Window /\ t \in Slices /\ e \in Nat /\ o \in Nat
    BY <1>1
  <2> HIDE DEF new
  <2>2. /\ Counted(sb, e, o, t) \in Window
        /\ Counted(sb, e, o, t)[t][1] = sb[t][1] + e /\ Counted(sb, e, o, t)[t][2] = sb[t][2] + o
        /\ \A s \in Slices : s # t => Counted(sb, e, o, t)[s] = sb[s]
    <3>1. Counted(sb, e, o, t) \in Window
      BY ONLY <2>1, CountedIs
    <3>2. Counted(sb, e, o, t)[t][1] = sb[t][1] + e
      BY ONLY <2>1, CountedIs
    <3>3. Counted(sb, e, o, t)[t][2] = sb[t][2] + o
      BY ONLY <2>1, CountedIs
    <3>4. \A s \in Slices : s # t => Counted(sb, e, o, t)[s] = sb[s]
      BY ONLY <2>1, CountedIs
    <3> QED
      BY ONLY <3>1, <3>2, <3>3, <3>4
  <2> QED
    BY ONLY <2>2 DEF new
<1> HIDE DEF new
<1>3. /\ up \in Peaks /\ (up # Missing => up.at <= t) /\ (v = Missing => up = pk)
      /\ v # Missing => up # Missing /\ up.at = t
  BY <1>1, <1>2, RaisedToIs
<1>4. t \in Int /\ SURB_BUCKETS \in Nat \ {0}
  BY <1>1, DecayAssumption DEF Slices
<1>5. v = Missing => new[t][1] = 0
  <2>1. t \in WindowSlices(SURB_BUCKETS, t)
    BY <1>1, <1>4, NowInWindow
  <2> QED
    BY <1>2, <2>1, WindowValueIs
<1> HIDE DEF v, up
<1>6. \A s \in Slices : s > t => new[s] = <<0, 0>>
  BY <1>1, <1>2, <1>4
<1>7. ASSUME NEW s \in Slices, new[s][1] > 0 PROVE up # Missing /\ s <= up.at
  <2>1. s \in Int
    BY DecayAssumption DEF Slices
  <2>2. s <= t
    <3> SUFFICES ASSUME s > t PROVE FALSE
      BY <1>4, <2>1
    <3>1. new[s][1] = 0
      BY <1>6
    <3> QED
      BY <1>7, <3>1
  <2>3. CASE v # Missing
    BY <1>3, <2>2, <2>3
  <2>4. CASE v = Missing
    <3>1. s # t
      BY <1>5, <1>7, <2>4
    <3>2. sb[s][1] > 0
      BY <1>2, <1>7, <3>1
    <3> QED
      BY <1>1, <1>3, <2>4, <3>2
  <2> QED
    BY <2>3, <2>4
<1>8. WindowInv(new, up, t)
  BY <1>1, <1>2, <1>3, <1>6, <1>7 DEF WindowInv, Window, Peaks
<1> QED
  BY <1>8 DEF up, new

LEMMA SteadyFollows ==
    ASSUME NEW sb, NEW pk, NEW t, WindowInv(sb, pk, t), NEW hd, SteadyInv(sb, pk, hd), NEW n,
           NEW e \in Nat, NEW o \in Nat, n[1] = "Surb", \A r \in Nat \ {0} : n[2] = r => AtRate(r, e, o)
    PROVE  LET new == Counted(sb, e, o, t) IN SteadyInv(new, RaisedTo(pk, new, t), hd \cup {n})
<1> DEFINE new == Counted(sb, e, o, t)
           up == RaisedTo(pk, new, t)
           v == WindowValue(new, SURB_BUCKETS, t)
<1>1. t \in Slices /\ sb \in Window /\ pk \in Peaks /\ (pk # Missing => pk.at <= t)
  BY DEF WindowInv, Window, Peaks
<1>2. /\ new \in Window /\ new[t][1] = sb[t][1] + e /\ new[t][2] = sb[t][2] + o
      /\ \A s \in Slices : s # t => new[s] = sb[s]
  <2>1. sb \in Window /\ t \in Slices /\ e \in Nat /\ o \in Nat
    BY <1>1
  <2> HIDE DEF new
  <2>2. /\ Counted(sb, e, o, t) \in Window
        /\ Counted(sb, e, o, t)[t][1] = sb[t][1] + e /\ Counted(sb, e, o, t)[t][2] = sb[t][2] + o
        /\ \A s \in Slices : s # t => Counted(sb, e, o, t)[s] = sb[s]
    <3>1. Counted(sb, e, o, t) \in Window
      BY ONLY <2>1, CountedIs
    <3>2. Counted(sb, e, o, t)[t][1] = sb[t][1] + e
      BY ONLY <2>1, CountedIs
    <3>3. Counted(sb, e, o, t)[t][2] = sb[t][2] + o
      BY ONLY <2>1, CountedIs
    <3>4. \A s \in Slices : s # t => Counted(sb, e, o, t)[s] = sb[s]
      BY ONLY <2>1, CountedIs
    <3> QED
      BY ONLY <3>1, <3>2, <3>3, <3>4
  <2> QED
    BY ONLY <2>2 DEF new
<1>3. sb[t][1] \in Nat /\ sb[t][2] \in Nat
  BY <1>1 DEF Window
<1> HIDE DEF new
<1>4. /\ v = Missing => up = pk
      /\ v # Missing => up # Missing /\ ((pk # Missing => pk.value = v) => up.value = v)
  BY <1>1, <1>2, RaisedToIs
<1>5. \A r \in Nat : (\A s \in Slices : AtRate(r, new[s][1], new[s][2])) /\ v # Missing => v = r
  BY <1>2, WindowValueIs
<1> HIDE DEF up, v
<1>6. ASSUME NEW r \in Nat \ {0}, \A h \in hd \cup {n} : h[1] = "Surb" => h[2] = r
      PROVE  /\ \A s \in Slices : AtRate(r, new[s][1], new[s][2])
             /\ up # Missing => up.value = r
  <2>1. (\A s \in Slices : AtRate(r, sb[s][1], sb[s][2])) /\ (pk # Missing => pk.value = r)
    BY <1>6 DEF SteadyInv
  <2>2. AtRate(r, e, o)
    BY <1>6
  <2>3. AtRate(r, sb[t][1] + e, sb[t][2] + o)
    BY <1>1, <1>3, <2>1, <2>2, RatesAdd
  <2>4. \A s \in Slices : AtRate(r, new[s][1], new[s][2])
    BY <1>2, <2>1, <2>3
  <2>5. v # Missing => v = r
    BY <1>5, <2>4
  <2> QED
    BY <1>4, <2>1, <2>4, <2>5
<1>7. SteadyInv(new, up, hd \cup {n})
  BY <1>6 DEF SteadyInv
<1> QED
  BY <1>7 DEF new, up

LEMMA WeightStarts == ASSUME WeightInit PROVE WeightInv
<1>1. obs = NoObservations /\ now = 0 /\ heard = {}
  BY DEF WeightInit
<1>2. 0 \in Slices
  BY DecayAssumption DEF Slices
<1>3. Immediates(obs) = NoImmediates /\ Intermediates(obs) = NoIntermediates
  BY <1>1 DEF NoObservations, Immediates, Intermediates
<1>4. obs \in ObsType
  BY <1>1, <1>2 DEF NoObservations, ObsType
<1>5. HeardInv(heard)
  <2>1. RatiosOf(heard) = {}
    BY <1>1 DEF RatiosOf
  <2> QED
    BY <1>1, <2>1, FS_EmptySet DEF HeardInv
<1>6. LinksInv(NoLink, NoLink, heard)
  BY <1>1, NothingObserved DEF LinksInv
<1>7. WindowInv(NoIntermediates.surb, Missing, now)
  <2>1. NoIntermediates.surb \in Window /\ \A s \in Slices : NoIntermediates.surb[s] = <<0, 0>>
    BY NothingObserved
  <2>2. \A s \in Slices : NoIntermediates.surb[s][1] = 0
    BY <2>1
  <2> QED
    BY <1>1, <1>2, <2>1, <2>2 DEF WindowInv, Window
<1>8. SteadyInv(NoIntermediates.surb, Missing, heard)
  <2>1. \A s \in Slices : NoIntermediates.surb[s][1] = 0 /\ NoIntermediates.surb[s][2] = 0
    BY NothingObserved
  <2>2. \A r \in Nat \ {0} : AtRate(r, 0, 0)
    BY DecayAssumption DEF AtRate
  <2> QED
    BY <2>1, <2>2 DEF SteadyInv
<1> QED
  BY <1>3, <1>4, <1>5, <1>6, <1>7, <1>8, NothingObserved DEF WeightInv

LEMMA WeightStep == ASSUME WeightInv, [WeightNext]_weightVars PROVE WeightInv'
<1> DEFINE near == Immediates(obs)
           far == Intermediates(obs)
<1>1. /\ obs \in ObsType /\ HeardInv(heard) /\ LinksInv(near.link, far.link, heard)
      /\ WindowInv(far.surb, far.surb_peak, now) /\ SteadyInv(far.surb, far.surb_peak, heard)
  BY DEF WeightInv
<1>2. now \in Slices /\ near.link \in Links /\ far.link \in Links
  BY <1>1 DEF WindowInv, LinksInv
<1>3. CASE UNCHANGED weightVars
  BY <1>1, <1>3 DEF weightVars, WeightInv, Immediates, Intermediates
<1>4. CASE SlicePasses
  <2>1. now < MaxSlices /\ now' = now + 1 /\ UNCHANGED <<obs, heard>>
    BY <1>4 DEF SlicePasses
  <2>2. far' = far /\ near' = near
    BY <2>1 DEF Immediates, Intermediates
  <2>3. now' \in Slices /\ now < now'
    BY <1>2, <2>1, DecayAssumption DEF Slices
  <2>4. WindowInv(far.surb, far.surb_peak, now')
    <3> DEFINE sb == far.surb
               pk == far.surb_peak
    <3>1. /\ sb \in [Slices -> Nat \X Nat] /\ pk \in [value : Nat, at : Slices] \cup {Missing}
          /\ \A s \in Slices : s > now => sb[s] = <<0, 0>>
          /\ pk # Missing => pk.at <= now
          /\ \A s \in Slices : sb[s][1] > 0 => pk # Missing /\ s <= pk.at
      BY <1>1 DEF WindowInv
    <3> HIDE DEF sb, pk
    <3>2. Slices \subseteq Int /\ (pk # Missing => pk.at \in Slices)
      BY <3>1, DecayAssumption DEF Slices
    <3>3. \A s \in Slices : s > now' => s > now
      BY <1>2, <2>3, <3>2
    <3>4. ASSUME pk # Missing PROVE pk.at <= now'
      <4> DEFINE p == pk.at
      <4>1. p <= now /\ p \in Slices
        BY <3>1, <3>2, <3>4
      <4> HIDE DEF p
      <4>2. p \in Int /\ now \in Int /\ now' \in Int
        BY <1>2, <2>3, <3>2, <4>1
      <4>3. p <= now'
        BY <2>3, <4>1, <4>2
      <4> QED
        BY <4>3 DEF p
    <3>5. WindowInv(sb, pk, now')
      BY <2>3, <3>1, <3>3, <3>4 DEF WindowInv
    <3> QED
      BY <3>5 DEF sb, pk
  <2> HIDE DEF near, far
  <2>5. /\ obs' \in ObsType /\ HeardInv(heard') /\ LinksInv(near'.link, far'.link, heard')
        /\ WindowInv(far'.surb, far'.surb_peak, now') /\ SteadyInv(far'.surb, far'.surb_peak, heard')
    BY <1>1, <2>1, <2>2, <2>4
  <2> QED
    BY <2>5 DEF WeightInv, near, far
<1>5. ASSUME NEW m \in Measurements, Measure(m) PROVE WeightInv'
  <2> DEFINE n == News(m)
  <2>1. obs' = Record(obs, m, now) /\ heard' = heard \cup {n} /\ now' = now
    BY <1>5 DEF Measure
  <2>2. /\ obs' \in ObsType
        /\ IF m.kind = "Immediate" THEN near'.link = LinkRecord(near.link, m.value) ELSE near'.link = near.link
        /\ IF m.kind = "Intermediate" THEN far'.link = LinkRecord(far.link, m.value) ELSE far'.link = far.link
        /\ IF m.kind = "Surb" THEN /\ far'.surb = Counted(far.surb, m.value[1], m.value[2], now)
                                   /\ far'.surb_peak = RaisedTo(far.surb_peak, far'.surb, now)
           ELSE far'.surb = far.surb /\ far'.surb_peak = far.surb_peak
    <3>1. \A r : r = Record(obs, m, now) =>
            /\ r \in ObsType
            /\ IF m.kind = "Immediate" THEN Immediates(r).link = LinkRecord(near.link, m.value)
               ELSE Immediates(r).link = near.link
            /\ IF m.kind = "Intermediate" THEN Intermediates(r).link = LinkRecord(far.link, m.value)
               ELSE Intermediates(r).link = far.link
            /\ IF m.kind = "Surb" THEN /\ Intermediates(r).surb = Counted(far.surb, m.value[1], m.value[2], now)
                                       /\ Intermediates(r).surb_peak = RaisedTo(far.surb_peak, Intermediates(r).surb, now)
               ELSE Intermediates(r).surb = far.surb /\ Intermediates(r).surb_peak = far.surb_peak
      BY <1>1, <1>2, <1>5, RecordIs, Zenon
    <3> QED
      BY <2>1, <3>1, Zenon DEF Immediates, Intermediates
  <2> HIDE DEF near, far
  <2>3. /\ HeardInv(heard \cup {n})
        /\ m.kind # "Surb" => n = <<m.kind, Missing>>
        /\ m.kind = "Surb" => n[1] = "Surb" /\ \A r \in Nat \ {0} : n[2] = r => AtRate(r, m.value[1], m.value[2])
    BY <1>1, <1>5, HeardGrows
  <2> HIDE DEF n
  <2>4. m.kind \in {"Immediate", "Intermediate"} => m.value \in Int \cup {Missing}
    <3>1. m.kind \in {"Immediate", "Intermediate"} => m.value \in Latencies \cup {Missing}
      BY <1>5 DEF Measurements
    <3>2. Latencies \subseteq Nat
      BY EvidenceAssumption
    <3>3. m.kind \in {"Immediate", "Intermediate"} => m.value \in Nat \/ m.value = Missing
      BY <3>1, <3>2, Zenon
    <3> QED
      BY <3>3
  <2>5. LinksInv(near'.link, far'.link, heard \cup {n})
    <3>1. IF m.kind = "Immediate" THEN near'.link \in Links /\ near'.link.samples > 0 ELSE near'.link = near.link
      BY <1>2, <2>2, <2>4, LinkRecordIs
    <3>2. IF m.kind = "Intermediate" THEN far'.link \in Links /\ far'.link.samples > 0 ELSE far'.link = far.link
      BY <1>2, <2>2, <2>4, LinkRecordIs
    <3> QED
      BY <1>1, <2>3, <3>1, <3>2, LinksFollow
  <2>6. WindowInv(far'.surb, far'.surb_peak, now) /\ SteadyInv(far'.surb, far'.surb_peak, heard \cup {n})
    <3>1. CASE m.kind = "Surb"
      <4>1. m.value[1] \in Nat /\ m.value[2] \in Nat
        <5>1. m.value \in Traffic
          BY <1>5, <3>1 DEF Measurements
        <5> QED
          BY <5>1, EvidenceAssumption
      <4>2. WindowInv(far'.surb, RaisedTo(far.surb_peak, far'.surb, now), now)
        <5> DEFINE new == Counted(far.surb, m.value[1], m.value[2], now)
        <5>1. WindowInv(new, RaisedTo(far.surb_peak, new, now), now)
          BY <1>1, <4>1, WindowFollows, Zenon
        <5> QED
          BY <2>2, <3>1, <5>1, Zenon
      <4>3. SteadyInv(far'.surb, RaisedTo(far.surb_peak, far'.surb, now), heard \cup {n})
        BY <1>1, <2>2, <2>3, <3>1, <4>1, SteadyFollows
      <4> QED
        BY <2>2, <3>1, <4>2, <4>3
    <3>2. CASE m.kind # "Surb"
      <4>1. SteadyInv(far.surb, far.surb_peak, heard \cup {n})
        BY <1>1 DEF SteadyInv
      <4> QED
        BY <1>1, <2>2, <3>2, <4>1
    <3> QED
      BY <3>1, <3>2
  <2> QED
    BY <2>1, <2>2, <2>3, <2>5, <2>6 DEF WeightInv, near, far
<1> QED
  BY <1>3, <1>4, <1>5 DEF WeightNext

LEMMA WeightAlways == Spec => [](part = "weights" => WeightInv)
<1> DEFINE Inv == part = "weights" => WeightInv
<1>1. Init => Inv
  BY WeightStarts DEF Init
<1>2. Inv /\ [Next]_vars => Inv'
  <2> SUFFICES ASSUME Inv, [Next]_vars, part' = "weights" PROVE WeightInv'
    BY Zenon
  <2>1. part = "weights" /\ [WeightNext]_weightVars
    BY DEF Next, Explore, vars
  <2> QED
    BY <2>1, WeightStep
<1> QED
  BY <1>1, <1>2, PTL DEF Spec

\* What the window shows now, and what is left of the peak.
LEMMA EvidenceIs ==
    ASSUME WeightInv
    PROVE  LET far  == Intermediates(obs)
               full == WindowValue(far.surb, SURB_BUCKETS, now)
               late == WindowValue(far.surb, SURB_RECENT_SLICES, now)
               peak == PeakOf(far.surb_peak, now)
           IN  /\ full \in Known /\ late \in Known /\ peak \in Known
               /\ SurbDeliveryRate(far, now) = Delivery(full, late, peak)
<1> DEFINE far == Intermediates(obs)
<1>1. /\ far.surb \in Window /\ far.surb_peak \in Peaks /\ now \in Slices
      /\ far.surb_peak # Missing => far.surb_peak.at <= now
  BY DEF WeightInv, WindowInv, Window, Peaks
<1> HIDE DEF far
<1>2. WindowValue(far.surb, SURB_BUCKETS, now) \in Known /\ WindowValue(far.surb, SURB_RECENT_SLICES, now) \in Known
  BY <1>1, WindowValueIs
<1>3. PeakOf(far.surb_peak, now) \in Known
  BY <1>1, PeakOfIs
<1> QED
  BY <1>2, <1>3, DeliveryRateIs DEF far

LEMMA MeanIs ==
    ASSUME NEW x \in Int \cup {Missing}, NEW y \in Int \cup {Missing}
    PROVE  MeanObserved(x, y) = Missing <=> x = Missing /\ y = Missing
<1>1. CASE x = Missing \/ y = Missing
  BY <1>1 DEF MeanObserved
<1>2. CASE x # Missing /\ y # Missing
  <2>1. x \in Int /\ y \in Int
    BY <1>2
  <2>2. (x + y) \div 2 \in Int
    BY <2>1
  <2>3. (x + y) \div 2 # Missing
    BY <2>2, MissingIsNone
  <2> QED
    BY <1>2, <2>3 DEF MeanObserved
<1> QED
  BY <1>1, <1>2

\* An edge is scored by its links and by what its window shows.
LEMMA ScoreIs ==
    ASSUME WeightInv
    PROVE  Score(obs, now) # Missing
           <=> \/ Immediates(obs).link.samples # 0 \/ Intermediates(obs).link.samples # 0
               \/ SurbDeliveryRate(Intermediates(obs), now) # Missing
<1> DEFINE near == Immediates(obs)
           far == Intermediates(obs)
           d == SurbDeliveryRate(far, now)
           a == IF obs.immediate = Missing THEN Missing ELSE LinkScore(obs.immediate.link)
           b == IF obs.intermediate = Missing THEN Missing ELSE IntermediateScore(obs.intermediate, now)
<1>1. near.link \in Links /\ far.link \in Links
  BY DEF WeightInv, LinksInv
<1>2. a \in Int \cup {Missing} /\ (a = Missing <=> near.link.samples = 0)
  <2>1. CASE obs.immediate = Missing
    BY <2>1, NothingObserved DEF Immediates
  <2>2. CASE obs.immediate # Missing
    <3>1. near = obs.immediate
      BY <2>2 DEF Immediates
    <3> HIDE DEF near
    <3>2. LinkScore(near.link) \in Int \cup {Missing} /\ (LinkScore(near.link) = Missing <=> near.link.samples = 0)
      BY <1>1, LinkScoreIs
    <3> QED
      BY <2>2, <3>1, <3>2
  <2> QED
    BY <2>1, <2>2
<1>3. d \in Known
  BY EvidenceIs, DeliveryIs
<1>4. /\ IntermediateScore(far, now) \in Int \cup {Missing}
      /\ IntermediateScore(far, now) = Missing <=> d = Missing /\ far.link.samples = 0
  <2> HIDE DEF far
  <2>1. SurbDeliveryRate(far, now) = d
    OBVIOUS
  <2> HIDE DEF d
  <2> QED
    BY <1>1, <1>3, <2>1, IntermediateScoreIs
<1>5. b \in Int \cup {Missing} /\ (b = Missing <=> d = Missing /\ far.link.samples = 0)
  <2>1. CASE obs.intermediate # Missing
    <3>1. far = obs.intermediate
      BY <2>1 DEF Intermediates
    <3> HIDE DEF far, d
    <3> QED
      BY <1>4, <2>1, <3>1
  <2>2. CASE obs.intermediate = Missing
    <3>1. far = NoIntermediates
      BY <2>2 DEF Intermediates
    <3> DEFINE full == WindowValue(far.surb, SURB_BUCKETS, now)
    <3>2. /\ far.surb \in Window /\ far.link.samples = 0
          /\ \A s \in Slices : far.surb[s][1] = 0
      <4>1. \A s \in Slices : NoIntermediates.surb[s] = <<0, 0>>
        BY NothingObserved
      <4>2. \A s \in Slices : NoIntermediates.surb[s][1] = 0
        BY <4>1
      <4> QED
        BY <3>1, <4>2, NothingObserved
    <3>3. full = Missing
      <4>1. \A s \in WindowSlices(SURB_BUCKETS, now) : s \in Slices
        BY DEF WindowSlices
      <4> HIDE DEF far
      <4> QED
        BY <3>2, <4>1, WindowValueIs
    <3>4. d = Missing
      BY <3>3, EvidenceIs, DeliveryIs
    <3> QED
      BY <2>2, <3>2, <3>4
  <2> QED
    BY <2>1, <2>2
<1>6. Score(obs, now) = MeanObserved(a, b)
  BY Zenon DEF Score
<1> HIDE DEF a, b, d, near, far
<1>7. Score(obs, now) = Missing <=> a = Missing /\ b = Missing
  BY <1>2, <1>5, <1>6, MeanIs
<1> QED
  BY <1>2, <1>5, <1>7 DEF near, far, d

LEMMA ScoredIfObserved == ASSUME WeightInv PROVE ScoredIffObserved
<1> DEFINE near == Immediates(obs)
           far == Intermediates(obs)
           full == WindowValue(far.surb, SURB_BUCKETS, now)
           peak == PeakOf(far.surb_peak, now)
           d == SurbDeliveryRate(far, now)
           answered == SurbOf(SURB_BUCKETS) # Missing /\ PeakAt(far, now) \notin {Missing, 0}
<1>1. d # Missing <=> answered
  <2>1. d = Missing <=> full = Missing \/ peak \in {Missing, 0}
    BY EvidenceIs, DeliveryIs
  <2>2. SurbOf(SURB_BUCKETS) = full /\ PeakAt(far, now) = peak
    BY Zenon DEF SurbOf, PeakAt, PeakOf
  <2> QED
    BY <2>1, <2>2
<1>2. /\ near.link.samples \in Nat /\ far.link.samples \in Nat
      /\ near.link.samples > 0 <=> <<"Immediate", Missing>> \in heard
      /\ far.link.samples > 0 <=> <<"Intermediate", Missing>> \in heard
      /\ \A h \in heard : h = <<h[1], h[2]>> /\ (h[1] # "Surb" => h[2] = Missing)
  <2>1. LinksInv(near.link, far.link, heard) /\ HeardInv(heard)
    BY DEF WeightInv
  <2> HIDE DEF near, far
  <2> QED
    BY <2>1 DEF LinksInv, HeardInv, Links, LinkType
<1> HIDE DEF answered, d, full, peak
<1>3. (\E h \in heard : h[1] \in {"Immediate", "Intermediate"}) <=> near.link.samples # 0 \/ far.link.samples # 0
  <2> HIDE DEF near, far
  <2>1. ASSUME NEW h \in heard, h[1] \in {"Immediate", "Intermediate"}
        PROVE  near.link.samples # 0 \/ far.link.samples # 0
    <3>1. h = <<h[1], Missing>>
      BY <1>2, <2>1
    <3>2. <<"Immediate", Missing>> \in heard \/ <<"Intermediate", Missing>> \in heard
      BY <2>1, <3>1
    <3> QED
      BY <1>2, <3>2
  <2>2. ASSUME near.link.samples # 0 PROVE \E h \in heard : h[1] \in {"Immediate", "Intermediate"}
    <3>1. <<"Immediate", Missing>> \in heard
      BY <1>2, <2>2
    <3> QED
      BY <3>1
  <2>3. ASSUME far.link.samples # 0 PROVE \E h \in heard : h[1] \in {"Immediate", "Intermediate"}
    <3>1. <<"Intermediate", Missing>> \in heard
      BY <1>2, <2>3
    <3> QED
      BY <3>1
  <2> QED
    BY <2>1, <2>2, <2>3
<1>4. Score(obs, now) # Missing <=> near.link.samples # 0 \/ far.link.samples # 0 \/ d # Missing
  BY ScoreIs DEF d
<1>5. Score(obs, now) # Missing <=> answered \/ \E h \in heard : h[1] \in {"Immediate", "Intermediate"}
  <2> HIDE DEF near, far
  <2> QED
    BY <1>1, <1>3, <1>4
<1> QED
  BY <1>5, Zenon DEF ScoredIffObserved, answered

LEMMA CollapseSeen == ASSUME WeightInv PROVE CollapseIsSeen
<1> DEFINE far == Intermediates(obs)
           late == WindowValue(far.surb, SURB_RECENT_SLICES, now)
<1>1. SurbOf(SURB_RECENT_SLICES) = late
  BY Zenon DEF SurbOf
<1>2. late = 0 => SurbDeliveryRate(far, now) \in {0, Missing}
  BY EvidenceIs, DeliveryIs
<1> QED
  BY <1>1, <1>2 DEF CollapseIsSeen

LEMMA SteadyFull == ASSUME WeightInv PROVE SteadyIsFull
<1> DEFINE far == Intermediates(obs)
           sb == far.surb
           pk == far.surb_peak
           full == WindowValue(sb, SURB_BUCKETS, now)
           late == WindowValue(sb, SURB_RECENT_SLICES, now)
           peak == PeakOf(pk, now)
           R == RatiosOf(heard)
<1>1. SurbOf(SURB_BUCKETS) = full
  BY Zenon DEF SurbOf
<1> SUFFICES ASSUME Cardinality(R) = 1, R \cap {0, Missing} = {}, full # Missing
             PROVE  SurbDeliveryRate(far, now) = Unit
  BY <1>1, Zenon DEF SteadyIsFull, RatiosOf
<1>2. HeardInv(heard) /\ WindowInv(sb, pk, now) /\ SteadyInv(sb, pk, heard)
  BY DEF WeightInv
<1>3. full \in Known /\ late \in Known /\ peak \in Known /\ SurbDeliveryRate(far, now) = Delivery(full, late, peak)
  BY EvidenceIs
<1> HIDE DEF far, sb, pk, R
<1>4. PICK r : R = {r}
  BY <1>2, FS_Singleton DEF HeardInv, R
<1>5. r \in Nat \ {0} /\ r >= 2 /\ \A h \in heard : h[1] = "Surb" => h[2] = r
  <2>1. r # 0 /\ r # Missing
    BY <1>4
  <2>2. \A h \in heard : h[1] = "Surb" => h[2] \in R
    BY DEF R, RatiosOf
  <2>3. PICK h \in heard : h[1] = "Surb" /\ h[2] = r
    BY <1>4 DEF R, RatiosOf
  <2>4. r \in (Nat \ {1}) \cup {Missing}
    BY <1>2, <2>3 DEF HeardInv
  <2> QED
    BY <1>4, <2>1, <2>2, <2>4
<1>6. (\A s \in Slices : AtRate(r, sb[s][1], sb[s][2])) /\ (pk # Missing => pk.value = r)
  BY <1>2, <1>5 DEF SteadyInv
<1>7. /\ sb \in Window /\ pk \in Peaks /\ now \in Slices /\ (pk # Missing => pk.at <= now)
      /\ \A s \in Slices : sb[s][1] > 0 => pk # Missing /\ s <= pk.at
  BY <1>2 DEF WindowInv, Window, Peaks
<1>8. full = r /\ (late # Missing => late = r)
  BY <1>5, <1>6, <1>7, WindowValueIs
<1>9. pk # Missing /\ now - pk.at <= SURB_BUCKETS
  <2>1. PICK s \in WindowSlices(SURB_BUCKETS, now) : sb[s][1] # 0
    BY <1>7, WindowValueIs
  <2>2. s \in Slices /\ s > now - SURB_BUCKETS
    BY DEF WindowSlices
  <2>3. sb[s][1] > 0
    BY <1>7, <2>1, <2>2 DEF Window
  <2>4. pk # Missing /\ s <= pk.at
    BY <1>7, <2>2, <2>3
  <2>5. s \in Int /\ now \in Int /\ SURB_BUCKETS \in Int /\ pk.at \in Int
    BY <1>7, <2>2, <2>4, DecayAssumption DEF Slices, Peaks
  <2> QED
    BY <2>2, <2>4, <2>5
<1>10. peak \notin {Missing, 0} /\ peak <= full
  <2>1. /\ peak = Missing <=> pk = Missing
        /\ pk # Missing => peak <= pk.value
        /\ pk # Missing /\ pk.value >= 2 /\ now - pk.at <= SURB_BUCKETS => peak # 0
    BY <1>7, PeakOfIs
  <2> HIDE DEF peak
  <2> QED
    BY <1>5, <1>6, <1>8, <1>9, <2>1
<1>11. full \notin {Missing, 0} /\ late \in {full, Missing}
  BY <1>5, <1>8
<1> HIDE DEF full, late, peak
<1> QED
  BY <1>3, <1>10, <1>11, DeliveryIs

\* An edge has a score exactly when it was observed, a relay that lately returned
\* nothing delivers nothing, and one that was always the same delivers fully.
THEOREM ScoresFollowEvidenceCorrect == Spec => []ScoresFollowEvidence
<1>1. WeightInv => ScoreFollowsObservations
  BY ScoredIfObserved, CollapseSeen, SteadyFull DEF ScoreFollowsObservations
<1>2. (part = "weights" => WeightInv) => ScoresFollowEvidence
  BY <1>1 DEF ScoresFollowEvidence
<1> QED
  BY <1>2, WeightAlways, PTL

=============================================================================
