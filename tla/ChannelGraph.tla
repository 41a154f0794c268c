----------------------------- MODULE ChannelGraph -----------------------------
(***************************************************************************)
(* The network graph of a node, shared by everything that reports          *)
(* observations, and the way a report about a path in flight finds the     *)
(* edges it is about.                                                      *)
(*                                                                         *)
(* A path is named by slots, 64-bit values derived from the keys of its    *)
(* nodes, which may collide.  Loopback probes and SURB round trips are     *)
(* answered long after they were sent; nodes and edges come and go in      *)
(* between.  Each call takes the lock of the graph; a call that updates    *)
(* both directions of an edge takes it twice.                              *)
(***************************************************************************)
EXTENDS EdgeWeight, Sequences, SequencesExt

P == INSTANCE PathSearch WITH
        Vertices <- {}, Source <- Missing, Costs <- {}, Budget <- 0, MaxCostly <- 0, Lengths <- {},
        cost <- <<>>, targets <- {}, length <- 0, visited <- <<>>, stack <- <<>>, left <- <<>>,
        yielded <- {}, returns <- 0

CONSTANTS GraphKeys, me,
          Encode,          \* Encode[k]: the slot of a key, never 0
          Starts,          \* sets of keys known from the start, every edge between them recorded
          PathIdLen,       \* slots of a path id
          MIN_LOOPBACK_HOPS, MAX_LOOPBACK_HOPS,
          MaxRtt,          \* max_plausible_loopback_rtt
          Rtts,            \* round-trip times of loopback probes, Missing when it timed out
          MaxOps           \* bound on the calls

ASSUME GraphAssumption ==
    /\ me \in GraphKeys /\ IsFiniteSet(GraphKeys)
    /\ \A known \in Starts : me \in known /\ known \subseteq GraphKeys
    /\ MIN_LOOPBACK_HOPS \in Nat \ {0}
    /\ Encode \in [GraphKeys -> Nat \ {0}] /\ MAX_LOOPBACK_HOPS \in Nat
    /\ PathIdLen \in Nat /\ 3 <= PathIdLen /\ MAX_LOOPBACK_HOPS + 2 <= PathIdLen

VARIABLES vertices,   \* the vertices ever added, by index: an index is not reused
          index,      \* the index of a key, 0 for a key that is not in the graph
          slots,      \* the indices that claim a slot
          weight,     \* the observations of the edges, by pair of indices
          halves,     \* updates of which only the first direction was written
          flying,     \* paths reported about later
          ops,
          attributed, \* (history) reports and the edges they were recorded on
          parted      \* (history) peers whose two directions may differ

graphVars == <<vertices, index, slots, weight, halves, flying, ops, attributed, parted>>

SlotValues == {Encode[k] : k \in GraphKeys}
Nodes == {k \in GraphKeys : index[k] # 0}
Graph == [vertices |-> vertices, index |-> index, slots |-> slots, weight |-> weight]
Becomes(g) == vertices' = g.vertices /\ index' = g.index /\ slots' = g.slots /\ weight' = g.weight

--------------------------------------------------------------------------------
(* Nodes and edges *)

ClaimSlot(g, k, i) == [g EXCEPT !.slots[Encode[k]] = @ \cup {i}]

\* A removed node leaves its vertex behind, so the new vertex has a new index.
AddNode(g, k) ==
    IF g.index[k] # 0 THEN g
    ELSE LET i == Len(g.vertices) + 1
         IN  ClaimSlot([g EXCEPT !.vertices = Append(@, k), !.index[k] = i], k, i)

\* Mutant: the slot is freed for every claimant.
ReleaseForAll(g, k, i) == [g EXCEPT !.slots[Encode[k]] = {}]

ReleaseSlot(g, k, i) == [g EXCEPT !.slots[Encode[k]] = @ \ {i}]

RemoveNode(g, k) ==
    IF g.index[k] = 0 THEN g
    ELSE LET i    == g.index[k]
             kept == {e \in DOMAIN g.weight : e[1] # i /\ e[2] # i}
         IN  [ReleaseSlot(g, k, i) EXCEPT !.index[k] = 0, !.weight = [e \in kept |-> @[e]]]

EdgeOf(g, src, dest) == <<g.index[src], g.index[dest]>>

AddEdge(g, src, dest) ==
    LET e == EdgeOf(g, src, dest)
    IN  IF 0 \in ToSet(e) \/ e \in DOMAIN g.weight THEN g
        ELSE [g EXCEPT !.weight = [d \in DOMAIN @ \cup {e} |-> IF d = e THEN NoObservations ELSE @[d]]]

RemoveEdge(g, src, dest) ==
    LET e == EdgeOf(g, src, dest)
    IN  [g EXCEPT !.weight = [d \in DOMAIN @ \ {e} |-> @[d]]]

\* A report is one measurement, or two that are recorded one after the other.
Recorded(o, ms) ==
    IF Len(ms) = 1 THEN Record(o, ms[1], now) ELSE Record(Record(o, ms[1], now), ms[2], now)

\* The measurements are recorded on each of the edges.
RecordAll(g, edges, ms) ==
    [g EXCEPT !.weight = [e \in DOMAIN @ |-> IF e \in edges THEN Recorded(@[e], ms) ELSE @[e]]]

\* Missing nodes and a missing edge are added before the measurement is recorded.
UpsertEdge(g, src, dest, ms) ==
    LET h == AddEdge(AddNode(AddNode(g, src), dest), src, dest)
    IN  RecordAll(h, {EdgeOf(h, src, dest)}, ms)

\* A node's health is recorded on every edge into it; full health clears it.
SetNodeHealth(g, k, health) ==
    [g EXCEPT !.weight = [e \in DOMAIN @ |->
        IF e[2] = g.index[k] THEN [@[e] EXCEPT !.health = IF health < Unit THEN health ELSE Missing] ELSE @[e]]]

\* This node is the first vertex.
StartGraph(known) ==
    LET order == <<me>> \o SetToSeq(known \ {me})
        at    == [k \in GraphKeys |-> IF k \in known THEN CHOOSE i \in DOMAIN order : order[i] = k ELSE 0]
        pairs == {<<at[p[1]], at[p[2]]>> : p \in {q \in known \X known : q[1] # q[2]}}
    IN  [vertices |-> order, index |-> at,
         slots |-> [s \in SlotValues |-> {at[k] : k \in {l \in known : Encode[l] = s}}],
         weight |-> [e \in pairs |-> NoObservations]]

GraphInit ==
    /\ \E known \in Starts :
        LET g == StartGraph(known)
        IN  vertices = g.vertices /\ index = g.index /\ slots = g.slots /\ weight = g.weight
    /\ halves = {} /\ flying = {} /\ ops = 0 /\ attributed = {} /\ parted = {}
--------------------------------------------------------------------------------
(* From slots back to edges *)

\* Mutant: an ambiguous slot goes to the first to claim it.
ResolveFirst(g, slot) ==
    IF slot = 0 \/ slot \notin DOMAIN g.slots \/ g.slots[slot] = {} THEN 0
    ELSE CHOOSE i \in g.slots[slot] : \A j \in g.slots[slot] : i <= j

\* The node that claims a slot; padding, an unclaimed slot and one that two
\* nodes claim resolve to none.
Resolve(g, slot) ==
    IF slot = 0 \/ slot \notin DOMAIN g.slots \/ Cardinality(g.slots[slot]) # 1 THEN 0
    ELSE CHOOSE i \in g.slots[slot] : TRUE

\* The edges along a sequence of slots; <<>> unless every one of them exists.
EdgesAlong(g, path) ==
    LET edges == [n \in 1..(Len(path) - 1) |-> <<Resolve(g, path[n]), Resolve(g, path[n + 1])>>]
    IN  IF \A n \in DOMAIN edges : edges[n] \in DOMAIN g.weight THEN edges ELSE <<>>

\* Where a slot occurs first in path[from..], 0 if it does not.
FirstAt(path, slot, from) ==
    LET at == {n \in from..Len(path) : path[n] = slot}
    IN  IF at = {} THEN 0 ELSE CHOOSE n \in at : \A m \in at : n <= m

\* resolve_loopback_edges.  A loop has at least two edges and nothing but
\* padding after it.
ResolveLoopback(g, path) ==
    LET end == FirstAt(path, Encode[me], 2)
    IN  IF \/ Len(path) # PathIdLen \/ path[1] # Encode[me] \/ end < 3
           \/ \E n \in (end + 1)..Len(path) : path[n] # 0
        THEN <<>>
        ELSE EdgesAlong(g, SubSeq(path, 1, end))

\* resolve_round_trip_edges.  The legs join at the node that replied.
ResolveRoundTrip(g, forward, reply) ==
    LET joined == FirstAt(forward, reply[1], 1)
        home   == FirstAt(reply, Encode[me], 2)
    IN  IF forward[1] # Encode[me] \/ joined = 0 \/ home = 0 THEN <<>>
        ELSE EdgesAlong(g, SubSeq(forward, 1, joined) \o SubSeq(reply, 2, home))
--------------------------------------------------------------------------------
(* Paths to be reported about *)

\* The slots of a sequence of keys, padded.
PathId(keys) == [n \in 1..PathIdLen |-> IF n <= Len(keys) THEN Encode[keys[n]] ELSE 0]

KeysOf(g, nodes) == [n \in DOMAIN nodes |-> g.vertices[nodes[n]]]

\* Neighbours a loop may close from: the edge to this node exists and is not
\* known to be disconnected.
ClosingNeighbours(g) ==
    {n \in 1..Len(g.vertices) :
        LET e == <<n, g.index[me]>>
        IN  e \in DOMAIN g.weight /\ Immediates(g.weight[e]).is_connected # FALSE}

\* simple_loopback_to_self: the loops through `hops` relays, closed by this node.
Loopbacks(g, hops) ==
    IF hops \notin MIN_LOOPBACK_HOPS..MAX_LOOPBACK_HOPS \/ g.index[me] = 0 THEN {}
    ELSE {KeysOf(g, Append(p, g.index[me])) :
            p \in P!SimplePaths(DOMAIN g.weight, g.index[me], ClosingNeighbours(g), hops)}

\* gone: a node of it was removed meanwhile; cut: an edge of it was.
Loop(keys) == [kind |-> "loop", nodes |-> keys, forward |-> PathId(keys), reply |-> <<>>,
               gone |-> FALSE, cut |-> FALSE]

\* External: a session remembers the two legs of its round trips.
RoundTrip(out, back) ==
    [kind |-> "surb", nodes |-> out \o Tail(back), forward |-> PathId(out), reply |-> PathId(back),
     gone |-> FALSE, cut |-> FALSE]

EdgesOfKeys(keys) == {<<keys[n], keys[n + 1]>> : n \in 1..(Len(keys) - 1)}

\* The edges a report about this path says something of.
Meant(f) == IF f.kind = "surb" THEN EdgesOfKeys(f.nodes)
            ELSE {<<f.nodes[Len(f.nodes) - 2], f.nodes[Len(f.nodes) - 1]>>}
--------------------------------------------------------------------------------
(* Calls *)

Called == ops < MaxOps /\ ops' = ops + 1
Change(g) == Called /\ Becomes(g)

NodeRecorded(k) ==
    /\ k \notin Nodes /\ Change(AddNode(Graph, k))
    /\ UNCHANGED <<halves, flying, attributed, parted>>

\* A removal between the two directions of an update leaves only the second.
NodeRemoved(k) ==
    /\ k \in Nodes \ {me} /\ Change(RemoveNode(Graph, k))
    /\ flying' = {[f EXCEPT !.gone = @ \/ k \in ToSet(f.nodes)] : f \in flying}
    /\ parted' = IF \E h \in halves : h.peer = k THEN parted \cup {k} ELSE parted \ {k}
    /\ UNCHANGED <<halves, attributed>>

EdgeAdded(src, dest) ==
    /\ {src, dest} \subseteq Nodes /\ EdgeOf(Graph, src, dest) \notin DOMAIN weight
    /\ Change(AddEdge(Graph, src, dest))
    /\ UNCHANGED <<halves, flying, attributed, parted>>

EdgeRemoved(src, dest) ==
    /\ EdgeOf(Graph, src, dest) \in DOMAIN weight /\ Change(RemoveEdge(Graph, src, dest))
    /\ flying' = {[f EXCEPT !.cut = @ \/ <<src, dest>> \in EdgesOfKeys(f.nodes)] : f \in flying}
    /\ parted' = parted \cup ({src, dest} \ {me})
    /\ UNCHANGED <<halves, attributed>>

BalanceReported(src, dest) ==
    /\ src # dest /\ Change(UpsertEdge(Graph, src, dest, <<[kind |-> "Balance", value |-> 1]>>))
    /\ UNCHANGED <<halves, flying, attributed, parted>>

HealthReported(k) ==
    /\ k \in Nodes /\ Change(SetNodeHealth(Graph, k, 0)) /\ Graph # SetNodeHealth(Graph, k, 0)
    /\ UNCHANGED <<halves, flying, attributed, parted>>

Connected(c) == [kind |-> "Connected", value |-> c]
Probed(result) == [kind |-> "Immediate", value |-> result]

\* Neighbour probes and connection states, as sequences of measurements.
NeighbourReports == {<<Connected(TRUE), Probed(l)>> : l \in Latencies} \cup {<<Probed(Missing)>>}
                        \cup {<<Connected(c)>> : c \in BOOLEAN}

\* The direction from this node, under the first lock.  Two updates of one peer
\* may overlap, and the directions see them in different orders.
NeighbourReported(p, ms) ==
    /\ p # me /\ Change(UpsertEdge(Graph, me, p, ms))
    /\ halves' = halves \cup {[peer |-> p, ms |-> ms, call |-> ops]}
    /\ parted' = IF \E h \in halves : h.peer = p THEN parted \cup {p} ELSE parted
    /\ UNCHANGED <<flying, attributed>>

\* Mutant: the direction from this node is written twice.
OtherHalfSame(g, h) == UpsertEdge(g, me, h.peer, h.ms)

\* The direction to this node, under the second lock.
OtherHalf(g, h) == UpsertEdge(g, h.peer, me, h.ms)

NeighbourCompleted(h) ==
    /\ Becomes(OtherHalf(Graph, h)) /\ halves' = halves \ {h}
    /\ UNCHANGED <<ops, flying, attributed, parted>>

LoopSent(hops) ==
    /\ flying = {} /\ Called /\ \E keys \in Loopbacks(Graph, hops) : flying' = {Loop(keys)}
    /\ UNCHANGED <<vertices, index, slots, weight, halves, attributed, parted>>

RoundTripSent(r) ==
    /\ flying = {} /\ r \in Nodes \ {me} /\ Called
    /\ \E n, m \in 1..2 :
        \E out \in P!SimplePaths(DOMAIN weight, index[me], {index[r]}, n),
           back \in P!SimplePaths(DOMAIN weight, index[r], {index[me]}, m) :
                flying' = {RoundTrip(KeysOf(Graph, out), KeysOf(Graph, back))}
    /\ UNCHANGED <<vertices, index, slots, weight, halves, attributed, parted>>

\* What is known of the latencies of the loop without its target edge.
KnownLatency(edges, target) ==
    LET lat(e) == LET inter == Intermediates(weight[e]).link.latency
                      imm   == Immediates(weight[e]).link.latency
                  IN  IF inter # Missing THEN inter ELSE IF imm # Missing THEN imm ELSE 0
    IN  MapThenSumSet(lat, ToSet(edges) \ {target})

\* The latency a successful loopback probe gives its target edge: what the
\* others leave of the round trip, or what the edge had when they leave nothing.
AttributedDuration(edges, target, rtt) ==
    IF rtt >= KnownLatency(edges, target) THEN rtt - KnownLatency(edges, target)
    ELSE Intermediates(weight[target]).link.latency

Credit(f, edges) ==
    attributed' = attributed \cup
        {[meant |-> Meant(f), edge |-> <<vertices[e[1]], vertices[e[2]]>>, gone |-> f.gone,
          nodes |-> ToSet(f.nodes)] : e \in edges}

\* A loopback probe came back, or timed out.
LoopReported(f, rtt) ==
    LET edges  == ResolveLoopback(Graph, f.forward)
        target == edges[Len(edges) - 1]
        result == IF rtt = Missing THEN Missing ELSE AttributedDuration(edges, target, rtt)
        said   == edges # <<>> /\ (rtt # Missing => rtt <= MaxRtt /\ result # Missing)
    IN  /\ f.kind = "loop" /\ flying' = flying \ {f} /\ Called
        /\ \/ /\ said
              /\ Becomes(RecordAll(Graph, {target}, <<[kind |-> "Intermediate", value |-> result]>>))
              /\ Credit(f, {target})
           \/ /\ ~said
              /\ UNCHANGED <<vertices, index, slots, weight, attributed>>
        /\ UNCHANGED <<halves, parted>>

\* Round trips of a path are reported; every edge of it is credited, or none
\* when the path no longer resolves.  Legs as long as those that are sent here
\* take no edge twice.
RoundTripsReported(f, traffic) ==
    LET edges == ResolveRoundTrip(Graph, f.forward, f.reply)
        round == [kind |-> "Surb", value |-> traffic]
    IN  /\ f.kind = "surb" /\ flying' = flying \ {f} /\ Called
        /\ Becomes(RecordAll(Graph, ToSet(edges), <<round>>))
        /\ Credit(f, ToSet(edges))
        /\ UNCHANGED <<halves, parted>>

\* A report from the future or from before the window is dropped.
ReportDropped(f) ==
    /\ flying' = flying \ {f}
    /\ UNCHANGED <<vertices, index, slots, weight, halves, ops, attributed, parted>>

GraphStep ==
    \/ \E k \in GraphKeys : NodeRecorded(k) \/ NodeRemoved(k) \/ HealthReported(k) \/ RoundTripSent(k)
    \/ \E k, l \in GraphKeys : k # l /\ (EdgeAdded(k, l) \/ EdgeRemoved(k, l) \/ BalanceReported(k, l))
    \/ \E k \in GraphKeys, ms \in NeighbourReports : NeighbourReported(k, ms)
    \/ \E h \in halves : NeighbourCompleted(h)
    \/ \E hops \in 0..(MAX_LOOPBACK_HOPS + 1) : LoopSent(hops)
    \/ \E f \in flying, rtt \in Rtts : LoopReported(f, rtt)
    \/ \E f \in flying, traffic \in Traffic : RoundTripsReported(f, traffic)
    \/ \E f \in flying : ReportDropped(f)
--------------------------------------------------------------------------------
(* What is shown of the graph *)

\* The slot that path selection writes for a key, 0 for none.
PathSlot(k) == IF k \in Nodes THEN Encode[k] ELSE 0

NamedEdge(e) == <<vertices[e[1]], vertices[e[2]]>>

ConnectedEdges == {NamedEdge(e) : e \in DOMAIN weight}

\* What a breadth-first search from a node meets: what is in every set that has
\* the node and the end of each edge from within the set.
Reachable(from) ==
    LET closed == {s \in SUBSET (1..Len(vertices)) : from \in s /\ \A e \in DOMAIN weight : e[1] \in s => e[2] \in s}
    IN  {n \in 1..Len(vertices) : \A s \in closed : n \in s}

\* Mutant: an edge into a reachable node is taken wherever it comes from.
EdgesIntoReachable ==
    LET reached == Reachable(index[me]) IN {NamedEdge(e) : e \in {d \in DOMAIN weight : d[2] \in reached}}

\* Both ends of an edge are reached from this node.
ReachableEdges ==
    LET reached == Reachable(index[me])
    IN  {NamedEdge(e) : e \in {d \in DOMAIN weight : {d[1], d[2]} \subseteq reached}}
--------------------------------------------------------------------------------
(* Properties *)

Shared(k, keys) == \E l \in keys \ {k} : Encode[l] = Encode[k]

\* What the graph hands out fits together, after any removals and returns: the
\* slot of a key leads back to it unless another key claims it too; the edges
\* said to be reachable are closed under following edges and can each be
\* followed to; a path in flight whose nodes and edges are all still there is
\* among them.
PublicViewsAgree ==
    LET reached == ReachableEdges
        ends == {me} \cup {e[2] : e \in reached}
    IN  /\ \A k \in Nodes : Resolve(Graph, PathSlot(k)) = IF Shared(k, Nodes) THEN 0 ELSE index[k]
        /\ reached = {e \in ConnectedEdges : e[1] \in ends}
        /\ \A f \in flying : ~f.gone /\ ~f.cut => EdgesOfKeys(f.nodes) \subseteq reached

\* The three views of the graph agree: a key in the graph has its vertex, a slot
\* is claimed by exactly the keys in the graph that encode to it, and edges join
\* keys that are in the graph.
ViewsOfGraphAgree ==
    /\ \A k \in GraphKeys : index[k] # 0 => index[k] \in 1..Len(vertices) /\ vertices[index[k]] = k
    /\ \A s \in SlotValues : slots[s] = {index[k] : k \in {n \in Nodes : Encode[n] = s}}
    /\ \A e \in DOMAIN weight : {e[1], e[2]} \subseteq {index[k] : k \in Nodes}

EdgesOf(f) == IF f.kind = "loop" THEN ResolveLoopback(Graph, f.forward) ELSE ResolveRoundTrip(Graph, f.forward, f.reply)

\* A report about a path can be attributed as long as none of the nodes and
\* edges of the path was removed and no other node shares a slot with it.
SentPathsResolve ==
    \A f \in flying :
        ~f.gone /\ ~f.cut /\ (\A k \in ToSet(f.nodes) : ~Shared(k, Nodes)) => EdgesOf(f) # <<>>

\* A report is recorded on edges its path was about, whatever happened to the
\* graph in between, unless a node of the path was removed and another key
\* with its slot took its place.
ReportsHitTheirEdges ==
    \A a \in attributed :
        a.edge \in a.meant \/ (a.gone /\ \E k \in a.nodes : Shared(k, GraphKeys))

ReportsAreAttributedRight == SentPathsResolve /\ ReportsHitTheirEdges

\* The two directions of an edge to a neighbour say the same of it once an
\* update is complete, unless updates of that peer overlapped, or a removal came
\* between or took one direction.
DirectionsAgree ==
    \A p \in Nodes \ (parted \cup {me}) : (~\E h \in halves : h.peer = p) =>
        LET seen(e) == IF e \in DOMAIN weight THEN Immediates(weight[e]) ELSE NoImmediates
        IN  seen(EdgeOf(Graph, me, p)) = seen(EdgeOf(Graph, p, me))
=============================================================================
