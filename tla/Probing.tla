------------------------------- MODULE Probing -------------------------------
(***************************************************************************)
(* The probers of neighbours.  The full-network prober emits, on every     *)
(* tick, a shuffled batch of all peers of the graph that are not known to  *)
(* be down, and keeps a batch for a while; the immediate prober emits the  *)
(* nodes of the graph, which it lists before it waits for its interval.    *)
(*                                                                         *)
(* Time is counted in ticks, the probing interval of either.               *)
(***************************************************************************)
EXTENDS Integers, FiniteSets

CONSTANTS Peers,
          Unprobed,          \* no batch has been computed
          ShuffleTtl,        \* shuffle_ttl, in ticks
          ProbeConnectedOnly,
          MaxStaleness,      \* MAX_STALENESS_SECS, in ticks
          MaxTicks           \* bound on the time

ASSUME ProbingAssumption ==
    ShuffleTtl \in Nat \ {0} /\ MaxStaleness \in Nat \ {0} /\ ProbeConnectedOnly \in BOOLEAN

VARIABLES nodes_of,    \* the peers in the graph
          connection,  \* what is known of them: "unchecked", "up" or "down"
          batch,       \* full-network: [probes, created_at] of the cached shuffle
          listed_of,   \* immediate: the nodes listed for the next round
          tick,
          eligible,    \* (history) per peer since which tick it may be probed
          probed       \* (history) per prober and peer the tick of its last probe

probingVars == <<nodes_of, connection, batch, listed_of, tick, eligible, probed>>

Never == -1

\* Mutant: only peers known to be up are probed.
CandidatesUp == {p \in nodes_of : ProbeConnectedOnly => connection[p] = "up"}

\* Peers the full-network prober probes: one never checked is not known to be
\* down.  Its priority only decides the order of the batch.
Candidates == {p \in nodes_of : ProbeConnectedOnly => connection[p] # "down"}

ProbingInit ==
    /\ nodes_of = {} /\ connection = [p \in Peers |-> "unchecked"] /\ batch = Unprobed /\ listed_of = {} /\ tick = 0
    /\ eligible = [p \in Peers |-> Never] /\ probed = [full |-> [p \in Peers |-> Never],
                                                       immediate |-> [p \in Peers |-> Never]]

\* The graph learns of peers, forgets them and observes their connections.
GraphChanges(p) ==
    /\ \/ p \notin nodes_of /\ nodes_of' = nodes_of \cup {p} /\ UNCHANGED connection
       \/ p \in nodes_of /\ nodes_of' = nodes_of \ {p} /\ connection' = [connection EXCEPT ![p] = "unchecked"]
       \/ \E c \in {"up", "down"} \ {connection[p]} :
            p \in nodes_of /\ UNCHANGED nodes_of /\ connection' = [connection EXCEPT ![p] = c]
    /\ eligible' = [eligible EXCEPT ![p] =
            IF p \in nodes_of' /\ (ProbeConnectedOnly => connection'[p] # "down") THEN IF @ = Never THEN tick ELSE @
            ELSE Never]
    /\ UNCHANGED <<batch, listed_of, tick, probed>>

\* A batch is recomputed once it is empty or has outlived its time.
NeedsRefresh == batch = Unprobed \/ batch.probes = {} \/ tick - batch.created_at >= ShuffleTtl

Mark(of, peers) == [p \in Peers |-> IF p \in peers THEN tick ELSE of[p]]

\* The full-network prober emits its whole batch on every tick.
FullRound ==
    /\ batch' = IF NeedsRefresh THEN [probes |-> Candidates, created_at |-> tick] ELSE batch
    /\ probed' = [full |-> Mark(probed.full, batch'.probes), immediate |-> Mark(probed.immediate, listed_of)]

\* The immediate prober lists the nodes for its next round.
ImmediateRound == listed_of' = nodes_of

\* A tick: both probers emit their round, and the time to the next begins.
Tick ==
    /\ tick < MaxTicks
    /\ FullRound /\ ImmediateRound
    /\ tick' = tick + 1
    /\ UNCHANGED <<nodes_of, connection, eligible>>

\* Weights and scores in halves: 2 is 1.0, and 3 is too much.
Whole == 2
ProberConfigs == [staleness_weight : 0..3, quality_weight : 0..3, base_priority : 0..3]

\* Mutant: a weight above one passes.
AnyPositive(cfg) == cfg.staleness_weight + cfg.quality_weight + cfg.base_priority > 0
ValidProber(cfg) ==
    /\ \A f \in DOMAIN cfg : cfg[f] <= Whole
    /\ cfg.staleness_weight + cfg.quality_weight + cfg.base_priority > 0

Clamp(x, most) == IF x < 0 THEN 0 ELSE IF x > most THEN most ELSE x

\* Mutant: a peer never measured counts as measured at the epoch of a clock that
\* has just started.
YoungPriority(score, last_update, now, cfg) ==
    LET staleness == Clamp(now - last_update, MaxStaleness)
        inverse_quality == Whole - Clamp(score, Whole)
    IN  cfg.staleness_weight * staleness * Whole + cfg.quality_weight * inverse_quality * MaxStaleness
            + cfg.base_priority * Whole * MaxStaleness

\* immediate_probe_priority, times Whole and MaxStaleness: when last measured (0 is
\* never) and how badly, each cut off.
Priority(score, last_update, now, cfg) ==
    LET staleness == IF last_update = 0 THEN MaxStaleness
                     ELSE Clamp(now - last_update, MaxStaleness)
        inverse_quality == Whole - Clamp(score, Whole)
    IN  cfg.staleness_weight * staleness * Whole + cfg.quality_weight * inverse_quality * MaxStaleness
            + cfg.base_priority * Whole * MaxStaleness

ProbingNext == Tick \/ \E p \in Peers : GraphChanges(p)
--------------------------------------------------------------------------------
(* Properties *)

\* Whatever a valid configuration weighs, and whatever the clock says, a peer
\* never measured is drawn with the greatest weight, which is positive and at
\* most three: also where one factor is turned off, the clock has gone back or
\* the score is out of range.
UnmeasuredComeFirst ==
    \A cfg \in {c \in ProberConfigs : ValidProber(c)} :
        LET most == Priority(0, 0, tick, cfg)
        IN  /\ 0 < most /\ most <= 3 * Whole * Whole * MaxStaleness
            /\ \A score \in {-1, 1, Whole + 1}, at \in 0..(tick + 1) : Priority(score, at, tick, cfg) \in 0..most

\* A peer that has been eligible all along is probed by both probers within
\* the life of a batch, and again in every such period.
PeersAreProbedInTime ==
    \A p \in Peers :
        LET since(last) == IF last > eligible[p] THEN last ELSE eligible[p]
        IN  eligible[p] # Never =>
                /\ tick - since(probed.full[p]) <= ShuffleTtl
                /\ tick - since(probed.immediate[p]) <= 1
=============================================================================
