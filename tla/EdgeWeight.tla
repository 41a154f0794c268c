------------------------------ MODULE EdgeWeight ------------------------------
(***************************************************************************)
(* What the graph observes of one edge and how it scores it.  An edge has  *)
(* an immediate stream (neighbour probes, connection state, packet         *)
(* acknowledgements) and an intermediate one (loopback probes, channel     *)
(* balance, SURB round trips); each is allocated by the first measurement  *)
(* of its kind, whatever that measurement says.                            *)
(*                                                                         *)
(* Ratios are whole numbers, Unit standing for 1.0; time is counted in     *)
(* slices of the SURB window.                                              *)
(***************************************************************************)
EXTENDS Integers, FiniteSets, FiniteSetsExt

CONSTANTS Unit,
          SURB_BUCKETS,        \* slices of the SURB window
          SURB_RECENT_SLICES,  \* of which these are read as "lately"
          Decay,               \* Decay[n]: what is left, of Unit, of a peak set n slices ago
          Latencies,           \* latencies probes measure, in milliseconds
          Traffic,             \* SURB reports, <<expected, observed>>
          MaxSlices,           \* bound on the time
          MaxRecords,          \* bound on the measurements
          Missing              \* an absent value

ASSUME DecayAssumption ==
    /\ Unit \in Nat \ {0} /\ SURB_BUCKETS \in Nat /\ SURB_RECENT_SLICES \in 1..SURB_BUCKETS /\ MaxSlices \in Nat
    /\ Decay \in [0..MaxSlices -> 0..Unit] /\ Decay[0] = Unit
    /\ \A n, m \in 0..MaxSlices : n <= m => Decay[m] <= Decay[n]
    /\ SURB_BUCKETS <= MaxSlices => 2 * Decay[SURB_BUCKETS] = Unit

VARIABLES obs,      \* the observations of the edge
          now,      \* the current slice
          records,  \* measurements so far
          heard     \* (history) the measurements recorded, <<kind, value>>; of round trips their ratio

weightVars == <<obs, now, records, heard>>

Slices == 0..MaxSlices
LinkType == [latency : Int \cup {Missing}, answered : Nat, rate : Int, samples : Nat]
ImmediatesType ==
    [link : LinkType, is_connected : BOOLEAN \cup {Missing}, messages_sent : Nat, acks_received : Nat]
IntermediatesType ==
    [link : LinkType, balance : {Missing, 1}, surb : [Slices -> Nat \X Nat],
     surb_peak : [value : Nat, at : Slices] \cup {Missing}]

\* A peak keeps at least half of its value within the window, and Unit is fine
\* enough for what is left of a peak of replies never to round to none.
ASSUME EvidenceAssumption ==
    /\ Missing \notin Int \cup ImmediatesType \cup IntermediatesType \cup [value : Nat, at : Slices]
    /\ Latencies \subseteq Nat /\ Traffic \subseteq Nat \X Nat
    /\ \A n \in 0..MaxSlices : n <= SURB_BUCKETS => 2 * Decay[n] >= Unit
    /\ \A r \in Traffic : r[1] > 0 /\ r[2] > 0 => Unit * r[2] >= 2 * r[1]

Larger(x, y) == IF x >= y THEN x ELSE y
Smaller(x, y) == IF x <= y THEN x ELSE y
Ratio(x, y) == (Unit * x) \div y
Times(x, y) == (x * y) \div Unit
--------------------------------------------------------------------------------
(* A probed link *)

NoLink == [latency |-> Missing, answered |-> 0, rate |-> 0, samples |-> 0]

\* External: the count-th value of a moving average over about n of them.
Average(avg, x, count, n) == avg + (x - avg) \div Smaller(count, n)

\* A probe's outcome: its latency, or Missing when it failed.
LinkRecord(link, result) ==
    LET failed == result = Missing
    IN  [samples  |-> link.samples + 1,
         rate     |-> Average(link.rate, IF failed THEN 0 ELSE Unit, link.samples + 1, 5),
         answered |-> IF failed THEN link.answered ELSE link.answered + 1,
         latency  |-> IF failed THEN link.latency
                      ELSE IF link.answered = 0 THEN result
                      ELSE Average(link.latency, result, link.answered + 1, 3)]

ProbeRate(link) == IF link.samples > 0 THEN link.rate ELSE Missing

NO_LATENCY_DATA_FLOOR == Ratio(5, 100)

LatencyScore(ms) == IF ms <= 75 THEN Unit
                    ELSE IF ms <= 125 THEN Ratio(70, 100)
                    ELSE IF ms <= 200 THEN Ratio(30, 100)
                    ELSE Ratio(15, 100)

LinkScore(link) ==
    IF link.samples = 0 THEN Missing
    ELSE Times(link.rate, IF link.latency = Missing THEN NO_LATENCY_DATA_FLOOR ELSE LatencyScore(link.latency))
--------------------------------------------------------------------------------
(* SURB round trips *)

NoIntermediates == [link |-> NoLink, balance |-> Missing, surb |-> [s \in Slices |-> <<0, 0>>],
                    surb_peak |-> Missing]

\* External: the ratio of observed to expected, and that of the last n slices.
RatioOf(observed, expected) == IF expected = 0 THEN Missing ELSE Ratio(observed, expected)

WindowValue(surb, n, t) ==
    LET slices == {s \in Slices : s > t - n /\ s <= t}
    IN  RatioOf(MapThenSumSet(LAMBDA s : surb[s][2], slices), MapThenSumSet(LAMBDA s : surb[s][1], slices))

\* The best ratio so far, as it has decayed since it was last raised.
PeakAt(inter, t) ==
    IF inter.surb_peak = Missing THEN Missing
    ELSE Times(inter.surb_peak.value, Decay[t - inter.surb_peak.at])

\* The peak after a report that brought the window to v at t.
RaisedPeak(peak, decayed, v, t) ==
    IF v = Missing THEN peak
    ELSE [value |-> IF decayed = Missing THEN v ELSE Larger(decayed, v), at |-> t]

\* A report is counted in the current slice and raises the peak.
RecordSurbRoundTrips(inter, expected, observed, t) ==
    LET surb == [inter.surb EXCEPT ![t] = <<@[1] + expected, @[2] + observed>>]
    IN  [inter EXCEPT !.surb = surb,
                      !.surb_peak = RaisedPeak(@, PeakAt(inter, t), WindowValue(surb, SURB_BUCKETS, t), t)]

\* A ratio against a reference, where both are known.
Against(value, reference) ==
    IF value = Missing \/ reference \in {Missing, 0} THEN Missing ELSE Smaller(Ratio(value, reference), Unit)

SurbTrend(inter, t) ==
    Against(WindowValue(inter.surb, SURB_RECENT_SLICES, t), WindowValue(inter.surb, SURB_BUCKETS, t))

\* Mutant: the trend is not folded in.
DeliveryAgainstPeak(inter, t) == Against(WindowValue(inter.surb, SURB_BUCKETS, t), PeakAt(inter, t))

\* A trend below one half is a collapse.
Discounted(delivery, trend) ==
    IF Missing \notin {delivery, trend} /\ 2 * trend < Unit THEN Times(delivery, trend) ELSE delivery

\* Delivery against the edge's own best, discounted when it has just collapsed
\* to less than half of what the whole window shows.
SurbDeliveryRate(inter, t) ==
    Discounted(Against(WindowValue(inter.surb, SURB_BUCKETS, t), PeakAt(inter, t)), SurbTrend(inter, t))

\* The worse of the two delivery signals, over those that carry evidence.
Worse(surb, probe) == IF surb = Missing THEN probe
                      ELSE IF probe = Missing THEN surb
                      ELSE Smaller(surb, probe)

IntermediateRate(inter, t) == Worse(SurbDeliveryRate(inter, t), ProbeRate(inter.link))

\* Latency weighs only where it was measured.
ByLatency(rate, latency) ==
    IF Missing \in {rate, latency} THEN rate ELSE Times(rate, LatencyScore(latency))

IntermediateScore(inter, t) == ByLatency(IntermediateRate(inter, t), inter.link.latency)
--------------------------------------------------------------------------------
(* The edge *)

NoImmediates == [link |-> NoLink, is_connected |-> Missing, messages_sent |-> 0, acks_received |-> 0]
NoObservations == [immediate |-> Missing, intermediate |-> Missing, health |-> Missing, last_update |-> 0]

Immediates(o) == IF o.immediate = Missing THEN NoImmediates ELSE o.immediate
Intermediates(o) == IF o.intermediate = Missing THEN NoIntermediates ELSE o.intermediate

\* Counts of packets and acknowledgements are kept in tenths and decay by a tenth.
AckDecay(count, n) == (count * 9) \div 10 + 10 * n

AckRate(imm) ==
    IF imm.messages_sent < 10 THEN Missing
    ELSE Smaller(Ratio(imm.acks_received, imm.messages_sent), Unit)

\* Observations::record.
Record(o, m, t) ==
    LET imm == Immediates(o)  inter == Intermediates(o)  at == [o EXCEPT !.last_update = t]
    IN  CASE m.kind = "Immediate"    -> [at EXCEPT !.immediate = [imm EXCEPT !.link = LinkRecord(@, m.value)]]
          [] m.kind = "Connected"    -> [at EXCEPT !.immediate = [imm EXCEPT !.is_connected = m.value]]
          [] m.kind = "Conformance"  -> [at EXCEPT !.immediate =
                [imm EXCEPT !.messages_sent = AckDecay(@, m.value[1]), !.acks_received = AckDecay(@, m.value[2])]]
          [] m.kind = "Intermediate" -> [at EXCEPT !.intermediate = [inter EXCEPT !.link = LinkRecord(@, m.value)]]
          [] m.kind = "Balance"      -> [at EXCEPT !.intermediate = [inter EXCEPT !.balance = m.value]]
          [] m.kind = "Surb"         -> [at EXCEPT !.intermediate =
                RecordSurbRoundTrips(inter, m.value[1], m.value[2], t)]

\* The average of the streams that were observed.
MeanObserved(x, y) == IF x = Missing THEN y
                      ELSE IF y = Missing THEN x
                      ELSE (x + y) \div 2

Score(o, t) ==
    MeanObserved(IF o.immediate = Missing THEN Missing ELSE LinkScore(o.immediate.link),
                 IF o.intermediate = Missing THEN Missing ELSE IntermediateScore(o.intermediate, t))
--------------------------------------------------------------------------------
(* Behaviour *)

Measurements ==
    [kind : {"Immediate", "Intermediate"}, value : Latencies \cup {Missing}]
        \cup [kind : {"Connected"}, value : BOOLEAN]
        \cup [kind : {"Balance"}, value : {Missing, 1}]
        \cup [kind : {"Conformance"}, value : {<<1, 0>>, <<1, 1>>}]
        \cup [kind : {"Surb"}, value : Traffic]

WeightInit == obs = NoObservations /\ now = 0 /\ records = 0 /\ heard = {}

News(m) ==
    IF m.kind # "Surb" THEN <<m.kind, Missing>>
    ELSE <<"Surb", IF m.value[1] = 0 THEN Missing ELSE Ratio(m.value[2], m.value[1])>>

Measure(m) ==
    /\ records < MaxRecords
    /\ obs' = Record(obs, m, now) /\ records' = records + 1 /\ heard' = heard \cup {News(m)}
    /\ UNCHANGED now

SlicePasses == now < MaxSlices /\ now' = now + 1 /\ UNCHANGED <<obs, records, heard>>

WeightNext == SlicePasses \/ \E m \in Measurements : Measure(m)
--------------------------------------------------------------------------------
(* Properties *)

SurbOf(n) == WindowValue(Intermediates(obs).surb, n, now)

\* An edge has a score exactly when a probe of it was recorded or, within the window,
\* replies were expected of it while some that came back earlier still count for the
\* decayed peak; neither a balance nor a connection nor acknowledgements make one,
\* and round trips that never brought back a reply do not either.
ScoredIffObserved ==
    LET answered == SurbOf(SURB_BUCKETS) # Missing /\ PeakAt(Intermediates(obs), now) \notin {Missing, 0}
    IN  Score(obs, now) # Missing <=> answered \/ \E h \in heard : h[1] \in {"Immediate", "Intermediate"}

\* A relay that lately returned nothing of what was expected of it delivers
\* nothing, however well it did in the rest of the window.
CollapseIsSeen ==
    SurbOf(SURB_RECENT_SLICES) = 0 => SurbDeliveryRate(Intermediates(obs), now) \in {0, Missing}

\* A relay whose every report showed the same ratio delivers fully, whatever
\* that ratio is: the surplus of minted SURBs does not count against it.
SteadyIsFull ==
    LET ratios == {h[2] : h \in {n \in heard : n[1] = "Surb"}}
    IN  Cardinality(ratios) = 1 /\ ratios \cap {0, Missing} = {} /\ SurbOf(SURB_BUCKETS) # Missing
            => SurbDeliveryRate(Intermediates(obs), now) = Unit

\* The three together.
ScoreFollowsObservations == ScoredIffObserved /\ CollapseIsSeen /\ SteadyIsFull
=============================================================================
