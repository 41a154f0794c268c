------------------------------- MODULE MCGraph -------------------------------
(***************************************************************************)
(* The network graph and the session exit for model checking: the updates  *)
(* of the graph, the observations of one edge, the path search, the        *)
(* probers, and sessions, which do not share state other than through the  *)
(* calls modelled in each.  A behaviour explores one of them.              *)
(***************************************************************************)
EXTENDS ChannelGraph, PathSearch, Probing, Forwarder, TLC

CONSTANTS k1, k2, k3   \* keys other than this node's; k1 and k3 share a slot

VARIABLE part

vars == <<graphVars, weightVars, searchVars, probingVars, forwarderVars, part>>

MCEncode == (me :> 1) @@ (k1 :> 2) @@ (k2 :> 3) @@ (k3 :> 2)
MCStarts == {{me, k1, k2}, {me, k1, k2, k3}}
MCTraffic == {<<2, 0>>, <<2, 1>>, <<0, 1>>}

\* A curve with the half-life of the code's.
MCDecay == [n \in 0..MaxSlices |-> (Unit * SURB_BUCKETS) \div (SURB_BUCKETS + n)]

\* The addresses 1.1 and 1.2, the network 1/8 they are in, and the names a.b and
\* 1.1., which is no address.
One == Label("1")
MCIps == {<<One, One>>, <<One, Label("2")>>}
MCBlocks == ("1/8" :> MCIps)
MCHosts == {<<Label("a"), Label("b")>>, <<Label("b")>>}
Root == Label("")
Capital == [text |-> "a", up |-> TRUE]
Bare == <<Label("a"), Label("b")>>
Spellings == {Bare, Append(Bare, Root), <<Capital, Label("b")>>, <<Label("b")>>, <<One, One, Root>>}

Dns(name, port) == [kind |-> "Dns", name |-> name, port |-> port]
Ip(ip, port) == [kind |-> "Ip", ip |-> ip, port |-> port]
MCTargets ==
    [form : {"service"}, id : {0, 1}, opens : {TRUE}]
        \cup [form : {"stream"}, protocol : {"tcp"}, host : {Dns(n, 1) : n \in Spellings}, opens : {TRUE}]
        \cup [form : {"stream"}, protocol : {"udp"}, host : {Dns(Bare, 2), Ip(<<One, One>>, 1)}, opens : {TRUE}]
        \cup [form : {"stream"}, protocol : {"tcp"}, host : {Dns(Bare, 1)}, opens : {FALSE}]

Stream(protocol, host, port) == [form |-> "stream", protocol |-> protocol, host |-> host, port |-> port]
Rule(pattern, pays, min, max) == [target |-> pattern, enforce_pix |-> pays, min |-> min, max |-> max]
Catchall == Rule([form |-> "*"], TRUE, Unset, 7)
MCRules == {
    <<>>,
    <<Rule(Stream("tcp", Append(Bare, Root), 1), FALSE, 2, Unset), Catchall>>,
    <<Rule(Stream("*", <<Star, Label("b")>>, Wild), FALSE, Unset, Unset), Rule([form |-> "service", id |-> Wild], TRUE, 1, 3)>>,
    <<Rule(Stream("udp", <<Label("1/8")>>, 1), TRUE, 1, 2), Rule(Stream("tcp", <<Star>>, 1), Unset, 1, 2)>>,
    <<Rule([form |-> "service", id |-> 0], FALSE, Unset, Unset), Rule(Stream("*", <<One, One>>, Wild), TRUE, 1, 2)>>,
    <<Rule(Stream("tcp", <<One, One, Root>>, 1), FALSE, Unset, Unset)>>,
    <<Rule(Stream("tcp", Bare \o <<Root, Root>>, 1), FALSE, Unset, Unset)>>}

MCLists == {{}, {Dns(<<Capital, Label("b"), Root>>, 1)}, {Dns(<<Label("b")>>, 1), Ip(<<One, One>>, 1)},
            {Dns(<<Label("b")>>, 2), Dns(<<Label("c")>>, 1)}}
\* Rules and list are independent of each other.
MCConfigs == [use_list : {TRUE}, list : MCLists, rules : {<<>>}] \cup [use_list : {FALSE}, list : {{}}, rules : MCRules]

MCScripts == {<<"data", "data", "data", "surb", "surb", "surb">>, <<"surb", "data", "data">>, <<>>}

AnySession ==
    /\ cfg = (CHOOSE c \in Configs : TRUE) /\ target = (CHOOSE t \in Targets : TRUE)
    /\ dns = [h \in Hosts |-> {}] /\ changes = 0 /\ stage = "asked" /\ terms = NodesOwnTerms
    /\ resolved = {} /\ pending = {} /\ by_name = {} /\ tries = 0 /\ contacted = {} /\ loop = Idle

NoSearch ==
    /\ cost = <<>> /\ targets = {} /\ length = 1 /\ visited = <<>> /\ stack = <<>> /\ left = <<>>
    /\ yielded = {} /\ returns = 0

Init ==
    /\ part \in {"graph", "weights", "search", "probing", "sessions"}
    /\ GraphInit /\ WeightInit /\ ProbingInit
    /\ part # "graph" => Nodes = {me, k1, k2}
    /\ IF part = "search" THEN SearchInit ELSE NoSearch
    /\ IF part = "sessions" THEN ForwarderInit ELSE AnySession

Explore(name, step, others) == part = name /\ step /\ UNCHANGED <<others, part>>

Next ==
    \/ Explore("graph", GraphStep, <<weightVars, searchVars, probingVars, forwarderVars>>)
    \/ Explore("weights", WeightNext, <<graphVars, searchVars, probingVars, forwarderVars>>)
    \/ Explore("search", SearchNext, <<graphVars, weightVars, probingVars, forwarderVars>>)
    \/ Explore("probing", ProbingNext, <<graphVars, weightVars, searchVars, forwarderVars>>)
    \/ Explore("sessions", ForwarderNext, <<graphVars, weightVars, searchVars, probingVars>>)

Spec == Init /\ [][Next]_vars

\* The views of the graph, inside and handed out, agree.
GraphIsConsistent == part = "graph" => ViewsOfGraphAgree /\ PublicViewsAgree

\* An edge is scored on what was observed of it, and a collapse is seen.
ScoresFollowEvidence == part = "weights" => ScoreFollowsObservations

\* Every peer that may be probed is probed in time, and a peer never measured has
\* the best chance of coming first (which depends on the clock alone: it is enough
\* to look at every clock with no peer in the graph).
ProbesAreFair == part = "probing" => PeersAreProbedInTime /\ (nodes_of = {} => UnmeasuredComeFirst)

\* No session gets past the allow list or to an address that was not checked, and
\* its terms do not depend on how a name is spelled.
SessionsFollowTheRules == part = "sessions" => OnlyAllowedTargetsAreReached /\ TermsIgnoreSpelling
=============================================================================
