------------------------------ MODULE MCNetwork ------------------------------
(***************************************************************************)
(* The parts of the node that face the network, for model checking: the    *)
(* p2p transport and the connection to the chain.  They share no state; a  *)
(* behaviour explores one of them, and of the transport either the dials   *)
(* of all peers or one peer and its streams.                               *)
(***************************************************************************)
EXTENDS Transport, ChainHealth, TLC

VARIABLE part

allVars == <<vars, healthVars, part>>

MCAnnouncements ==
    {[peer |-> p, addrs |-> {"public", "private"}] : p \in Peers}
        \cup {[peer |-> CHOOSE p \in Peers : TRUE, addrs |-> {"private"}],
              [peer |-> Me, addrs |-> {"public"}]}

MCInit ==
    /\ part \in {"dials", "streams", "health"} /\ Init /\ HealthInit

Followed == CHOOSE p \in Peers : TRUE
OthersAreAway ==
    /\ \A p \in Peers \ {Followed} : conns'[p] = 0 /\ bootstrap_peers'[p] = {}
    /\ \A s \in Streams : streams'[s].peer \in {Me, Followed}
    /\ \A i \in DOMAIN events' : events'[i].peer \in {Me, Followed}

Transports(A) ==
    /\ part \in {"dials", "streams"} /\ A
    /\ part = "dials" => UNCHANGED streams
    /\ part = "streams" => OthersAreAway
    /\ UNCHANGED <<healthVars, part>>
Connects(A) == part = "health" /\ A /\ UNCHANGED <<vars, part>>

MCNext == Transports(Next) \/ Connects(HealthNext)

\* The executor polls a woken task, delays pass, the timer fires, a dial ends, and
\* the other behaviours' timers wake the task now and then; the tasks of a
\* connection run and check their feeds, and connect() ends by its timeout.
MCFairness ==
    /\ WF_allVars(Transports(Poll))
    /\ WF_allVars(Transports(TimerFires))
    /\ WF_allVars(Transports(OtherActivity))
    /\ \A p \in Peers : WF_allVars(Transports(FallsDue(p))) /\ WF_allVars(Transports(DialEnds(p)))
    /\ WF_allVars(Connects(ConnectStep))
    /\ \A t \in Tasks : WF_allVars(Connects(SubscriptionStep(t))) /\ WF_allVars(Connects(HealthCheck(t)))

MCSpec == MCInit /\ [][MCNext]_allVars /\ MCFairness
=============================================================================
