------------------------------ MODULE Transport ------------------------------
(***************************************************************************)
(* The p2p node: the libp2p swarm (external), the discovery behaviour that *)
(* decides what to dial, the event loop of p2p/swarm.rs that keeps the     *)
(* views other tasks read, and the liveness flag every substream of a peer *)
(* is bound to.                                                            *)
(*                                                                         *)
(* The swarm runs in one task.  It hands an event first to the behaviour   *)
(* and then, before it does anything else, to the loop, so one action is   *)
(* the handler of both.  Streams are opened and accepted by other tasks,   *)
(* which share only the registry of flags with the loop.                   *)
(***************************************************************************)
EXTENDS Discovery, FiniteSets, Sequences

CONSTANTS
    Streams,           \* slots for substreams
    Announcements,     \* what the chain may announce: [peer, addrs]
    MaxAnnouncements,  \* bound on the announcements of a run
    MaxConnections     \* bound on the connections to one peer

ASSUME TransportAssumption ==
    /\ Announcements \subseteq [peer : Peers \cup {Me}, addrs : SUBSET Addresses]
    /\ MaxAnnouncements \in Nat
    /\ MaxConnections \in Nat \ {0}

VARIABLES
    \* the swarm (external) and the task that polls it
    conns,         \* established connections per peer
    dialing,       \* peers with a dial in progress
    events,        \* announcements the discovery stream holds
    announced,     \* announcements made so far
    awake,         \* the task is to be polled
    stream_waker,  \* the discovery stream will wake the task
    timer,         \* next_dial_timer is armed
    \* the event loop and the views it maintains
    tracker,       \* peers reported as connected
    store,         \* NetworkPeerStore: addresses of each peer
    last_event,    \* the last NetworkEvent about each peer
    \* substreams
    registry,      \* LivenessRegistry: peers with a flag, which is true
    streams        \* what each slot holds

swarmVars  == <<conns, dialing>>
taskVars   == <<awake, stream_waker, timer>>
inboxVars  == <<events, announced>>
viewVars   == <<tracker, store, last_event>>
streamVars == <<registry, streams>>
vars == <<discoveryVars, swarmVars, taskVars, inboxVars, viewVars, streamVars>>

\* "want": open() was called for a peer that has to be dialed first.
Stages == {"none", "want", "opening", "queued", "open"}
NoStream == [stage |-> "none", peer |-> Me, alive |-> FALSE, late |-> FALSE]

Init ==
    /\ DiscoveryInit
    /\ conns = [p \in Peers |-> 0] /\ dialing = {}
    /\ events = <<>> /\ announced = 0
    /\ awake = TRUE /\ stream_waker = FALSE /\ timer = FALSE
    /\ tracker = {} /\ store = [p \in Peers |-> {}]
    /\ last_event = [p \in Peers |-> "none"]
    /\ registry = {} /\ streams = [s \in Streams |-> NoStream]
-----------------------------------------------------------------------------
(***************************************************************************)
(* The task is woken by the stream, by the dial timer, or by any other     *)
(* part of the swarm (autonat and identify have timers of their own).      *)
(***************************************************************************)
Announce(a) ==
    /\ announced < MaxAnnouncements
    /\ events' = Append(events, a)
    /\ announced' = announced + 1
    /\ awake' = (awake \/ stream_waker)
    /\ stream_waker' = FALSE
    /\ UNCHANGED <<discoveryVars, swarmVars, timer, viewVars, streamVars>>

\* The delay of a queued dial has passed.
FallsDue(p) ==
    /\ next_dial_attempts[p] > 0 /\ p \notin due
    /\ due' = due \cup {p}
    /\ UNCHANGED <<bootstrap_peers, connected_peers, next_dial_attempts, queued_dials,
                   not_connected_peers, pending_dials, pending_addrs,
                   swarmVars, taskVars, inboxVars, viewVars, streamVars>>

TimerFires ==
    /\ timer /\ due # {}
    /\ awake' = TRUE /\ timer' = FALSE
    /\ UNCHANGED <<discoveryVars, swarmVars, stream_waker, inboxVars, viewVars, streamVars>>

OtherActivity ==
    /\ ~awake
    /\ awake' = TRUE
    /\ UNCHANGED <<discoveryVars, swarmVars, stream_waker, timer, inboxVars, viewVars, streamVars>>
-----------------------------------------------------------------------------
(***************************************************************************)
(* poll of the discovery behaviour.  Ready keeps the task awake; Pending   *)
(* puts it to sleep with the dial timer armed if a dial is queued.         *)
(***************************************************************************)
\* A NewExternalAddrOfPeer event: the loop adds the address to the swarm.
PopAddr ==
    /\ awake /\ pending_addrs > 0
    /\ pending_addrs' = pending_addrs - 1
    /\ UNCHANGED <<bootstrap_peers, connected_peers, dialVars, pending_dials,
                   swarmVars, taskVars, inboxVars, viewVars, streamVars>>

\* Mutant: the event is read but stays in the queue.
PeekDial(p) ==
    /\ awake /\ pending_dials[p] > 0
    /\ UNCHANGED vars
\* A Dial event.  The swarm refuses, without an event for the loop, to dial a
\* peer that is connected or being dialed.
PopDial(p) ==
    /\ awake /\ pending_dials[p] > 0
    /\ pending_dials' = [pending_dials EXCEPT ![p] = @ - 1]
    /\ UNCHANGED pending_addrs
    /\ IF conns[p] > 0 \/ p \in dialing
       THEN OnDialFailure(p, FALSE) /\ UNCHANGED dialing
       ELSE /\ dialing' = dialing \cup {p}
            /\ UNCHANGED <<bootstrap_peers, connected_peers, dialVars>>
    /\ UNCHANGED <<conns, taskVars, inboxVars, viewVars, streamVars>>

\* The end of poll, once nothing is pending: due dials are released.
ReleaseOrSleep ==
    /\ ReleaseDueDials
    /\ awake' = (\E p \in Peers : pending_dials'[p] > 0)
    /\ timer' = IF awake' THEN timer ELSE \E p \in Peers : next_dial_attempts'[p] > 0

\* An announcement is taken from the stream.  One that queues no event ends in
\* the rest of poll, without another poll of the stream.
PollAnnounce ==
    /\ awake /\ NoDialsPending /\ events # <<>>
    /\ events' = Tail(events)
    /\ LET a == Head(events) IN
       IF a.peer = Me \/ DialableAddresses(a.addrs) = {}
       THEN ReleaseOrSleep
       ELSE /\ OnAnnounce(a.peer, a.addrs)
            /\ UNCHANGED <<connected_peers, pending_dials, awake, timer>>
    /\ UNCHANGED <<stream_waker, announced, swarmVars, viewVars, streamVars>>

\* The stream has nothing: it keeps the waker.
PollIdle ==
    /\ awake /\ NoDialsPending /\ events = <<>>
    /\ stream_waker' = TRUE
    /\ ReleaseOrSleep
    /\ UNCHANGED <<inboxVars, swarmVars, viewVars, streamVars>>

Poll == PopAddr \/ (\E p \in Peers : PopDial(p)) \/ PollAnnounce \/ PollIdle
-----------------------------------------------------------------------------
(***************************************************************************)
(* Events of the swarm, each handled by the behaviour and by the loop.     *)
(***************************************************************************)
\* store.add, for an address the node may dial.
StoreAdd(p, addr) ==
    store' = IF Allowed(addr) THEN [store EXCEPT ![p] = @ \cup {addr}] ELSE store

StoreRemove(p) == store' = [store EXCEPT ![p] = {}]

\* LivenessRegistry::remove clears the flag that the streams of p share.
FlagsCleared(p) ==
    [s \in Streams |->
        IF streams[s].peer = p /\ p \in registry THEN [streams[s] EXCEPT !.alive = FALSE]
        ELSE streams[s]]

DisconnectPeer(p) ==
    /\ tracker' = tracker \ {p}
    /\ registry' = registry \ {p}
    /\ streams' = FlagsCleared(p)
    /\ last_event' = [last_event EXCEPT ![p] = "disconnected"]

\* The loop's part of ConnectionEstablished: only the first connection counts.
LoopEstablished(p, addr) ==
    IF conns[p] = 0
    THEN /\ StoreAdd(p, addr)
         /\ tracker' = tracker \cup {p}
         /\ last_event' = [last_event EXCEPT ![p] = "connected"]
    ELSE UNCHANGED viewVars

Established(p, addr) ==
    /\ conns[p] < MaxConnections
    /\ conns' = [conns EXCEPT ![p] = @ + 1]
    /\ OnEstablished(p)
    /\ LoopEstablished(p, addr)
    /\ awake' = TRUE
    /\ UNCHANGED <<stream_waker, timer, inboxVars, streamVars>>

Incoming(p, addr) == Established(p, addr) /\ UNCHANGED dialing

\* A dial tries the addresses discovery knows.
DialSucceeds(p, addr) ==
    /\ p \in dialing /\ addr \in bootstrap_peers[p]
    /\ dialing' = dialing \ {p}
    /\ Established(p, addr)

\* NetworkView::is_connected, and with it connected_peers and health.
InNetworkView(p) == p \in tracker

\* num_established == 0 of ConnectionClosed.
LastConnection(p) == conns[p] = 1

ConnectionClosed(p) ==
    /\ conns[p] > 0
    /\ conns' = [conns EXCEPT ![p] = @ - 1]
    /\ OnClosed(p)
    /\ IF LastConnection(p) THEN DisconnectPeer(p)
       ELSE UNCHANGED <<tracker, last_event, streamVars>>
    /\ awake' = TRUE
    /\ UNCHANGED <<dialing, stream_waker, timer, inboxVars, store>>

\* Mutant: the error of a dial tears down a peer that connected to us meanwhile.
LoopDialErrorAlways(p) ==
    /\ StoreRemove(p)
    /\ DisconnectPeer(p)
\* OutgoingConnectionError.
LoopDialError(p) ==
    IF conns[p] = 0
    THEN StoreRemove(p) /\ DisconnectPeer(p)
    ELSE UNCHANGED <<viewVars, streamVars>>

DialFails(p) ==
    /\ p \in dialing
    /\ dialing' = dialing \ {p}
    /\ OnDialFailure(p, FALSE)
    /\ LoopDialError(p)
    /\ awake' = TRUE
    /\ UNCHANGED <<conns, pending_dials, pending_addrs, stream_waker, timer, inboxVars>>

DialEnds(p) == DialFails(p) \/ \E addr \in Addresses : DialSucceeds(p, addr)
-----------------------------------------------------------------------------
(***************************************************************************)
(* Substreams: HoprNetwork::open and HoprNetwork::accept.                  *)
(***************************************************************************)
\* open takes the flag of the peer before it asks for a stream.
Open(s, p) ==
    /\ streams[s].stage = "none"
    /\ registry' = registry \cup {p}
    /\ streams' = [streams EXCEPT ![s] =
            [stage |-> IF conns[p] > 0 THEN "opening" ELSE "want",
             peer |-> p, alive |-> TRUE, late |-> FALSE]]
    /\ UNCHANGED <<discoveryVars, swarmVars, taskVars, inboxVars, viewVars>>

\* The stream behaviour dials; discovery supplies the addresses of a known peer,
\* and the dial of an unknown one fails before it begins.
OpenDials(s) ==
    LET p == streams[s].peer IN
    /\ streams[s].stage = "want"
    /\ streams' = [streams EXCEPT ![s].stage = "opening"]
    /\ IF conns[p] = 0 /\ p \notin dialing /\ HasKnownAddress(p)
       THEN /\ dialing' = dialing \cup {p}
            /\ UNCHANGED discoveryVars
       ELSE /\ OnDialFailure(p, conns[p] = 0 /\ p \notin dialing)
            /\ UNCHANGED <<dialing, pending_dials, pending_addrs>>
    /\ awake' = TRUE
    /\ UNCHANGED <<conns, stream_waker, timer, inboxVars, viewVars, registry>>

Opened(s) ==
    /\ streams[s].stage = "opening" /\ conns[streams[s].peer] > 0
    /\ streams' = [streams EXCEPT ![s].stage = "open"]
    /\ UNCHANGED <<discoveryVars, swarmVars, taskVars, inboxVars, viewVars, registry>>

\* A stream from the peer waits in the channel that accept reads.
StreamArrives(s, p) ==
    /\ streams[s].stage = "none" /\ conns[p] > 0
    /\ streams' = [streams EXCEPT ![s] = [NoStream EXCEPT !.stage = "queued", !.peer = p]]
    /\ UNCHANGED <<discoveryVars, swarmVars, taskVars, inboxVars, viewVars, registry>>

\* Mutant: the accepted stream gets a flag that is not registered.
AcceptRegisters(p) == registry
\* get_or_create_connected.
Registered(p) == registry \cup {p}

\* The reader of accept wraps it, possibly after its connection is gone.
Accept(s) ==
    LET p == streams[s].peer IN
    /\ streams[s].stage = "queued"
    /\ registry' = Registered(p)
    /\ streams' = [streams EXCEPT ![s].stage = "open", ![s].alive = TRUE, ![s].late = (conns[p] = 0)]
    /\ UNCHANGED <<discoveryVars, swarmVars, taskVars, inboxVars, viewVars>>

\* poll_read, poll_write, poll_flush and poll_close fail once the flag is cleared.
PollFails(s) == streams[s].stage = "open" /\ ~streams[s].alive

\* The stream could not be opened, or its user drops it.
DropStream(s) ==
    /\ streams[s].stage \in {"opening", "open"}
    /\ streams' = [streams EXCEPT ![s] = NoStream]
    /\ UNCHANGED <<discoveryVars, swarmVars, taskVars, inboxVars, viewVars, registry>>
-----------------------------------------------------------------------------
Next ==
    \/ \E a \in Announcements : Announce(a)
    \/ \E p \in Peers : FallsDue(p)
    \/ TimerFires
    \/ OtherActivity
    \/ Poll
    \/ \E p \in Peers, addr \in Addresses : Incoming(p, addr)
    \/ \E p \in Peers : ConnectionClosed(p)
    \/ \E p \in Peers : DialEnds(p)
    \/ \E s \in Streams, p \in Peers : Open(s, p) \/ StreamArrives(s, p)
    \/ \E s \in Streams : OpenDials(s) \/ Opened(s) \/ Accept(s) \/ DropStream(s)

\* The executor polls a woken task, delays pass, the timer fires, a dial ends, and
\* the other behaviours' timers wake the task now and then.
Fairness ==
    /\ WF_vars(Poll)
    /\ WF_vars(TimerFires)
    /\ WF_vars(OtherActivity)
    /\ \A p \in Peers : WF_vars(FallsDue(p)) /\ WF_vars(DialEnds(p))

Spec == Init /\ [][Next]_vars /\ Fairness
-----------------------------------------------------------------------------
TypeOK ==
    /\ bootstrap_peers \in [Peers -> SUBSET Addresses]
    /\ connected_peers \in [Peers -> Nat]
    /\ next_dial_attempts \in [Peers -> Nat]
    /\ due \subseteq Peers /\ queued_dials \subseteq Peers /\ not_connected_peers \subseteq Peers
    /\ pending_dials \in [Peers -> Nat] /\ pending_addrs \in Nat
    /\ conns \in [Peers -> 0..MaxConnections] /\ dialing \subseteq Peers
    /\ events \in Seq(Announcements) /\ announced \in 0..MaxAnnouncements
    /\ awake \in BOOLEAN /\ stream_waker \in BOOLEAN /\ timer \in BOOLEAN
    /\ tracker \subseteq Peers /\ store \in [Peers -> SUBSET Addresses]
    /\ last_event \in [Peers -> {"none", "connected", "disconnected"}]
    /\ registry \subseteq Peers
    /\ streams \in [Streams -> [stage : Stages, peer : Peers \cup {Me},
                                alive : BOOLEAN, late : BOOLEAN]]

\* discovery.rs, queued_dials: "Mirrors the peers currently in next_dial_attempts".
\* A peer is in the heap at most once, exactly when the mirror holds it, and never
\* while it is connected: no order of announcements, connections and dial
\* failures makes a peer be dialed twice at a time or dialed while connected.
MirrorExact ==
    \A p \in Peers :
        /\ next_dial_attempts[p] = IF p \in queued_dials THEN 1 ELSE 0
        /\ connected_peers[p] > 0 => p \notin queued_dials

\* No announced peer is forgotten: without a connection, it is queued for a dial,
\* about to be dialed, or being dialed.
KnownPeersAreInHand ==
    \A p \in Peers :
        HasKnownAddress(p) /\ conns[p] = 0
            => p \in queued_dials \/ pending_dials[p] > 0 \/ p \in dialing

\* Discovery's count, NetworkView and the last event a subscriber saw tell the
\* same of each peer as the swarm, whichever side dialed and whatever failed.
ViewsAgree ==
    \A p \in Peers :
        /\ connected_peers[p] = conns[p]
        /\ InNetworkView(p) <=> conns[p] > 0
        /\ last_event[p] = "connected" <=> conns[p] > 0

\* Discovery, swarm, network view and subscribers tell the same of every peer, the
\* dial queue and its mirror agree, and a known peer without a connection is
\* queued, about to be dialed or being dialed.
PeersAreFollowed == MirrorExact /\ KnownPeersAreInHand /\ ViewsAgree

\* liveness.rs: once the last connection of a peer is gone, every stream that was
\* wrapped while there was one fails on its next poll.
StreamsEndWithConnection ==
    \A s \in Streams :
        streams[s].stage = "open" /\ ~PollFails(s) /\ ~streams[s].late
            => conns[streams[s].peer] > 0

\* An announced peer without a connection is dialed again and again: a dial is
\* under way or a connection exists at some later time.
KnownPeersAreDialed ==
    \A p \in Peers :
        (HasKnownAddress(p) /\ conns[p] = 0) ~> (p \in dialing \/ conns[p] > 0)

\* Every announcement is read from the stream, although an announcement that
\* queues nothing leaves the stream without a waker.
AnnouncementsAreRead == (events # <<>>) ~> (events = <<>>)
=============================================================================
