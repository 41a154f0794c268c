------------------------------ MODULE Discovery ------------------------------
(***************************************************************************)
(* The dial scheduler of the libp2p behaviour (p2p/behavior/discovery.rs): *)
(* announced peers that are not connected are dialed, and dialed again     *)
(* with a growing delay, until a connection exists.                        *)
(*                                                                         *)
(* The operators below are the handlers of the behaviour; Transport calls  *)
(* them from the swarm.  Delays are abstracted: a queued dial falls due at *)
(* some time.  `pending_events` is kept as the number of Dial events per   *)
(* peer and the number of address events: their order does not matter.     *)
(***************************************************************************)
EXTENDS Integers

CONSTANTS
    Peers,        \* other nodes
    Me,           \* this node
    AllowPrivate  \* allow_private_addresses

ASSUME DiscoveryAssumption == Me \notin Peers /\ AllowPrivate \in BOOLEAN

Addresses == {"public", "private"}

VARIABLES
    bootstrap_peers,      \* announced addresses that may be dialed
    connected_peers,      \* number of connections per peer
    next_dial_attempts,   \* number of entries of the heap per peer
    due,                  \* peers whose entry's release time has passed
    queued_dials,         \* mirror of the heap
    not_connected_peers,  \* peers with a backoff
    pending_dials,        \* Dial events in pending_events, per peer
    pending_addrs         \* number of NewExternalAddrOfPeer events in it

dialVars == <<next_dial_attempts, due, queued_dials, not_connected_peers>>
discoveryVars == <<bootstrap_peers, connected_peers, dialVars, pending_dials, pending_addrs>>

DiscoveryInit ==
    /\ bootstrap_peers = [p \in Peers |-> {}]
    /\ connected_peers = [p \in Peers |-> 0]
    /\ next_dial_attempts = [p \in Peers |-> 0]
    /\ due = {} /\ queued_dials = {} /\ not_connected_peers = {}
    /\ pending_dials = [p \in Peers |-> 0]
    /\ pending_addrs = 0

\* is_public_address, unless private addresses are allowed.
Allowed(a) == AllowPrivate \/ a = "public"

DialableAddresses(addrs) == {a \in addrs : Allowed(a)}

HasKnownAddress(p)  == bootstrap_peers[p] # {}
HasScheduledDial(p) == p \in queued_dials
Connected(p)        == connected_peers[p] > 0

NoDialsPending == pending_addrs = 0 /\ \A p \in Peers : pending_dials[p] = 0
-----------------------------------------------------------------------------
\* cancel_dial: neither a backoff nor a queued dial is left of the peer.
CancelDial(p) ==
    /\ not_connected_peers' = not_connected_peers \ {p}
    /\ queued_dials' = queued_dials \ {p}
    /\ next_dial_attempts' = [next_dial_attempts EXCEPT ![p] = 0]
    /\ due' = due \ {p}

\* schedule_dial_with, for a peer with a known address.
ScheduleDialWith(p) ==
    IF HasScheduledDial(p) THEN UNCHANGED dialVars
    ELSE /\ not_connected_peers' = not_connected_peers \cup {p}
         /\ queued_dials' = queued_dials \cup {p}
         /\ next_dial_attempts' = [next_dial_attempts EXCEPT ![p] = @ + 1]
         /\ UNCHANGED due

\* on_swarm_event, ConnectionEstablished.
OnEstablished(p) ==
    /\ connected_peers' = [connected_peers EXCEPT ![p] = @ + 1]
    /\ CancelDial(p)
    /\ UNCHANGED <<bootstrap_peers, pending_dials, pending_addrs>>

\* Mutant: a lost connection is not dialed again.
NotRedialed(p) ==
    /\ connected_peers' = [connected_peers EXCEPT ![p] = IF @ > 0 THEN @ - 1 ELSE 0]
    /\ UNCHANGED <<dialVars, bootstrap_peers, pending_dials, pending_addrs>>
\* on_swarm_event, ConnectionClosed.
OnClosed(p) ==
    /\ connected_peers' = [connected_peers EXCEPT ![p] = IF @ > 0 THEN @ - 1 ELSE 0]
    /\ IF /\ connected_peers'[p] = 0
          /\ p \notin not_connected_peers
          /\ HasKnownAddress(p)
       THEN ScheduleDialWith(p)
       ELSE UNCHANGED dialVars
    /\ UNCHANGED <<bootstrap_peers, pending_dials, pending_addrs>>

\* on_swarm_event, DialFailure.
OnDialFailure(p, noAddresses) ==
    /\ IF Connected(p) \/ noAddresses \/ ~HasKnownAddress(p)
       THEN CancelDial(p)
       ELSE ScheduleDialWith(p)
    /\ UNCHANGED <<bootstrap_peers, connected_peers>>

\* An announcement taken from the stream by poll.
OnAnnounce(p, addrs) ==
    LET dialable == DialableAddresses(addrs) IN
    IF p = Me \/ dialable = {}
    THEN UNCHANGED <<bootstrap_peers, pending_addrs, dialVars>>
    ELSE /\ bootstrap_peers' = [bootstrap_peers EXCEPT ![p] = dialable]
         /\ pending_addrs' = pending_addrs + (IF dialable = Addresses THEN 2 ELSE 1)
         /\ IF ~Connected(p) /\ p \notin not_connected_peers
            THEN ScheduleDialWith(p)
            ELSE UNCHANGED dialVars

\* Mutant: the released entry stays in the mirror.
MirrorKept == queued_dials
\* The mirror without the entries that poll takes from the heap.
MirrorReleased == queued_dials \ due

\* poll takes every entry that is due from the heap and dials its peer, unless
\* it was unscheduled meanwhile.
ReleaseDueDials ==
    /\ next_dial_attempts' = [p \in Peers |-> next_dial_attempts[p] - (IF p \in due THEN 1 ELSE 0)]
    /\ queued_dials' = MirrorReleased
    /\ due' = {}
    /\ pending_dials' = [p \in Peers |-> pending_dials[p] +
            (IF p \in due /\ p \in not_connected_peers /\ HasKnownAddress(p) THEN 1 ELSE 0)]
    /\ not_connected_peers' = not_connected_peers \ {p \in due : ~HasKnownAddress(p)}
    /\ UNCHANGED <<bootstrap_peers, connected_peers, pending_addrs>>
=============================================================================
