-------------------------- MODULE Transport_proofs --------------------------
(***************************************************************************)
(* Proofs about Transport and the discovery behaviour it drives, for any   *)
(* peers, streams and announcements: every view of a peer agrees with the  *)
(* swarm, a known peer is always in hand, and streams end with their       *)
(* connection.                                                             *)
(***************************************************************************)
EXTENDS Transport, TLAPS

\* What the dial scheduler keeps of a peer with a backoff: it has one while it is
\* known and not connected, and then a dial of it is queued, pending or running.
DialsInHand ==
    /\ due \subseteq queued_dials /\ queued_dials \subseteq not_connected_peers
    /\ \A p \in Peers :
        /\ conns[p] > 0 => p \notin not_connected_peers
        /\ HasKnownAddress(p) /\ conns[p] = 0 => p \in not_connected_peers
        /\ p \in not_connected_peers => p \in queued_dials \/ pending_dials[p] > 0 \/ p \in dialing

\* A flag that is set is the registered one, so clearing the registered flag of a
\* peer reaches every stream of it.
FlagsRegistered ==
    \A s \in Streams :
        /\ streams[s].stage # "none" => streams[s].peer \in Peers
        /\ streams[s].alive => streams[s].peer \in registry

\* The inductive invariant.
TransportInv ==
    /\ TypeOK /\ MirrorExact /\ ViewsAgree /\ DialsInHand
    /\ FlagsRegistered /\ StreamsEndWithConnection
-----------------------------------------------------------------------------
\* TypeOK and the rest of the invariant, by the variables they are about.
SwarmTypes ==
    /\ bootstrap_peers \in [Peers -> SUBSET Addresses]
    /\ connected_peers \in [Peers -> Nat] /\ next_dial_attempts \in [Peers -> Nat]
    /\ due \subseteq Peers /\ queued_dials \subseteq Peers /\ not_connected_peers \subseteq Peers
    /\ pending_dials \in [Peers -> Nat] /\ pending_addrs \in Nat
    /\ conns \in [Peers -> 0..MaxConnections] /\ dialing \subseteq Peers

TaskTypes ==
    /\ events \in Seq(Announcements) /\ announced \in 0..MaxAnnouncements
    /\ awake \in BOOLEAN /\ stream_waker \in BOOLEAN /\ timer \in BOOLEAN
    /\ store \in [Peers -> SUBSET Addresses]

ViewTypes ==
    tracker \subseteq Peers /\ last_event \in [Peers -> {"none", "connected", "disconnected"}]

StreamRecords == [stage : Stages, peer : Peers \cup {Me}, alive : BOOLEAN, late : BOOLEAN]
StreamTypes   == registry \subseteq Peers /\ streams \in [Streams -> StreamRecords]

CountsAgree == \A p \in Peers : connected_peers[p] = conns[p]
SwarmInv == SwarmTypes /\ MirrorExact /\ CountsAgree /\ DialsInHand

ViewsFollow ==
    \A p \in Peers :
        /\ p \in tracker <=> conns[p] > 0
        /\ last_event[p] = "connected" <=> conns[p] > 0
ViewInv == ViewTypes /\ ViewsFollow

StreamInv == StreamTypes /\ FlagsRegistered /\ StreamsEndWithConnection

\* The invariant falls apart into these four.
LEMMA InvParts == TransportInv <=> SwarmInv /\ TaskTypes /\ ViewInv /\ StreamInv
BY DEF TransportInv, TypeOK, SwarmInv, SwarmTypes, TaskTypes, ViewTypes, StreamTypes, StreamRecords,
       CountsAgree, ViewsFollow, ViewInv, StreamInv, ViewsAgree, InNetworkView

\* The invariant does so in the next state, too.
LEMMA InvPartsNext == TransportInv' <=> SwarmInv' /\ TaskTypes' /\ ViewInv' /\ StreamInv'
BY DEF TransportInv, TypeOK, SwarmInv, SwarmTypes, TaskTypes, ViewTypes, StreamTypes, StreamRecords,
       CountsAgree, ViewsFollow, ViewInv, StreamInv, ViewsAgree, InNetworkView

-----------------------------------------------------------------------------
(***************************************************************************)
(* The dial scheduler.  Each lemma takes one handler of the behaviour with *)
(* what the swarm does in the same step.                                   *)
(***************************************************************************)

\* A step that changes neither the scheduler nor the swarm.
LEMMA SwarmUnchanged ==
    ASSUME SwarmInv, UNCHANGED <<discoveryVars, swarmVars>> PROVE SwarmInv'
BY DEF SwarmInv, SwarmTypes, MirrorExact, CountsAgree, DialsInHand, HasKnownAddress, discoveryVars, dialVars, swarmVars

\* A queued dial falls due.
LEMMA FallsDueStep ==
    ASSUME SwarmInv, NEW p \in Peers, FallsDue(p) PROVE SwarmInv'
BY DEF SwarmInv, SwarmTypes, MirrorExact, CountsAgree, DialsInHand, HasKnownAddress, FallsDue, swarmVars

\* An address event is handed to the swarm.
LEMMA PopAddrStep == ASSUME SwarmInv, PopAddr PROVE SwarmInv'
BY DEF SwarmInv, SwarmTypes, MirrorExact, CountsAgree, DialsInHand, HasKnownAddress, PopAddr, dialVars, swarmVars

\* A peer becomes connected: its dial is cancelled.
LEMMA EstablishedStep ==
    ASSUME SwarmInv, NEW p \in Peers, OnEstablished(p), conns[p] < MaxConnections,
           conns' = [conns EXCEPT ![p] = @ + 1], dialing' \subseteq Peers,
           \A q \in Peers \ {p} : q \in dialing => q \in dialing'
    PROVE  SwarmInv'
<1>1. SwarmTypes'
    BY TransportAssumption DEF SwarmInv, SwarmTypes, MirrorExact, CountsAgree, DialsInHand, HasKnownAddress, OnEstablished, CancelDial
<1>2. MirrorExact' /\ CountsAgree'
    BY DEF SwarmInv, SwarmTypes, MirrorExact, CountsAgree, DialsInHand, HasKnownAddress, OnEstablished, CancelDial
<1>3. DialsInHand'
    BY DEF SwarmInv, SwarmTypes, MirrorExact, CountsAgree, DialsInHand, HasKnownAddress, OnEstablished, CancelDial
<1> QED BY <1>1, <1>2, <1>3 DEF SwarmInv

\* A connection is closed: without another one, a known peer is queued again.
LEMMA ClosedStep ==
    ASSUME SwarmInv, NEW p \in Peers, OnClosed(p), conns[p] > 0,
           conns' = [conns EXCEPT ![p] = @ - 1], UNCHANGED dialing
    PROVE  SwarmInv'
<1>1. /\ connected_peers' = [connected_peers EXCEPT ![p] = @ - 1]
      /\ UNCHANGED <<bootstrap_peers, pending_dials, pending_addrs>>
    BY DEF SwarmInv, SwarmTypes, MirrorExact, CountsAgree, DialsInHand, HasKnownAddress, OnClosed
<1>2. /\ connected_peers[p] - 1 \in Nat /\ conns[p] - 1 \in 0..MaxConnections
      /\ connected_peers[p] = conns[p]
    BY TransportAssumption DEF SwarmInv, SwarmTypes, CountsAgree
<1>3. p \notin not_connected_peers /\ p \notin queued_dials
    BY DEF SwarmInv, DialsInHand
<1>4. CASE connected_peers'[p] = 0 /\ HasKnownAddress(p)
    <2>1. ScheduleDialWith(p) /\ ~HasScheduledDial(p)
        BY <1>3, <1>4 DEF OnClosed, HasScheduledDial
    <2>2. SwarmTypes'
        BY <1>1, <1>2, <2>1 DEF SwarmInv, SwarmTypes, MirrorExact, CountsAgree, DialsInHand, HasKnownAddress, ScheduleDialWith
    <2>3. MirrorExact' /\ CountsAgree'
        BY <1>1, <1>2, <1>4, <2>1 DEF SwarmInv, SwarmTypes, MirrorExact, CountsAgree, DialsInHand, HasKnownAddress, ScheduleDialWith, HasScheduledDial
    <2>4. DialsInHand'
        BY <1>1, <1>2, <1>4, <2>1 DEF SwarmInv, SwarmTypes, MirrorExact, CountsAgree, DialsInHand, HasKnownAddress, ScheduleDialWith
    <2> QED BY <2>2, <2>3, <2>4 DEF SwarmInv
<1>5. CASE ~(connected_peers'[p] = 0 /\ HasKnownAddress(p))
    <2>1. UNCHANGED dialVars
        BY <1>5 DEF OnClosed
    <2>2. SwarmTypes'
        BY <1>1, <1>2, <2>1 DEF SwarmInv, SwarmTypes, MirrorExact, CountsAgree, DialsInHand, HasKnownAddress, dialVars
    <2>3. MirrorExact' /\ CountsAgree'
        BY <1>1, <1>2, <1>3, <2>1 DEF SwarmInv, SwarmTypes, MirrorExact, CountsAgree, DialsInHand, HasKnownAddress, dialVars
    <2>4. DialsInHand'
        BY <1>1, <1>2, <1>3, <1>5, <2>1 DEF SwarmInv, SwarmTypes, MirrorExact, CountsAgree, DialsInHand, HasKnownAddress, dialVars
    <2> QED BY <2>2, <2>3, <2>4 DEF SwarmInv
<1> QED BY <1>4, <1>5

\* A dial of p came to nothing or was refused: whatever held p in hand before, a
\* known peer without a connection is queued afterwards, and any other given up.
LEMMA DialFailureStep ==
    ASSUME SwarmInv, NEW p \in Peers, NEW noAddresses \in BOOLEAN, OnDialFailure(p, noAddresses),
           noAddresses => ~HasKnownAddress(p) \/ conns[p] > 0,
           UNCHANGED <<conns, pending_addrs>>, dialing' \subseteq Peers,
           pending_dials' \in [Peers -> Nat],
           \A q \in Peers \ {p} : (q \in dialing => q \in dialing') /\ pending_dials'[q] = pending_dials[q]
    PROVE  SwarmInv'
<1>1. CASE Connected(p) \/ noAddresses \/ ~HasKnownAddress(p)
    <2>1. CancelDial(p)
        BY <1>1 DEF OnDialFailure
    <2>2. conns[p] > 0 \/ ~HasKnownAddress(p)
        BY <1>1 DEF SwarmInv, CountsAgree, Connected
    <2>3. SwarmTypes'
        BY <2>1 DEF SwarmInv, SwarmTypes, MirrorExact, CountsAgree, DialsInHand, HasKnownAddress, OnDialFailure, CancelDial
    <2>4. MirrorExact' /\ CountsAgree'
        BY <2>1 DEF SwarmInv, SwarmTypes, MirrorExact, CountsAgree, DialsInHand, HasKnownAddress, OnDialFailure, CancelDial
    <2>5. DialsInHand'
        BY <2>1, <2>2 DEF SwarmInv, SwarmTypes, MirrorExact, CountsAgree, DialsInHand, HasKnownAddress, OnDialFailure, CancelDial
    <2> QED BY <2>3, <2>4, <2>5 DEF SwarmInv
<1>2. CASE ~(Connected(p) \/ noAddresses \/ ~HasKnownAddress(p))
    <2>1. ScheduleDialWith(p)
        BY <1>2 DEF OnDialFailure
    <2>2. conns[p] = 0 /\ HasKnownAddress(p)
        BY <1>2 DEF SwarmInv, SwarmTypes, MirrorExact, CountsAgree, DialsInHand, HasKnownAddress, Connected
    <2>3. CASE HasScheduledDial(p)
        <3>1. UNCHANGED dialVars
            BY <2>1, <2>3 DEF ScheduleDialWith
        <3> QED BY <2>3, <3>1 DEF SwarmInv, SwarmTypes, MirrorExact, CountsAgree, DialsInHand, HasKnownAddress, OnDialFailure, dialVars, HasScheduledDial
    <2>4. CASE ~HasScheduledDial(p)
        <3>1. SwarmTypes'
            BY <2>1, <2>4 DEF SwarmInv, SwarmTypes, MirrorExact, CountsAgree, DialsInHand, HasKnownAddress, OnDialFailure, ScheduleDialWith
        <3>2. MirrorExact' /\ CountsAgree'
            BY <2>1, <2>2, <2>4 DEF SwarmInv, SwarmTypes, MirrorExact, CountsAgree, DialsInHand, HasKnownAddress, OnDialFailure, ScheduleDialWith, HasScheduledDial
        <3>3. DialsInHand'
            BY <2>1, <2>2, <2>4 DEF SwarmInv, SwarmTypes, MirrorExact, CountsAgree, DialsInHand, HasKnownAddress, OnDialFailure, ScheduleDialWith
        <3> QED BY <3>1, <3>2, <3>3 DEF SwarmInv
    <2> QED BY <2>3, <2>4
<1> QED BY <1>1, <1>2

\* poll releases the dials that are due.
LEMMA ReleaseStep ==
    ASSUME SwarmInv, ReleaseDueDials, UNCHANGED swarmVars PROVE SwarmInv'
<1>1. \A p \in Peers : p \in due => next_dial_attempts[p] = 1 /\ p \in not_connected_peers /\ p \in queued_dials
    BY DEF SwarmInv, MirrorExact, DialsInHand
<1>2. SwarmTypes'
    <2>1. next_dial_attempts' \in [Peers -> Nat]
        BY <1>1 DEF ReleaseDueDials, SwarmInv, SwarmTypes
    <2>2. pending_dials' \in [Peers -> Nat]
        BY DEF ReleaseDueDials, SwarmInv, SwarmTypes
    <2> QED BY <2>1, <2>2 DEF ReleaseDueDials, SwarmInv, SwarmTypes, MirrorReleased, swarmVars
<1>3. MirrorExact' /\ CountsAgree'
    BY <1>1 DEF SwarmInv, SwarmTypes, MirrorExact, CountsAgree, DialsInHand, HasKnownAddress, ReleaseDueDials, MirrorReleased, swarmVars
<1>4. DialsInHand'
    <2>1. due' \subseteq queued_dials' /\ queued_dials' \subseteq not_connected_peers'
        <3>1. \A p \in Peers : p \in queued_dials \ due => p \in not_connected_peers'
            BY DEF SwarmInv, SwarmTypes, MirrorExact, CountsAgree, DialsInHand, HasKnownAddress, ReleaseDueDials
        <3> QED BY <3>1 DEF ReleaseDueDials, MirrorReleased, SwarmInv, SwarmTypes
    <2>2. ASSUME NEW p \in Peers
          PROVE  /\ conns'[p] > 0 => p \notin not_connected_peers'
                 /\ HasKnownAddress(p)' /\ conns'[p] = 0 => p \in not_connected_peers'
        BY DEF SwarmInv, SwarmTypes, MirrorExact, CountsAgree, DialsInHand, HasKnownAddress, ReleaseDueDials, swarmVars
    <2>3. ASSUME NEW p \in Peers, p \in not_connected_peers'
          PROVE  p \in queued_dials' \/ pending_dials'[p] > 0 \/ p \in dialing'
        <3>1. p \in not_connected_peers /\ (p \in due => HasKnownAddress(p))
            BY <2>3 DEF ReleaseDueDials
        <3>2. CASE p \in due
            BY <3>1, <3>2 DEF ReleaseDueDials, SwarmInv, SwarmTypes
        <3>3. CASE p \notin due
            BY <3>1, <3>3 DEF ReleaseDueDials, MirrorReleased, SwarmInv, SwarmTypes, DialsInHand, swarmVars
        <3> QED BY <3>2, <3>3
    <2> QED BY <2>1, <2>2, <2>3 DEF DialsInHand
<1> QED BY <1>2, <1>3, <1>4 DEF SwarmInv

\* A peer with an address that may be dialed is announced.
LEMMA AnnouncedStep ==
    ASSUME SwarmInv, NEW p \in Peers, NEW addrs \in SUBSET Addresses, DialableAddresses(addrs) # {},
           OnAnnounce(p, addrs), UNCHANGED <<connected_peers, pending_dials, swarmVars>>
    PROVE  SwarmInv'
<1> DEFINE dialable == DialableAddresses(addrs)
<1>1. /\ bootstrap_peers' = [bootstrap_peers EXCEPT ![p] = dialable]
      /\ pending_addrs' = pending_addrs + (IF dialable = Addresses THEN 2 ELSE 1)
      /\ IF ~Connected(p) /\ p \notin not_connected_peers THEN ScheduleDialWith(p) ELSE UNCHANGED dialVars
    BY DiscoveryAssumption DEF OnAnnounce
<1>2. dialable \in SUBSET Addresses /\ dialable # {}
    BY DEF DialableAddresses
<1> HIDE DEF dialable
<1>3. pending_addrs' \in Nat /\ bootstrap_peers' \in [Peers -> SUBSET Addresses]
    BY <1>1, <1>2 DEF SwarmInv, SwarmTypes
<1>4. CASE ~Connected(p) /\ p \notin not_connected_peers
    <2>1. ScheduleDialWith(p) /\ ~HasScheduledDial(p) /\ conns[p] = 0
        BY <1>1, <1>4 DEF SwarmInv, SwarmTypes, MirrorExact, CountsAgree, DialsInHand, HasKnownAddress, Connected, HasScheduledDial
    <2>2. SwarmTypes'
        BY <1>3, <2>1 DEF SwarmInv, SwarmTypes, ScheduleDialWith, swarmVars
    <2>3. MirrorExact' /\ CountsAgree'
        BY <2>1 DEF SwarmInv, SwarmTypes, MirrorExact, CountsAgree, DialsInHand, HasKnownAddress, ScheduleDialWith, HasScheduledDial, swarmVars
    <2>4. DialsInHand'
        BY <1>1, <1>2, <2>1 DEF SwarmInv, SwarmTypes, MirrorExact, CountsAgree, DialsInHand, HasKnownAddress, ScheduleDialWith, swarmVars
    <2> QED BY <2>2, <2>3, <2>4 DEF SwarmInv
<1>5. CASE ~(~Connected(p) /\ p \notin not_connected_peers)
    <2>1. UNCHANGED dialVars /\ (conns[p] > 0 \/ p \in not_connected_peers)
        BY <1>1, <1>5 DEF SwarmInv, CountsAgree, Connected
    <2>2. SwarmTypes'
        BY <1>3, <2>1 DEF SwarmInv, SwarmTypes, dialVars, swarmVars
    <2>3. MirrorExact' /\ CountsAgree' /\ DialsInHand'
        BY <1>1, <1>2, <2>1 DEF SwarmInv, SwarmTypes, MirrorExact, CountsAgree, DialsInHand, HasKnownAddress, dialVars, swarmVars
    <2> QED BY <2>2, <2>3 DEF SwarmInv
<1> QED BY <1>4, <1>5

\* Every step keeps the scheduler and the swarm in agreement.
LEMMA SwarmStep ==
    ASSUME SwarmInv, TaskTypes, StreamInv, [Next]_vars PROVE SwarmInv'
<1>1. ASSUME NEW a \in Announcements, Announce(a) PROVE SwarmInv'
    BY <1>1, SwarmUnchanged DEF Announce
<1>2. ASSUME NEW p \in Peers, FallsDue(p) PROVE SwarmInv'
    BY <1>2, FallsDueStep
<1>3. CASE TimerFires
    BY <1>3, SwarmUnchanged DEF TimerFires
<1>4. CASE OtherActivity
    BY <1>4, SwarmUnchanged DEF OtherActivity
<1>5. CASE PopAddr
    BY <1>5, PopAddrStep
<1>6. ASSUME NEW p \in Peers, PopDial(p) PROVE SwarmInv'
    <2>1. /\ pending_dials' \in [Peers -> Nat]
          /\ \A q \in Peers \ {p} : pending_dials'[q] = pending_dials[q]
        BY <1>6 DEF PopDial, SwarmInv, SwarmTypes
    <2>2. CASE conns[p] > 0 \/ p \in dialing
        <3>1. OnDialFailure(p, FALSE) /\ UNCHANGED <<dialing, conns, pending_addrs>>
            BY <1>6, <2>2 DEF PopDial
        <3> HIDE DEF PopDial
        <3> QED BY <2>1, <3>1, DialFailureStep DEF SwarmInv, SwarmTypes
    <2>3. CASE ~(conns[p] > 0 \/ p \in dialing)
        BY <1>6, <2>1, <2>3 DEF PopDial, dialVars, SwarmInv, SwarmTypes, MirrorExact, CountsAgree, DialsInHand, HasKnownAddress
    <2> QED BY <2>2, <2>3
<1>7. CASE PollAnnounce
    <2>1. Head(events) \in Announcements
        BY <1>7 DEF PollAnnounce, TaskTypes
    <2>2. PICK a \in Announcements : a = Head(events)
        BY <2>1
    <2>3. a.peer \in Peers \cup {Me} /\ a.addrs \in SUBSET Addresses
        BY <2>2, TransportAssumption
    <2>4. CASE a.peer = Me \/ DialableAddresses(a.addrs) = {}
        BY <1>7, <2>2, <2>4, ReleaseStep DEF PollAnnounce, ReleaseOrSleep
    <2>5. CASE ~(a.peer = Me \/ DialableAddresses(a.addrs) = {})
        <3>1. OnAnnounce(a.peer, a.addrs) /\ UNCHANGED <<connected_peers, pending_dials, swarmVars>>
            BY <1>7, <2>2, <2>5 DEF PollAnnounce
        <3> QED BY <2>3, <2>5, <3>1, AnnouncedStep
    <2> QED BY <2>4, <2>5
<1>8. CASE PollIdle
    BY <1>8, ReleaseStep DEF PollIdle, ReleaseOrSleep
<1>9. ASSUME NEW p \in Peers, NEW addr \in Addresses, Incoming(p, addr) PROVE SwarmInv'
    BY <1>9, EstablishedStep DEF Incoming, Established, SwarmInv, SwarmTypes
<1>10. ASSUME NEW p \in Peers, ConnectionClosed(p) PROVE SwarmInv'
    BY <1>10, ClosedStep DEF ConnectionClosed
<1>11. ASSUME NEW p \in Peers, DialFails(p) PROVE SwarmInv'
    <2>1. /\ OnDialFailure(p, FALSE) /\ dialing' = dialing \ {p}
          /\ UNCHANGED <<conns, pending_dials, pending_addrs>>
        BY <1>11 DEF DialFails
    <2> QED BY <2>1, DialFailureStep DEF SwarmInv, SwarmTypes
<1>12. ASSUME NEW p \in Peers, NEW addr \in Addresses, DialSucceeds(p, addr) PROVE SwarmInv'
    BY <1>12, EstablishedStep DEF DialSucceeds, Established, SwarmInv, SwarmTypes
<1>13. ASSUME NEW s \in Streams, NEW p \in Peers, Open(s, p) PROVE SwarmInv'
    BY <1>13, SwarmUnchanged DEF Open
<1>14. ASSUME NEW s \in Streams, NEW p \in Peers, StreamArrives(s, p) PROVE SwarmInv'
    BY <1>14, SwarmUnchanged DEF StreamArrives
<1>15. ASSUME NEW s \in Streams, OpenDials(s) PROVE SwarmInv'
    <2> DEFINE p == streams[s].peer
    <2>1. p \in Peers
        BY <1>15 DEF OpenDials, StreamInv, FlagsRegistered
    <2>2. CASE conns[p] = 0 /\ p \notin dialing /\ HasKnownAddress(p)
        <3>1. dialing' = dialing \cup {p} /\ UNCHANGED <<discoveryVars, conns>>
            BY <1>15, <2>2 DEF OpenDials
        <3> HIDE DEF p
        <3> QED BY <2>1, <3>1 DEF SwarmInv, SwarmTypes, MirrorExact, CountsAgree, DialsInHand, HasKnownAddress, discoveryVars, dialVars
    <2>3. CASE ~(conns[p] = 0 /\ p \notin dialing /\ HasKnownAddress(p))
        <3> DEFINE none == conns[p] = 0 /\ p \notin dialing
        <3>1. OnDialFailure(p, none) /\ UNCHANGED <<dialing, conns, pending_dials, pending_addrs>>
            BY <1>15, <2>3 DEF OpenDials
        <3>2. none \in BOOLEAN /\ (none => ~HasKnownAddress(p))
            BY <2>3
        <3> HIDE DEF p, none
        <3> QED BY <2>1, <3>1, <3>2, DialFailureStep DEF SwarmInv, SwarmTypes
    <2> QED BY <2>2, <2>3
<1>16. ASSUME NEW s \in Streams, Opened(s) PROVE SwarmInv'
    BY <1>16, SwarmUnchanged DEF Opened
<1>17. ASSUME NEW s \in Streams, Accept(s) PROVE SwarmInv'
    BY <1>17, SwarmUnchanged DEF Accept
<1>18. ASSUME NEW s \in Streams, DropStream(s) PROVE SwarmInv'
    BY <1>18, SwarmUnchanged DEF DropStream
<1>19. CASE UNCHANGED vars
    BY <1>19, SwarmUnchanged DEF vars
<1> QED
    BY <1>1, <1>2, <1>3, <1>4, <1>5, <1>6, <1>7, <1>8, <1>9, <1>10, <1>11, <1>12, <1>13, <1>14, <1>15, <1>16, <1>17, <1>18, <1>19
    DEF Next, Poll, DialEnds

-----------------------------------------------------------------------------
(***************************************************************************)
(* The task, the views and the streams.                                    *)
(***************************************************************************)

\* Every step keeps the types of what the task holds.
LEMMA TaskStep ==
    ASSUME TaskTypes, [Next]_vars PROVE TaskTypes'
<1>1. ASSUME NEW a \in Announcements, Announce(a) PROVE TaskTypes'
    <2>1. events' \in Seq(Announcements) /\ announced' \in 0..MaxAnnouncements
        BY <1>1, TransportAssumption DEF TaskTypes, Announce
    <2>2. awake' \in BOOLEAN /\ stream_waker' \in BOOLEAN /\ UNCHANGED <<timer, store>>
        BY <1>1 DEF TaskTypes, Announce, viewVars
    <2> QED BY <2>1, <2>2 DEF TaskTypes
<1>2. ASSUME NEW p \in Peers, FallsDue(p) PROVE TaskTypes'
    BY <1>2 DEF TaskTypes, FallsDue, taskVars, inboxVars, viewVars
<1>3. CASE TimerFires
    BY <1>3 DEF TaskTypes, TimerFires, taskVars, inboxVars, viewVars
<1>4. CASE OtherActivity
    BY <1>4 DEF TaskTypes, OtherActivity, taskVars, inboxVars, viewVars
<1>5. CASE PopAddr
    BY <1>5 DEF TaskTypes, PopAddr, taskVars, inboxVars, viewVars
<1>6. ASSUME NEW p \in Peers, PopDial(p) PROVE TaskTypes'
    BY <1>6 DEF TaskTypes, PopDial, taskVars, inboxVars, viewVars
<1>7. CASE PollAnnounce
    <2>1. events' \in Seq(Announcements) /\ UNCHANGED <<announced, stream_waker, store>>
        BY <1>7 DEF TaskTypes, PollAnnounce, viewVars
    <2>2. awake' \in BOOLEAN /\ timer' \in BOOLEAN
        BY <1>7 DEF TaskTypes, PollAnnounce, ReleaseOrSleep
    <2> QED BY <2>1, <2>2 DEF TaskTypes
<1>8. CASE PollIdle
    BY <1>8 DEF TaskTypes, PollIdle, ReleaseOrSleep, taskVars, inboxVars, viewVars
<1>9. ASSUME NEW p \in Peers, NEW addr \in Addresses, Incoming(p, addr) PROVE TaskTypes'
    BY <1>9 DEF TaskTypes, Incoming, Established, LoopEstablished, StoreAdd, taskVars, inboxVars, viewVars
<1>10. ASSUME NEW p \in Peers, ConnectionClosed(p) PROVE TaskTypes'
    BY <1>10 DEF TaskTypes, ConnectionClosed, taskVars, inboxVars, viewVars
<1>11. ASSUME NEW p \in Peers, DialFails(p) PROVE TaskTypes'
    BY <1>11 DEF TaskTypes, DialFails, LoopDialError, StoreRemove, taskVars, inboxVars, viewVars
<1>12. ASSUME NEW p \in Peers, NEW addr \in Addresses, DialSucceeds(p, addr) PROVE TaskTypes'
    BY <1>12 DEF TaskTypes, DialSucceeds, Established, LoopEstablished, StoreAdd, taskVars, inboxVars, viewVars
<1>13. ASSUME NEW s \in Streams, NEW p \in Peers, Open(s, p) PROVE TaskTypes'
    BY <1>13 DEF TaskTypes, Open, taskVars, inboxVars, viewVars
<1>14. ASSUME NEW s \in Streams, NEW p \in Peers, StreamArrives(s, p) PROVE TaskTypes'
    BY <1>14 DEF TaskTypes, StreamArrives, taskVars, inboxVars, viewVars
<1>15. ASSUME NEW s \in Streams, OpenDials(s) PROVE TaskTypes'
    BY <1>15 DEF TaskTypes, OpenDials, taskVars, inboxVars, viewVars
<1>16. ASSUME NEW s \in Streams, Opened(s) PROVE TaskTypes'
    BY <1>16 DEF TaskTypes, Opened, taskVars, inboxVars, viewVars
<1>17. ASSUME NEW s \in Streams, Accept(s) PROVE TaskTypes'
    BY <1>17 DEF TaskTypes, Accept, taskVars, inboxVars, viewVars
<1>18. ASSUME NEW s \in Streams, DropStream(s) PROVE TaskTypes'
    BY <1>18 DEF TaskTypes, DropStream, taskVars, inboxVars, viewVars
<1>19. CASE UNCHANGED vars
    BY <1>19 DEF TaskTypes, vars, discoveryVars, dialVars, swarmVars, taskVars, inboxVars, viewVars, streamVars
<1> QED
    BY <1>1, <1>2, <1>3, <1>4, <1>5, <1>6, <1>7, <1>8, <1>9, <1>10, <1>11, <1>12, <1>13, <1>14, <1>15, <1>16, <1>17, <1>18, <1>19
    DEF Next, Poll, DialEnds

\* A step without a connection, or an end of one, changes no view.
LEMMA ViewsUnchanged ==
    ASSUME ViewInv, UNCHANGED <<conns, tracker, last_event>> PROVE ViewInv'
BY DEF ViewInv, ViewTypes, ViewsFollow

\* Every step keeps the views in agreement with the swarm.
LEMMA ViewStep ==
    ASSUME SwarmInv, ViewInv, [Next]_vars PROVE ViewInv'
<1>1. ASSUME NEW a \in Announcements, Announce(a) PROVE ViewInv'
    BY <1>1, ViewsUnchanged DEF Announce, swarmVars, viewVars
<1>2. ASSUME NEW p \in Peers, FallsDue(p) PROVE ViewInv'
    BY <1>2, ViewsUnchanged DEF FallsDue, swarmVars, viewVars
<1>3. CASE TimerFires
    BY <1>3, ViewsUnchanged DEF TimerFires, swarmVars, viewVars
<1>4. CASE OtherActivity
    BY <1>4, ViewsUnchanged DEF OtherActivity, swarmVars, viewVars
<1>5. CASE PopAddr
    BY <1>5, ViewsUnchanged DEF PopAddr, swarmVars, viewVars
<1>6. ASSUME NEW p \in Peers, PopDial(p) PROVE ViewInv'
    BY <1>6, ViewsUnchanged DEF PopDial, swarmVars, viewVars
<1>7. CASE PollAnnounce
    BY <1>7, ViewsUnchanged DEF PollAnnounce, swarmVars, viewVars
<1>8. CASE PollIdle
    BY <1>8, ViewsUnchanged DEF PollIdle, swarmVars, viewVars
<1>9. ASSUME NEW p \in Peers, NEW addr \in Addresses, Incoming(p, addr) PROVE ViewInv'
    <2>1. CASE conns[p] = 0
        BY <1>9, <2>1, TransportAssumption DEF ViewInv, ViewTypes, ViewsFollow, SwarmInv, SwarmTypes, Incoming, Established, LoopEstablished
    <2>2. CASE conns[p] # 0
        BY <1>9, <2>2, TransportAssumption DEF ViewInv, ViewTypes, ViewsFollow, SwarmInv, SwarmTypes, Incoming, Established, LoopEstablished, viewVars
    <2> QED BY <2>1, <2>2
<1>10. ASSUME NEW p \in Peers, ConnectionClosed(p) PROVE ViewInv'
    <2>1. CASE LastConnection(p)
        BY <1>10, <2>1 DEF ViewInv, ViewTypes, ViewsFollow, SwarmInv, SwarmTypes, ConnectionClosed, LastConnection, DisconnectPeer
    <2>2. CASE ~LastConnection(p)
        BY <1>10, <2>2 DEF ViewInv, ViewTypes, ViewsFollow, SwarmInv, SwarmTypes, ConnectionClosed, LastConnection
    <2> QED BY <2>1, <2>2
<1>11. ASSUME NEW p \in Peers, DialFails(p) PROVE ViewInv'
    <2>1. CASE conns[p] = 0
        BY <1>11, <2>1 DEF ViewInv, ViewTypes, ViewsFollow, SwarmInv, SwarmTypes, DialFails, LoopDialError, DisconnectPeer
    <2>2. CASE conns[p] # 0
        BY <1>11, <2>2, ViewsUnchanged DEF DialFails, LoopDialError, viewVars
    <2> QED BY <2>1, <2>2
<1>12. ASSUME NEW p \in Peers, NEW addr \in Addresses, DialSucceeds(p, addr) PROVE ViewInv'
    <2>1. CASE conns[p] = 0
        BY <1>12, <2>1, TransportAssumption DEF ViewInv, ViewTypes, ViewsFollow, SwarmInv, SwarmTypes, DialSucceeds, Established, LoopEstablished
    <2>2. CASE conns[p] # 0
        BY <1>12, <2>2, TransportAssumption DEF ViewInv, ViewTypes, ViewsFollow, SwarmInv, SwarmTypes, DialSucceeds, Established, LoopEstablished, viewVars
    <2> QED BY <2>1, <2>2
<1>13. ASSUME NEW s \in Streams, NEW p \in Peers, Open(s, p) PROVE ViewInv'
    BY <1>13, ViewsUnchanged DEF Open, swarmVars, viewVars
<1>14. ASSUME NEW s \in Streams, NEW p \in Peers, StreamArrives(s, p) PROVE ViewInv'
    BY <1>14, ViewsUnchanged DEF StreamArrives, swarmVars, viewVars
<1>15. ASSUME NEW s \in Streams, OpenDials(s) PROVE ViewInv'
    BY <1>15, ViewsUnchanged DEF OpenDials, swarmVars, viewVars
<1>16. ASSUME NEW s \in Streams, Opened(s) PROVE ViewInv'
    BY <1>16, ViewsUnchanged DEF Opened, swarmVars, viewVars
<1>17. ASSUME NEW s \in Streams, Accept(s) PROVE ViewInv'
    BY <1>17, ViewsUnchanged DEF Accept, swarmVars, viewVars
<1>18. ASSUME NEW s \in Streams, DropStream(s) PROVE ViewInv'
    BY <1>18, ViewsUnchanged DEF DropStream, swarmVars, viewVars
<1>19. CASE UNCHANGED vars
    BY <1>19, ViewsUnchanged DEF vars, swarmVars, viewVars
<1> QED
    BY <1>1, <1>2, <1>3, <1>4, <1>5, <1>6, <1>7, <1>8, <1>9, <1>10, <1>11, <1>12, <1>13, <1>14, <1>15, <1>16, <1>17, <1>18, <1>19
    DEF Next, Poll, DialEnds

\* A step that touches no stream and ends no connection.
LEMMA StreamsUnchanged ==
    ASSUME StreamInv, UNCHANGED <<registry, streams>>,
           UNCHANGED conns \/ \A p \in Peers : conns[p] > 0 => conns'[p] > 0
    PROVE  StreamInv'
BY DEF StreamInv, StreamTypes, FlagsRegistered, StreamsEndWithConnection, PollFails

\* One slot changes: what matters is the new record.
LEMMA StreamReplaced ==
    ASSUME StreamInv, NEW s \in Streams, NEW new \in StreamRecords,
           streams' = [streams EXCEPT ![s] = new],
           registry \subseteq registry', registry' \subseteq Peers, UNCHANGED conns,
           new.stage # "none" => new.peer \in Peers,
           new.alive => new.peer \in registry',
           new.stage = "open" /\ new.alive /\ ~new.late => conns[new.peer] > 0
    PROVE  StreamInv'
<1>1. \A z \in Streams : streams'[z] = IF z = s THEN new ELSE streams[z]
    BY DEF StreamInv, StreamTypes
<1>2. StreamTypes'
    BY DEF StreamInv, StreamTypes
<1>3. FlagsRegistered' /\ StreamsEndWithConnection'
    BY <1>1 DEF StreamInv, FlagsRegistered, StreamsEndWithConnection, PollFails
<1> QED BY <1>2, <1>3 DEF StreamInv

\* The flag of p is cleared: no stream of p is alive afterwards.
LEMMA ClearedStep ==
    ASSUME StreamInv, NEW p \in Peers, registry' = registry \ {p}, streams' = FlagsCleared(p),
           UNCHANGED conns \/ \A q \in Peers \ {p} : conns[q] > 0 => conns'[q] > 0
    PROVE  StreamInv'
<1>1. ASSUME NEW s \in Streams
      PROVE  /\ streams'[s] \in StreamRecords
             /\ streams'[s].stage = streams[s].stage /\ streams'[s].peer = streams[s].peer
             /\ streams'[s].late = streams[s].late
             /\ streams'[s].alive => streams[s].alive /\ streams[s].peer # p
    <2>1. streams[s] \in StreamRecords
        BY DEF StreamInv, StreamTypes
    <2>2. streams[s].alive => streams[s].peer \in registry
        BY DEF StreamInv, FlagsRegistered
    <2>3. streams'[s] = IF streams[s].peer = p /\ p \in registry
                        THEN [streams[s] EXCEPT !.alive = FALSE] ELSE streams[s]
        BY DEF FlagsCleared
    <2>4. CASE streams[s].peer = p /\ p \in registry
        BY <2>1, <2>3, <2>4 DEF StreamRecords
    <2>5. CASE ~(streams[s].peer = p /\ p \in registry)
        BY <2>1, <2>2, <2>3, <2>5
    <2> QED BY <2>4, <2>5
<1>2. StreamTypes'
    BY <1>1 DEF StreamInv, StreamTypes, FlagsCleared
<1>3. FlagsRegistered' /\ StreamsEndWithConnection'
    BY <1>1 DEF StreamInv, FlagsRegistered, StreamsEndWithConnection, PollFails
<1> QED BY <1>2, <1>3 DEF StreamInv

\* Every step keeps set flags registered and ends streams with their connection.
LEMMA StreamStep ==
    ASSUME SwarmInv, StreamInv, [Next]_vars PROVE StreamInv'
<1>1. ASSUME NEW a \in Announcements, Announce(a) PROVE StreamInv'
    BY <1>1, StreamsUnchanged DEF Announce, swarmVars, streamVars
<1>2. ASSUME NEW p \in Peers, FallsDue(p) PROVE StreamInv'
    BY <1>2, StreamsUnchanged DEF FallsDue, swarmVars, streamVars
<1>3. CASE TimerFires
    BY <1>3, StreamsUnchanged DEF TimerFires, swarmVars, streamVars
<1>4. CASE OtherActivity
    BY <1>4, StreamsUnchanged DEF OtherActivity, swarmVars, streamVars
<1>5. CASE PopAddr
    BY <1>5, StreamsUnchanged DEF PopAddr, swarmVars, streamVars
<1>6. ASSUME NEW p \in Peers, PopDial(p) PROVE StreamInv'
    BY <1>6, StreamsUnchanged DEF PopDial, swarmVars, streamVars
<1>7. CASE PollAnnounce
    BY <1>7, StreamsUnchanged DEF PollAnnounce, swarmVars, streamVars
<1>8. CASE PollIdle
    BY <1>8, StreamsUnchanged DEF PollIdle, swarmVars, streamVars
<1>9. ASSUME NEW p \in Peers, NEW addr \in Addresses, Incoming(p, addr) PROVE StreamInv'
    <2>1. UNCHANGED <<registry, streams>> /\ \A q \in Peers : conns[q] > 0 => conns'[q] > 0
        BY <1>9 DEF Incoming, Established, streamVars, SwarmInv, SwarmTypes
    <2> QED BY <2>1, StreamsUnchanged
<1>10. ASSUME NEW p \in Peers, ConnectionClosed(p) PROVE StreamInv'
    <2>1. CASE LastConnection(p)
        <3>1. /\ registry' = registry \ {p} /\ streams' = FlagsCleared(p)
              /\ \A q \in Peers \ {p} : conns[q] > 0 => conns'[q] > 0
            BY <1>10, <2>1 DEF ConnectionClosed, DisconnectPeer, SwarmInv, SwarmTypes
        <3> QED BY <3>1, ClearedStep
    <2>2. CASE ~LastConnection(p)
        <3>1. UNCHANGED <<registry, streams>> /\ \A q \in Peers : conns[q] > 0 => conns'[q] > 0
            BY <1>10, <2>2 DEF ConnectionClosed, LastConnection, streamVars, SwarmInv, SwarmTypes
        <3> QED BY <3>1, StreamsUnchanged
    <2> QED BY <2>1, <2>2
<1>11. ASSUME NEW p \in Peers, DialFails(p) PROVE StreamInv'
    <2>1. CASE conns[p] = 0
        BY <1>11, <2>1, ClearedStep DEF DialFails, LoopDialError, DisconnectPeer
    <2>2. CASE conns[p] # 0
        BY <1>11, <2>2, StreamsUnchanged DEF DialFails, LoopDialError, streamVars
    <2> QED BY <2>1, <2>2
<1>12. ASSUME NEW p \in Peers, NEW addr \in Addresses, DialSucceeds(p, addr) PROVE StreamInv'
    <2>1. UNCHANGED <<registry, streams>> /\ \A q \in Peers : conns[q] > 0 => conns'[q] > 0
        BY <1>12 DEF DialSucceeds, Established, streamVars, SwarmInv, SwarmTypes
    <2> QED BY <2>1, StreamsUnchanged
<1>13. ASSUME NEW s \in Streams, NEW p \in Peers, Open(s, p) PROVE StreamInv'
    <2> DEFINE new == [stage |-> IF conns[p] > 0 THEN "opening" ELSE "want",
                        peer |-> p, alive |-> TRUE, late |-> FALSE]
    <2>1. streams[s] \in StreamRecords /\ streams' = [streams EXCEPT ![s] = new]
        BY <1>13 DEF Open, StreamInv, StreamTypes
    <2>2. new \in StreamRecords
        BY <1>13, <2>1, TransportAssumption DEF Open, StreamRecords, Stages, NoStream
    <2>3. /\ registry \subseteq registry' /\ registry' \subseteq Peers /\ UNCHANGED conns
          /\ new.stage # "none" => new.peer \in Peers
          /\ new.alive => new.peer \in registry'
          /\ new.stage = "open" /\ new.alive /\ ~new.late => conns[new.peer] > 0
        BY <1>13, <2>1 DEF Open, NoStream, StreamRecords, StreamInv, StreamTypes, FlagsRegistered, swarmVars, SwarmInv, SwarmTypes
    <2> HIDE DEF new
    <2> QED BY <2>1, <2>2, <2>3, StreamReplaced
<1>14. ASSUME NEW s \in Streams, NEW p \in Peers, StreamArrives(s, p) PROVE StreamInv'
    <2> DEFINE new == [NoStream EXCEPT !.stage = "queued", !.peer = p]
    <2>1. streams[s] \in StreamRecords /\ streams' = [streams EXCEPT ![s] = new]
        BY <1>14 DEF StreamArrives, StreamInv, StreamTypes
    <2>2. new \in StreamRecords
        BY <1>14, <2>1, TransportAssumption DEF StreamArrives, StreamRecords, Stages, NoStream
    <2>3. /\ registry \subseteq registry' /\ registry' \subseteq Peers /\ UNCHANGED conns
          /\ new.stage # "none" => new.peer \in Peers
          /\ new.alive => new.peer \in registry'
          /\ new.stage = "open" /\ new.alive /\ ~new.late => conns[new.peer] > 0
        BY <1>14, <2>1 DEF StreamArrives, NoStream, StreamRecords, StreamInv, StreamTypes, FlagsRegistered, swarmVars, SwarmInv, SwarmTypes
    <2> HIDE DEF new
    <2> QED BY <2>1, <2>2, <2>3, StreamReplaced
<1>15. ASSUME NEW s \in Streams, OpenDials(s) PROVE StreamInv'
    <2> DEFINE new == [streams[s] EXCEPT !.stage = "opening"]
    <2>1. streams[s] \in StreamRecords /\ streams' = [streams EXCEPT ![s] = new]
        BY <1>15 DEF OpenDials, StreamInv, StreamTypes
    <2>2. new \in StreamRecords
        BY <1>15, <2>1, TransportAssumption DEF OpenDials, StreamRecords, Stages, NoStream
    <2>3. /\ registry \subseteq registry' /\ registry' \subseteq Peers /\ UNCHANGED conns
          /\ new.stage # "none" => new.peer \in Peers
          /\ new.alive => new.peer \in registry'
          /\ new.stage = "open" /\ new.alive /\ ~new.late => conns[new.peer] > 0
        BY <1>15, <2>1 DEF OpenDials, NoStream, StreamRecords, StreamInv, StreamTypes, FlagsRegistered, swarmVars, SwarmInv, SwarmTypes
    <2> HIDE DEF new
    <2> QED BY <2>1, <2>2, <2>3, StreamReplaced
<1>16. ASSUME NEW s \in Streams, Opened(s) PROVE StreamInv'
    <2> DEFINE new == [streams[s] EXCEPT !.stage = "open"]
    <2>1. streams[s] \in StreamRecords /\ streams' = [streams EXCEPT ![s] = new]
        BY <1>16 DEF Opened, StreamInv, StreamTypes
    <2>2. new \in StreamRecords
        BY <1>16, <2>1, TransportAssumption DEF Opened, StreamRecords, Stages, NoStream
    <2>3. /\ registry \subseteq registry' /\ registry' \subseteq Peers /\ UNCHANGED conns
          /\ new.stage # "none" => new.peer \in Peers
          /\ new.alive => new.peer \in registry'
          /\ new.stage = "open" /\ new.alive /\ ~new.late => conns[new.peer] > 0
        BY <1>16, <2>1 DEF Opened, NoStream, StreamRecords, StreamInv, StreamTypes, FlagsRegistered, swarmVars, SwarmInv, SwarmTypes
    <2> HIDE DEF new
    <2> QED BY <2>1, <2>2, <2>3, StreamReplaced
<1>17. ASSUME NEW s \in Streams, Accept(s) PROVE StreamInv'
    <2> DEFINE new == [streams[s] EXCEPT !.stage = "open", !.alive = TRUE, !.late = (conns[streams[s].peer] = 0)]
    <2>1. streams[s] \in StreamRecords /\ streams' = [streams EXCEPT ![s] = new]
        BY <1>17 DEF Accept, StreamInv, StreamTypes
    <2>2. new \in StreamRecords
        BY <1>17, <2>1, TransportAssumption DEF Accept, StreamRecords, Stages, NoStream
    <2>3. /\ registry \subseteq registry' /\ registry' \subseteq Peers /\ UNCHANGED conns
          /\ new.stage # "none" => new.peer \in Peers
          /\ new.alive => new.peer \in registry'
          /\ new.stage = "open" /\ new.alive /\ ~new.late => conns[new.peer] > 0
        BY <1>17, <2>1 DEF Accept, Registered, NoStream, StreamRecords, StreamInv, StreamTypes, FlagsRegistered, swarmVars, SwarmInv, SwarmTypes
    <2> HIDE DEF new
    <2> QED BY <2>1, <2>2, <2>3, StreamReplaced
<1>18. ASSUME NEW s \in Streams, DropStream(s) PROVE StreamInv'
    <2> DEFINE new == NoStream
    <2>1. streams[s] \in StreamRecords /\ streams' = [streams EXCEPT ![s] = new]
        BY <1>18 DEF DropStream, StreamInv, StreamTypes
    <2>2. new \in StreamRecords
        BY <1>18, <2>1, TransportAssumption DEF DropStream, StreamRecords, Stages, NoStream
    <2>3. /\ registry \subseteq registry' /\ registry' \subseteq Peers /\ UNCHANGED conns
          /\ new.stage # "none" => new.peer \in Peers
          /\ new.alive => new.peer \in registry'
          /\ new.stage = "open" /\ new.alive /\ ~new.late => conns[new.peer] > 0
        BY <1>18, <2>1 DEF DropStream, NoStream, StreamRecords, StreamInv, StreamTypes, FlagsRegistered, swarmVars, SwarmInv, SwarmTypes
    <2> HIDE DEF new
    <2> QED BY <2>1, <2>2, <2>3, StreamReplaced
<1>19. CASE UNCHANGED vars
    BY <1>19, StreamsUnchanged DEF vars, swarmVars, streamVars
<1> QED
    BY <1>1, <1>2, <1>3, <1>4, <1>5, <1>6, <1>7, <1>8, <1>9, <1>10, <1>11, <1>12, <1>13, <1>14, <1>15, <1>16, <1>17, <1>18, <1>19
    DEF Next, Poll, DialEnds

\* Nothing is known, connected or open at first.
LEMMA TransportInvInit == Init => TransportInv
<1> SUFFICES ASSUME Init PROVE TransportInv
    OBVIOUS
<1>1. SwarmInv
    BY TransportAssumption DEF Init, DiscoveryInit, SwarmInv, SwarmTypes, MirrorExact, CountsAgree, DialsInHand, HasKnownAddress
<1>2. TaskTypes
    <2>1. events \in Seq(Announcements) /\ announced \in 0..MaxAnnouncements
        BY TransportAssumption DEF Init
    <2> QED BY <2>1 DEF Init, TaskTypes
<1>3. ViewInv
    BY DEF Init, ViewInv, ViewTypes, ViewsFollow
<1>4. StreamInv
    BY DEF Init, StreamInv, StreamTypes, FlagsRegistered, StreamsEndWithConnection, PollFails, StreamRecords, Stages, NoStream
<1> QED BY <1>1, <1>2, <1>3, <1>4, InvParts

\* TransportInv is an invariant.
THEOREM TransportInvariant == Spec => []TransportInv
<1>1. TransportInv /\ [Next]_vars => TransportInv'
    <2> SUFFICES ASSUME TransportInv, [Next]_vars PROVE TransportInv'
        OBVIOUS
    <2>1. SwarmInv /\ TaskTypes /\ ViewInv /\ StreamInv
        BY InvParts
    <2>2. SwarmInv' /\ TaskTypes' /\ ViewInv' /\ StreamInv'
        BY <2>1, SwarmStep, TaskStep, ViewStep, StreamStep
    <2> QED BY <2>2, InvPartsNext
<1> QED BY TransportInvInit, <1>1, PTL DEF Spec

\* Every variable keeps its type.
THEOREM TransportTypeCorrect == Spec => []TypeOK
<1>1. TransportInv => TypeOK
    BY DEF TransportInv
<1> QED BY TransportInvariant, <1>1, PTL

\* In every order of announcements, connections, closures and dial failures, the
\* views of every peer agree, the dial queue and its mirror agree, and no known
\* peer is forgotten.
THEOREM PeersAreFollowedCorrect == Spec => []PeersAreFollowed
<1>1. TransportInv => PeersAreFollowed
    <2>1. DialsInHand => KnownPeersAreInHand
        BY DEF DialsInHand, KnownPeersAreInHand
    <2> QED BY <2>1 DEF TransportInv, PeersAreFollowed
<1> QED BY TransportInvariant, <1>1, PTL

\* Once the last connection of a peer is gone, no stream that was wrapped while
\* there was one can be used.
THEOREM StreamsEndCorrect == Spec => []StreamsEndWithConnection
<1>1. TransportInv => StreamsEndWithConnection
    BY DEF TransportInv
<1> QED BY TransportInvariant, <1>1, PTL
=============================================================================
