----------------------------- MODULE EventStream -----------------------------
(***************************************************************************)
(* The connector's broadcast of chain events and one consumer of           *)
(* subscribe_with_state_sync(): it lists the ids known to the channel      *)
(* graph, only then activates its receiver, afterwards reads the listed    *)
(* entries one by one as it is polled, and last follows the live events.   *)
(*                                                                         *)
(* An event is [id, entry]: the account or the channel it is about and the *)
(* entry it carries.  `view` is what the consumer was last told per id.    *)
(* `missed` (history) holds the ids whose last event the consumer will     *)
(* never get: broadcast between the listing and the activation, or pushed  *)
(* out of the full channel.                                                *)
(***************************************************************************)
EXTENDS Naturals, Sequences, SequencesExt

CONSTANTS Topics,    \* the accounts and channels events are about
          Untold,    \* the view of an id the consumer was told nothing about
          Capacity   \* of the broadcast channel; the oldest event gives way

ASSUME StreamAssumption == Capacity \in Nat \ {0}

VARIABLES phase,     \* "unsubscribed", "listing", "subscribed"
          listed,    \* ids of the state snapshot not read yet
          queue,     \* events broadcast and not yet taken by the consumer
          view,
          missed

streamVars == <<phase, listed, queue, view, missed>>

StreamInit ==
    /\ phase = "unsubscribed" /\ listed = {} /\ queue = <<>>
    /\ view = [i \in Topics |-> Untold] /\ missed = {}

IdsOf(events) == {e.id : e \in ToSet(events)}

\* A full channel drops its oldest events, an inactive one every event.
Broadcast(events) ==
    LET all  == queue \o events
        kept == IF Len(all) > Capacity THEN SubSeq(all, Len(all) - Capacity + 1, Len(all)) ELSE all
        lost == IF Len(all) > Capacity THEN SubSeq(all, 1, Len(all) - Capacity) ELSE <<>>
    IN  /\ queue' = IF phase = "subscribed" THEN kept ELSE <<>>
        /\ missed' = CASE phase = "subscribed" -> (missed \cup IdsOf(lost)) \ IdsOf(kept)
                       [] phase = "listing"    -> missed \cup IdsOf(events)
                       [] OTHER                -> missed
        /\ UNCHANGED <<phase, listed, view>>

\* The first half of the call: which ids the graph holds.
ListState(known) ==
    /\ phase = "unsubscribed"
    /\ phase' = "listing" /\ listed' = known
    /\ UNCHANGED <<queue, view, missed>>

\* The second half: from here on events are kept for this consumer.
Activate ==
    /\ phase = "listing" /\ phase' = "subscribed"
    /\ UNCHANGED <<listed, queue, view, missed>>

\* The consumer is polled: a listed entry is read from the backend now, not
\* when it was listed, and delivered if the requested selector accepts it.
ReadState(i, entry, selected) ==
    /\ phase = "subscribed" /\ i \in listed
    /\ listed' = listed \ {i}
    /\ view' = IF selected THEN [view EXCEPT ![i] = entry] ELSE view
    /\ UNCHANGED <<phase, queue, missed>>

\* Live events follow the state: the streams are chained.
TakeEvent ==
    /\ phase = "subscribed" /\ listed = {} /\ queue # <<>>
    /\ queue' = Tail(queue)
    /\ view' = [view EXCEPT ![Head(queue).id] = Head(queue).entry]
    /\ UNCHANGED <<phase, listed, missed>>

CaughtUp == phase = "subscribed" /\ listed = {} /\ queue = <<>>
=============================================================================
