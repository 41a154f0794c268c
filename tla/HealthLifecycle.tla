--------------------------- MODULE HealthLifecycle ---------------------------
(***************************************************************************)
(* What a reader of the connector's component status may rely on: which    *)
(* status may follow which.  `connected` is what is_connected() answers.   *)
(***************************************************************************)
VARIABLES health, connected

lifecycleVars == <<health, connected>>

Failures == {"SyncTimedOut", "ServerNotHealthy", "ConnectionFailed"}

Init == health = "WaitingForConnection" /\ connected = FALSE

\* A connection attempt begins, for the first time or after a failed one.
Begin ==
    /\ health \in Failures \cup {"WaitingForConnection"} /\ ~connected
    /\ health' = "Connecting" /\ UNCHANGED connected

\* An attempt that fails says why, also when its subscriptions ended meanwhile.
Fail ==
    /\ health \in {"Connecting", "SubscriptionEnded"} /\ ~connected
    /\ health' \in Failures /\ UNCHANGED connected

Connect ==
    /\ health \in {"Connecting", "SubscriptionEnded"} /\ ~connected
    /\ connected' = TRUE /\ UNCHANGED health

\* Only a connected connector is ever Ready or degraded.
Ready   == health \in {"Connecting", "SubscriptionDegraded"} /\ connected /\ health' = "Ready"
Degrade == health = "Ready" /\ connected /\ health' = "SubscriptionDegraded"

\* An ended subscription is final for a connected connector.
End == health \in {"Connecting", "Ready", "SubscriptionDegraded"} /\ health' = "SubscriptionEnded"

\* So is the connector's end.
Drop == health # "Dropped" /\ health' = "Dropped" /\ connected' = FALSE

Next ==
    \/ Begin \/ Fail \/ Connect \/ Drop
    \/ (Ready \/ Degrade \/ End) /\ UNCHANGED connected

Spec == Init /\ [][Next]_lifecycleVars
=============================================================================
