------------------------- MODULE ChainHealth_proofs -------------------------
(***************************************************************************)
(* Proofs about ChainHealth, for any number of feeds, attempts and events: *)
(* one live task at a time, and the refinement of HealthLifecycle.         *)
(***************************************************************************)
EXTENDS ChainHealth, TLAPS

Busy == {"querying", "waiting"} \cup Failures

\* Attempts are numbered upwards, and only those that were begun can be stopped.
AttemptsOrdered ==
    /\ aborted \subseteq 1..attempt /\ connection_handle <= attempt
    /\ connect_phase # "idle" => attempt > 0
    /\ connect_phase \in {"querying", "waiting"} => attempt \notin aborted

\* Where connect() is decides which statuses are possible: a late task can only
\* turn Connecting, Ready and SubscriptionDegraded into SubscriptionEnded.
HealthFitsPhase ==
    /\ connect_phase \in Busy => ~IsConnected
    /\ connect_phase = "connected" => IsConnected
    /\ connect_phase # "idle" => health \in {"Connecting", "SubscriptionEnded"}
    /\ connect_phase = "idle" /\ IsConnected =>
            health \in {"Ready", "SubscriptionDegraded", "SubscriptionEnded"}
    /\ connect_phase = "idle" /\ ~IsConnected =>
            health \in Failures \cup {"WaitingForConnection", "Dropped"}

\* The inductive invariant.
HealthInv == HealthTypeOK /\ AttemptsOrdered /\ HealthFitsPhase /\ OneLiveTask
-----------------------------------------------------------------------------
(***************************************************************************)
(* Facts about the operators.                                              *)
(***************************************************************************)

\* A quota is a natural number: the share of a count never goes below zero.
LEMMA ThresholdNat ==
    ASSUME NEW count \in Nat PROVE Threshold(count) \in Nat
<1> DEFINE quota == IF SyncTolerance < 1 THEN 1 ELSE IF SyncTolerance > 100 THEN 100 ELSE SyncTolerance
<1>1. quota \in Nat
    BY ChainHealthAssumption
<1>2. \A n, m \in Nat : n * m \in Nat
    OBVIOUS
<1>3. count * quota \in Nat
    <2> HIDE DEF quota
    <2> QED BY <1>1, <1>2
<1>4. ASSUME NEW n \in Nat PROVE (n + 50) \div 100 \in Nat
    OBVIOUS
<1> QED BY <1>3, <1>4 DEF Threshold

\* What a check may make of the status: it ends, degrades or recovers a connection
\* and leaves every other status alone.
LEMMA CheckOutcomes ==
    ASSUME NEW current \in States, NEW failing \in BOOLEAN, NEW ended \in BOOLEAN
    PROVE  LET new == ChainHealthAfterCheck(current, failing, ended) IN
           /\ new \in States
           /\ \/ new = current
              \/ /\ current \in {"Connecting", "Ready", "SubscriptionDegraded"}
                 /\ new = "SubscriptionEnded"
              \/ current = "SubscriptionDegraded" /\ new = "Ready"
              \/ current = "Ready" /\ new = "SubscriptionDegraded"
BY DEF ChainHealthAfterCheck, States, Failures

\* The same of a step that checks.
CheckOutcome ==
    \/ health' = health
    \/ health \in {"Connecting", "Ready", "SubscriptionDegraded"} /\ health' = "SubscriptionEnded"
    \/ health = "SubscriptionDegraded" /\ health' = "Ready"
    \/ health = "Ready" /\ health' = "SubscriptionDegraded"

\* A step that writes the result of a check has one of these outcomes.
LEMMA CheckSteps ==
    ASSUME health \in States, NEW failing \in BOOLEAN, NEW ended \in BOOLEAN,
           SetSubscriptionHealth(failing, ended)
    PROVE  health' \in States /\ CheckOutcome
BY CheckOutcomes DEF SetSubscriptionHealth, CheckOutcome

-----------------------------------------------------------------------------
(***************************************************************************)
(* The invariant.                                                          *)
(***************************************************************************)

\* Nothing has been attempted at first.
LEMMA HealthInvInit == HealthInit => HealthInv
<1> SUFFICES ASSUME HealthInit PROVE HealthInv
    OBVIOUS
<1>1. HealthTypeOK
    BY ChainHealthAssumption DEF HealthInit, HealthTypeOK, States, FeedStatuses
<1>2. AttemptsOrdered /\ HealthFitsPhase
    BY DEF HealthInit, AttemptsOrdered, HealthFitsPhase, IsConnected, Busy, Failures
<1>3. OneLiveTask
    BY DEF HealthInit, OneLiveTask
<1> QED BY <1>1, <1>2, <1>3 DEF HealthInv

\* Every step keeps the types.
LEMMA TypeStep ==
    ASSUME HealthTypeOK, AttemptsOrdered, [HealthNext]_healthVars PROVE HealthTypeOK'
<1>1. CASE ConnectBegins
    BY <1>1, ChainHealthAssumption DEF HealthTypeOK, ConnectBegins, connectVars, attemptVars, States
<1>2. CASE QueryFails
    BY <1>2 DEF HealthTypeOK, QueryFails, connectVars, attemptVars, States, Failures
<1>3. CASE ReadyOk
    BY <1>3 DEF HealthTypeOK, ReadyOk, connectVars, attemptVars
<1>4. CASE ConnectReturns
    BY <1>4 DEF HealthTypeOK, ConnectReturns, connectVars, attemptVars, ExchangeReady, States
<1>5. CASE ReadyFails
    BY <1>5 DEF HealthTypeOK, ReadyFails, connectVars, attemptVars, States, Failures, AttemptsOrdered, Tasks
<1>6. CASE ConnectFails
    BY <1>6 DEF HealthTypeOK, ConnectFails, connectVars, attemptVars, States, Failures
<1>7. CASE Drop
    <2>1. {connection_handle} \ {0} \subseteq Tasks
        BY ChainHealthAssumption DEF HealthTypeOK, Tasks
    <2>2. aborted' \subseteq Tasks /\ connection_handle' \in 0..MaxAttempts
        BY <1>7, <2>1, ChainHealthAssumption DEF HealthTypeOK, Drop
    <2> QED
        BY <1>7, <2>2 DEF HealthTypeOK, Drop, States
<1>8. ASSUME NEW a \in 0..MaxTotal, NEW c \in 0..MaxTotal, SpawnTask(a, c) PROVE HealthTypeOK'
    <2>1. Threshold(a) \in Nat /\ Threshold(c) \in Nat
        BY ThresholdNat, ChainHealthAssumption
    <2>2. needed' \in [Tasks -> [accounts : Nat, channels : Nat]]
        BY <1>8, <2>1 DEF HealthTypeOK, SpawnTask
    <2> QED
        BY <1>8, <2>2 DEF HealthTypeOK, SpawnTask
<1>9. ASSUME NEW t \in Tasks, SubscribeAll(t) PROVE HealthTypeOK'
    BY <1>9 DEF HealthTypeOK, SubscribeAll, Send, connectVars, attemptVars
<1>10. ASSUME NEW t \in Tasks, SubscribeFails(t) PROVE HealthTypeOK'
    BY <1>10 DEF HealthTypeOK, SubscribeFails, Send, connectVars, attemptVars
<1>11. ASSUME NEW t \in Tasks, TaskEnds(t) PROVE HealthTypeOK'
    <2>1. SetSubscriptionHealth(FALSE, TRUE)
        BY <1>11 DEF TaskEnds
    <2>2. health' \in States
        BY <2>1, CheckSteps DEF HealthTypeOK, AnyFailing, AnyEnded
    <2> QED
        BY <1>11, <2>2 DEF HealthTypeOK, TaskEnds, Send, connectVars, attemptVars
<1>12. ASSUME NEW t \in Tasks, NEW f \in Feeds, FeedEnds(t, f) PROVE HealthTypeOK'
    <2>1. SetSubscriptionHealth(FALSE, TRUE)
        BY <1>12 DEF FeedEnds
    <2>2. health' \in States
        BY <2>1, CheckSteps DEF HealthTypeOK, AnyFailing, AnyEnded
    <2> QED
        BY <1>12, <2>2 DEF HealthTypeOK, FeedEnds, connectVars, attemptVars
<1>13. ASSUME NEW t \in Tasks, HealthCheck(t) PROVE HealthTypeOK'
    <2>1. SetSubscriptionHealth(AnyFailing(t), AnyEnded(t))
        BY <1>13 DEF HealthCheck
    <2>2. health' \in States
        BY <2>1, CheckSteps DEF HealthTypeOK, AnyFailing, AnyEnded
    <2> QED
        BY <1>13, <2>2 DEF HealthTypeOK, HealthCheck, connectVars, attemptVars
<1>14. ASSUME NEW t \in Tasks, NEW kind \in {"accounts", "channels"}, Receive(t, kind) PROVE HealthTypeOK'
    <2> DEFINE left == [needed[t] EXCEPT ![kind] = IF @ > 0 THEN @ - 1 ELSE 0]
    <2>1. needed[t] \in [accounts : Nat, channels : Nat]
        BY <1>14 DEF HealthTypeOK
    <2>2. left \in [accounts : Nat, channels : Nat]
        <3>1. \A n \in Nat : (IF n > 0 THEN n - 1 ELSE 0) \in Nat
            OBVIOUS
        <3>2. CASE kind = "accounts"
            BY <2>1, <3>1, <3>2
        <3>3. CASE kind = "channels"
            BY <2>1, <3>1, <3>3
        <3> QED BY <1>14, <3>2, <3>3
    <2>3. needed' = [needed EXCEPT ![t] = left]
        BY <1>14 DEF Receive, HealthTypeOK
    <2>4. needed' \in [Tasks -> [accounts : Nat, channels : Nat]]
        <3> HIDE DEF left
        <3> QED BY <2>2, <2>3 DEF HealthTypeOK
    <2>5. ready' \in [Tasks -> {"none", "ok", "err", "gone"}]
        BY <1>14 DEF HealthTypeOK, Receive, Send
    <2> QED
        BY <1>14, <2>4, <2>5 DEF HealthTypeOK, Receive, connectVars
<1>15. ASSUME NEW t \in Tasks, NEW f \in Feeds, NEW status \in Reports, FeedChanges(t, f, status) PROVE HealthTypeOK'
    BY <1>15, ChainHealthAssumption DEF HealthTypeOK, FeedChanges, connectVars, attemptVars, FeedStatuses
<1>16. CASE UNCHANGED healthVars
    BY <1>16 DEF HealthTypeOK, healthVars, connectVars, attemptVars
<1> QED
    BY <1>1, <1>2, <1>3, <1>4, <1>5, <1>6, <1>7, <1>8, <1>9, <1>10, <1>11, <1>12, <1>13, <1>14, <1>15, <1>16
    DEF HealthNext, ConnectStep, SubscriptionStep

\* Only an attempt that was begun is stopped.
LEMMA OrderStep ==
    ASSUME HealthTypeOK, AttemptsOrdered, [HealthNext]_healthVars PROVE AttemptsOrdered'
<1>1. CASE ConnectBegins
    BY <1>1 DEF HealthTypeOK, AttemptsOrdered, ConnectBegins, Failures, MayConnect, connectVars, attemptVars
<1>2. CASE QueryFails
    BY <1>2 DEF HealthTypeOK, AttemptsOrdered, QueryFails, Failures, connectVars, attemptVars
<1>3. CASE ReadyOk
    BY <1>3 DEF HealthTypeOK, AttemptsOrdered, ReadyOk, connectVars, attemptVars
<1>4. CASE ConnectReturns
    BY <1>4 DEF HealthTypeOK, AttemptsOrdered, ConnectReturns, connectVars, attemptVars
<1>5. CASE ReadyFails
    BY <1>5 DEF HealthTypeOK, AttemptsOrdered, ReadyFails, Failures, connectVars, attemptVars
<1>6. CASE ConnectFails
    BY <1>6 DEF HealthTypeOK, AttemptsOrdered, ConnectFails, connectVars, attemptVars
<1>7. CASE Drop
    BY <1>7 DEF HealthTypeOK, AttemptsOrdered, Drop, connectVars, attemptVars
<1>8. ASSUME NEW a \in 0..MaxTotal, NEW c \in 0..MaxTotal, SpawnTask(a, c) PROVE AttemptsOrdered'
    BY <1>8 DEF HealthTypeOK, AttemptsOrdered, SpawnTask, connectVars, attemptVars
<1>9. ASSUME NEW t \in Tasks, SubscribeAll(t) PROVE AttemptsOrdered'
    BY <1>9 DEF HealthTypeOK, AttemptsOrdered, SubscribeAll, connectVars, attemptVars
<1>10. ASSUME NEW t \in Tasks, SubscribeFails(t) PROVE AttemptsOrdered'
    BY <1>10 DEF HealthTypeOK, AttemptsOrdered, SubscribeFails, connectVars, attemptVars
<1>11. ASSUME NEW t \in Tasks, TaskEnds(t) PROVE AttemptsOrdered'
    BY <1>11 DEF HealthTypeOK, AttemptsOrdered, TaskEnds, connectVars, attemptVars
<1>12. ASSUME NEW t \in Tasks, NEW f \in Feeds, FeedEnds(t, f) PROVE AttemptsOrdered'
    BY <1>12 DEF HealthTypeOK, AttemptsOrdered, FeedEnds, connectVars, attemptVars
<1>13. ASSUME NEW t \in Tasks, HealthCheck(t) PROVE AttemptsOrdered'
    BY <1>13 DEF HealthTypeOK, AttemptsOrdered, HealthCheck, connectVars, attemptVars
<1>14. ASSUME NEW t \in Tasks, NEW kind \in {"accounts", "channels"}, Receive(t, kind) PROVE AttemptsOrdered'
    BY <1>14 DEF HealthTypeOK, AttemptsOrdered, Receive, connectVars, attemptVars
<1>15. ASSUME NEW t \in Tasks, NEW f \in Feeds, NEW status \in Reports, FeedChanges(t, f, status) PROVE AttemptsOrdered'
    BY <1>15 DEF HealthTypeOK, AttemptsOrdered, FeedChanges, connectVars, attemptVars
<1>16. CASE UNCHANGED healthVars
    BY <1>16 DEF AttemptsOrdered, healthVars, connectVars, attemptVars
<1> QED
    BY <1>1, <1>2, <1>3, <1>4, <1>5, <1>6, <1>7, <1>8, <1>9, <1>10, <1>11, <1>12, <1>13, <1>14, <1>15, <1>16
    DEF HealthNext, ConnectStep, SubscriptionStep

\* Every step leaves a status that fits where connect() is.
LEMMA PhaseStep ==
    ASSUME HealthTypeOK, AttemptsOrdered, HealthFitsPhase, [HealthNext]_healthVars PROVE HealthFitsPhase'
<1>1. CASE ConnectBegins
    BY <1>1 DEF HealthTypeOK, AttemptsOrdered, HealthFitsPhase, Busy, Failures, IsConnected, ConnectBegins, MayConnect, connectVars, attemptVars
<1>2. CASE QueryFails
    BY <1>2 DEF HealthTypeOK, AttemptsOrdered, HealthFitsPhase, Busy, Failures, IsConnected, QueryFails, connectVars, attemptVars
<1>3. CASE ReadyOk
    BY <1>3 DEF HealthTypeOK, AttemptsOrdered, HealthFitsPhase, Busy, Failures, IsConnected, ReadyOk, connectVars, attemptVars
<1>4. CASE ConnectReturns
    BY <1>4 DEF HealthTypeOK, AttemptsOrdered, HealthFitsPhase, Busy, Failures, IsConnected, ConnectReturns, ExchangeReady, connectVars, attemptVars
<1>5. CASE ReadyFails
    BY <1>5 DEF HealthTypeOK, AttemptsOrdered, HealthFitsPhase, Busy, Failures, IsConnected, ReadyFails, connectVars, attemptVars
<1>6. CASE ConnectFails
    BY <1>6 DEF HealthTypeOK, AttemptsOrdered, HealthFitsPhase, Busy, Failures, IsConnected, ConnectFails, connectVars, attemptVars
<1>7. CASE Drop
    BY <1>7 DEF HealthTypeOK, AttemptsOrdered, HealthFitsPhase, Busy, Failures, IsConnected, Drop, connectVars, attemptVars
<1>8. ASSUME NEW a \in 0..MaxTotal, NEW c \in 0..MaxTotal, SpawnTask(a, c) PROVE HealthFitsPhase'
    BY <1>8 DEF HealthTypeOK, AttemptsOrdered, HealthFitsPhase, Busy, Failures, IsConnected, SpawnTask, connectVars, attemptVars
<1>9. ASSUME NEW t \in Tasks, SubscribeAll(t) PROVE HealthFitsPhase'
    BY <1>9 DEF HealthTypeOK, AttemptsOrdered, HealthFitsPhase, Busy, Failures, IsConnected, SubscribeAll, connectVars, attemptVars
<1>10. ASSUME NEW t \in Tasks, SubscribeFails(t) PROVE HealthFitsPhase'
    BY <1>10 DEF HealthTypeOK, AttemptsOrdered, HealthFitsPhase, Busy, Failures, IsConnected, SubscribeFails, connectVars, attemptVars
<1>11. ASSUME NEW t \in Tasks, TaskEnds(t) PROVE HealthFitsPhase'
    <2>1. SetSubscriptionHealth(FALSE, TRUE) /\ health \in States
        BY <1>11 DEF TaskEnds, HealthTypeOK
    <2>2. CheckOutcome
        BY <2>1, CheckSteps DEF AnyFailing, AnyEnded, CheckOutcome
    <2>3. UNCHANGED <<connection_handle, connect_phase, aborted>>
        BY <1>11 DEF TaskEnds, connectVars, attemptVars
    <2> QED
        BY <2>2, <2>3 DEF HealthFitsPhase, Busy, Failures, IsConnected, CheckOutcome
<1>12. ASSUME NEW t \in Tasks, NEW f \in Feeds, FeedEnds(t, f) PROVE HealthFitsPhase'
    <2>1. SetSubscriptionHealth(FALSE, TRUE) /\ health \in States
        BY <1>12 DEF FeedEnds, HealthTypeOK
    <2>2. CheckOutcome
        BY <2>1, CheckSteps DEF AnyFailing, AnyEnded, CheckOutcome
    <2>3. UNCHANGED <<connection_handle, connect_phase, aborted>>
        BY <1>12 DEF FeedEnds, connectVars, attemptVars
    <2> QED
        BY <2>2, <2>3 DEF HealthFitsPhase, Busy, Failures, IsConnected, CheckOutcome
<1>13. ASSUME NEW t \in Tasks, HealthCheck(t) PROVE HealthFitsPhase'
    <2>1. SetSubscriptionHealth(AnyFailing(t), AnyEnded(t)) /\ health \in States
        BY <1>13 DEF HealthCheck, HealthTypeOK
    <2>2. CheckOutcome
        BY <2>1, CheckSteps DEF AnyFailing, AnyEnded, CheckOutcome
    <2>3. UNCHANGED <<connection_handle, connect_phase, aborted>>
        BY <1>13 DEF HealthCheck, connectVars, attemptVars
    <2> QED
        BY <2>2, <2>3 DEF HealthFitsPhase, Busy, Failures, IsConnected, CheckOutcome
<1>14. ASSUME NEW t \in Tasks, NEW kind \in {"accounts", "channels"}, Receive(t, kind) PROVE HealthFitsPhase'
    BY <1>14 DEF HealthTypeOK, AttemptsOrdered, HealthFitsPhase, Busy, Failures, IsConnected, Receive, connectVars, attemptVars
<1>15. ASSUME NEW t \in Tasks, NEW f \in Feeds, NEW status \in Reports, FeedChanges(t, f, status) PROVE HealthFitsPhase'
    BY <1>15 DEF HealthTypeOK, AttemptsOrdered, HealthFitsPhase, Busy, Failures, IsConnected, FeedChanges, connectVars, attemptVars
<1>16. CASE UNCHANGED healthVars
    BY <1>16 DEF HealthFitsPhase, IsConnected, healthVars, connectVars, attemptVars
<1> QED
    BY <1>1, <1>2, <1>3, <1>4, <1>5, <1>6, <1>7, <1>8, <1>9, <1>10, <1>11, <1>12, <1>13, <1>14, <1>15, <1>16
    DEF HealthNext, ConnectStep, SubscriptionStep

\* Every step leaves at most one live task.
LEMMA LiveTaskStep ==
    ASSUME HealthInv, [HealthNext]_healthVars PROVE OneLiveTask'
<1> USE DEF HealthInv
<1>1. CASE ConnectBegins
    BY <1>1 DEF HealthTypeOK, HealthFitsPhase, Busy, OneLiveTask, IsConnected, Tasks, Failures, ConnectBegins, MayConnect, connectVars, attemptVars
<1>2. CASE QueryFails
    BY <1>2 DEF HealthTypeOK, HealthFitsPhase, Busy, OneLiveTask, IsConnected, Tasks, Failures, QueryFails, connectVars, attemptVars
<1>3. CASE ReadyOk
    BY <1>3 DEF HealthTypeOK, HealthFitsPhase, Busy, OneLiveTask, IsConnected, Tasks, Failures, ReadyOk, connectVars, attemptVars
<1>4. CASE ConnectReturns
    BY <1>4 DEF HealthTypeOK, HealthFitsPhase, Busy, OneLiveTask, IsConnected, Tasks, Failures, ConnectReturns, connectVars, attemptVars
<1>5. CASE ReadyFails
    BY <1>5 DEF HealthTypeOK, HealthFitsPhase, Busy, OneLiveTask, IsConnected, Tasks, Failures, ReadyFails, connectVars, attemptVars
<1>6. CASE ConnectFails
    BY <1>6 DEF HealthTypeOK, HealthFitsPhase, Busy, OneLiveTask, IsConnected, Tasks, Failures, ConnectFails, connectVars, attemptVars
<1>7. CASE Drop
    BY <1>7 DEF HealthTypeOK, HealthFitsPhase, Busy, OneLiveTask, IsConnected, Tasks, Failures, Drop, connectVars, attemptVars
<1>8. ASSUME NEW a \in 0..MaxTotal, NEW c \in 0..MaxTotal, SpawnTask(a, c) PROVE OneLiveTask'
    BY <1>8 DEF HealthTypeOK, HealthFitsPhase, Busy, OneLiveTask, IsConnected, Tasks, Failures, SpawnTask, connectVars, attemptVars
<1>9. ASSUME NEW t \in Tasks, SubscribeAll(t) PROVE OneLiveTask'
    BY <1>9 DEF HealthTypeOK, HealthFitsPhase, Busy, OneLiveTask, IsConnected, Tasks, Failures, SubscribeAll, connectVars, attemptVars
<1>10. ASSUME NEW t \in Tasks, SubscribeFails(t) PROVE OneLiveTask'
    BY <1>10 DEF HealthTypeOK, HealthFitsPhase, Busy, OneLiveTask, IsConnected, Tasks, Failures, SubscribeFails, connectVars, attemptVars
<1>11. ASSUME NEW t \in Tasks, TaskEnds(t) PROVE OneLiveTask'
    BY <1>11 DEF HealthTypeOK, HealthFitsPhase, Busy, OneLiveTask, IsConnected, Tasks, Failures, TaskEnds, connectVars, attemptVars
<1>12. ASSUME NEW t \in Tasks, NEW f \in Feeds, FeedEnds(t, f) PROVE OneLiveTask'
    BY <1>12 DEF HealthTypeOK, HealthFitsPhase, Busy, OneLiveTask, IsConnected, Tasks, Failures, FeedEnds, connectVars, attemptVars
<1>13. ASSUME NEW t \in Tasks, HealthCheck(t) PROVE OneLiveTask'
    BY <1>13 DEF HealthTypeOK, HealthFitsPhase, Busy, OneLiveTask, IsConnected, Tasks, Failures, HealthCheck, connectVars, attemptVars
<1>14. ASSUME NEW t \in Tasks, NEW kind \in {"accounts", "channels"}, Receive(t, kind) PROVE OneLiveTask'
    BY <1>14 DEF HealthTypeOK, HealthFitsPhase, Busy, OneLiveTask, IsConnected, Tasks, Failures, Receive, connectVars, attemptVars
<1>15. ASSUME NEW t \in Tasks, NEW f \in Feeds, NEW status \in Reports, FeedChanges(t, f, status) PROVE OneLiveTask'
    BY <1>15 DEF HealthTypeOK, HealthFitsPhase, Busy, OneLiveTask, IsConnected, Tasks, Failures, FeedChanges, connectVars, attemptVars
<1>16. CASE UNCHANGED healthVars
    BY <1>16 DEF OneLiveTask, healthVars, connectVars, attemptVars
<1> QED
    BY <1>1, <1>2, <1>3, <1>4, <1>5, <1>6, <1>7, <1>8, <1>9, <1>10, <1>11, <1>12, <1>13, <1>14, <1>15, <1>16
    DEF HealthNext, ConnectStep, SubscriptionStep

\* HealthInv is an invariant: the types, the order of attempts, the status that
\* fits the phase of connect(), and the one live task.
THEOREM HealthInvariant == HealthSpec => []HealthInv
<1>1. HealthInv /\ [HealthNext]_healthVars => HealthInv'
    BY TypeStep, OrderStep, PhaseStep, LiveTaskStep DEF HealthInv
<1> QED BY HealthInvInit, <1>1, PTL DEF HealthSpec

\* Every variable keeps its type.
THEOREM HealthTypeCorrect == HealthSpec => []HealthTypeOK
<1>1. HealthInv => HealthTypeOK
    BY DEF HealthInv
<1> QED BY HealthInvariant, <1>1, PTL

\* However attempts fail, time out and are repeated, the connector has at most one
\* task that was not told to stop: events are handled once.
THEOREM OneLiveTaskCorrect == HealthSpec => []OneLiveTask
<1>1. HealthInv => OneLiveTask
    BY DEF HealthInv
<1> QED BY HealthInvariant, <1>1, PTL
-----------------------------------------------------------------------------
(***************************************************************************)
(* The refinement of HealthLifecycle.                                      *)
(***************************************************************************)

\* What a check does to the status is a step of the life cycle, or none: only a
\* connected connector is ready or degraded.
LEMMA CheckRefines ==
    ASSUME HealthInv, CheckOutcome, UNCHANGED IsConnected
    PROVE  [Lifecycle!Next]_Lifecycle!lifecycleVars
<1>1. health \in {"Ready", "SubscriptionDegraded"} => IsConnected
    BY DEF HealthInv, HealthFitsPhase, HealthTypeOK, Failures
<1> QED BY <1>1 DEF CheckOutcome, Lifecycle!Next, Lifecycle!lifecycleVars, Lifecycle!Ready,
                    Lifecycle!Degrade, Lifecycle!End

\* Every step of connect() and of its tasks is a step of the life cycle, or none.
LEMMA RefinementStep ==
    ASSUME HealthInv, [HealthNext]_healthVars PROVE [Lifecycle!Next]_Lifecycle!lifecycleVars
<1>1. CASE ConnectBegins
    <2>1. Lifecycle!Begin
        BY <1>1 DEF HealthInv, HealthTypeOK, AttemptsOrdered, HealthFitsPhase, Busy, Failures, IsConnected, ConnectBegins, Lifecycle!Failures, MayConnect, Lifecycle!Begin, connectVars, attemptVars
    <2> QED BY <2>1 DEF Lifecycle!Next
<1>2. CASE QueryFails
    <2>1. Lifecycle!Fail
        BY <1>2 DEF HealthInv, HealthTypeOK, AttemptsOrdered, HealthFitsPhase, Busy, Failures, IsConnected, QueryFails, Lifecycle!Failures, Lifecycle!Fail, connectVars, attemptVars
    <2> QED BY <2>1 DEF Lifecycle!Next
<1>3. CASE ReadyOk
    <2>1. Lifecycle!Connect
        BY <1>3 DEF HealthInv, HealthTypeOK, AttemptsOrdered, HealthFitsPhase, Busy, Failures, IsConnected, ReadyOk, Lifecycle!Connect, connectVars, attemptVars
    <2> QED BY <2>1 DEF Lifecycle!Next
<1>4. CASE ConnectReturns
    <2>1. health' = health \/ (Lifecycle!Ready /\ UNCHANGED IsConnected)
        BY <1>4 DEF HealthInv, HealthTypeOK, AttemptsOrdered, HealthFitsPhase, Busy, Failures, IsConnected, ConnectReturns, ExchangeReady, Lifecycle!Ready, connectVars, attemptVars
    <2>2. UNCHANGED IsConnected
        BY <1>4 DEF ConnectReturns, IsConnected, connectVars, attemptVars
    <2> QED BY <2>1, <2>2 DEF Lifecycle!Next, Lifecycle!lifecycleVars
<1>5. CASE ReadyFails
    BY <1>5 DEF HealthInv, HealthTypeOK, AttemptsOrdered, HealthFitsPhase, Busy, Failures, IsConnected, ReadyFails, Lifecycle!lifecycleVars, connectVars, attemptVars
<1>6. CASE ConnectFails
    <2>1. Lifecycle!Fail
        BY <1>6 DEF HealthInv, HealthTypeOK, AttemptsOrdered, HealthFitsPhase, Busy, Failures, IsConnected, ConnectFails, Lifecycle!Failures, Lifecycle!Fail, connectVars, attemptVars
    <2> QED BY <2>1 DEF Lifecycle!Next
<1>7. CASE Drop
    <2>1. Lifecycle!Drop
        BY <1>7 DEF HealthInv, HealthTypeOK, AttemptsOrdered, HealthFitsPhase, Busy, Failures, IsConnected, Drop, Lifecycle!Drop, connectVars, attemptVars
    <2> QED BY <2>1 DEF Lifecycle!Next
<1>8. ASSUME NEW a \in 0..MaxTotal, NEW c \in 0..MaxTotal, SpawnTask(a, c) PROVE [Lifecycle!Next]_Lifecycle!lifecycleVars
    BY <1>8 DEF HealthInv, HealthTypeOK, AttemptsOrdered, HealthFitsPhase, Busy, Failures, IsConnected, SpawnTask, Lifecycle!lifecycleVars, connectVars, attemptVars
<1>9. ASSUME NEW t \in Tasks, SubscribeAll(t) PROVE [Lifecycle!Next]_Lifecycle!lifecycleVars
    BY <1>9 DEF HealthInv, HealthTypeOK, AttemptsOrdered, HealthFitsPhase, Busy, Failures, IsConnected, SubscribeAll, Lifecycle!lifecycleVars, connectVars, attemptVars
<1>10. ASSUME NEW t \in Tasks, SubscribeFails(t) PROVE [Lifecycle!Next]_Lifecycle!lifecycleVars
    BY <1>10 DEF HealthInv, HealthTypeOK, AttemptsOrdered, HealthFitsPhase, Busy, Failures, IsConnected, SubscribeFails, Lifecycle!lifecycleVars, connectVars, attemptVars
<1>11. ASSUME NEW t \in Tasks, TaskEnds(t) PROVE [Lifecycle!Next]_Lifecycle!lifecycleVars
    <2>1. SetSubscriptionHealth(FALSE, TRUE) /\ health \in States
        BY <1>11 DEF TaskEnds, HealthInv, HealthTypeOK
    <2>2. CheckOutcome
        BY <2>1, CheckSteps DEF AnyFailing, AnyEnded, CheckOutcome
    <2>3. UNCHANGED IsConnected
        BY <1>11 DEF TaskEnds, connectVars, attemptVars, IsConnected
    <2> QED BY <2>2, <2>3, CheckRefines
<1>12. ASSUME NEW t \in Tasks, NEW f \in Feeds, FeedEnds(t, f) PROVE [Lifecycle!Next]_Lifecycle!lifecycleVars
    <2>1. SetSubscriptionHealth(FALSE, TRUE) /\ health \in States
        BY <1>12 DEF FeedEnds, HealthInv, HealthTypeOK
    <2>2. CheckOutcome
        BY <2>1, CheckSteps DEF AnyFailing, AnyEnded, CheckOutcome
    <2>3. UNCHANGED IsConnected
        BY <1>12 DEF FeedEnds, connectVars, attemptVars, IsConnected
    <2> QED BY <2>2, <2>3, CheckRefines
<1>13. ASSUME NEW t \in Tasks, HealthCheck(t) PROVE [Lifecycle!Next]_Lifecycle!lifecycleVars
    <2>1. SetSubscriptionHealth(AnyFailing(t), AnyEnded(t)) /\ health \in States
        BY <1>13 DEF HealthCheck, HealthInv, HealthTypeOK
    <2>2. CheckOutcome
        BY <2>1, CheckSteps DEF AnyFailing, AnyEnded, CheckOutcome
    <2>3. UNCHANGED IsConnected
        BY <1>13 DEF HealthCheck, connectVars, attemptVars, IsConnected
    <2> QED BY <2>2, <2>3, CheckRefines
<1>14. ASSUME NEW t \in Tasks, NEW kind \in {"accounts", "channels"}, Receive(t, kind) PROVE [Lifecycle!Next]_Lifecycle!lifecycleVars
    BY <1>14 DEF HealthInv, HealthTypeOK, AttemptsOrdered, HealthFitsPhase, Busy, Failures, IsConnected, Receive, Lifecycle!lifecycleVars, connectVars, attemptVars
<1>15. ASSUME NEW t \in Tasks, NEW f \in Feeds, NEW status \in Reports, FeedChanges(t, f, status) PROVE [Lifecycle!Next]_Lifecycle!lifecycleVars
    BY <1>15 DEF HealthInv, HealthTypeOK, AttemptsOrdered, HealthFitsPhase, Busy, Failures, IsConnected, FeedChanges, Lifecycle!lifecycleVars, connectVars, attemptVars
<1>16. CASE UNCHANGED healthVars
    BY <1>16 DEF Lifecycle!lifecycleVars, IsConnected, healthVars, connectVars, attemptVars
<1> QED
    BY <1>1, <1>2, <1>3, <1>4, <1>5, <1>6, <1>7, <1>8, <1>9, <1>10, <1>11, <1>12, <1>13, <1>14, <1>15, <1>16
    DEF HealthNext, ConnectStep, SubscriptionStep

\* The status that connect(), its tasks and the checks write together goes through
\* the life cycle a reader relies on.
THEOREM LifecycleImplemented == HealthSpec => ImplementsLifecycle
<1>1. HealthInit => Lifecycle!Init
    BY DEF HealthInit, Lifecycle!Init, IsConnected
<1> QED BY HealthInvariant, <1>1, RefinementStep, PTL
        DEF HealthSpec, ImplementsLifecycle, Lifecycle!Spec
=============================================================================
