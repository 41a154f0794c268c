----------------------------- MODULE ChainHealth -----------------------------
(***************************************************************************)
(* connect() of the blockchain connector, the subscription task each       *)
(* attempt spawns, and the one atomic `health` they all write              *)
(* (connector/mod.rs).  connect() takes &mut self, so one attempt runs at  *)
(* a time; the task of an attempt that failed is aborted, but it is the    *)
(* executor that decides when it notices.                                  *)
(*                                                                         *)
(* A task is named by the number of its attempt.  Its feeds stand for the  *)
(* six subscriptions; the status of a feed is what blokli-client reports.  *)
(***************************************************************************)
EXTENDS Integers, FiniteSets

CONSTANTS
    Feeds,             \* subscriptions of a task
    SyncTolerance,     \* cfg.sync_tolerance, a percentage
    MaxTotal,          \* bound on the accounts (channels) on chain
    MaxAttempts,       \* bound on the calls of connect()
    Reports            \* statuses a feed is reported to have

ASSUME ChainHealthAssumption ==
    /\ Feeds # {} /\ IsFiniteSet(Feeds)
    /\ SyncTolerance \in Nat /\ MaxTotal \in Nat /\ MaxAttempts \in Nat
    /\ Reports \subseteq {"Live", "Degraded", "Stalled", "Rejected", "Ended"}

VARIABLES
    health,             \* AtomicChainHealthState
    connection_handle,  \* the task whose abort handle the connector holds, or 0
    attempt,            \* number of the latest attempt
    connect_phase,      \* where connect() is
    aborted,            \* tasks that were told to stop
    task,               \* stage of each task
    needed,             \* account and channel events its quota still needs
    ready,              \* its connection_ready channel
    feeds,              \* reported status of its feeds
    finished            \* its feeds whose end the task has consumed

connectVars == <<connection_handle, attempt, connect_phase>>
attemptVars == <<aborted, task, needed, ready, feeds, finished>>
healthVars  == <<health, connectVars, attemptVars>>

Tasks        == 1..MaxAttempts
FeedStatuses == {"Live", "Degraded", "Stalled", "Rejected", "Ended"}
Failures     == {"SyncTimedOut", "ServerNotHealthy", "ConnectionFailed"}
States       == Failures \cup {"Ready", "WaitingForConnection", "Connecting", "SubscriptionEnded",
                           "Dropped", "SubscriptionDegraded"}

HealthInit ==
    /\ health = "WaitingForConnection"
    /\ connection_handle = 0 /\ attempt = 0 /\ connect_phase = "idle"
    /\ aborted = {}
    /\ task = [t \in Tasks |-> "none"]
    /\ needed = [t \in Tasks |-> [accounts |-> 0, channels |-> 0]]
    /\ ready = [t \in Tasks |-> "none"]
    /\ feeds = [t \in Tasks |-> [f \in Feeds |-> "Live"]]
    /\ finished = [t \in Tasks |-> {}]
-----------------------------------------------------------------------------
SubscriptionIsFailing(status) == status \in {"Stalled", "Rejected", "Ended"}

\* Mutant: an ended subscription is forgotten once the others work.
HealthAfterAnyCheck(current, anyFailing, anyEnded) ==
    CASE anyEnded /\ current # "Dropped" -> "SubscriptionEnded"
      [] current \in {"Ready", "SubscriptionDegraded", "SubscriptionEnded"} /\ ~anyEnded ->
            IF anyFailing THEN "SubscriptionDegraded" ELSE "Ready"
      [] OTHER -> current
ChainHealthAfterCheck(current, anyFailing, anyEnded) ==
    CASE current = "Connecting" /\ anyEnded -> "SubscriptionEnded"
      [] current \in {"Ready", "SubscriptionDegraded"} ->
            IF anyEnded THEN "SubscriptionEnded"
            ELSE IF anyFailing THEN "SubscriptionDegraded" ELSE "Ready"
      [] OTHER -> current

\* The compare-and-exchange loop takes effect on the value it was computed from.
SetSubscriptionHealth(anyFailing, anyEnded) ==
    health' = ChainHealthAfterCheck(health, anyFailing, anyEnded)

AnyEnded(t)   == \E f \in Feeds : feeds[t][f] = "Ended"
AnyFailing(t) == \E f \in Feeds : SubscriptionIsFailing(feeds[t][f])
-----------------------------------------------------------------------------
(***************************************************************************)
(* connect().                                                              *)
(***************************************************************************)
IsConnected == connection_handle # 0 /\ connection_handle \notin aborted

\* Mutant: connect() ignores the handle of a connection that exists.
MayConnectAgain == connect_phase = "idle" /\ health # "Dropped"
MayConnect == connect_phase = "idle" /\ health # "Dropped" /\ ~IsConnected

ConnectBegins ==
    /\ MayConnect /\ attempt < MaxAttempts
    /\ health' = "Connecting"
    /\ attempt' = attempt + 1
    /\ connect_phase' = "querying"
    /\ UNCHANGED <<connection_handle, attemptVars>>

\* do_connect gives up before it spawns a task: a query fails or the server is not healthy.
QueryFails ==
    /\ connect_phase = "querying"
    /\ health' \in {"ConnectionFailed", "ServerNotHealthy"}
    /\ connect_phase' = "idle"
    /\ UNCHANGED <<connection_handle, attempt, attemptVars>>

\* The share of what is on chain that has to arrive, rounded.
Threshold(count) ==
    LET quota == IF SyncTolerance < 1 THEN 1 ELSE IF SyncTolerance > 100 THEN 100 ELSE SyncTolerance
    IN (count * quota + 50) \div 100

SpawnTask(accounts, channels) ==
    /\ connect_phase = "querying"
    /\ needed' = [needed EXCEPT ![attempt] = [accounts |-> Threshold(accounts),
                                              channels |-> Threshold(channels)]]
    /\ task' = [task EXCEPT ![attempt] = "subscribing"]
    /\ connect_phase' = "waiting"
    /\ UNCHANGED <<health, connection_handle, attempt, aborted, ready, feeds, finished>>

ReadyOk ==
    /\ connect_phase = "waiting" /\ ready[attempt] = "ok"
    /\ connection_handle' = attempt
    /\ connect_phase' = "connected"
    /\ UNCHANGED <<health, attempt, attemptVars>>

\* Mutant: Ready is stored whatever the task reported meanwhile.
StoreReady == "Ready"
\* Connecting to Ready, by compare-and-exchange.
ExchangeReady == IF health = "Connecting" THEN "Ready" ELSE health

ConnectReturns ==
    /\ connect_phase = "connected"
    /\ health' = ExchangeReady
    /\ connect_phase' = "idle"
    /\ UNCHANGED <<connection_handle, attempt, attemptVars>>

\* The task refused, died, or did not answer in time: it is told to stop ...
ReadyFails ==
    /\ connect_phase = "waiting" /\ ready[attempt] # "ok"
    /\ connect_phase' = IF ready[attempt] \in {"err", "gone"} THEN "ConnectionFailed" ELSE "SyncTimedOut"
    /\ aborted' = aborted \cup {attempt}
    /\ UNCHANGED <<health, connection_handle, attempt, task, needed, ready, feeds, finished>>

\* ... and then the failure is stored.
ConnectFails ==
    /\ connect_phase \in Failures
    /\ health' = connect_phase
    /\ connect_phase' = "idle"
    /\ UNCHANGED <<connection_handle, attempt, attemptVars>>

\* Drop of the connector.
Drop ==
    /\ connect_phase = "idle" /\ health # "Dropped"
    /\ health' = "Dropped"
    /\ aborted' = aborted \cup ({connection_handle} \ {0})
    /\ connection_handle' = 0
    /\ UNCHANGED <<attempt, connect_phase, task, needed, ready, feeds, finished>>
-----------------------------------------------------------------------------
(***************************************************************************)
(* The task of attempt t.                                                  *)
(***************************************************************************)
\* The sender is used once.
Send(t, answer) == ready' = [ready EXCEPT ![t] = IF @ = "none" THEN answer ELSE @]

\* After it has read the service registry the task subscribes; nothing to wait for
\* means ready at once.
SubscribeAll(t) ==
    /\ task[t] = "subscribing"
    /\ task' = [task EXCEPT ![t] = "running"]
    /\ IF needed[t] = [accounts |-> 0, channels |-> 0] THEN Send(t, "ok") ELSE UNCHANGED ready
    /\ UNCHANGED <<health, connectVars, aborted, needed, feeds, finished>>

\* A subscription cannot be made: the task returns, without its last line.
SubscribeFails(t) ==
    /\ task[t] = "subscribing"
    /\ task' = [task EXCEPT ![t] = "done"]
    /\ Send(t, "err")
    /\ UNCHANGED <<health, connectVars, aborted, needed, feeds, finished>>

Running(t) == task[t] = "running" /\ t \notin aborted /\ finished[t] # Feeds

\* An account or channel event counts towards the quota until it is reached.
Receive(t, kind) ==
    /\ Running(t) /\ ready[t] = "none"
    /\ needed' = [needed EXCEPT ![t][kind] = IF @ > 0 THEN @ - 1 ELSE 0]
    /\ IF needed'[t] = [accounts |-> 0, channels |-> 0] THEN Send(t, "ok") ELSE UNCHANGED ready
    /\ UNCHANGED <<health, connectVars, aborted, task, feeds, finished>>

\* blokli-client reports another status; an ended subscription stays ended, and
\* nobody reads the status of a task that was told to stop.
FeedChanges(t, f, status) ==
    /\ task[t] = "running" /\ t \notin aborted
    /\ feeds[t][f] \notin {"Ended", status}
    /\ feeds' = [feeds EXCEPT ![t][f] = status]
    /\ UNCHANGED <<health, connectVars, aborted, task, needed, ready, finished>>

\* with_subscription_end: the task reads the end of one of its streams.
FeedEnds(t, f) ==
    /\ Running(t) /\ feeds[t][f] = "Ended" /\ f \notin finished[t]
    /\ finished' = [finished EXCEPT ![t] = @ \cup {f}]
    /\ SetSubscriptionHealth(FALSE, TRUE)
    /\ UNCHANGED <<connectVars, aborted, task, needed, ready, feeds>>

\* Mutant: the check looks for ended feeds only.
CheckIgnoresStalls(t) ==
    /\ Running(t)
    /\ SetSubscriptionHealth(FALSE, AnyEnded(t))
    /\ UNCHANGED <<connectVars, attemptVars>>
\* The periodic check of the feeds.
HealthCheck(t) ==
    /\ Running(t)
    /\ SetSubscriptionHealth(AnyFailing(t), AnyEnded(t))
    /\ UNCHANGED <<connectVars, attemptVars>>

\* All streams ended, or the task notices that it was aborted: its last line.
TaskEnds(t) ==
    /\ task[t] = "running" /\ ~Running(t)
    /\ task' = [task EXCEPT ![t] = "done"]
    /\ Send(t, "gone")
    /\ SetSubscriptionHealth(FALSE, TRUE)
    /\ UNCHANGED <<connectVars, aborted, needed, feeds, finished>>
-----------------------------------------------------------------------------
ConnectStep ==
    \/ QueryFails \/ ReadyOk \/ ConnectReturns \/ ReadyFails \/ ConnectFails
    \/ \E accounts, channels \in 0..MaxTotal : SpawnTask(accounts, channels)

SubscriptionStep(t) ==
    \/ SubscribeAll(t) \/ SubscribeFails(t) \/ TaskEnds(t)
    \/ \E f \in Feeds : FeedEnds(t, f)

HealthNext ==
    \/ ConnectBegins \/ ConnectStep \/ Drop
    \/ \E t \in Tasks :
        \/ SubscriptionStep(t) \/ HealthCheck(t)
        \/ \E kind \in {"accounts", "channels"} : Receive(t, kind)
        \/ \E f \in Feeds, status \in Reports : FeedChanges(t, f, status)

\* The executor runs every task, select polls the check timer fairly, and connect()
\* ends by its timeout at the latest.  Feeds, events and callers owe nothing.
HealthFairness ==
    /\ WF_healthVars(ConnectStep)
    /\ \A t \in Tasks : WF_healthVars(SubscriptionStep(t)) /\ WF_healthVars(HealthCheck(t))

HealthSpec == HealthInit /\ [][HealthNext]_healthVars /\ HealthFairness
-----------------------------------------------------------------------------
HealthTypeOK ==
    /\ health \in States
    /\ connection_handle \in 0..MaxAttempts /\ attempt \in 0..MaxAttempts
    /\ connect_phase \in {"idle", "querying", "waiting", "connected"} \cup Failures
    /\ aborted \subseteq Tasks
    /\ task \in [Tasks -> {"none", "subscribing", "running", "done"}]
    /\ needed \in [Tasks -> [accounts : Nat, channels : Nat]]
    /\ ready \in [Tasks -> {"none", "ok", "err", "gone"}]
    /\ feeds \in [Tasks -> [Feeds -> FeedStatuses]]
    /\ finished \in [Tasks -> SUBSET Feeds]

\* The status a reader sees goes through the life cycle of HealthLifecycle, whatever
\* the tasks of earlier attempts still do.
Lifecycle == INSTANCE HealthLifecycle WITH connected <- IsConnected
ImplementsLifecycle == Lifecycle!Spec

\* At most one task that nobody stopped is there: the one the connector holds or
\* waits for, so no event is handled or broadcast twice.
OneLiveTask ==
    \A t \in Tasks :
        task[t] \in {"subscribing", "running"} /\ t \notin aborted
            => t = connection_handle \/ (t = attempt /\ connect_phase = "waiting")

\* While the connection is up, a feed that stopped working is reported and a
\* recovery is, too, unless the feed changes or the connector is dropped.  The task
\* of an attempt that failed may still end late and report its end as this one's.
HealthFollowsFeeds ==
    \A t \in Tasks :
        /\ (IsConnected /\ connection_handle = t /\ AnyFailing(t))
              ~> (~AnyFailing(t) \/ health \in {"SubscriptionDegraded", "SubscriptionEnded", "Dropped"})
        /\ (IsConnected /\ connection_handle = t /\ ~AnyFailing(t))
              ~> (AnyFailing(t) \/ health \in {"Ready", "Dropped"} \/ (aborted # {} /\ health = "SubscriptionEnded"))
=============================================================================
