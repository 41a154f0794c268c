--------------------------- MODULE ServiceRegistry ---------------------------
(***************************************************************************)
(* The service registry as the connector follows it: the registry on chain,*)
(* the read made before subscribing, the snapshot-first subscriptions of   *)
(* entries and types with the suppression of their replay, the             *)
(* registry-wide configuration, and the writes of this node.               *)
(*                                                                         *)
(* An update carries `replay`, which no consumer can see: whether it was   *)
(* part of the snapshot or happened later.                                 *)
(***************************************************************************)
EXTENDS Naturals, Sequences, SequencesExt

CONSTANTS Entries,      \* (service type, node) pairs
          Types,        \* service types
          Fees,         \* values of the two registry-wide settings
          MaxTime,      \* bound on block timestamps
          MaxWrites,    \* bound on the changes of the registry
          Nothing       \* no entry, no record, no value

VARIABLES time,           \* external: the timestamp of the current block
          registry,       \* external: the entries
          types,          \* external: the registered types and their settings
          config,         \* external: [fee, pointer]
          writes,
          connecting,     \* the steps of the connection task
          asRead,         \* (history) the entries and types as they were read
          atSubscription, \* (history) and as the subscription replays them
          replayedServices, replayedTypes,    \* what was read and not yet replayed
          backlog,        \* the two streams, merged, not yet handled
          handled,        \* the connector's stream of configurations: the first and the last
          live,           \* and the settings it broadcast
          previous,       \* a consumer's own stream: the last configuration
          told,           \* and the settings it was told
          known,           \* what a consumer knows that read the registry when the connector did
          misjudged       \* (history) updates dropped or delivered against expectation

registryVars == <<time, registry, types, config, writes, connecting, asRead, atSubscription,
                  replayedServices, replayedTypes, backlog, handled, live, previous, told, known, misjudged>>

ServiceEntry == [registered_at : 0..MaxTime, updated_at : 0..MaxTime]
\* ServiceTypeConfig: every setting takes two values.
TypeFields == {"owner", "requirement", "registration_burn", "update_burn"}
NewType == [f \in TypeFields |-> 0]

ASSUME RegistryAssumption ==
    /\ IsFiniteSet(Entries) /\ IsFiniteSet(Types)
    /\ Nothing \notin ServiceEntry \cup Fees \cup {0, 1} \cup [TypeFields -> {0, 1, Nothing}]
    /\ MaxTime \in Nat /\ MaxWrites \in Nat

NoEntries == [e \in Entries |-> Nothing]
NoTypes == [t \in Types |-> Nothing]
NothingRead == [entries |-> NoEntries, types |-> NoTypes]
NoConfig == [fee |-> Nothing, pointer |-> Nothing]

RegistryInit ==
    /\ time = 0 /\ writes = 0
    /\ registry \in [Entries -> {Nothing, [registered_at |-> 0, updated_at |-> 0]}]
    /\ types \in [Types -> {Nothing, NewType}] /\ config \in [fee : Fees, pointer : Fees]
    /\ connecting = "start" /\ asRead = NothingRead /\ atSubscription = NothingRead
    /\ replayedServices = NoEntries /\ replayedTypes = {}
    /\ backlog = <<>> /\ handled = [first |-> NoConfig, last |-> NoConfig] /\ live = NoConfig
    /\ previous = NoConfig /\ told = NoConfig /\ known = NothingRead /\ misjudged = {}
--------------------------------------------------------------------------------
(* The registry contract and its feed (external) *)

Emit(kind, key, entry) ==
    backlog' = IF connecting = "subscribed"
               THEN Append(backlog, [kind |-> kind, key |-> key, entry |-> entry, replay |-> FALSE])
               ELSE backlog

Write ==
    /\ writes < MaxWrites /\ writes' = writes + 1
    /\ UNCHANGED <<time, config, connecting, asRead, atSubscription, replayedServices, replayedTypes,
                   handled, live, previous, told, known, misjudged>>

Registered(e) ==
    LET new == [registered_at |-> time, updated_at |-> time]
    IN  /\ Write /\ registry[e] = Nothing
        /\ registry' = [registry EXCEPT ![e] = new] /\ Emit("registered", e, new) /\ UNCHANGED types

Updated(e) ==
    LET new == [registry[e] EXCEPT !.updated_at = time]
    IN  /\ registry[e] # Nothing /\ Write
        /\ registry' = [registry EXCEPT ![e] = new] /\ Emit("updated", e, new) /\ UNCHANGED types

Deregistered(e) ==
    /\ Write /\ registry[e] # Nothing
    /\ registry' = [registry EXCEPT ![e] = Nothing] /\ Emit("deregistered", e, registry[e]) /\ UNCHANGED types

\* A type is registered once and for all: abandoning it only clears its owner.
TypeRegistered(t) ==
    /\ Write /\ types[t] = Nothing
    /\ types' = [types EXCEPT ![t] = NewType] /\ Emit("type_registered", t, NewType) /\ UNCHANGED registry

\* An update carries the type's settings after the change; its kind says which changed.
TypeChanged(t, f) ==
    LET new == [types[t] EXCEPT ![f] = 1 - @]
    IN  /\ types[t] # Nothing /\ Write
        /\ types' = [types EXCEPT ![t] = new] /\ Emit(f, t, new) /\ UNCHANGED registry

BlockTimePasses ==
    /\ time < MaxTime /\ time' = time + 1
    /\ UNCHANGED <<registry, types, config, writes, connecting, asRead, atSubscription, replayedServices,
                   replayedTypes, backlog, handled, live, previous, told, known, misjudged>>

ConfigChanges ==
    /\ writes < MaxWrites /\ writes' = writes + 1
    /\ config' \in [fee : Fees, pointer : Fees]
    /\ UNCHANGED <<time, registry, types, connecting, asRead, atSubscription, replayedServices,
                   replayedTypes, backlog, handled, live, previous, told, known, misjudged>>
--------------------------------------------------------------------------------
(* The connection task *)

Task(from, to) == connecting = from /\ connecting' = to

\* Two queries, types first; a failure or a budget spent on either gives up both.
ReadTypes ==
    /\ Task("start", "types read") /\ replayedTypes' = {t \in Types : types[t] # Nothing}
    /\ asRead' = [asRead EXCEPT !.types = types]
    /\ UNCHANGED <<time, registry, types, config, writes, atSubscription, replayedServices, backlog,
                   handled, live, previous, told, known, misjudged>>

ReadEntries ==
    /\ Task("types read", "read") /\ replayedServices' = registry
    /\ asRead' = [asRead EXCEPT !.entries = registry] /\ known' = asRead'
    /\ UNCHANGED <<time, registry, types, config, writes, atSubscription, replayedTypes, backlog, handled, live,
                   previous, told, misjudged>>

ReadFails ==
    /\ connecting \in {"start", "types read"} /\ connecting' = "read"
    /\ replayedServices' = NoEntries /\ replayedTypes' = {} /\ asRead' = NothingRead
    /\ UNCHANGED <<time, registry, types, config, writes, atSubscription, backlog, handled, live,
                   previous, told, known, misjudged>>

\* The streams replay the state at their watermark, then follow the chain.
Subscribe ==
    LET snapshot == {[kind |-> "registered", key |-> e, entry |-> registry[e], replay |-> TRUE] :
                         e \in {x \in Entries : registry[x] # Nothing}}
                    \cup {[kind |-> "type_registered", key |-> t, entry |-> types[t], replay |-> TRUE] :
                              t \in {x \in Types : types[x] # Nothing}}
    IN  /\ Task("read", "subscribed")
        /\ backlog' = SetToSeq(snapshot) /\ atSubscription' = [entries |-> registry, types |-> types]
        /\ UNCHANGED <<time, registry, types, config, writes, asRead, replayedServices, replayedTypes, handled,
                       live, previous, told, known, misjudged>>

\* Mutant: service type and node are enough for a match.
ConsumesByIdentity(u) == u.kind = "registered" /\ replayedServices[u.key] # Nothing

\* ReplayedServices::consumes: the whole entry has to match what was read.
ConsumesService(u) == u.kind = "registered" /\ replayedServices[u.key] = u.entry

\* ReplayedServiceTypes::consumes: identity is enough.
ConsumesType(u) == u.kind = "type_registered" /\ u.key \in replayedTypes

\* Mutant: a record keeps suppressing.
ServicesKept(u) == replayedServices

\* A match is consumed: one record suppresses one registration.
ServicesLeft(u) == IF ConsumesService(u) THEN [replayedServices EXCEPT ![u.key] = Nothing] ELSE replayedServices

\* A registration that happened later is dropped only if its entry had gone from
\* the registry after the read and came back the same to the last field; one
\* that is replayed is delivered only if it was not read as it is.
Excusable(u, dropped) ==
    \/ dropped = u.replay
    \/ /\ dropped /\ u.kind = "registered"
       /\ asRead.entries[u.key] = u.entry /\ atSubscription.entries[u.key] # u.entry
    \/ /\ ~dropped /\ u.replay
       /\ IF u.kind = "registered" THEN asRead.entries[u.key] # u.entry ELSE asRead.types[u.key] = Nothing

\* Mutant: the wrong burn is told.
OtherBurn(u) == u.entry[IF u.kind = "update_burn" THEN "registration_burn" ELSE u.kind]

\* service_type_update_to_event: of the settings, the one the kind names.
ChangedSetting(u) == u.entry[u.kind]

\* service_update_to_event: the entry as it is now; one deregistered has none.
UpdatedEntry(u) == IF u.kind = "deregistered" THEN Nothing ELSE u.entry

\* What a consumer makes of an event: a new type is told with its owner only.
Learned(u) ==
    CASE u.kind \in {"registered", "updated", "deregistered"} -> [known EXCEPT !.entries[u.key] = UpdatedEntry(u)]
      [] u.kind = "type_registered" ->
            [known EXCEPT !.types[u.key] = [f \in TypeFields |-> IF f = "owner" THEN u.entry.owner ELSE Nothing]]
      [] OTHER -> [known EXCEPT !.types[u.key][u.kind] = ChangedSetting(u)]

HandleUpdate ==
    LET u == Head(backlog)  dropped == ConsumesService(u) \/ ConsumesType(u)
        isRegistration == u.kind \in {"registered", "type_registered"}
    IN  /\ backlog # <<>> /\ backlog' = Tail(backlog)
        /\ replayedServices' = ServicesLeft(u)
        /\ replayedTypes' = IF ConsumesType(u) THEN replayedTypes \ {u.key} ELSE replayedTypes
        /\ known' = IF dropped THEN known ELSE Learned(u)
        /\ misjudged' = IF isRegistration /\ ~Excusable(u, dropped) THEN misjudged \cup {u} ELSE misjudged
        /\ UNCHANGED <<time, registry, types, config, writes, connecting, asRead, atSubscription, handled, live, previous, told>>
--------------------------------------------------------------------------------
(* The registry-wide configuration *)

\* Mutant: only the fee is compared.
ConfigEventsFee(current, before) ==
    {f \in {"fee", "pointer"} : before[f] = Nothing \/ (f = "fee" /\ before[f] # current[f])}

\* The events of a configuration: both settings at first, then what differs.
ConfigEvents(current, before) == {f \in {"fee", "pointer"} : before[f] = Nothing \/ before[f] # current[f]}

After(settings, events) == [f \in {"fee", "pointer"} |-> IF f \in events THEN config[f] ELSE settings[f]]

\* The connector's stream broadcasts what differs; its first value initialises.
ConfigHandled ==
    /\ connecting = "subscribed" /\ handled.last # config
    /\ handled' = [first |-> IF handled.first = NoConfig THEN config ELSE handled.first, last |-> config]
    /\ live' = IF handled.first = NoConfig THEN live ELSE After(live, ConfigEvents(config, handled.last))
    /\ UNCHANGED <<time, registry, types, config, writes, connecting, asRead, atSubscription, replayedServices,
                   replayedTypes, backlog, previous, told, known, misjudged>>

\* A consumer's own stream, opened when it asks for the configuration: the
\* current value, then every later one the feed shows it.
ConfigSeen ==
    /\ connecting = "subscribed" /\ previous # config /\ previous' = config
    /\ told' = After(told, ConfigEvents(config, previous))
    /\ UNCHANGED <<time, registry, types, config, writes, connecting, asRead, atSubscription, replayedServices,
                   replayedTypes, backlog, handled, live, known, misjudged>>
--------------------------------------------------------------------------------
TaskStep == ReadTypes \/ ReadEntries \/ ReadFails \/ Subscribe

ServiceStep ==
    \/ \E e \in Entries : Registered(e) \/ Updated(e) \/ Deregistered(e)
    \/ \E t \in Types : TypeRegistered(t) \/ \E f \in TypeFields : TypeChanged(t, f)
    \/ BlockTimePasses \/ HandleUpdate

ConfigStep == ConfigChanges \/ ConfigHandled \/ ConfigSeen
--------------------------------------------------------------------------------
(* Properties *)

\* The replay is suppressed exactly where the registry's documentation says:
\* nothing registered later is taken for a replay unless it is
\* indistinguishable from what was read, and nothing that was read and is
\* replayed unchanged is delivered as new.
SuppressionIsExact == misjudged = {}

\* A consumer that read the registry when the connector did, and has handled the
\* events since, knows every entry and every setting it was told; what changed
\* between the read and the subscription it may know as it was read.
RegistryIsKnown ==
    connecting = "subscribed" /\ backlog = <<>> =>
        /\ \A e \in Entries :
            \/ known.entries[e] = registry[e]
            \/ known.entries[e] = asRead.entries[e] /\ registry[e] = Nothing /\ atSubscription.entries[e] = Nothing
        /\ \A t \in Types :
            /\ known.types[t] = Nothing <=> types[t] = Nothing
            /\ types[t] # Nothing => \A f \in TypeFields :
                \/ known.types[t][f] = types[t][f]
                \/ known.types[t][f] = Nothing /\ f # "owner" /\ asRead.types[t] = Nothing
                \/ /\ asRead.types[t] # Nothing
                   /\ known.types[t][f] = asRead.types[t][f]
                   /\ types[t][f] = atSubscription.types[t][f]

\* A consumer that asked for the configuration ends up with the one on chain;
\* one that did not is told of every setting that is no longer what it was when
\* the connector subscribed.
ConfigIsKnown ==
    connecting = "subscribed" =>
        /\ previous = config => told = config
        /\ handled.last = config =>
            \A f \in {"fee", "pointer"} : live[f] = (IF live[f] = Nothing /\ handled.first[f] = config[f] THEN Nothing ELSE config[f])
=============================================================================
