----------------------------- MODULE MCConnector -----------------------------
(***************************************************************************)
(* The state the connector keeps of the chain, for model checking.         *)
(*                                                                         *)
(* Accounts, channels, ticket parameters and services meet only in the     *)
(* event stream, and the entries of a cache not at all.  A behaviour       *)
(* therefore explores one part, and of the caches one slot, at a time.     *)
(***************************************************************************)
EXTENDS AccountState, ChannelState, ChainValues, ServiceRegistry, ChainOperations, TLC

\* An event is about an account or a channel.
ASSUME TopicsAssumption == Ids \cap Channels = {}

VARIABLES part, watched

\* Readable and live, dead, unreadable, of the other node, of the other type.
KnownRegistrations ==
    {[type |-> "exit", node |-> "n1", live |-> TRUE, valid |-> TRUE],
     [type |-> "exit", node |-> "n2", live |-> FALSE, valid |-> TRUE],
     [type |-> "exit", node |-> "n1", live |-> TRUE, valid |-> FALSE],
     [type |-> "relay", node |-> "n1", live |-> FALSE, valid |-> TRUE],
     [type |-> "relay", node |-> "n2", live |-> TRUE, valid |-> TRUE]}

vars == <<accountVars, channelVars, valueVars, registryVars, streamVars, operationVars, part, watched>>

\* The calls that are made together.
CallGroups == {"safe", "announce", "tokens", "services"}

Init ==
    /\ AccountInit /\ ChannelInit /\ ValueInit /\ RegistryInit /\ StreamInit /\ OperationsInit
    /\ \/ part = "lookups" /\ watched \in Slots
       \/ part = "cached channels" /\ watched \in CacheSlots
       \/ part = "operations" /\ watched \in CallGroups
       \/ part = "waits" /\ watched \in {"safe", "announce"}
       \/ part \in {"announcements", "channel events", "values", "services", "config", "queries"}
            /\ watched = None
    /\ part # "values" => params = CHOOSE p \in Params : TRUE
    /\ part # "services" => registry = NoEntries /\ types = NoTypes
    /\ part # "queries" => stored = {} /\ ~failing
    /\ part # "config" => config = CHOOSE c \in [fee : Fees, pointer : Fees] : TRUE

AccountsNext ==
    /\ part \in {"lookups", "announcements"}
    /\ \/ HandlerStep
       \/ part = "lookups" /\ SlotStep(watched)
       \/ part = "lookups" /\ InvalidateCaches /\ UNCHANGED streamVars
       \/ part = "announcements" /\ ConsumerStep
       \/ part = "announcements" /\ \E i \in Ids : EdgeSeen(i) /\ UNCHANGED streamVars
    /\ UNCHANGED <<channelVars, valueVars, registryVars, operationVars, part, watched>>

\* The steps of the channels part, without the frame.
WatchedChannelStep ==
    \/ FeedStep
    \/ part = "channel events" /\ \E c \in Channels : ChainStep(c)
    \/ part = "channel events" /\ SubscriberStep
    \/ part = "cached channels" /\ (ChainStep(watched[2]) \/ CacheStep(watched))
    \/ part = "cached channels" /\ watched[1] = "channel_by_id" /\ CloserStep(watched[2])

ChannelsFrame == part \in {"cached channels", "channel events"}
                    /\ UNCHANGED <<accountVars, valueVars, registryVars, operationVars, part, watched>>
ChannelsNext == WatchedChannelStep /\ ChannelsFrame

ValuesNext ==
    /\ part = "values" /\ ValueStep
    /\ UNCHANGED <<accountVars, channelVars, registryVars, operationVars, part, watched>>

RegistryNext ==
    /\ part \in {"services", "config"}
    /\ \/ TaskStep
       \/ part = "services" /\ ServiceStep
       \/ part = "config" /\ ConfigStep
    /\ UNCHANGED <<accountVars, channelVars, valueVars, streamVars, operationVars, part, watched>>

OperationsNext ==
    /\ part \in {"operations", "waits"}
    /\ \/ SettleStep
       \/ watched = "safe" /\ (OtherDeploys \/ \E u \in Users : DeploySafe(u))
       \/ watched = "safe" /\ part = "operations" /\ \E u \in Users, s \in SafeIds : RegisterSafe(u, s)
       \/ watched = "announce" /\ \E u \in Users, addrs \in SUBSET Multiaddrs : Announce(u, addrs)
       \/ watched = "tokens" /\ \E u \in Users : Withdraw(u) \/ OpenChannel(u) \/ FundChannel(u)
       \/ watched = "services" /\ OtherRegistersType
       \/ watched = "services" /\ \E u \in Users : RegisterService(u) \/ UpdateService(u) \/ DeregisterService(u)
       \/ part = "waits" /\ WaitStep
    /\ UNCHANGED <<accountVars, channelVars, valueVars, registryVars, streamVars, part, watched>>

Next == AccountsNext \/ ChannelsNext \/ ValuesNext \/ RegistryNext \/ OperationsNext

\* The node keeps closing the watched channel: a call that waits for a load gets
\* its answer (strong fairness), transactions reach the chain, the notice period
\* passes, and the feed delivers and is handled.
Closing(A) == part = "cached channels" /\ watched[1] = "channel_by_id" /\ A /\ ChannelsFrame /\ UNCHANGED streamVars

Fairness ==
    /\ SF_vars(Closing(CloseChannel(watched[2])))
    /\ WF_vars(Closing(\E tx \in sent : Executes(tx) \/ Reverts(tx)))
    /\ WF_vars(Closing(\E l \in filling : FillEnds(l)))
    /\ WF_vars(Closing(NoticePeriodEnds(watched[2])))
    /\ WF_vars(Closing(ChannelReceived(watched[2])))
    /\ WF_vars(Closing(ChannelCached))
    /\ WF_vars(part = "cached channels" /\ ChannelTold /\ ChannelsFrame)

Spec == Init /\ [][Next]_vars /\ Fairness

\* Prices, probability, fee and pointer are known as they are on chain, save for
\* the named causes.
ValuesAreKnown == ValuesFollowTheChain /\ ConfigIsKnown

\* The tables and caches hold what they are declared to hold; no index of the
\* backend answers other than its tables, and no cache other than the backend,
\* save for the named causes.
CachesMatchBackend ==
    AccountTypeOK /\ ChannelTypeOK /\ IndexesMatchScan /\ LookupsMatchBackend /\ CachedChannelsAreStored

\* A consumer of events that has caught up knows the accounts and channels as
\* the backend does, and the registry as it is, save for the named causes.
ConsumersAreUpToDate == AnnouncedAccountsAreKnown /\ ChannelViewIsCurrent /\ RegistryIsKnown

\* What is set up is set up once, a wait ends with what it waits for, and a query
\* of the registry answers what was asked.
OperationsAreSound == SetupDoneOnce /\ AwaitedFits /\ QueriesAreExact

\* RepeatedCloseCloses, of the behaviours in which the channels are closed.
WatchedChannelCloses ==
    part = "cached channels" /\ watched[1] = "channel_by_id" => RepeatedCloseCloses
=============================================================================
