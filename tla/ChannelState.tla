---------------------------- MODULE ChannelState ----------------------------
(***************************************************************************)
(* The payment channels of the connector: the chain they live on, the      *)
(* subscription handler that stores every update and turns it into events, *)
(* the two channel caches with their readers, closing a channel from what  *)
(* the cache says, and the consumer of channel events.                     *)
(*                                                                         *)
(* `behind` (history) holds the caches' slots whose load was overtaken by  *)
(* an update; `untold` the channels whose last change raised no event.     *)
(***************************************************************************)
EXTENDS EventStream, FiniteSets, Integers

CONSTANTS Incoming, Outgoing, Foreign,   \* channels, by their direction for this node
          MaxChanges,                    \* bound on changes made by others and reconnects
          MaxBalance,                    \* bound on a channel's balance
          NoEntry,                       \* no such channel
          NotCached

Channels == Incoming \cup Outgoing \cup Foreign
Statuses == {"Open", "PendingToClose", "Closed"}
ChannelEntry == [status : Statuses, balance : 0..MaxBalance, ticket_index : 0..1]

ASSUME ChannelAssumption ==
    /\ Channels \subseteq Topics
    /\ NoEntry \notin ChannelEntry /\ NotCached \notin ChannelEntry \cup {NoEntry}
    /\ MaxChanges \in Nat /\ MaxBalance \in Nat

CacheSlots == {"channel_by_id", "channel_by_parties"} \X Channels

VARIABLES onChain,    \* external: the channels as the contract has them
          changes,    \* changes made on chain
          elapsed,    \* external: pending channels whose notice period is over
          fed,        \* external: what the feed delivered last of each channel
          edges,      \* channels that are an edge of the graph
          channels,   \* the backend's channel table
          cached,     \* slot -> entry, NoEntry, or NotCached
          filling,    \* lookups between their backend read and their store
          feed,       \* the channel handler: its step, the channel, entry and old entry
          sent,       \* closing transactions on their way to the chain
          behind, untold

channelVars == <<onChain, changes, elapsed, fed, edges, channels, cached, filling, feed, sent, behind, untold>>

Waiting == [at |-> "idle", channel |-> NoEntry, entry |-> NoEntry, old |-> NoEntry]

ChannelInit ==
    /\ onChain = [c \in Channels |-> NoEntry] /\ changes = 0 /\ elapsed = {}
    /\ fed = [c \in Channels |-> NoEntry] /\ edges = {} /\ channels = [c \in Channels |-> NoEntry]
    /\ cached = [s \in CacheSlots |-> NotCached] /\ filling = {} /\ feed = Waiting
    /\ sent = {} /\ behind = {} /\ untold = {}
--------------------------------------------------------------------------------
(* The contract, as far as the connector depends on it (external) *)

Change(c, e) ==
    /\ onChain' = [onChain EXCEPT ![c] = e]
    /\ elapsed' = elapsed \ {c}
    /\ UNCHANGED <<fed, edges, channels, cached, filling, feed, behind, untold>>

\* What others do is bounded; the closing steps of this node bound themselves.
ByOthers == changes < MaxChanges /\ changes' = changes + 1 /\ UNCHANGED sent

\* Funding opens a closed or new channel, with its ticket index reset, or adds
\* to the balance of an open one.
Funded(c) ==
    /\ ByOthers
    /\ \E b \in 1..MaxBalance :
        IF onChain[c] = NoEntry \/ onChain[c].status = "Closed"
        THEN Change(c, [status |-> "Open", balance |-> b, ticket_index |-> 0])
        ELSE /\ onChain[c].status = "Open" /\ b > onChain[c].balance
             /\ Change(c, [onChain[c] EXCEPT !.balance = b])

Redeemed(c) ==
    /\ ByOthers
    /\ onChain[c] # NoEntry /\ onChain[c].status # "Closed"
    /\ onChain[c].balance > 0 /\ onChain[c].ticket_index = 0
    /\ Change(c, [onChain[c] EXCEPT !.balance = @ - 1, !.ticket_index = 1])

Initiated(c) ==
    /\ onChain[c] # NoEntry /\ onChain[c].status = "Open"
    /\ Change(c, [onChain[c] EXCEPT !.status = "PendingToClose"])

Closed(c) ==
    /\ onChain[c] # NoEntry /\ onChain[c].status # "Closed"
    /\ Change(c, [onChain[c] EXCEPT !.status = "Closed", !.balance = 0])

NoticePeriodEnds(c) ==
    /\ onChain[c] # NoEntry /\ onChain[c].status = "PendingToClose" /\ c \notin elapsed
    /\ elapsed' = elapsed \cup {c}
    /\ UNCHANGED <<onChain, changes, fed, edges, channels, cached, filling, feed, sent, behind, untold>>

\* The other party's closures: of a channel it opened to us, or of ours to it.
CounterpartyCloses(c) ==
    /\ ByOthers
    /\ \/ c \notin Outgoing /\ Initiated(c)
       \/ c \notin Outgoing /\ c \in elapsed /\ Closed(c)
       \/ c \in Outgoing /\ Closed(c)

\* A closing transaction of this node executes if the channel's state allows
\* it, and reverts if not.
Executes(tx) ==
    /\ sent' = sent \ {tx} /\ UNCHANGED changes
    /\ \/ tx.kind = "initiate" /\ Initiated(tx.channel)
       \/ tx.kind = "finalize" /\ tx.channel \in elapsed /\ Closed(tx.channel)
       \/ tx.kind = "close_incoming" /\ Closed(tx.channel)

Reverts(tx) ==
    LET e == onChain[tx.channel]
        allowed == CASE tx.kind = "initiate" -> e.status = "Open"
                     [] tx.kind = "finalize" -> e.status = "PendingToClose" /\ tx.channel \in elapsed
                     [] OTHER                -> e.status # "Closed"
    IN  /\ ~allowed
        /\ sent' = sent \ {tx}
        /\ UNCHANGED <<onChain, changes, elapsed, fed, edges, channels, cached, filling, feed, behind, untold>>
--------------------------------------------------------------------------------
(* Events of an update *)

\* Which changes of the status are told.  A channel that closes without having
\* been pending, or that the feed shows open again after pending, is not among
\* them.
StatusEvent(left, right) ==
    <<left, right>> \in {<<"Open", "PendingToClose">>, <<"PendingToClose", "Closed">>, <<"Closed", "Open">>}

\* One event for every field that differs and is told, each with the new entry; a
\* channel seen for the first time is told as opened, whatever its status.
ChannelEvents(c, old, new) ==
    LET If(raised) == IF raised THEN <<[id |-> c, entry |-> new]>> ELSE <<>>
    IN  IF old = NoEntry THEN If(TRUE)
        ELSE If(StatusEvent(old.status, new.status)) \o If(old.balance # new.balance)
                \o If(old.ticket_index < new.ticket_index /\ c \notin Incoming)
--------------------------------------------------------------------------------
(* The channel handler *)

\* The update carries the channel as it is now: a feed that reconnects skips
\* what happened in between, and repeats what was delivered before.
Fed(c) ==
    /\ feed = Waiting /\ onChain[c] # fed[c]
    /\ fed' = [fed EXCEPT ![c] = onChain[c]] /\ edges' = edges \cup {c}

FeedReconnects ==
    /\ changes < MaxChanges /\ changes' = changes + 1
    /\ fed' = [c \in Channels |-> NoEntry]
    /\ UNCHANGED <<onChain, elapsed, edges, channels, cached, filling, feed, sent, behind, untold>>

ChannelReceived(c) ==
    /\ Fed(c)
    /\ channels' = [channels EXCEPT ![c] = onChain[c]]
    /\ feed' = [at |-> "stored", channel |-> c, entry |-> onChain[c], old |-> channels[c]]
    /\ filling' = {[l EXCEPT !.overtaken = @ \/ l.slot[2] = c] : l \in filling}
    /\ UNCHANGED <<onChain, changes, elapsed, cached, sent, behind, untold>>

\* A backend that fails leaves the edge in the graph and the caches alone.
ChannelNotStored(c) ==
    /\ Fed(c)
    /\ UNCHANGED <<onChain, changes, elapsed, channels, cached, filling, feed, sent, behind, untold>>

\* Mutant: only one of the caches is updated.
UpdatedById(c) == {"channel_by_id"} \X {c}

UpdatedSlots(c) == {"channel_by_id", "channel_by_parties"} \X {c}

\* The cached entries are replaced rather than invalidated.
ChannelCached ==
    /\ feed.at = "stored" /\ feed' = [feed EXCEPT !.at = "cached"]
    /\ cached' = [s \in CacheSlots |-> IF s \in UpdatedSlots(feed.channel) THEN feed.entry ELSE cached[s]]
    /\ behind' = behind \ UpdatedSlots(feed.channel)
    /\ UNCHANGED <<onChain, changes, elapsed, fed, edges, channels, filling, sent, untold>>

ChannelTold ==
    LET events == ChannelEvents(feed.channel, feed.old, feed.entry)
    IN  /\ feed.at = "cached" /\ feed' = Waiting
        /\ untold' = IF events # <<>> THEN untold \ {feed.channel}
                      ELSE IF feed.old # feed.entry THEN untold \cup {feed.channel} ELSE untold
        /\ Broadcast(events)
        /\ UNCHANGED <<onChain, changes, elapsed, fed, edges, channels, cached, filling, sent, behind>>
--------------------------------------------------------------------------------
(* Readers of the caches *)

GetChannelById(c) == channels[c]

FillBegins(s) ==
    /\ cached[s] = NotCached /\ ~\E l \in filling : l.slot = s
    /\ filling' = filling \cup {[slot |-> s, entry |-> GetChannelById(s[2]), overtaken |-> FALSE]}
    /\ UNCHANGED <<onChain, changes, elapsed, fed, edges, channels, cached, feed, sent, behind, untold>>

FillEnds(l) ==
    /\ filling' = filling \ {l}
    /\ cached' = [cached EXCEPT ![l.slot] = l.entry]
    /\ behind' = IF l.overtaken THEN behind \cup {l.slot} ELSE behind \ {l.slot}
    /\ UNCHANGED <<onChain, changes, elapsed, fed, edges, channels, feed, sent, untold>>

\* Expiry of an idle entry, eviction, or invalidate_caches().
Dropped(s) ==
    /\ cached[s] # NotCached
    /\ cached' = [cached EXCEPT ![s] = NotCached]
    /\ behind' = behind \ {s}
    /\ UNCHANGED <<onChain, changes, elapsed, fed, edges, channels, filling, feed, sent, untold>>

\* Mutant: a pending closure is initiated again.
ClosingTxNeverFinal(c, e) ==
    IF e = NoEntry \/ c \in Foreign \/ e.status = "Closed" THEN "none"
    ELSE IF c \in Outgoing THEN "initiate" ELSE "close_incoming"

\* The transaction close_channel() makes of an entry, if it makes one.
ClosingTx(c, e) ==
    IF e = NoEntry \/ c \in Foreign \/ e.status = "Closed" THEN "none"
    ELSE IF e.status = "PendingToClose" /\ c \notin elapsed THEN "none"
    ELSE IF c \notin Outgoing THEN "close_incoming"
    ELSE IF e.status = "Open" THEN "initiate" ELSE "finalize"

\* close_channel(): decided by the cached entry.  A miss reads the backend and
\* caches the answer, or waits for the load under way.
CloseChannel(c) ==
    LET s == <<"channel_by_id", c>>
        e == IF cached[s] = NotCached THEN GetChannelById(c) ELSE cached[s]
    IN  /\ cached[s] = NotCached => ~\E l \in filling : l.slot = s
        /\ ClosingTx(c, e) # "none" /\ ~\E tx \in sent : tx.channel = c
        /\ sent' = sent \cup {[channel |-> c, kind |-> ClosingTx(c, e)]}
        /\ cached' = [cached EXCEPT ![s] = e]
        /\ UNCHANGED <<onChain, changes, elapsed, fed, edges, channels, filling, feed, behind, untold>>
--------------------------------------------------------------------------------
(* The consumer of channel events, and the part as a whole *)

EntryOf(c) == GetChannelById(c)
Opened(e) == e # NoEntry /\ e.status = "Open"

ChainStep(c) == (Funded(c) \/ Redeemed(c) \/ CounterpartyCloses(c) \/ NoticePeriodEnds(c)) /\ UNCHANGED streamVars

FeedStep ==
    \/ /\ \/ \E c \in Channels : ChannelReceived(c) \/ ChannelNotStored(c)
          \/ FeedReconnects \/ ChannelCached
       /\ UNCHANGED streamVars
    \/ ChannelTold

CacheStep(s) ==
    /\ \/ FillBegins(s) \/ Dropped(s)
       \/ \E l \in filling : l.slot = s /\ FillEnds(l)
    /\ UNCHANGED streamVars

CloserStep(c) ==
    /\ CloseChannel(c) \/ \E tx \in sent : tx.channel = c /\ (Executes(tx) \/ Reverts(tx))
    /\ UNCHANGED streamVars

SubscriberStep ==
    /\ ListState(edges) \/ Activate \/ (\E i \in listed : ReadState(i, EntryOf(i), Opened(EntryOf(i)))) \/ TakeEvent
    /\ UNCHANGED channelVars

ChannelStep ==
    \/ FeedStep \/ SubscriberStep
    \/ \E c \in Channels : ChainStep(c) \/ CloserStep(c)
    \/ \E s \in CacheSlots : CacheStep(s)

ChannelSpec == ChannelInit /\ StreamInit /\ [][ChannelStep]_<<channelVars, streamVars>>
--------------------------------------------------------------------------------
(* Properties *)

ChannelTypeOK ==
    /\ onChain \in [Channels -> ChannelEntry \cup {NoEntry}] /\ channels \in [Channels -> ChannelEntry \cup {NoEntry}]
    /\ changes \in 0..MaxChanges /\ elapsed \subseteq Channels /\ edges \subseteq Channels
    /\ cached \in [CacheSlots -> ChannelEntry \cup {NoEntry, NotCached}]
    /\ feed.at \in {"idle", "stored", "cached"}
    /\ behind \subseteq CacheSlots /\ untold \subseteq Channels

\* Between updates a cached channel is the stored one, unless the lookup that
\* cached it had read the backend before an update overtook it.
CachedChannelsAreStored ==
    feed.at # "stored" =>
        \A s \in CacheSlots : cached[s] # NotCached /\ s \notin behind => cached[s] = channels[s[2]]

\* A consumer that has caught up was last told what the backend holds about
\* every channel it was told about or that is open, unless the events were lost
\* to it or the last change is one that raises none.
ChannelViewIsCurrent ==
    CaughtUp /\ feed = Waiting =>
        \A c \in Channels :
            (view[c] # Untold \/ Opened(channels[c])) => view[c] = channels[c] \/ c \in missed \/ c \in untold

ClosedOnChain(c) == onChain[c] # NoEntry /\ onChain[c].status = "Closed"

\* Closing is retried until it is done: while close_channel() is called again
\* and again, an outgoing channel that exists ends closed, unless the node's
\* copy stays behind for good: a load that was overtaken keeps being read, or
\* the backend could not store an update.
RepeatedCloseCloses ==
    \A c \in Outgoing :
        (<>[](<<"channel_by_id", c>> \notin behind /\ channels[c] = fed[c])) =>
            [](onChain[c] # NoEntry => <>(ClosedOnChain(c)))
=============================================================================
