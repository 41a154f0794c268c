# hopr-impls: a TLA+ verification project

This directory holds TLA+ specifications of `hopr-impls`, the crates that
implement the interfaces of a HOPR node: keeping tickets, talking to the
blockchain, connecting to peers, and ranking paths. The specifications are
checked by TLC on small instances, and their main safety properties are proved
by TLAPS for every value of the constants. `PROJECT.json` lists the runs, the
correspondence with the source line by line, the hazards, the findings and the
theorems. Paths below are relative to `src/`.

## 1. The system and its parts

A HOPR node forwards packets. Each forwarded packet carries a ticket drawn on a
payment channel: a number (the ticket index, unique within the channel's epoch)
and an amount. Some tickets win and are redeemed on chain. Channels are opened,
closed and opened again with the next epoch on the blockchain, which the node
sees through an indexer called Blokli.

| Part (source) | State | Operations | How it interacts |
|---|---|---|---|
| Outgoing indices (`ticket-manager/src/{factory,utils,chain_sync}.rs`) | atomic counter and dirty flag per channel and epoch, set of removed keys, persistent store | take the next index, save, synchronise at start-up | packet pipelines call it concurrently; a periodic task saves; the chain gives the floor |
| Incoming tickets (`ticket-manager/src/manager.rs`, `backend/`, `traits.rs`) | per channel: a stored queue, a value cache, statistics, a redeem lock | insert, redeem stream, neglect, synchronise, read values | pipelines insert, redemption awaits the connector while no lock is held |
| Ticket redemption (`connector/src/connector/tickets.rs`) | none | check a ticket against the channel, build and send the transaction | called by the redeem stream, uses the sequencer |
| Transaction sequencer (`connector/src/connector/sequencer.rs`, `errors.rs`) | queue, nonce per signer, nonce gaps, tracking ids | enqueue, the task's loop | everything that writes to the chain goes through it |
| Connection and health (`connector/src/connector/mod.rs`) | an atomic health state, an abort handle, subscription task | connect, the task, periodic checks, drop | all operations check the health first |
| Subscription handlers and caches (`mod.rs`, `accounts.rs`, `channels.rs`, `keys.rs`, `backend/`) | caches over a backend, channel graph | apply account, channel and parameter updates; look up | handlers write while readers fill the caches |
| Chain events (`events.rs`) and services (`services.rs`) | broadcast channel, records of replayed entries | subscribe with a snapshot; suppress replays | feeds the rest of the node |
| Peer discovery (`transport/p2p/src/behavior/discovery.rs`) | connection counts, heap of dials, its mirror, backoff, addresses | swarm events, poll | driven by libp2p's swarm |
| Swarm loop, liveness, peer store (`transport/p2p/src/`) | flag per peer, addresses per peer | connection events, open stream, stream polls | the swarm loop and stream users share the flags |
| Network graph (`graph/src/`) | nodes, edges, observations | record measurements, find paths | probes write, path search reads |
| Cover traffic (`ct/`) | a shuffle cache | timed streams of probes | reads the graph |
| Session forwarder (`session-server-forwarder/src/`) | configuration | admit, allow, forward | exit node |

What is hard in this code, and what correctness means for it:

- *Outgoing indices.* Lock-free counters, a dirty flag cleared in three steps,
  a process that may stop before it saves. Correct: no index is used twice, none
  is below what the chain has already redeemed, and a successful save is durable.
- *Incoming tickets.* A ticket is peeked, the lock is released, the chain is
  awaited, and the ticket is popped if it is still there; meanwhile others
  insert and neglect. Correct: no winning ticket is lost, its value is counted
  once, the order of indices is kept (the chain refuses lower ones later), and
  streams end.
- *Sequencer.* Blokli's answer, a missing answer, a deduplicated retry and a
  lost transaction all look alike. Correct: no nonce is skipped, nonces follow
  the order of requests, and a gap that arises nevertheless is closed.
- *Connection and health.* One atomic is written by `connect()`, by the tasks of
  all its attempts and by a periodic check. Correct: the status goes through a
  life cycle a reader can rely on, at most one task is live, and a feed that
  stops working or recovers shows in the status.
- *Caches, events, registry.* Handlers update caches and backend in several steps
  while readers fill the same caches, writes fail, feeds reconnect and consumers
  subscribe at any time. Correct: a cache answers as the backend does, and who
  has caught up with the events knows the state.
- *Transport.* Dials, incoming connections, closures and dial errors of one peer
  come in any order. Correct: no announced peer is forgotten, all views of a
  peer agree, and its streams end with its connection.
- *Graph.* Probes are answered after the graph changed, and name their path by
  values that may collide. Correct: a report lands on the edges its path was
  about, scores follow the evidence, and the path search is exact.
- *Session exit.* Names resolve differently from one step to the next. Correct:
  nothing is contacted that the allow list does not cover, the terms of a session
  do not depend on how its target is spelled, and the loopback service ends.

## 2. Modules

| Module | Models | Composed or checked by |
|---|---|---|
| `OutgoingIndices` | factory, index cache, index store, chain | `MCOutgoingIndices`, `OutgoingIndices_proofs` |
| `IndexAllocator` | abstract: which indices may be given, in one life of the process and after a restart | implemented by `OutgoingIndices` |
| `TicketManager` | manager, value-cached queue, redeem streams, chain | `MCTicketManager`, `MCTickets`, `TicketManager_proofs` |
| `TicketLedger` | abstract: when a ticket is held, returned and redeemed, over all lives of the process | implemented by `TicketManager` |
| `TicketStores` | the redb store and the in-memory store behind their traits | `MCTickets` |
| `TransactionSequencer` | the sequencer's queue and task, Blokli's mempool | TLC directly, `TransactionSequencer_proofs` |
| `ChainHealth` | `connect()`, subscription tasks, periodic check, health | `MCNetwork`, `ChainHealth_proofs` |
| `HealthLifecycle` | abstract: which status may follow which | implemented by `ChainHealth` |
| `Discovery` | handlers of the dial scheduler | extended by `Transport` |
| `Transport` | swarm, discovery, event loop, peer store, liveness flags, streams | `MCNetwork`, `Transport_proofs` |
| `EventStream` | broadcast of chain events and one consumer with its snapshot | extended by the next three |
| `AccountState` | account handler, backend with its index tables, four caches, readers | `MCConnector` |
| `ChannelState` | channels on chain, their handler, two caches, closing | `MCConnector` |
| `ChainValues` | chain info cache, ticket parameters, their handler | `MCConnector` |
| `ServiceRegistry` | registry, read and subscription, suppression, writes | `MCConnector` |
| `ChainOperations` | calls that ask Blokli and then act, waits, registry queries | `MCConnector` |
| `EdgeWeight` | observations of an edge and its score | extended by `ChannelGraph` |
| `PathSearch` | the iterator over simple paths | `MCGraph`, instantiated by `ChannelGraph` |
| `ChannelGraph` | nodes, edges, slots, reports about paths in flight | `MCGraph` |
| `Probing` | both probers, their batches and priorities | `MCGraph` |
| `TargetPattern` | names, patterns and rules as operators | extended by `Forwarder` |
| `Forwarder` | one session at the exit: admission, allow list, connection, loopback | `MCGraph` |

The `MC` modules put parts together that share no state. Their variable `part`
is chosen initially and a behaviour explores that part only, so a run is the
union of the state spaces of its parts and not their product. Parts that do
share state are composed by EXTENDS: the swarm calls discovery's handlers, and
accounts, channels and parameters feed one event stream.

**Named causes.** Several properties of the connector and the graph hold only
until something happens that the code does not guard against. The model then
records that cause in a history variable (`excused`, `behind`, `untold`,
`missed`, `outdated`, `blind`, `diverged`, `parted`), and the property says: the
two sides agree, or one of the named causes occurred. The action that records a
cause names it. This keeps the property as strong as the code allows and makes
its exceptions explicit.

Each module keeps the names of the source for its variables and actions. A
definition whose comment begins with `Mutant` is not part of the specification:
it is a wrong variant of the definition after it, used to see that a property
fails when the code is wrong.

### OutgoingIndices

A counter is an `Arc<OutgoingIndexEntry>` and is named by its key (channel and
epoch) and a generation, because a saver may hold an `Arc` that the map has
dropped. The atomic operations of `increment_at_least` (`fetch_add`,
`fetch_max`, `fetch_add`, setting the flag) are separate actions, so any
interleaving of callers, savers and synchronisations that the locks allow is
explored. The DashMap guard that a caller holds during `increment_at_least` is
`Holding`. A save is split at every read of the counter, write to the store and
change of the flag, and each write may fail. `SyncFromOutgoingChannels(purged,
loaded)` is one action for a whole synchronisation or for one that a store
error stopped after `purged` and `loaded`. `Restart` may happen anywhere and
keeps only the store and the chain.

Taken together: looking up a channel and calling with it are two steps, so a
call may use a channel entry of an epoch that is over. Amounts are reduced to
what decides whether a ticket can be created: price, position, winning
probability and balance.

What all this amounts to for the node is `IndexAllocator`: an index is given that
was not given before in this life and was not made durable in any; a save makes
indices durable that were given; a restart forgets what was given. Its state is
the history of `OutgoingIndices` (`given <- issued`, `over <- retired`,
`durable <- promised`), and its steps are those of the code that end something:
the return of an index, the end of a save, a restart. All others are not seen.

### TicketManager

One channel is enough because channels share no state but the store's lock and
the map, which the model has. A `ChannelTicketQueue` (value cache, statistics,
redeem lock) is named by its generation, because a stream can outlive the map
entry it came from. The queue's content is a set ordered by epoch and index,
as the keys of the redb table are. `Peek`, `RedeemTicket` and
`CompleteRedemption` are the three parts of the stream's loop between which
locks are released; a stream may be dropped between them. The chain's answer is
nondeterministic: redeemed, which lowers the channel's stake; a rejection, which
the connector gives for an index or an epoch that is over (`Invalid`), for a stake
below the ticket's value (`Unfunded`) and whenever the transaction or an action of
it is refused (`Refused`); or an error after which the transaction may or may not
have landed. The channel is opened and funded with one of `Stakes`. With
`StoreMayFail`, drains, pushes, pops and synchronisations fail at every point the
code propagates an error. One of these points is between a pop that removed a
ticket and the look at the next one, which the value cache takes before it
returns: then the ticket is gone and the caller has an error (`PopFails`). A
`neglect_tickets` that fails also drops the list of what it neglected so far: those
tickets are counted and not returned. `forsaken` is a ghost for the tickets that
were given up before: refused, found too low, or reached by a neglection.

What this amounts to for the node is `TicketLedger`: a ticket that was received
is held or at once returned, held tickets are returned from the front, and the
chain takes a ticket at most once, after it was received, and never one that
would make a held ticket of the same epoch worthless. The ledger reads
`held <- table`, `returned <- settled` and `redeemed <- landed`, and knows
nothing of streams, locks, generations and restarts. It is implemented by a
manager whose tickets arrive in order and whose store does not fail; finding 3
is a behaviour that is not one of the ledger, and `NoTicketLost` says what
failures may cost: a ticket that is worth nothing any more, or one that was given up
before.

### TransactionSequencer

The task takes a request, queries chain information and the pending count,
synchronises the nonce and submits. Blokli and the mempool are external and
modelled from what `sequencer.rs` and `errors.rs` say of their answers. Four
abstractions are worth stating:

- Blokli's answer and the task's reaction are one action. The reaction touches
  only the task's own maps, and what others can do in between (mining, losing,
  expiring) could as well happen before the answer or after the reaction.
- A tracking id is the signer and nonce of its transaction, and is removed from
  `issued_tx_ids` when the transaction leaves the mempool, as Blokli never hands
  it out again.
- `nonce_gap_tolerance` is taken to be positive; "a gap is old" is a Boolean
  that the passage of time sets.
- `unseen` is a ghost: the signers for which an id that is in flight has expired
  from `issued_tx_ids` or was never in it because the answer got lost.

A restart of the process is not modelled: the sequencer starts with empty maps
and Blokli's count, as in `Init`, and a retry of an action that the previous
life submitted is then the case of the run `sequencer_lost_answer`.

### TicketStores

The same calls go to the redb store and to the memory store. A redb row is
bytes, which may be corrupted; a handle holds the database weakly and may
outlive it, or its table. Reading calls are operators compared in every state.
After a ticket is pushed twice, a row is corrupted or a handle outlives its
queue, the stores differ by construction and only redb is judged.

### ChainHealth and HealthLifecycle

An attempt is a number, and so is its task. `connect()` takes `&mut self`, so
attempts do not overlap, but the task of a failed attempt may run its last line
at any later time. The compare-and-exchange loops are single steps, since they
take effect on the value they were computed from. The quota is computed with the
code's rounding. `HealthLifecycle` is the abstract specification: `Begin`,
`Fail`, `Connect`, `Ready`, `Degrade`, `End`, `Drop`; the mapping takes
`connected` to `IsConnected`.

### Discovery and Transport

`Discovery` holds the handlers; `Transport` calls them. The swarm is external:
it hands an event to the behaviour and then to the loop before it does anything
else, so both handlers are one action. `awake`, `stream_waker` and `timer` are
who will poll the task next; `PollAnnounce` keeps the code's property that an
announcement which queues nothing ends the poll without asking the stream again.
Delays are abstracted to `FallsDue`. Streams are opened and accepted by other
tasks that share only the registry of flags. Building the swarm and its
listeners is left out.

### EventStream, AccountState, ChannelState, ChainValues

A handler is split where others can see the state in between: caches first, then
backend, then events for accounts; backend, caches, events for channels. A
lookup that misses reads the backend in one step and fills the cache in another.
The broadcast channel overwrites its oldest event. A feed delivers the current
state of an entry, and may skip intermediate ones when it reconnects.
`CloseChannel` decides from the cached entry, and the chain executes or reverts
the transaction later. Assumed of the environment: ticket parameters are sent
with their current value first, and the broadcast has room for one event in the
runs (1024 in the code), which makes the overflow happen.

### ServiceRegistry and ChainOperations

The registry is read, then subscribed to; the subscription replays what it finds
then. An update carries `replay`, which only the property sees. `ChainOperations`
has two users whose calls overlap, an index that lags behind the chain, and a
waiter. The selectors `NodeAddress` and `Owner` are left out of the waits, and
the burn that pays a service registration is, too.

### EdgeWeight, PathSearch, ChannelGraph, Probing

Ratios are whole numbers with `Unit` for 1.0, and the decay of the peak is a
table whose assumption states what the code's exponential satisfies: it starts at
one, falls, and halves over the window. Averages of latencies and of probe results
come from a library and are a moving average in whole numbers (`Average`, external).
`PathSearch` is the iterator with its explicit stack; the order of edges is
random in the code and any order in the model. `ChannelGraph` keeps stable
indices, slots derived from keys with collisions, and paths in flight; an update
of the two directions of an edge takes the lock twice and is two steps. The
weighted shuffle of `Probing` is any order, its weights are `Priority`.

### TargetPattern and Forwarder

A name is the sequence of its labels, so that case, root dots and names that look
like addresses are told apart without characters. One session is followed from
its admission to its end while `dns` changes between any two steps. The loopback
service is the reader and the writer with the SURBs between them. A read and a
write may fail at any time, and each ends its task with what it still had to do.
That a session which will get no more SURBs refuses a write is assumed of the
session, which is not part of the repository. Copying bytes between connected
sockets is left out.

## 3. Runs

| Run | Instance | Shows |
|---|---|---|
| `indices` | 1 channel, 2 epochs, 2 callers, 1 saver, failing writes, 1 restart, saves and calls kept apart | `NoIndexIssuedTwice`, `IndexNotBelowChannel`, `SavedIndicesAreDurable`, `ImplementsAllocator` |
| `indices_durable_race` | saves while indices are taken | finding: `SavedIndicesAreDurable` fails |
| `indices_stale_epoch` | 2 epochs, 2 callers | finding: `NeverReturnedAgain` fails |
| `tickets` | manager: 4 tickets in 2 epochs in index order, stakes of 3 and 6, 2 streams, neglect, 1 restart; stores: 4 tickets, 7 calls, 2 heaps | `UnrealizedValueExact`, `ValueAccounted`, `AnsweredIsHeadOrGone`, `InvalidOnlyIfSpent`, `OneStream`, `SyncLeavesRedeemable`, `ImplementsLedger`; `StoresAgree`, `FailuresLoseNoTicket` |
| `tickets_faulty` | 3 tickets in any order, 1 stream, the store may fail, 1 restart | `NoTicketLost`, `StreamsTerminate` |
| `tickets_out_of_order` | 4 tickets in any order | finding: `AnsweredIsHeadOrGone` fails |
| `tickets_lock_order` | synchronisation while in use | finding: `NoCircularWait` fails |
| `sequencer_gaps` | 1 signer, 3 nonces, a queue of 1, 1 lost transaction, expiring ids and nonces, a key used elsewhere | `NoNonceSkipped`, `BroadcastInOrder`, `GapsAreFilled` |
| `sequencer_lost_answer` | the node's own signer, nothing lost or expired | finding: `RetriesLeaveNoGap` fails |
| `network` | dials: 2 peers, 2 announcements of 4 kinds, 2 connections; streams: 1 peer, 1 slot; health: 2 attempts, 2 feeds | `PeersAreFollowed`, `StreamsEndWithConnection`, `KnownPeersAreDialed`, `AnnouncementsAreRead`; `OneLiveTask`, `ImplementsLifecycle`, `HealthFollowsFeeds` |
| `connector_state` | 2 accounts over 2 keys and 2 addresses; 1 incoming and 1 outgoing channel; 2 prices and probabilities; 2 registry entries of 1 type; 2 users with 2 safes | `CachesMatchBackend`, `ConsumersAreUpToDate`, `ValuesAreKnown`, `SuppressionIsExact`, `OperationsAreSound`, `WatchedChannelCloses` |
| `network_graph` | graph: 4 nodes, two of one slot, 3 calls; one edge: 4 measurements in 4 slices; every graph on 4 vertices with up to two costly edges, of which a path may afford one; 2 peers for 5 ticks; 11 configurations and targets in several spellings | `GraphIsConsistent`, `ReportsAreAttributedRight`, `DirectionsAgree`, `ScoresFollowEvidence`, `SearchIsExact`, `ProbesAreFair`, `SessionsFollowTheRules`, `LoopbackNeverStuck`, `LoopbackEchoesAll` |

All runs turn deadlock checking off: a node with every bound used up, every
ticket settled or every epoch over has nothing left to do.

**Bounds.** Two callers make every race on one counter, which is a property of
pairs. `MAX_TICKET_INDEX = 4` is above every index that `CounterCap = 3` allows to be
taken, so no index of the run is the saturated one, which the properties exempt.
Three indices let a process give one or lose it, the destination redeem up to it,
and two callers with the new channel entry then both lift the counter and still
get different indices. Once a channel was reopened the counters of its epochs stay
within two indices together (`ReopenedIsSmall`), since the second epoch is there
for the change of epochs and the first has explored the rest. One restart lets a
life save an index or lose it, and the next meet either. What larger indices and
the saturation add is covered by the theorems. The run leaves
the history `stored0` out of its view of a state: nothing the run checks and no
action reads it. Two epochs are what the dropping of the previous epoch's
counter and the draining of a queue need. Two streams are what the redeem lock
needs. The tickets include one below `MinAmount`, two redeemable ones of one
epoch and one of the next. The lower stake pays for some of them and not for all,
and a channel with the lower one may be funded up to the higher. A path that may
afford one of two costly edges is one that the search must cut when it meets the
second. Three nonces let a transaction be lost while a later
one is in flight and a third is sent; one signer is enough because no two
signers share any state but the queue, and a signer other than the node's own
covers the node's own, since the expiry of its nonce is optional. The run with a
lost transaction also contains those without.

Two peers are needed only for the queue of dials, so streams are explored with
one, and no property relates two streams. Two connections are one from each
side. Two attempts are a task that ends late and the connection it can disturb;
two feeds are one that works and one that does not (the code has six, all treated
alike). Two accounts with two keys and two addresses let keys and addresses
change hands in a cycle, and one slot of a cache is watched at a time because
slots do not influence each other. `Capacity = 1` makes the second unread event
push out the first. Four vertices hold every way in which a target lies before
another, and the longest path asked for has three edges. Two of the four graph
keys share a slot, and three calls are a removal, an arrival and a report. The
window of three slices with one recent one has a past to hide a collapse in.

The theorems of section 6 hold for every value of the bounds of the modules they
are about. Three properties have a theorem and no run of their own, since a run
checks a refinement close to them: `StoredIndicesNotReissued`
(`ImplementsAllocator` says it of what a successful save covered), `SingleEpoch`
and `LeaveInOrder` (`ImplementsLedger` implies them as long as the store does
not fail). The theorems need neither restriction.

**Switches.** `QuiescentSaves`, `InOrder`, `SyncConcurrently`, `StoreMayFail`,
`SharedKeys` and `MayForget` are constants that say what users and the
environment do. The runs that pass with one of them restricted state under which
discipline the property holds, and the run of the finding shows what happens
without it.

## 4. Fairness

- `StreamsTerminate` assumes that a consumer polls its stream and that the chain
  answers (weak fairness of the stream's steps), that a started
  `neglect_tickets` runs to its end (weak fairness), and that taking the write
  lock is not starved by repeated calls of `neglect_tickets` (strong fairness of
  `CompleteRedemption`): the lock is `parking_lot`'s, which is eventually fair.
- `GapsAreFilled` assumes that the runtime polls the task and that time passes
  (weak fairness), and strong fairness of three things the code leaves to others:
  callers keep sending new transactions of the signer, a query of the count that
  is tried again and again succeeds, and so does a broadcast. Without new
  transactions no gap is ever filled: the code looks for gaps only when it sends.
- `KnownPeersAreDialed` and `AnnouncementsAreRead` assume weak fairness of the
  executor (a woken task is polled), of the passing of delays, of the dial timer,
  of a dial's end (libp2p has a timeout) and of other activity of the swarm:
  `autonat` and `identify` are in the same behaviour and have timers of their
  own. The last is what makes `AnnouncementsAreRead` hold; discovery alone does
  not ask the stream again after an announcement that queues nothing.
- `HealthFollowsFeeds` assumes weak fairness of `connect()` (it has a timeout), of
  the tasks and of the periodic check of each task; feeds, events and callers owe
  nothing. It allows the task of a failed attempt to report its late end as the
  end of the present connection, because the code does.
- `WatchedChannelCloses` assumes strong fairness of the repeated call of
  `close_channel` and weak fairness of the chain, of the notice period, of the
  feed, of its handler and of loads; it claims nothing where the node's copy
  stays behind for good.
- `LoopbackNeverStuck` needs none: it says that the service can always take a step
  until it has ended, without waiting for an error, and every step brings it closer
  to its end. Its exception is a failed read: the reader has left, nobody empties
  the session's channel, and SURBs behind its data do not come in any more.
- `ProbesAreFair` bounds waiting in ticks and takes the age of a batch as whole
  ticks. The code takes `created_at` when it has computed the batch, a little after
  the tick; with a time to live of exactly a whole number of intervals, as the
  default is, a refresh may therefore come one tick later than the bound says.

## 5. Findings

1. `utils.rs:148` clears the dirty flag after the value was read and written. An
   index taken in between is marked dirty first and the mark is erased, so the
   next save skips the entry and reports success (`indices_durable_race`).
2. `factory.rs:143` drops the previous epoch's counter with the first index of an
   epoch. A caller that still holds the older channel entry recreates it and is
   given indices again, which `factory.rs:128` excludes (`indices_stale_epoch`).
   The channel is closed in that epoch, so such tickets are worth nothing.
3. `manager.rs:340-349` takes a ticket that is not at the head any more for a
   neglected one. A lower index inserted during the await has the same effect
   (`tickets_out_of_order`).
4. `manager.rs:489` and `manager.rs:147-207` lock the map entry and the store in
   opposite orders (`tickets_lock_order`).
5. `sequencer.rs:164` takes a retry for a new transaction if the answer to the
   first one was lost, and skips a nonce (`sequencer_lost_answer`). The gap is
   closed after `nonce_gap_tolerance`, which `sequencer_gaps` shows.

Observed while modelling and not stated as runs, in most cases because the
property that holds names the case as its exception:

- A push that the store refuses leaves its amount in the value cache
  (`backend/mod.rs:92`), and so does a ticket that replaces another with the same
  epoch and index (`redb.rs:195`); `UnrealizedValueExact` is therefore checked
  without store failures and with distinct indices. A synchronisation while a
  stream runs replaces the redeem lock and a second stream can start, so
  `OneStream` is claimed only without it.
- `redb.rs:213` commits a pop before it decodes the row, "so that we do not render
  the queue unusable", but all callers peek first, and peek fails for as long as
  the undecodable row is at the head. A pop that succeeds while the following
  peek of the value cache fails returns an error, and the caller never sees the
  ticket (`backend/mod.rs:96-105`); `NoTicketLost` says which tickets that may cost.
- When a read of the loopback service fails (`lib.rs:395-398`), its writer goes on
  with what is in the pipe and may wait for SURBs that lie behind data which nobody
  reads any more. `LoopbackNeverStuck` names the case.
- The task of a failed `connect()` may report its end after a new attempt began,
  and the new connection then stays `SubscriptionEnded` (`mod.rs:910`).
- Chain info that a query read before an update and cached after it has no expiry
  (`values.rs:36`); a channel entry loaded likewise stays until it expires.
- A consumer of chain events misses an event broadcast between the listing of the
  ids and the activation of its receiver, and one that is pushed out of the full
  channel, without notice (`events.rs:66`, `mod.rs:396`).
- An entry deregistered, or a type setting changed, between the read of the
  registry and the subscription stays with a consumer as it was read
  (`services.rs:249`).
- `announce` sends only the first address: with `{a, b}` to announce and `a`
  announced already it sends `a` again. Set-up calls repeated before the index
  caught up act, and pay, again. A deployment between the query and the
  subscription of `await_safe_deployment` is seen only if the feed replays it.
- With `probe_connected_only` the prober also emits peers that were never checked
  (`ct/full-network/src/discovery.rs:159`), although that comment and
  `ct/full-network/src/config.rs:53-55` say that only connected ones are probed.
- A rule for the name `1.1.` reads as the address `1.1` after the configuration is
  saved and loaded, and a rule whose name is written with two root dots loses
  another of them each time (`target_pattern.rs`). `ReadsDifferently` names both.

## 6. Proofs

Eight modules prove, for every set of channels, callers, savers, tickets,
streams, signers, peers, feeds, accounts, services, safes, graph keys, targets
and session configurations and for every bound:

| Theorem | Statement |
|---|---|
| `OutgoingIndices_proofs!TypeCorrect` | `Spec => []TypeOK` |
| `OutgoingIndices_proofs!IndexInvariant` | `Spec => []IndexInv` |
| `OutgoingIndices_proofs!IndexUniqueness`, `IndexLowerBound`, `StoredFloor` | `NoIndexIssuedTwice`, `IndexNotBelowChannel`, `StoredIndicesNotReissued` |
| `OutgoingIndices_proofs!SavedDurableCorrect` | `SavedIndicesAreDurable`, assuming `QuiescentSaves` (without it the property is false: finding 1) |
| `OutgoingIndices_proofs!AllocatorImplemented` | `Spec => ImplementsAllocator`: `OutgoingIndices` refines `IndexAllocator`, assuming `QuiescentSaves` |
| `TicketManager_proofs!TypeCorrect`, `SingleEpochCorrect`, `LeaveInOrderCorrect`, `SyncLeavesRedeemableCorrect` | `TypeOK`, `SingleEpoch`, `LeaveInOrder`, `SyncLeavesRedeemable`, without any restriction on failures, order or synchronisation |
| `TicketManager_proofs!OneStreamCorrect` | `OneStream`, assuming `~SyncConcurrently` |
| `TicketManager_proofs!NoTicketLostCorrect` | `NoTicketLost`, assuming that no two tickets share epoch and index |
| `TicketManager_proofs!AnsweredIsHeadOrGoneCorrect`, `InvalidOnlyIfSpentCorrect` | `AnsweredIsHeadOrGone`, `InvalidOnlyIfSpent`, assuming `InOrder` and `~SyncConcurrently` (finding 3 is the first without `InOrder`) |
| `TicketManager_proofs!ValueAccountedCorrect`, `UnrealizedValueExactCorrect` | `ValueAccounted`, `UnrealizedValueExact`, assuming in addition `~StoreMayFail` |
| `TicketManager_proofs!LedgerImplemented` | `Spec => ImplementsLedger`: `TicketManager` refines `TicketLedger`, assuming `InOrder`, `~SyncConcurrently` and `~StoreMayFail` |
| `TicketStores_proofs!FailuresLoseNoTicketCorrect`, `StoresAgreeCorrect` | `StoresSpec => []FailuresLoseNoTicket`, `StoresSpec => []StoresAgree` |
| `TransactionSequencer_proofs!TypeCorrect`, `NoNonceSkippedCorrect`, `BroadcastInOrderCorrect` | `TypeOK`, `NoNonceSkipped`, `BroadcastInOrder` |
| `ChainHealth_proofs!HealthTypeCorrect`, `OneLiveTaskCorrect` | `HealthTypeOK`, `OneLiveTask` |
| `ChainHealth_proofs!LifecycleImplemented` | `HealthSpec => ImplementsLifecycle`: `ChainHealth` refines `HealthLifecycle` |
| `Transport_proofs!TransportTypeCorrect`, `PeersAreFollowedCorrect`, `StreamsEndCorrect` | `TypeOK`, `PeersAreFollowed`, `StreamsEndWithConnection` |
| `Connector_proofs!AccountCachesCorrect`, `AnnouncementsCorrect` | accounts alone, all slots of the caches interleaved (`AccountSpec`): `AccountTypeOK`, `IndexesMatchScan`, `LookupsMatchBackend`; `AnnouncedAccountsAreKnown` |
| `Connector_proofs!ChannelCachesCorrect`, `ChannelViewCorrect` | channels alone (`ChannelSpec`): `ChannelTypeOK`, `CachedChannelsAreStored`; `ChannelViewIsCurrent` |
| `Connector_proofs!ConnectorInvariant` | `Spec => []ConnectorInv` for the module `MCConnector` |
| `Connector_proofs!CachesCorrect`, `ConsumersCorrect`, `ValuesCorrect`, `SuppressionCorrect`, `OperationsCorrect` | `CachesMatchBackend`, `ConsumersAreUpToDate`, `ValuesAreKnown`, `SuppressionIsExact`, `OperationsAreSound` |
| `Graph_proofs!DirectionsAgreeCorrect`, `ReportsAreAttributedRightCorrect`, `GraphIsConsistentCorrect`, `ProbesAreFairCorrect` | `DirectionsAgree`, `ReportsAreAttributedRight`, `GraphIsConsistent`, `ProbesAreFair` for the module `MCGraph` |
| `Graph_proofs!SearchIsExactCorrect` | `SearchIsExact` for the module `MCGraph`: the iterator yields every simple path of the wanted lengths within the budget once, and no other |
| `Graph_proofs!ScoresFollowEvidenceCorrect` | `ScoresFollowEvidence` for the module `MCGraph`, for every window, decay and sequence of measurements |
| `Graph_proofs!SessionsFollowTheRulesCorrect`, `LoopbackEchoesAllCorrect` | `SessionsFollowTheRules`, `LoopbackEchoesAll` for the module `MCGraph` |

Assumptions. Each module names what it assumes of its constants, next to their
declaration, and TLC evaluates it on the instance of every run. Most say only
that sets are not empty or finite, bounds natural, switches Boolean, tickets and
announcements well-formed, and that a name for "nothing" is not a thing
(`OutgoingIndicesAssumption`, `TicketManagerAssumption`, `TicketStoresAssumption`,
`TablesAssumption`, `SequencerAssumption`, `ChainHealthAssumption`,
`DiscoveryAssumption`, `TransportAssumption`, `AccountAssumption`,
`ChannelAssumption`, `ParamAssumption`, `RegistryAssumption`,
`OperationsAssumption`, `StreamAssumption`, `DecayAssumption`,
`ProbingAssumption`, `ForwarderAssumption`). Five say more. `TopicsAssumption`
keeps the names of accounts and channels apart, since the events of both go
through one stream. `GraphAssumption` says that a slot is never 0 and that the
longest loopback path fits the path id: `PathId` is a `[u64; 5]`, an unused slot
is 0, and a hash of a key that is 0 would read as the end of the path.
`PatternAssumption` says that neither `*` nor a network, which is written with a
slash, is made of the characters of a name (`target_pattern.rs`).
`PathSearchAssumption` says that an edge never makes a path cheaper, which is what
lets the iterator give up on a path that has spent its budget.
`EvidenceAssumption` says that a peak keeps at least half of its value for as long
as the window (its half-life is the window, `weight.rs`), and that `Unit` is so
fine that what decay leaves of a ratio of replies never rounds to none, which the
code's floating-point numbers are.

Sums of amounts, of costs and of slices are folds over sets. What the proofs need
of them (a sum over a
set with one more or one less element, and that it is a natural number) is proved
without an induction scheme: a set that is the smallest counterexample exists by
the well-foundedness of `Nat`, and removing an element of it gives a smaller one.

Arguments.

- *Indices.* `NoIndexIssuedTwice` speaks of indices already returned; the reason
  it holds is that the counter is ahead of every index returned or still on its
  way (`CounterAhead`), that two calls under way hold different indices
  (`TakenDistinct`), that a counter lifted to the channel's index stays there as
  long as its entry is locked (`LiftedCounter`), and that nothing happens before
  the first synchronisation of a life (`QuietUntilSynced`), which makes the stored
  floor `stored0` valid. Their conjunction `IndexInv` is inductive.
  `SavedIndicesAreDurable` needs `DurableInv`: all indices returned of a clean
  entry are below what is stored (`CleanIsStored`), what a saver read before it
  wrote is still the counter, because nobody takes an index while a save runs
  (`WritesAreCurrent`), and what it will promise is stored or among the entries it
  has yet to work on (`PromisesInHand`).
  `ImplementsAllocator` joins the two across lives. A new index is not durable
  because the counter is past all that was promised of its key; but it is so only
  for a channel that is open, and a caller may use an entry of a channel that has
  been closed meanwhile. `PromisedIsPast` therefore follows the entry from the
  look-up, where the channel is as the entry says, through the call: the counter
  was past the promises then, counters only grow, and no save ends while the call
  is under way.
- *Tickets.* `SingleEpoch` is inductive together with `KeysDistinct` (the redb
  table has one ticket per epoch and index): only then does a queue that is not
  empty have a next ticket, and what is popped comes before what stays.
  `OneStream` needs `LockInv`: with one queue per life, a stream that is not idle
  holds the lock of the current generation. `NoTicketLost` needs `OfferedInv`:
  what is in the table or inserted was offered before, and never for an epoch that
  the channel has not reached; with `ChainForward` a spent ticket stays spent. Of a
  ticket that a stream removes with its answer, `GivenUpInv` says that it is spent
  or was given up.
  `AnsweredIsHeadOrGone` needs `AnsweredInv`: the ticket a stream took with it
  still precedes the rest of its epoch when the answer comes, because offers
  arrive in order and no other stream pops. `InvalidOnlyIfSpent` looks at the
  chain: `LandedInv` says that its index comes from tickets that landed, and that
  a pending one below it is among them. `SyncLeavesRedeemable` needs `SyncInv`: a
  queue exists only after a synchronisation, a `neglect_tickets` that runs holds
  the present queue, and a synchronisation that reloads a queue has read its
  present value and epoch. `UnrealizedValueExact` is part of `ValueInv`: the
  cached value is the value of the table at the epoch of its head (`CacheInv`),
  what was received is in the table or counted as redeemed, neglected or rejected
  (`ValueAccounted`), and a ticket that was taken from a stream that waits for its
  answer was counted as neglected (`NeglectedInv`), so that the answer cannot make
  the count of neglected tickets negative. `ImplementsLedger` needs `LedgerInv`: the
  chain is past every ticket that landed, the ticket a stream waits for is in the
  table or was settled, and one that waits for its queue to be created is newer
  than all that is booked. A landing then comes after all earlier ones, by
  `AnsweredInv` before all that is held, and an answer for a ticket that is not
  in the table any more returns nothing.
- *Stores.* `FailuresLoseNoTicket` needs that tables hold rows and that the row of
  every ticket to be kept is among them (`TablesInv`, `KeptInv`). `StoresAgree`
  needs that no two channels share a heap and that heaps not yet allocated are
  empty (`HeapsInv`), and that, as long as no cause of divergence was recorded, a
  channel's heap holds each ticket of its table once and nothing else
  (`PairedInv`); the first row is then the smallest ticket of the heap, since keys
  and heap compare epoch and index alike.
- *Sequencer.* `NoNonceSkipped` needs to know where the local nonce stands:
  `NonceInv` says that for an undisturbed signer every transaction in flight that
  Blokli could deduplicate is in `issued_tx_ids` (`Seen`), that its nonces form an
  interval that starts at the mined count, and that neither the local nonce nor
  the nonce being submitted is beyond the end of it (`Contiguous`). A deduplicated
  answer is then recognised, and a broadcast can only extend the interval.
- *Health.* Whether a step is one of the life cycle depends on where `connect()`
  is: `HealthFitsPhase` gives the statuses possible in each of its phases, with
  and without a connection, and `AttemptsOrdered` says that an attempt under way
  was not stopped. A late task can turn `Connecting`, `Ready` and
  `SubscriptionDegraded` into `SubscriptionEnded` and nothing else (`CheckSteps`),
  which keeps the former. `OneLiveTask` needs that a connection attempt runs only
  without a connection.
- *Transport.* `KnownPeersAreInHand` is not inductive: an announcement of a peer
  with a backoff changes nothing. `DialsInHand` says why that is safe: a known
  peer without a connection has a backoff, and a peer with a backoff is queued,
  pending or being dialed; what is due is queued, what is queued has a backoff,
  and a connected peer has none. Each handler of the behaviour has a lemma of its
  own. `StreamsEndWithConnection` needs `FlagsRegistered`: a set flag is the
  registered one, so clearing it reaches all streams of the peer.
- *Caches.* A cached value is right because every way into the cache is. For
  accounts (`AccountInv`) the backend has the accounts of the chain but for the
  one being handled (`BackendFollowsChain`), a load that nothing overtook carries
  what the backend holds (`LoadsAreTrue`), and a cached slot holds what the
  backend does, or the account being handled, or is one the handler's last stage
  removes (`Replaced`), unless a recorded cause excuses it (`CachesAreTrue`). For
  channels (`ChannelInv`) the same is said of fills under way (`FillsAreTrue`) and
  of the slots (`SlotsAreTrue`); `ValueInv` and `ConfigInv` say it of the ticket
  parameters and of the registry's settings.
- *Consumers of events.* `AnnounceInv` and `ViewInv` follow one fact from the
  chain to its consumer: it is known, or on one of the stations before (in the
  snapshot that is being read, in the queue, in the handler that is about to
  send), or one of the named causes took it; where it is last decides what the
  consumer will know (`Reaches`, `IsTold`). `KnownInv` says it of the registry,
  whose consumer sees a read, a replay and updates: the last update under way
  carries the entry, and without one the consumer knows it. `ReplayInv` says that
  replays precede live updates and come once, and that the record of an entry is
  as it was read while its replay is pending, which is why a suppressed update is
  one the read had. `StreamInv` says that a part that is not being explored
  broadcasts nothing.
- *Operations.* The two users' calls interfere on the chain and through an index
  that lags: `OperationsInv` says that the index knows nothing that did not happen
  (`IndexIsBehind`), and that of the calls to deploy and of those to announce at
  most one is under way, made when nothing had been set up, unless one could not
  see another (`OneUnderWay`).
- *Graph.* `GraphInv` says that the parts of the graph fit together (`OkGraph`: a
  key's index names its vertex, a slot lists the indices of its keys, an edge has
  two ends), and that the two directions of an edge to this node differ by exactly
  the report that has been recorded on one of them (`Balanced`).
  `ReportsAreAttributedRight` needs to know what a path's slots lead to when its
  answer comes: `FlightInv` says that a path which lost no node and no edge is
  still there and that each edge credited so far was meant, or a node was removed
  and its slot shared. A slot leads to a node's own index or nowhere, so a path
  that resolves resolves to itself (`AlongIs`, `LoopEdges`, `TripEdges`).
  `GraphIsConsistent` uses that `Reachable` is the least closed set: an edge of a
  standing path starts in it.
- *Scores.* `ScoresFollowEvidence` compares a score with all that was ever heard of
  the edge, which `WeightInv` relates to what is stored. A link has samples exactly
  if it was probed (`LinksInv`). Nothing is counted ahead of time, and the peak was
  set or kept by the last report that expected something or by a later one
  (`WindowInv`), so that a window with anything in it has a peak that decay has not
  used up. As long as all reports show one ratio each slice shows it, and the peak
  is that ratio (`SteadyInv`): slices at one ratio add up to a window at that ratio,
  although the division rounds, and a decayed peak is never above it.
- *Path search.* `SearchIsExact` speaks of a search that is over; `SearchInv`
  describes it at every step: the nodes visited are a simple path
  (`OnSimplePath`), each frame of the stack holds edges from its node other than
  the one followed (`FramesAreOpen`), and `left` is what the budget leaves at each
  depth (`LeftIsExact`). Then what was yielded is all that is wanted but the paths
  that leave the explored one by an edge not yet tried (`YieldedIsRest`). A step
  takes the paths through one edge from those: it yields the one, keeps them ahead
  in a new frame, or drops them, and `Wanted` has none of those it drops. When the
  stack is empty nothing is ahead.
- *Probing.* `ProbesAreFair` bounds how long a peer waits. A peer of the batch was
  probed on the last tick, and one that may be probed and is not in it became so
  after the batch was computed, which is at most its time to live ago
  (`BatchInv`); the immediate prober has every such peer listed one tick after it
  became so and probes it on each later one (`ListedInv`).
- *Sessions.* `AddressInv` carries what the list has settled from one step to the
  next: while a session resolves, its addresses are those of a target given as an
  address, or the target has a name; while listed names are looked up, the target
  is not listed by its own name and an address is not listed literally; when it
  connects, every address is covered, and nothing takes an address out of
  `by_name`. The code compares names without their root dots, the property
  compares hosts, and the two agree for names that the list may hold
  (`SameHostNames`, `SameNamesHost`). For the terms, `PatternRead` describes what
  a rule that was loaded can hold: names in lower case and of the characters of a
  name. Such a pattern selects all spellings of a host or none (`MatchesSame`),
  and reads back as itself from what it displays as, since no kind of host looks
  like another (`HostReadBack`); the two exceptions are those of
  `ReadsDifferently`.
- *Loopback.* `LoopInv` keeps account of what came in so far (`Conserved`): of the
  SURBs each is still there or took an echo back, and of the data each is with the
  reader, in the pipe or echoed, as long as no write failed or was refused
  (`Broken`); what has not come in is the rest of the script. `InOrderly` says that a
  write is refused only when the last packet has come in and there were fewer SURBs
  than data, that a reader which ends without an error has passed on all there was,
  and that the writer ends with an empty pipe.

Only model-checked are the liveness properties `StreamsTerminate`,
`GapsAreFilled`, `KnownPeersAreDialed`, `AnnouncementsAreRead`,
`HealthFollowsFeeds` and `WatchedChannelCloses` (fairness is out of the prover's
reach), and `LoopbackNeverStuck` (it speaks of ENABLED).

## 7. Not modelled

Wording, logging, telemetry, formatting and conversions of wire types beyond what
they refuse; the ticket inspector and the graph renderer, which print;
cryptography of tickets and of sealed targets; the builder
of the swarm and its listeners (`swarm.rs:1-229`); copying between sockets in the
forwarder; methods that only delegate; a restart of the sequencer; the burn of a
service registration; libraries (redb, moka, DashMap, libp2p, Blokli) other than
through what the modelled code relies on. `components` in `PROJECT.json` gives
the reason for each part that is modelled partly or not at all.

## 8. Plan

A restart of the sequencer, and the composition of the redemption stream with
the sequencer: a redemption that is retried after its answer was lost.
