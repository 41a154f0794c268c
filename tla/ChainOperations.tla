--------------------------- MODULE ChainOperations ---------------------------
(***************************************************************************)
(* The connector's calls that ask Blokli before they act: setting up the   *)
(* node (deploy_safe, register_safe, announce), withdrawing, opening and   *)
(* funding a channel, waiting for a Safe or a key binding, and the         *)
(* read-only queries of the service registry (reader.rs).                  *)
(*                                                                         *)
(* A call reads what Blokli has indexed, which is behind the chain, and    *)
(* sends a transaction; several calls may overlap.  A call that its first  *)
(* check refuses changes nothing and is left out.  The calls other than    *)
(* deploy_safe and withdraw also need a connection (see ChainHealth).      *)
(***************************************************************************)
EXTENDS Naturals, FiniteSets

CONSTANTS
    Users,           \* concurrent callers
    SafeIds,         \* addresses of Safes
    Multiaddrs,      \* addresses to announce
    StartBalance,    \* tokens of the node
    MaxTxs,          \* bound: transactions sent
    Registrations,   \* registry entries: [type, node, live, valid]
    Nobody           \* no Safe, no filter

ASSUME OperationsAssumption == StartBalance \in Nat /\ MaxTxs \in Nat /\ IsFiniteSet(Registrations)

VARIABLES
    world,   \* external: the chain
    index,   \* external: what Blokli has indexed of it
    user,    \* the running call of each user
    txs,     \* transactions sent and not yet confirmed
    sends,   \* number of transactions sent
    waiter,  \* a running await_safe_deployment or await_key_binding
    blind,   \* ghost: kinds of calls whose question came too early to see an earlier one
    done,    \* ghost: how often each kind took effect
    stored,  \* external: the registry entries Blokli has
    failing  \* external: Blokli does not answer

operationVars == <<world, index, user, txs, sends, waiter, blind, done, stored, failing>>
setupVars == <<world, index, user, txs, sends, blind, done>>

Kinds == {"deploy", "register", "announce", "withdraw", "open", "fund", "list", "relist", "delist"}
NoOp == [kind |-> "none", safe |-> Nobody, addrs |-> {}, fee |-> FALSE]
NoWait == [pc |-> "idle", want |-> <<"key", Nobody>>, feed |-> {}, answer |-> Nobody]

OperationsInit ==
    /\ world = [safes |-> {}, registered |-> Nobody, bound |-> FALSE, addrs |-> {},
                balance |-> StartBalance, stake |-> 0, typed |-> FALSE, service |-> 0]
    /\ index = world
    /\ user = [u \in Users |-> NoOp]
    /\ txs = {} /\ sends = 0 /\ waiter = NoWait
    /\ blind = {} /\ done = [k \in Kinds |-> 0]
    /\ stored \in SUBSET Registrations /\ failing \in BOOLEAN
-----------------------------------------------------------------------------
(* Calls that send a transaction. *)

DeployedSafe(address, by) == [id |-> address, deployer |-> by]

\* The Safes that this node deployed.
Own(safes) == {s \in safes : s.deployer = "me"}

\* Mutant: the fee is added whether the account exists or not.
FeeAlways == TRUE
\* The key binding fee is due when the account does not exist.
FeeDue == ~index.bound

\* An earlier call of the kind is under way, or has not been indexed yet.
Unseen(kind) ==
    \/ \E u \in Users : user[u].kind = kind
    \/ \E tx \in txs : tx.kind = kind
    \/ kind = "deploy" /\ Own(world.safes) # Own(index.safes)
    \/ kind = "announce" /\ world.bound # index.bound

\* A call has asked its first question and goes on.
Begins(u, op) ==
    /\ user[u] = NoOp /\ sends < MaxTxs
    /\ user' = [user EXCEPT ![u] = op]
    /\ blind' = IF Unseen(op.kind) THEN blind \cup {op.kind} ELSE blind
    /\ UNCHANGED <<world, index, txs, sends, waiter, done, stored, failing>>

Call(kind) == [NoOp EXCEPT !.kind = kind]

DeploySafe(u) == Own(index.safes) = {} /\ Begins(u, Call("deploy"))

RegisterSafe(u, s) == index.registered = Nobody /\ Begins(u, [Call("register") EXCEPT !.safe = s])

\* Nothing is left to do if all the addresses are announced.
Announce(u, addrs) ==
    /\ ~(index.bound /\ addrs \subseteq index.addrs)
    /\ Begins(u, [Call("announce") EXCEPT !.addrs = addrs, !.fee = FeeDue])

Withdraw(u) == Begins(u, Call("withdraw"))
OpenChannel(u) == Begins(u, Call("open"))
FundChannel(u) == Begins(u, Call("fund"))
RegisterService(u) == Begins(u, Call("list"))
UpdateService(u) == Begins(u, Call("relist"))
DeregisterService(u) == Begins(u, Call("delist"))

\* get_service_type_config: what Blokli knows of the type.
ServiceTypeKnown == index.typed

\* The second check, by another query or from the cache.
Possible(op) ==
    /\ op.kind = "deploy" => index.balance >= 1
    /\ op.kind = "register" => \E s \in index.safes : s.id = op.safe
    /\ op.kind = "fund" => index.stake > 0
    /\ op.kind \in {"list", "relist"} => ServiceTypeKnown

\* send_tx: only the first of the addresses is announced.
SendTx(op) ==
    /\ sends' = sends + 1
    /\ \E a \in IF op.addrs = {} THEN {{}} ELSE {{x} : x \in op.addrs} :
        txs' = txs \cup {[nr |-> sends, kind |-> op.kind, safe |-> op.safe, addrs |-> a, fee |-> op.fee]}

Submit(u) ==
    LET op == user[u] IN
    /\ op # NoOp /\ sends < MaxTxs
    /\ user' = [user EXCEPT ![u] = NoOp]
    /\ \/ Possible(op) /\ SendTx(op)
       \/ UNCHANGED <<txs, sends>>                   \* refused, or a query failed
    /\ UNCHANGED <<world, index, waiter, blind, done, stored, failing>>

\* What a service burns is left out.
Cost(tx) == IF tx.kind \in {"deploy", "withdraw", "open", "fund"} \/ tx.fee THEN 1 ELSE 0

\* The contracts: what a transaction does when it is mined.
Effect(tx) ==
    CASE tx.kind = "deploy" ->
            {[world EXCEPT !.safes = @ \cup {DeployedSafe(i, "me")}, !.balance = @ - Cost(tx)] :
                i \in SafeIds \ {s.id : s \in world.safes}}
      [] tx.kind = "register" ->
            IF world.registered = Nobody THEN {[world EXCEPT !.registered = tx.safe]} ELSE {}
      [] tx.kind = "announce" ->
            IF tx.fee \/ world.bound
            THEN {[world EXCEPT !.bound = TRUE, !.addrs = @ \cup tx.addrs,
                                !.balance = @ - Cost(tx)]}
            ELSE {}
      [] tx.kind = "list" -> IF world.typed /\ world.service = 0 THEN {[world EXCEPT !.service = 1]} ELSE {}
      [] tx.kind = "relist" -> IF world.service > 0 THEN {[world EXCEPT !.service = 2]} ELSE {}
      [] tx.kind = "delist" -> IF world.service > 0 THEN {[world EXCEPT !.service = 0]} ELSE {}
      [] tx.kind = "withdraw" -> {[world EXCEPT !.balance = @ - Cost(tx)]}
      [] tx.kind \in {"open", "fund"} -> {[world EXCEPT !.balance = @ - Cost(tx), !.stake = @ + 1]}

TxExecutes(tx) ==
    /\ tx \in txs /\ txs' = txs \ {tx}
    /\ world.balance >= Cost(tx)
    /\ world' \in Effect(tx)
    /\ done' = [done EXCEPT ![tx.kind] = IF tx.kind = "announce" /\ ~tx.fee THEN @ ELSE @ + 1]
    /\ UNCHANGED <<index, user, sends, waiter, blind, stored, failing>>

\* Rejected, reverted, or the inner transaction of the Safe failed.
TxReverts(tx) ==
    /\ tx \in txs /\ txs' = txs \ {tx}
    /\ UNCHANGED <<world, index, user, sends, waiter, blind, done, stored, failing>>

OtherDeploys ==
    /\ Cardinality(world.safes) < Cardinality(SafeIds)
    /\ \E i \in SafeIds \ {s.id : s \in world.safes} :
        world' = [world EXCEPT !.safes = @ \cup {DeployedSafe(i, "other")}]
    /\ UNCHANGED <<index, user, txs, sends, waiter, blind, done, stored, failing>>

\* The owner of a service type registers it.
OtherRegistersType ==
    /\ ~world.typed /\ world' = [world EXCEPT !.typed = TRUE]
    /\ UNCHANGED <<index, user, txs, sends, waiter, blind, done, stored, failing>>

\* Blokli catches up, and tells the deployments to who listens.
Indexes ==
    /\ index # world /\ index' = world
    /\ waiter' = IF waiter.pc = "listening"
                 THEN [waiter EXCEPT !.feed = @ \cup (world.safes \ index.safes)] ELSE waiter
    /\ UNCHANGED <<world, user, txs, sends, blind, done, stored, failing>>

\* What becomes of the calls, and what else happens meanwhile.
SettleStep ==
    \/ \E u \in Users : Submit(u)
    \/ \E tx \in txs : TxExecutes(tx) \/ TxReverts(tx)
    \/ Indexes
-----------------------------------------------------------------------------
(* Waiting: ask once, then listen. *)

Wants == ({"address"} \X SafeIds) \cup ({"deployer"} \X {"me", "other"})

\* Mutant: the first deployment is taken, whosever it is.
AnyDeployment(want, s) == TRUE
\* SafeSelector::satisfies.
Satisfies(want, s) == want[2] = (IF want[1] = "address" THEN s.id ELSE s.deployer)

Answered(s) == waiter' = [waiter EXCEPT !.pc = "answered", !.feed = {}, !.answer = s]

\* What Blokli answers about a Safe.
SafeInfo(want) == {s \in index.safes : want[2] \in {s.id, s.deployer}}

AwaitSafeDeployment(want) ==
    /\ waiter.pc = "idle"
    /\ \/ \E s \in SafeInfo(want) : waiter' = [NoWait EXCEPT !.pc = "answered", !.want = want, !.answer = s]
       \/ SafeInfo(want) = {} /\ waiter' = [NoWait EXCEPT !.pc = "asked", !.want = want]
    /\ UNCHANGED <<setupVars, stored, failing>>

AwaitKeyBinding ==
    /\ waiter.pc = "idle"
    /\ waiter' = [NoWait EXCEPT !.pc = IF index.bound THEN "answered" ELSE "asked"]
    /\ UNCHANGED <<setupVars, stored, failing>>

\* What is deployed between the question and the subscription is not told.
AwaitSubscribes ==
    /\ waiter.pc = "asked" /\ waiter' = [waiter EXCEPT !.pc = "listening"]
    /\ UNCHANGED <<setupVars, stored, failing>>

\* The feed of accounts is filtered and starts with what is there.
AwaitHears ==
    /\ waiter.pc = "listening"
    /\ \/ waiter.want[1] = "key" /\ index.bound /\ Answered(Nobody)
       \/ \E s \in waiter.feed :
            /\ waiter.want[1] # "key"
            /\ IF Satisfies(waiter.want, s) THEN Answered(s)
               ELSE waiter' = [waiter EXCEPT !.feed = @ \ {s}]
    /\ UNCHANGED <<setupVars, stored, failing>>

\* The timeout, a closed feed, or an update that cannot be converted.
AwaitGivesUp ==
    /\ waiter.pc = "listening" /\ waiter' = NoWait
    /\ UNCHANGED <<setupVars, stored, failing>>

WaitStep ==
    \/ \E want \in Wants : AwaitSafeDeployment(want)
    \/ AwaitKeyBinding \/ AwaitSubscribes \/ AwaitHears \/ AwaitGivesUp
-----------------------------------------------------------------------------
(* The service registry, read without a connection. *)

Selectors == [type : {Nobody} \cup {r.type : r \in Registrations},
              node : {Nobody} \cup {r.node : r \in Registrations}, live_only : BOOLEAN]

\* Mutant: a selector by node asks for everything of the node's name as a type.
NodeIgnored(sel) == IF sel.type = Nobody /\ sel.node # Nobody THEN [type |-> sel.node, node |-> Nobody]
                    ELSE [type |-> sel.type, node |-> sel.node]
\* to_blokli_service_selector: by both, by type, by node, or any.
ToBlokliSelector(sel) == [type |-> sel.type, node |-> sel.node]

\* What Blokli finds; a live-only query has checked the Safe registry.
Finds(q, live) ==
    {r \in stored : q.type \in {Nobody, r.type} /\ q.node \in {Nobody, r.node} /\ (live => r.live)}

\* Its type, node, Safe, metadata and both timestamps are all readable.
Converts(r) == r.valid

\* select_service_entries: an entry that cannot be converted is skipped.
QueryServiceEntries(sel) ==
    {r \in Finds(ToBlokliSelector(sel), sel.live_only) :
        Converts(r) /\ sel.type \in {Nobody, r.type} /\ sel.node \in {Nobody, r.node}}

\* A stream has no place for an error and ends empty.
StreamServices(sel) == IF failing THEN {} ELSE QueryServiceEntries(sel)

Failed == [is |-> "error", count |-> 0]
\* Mutant: the entries of the stream are counted.
CountOfStream(sel) == [is |-> "ok", count |-> Cardinality(StreamServices(sel))]
\* Blokli counts, but cannot count live entries.
CountServices(sel) ==
    IF failing THEN Failed
    ELSE [is |-> "ok", count |-> Cardinality(IF sel.live_only THEN QueryServiceEntries(sel)
                                             ELSE Finds(ToBlokliSelector(sel), FALSE))]
-----------------------------------------------------------------------------
(* Properties. *)

\* The node deploys a Safe and pays for its key binding once, save when a call
\* was made before an earlier one had been mined and indexed.
SetupDoneOnce == \A k \in {"deploy", "announce"} : done[k] > 1 => k \in blind

\* A wait ends with what was asked for, whatever else is deployed meanwhile.
AwaitedFits ==
    waiter.pc = "answered" =>
        IF waiter.want[1] = "key" THEN index.bound
        ELSE waiter.answer \in index.safes /\ waiter.want[2] \in {waiter.answer.id, waiter.answer.deployer}

\* Reading the registry gives exactly the readable entries asked for; their
\* number differs only by unreadable ones, and an unreachable Blokli is an
\* error, never an empty registry (reader.rs:105).
QueriesAreExact ==
    \A sel \in Selectors :
        LET asked == {r \in stored : /\ sel.type # Nobody => r.type = sel.type
                                     /\ sel.node # Nobody => r.node = sel.node
                                     /\ sel.live_only => r.live}
        IN  /\ failing => CountServices(sel).is = "error"
            /\ ~failing => /\ StreamServices(sel) = {r \in asked : r.valid}
                           /\ CountServices(sel).count - Cardinality(StreamServices(sel))
                                = IF sel.live_only THEN 0 ELSE Cardinality({r \in asked : ~r.valid})
=============================================================================
