---------------------------- MODULE AccountState ----------------------------
(***************************************************************************)
(* The accounts of the connector: the subscription handler that stores     *)
(* every account update, the temporary database with its two index tables, *)
(* the four lookup caches, the readers that fill them, and the consumer of *)
(* announcements.                                                          *)
(*                                                                         *)
(* A cache slot is <<cache, key>>.  A reader that misses reads the backend *)
(* and stores the answer in a later step; the handler's own insertion does *)
(* not wait for it.  `excused` (history) holds the slots that may disagree *)
(* with the backend, each for a cause the handlers below name.             *)
(***************************************************************************)
EXTENDS EventStream, FiniteSets

CONSTANTS Ids,           \* key ids of accounts
          Keys, Addrs,   \* packet keys and chain addresses
          MaxUpdates,    \* bound on the account updates of the feed
          MaxLoads,      \* bound on the readers that wait for the backend
          None,          \* the answer "no such account", cached like any other
          Absent         \* nothing cached

Account == [key_id : Ids, public_key : Keys, chain_addr : Addrs, announced : BOOLEAN]

ASSUME AccountAssumption ==
    /\ Ids \subseteq Topics
    /\ None \notin Account \cup Ids \cup Keys \cup Addrs \cup {"announced"}
    /\ Absent \notin Ids \cup Keys \cup Addrs \cup {None}
    /\ MaxUpdates \in Nat

Slots == ({"id_to_key"} \X Ids) \cup ({"key_to_id"} \X Keys)
            \cup ({"chain_to_packet"} \X Addrs) \cup ({"packet_to_chain"} \X Keys)
MapperSlots == {s \in Slots : s[1] \in {"id_to_key", "key_to_id"}}

VARIABLES bound,     \* external: the accounts on chain
          updates,   \* account updates so far
          db,        \* the tables: accounts, address_to_id, key_to_id
          nodes,     \* the nodes of the channel graph
          cache,
          loads,     \* lookups between their backend read and their store
          handler,   \* the account handler: its step, the account, what it replaced
          excused,
          lost       \* (history) an account could not be stored

accountVars == <<bound, updates, db, nodes, cache, loads, handler, excused, lost>>

Idle == [at |-> "idle", account |-> None, old |-> None]

AccountInit ==
    /\ bound = [i \in Ids |-> None] /\ updates = 0
    /\ db = [accounts |-> [i \in Ids |-> None], address_to_id |-> [a \in Addrs |-> None],
             key_to_id |-> [k \in Keys |-> None]]
    /\ nodes = {} /\ cache = [s \in Slots |-> Absent] /\ loads = {} /\ handler = Idle
    /\ excused = {} /\ lost = FALSE

--------------------------------------------------------------------------------
(* The backend *)

\* Mutant: the references of the replaced account are left in the index.
InsertKeepsReferences(d, a) ==
    [accounts |-> [d.accounts EXCEPT ![a.key_id] = a],
     address_to_id |-> [d.address_to_id EXCEPT ![a.chain_addr] = a.key_id],
     key_to_id |-> [d.key_to_id EXCEPT ![a.public_key] = a.key_id]]

\* The account table, then both index tables: the references of the replaced
\* account go before those of the new one are written.
InsertAccount(d, a) ==
    LET old == d.accounts[a.key_id]
        forget(index, key) == IF old = None THEN index ELSE [index EXCEPT ![key] = None]
    IN  [accounts |-> [d.accounts EXCEPT ![a.key_id] = a],
         address_to_id |-> [forget(d.address_to_id, old.chain_addr) EXCEPT ![a.chain_addr] = a.key_id],
         key_to_id |-> [forget(d.key_to_id, old.public_key) EXCEPT ![a.public_key] = a.key_id]]

GetAccountById(d, i) == d.accounts[i]
GetAccountByKey(d, k) == IF d.key_to_id[k] = None THEN None ELSE d.accounts[d.key_to_id[k]]
GetAccountByAddress(d, a) == IF d.address_to_id[a] = None THEN None ELSE d.accounts[d.address_to_id[a]]

\* The in-memory backend has no index: it scans for a matching account.
ScanFor(d, field, value) ==
    LET found == {i \in Ids : d.accounts[i] # None /\ d.accounts[i][field] = value}
    IN  IF found = {} THEN None ELSE d.accounts[CHOOSE i \in found : TRUE]

\* What a slot holds of an account.
ValueFor(a, s) ==
    CASE s[1] = "key_to_id"       -> a.key_id
      [] s[1] = "packet_to_chain" -> a.chain_addr
      [] OTHER                    -> a.public_key

\* The account that a slot is about.
Found(d, s) ==
    CASE s[1] = "id_to_key"       -> GetAccountById(d, s[2])
      [] s[1] = "chain_to_packet" -> GetAccountByAddress(d, s[2])
      [] OTHER                    -> GetAccountByKey(d, s[2])

\* What the backend answers to the lookup that fills a slot.
Lookup(d, s) == IF Found(d, s) = None THEN None ELSE ValueFor(Found(d, s), s)
--------------------------------------------------------------------------------
(* Readers of the caches *)

SlotsOf(a) == {<<"id_to_key", a.key_id>>, <<"key_to_id", a.public_key>>,
               <<"chain_to_packet", a.chain_addr>>, <<"packet_to_chain", a.public_key>>}

\* A miss: the backend is read.  Concurrent misses of one slot share a load.
\* One that reads while the handler has filled the caches and not yet written
\* the account is late already.
LoadBegins(s) ==
    /\ cache[s] = Absent /\ Cardinality(loads) < MaxLoads
    /\ ~\E l \in loads : l.slot = s
    /\ loads' = loads \cup {[slot |-> s, value |-> Lookup(db, s),
                                overtaken |-> handler.at = "cached" /\ s \in SlotsOf(handler.account)]}
    /\ UNCHANGED <<bound, updates, db, nodes, cache, handler, excused, lost>>

\* The answer is stored, whatever was inserted meanwhile.
LoadEnds(l) ==
    /\ loads' = loads \ {l}
    /\ cache' = [cache EXCEPT ![l.slot] = l.value]
    /\ excused' = IF l.overtaken THEN excused \cup {l.slot} ELSE excused \ {l.slot}
    /\ UNCHANGED <<bound, updates, db, nodes, handler, lost>>

\* A failed read is reported by two caches and remembered as "no such account"
\* by the key mapper.
LoadFails(s) ==
    /\ s \in MapperSlots /\ cache[s] = Absent /\ ~\E l \in loads : l.slot = s
    /\ cache' = [cache EXCEPT ![s] = None]
    /\ excused' = excused \cup {s}
    /\ UNCHANGED <<bound, updates, db, nodes, loads, handler, lost>>

\* Idle entries expire, and a full cache evicts.
Expire(s) ==
    /\ cache[s] # Absent
    /\ cache' = [cache EXCEPT ![s] = Absent]
    /\ excused' = excused \ {s}
    /\ UNCHANGED <<bound, updates, db, nodes, loads, handler, lost>>

InvalidateCaches ==
    /\ cache' = [s \in Slots |-> IF s \in MapperSlots THEN cache[s] ELSE Absent]
    /\ excused' = excused \cap MapperSlots
    /\ UNCHANGED <<bound, updates, db, nodes, loads, handler, lost>>
--------------------------------------------------------------------------------
(* The account handler *)

\* A load of any of these slots no longer answers with what is stored.
Overtake(slots) ==
    loads' = {[l EXCEPT !.overtaken = l.overtaken \/ l.slot \in slots] : l \in loads}

\* External: on chain no two accounts share a packet key or a chain address.
Bindable(a) ==
    \A i \in Ids \ {a.key_id} :
        bound[i] # None => bound[i].public_key # a.public_key /\ bound[i].chain_addr # a.chain_addr

\* An update that converts: the four caches and the graph come first.
AccountReceived(a) ==
    /\ handler = Idle /\ updates < MaxUpdates /\ Bindable(a) /\ a # bound[a.key_id]
    /\ bound' = [bound EXCEPT ![a.key_id] = a] /\ updates' = updates + 1
    /\ cache' = [s \in Slots |-> IF s \in SlotsOf(a) THEN ValueFor(a, s) ELSE cache[s]]
    /\ nodes' = nodes \cup {a.key_id}
    /\ handler' = [at |-> "cached", account |-> a, old |-> None]
    /\ Overtake(SlotsOf(a))
    /\ excused' = excused \ SlotsOf(a)
    /\ UNCHANGED <<db, lost>>

\* The account is written.
AccountStored ==
    LET a == handler.account  old == db.accounts[a.key_id]
    IN  /\ handler.at = "cached"
        /\ db' = InsertAccount(db, a)
        /\ handler' = [handler EXCEPT !.at = "stored", !.old = old]
        /\ Overtake(SlotsOf(a) \cup IF old = None THEN {} ELSE SlotsOf(old))
        /\ UNCHANGED <<bound, updates, nodes, cache, excused, lost>>

\* The write fails: the caches keep what the backend does not have, and the
\* event is dropped.
AccountNotStored ==
    /\ handler.at = "cached"
    /\ handler' = Idle /\ lost' = TRUE
    /\ excused' = excused \cup {s \in SlotsOf(handler.account) : cache[s] # Absent}
    /\ UNCHANGED <<bound, updates, db, nodes, cache, loads>>

\* Mutant: a replaced chain address keeps its cached key.
InvalidatedKeyOnly(old, a) ==
    {s \in {<<"packet_to_chain", old.public_key>>} : old.public_key # a.public_key}

\* The lookups of a replaced chain address and packet key are invalidated.
Invalidated(old, a) ==
    {s \in {<<"chain_to_packet", old.chain_addr>>} : old.chain_addr # a.chain_addr}
        \cup {s \in {<<"packet_to_chain", old.public_key>>} : old.public_key # a.public_key}

\* The key mapper's entry of a replaced packet key is not.
Forgotten(old, a) == {s \in {<<"key_to_id", old.public_key>>} : old.public_key # a.public_key}

\* Mutant: only an account seen before is worth an event.
AnnouncementIfKnown(a, old) ==
    IF a.announced /\ old # None /\ ~old.announced
    THEN <<[id |-> a.key_id, entry |-> "announced"]>> ELSE <<>>

\* An announcement is news when the account was not announced before.
AnnouncementEvents(a, old) ==
    IF a.announced /\ (old = None \/ ~old.announced)
    THEN <<[id |-> a.key_id, entry |-> "announced"]>> ELSE <<>>

AccountHandled ==
    LET a == handler.account  old == handler.old
        gone == IF old = None THEN {} ELSE Invalidated(old, a)
        kept == IF old = None THEN {} ELSE Forgotten(old, a)
    IN  /\ handler.at = "stored"
        /\ cache' = [s \in Slots |-> IF s \in gone THEN Absent ELSE cache[s]]
        /\ excused' = (excused \ gone) \cup {s \in kept : cache[s] # Absent}
        /\ handler' = Idle
        /\ Broadcast(AnnouncementEvents(a, old))
        /\ UNCHANGED <<bound, updates, db, nodes, loads, lost>>

\* The channel handler adds the two ends of an edge, accounts or not.
EdgeSeen(i) ==
    /\ i \notin nodes /\ nodes' = nodes \cup {i}
    /\ UNCHANGED <<bound, updates, db, cache, loads, handler, excused, lost>>
--------------------------------------------------------------------------------
(* The consumer of announcements, and the part as a whole *)

Entry(i) == IF db.accounts[i] = None \/ ~db.accounts[i].announced THEN None ELSE "announced"
Public(e) == e = "announced"

\* What readers and the passing of time do to a slot.
SlotStep(s) ==
    /\ \/ LoadBegins(s) \/ LoadFails(s) \/ Expire(s)
       \/ \E l \in loads : l.slot = s /\ LoadEnds(l)
    /\ UNCHANGED streamVars

HandlerStep ==
    \/ (\E a \in Account : AccountReceived(a)) /\ UNCHANGED streamVars
    \/ (AccountStored \/ AccountNotStored) /\ UNCHANGED streamVars
    \/ AccountHandled

ConsumerStep ==
    /\ ListState(nodes) \/ Activate \/ (\E i \in listed : ReadState(i, Entry(i), Public(Entry(i)))) \/ TakeEvent
    /\ UNCHANGED accountVars

AccountStep ==
    \/ HandlerStep \/ ConsumerStep
    \/ \E s \in Slots : SlotStep(s)
    \/ (InvalidateCaches \/ \E i \in Ids : EdgeSeen(i)) /\ UNCHANGED streamVars

AccountSpec == AccountInit /\ StreamInit /\ [][AccountStep]_<<accountVars, streamVars>>
--------------------------------------------------------------------------------
(* Properties *)

AccountTypeOK ==
    /\ bound \in [Ids -> Account \cup {None}] /\ updates \in 0..MaxUpdates
    /\ db.accounts \in [Ids -> Account \cup {None}]
    /\ db.address_to_id \in [Addrs -> Ids \cup {None}] /\ db.key_to_id \in [Keys -> Ids \cup {None}]
    /\ nodes \subseteq Ids /\ excused \subseteq Slots
    /\ DOMAIN cache = Slots /\ \A l \in loads : l.slot \in Slots
    /\ handler.at \in {"idle", "cached", "stored"}

\* The index tables answer as a scan of the account table would, whatever keys
\* and addresses changed hands, as long as every update could be stored.
IndexesMatchScan ==
    ~lost =>
        /\ \A k \in Keys : GetAccountByKey(db, k) = ScanFor(db, "public_key", k)
        /\ \A ad \in Addrs : GetAccountByAddress(db, ad) = ScanFor(db, "chain_addr", ad)

\* Between updates a cached answer is the backend's, unless a lookup was
\* overtaken by an update, a backend access failed, or the key mapper kept the
\* id of a packet key that its account has replaced.
LookupsMatchBackend ==
    handler = Idle =>
        \A s \in Slots : cache[s] # Absent /\ s \notin excused => cache[s] = Lookup(db, s)

\* A consumer that has caught up knows every announced account, unless its
\* announcement fell into the gap between the listing and the activation, or
\* was pushed out of a full channel.
AnnouncedAccountsAreKnown ==
    CaughtUp /\ handler = Idle =>
        \A i \in Ids : Entry(i) = "announced" => view[i] = "announced" \/ i \in missed
=============================================================================
