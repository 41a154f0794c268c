-------------------------- MODULE Connector_proofs --------------------------
(***************************************************************************)
(* Proofs about the state the connector keeps of the chain, for any        *)
(* accounts, channels, services and callers.                               *)
(***************************************************************************)
EXTENDS MCConnector, FiniteSetTheorems, TLAPS

(* Accounts. *)

USE AccountAssumption

\* The index tables refer to accounts that have the key or the address.
IndexSound(d) ==
    /\ \A k \in Keys : d.key_to_id[k] # None =>
            d.accounts[d.key_to_id[k]] # None /\ d.accounts[d.key_to_id[k]].public_key = k
    /\ \A ad \in Addrs : d.address_to_id[ad] # None =>
            d.accounts[d.address_to_id[ad]] # None /\ d.accounts[d.address_to_id[ad]].chain_addr = ad
    /\ \A i \in Ids : d.accounts[i] # None => d.accounts[i].key_id = i

\* They refer to every account.
IndexComplete(d) ==
    \A i \in Ids : d.accounts[i] # None =>
        d.key_to_id[d.accounts[i].public_key] = i /\ d.address_to_id[d.accounts[i].chain_addr] = i

DbType(d) ==
    /\ d.accounts \in [Ids -> Account \cup {None}]
    /\ d.address_to_id \in [Addrs -> Ids \cup {None}] /\ d.key_to_id \in [Keys -> Ids \cup {None}]

LoadType == [slot : Slots, value : Ids \cup Keys \cup Addrs \cup {None}, overtaken : BOOLEAN]

\* Type correctness, with what it takes to be inductive.
AccountTypes ==
    /\ AccountTypeOK /\ cache \in [Slots -> Ids \cup Keys \cup Addrs \cup {None, Absent}]
    /\ loads \subseteq LoadType
    /\ handler.at = "idle" => handler = Idle
    /\ handler.at # "idle" =>
        /\ handler = [at |-> handler.at, account |-> handler.account, old |-> handler.old]
        /\ handler.account \in Account /\ handler.old \in Account \cup {None}

\* The chain has the account being handled, and no other account has its key or
\* address; the backend has all the others.
BackendFollowsChain ==
    /\ handler.at # "idle" => /\ Bindable(handler.account)
                              /\ bound[handler.account.key_id] = handler.account
    /\ ~lost => \A i \in Ids : ~(handler.at = "cached" /\ i = handler.account.key_id)
                                    => db.accounts[i] = bound[i]

\* The slots that the replaced account leaves for the handler's last stage.
Replaced ==
    IF handler.at # "stored" \/ handler.old = None THEN {}
    ELSE Invalidated(handler.old, handler.account) \cup Forgotten(handler.old, handler.account)

\* A load that nothing has overtaken has read what the backend holds, and not a
\* slot that the handler has filled ahead of the backend.
LoadsAreTrue ==
    \A l \in loads : ~l.overtaken =>
        /\ l.value = Lookup(db, l.slot)
        /\ handler.at = "cached" => l.slot \notin SlotsOf(handler.account)

\* What is cached is the account being handled, or the backend's, or about to go.
CachesAreTrue ==
    \A s \in Slots : cache[s] # Absent /\ s \notin excused =>
        IF handler.at = "cached" /\ s \in SlotsOf(handler.account)
        THEN cache[s] = ValueFor(handler.account, s)
        ELSE s \in Replaced \/ cache[s] = Lookup(db, s)

AccountInv ==
    /\ AccountTypes /\ BackendFollowsChain
    /\ IndexSound(db) /\ (~lost => IndexComplete(db))
    /\ LoadsAreTrue /\ CachesAreTrue

\* The slots, one cache at a time.
LEMMA SlotCases ==
    ASSUME NEW s \in Slots
    PROVE  \/ \E i \in Ids : s = <<"id_to_key", i>>
           \/ \E k \in Keys : s = <<"key_to_id", k>>
           \/ \E a \in Addrs : s = <<"chain_to_packet", a>>
           \/ \E k \in Keys : s = <<"packet_to_chain", k>>
BY DEF Slots

\* What the handler caches of an account, by cache.
LEMMA ValueCases ==
    ASSUME NEW a, NEW x
    PROVE  /\ ValueFor(a, <<"id_to_key", x>>) = a.public_key
           /\ ValueFor(a, <<"key_to_id", x>>) = a.key_id
           /\ ValueFor(a, <<"chain_to_packet", x>>) = a.public_key
           /\ ValueFor(a, <<"packet_to_chain", x>>) = a.chain_addr
<1>0. /\ <<"id_to_key", x>>[1] = "id_to_key" /\ <<"key_to_id", x>>[1] = "key_to_id"
      /\ <<"chain_to_packet", x>>[1] = "chain_to_packet" /\ <<"packet_to_chain", x>>[1] = "packet_to_chain"
  OBVIOUS
<1> QED
  BY <1>0, Zenon DEF ValueFor

\* What the backend answers, by cache.
LEMMA LookupCases ==
    ASSUME NEW d, DbType(d), IndexSound(d)
    PROVE  /\ \A i \in Ids : Lookup(d, <<"id_to_key", i>>)
                    = IF d.accounts[i] = None THEN None ELSE d.accounts[i].public_key
           /\ \A k \in Keys : Lookup(d, <<"key_to_id", k>>) = d.key_to_id[k]
           /\ \A a \in Addrs : Lookup(d, <<"chain_to_packet", a>>)
                    = IF d.address_to_id[a] = None THEN None ELSE d.accounts[d.address_to_id[a]].public_key
           /\ \A k \in Keys : Lookup(d, <<"packet_to_chain", k>>)
                    = IF d.key_to_id[k] = None THEN None ELSE d.accounts[d.key_to_id[k]].chain_addr
<1>n. /\ "key_to_id" # "id_to_key" /\ "key_to_id" # "chain_to_packet"
      /\ "packet_to_chain" # "id_to_key" /\ "packet_to_chain" # "chain_to_packet"
      /\ "packet_to_chain" # "key_to_id"
  OBVIOUS
<1>0. /\ \A x : <<"id_to_key", x>>[1] = "id_to_key" /\ <<"id_to_key", x>>[2] = x
      /\ \A x : <<"key_to_id", x>>[1] = "key_to_id" /\ <<"key_to_id", x>>[2] = x
      /\ \A x : <<"chain_to_packet", x>>[1] = "chain_to_packet" /\ <<"chain_to_packet", x>>[2] = x
      /\ \A x : <<"packet_to_chain", x>>[1] = "packet_to_chain" /\ <<"packet_to_chain", x>>[2] = x
  OBVIOUS
<1>1. /\ \A i \in Ids : Found(d, <<"id_to_key", i>>) = d.accounts[i]
      /\ \A k \in Keys : Found(d, <<"key_to_id", k>>) = GetAccountByKey(d, k)
      /\ \A a \in Addrs : Found(d, <<"chain_to_packet", a>>) = GetAccountByAddress(d, a)
      /\ \A k \in Keys : Found(d, <<"packet_to_chain", k>>) = GetAccountByKey(d, k)
  BY <1>0, <1>n, Zenon DEF Found, GetAccountById
<1>2. \A k \in Keys : d.key_to_id[k] # None => d.accounts[d.key_to_id[k]].key_id = d.key_to_id[k]
  BY DEF DbType, IndexSound
<1>3. ASSUME NEW i \in Ids
      PROVE  Lookup(d, <<"id_to_key", i>>)
                = IF d.accounts[i] = None THEN None ELSE d.accounts[i].public_key
  <2>1. ValueFor(d.accounts[i], <<"id_to_key", i>>) = d.accounts[i].public_key
    BY ValueCases
  <2> QED
    BY <1>1, <2>1 DEF Lookup
<1>4. ASSUME NEW k \in Keys
      PROVE  /\ Lookup(d, <<"key_to_id", k>>) = d.key_to_id[k]
             /\ Lookup(d, <<"packet_to_chain", k>>)
                    = IF d.key_to_id[k] = None THEN None ELSE d.accounts[d.key_to_id[k]].chain_addr
  <2> DEFINE a == GetAccountByKey(d, k)
  <2>1. ValueFor(a, <<"key_to_id", k>>) = a.key_id /\ ValueFor(a, <<"packet_to_chain", k>>) = a.chain_addr
    BY ValueCases
  <2>2. /\ Lookup(d, <<"key_to_id", k>>) = IF a = None THEN None ELSE a.key_id
        /\ Lookup(d, <<"packet_to_chain", k>>) = IF a = None THEN None ELSE a.chain_addr
    BY <1>1, <2>1 DEF Lookup
  <2> QED
    BY <1>2, <2>2 DEF GetAccountByKey, IndexSound
<1>5. ASSUME NEW ad \in Addrs
      PROVE  Lookup(d, <<"chain_to_packet", ad>>)
                = IF d.address_to_id[ad] = None THEN None ELSE d.accounts[d.address_to_id[ad]].public_key
  <2> DEFINE a == GetAccountByAddress(d, ad)
  <2>1. ValueFor(a, <<"chain_to_packet", ad>>) = a.public_key
    BY ValueCases
  <2>2. Lookup(d, <<"chain_to_packet", ad>>) = IF a = None THEN None ELSE a.public_key
    BY <1>1, <2>1 DEF Lookup
  <2> QED
    BY <2>2 DEF GetAccountByAddress, IndexSound
<1> QED
  BY <1>3, <1>4, <1>5

\* The slots of an account are slots, and have values of their caches.
LEMMA SlotsOfAccount ==
    ASSUME NEW a \in Account
    PROVE  /\ SlotsOf(a) \subseteq Slots
           /\ \A s \in SlotsOf(a) : ValueFor(a, s) \in Ids \cup Keys \cup Addrs
<1>1. a.key_id \in Ids /\ a.public_key \in Keys /\ a.chain_addr \in Addrs
  BY DEF Account
<1>2. SlotsOf(a) \subseteq Slots
  BY <1>1 DEF SlotsOf, Slots
<1> QED
  BY <1>1, <1>2, ValueCases DEF SlotsOf

\* Writing an account: every other reference stays.
LEMMA InsertFields ==
    ASSUME NEW d, DbType(d), NEW a \in Account
    PROVE  LET n == InsertAccount(d, a)
               old == d.accounts[a.key_id]
           IN  /\ DbType(n)
               /\ \A i \in Ids : n.accounts[i] = IF i = a.key_id THEN a ELSE d.accounts[i]
               /\ \A ad \in Addrs : n.address_to_id[ad] =
                    IF ad = a.chain_addr THEN a.key_id
                    ELSE IF old # None /\ ad = old.chain_addr THEN None ELSE d.address_to_id[ad]
               /\ \A k \in Keys : n.key_to_id[k] =
                    IF k = a.public_key THEN a.key_id
                    ELSE IF old # None /\ k = old.public_key THEN None ELSE d.key_to_id[k]
<1> DEFINE n == InsertAccount(d, a)
           old == d.accounts[a.key_id]
<1>1. a.key_id \in Ids /\ a.public_key \in Keys /\ a.chain_addr \in Addrs
  BY DEF Account
<1>2. old # None => old.public_key \in Keys /\ old.chain_addr \in Addrs
  BY <1>1 DEF DbType, Account
<1>3. n.accounts = [d.accounts EXCEPT ![a.key_id] = a]
  BY DEF InsertAccount
<1>4. n.address_to_id = IF old = None THEN [d.address_to_id EXCEPT ![a.chain_addr] = a.key_id]
                        ELSE [[d.address_to_id EXCEPT ![old.chain_addr] = None] EXCEPT ![a.chain_addr] = a.key_id]
  BY DEF InsertAccount
<1>5. n.key_to_id = IF old = None THEN [d.key_to_id EXCEPT ![a.public_key] = a.key_id]
                    ELSE [[d.key_to_id EXCEPT ![old.public_key] = None] EXCEPT ![a.public_key] = a.key_id]
  BY DEF InsertAccount
<1> HIDE DEF n, old
<1>6. /\ n.accounts \in [Ids -> Account \cup {None}]
      /\ \A i \in Ids : n.accounts[i] = IF i = a.key_id THEN a ELSE d.accounts[i]
  BY <1>1, <1>3 DEF DbType
<1>7. /\ n.address_to_id \in [Addrs -> Ids \cup {None}]
      /\ \A ad \in Addrs : n.address_to_id[ad] =
            IF ad = a.chain_addr THEN a.key_id
            ELSE IF old # None /\ ad = old.chain_addr THEN None ELSE d.address_to_id[ad]
  BY <1>1, <1>2, <1>4 DEF DbType
<1>8. /\ n.key_to_id \in [Keys -> Ids \cup {None}]
      /\ \A k \in Keys : n.key_to_id[k] =
            IF k = a.public_key THEN a.key_id
            ELSE IF old # None /\ k = old.public_key THEN None ELSE d.key_to_id[k]
  BY <1>1, <1>2, <1>5 DEF DbType
<1>9. DbType(n)
  BY <1>6, <1>7, <1>8 DEF DbType
<1> QED
  BY <1>6, <1>7, <1>8, <1>9 DEF n, old

\* Writing an account: the index stays sound, answers with the account, and answers
\* about others as before, save what the replaced account had.
LEMMA InsertLookup ==
    ASSUME NEW d, DbType(d), IndexSound(d), NEW a \in Account
    PROVE  LET n == InsertAccount(d, a)
               old == d.accounts[a.key_id]
           IN  /\ DbType(n) /\ IndexSound(n)
               /\ \A s \in SlotsOf(a) : Lookup(n, s) = ValueFor(a, s)
               /\ \A s \in Slots \ (SlotsOf(a) \cup IF old = None THEN {} ELSE SlotsOf(old)) :
                        Lookup(n, s) = Lookup(d, s)
<1> DEFINE n == InsertAccount(d, a)
           old == d.accounts[a.key_id]
<1>1. a.key_id \in Ids /\ a.public_key \in Keys /\ a.chain_addr \in Addrs /\ a # None
  BY DEF Account
<1>2. /\ DbType(n)
      /\ \A i \in Ids : n.accounts[i] = IF i = a.key_id THEN a ELSE d.accounts[i]
      /\ \A ad \in Addrs : n.address_to_id[ad] =
            IF ad = a.chain_addr THEN a.key_id
            ELSE IF old # None /\ ad = old.chain_addr THEN None ELSE d.address_to_id[ad]
      /\ \A k \in Keys : n.key_to_id[k] =
            IF k = a.public_key THEN a.key_id
            ELSE IF old # None /\ k = old.public_key THEN None ELSE d.key_to_id[k]
  BY InsertFields
<1> HIDE DEF n
<1>3. /\ \A k \in Keys : d.key_to_id[k] = a.key_id => old # None /\ k = old.public_key
      /\ \A ad \in Addrs : d.address_to_id[ad] = a.key_id => old # None /\ ad = old.chain_addr
      /\ old # None => old.key_id = a.key_id
  BY <1>1 DEF IndexSound
<1>t. /\ \A k \in Keys : d.key_to_id[k] \in Ids \cup {None}
      /\ \A ad \in Addrs : d.address_to_id[ad] \in Ids \cup {None}
  BY DEF DbType
<1> HIDE DEF old
<1>4. IndexSound(n)
  <2>1. \A k \in Keys : n.key_to_id[k] # None =>
            n.accounts[n.key_to_id[k]] # None /\ n.accounts[n.key_to_id[k]].public_key = k
    BY <1>1, <1>2, <1>3, <1>t DEF IndexSound
  <2>2. \A ad \in Addrs : n.address_to_id[ad] # None =>
            n.accounts[n.address_to_id[ad]] # None /\ n.accounts[n.address_to_id[ad]].chain_addr = ad
    BY <1>1, <1>2, <1>3, <1>t DEF IndexSound
  <2>3. \A i \in Ids : n.accounts[i] # None => n.accounts[i].key_id = i
    BY <1>2 DEF IndexSound
  <2> QED
    BY <2>1, <2>2, <2>3 DEF IndexSound
<1>5. \A s \in SlotsOf(a) : Lookup(n, s) = ValueFor(a, s)
  <2>1. /\ n.accounts[a.key_id] = a /\ n.key_to_id[a.public_key] = a.key_id
        /\ n.address_to_id[a.chain_addr] = a.key_id /\ a.key_id # None
    BY <1>1, <1>2
  <2> QED
    <3>1. /\ Lookup(n, <<"id_to_key", a.key_id>>) = a.public_key
          /\ Lookup(n, <<"key_to_id", a.public_key>>) = a.key_id
          /\ Lookup(n, <<"chain_to_packet", a.chain_addr>>) = a.public_key
          /\ Lookup(n, <<"packet_to_chain", a.public_key>>) = a.chain_addr
      BY <1>1, <1>2, <1>4, <2>1, LookupCases
    <3>2. /\ ValueFor(a, <<"id_to_key", a.key_id>>) = a.public_key
          /\ ValueFor(a, <<"key_to_id", a.public_key>>) = a.key_id
          /\ ValueFor(a, <<"chain_to_packet", a.chain_addr>>) = a.public_key
          /\ ValueFor(a, <<"packet_to_chain", a.public_key>>) = a.chain_addr
      BY ValueCases
    <3> QED
      BY <3>1, <3>2 DEF SlotsOf
<1>6. ASSUME NEW s \in Slots \ (SlotsOf(a) \cup IF old = None THEN {} ELSE SlotsOf(old))
      PROVE  Lookup(n, s) = Lookup(d, s)
  <2>1. ASSUME NEW i \in Ids, s = <<"id_to_key", i>> PROVE Lookup(n, s) = Lookup(d, s)
    <3>1. i # a.key_id
      BY <2>1, <1>6 DEF SlotsOf
    <3> QED
      BY <2>1, <3>1, <1>2, <1>4, LookupCases
  <2>2. ASSUME NEW k \in Keys, s = <<"key_to_id", k>> \/ s = <<"packet_to_chain", k>>
        PROVE  Lookup(n, s) = Lookup(d, s)
    <3>1. k # a.public_key /\ (old # None => k # old.public_key)
      BY <2>2, <1>6 DEF SlotsOf
    <3>2. n.key_to_id[k] = d.key_to_id[k] /\ d.key_to_id[k] # a.key_id
      BY <3>1, <1>2, <1>3
    <3>3. d.key_to_id[k] # None => n.accounts[d.key_to_id[k]] = d.accounts[d.key_to_id[k]]
      BY <3>2, <1>2, <1>t
    <3> QED
      BY <2>2, <3>2, <3>3, <1>2, <1>4, LookupCases
  <2>3. ASSUME NEW ad \in Addrs, s = <<"chain_to_packet", ad>>
        PROVE  Lookup(n, s) = Lookup(d, s)
    <3>1. ad # a.chain_addr /\ (old # None => ad # old.chain_addr)
      BY <2>3, <1>6 DEF SlotsOf
    <3>2. n.address_to_id[ad] = d.address_to_id[ad] /\ d.address_to_id[ad] # a.key_id
      BY <3>1, <1>2, <1>3
    <3>3. d.address_to_id[ad] # None => n.accounts[d.address_to_id[ad]] = d.accounts[d.address_to_id[ad]]
      BY <3>2, <1>2, <1>t
    <3> QED
      BY <2>3, <3>2, <3>3, <1>2, <1>4, LookupCases
  <2> QED
    BY <2>1, <2>2, <2>3, SlotCases
<1> QED
  BY <1>2, <1>4, <1>5, <1>6 DEF n, old

\* A complete index and an account that shares neither key nor address with others.
LEMMA InsertComplete ==
    ASSUME NEW d, DbType(d), IndexSound(d), IndexComplete(d), NEW a \in Account,
           \A i \in Ids \ {a.key_id} : d.accounts[i] # None =>
                d.accounts[i].public_key # a.public_key /\ d.accounts[i].chain_addr # a.chain_addr
    PROVE  IndexComplete(InsertAccount(d, a))
<1> DEFINE n == InsertAccount(d, a)
           old == d.accounts[a.key_id]
<1>1. a.key_id \in Ids /\ a.public_key \in Keys /\ a.chain_addr \in Addrs /\ a # None
  BY DEF Account
<1>2. /\ \A i \in Ids : n.accounts[i] = IF i = a.key_id THEN a ELSE d.accounts[i]
      /\ \A ad \in Addrs : n.address_to_id[ad] =
            IF ad = a.chain_addr THEN a.key_id
            ELSE IF old # None /\ ad = old.chain_addr THEN None ELSE d.address_to_id[ad]
      /\ \A k \in Keys : n.key_to_id[k] =
            IF k = a.public_key THEN a.key_id
            ELSE IF old # None /\ k = old.public_key THEN None ELSE d.key_to_id[k]
  BY InsertFields
<1> HIDE DEF n
<1> SUFFICES ASSUME NEW i \in Ids, n.accounts[i] # None
             PROVE  /\ n.key_to_id[n.accounts[i].public_key] = i
                    /\ n.address_to_id[n.accounts[i].chain_addr] = i
  BY DEF IndexComplete, n
<1>3. CASE i = a.key_id
  BY <1>1, <1>2, <1>3
<1>4. CASE i # a.key_id
  <2>1. n.accounts[i] = d.accounts[i]
    BY <1>2, <1>4
  <2>2. /\ d.accounts[i].public_key \in Keys /\ d.accounts[i].chain_addr \in Addrs
        /\ d.key_to_id[d.accounts[i].public_key] = i /\ d.address_to_id[d.accounts[i].chain_addr] = i
    BY <2>1 DEF DbType, Account, IndexComplete
  <2>3. old # None => d.key_to_id[old.public_key] = a.key_id /\ d.address_to_id[old.chain_addr] = a.key_id
    BY <1>1 DEF IndexComplete
  <2> QED
    BY <1>2, <1>4, <2>1, <2>2, <2>3
<1> QED
  BY <1>3, <1>4

\* A sound and complete index answers as a scan does.
LEMMA IndexIsScan ==
    ASSUME NEW d, DbType(d), IndexSound(d), IndexComplete(d)
    PROVE  /\ \A k \in Keys : GetAccountByKey(d, k) = ScanFor(d, "public_key", k)
           /\ \A ad \in Addrs : GetAccountByAddress(d, ad) = ScanFor(d, "chain_addr", ad)
<1>1. ASSUME NEW k \in Keys PROVE GetAccountByKey(d, k) = ScanFor(d, "public_key", k)
  <2> DEFINE found == {i \in Ids : d.accounts[i] # None /\ d.accounts[i]["public_key"] = k}
  <2>1. \A i \in Ids : d.accounts[i] # None => d.accounts[i]["public_key"] = d.accounts[i].public_key
    OBVIOUS
  <2>2. \A i \in found : d.key_to_id[k] = i /\ i # None
    BY <2>1 DEF IndexComplete
  <2>3. d.key_to_id[k] # None => d.key_to_id[k] \in found
    BY <2>1 DEF IndexSound, DbType
  <2>4. CASE found = {}
    BY <2>3, <2>4 DEF GetAccountByKey, ScanFor
  <2>5. CASE found # {}
    <3>1. (CHOOSE i \in found : TRUE) \in found
      BY <2>5
    <3>2. (CHOOSE i \in found : TRUE) = d.key_to_id[k] /\ d.key_to_id[k] # None
      BY <3>1, <2>2
    <3>3. ScanFor(d, "public_key", k) = d.accounts[CHOOSE i \in found : TRUE]
      BY <2>5 DEF ScanFor
    <3> QED
      BY <3>2, <3>3 DEF GetAccountByKey
  <2> QED
    BY <2>4, <2>5
<1>2. ASSUME NEW ad \in Addrs PROVE GetAccountByAddress(d, ad) = ScanFor(d, "chain_addr", ad)
  <2> DEFINE found == {i \in Ids : d.accounts[i] # None /\ d.accounts[i]["chain_addr"] = ad}
  <2>1. \A i \in Ids : d.accounts[i] # None => d.accounts[i]["chain_addr"] = d.accounts[i].chain_addr
    OBVIOUS
  <2>2. \A i \in found : d.address_to_id[ad] = i /\ i # None
    BY <2>1 DEF IndexComplete
  <2>3. d.address_to_id[ad] # None => d.address_to_id[ad] \in found
    BY <2>1 DEF IndexSound, DbType
  <2>4. CASE found = {}
    BY <2>3, <2>4 DEF GetAccountByAddress, ScanFor
  <2>5. CASE found # {}
    <3>1. (CHOOSE i \in found : TRUE) \in found
      BY <2>5
    <3>2. (CHOOSE i \in found : TRUE) = d.address_to_id[ad] /\ d.address_to_id[ad] # None
      BY <3>1, <2>2
    <3>3. ScanFor(d, "chain_addr", ad) = d.accounts[CHOOSE i \in found : TRUE]
      BY <2>5 DEF ScanFor
    <3> QED
      BY <3>2, <3>3 DEF GetAccountByAddress
  <2> QED
    BY <2>4, <2>5
<1> QED
  BY <1>1, <1>2
-----------------------------------------------------------------------------
(* The account invariant, action by action. *)

\* At the start nothing is stored, cached or handled.
LEMMA AccountInitInv == AccountInit => AccountInv
<1> SUFFICES ASSUME AccountInit PROVE AccountInv
  OBVIOUS
<1>1. AccountTypes
  BY DEF AccountInit, AccountTypes, AccountTypeOK, Idle
<1>2. BackendFollowsChain /\ IndexSound(db) /\ IndexComplete(db)
  BY DEF AccountInit, BackendFollowsChain, IndexSound, IndexComplete, Idle
<1>3. LoadsAreTrue /\ CachesAreTrue
  BY DEF AccountInit, LoadsAreTrue, CachesAreTrue
<1> QED
  BY <1>1, <1>2, <1>3 DEF AccountInv

LEMMA DbTyped == AccountInv => DbType(db)
BY DEF AccountInv, AccountTypes, AccountTypeOK, DbType

\* What a lookup answers is a value of some cache.
LEMMA LookupType ==
    ASSUME NEW d, DbType(d), IndexSound(d), NEW s \in Slots
    PROVE  Lookup(d, s) \in Ids \cup Keys \cup Addrs \cup {None}
<1>1. \A i \in Ids : d.accounts[i] # None => d.accounts[i].public_key \in Keys /\ d.accounts[i].chain_addr \in Addrs
  BY DEF DbType, Account
<1>2. /\ \A k \in Keys : d.key_to_id[k] \in Ids \cup {None}
      /\ \A ad \in Addrs : d.address_to_id[ad] \in Ids \cup {None}
  BY DEF DbType
<1>3. ASSUME NEW i \in Ids, s = <<"id_to_key", i>> PROVE Lookup(d, s) \in Keys \cup {None}
  BY <1>1, <1>3, LookupCases
<1>4. ASSUME NEW k \in Keys, s = <<"key_to_id", k>> PROVE Lookup(d, s) \in Ids \cup {None}
  BY <1>2, <1>4, LookupCases
<1>5. ASSUME NEW ad \in Addrs, s = <<"chain_to_packet", ad>> PROVE Lookup(d, s) \in Keys \cup {None}
  BY <1>1, <1>2, <1>5, LookupCases DEF IndexSound
<1>6. ASSUME NEW k \in Keys, s = <<"packet_to_chain", k>> PROVE Lookup(d, s) \in Addrs \cup {None}
  BY <1>1, <1>2, <1>6, LookupCases DEF IndexSound
<1> QED
  BY <1>3, <1>4, <1>5, <1>6, SlotCases

\* Overtaking keeps the loads and can only mark them.
LEMMA OvertakeLoads ==
    ASSUME loads \subseteq LoadType, NEW slots, Overtake(slots)
    PROVE  /\ loads' \subseteq LoadType
           /\ \A n \in loads' : ~n.overtaken => n \in loads /\ n.slot \notin slots
<1> DEFINE Marked(l) == [l EXCEPT !.overtaken = l.overtaken \/ l.slot \in slots]
<1>1. ASSUME NEW l \in loads
      PROVE  Marked(l) \in LoadType /\ (~Marked(l).overtaken => Marked(l) = l /\ l.slot \notin slots)
  <2>1. l \in LoadType
    OBVIOUS
  <2>2. Marked(l).overtaken = (l.overtaken \/ l.slot \in slots) /\ Marked(l) \in LoadType
    BY <2>1 DEF LoadType
  <2>3. l.overtaken = FALSE => [l EXCEPT !.overtaken = FALSE] = l
    BY <2>1 DEF LoadType
  <2>4. l.overtaken \in BOOLEAN
    BY <2>1 DEF LoadType
  <2> QED
    BY <2>2, <2>3, <2>4
<1> HIDE DEF Marked
<1>2. \A n \in loads' : \E l \in loads : n = Marked(l)
  BY DEF Overtake, Marked
<1> QED
  BY <1>1, <1>2

\* The steps of readers and of time: a slot is filled, dropped or left alone.
LEMMA AccountSlot ==
    ASSUME AccountInv, NEW s \in Slots, SlotStep(s)
    PROVE  AccountInv'
<1>u. UNCHANGED <<bound, updates, db, nodes, handler, lost>>
  BY DEF SlotStep, LoadBegins, LoadFails, Expire, LoadEnds
<1>t. AccountTypes
  BY DEF AccountInv
<1>d. DbType(db) /\ IndexSound(db)
  BY DbTyped DEF AccountInv
<1>c. cache \in [Slots -> Ids \cup Keys \cup Addrs \cup {None, Absent}] /\ loads \subseteq LoadType /\ excused \subseteq Slots
  BY <1>t DEF AccountTypes, AccountTypeOK
<1>k. /\ BackendFollowsChain' /\ IndexSound(db)' /\ (~lost => IndexComplete(db))'
      /\ Replaced' = Replaced
  BY <1>u DEF AccountInv, BackendFollowsChain, IndexSound, IndexComplete, Bindable, Replaced,
              Invalidated, Forgotten
<1>m. \A x \in Slots : Lookup(db, x)' = Lookup(db, x)
  BY <1>u
<1>1. CASE LoadBegins(s)
  <2> DEFINE n == [slot |-> s, value |-> Lookup(db, s),
                   overtaken |-> handler.at = "cached" /\ s \in SlotsOf(handler.account)]
  <2>1. loads' = loads \cup {n} /\ UNCHANGED <<cache, excused>>
    BY <1>1 DEF LoadBegins
  <2>2. n \in LoadType
    BY <1>d, LookupType DEF LoadType
  <2>3. AccountTypes'
    BY <1>t, <1>u, <2>1, <2>2 DEF AccountTypes, AccountTypeOK, LoadType
  <2>l. n.slot = s /\ n.value = Lookup(db, s)
        /\ (~n.overtaken /\ handler.at = "cached" => s \notin SlotsOf(handler.account))
    OBVIOUS
  <2> HIDE DEF n
  <2>4. LoadsAreTrue'
    BY <1>u, <2>1, <2>l DEF AccountInv, LoadsAreTrue
  <2>5. CachesAreTrue'
    BY <1>u, <1>k, <2>1 DEF AccountInv, CachesAreTrue
  <2> QED
    BY <1>k, <2>3, <2>4, <2>5 DEF AccountInv
<1>2. CASE LoadFails(s) \/ Expire(s)
  <2>1. /\ loads' = loads /\ excused' \subseteq Slots
        /\ \E v \in {None, Absent} : cache' = [cache EXCEPT ![s] = v]
        /\ cache'[s] # Absent => s \in excused'
        /\ \A x \in Slots \ {s} : x \in excused => x \in excused'
    BY <1>2, <1>c DEF LoadFails, Expire
  <2>2. AccountTypes'
    BY <1>t, <1>u, <2>1 DEF AccountTypes, AccountTypeOK
  <2>3. LoadsAreTrue'
    BY <1>u, <2>1 DEF AccountInv, LoadsAreTrue
  <2>4. \A x \in Slots : cache'[x] # Absent /\ x \notin excused' =>
            x # s /\ cache'[x] = cache[x] /\ x \notin excused
    BY <1>c, <2>1
  <2>5. CachesAreTrue'
    BY <1>u, <1>k, <2>4 DEF AccountInv, CachesAreTrue
  <2> QED
    BY <1>k, <2>2, <2>3, <2>5 DEF AccountInv
<1>3. ASSUME NEW l \in loads, l.slot = s, LoadEnds(l) PROVE AccountInv'
  <2>1. /\ loads' = loads \ {l} /\ cache' = [cache EXCEPT ![s] = l.value]
        /\ excused' = IF l.overtaken THEN excused \cup {s} ELSE excused \ {s}
    BY <1>3 DEF LoadEnds
  <2>2. l.value \in Ids \cup Keys \cup Addrs \cup {None}
    BY <1>c DEF LoadType
  <2>3. AccountTypes'
    BY <1>t, <1>u, <1>c, <2>1, <2>2 DEF AccountTypes, AccountTypeOK
  <2>4. LoadsAreTrue'
    BY <1>u, <2>1 DEF AccountInv, LoadsAreTrue
  <2>5. ASSUME NEW x \in Slots, cache'[x] # Absent, x \notin excused'
        PROVE  IF handler.at = "cached" /\ x \in SlotsOf(handler.account)
               THEN cache'[x] = ValueFor(handler.account, x)
               ELSE x \in Replaced \/ cache'[x] = Lookup(db, x)
    <3>1. CASE x = s
      BY <1>3, <1>c, <2>1, <2>5, <3>1 DEF AccountInv, LoadsAreTrue
    <3>2. CASE x # s
      BY <1>c, <2>1, <2>5, <3>2 DEF AccountInv, CachesAreTrue
    <3> QED
      BY <3>1, <3>2
  <2>6. CachesAreTrue'
    BY <1>u, <1>k, <2>5 DEF CachesAreTrue
  <2> QED
    BY <1>k, <2>3, <2>4, <2>6 DEF AccountInv
<1> QED
  BY <1>1, <1>2, <1>3 DEF SlotStep

\* Invalidating the lookup caches.
LEMMA AccountInvalidate ==
    ASSUME AccountInv, InvalidateCaches
    PROVE  AccountInv'
<1>u. UNCHANGED <<bound, updates, db, nodes, handler, lost, loads>>
  BY DEF InvalidateCaches
<1>t. AccountTypes
  BY DEF AccountInv
<1>c. cache \in [Slots -> Ids \cup Keys \cup Addrs \cup {None, Absent}] /\ excused \subseteq Slots
  BY <1>t DEF AccountTypes, AccountTypeOK
<1>k. /\ BackendFollowsChain' /\ IndexSound(db)' /\ (~lost => IndexComplete(db))' /\ LoadsAreTrue'
      /\ Replaced' = Replaced
  BY <1>u DEF AccountInv, BackendFollowsChain, IndexSound, IndexComplete, Bindable, Replaced,
              Invalidated, Forgotten, LoadsAreTrue
<1>1. /\ cache' \in [Slots -> Ids \cup Keys \cup Addrs \cup {None, Absent}] /\ excused' \subseteq Slots
      /\ \A x \in Slots : cache'[x] # Absent /\ x \notin excused' => cache'[x] = cache[x] /\ x \notin excused
  BY <1>c DEF InvalidateCaches
<1>2. AccountTypes'
  BY <1>t, <1>u, <1>1 DEF AccountTypes, AccountTypeOK
<1>3. CachesAreTrue'
  BY <1>u, <1>k, <1>1 DEF AccountInv, CachesAreTrue
<1> QED
  BY <1>k, <1>2, <1>3 DEF AccountInv

\* An update fills the caches ahead of the backend.
LEMMA AccountReceive ==
    ASSUME AccountInv, NEW a \in Account, AccountReceived(a)
    PROVE  AccountInv'
<1>t. AccountTypes
  BY DEF AccountInv
<1>c. /\ cache \in [Slots -> Ids \cup Keys \cup Addrs \cup {None, Absent}] /\ excused \subseteq Slots
      /\ loads \subseteq LoadType /\ bound \in [Ids -> Account \cup {None}]
  BY <1>t DEF AccountTypes, AccountTypeOK
<1>a. /\ a.key_id \in Ids /\ a.public_key \in Keys /\ a.chain_addr \in Addrs
      /\ SlotsOf(a) \subseteq Slots /\ \A s \in SlotsOf(a) : ValueFor(a, s) \in Ids \cup Keys \cup Addrs
  BY SlotsOfAccount DEF Account
<1>h. /\ handler = Idle /\ handler.at = "idle"
      /\ handler' = [at |-> "cached", account |-> a, old |-> None]
      /\ handler'.at = "cached" /\ handler'.account = a
  BY DEF AccountReceived, Idle
<1>u. UNCHANGED <<db, lost>>
  BY DEF AccountReceived
<1>o. /\ loads' \subseteq LoadType
      /\ \A n \in loads' : ~n.overtaken => n \in loads /\ n.slot \notin SlotsOf(a)
  BY <1>c, OvertakeLoads DEF AccountReceived
<1>1. AccountTypes'
  <2>1. /\ cache' \in [Slots -> Ids \cup Keys \cup Addrs \cup {None, Absent}] /\ excused' \subseteq Slots
        /\ bound' \in [Ids -> Account \cup {None}] /\ updates' \in 0..MaxUpdates /\ nodes' \subseteq Ids
    BY <1>t, <1>a, <1>c DEF AccountReceived, AccountTypes, AccountTypeOK
  <2> QED
    BY <1>t, <1>h, <1>u, <1>o, <2>1 DEF AccountTypes, AccountTypeOK, LoadType
<1>2. BackendFollowsChain'
  <2>1. \A i \in Ids : bound'[i] = IF i = a.key_id THEN a ELSE bound[i]
    BY <1>a, <1>c DEF AccountReceived
  <2>2. Bindable(a)'
    BY <2>1 DEF AccountReceived, Bindable
  <2> QED
    BY <1>a, <1>h, <1>u, <2>1, <2>2 DEF AccountInv, BackendFollowsChain, Bindable
<1>3. IndexSound(db)' /\ (~lost => IndexComplete(db))'
  BY <1>u DEF AccountInv, IndexSound, IndexComplete
<1>4. LoadsAreTrue'
  BY <1>h, <1>u, <1>o DEF AccountInv, LoadsAreTrue
<1>5. CachesAreTrue'
  <2> SUFFICES ASSUME NEW s \in Slots, cache'[s] # Absent, s \notin excused'
               PROVE  IF s \in SlotsOf(a) THEN cache'[s] = ValueFor(a, s) ELSE cache'[s] = Lookup(db, s)
    BY <1>h, <1>u DEF CachesAreTrue
  <2>1. cache'[s] = IF s \in SlotsOf(a) THEN ValueFor(a, s) ELSE cache[s]
    BY DEF AccountReceived
  <2>2. CASE s \notin SlotsOf(a)
    BY <2>1, <2>2, <1>h DEF AccountReceived, AccountInv, CachesAreTrue, Replaced
  <2> QED
    BY <2>1, <2>2
<1> QED
  BY <1>1, <1>2, <1>3, <1>4, <1>5 DEF AccountInv

\* The slots of the replaced account that are not the new one's are left for the
\* last stage.
LEMMA ReplacedSlots ==
    ASSUME NEW a, NEW old, old.key_id = a.key_id
    PROVE  SlotsOf(old) \subseteq SlotsOf(a) \cup Invalidated(old, a) \cup Forgotten(old, a)
BY DEF SlotsOf, Invalidated, Forgotten

\* The account is written, and the backend answers with it.
LEMMA AccountStore ==
    ASSUME AccountInv, AccountStored
    PROVE  AccountInv'
<1> DEFINE a == handler.account
           old == db.accounts[a.key_id]
           slots == SlotsOf(a) \cup IF old = None THEN {} ELSE SlotsOf(old)
<1>t. AccountTypes /\ DbType(db) /\ IndexSound(db)
  BY DbTyped DEF AccountInv
<1>h. handler.at = "cached" /\ a \in Account /\ a.key_id \in Ids /\ old \in Account \cup {None}
  BY <1>t DEF AccountStored, AccountTypes, DbType, Account
<1>n. handler' = [at |-> "stored", account |-> a, old |-> old]
  BY <1>t, <1>h DEF AccountStored, AccountTypes
<1>m. handler'.at = "stored" /\ handler'.account = a /\ handler'.old = old
  BY <1>n
<1>u. UNCHANGED <<bound, updates, nodes, cache, excused, lost>> /\ db' = InsertAccount(db, a)
  BY DEF AccountStored
<1>c. loads \subseteq LoadType
  BY <1>t DEF AccountTypes
<1>o. /\ loads' \subseteq LoadType
      /\ \A n \in loads' : ~n.overtaken => n \in loads /\ n.slot \notin slots
  BY <1>c, OvertakeLoads DEF AccountStored
<1>i. /\ DbType(db') /\ IndexSound(db')
      /\ \A s \in SlotsOf(a) : Lookup(db', s) = ValueFor(a, s)
      /\ \A s \in Slots \ slots : Lookup(db', s) = Lookup(db, s)
  BY <1>t, <1>h, <1>u, InsertLookup
<1>f. \A i \in Ids : db'.accounts[i] = IF i = a.key_id THEN a ELSE db.accounts[i]
  BY <1>t, <1>h, <1>u, InsertFields
<1>k. old # None => old.key_id = a.key_id
  BY <1>t, <1>h DEF IndexSound
<1> HIDE DEF a, old, slots
<1>1. AccountTypes'
  BY <1>t, <1>h, <1>n, <1>m, <1>u, <1>o, <1>i DEF AccountTypes, AccountTypeOK, DbType, LoadType
<1>2. BackendFollowsChain'
  BY <1>h, <1>m, <1>u, <1>f DEF AccountInv, BackendFollowsChain, Bindable, a
<1>3. ~lost => IndexComplete(db')
  <2> SUFFICES ASSUME ~lost PROVE IndexComplete(db')
    OBVIOUS
  <2>1. \A i \in Ids \ {a.key_id} : db.accounts[i] # None =>
            db.accounts[i].public_key # a.public_key /\ db.accounts[i].chain_addr # a.chain_addr
    BY <1>h DEF AccountInv, BackendFollowsChain, Bindable, a
  <2>2. IndexComplete(db)
    BY DEF AccountInv
  <2> QED
    BY <1>t, <1>h, <1>u, <2>1, <2>2, InsertComplete
<1>4. LoadsAreTrue'
  <2>1. \A n \in loads' : ~n.overtaken => n.value = Lookup(db', n.slot)
    BY <1>c, <1>o, <1>i DEF AccountInv, LoadsAreTrue, LoadType
  <2> QED
    BY <1>m, <2>1 DEF LoadsAreTrue
<1>5. CachesAreTrue'
  <2> SUFFICES ASSUME NEW s \in Slots, cache[s] # Absent, s \notin excused
               PROVE  s \in Replaced' \/ cache[s] = Lookup(db', s)
    BY <1>m, <1>u DEF CachesAreTrue
  <2>1. CASE s \in SlotsOf(a)
    BY <1>h, <1>i, <2>1 DEF AccountInv, CachesAreTrue, a
  <2>2. CASE s \notin slots
    BY <1>h, <1>i, <2>2 DEF AccountInv, CachesAreTrue, Replaced, a, slots
  <2>3. CASE s \in slots \ SlotsOf(a)
    <3>1. old # None /\ s \in SlotsOf(old)
      BY <2>3 DEF slots
    <3>2. s \in Invalidated(old, a) \cup Forgotten(old, a)
      BY <1>k, <2>3, <3>1, ReplacedSlots
    <3> QED
      BY <1>m, <3>1, <3>2 DEF Replaced
  <2> QED
    BY <2>1, <2>2, <2>3
<1> QED
  BY <1>1, <1>2, <1>3, <1>4, <1>5, <1>u, <1>i DEF AccountInv

\* The account cannot be written: what is cached of it is excused.
LEMMA AccountLose ==
    ASSUME AccountInv, AccountNotStored
    PROVE  AccountInv'
<1>t. AccountTypes
  BY DEF AccountInv
<1>h. handler.at = "cached" /\ handler' = Idle /\ handler'.at = "idle"
  BY DEF AccountNotStored, Idle
<1>u. UNCHANGED <<bound, updates, db, nodes, cache, loads>> /\ lost'
  BY DEF AccountNotStored
<1>e. excused' = excused \cup {s \in SlotsOf(handler.account) : cache[s] # Absent}
  BY DEF AccountNotStored
<1>s. SlotsOf(handler.account) \subseteq Slots
  BY <1>t, <1>h, SlotsOfAccount DEF AccountTypes
<1>1. AccountTypes'
  BY <1>t, <1>h, <1>u, <1>e, <1>s DEF AccountTypes, AccountTypeOK, AccountNotStored
<1>2. BackendFollowsChain' /\ IndexSound(db)'
  BY <1>h, <1>u DEF AccountInv, BackendFollowsChain, IndexSound
<1>3. LoadsAreTrue'
  BY <1>h, <1>u DEF AccountInv, LoadsAreTrue
<1>4. CachesAreTrue'
  <2> SUFFICES ASSUME NEW s \in Slots, cache[s] # Absent, s \notin excused'
               PROVE  cache[s] = Lookup(db, s)
    BY <1>h, <1>u DEF CachesAreTrue
  <2> QED
    BY <1>h, <1>e DEF AccountInv, CachesAreTrue, Replaced
<1> QED
  BY <1>1, <1>2, <1>3, <1>4, <1>u DEF AccountInv

\* The last stage: what the replaced account had is dropped or excused.
LEMMA AccountHandle ==
    ASSUME AccountInv, AccountHandled
    PROVE  AccountInv'
<1> DEFINE gone == IF handler.old = None THEN {} ELSE Invalidated(handler.old, handler.account)
           kept == IF handler.old = None THEN {} ELSE Forgotten(handler.old, handler.account)
<1>t. AccountTypes
  BY DEF AccountInv
<1>h. handler.at = "stored" /\ handler' = Idle /\ handler'.at = "idle"
  BY DEF AccountHandled, Idle
<1>u. UNCHANGED <<bound, updates, db, nodes, loads, lost>>
  BY DEF AccountHandled
<1>c. /\ cache' = [s \in Slots |-> IF s \in gone THEN Absent ELSE cache[s]]
      /\ excused' = (excused \ gone) \cup {s \in kept : cache[s] # Absent}
  BY DEF AccountHandled
<1>r. Replaced = gone \cup kept
  BY <1>h DEF Replaced
<1>k. kept \subseteq Slots
  BY <1>t, <1>h DEF AccountTypes, Account, Forgotten, Slots
<1> HIDE DEF gone, kept
<1>1. AccountTypes'
  BY <1>t, <1>h, <1>u, <1>c, <1>k DEF AccountTypes, AccountTypeOK
<1>2. BackendFollowsChain' /\ IndexSound(db)' /\ (~lost => IndexComplete(db))'
  BY <1>h, <1>u DEF AccountInv, BackendFollowsChain, IndexSound, IndexComplete
<1>3. LoadsAreTrue'
  BY <1>h, <1>u DEF AccountInv, LoadsAreTrue
<1>4. CachesAreTrue'
  <2> SUFFICES ASSUME NEW s \in Slots, cache'[s] # Absent, s \notin excused'
               PROVE  cache'[s] = Lookup(db, s)
    BY <1>h, <1>u DEF CachesAreTrue
  <2>1. s \notin gone /\ cache'[s] = cache[s] /\ s \notin kept /\ s \notin excused
    BY <1>c
  <2> QED
    BY <1>h, <1>r, <2>1 DEF AccountInv, CachesAreTrue
<1> QED
  BY <1>1, <1>2, <1>3, <1>4 DEF AccountInv

\* Every step of the accounts' handler, readers and consumer keeps the invariant.
LEMMA AccountNext ==
    ASSUME AccountInv, AccountStep \/ UNCHANGED accountVars
    PROVE  AccountInv'
<1>1. CASE UNCHANGED accountVars
  BY <1>1 DEF accountVars, AccountInv, AccountTypes, AccountTypeOK, BackendFollowsChain, Bindable,
              IndexSound, IndexComplete, LoadsAreTrue, CachesAreTrue, Replaced
<1>2. ASSUME NEW i \in Ids, EdgeSeen(i) PROVE AccountInv'
  <2>1. UNCHANGED <<bound, updates, db, cache, loads, handler, excused, lost>> /\ nodes' = nodes \cup {i}
    BY <1>2 DEF EdgeSeen
  <2> QED
    BY <2>1 DEF AccountInv, AccountTypes, AccountTypeOK, BackendFollowsChain, Bindable,
                IndexSound, IndexComplete, LoadsAreTrue, CachesAreTrue, Replaced
<1>3. CASE HandlerStep
  BY <1>3, AccountReceive, AccountStore, AccountLose, AccountHandle DEF HandlerStep
<1> QED
  BY <1>1, <1>2, <1>3, AccountSlot, AccountInvalidate DEF AccountStep, ConsumerStep

\* What the invariant says between updates.
LEMMA AccountResult ==
    AccountInv => AccountTypeOK /\ IndexesMatchScan /\ LookupsMatchBackend
<1> SUFFICES ASSUME AccountInv PROVE AccountTypeOK /\ IndexesMatchScan /\ LookupsMatchBackend
  OBVIOUS
<1>1. AccountTypeOK
  BY DEF AccountInv, AccountTypes
<1>2. IndexesMatchScan
  BY DbTyped, IndexIsScan DEF AccountInv, IndexesMatchScan
<1>3. LookupsMatchBackend
  BY DEF AccountInv, CachesAreTrue, LookupsMatchBackend, Idle, Replaced
<1> QED
  BY <1>1, <1>2, <1>3

\* The accounts as a whole, all slots and readers at once: the index tables answer
\* as a scan would, and the caches as the backend does, save for the named causes.
THEOREM AccountCachesCorrect ==
    AccountSpec => [](AccountTypeOK /\ IndexesMatchScan /\ LookupsMatchBackend)
<1>1. AccountInit /\ StreamInit => AccountInv
  BY AccountInitInv
<1>2. AccountInv /\ [AccountStep]_<<accountVars, streamVars>> => AccountInv'
  BY AccountNext DEF accountVars
<1> QED
  BY <1>1, <1>2, AccountResult, PTL DEF AccountSpec
-----------------------------------------------------------------------------
(* The channels: their caches follow the table. *)

FillType == [slot : CacheSlots, entry : ChannelEntry \cup {NoEntry}, overtaken : BOOLEAN]
TxType == [channel : Channels, kind : {"initiate", "finalize", "close_incoming"}]

ChannelTypes ==
    /\ ChannelTypeOK
    /\ fed \in [Channels -> ChannelEntry \cup {NoEntry}]
    /\ filling \subseteq FillType
    /\ sent \subseteq TxType
    /\ \/ feed = Waiting
       \/ /\ feed \in [at : {"stored", "cached"}, channel : Channels, entry : ChannelEntry \cup {NoEntry},
                       old : ChannelEntry \cup {NoEntry}]
          /\ channels[feed.channel] = feed.entry

\* A lookup that was not overtaken carries what is stored.
FillsAreTrue ==
    \A l \in filling : ~l.overtaken => l.entry = channels[l.slot[2]]

\* So does a cache, but for the update the handler is about to put there.
SlotsAreTrue ==
    \A s \in CacheSlots : cached[s] # NotCached /\ s \notin behind =>
        cached[s] = channels[s[2]] \/ (feed.at = "stored" /\ s[2] = feed.channel)

ChannelInv == ChannelTypes /\ FillsAreTrue /\ SlotsAreTrue

LEMMA SlotParts == \A s \in CacheSlots : s[2] \in Channels
BY DEF CacheSlots

LEMMA ChannelInitInv == ChannelInit => ChannelInv
<1> SUFFICES ASSUME ChannelInit PROVE ChannelInv
  OBVIOUS
<1>1. ChannelTypes
  BY ChannelAssumption DEF ChannelInit, ChannelTypes, ChannelTypeOK, Waiting
<1>2. FillsAreTrue /\ SlotsAreTrue
  BY DEF ChannelInit, FillsAreTrue, SlotsAreTrue
<1> QED
  BY <1>1, <1>2 DEF ChannelInv

\* What happens on chain touches nothing the node keeps.
LEMMA ChannelsOnChain ==
    ASSUME ChannelInv,
           UNCHANGED <<fed, edges, channels, cached, filling, feed, behind, untold>>,
           onChain' \in [Channels -> ChannelEntry \cup {NoEntry}], changes' \in 0..MaxChanges,
           elapsed' \subseteq Channels, sent' \subseteq sent
    PROVE  ChannelInv'
BY DEF ChannelInv, ChannelTypes, ChannelTypeOK, FillsAreTrue, SlotsAreTrue

LEMMA ChangeTyped ==
    ASSUME ChannelTypeOK, NEW c \in Channels, NEW e \in ChannelEntry, Change(c, e)
    PROVE  /\ onChain' \in [Channels -> ChannelEntry \cup {NoEntry}] /\ elapsed' \subseteq Channels
           /\ UNCHANGED <<fed, edges, channels, cached, filling, feed, behind, untold>>
BY DEF ChannelTypeOK, Change

LEMMA EntryChanges ==
    ASSUME NEW r \in ChannelEntry
    PROVE  /\ [r EXCEPT !.status = "PendingToClose"] \in ChannelEntry
           /\ [r EXCEPT !.status = "Closed", !.balance = 0] \in ChannelEntry
           /\ r.balance > 0 => [r EXCEPT !.balance = r.balance - 1, !.ticket_index = 1] \in ChannelEntry
           /\ \A b \in 1..MaxBalance : [r EXCEPT !.balance = b] \in ChannelEntry
<1>1. r \in [status : Statuses, balance : 0..MaxBalance, ticket_index : 0..1] /\ 0 \in 0..MaxBalance /\ 1 \in 0..1
  BY ChannelAssumption DEF ChannelEntry
<1>2. [r EXCEPT !.status = "Closed", !.balance = 0] = [[r EXCEPT !.status = "Closed"] EXCEPT !.balance = 0]
  OBVIOUS
<1>3. [r EXCEPT !.balance = r.balance - 1, !.ticket_index = 1]
        = [[r EXCEPT !.balance = r.balance - 1] EXCEPT !.ticket_index = 1]
  OBVIOUS
<1>4. \A v \in 0..MaxBalance : [r EXCEPT !.balance = v] \in ChannelEntry
  BY <1>1 DEF ChannelEntry
<1>5. \A v \in Statuses : [r EXCEPT !.status = v] \in ChannelEntry
  BY <1>1 DEF ChannelEntry
<1>6. \A x \in ChannelEntry : [x EXCEPT !.balance = 0] \in ChannelEntry /\ [x EXCEPT !.ticket_index = 1] \in ChannelEntry
  BY <1>1 DEF ChannelEntry
<1>7. r.balance > 0 => r.balance - 1 \in 0..MaxBalance
  BY <1>1, ChannelAssumption
<1>8. {"PendingToClose", "Closed"} \subseteq Statuses /\ 1..MaxBalance \subseteq 0..MaxBalance
  BY ChannelAssumption DEF Statuses
<1> QED
  BY <1>2, <1>3, <1>4, <1>5, <1>6, <1>7, <1>8

LEMMA ClosureTyped ==
    ASSUME ChannelTypeOK, NEW c \in Channels, Initiated(c) \/ Closed(c)
    PROVE  /\ onChain' \in [Channels -> ChannelEntry \cup {NoEntry}] /\ elapsed' \subseteq Channels
           /\ UNCHANGED <<fed, edges, channels, cached, filling, feed, behind, untold>>
<1>1. onChain[c] \in ChannelEntry
  BY DEF ChannelTypeOK, Initiated, Closed
<1>2. /\ [onChain[c] EXCEPT !.status = "PendingToClose"] \in ChannelEntry
      /\ [onChain[c] EXCEPT !.status = "Closed", !.balance = 0] \in ChannelEntry
  BY <1>1, EntryChanges
<1> QED
  BY <1>2, ChangeTyped DEF Initiated, Closed

LEMMA ChannelChain ==
    ASSUME ChannelInv, NEW c \in Channels, ChainStep(c)
    PROVE  ChannelInv'
<1>t. ChannelTypeOK /\ onChain[c] \in ChannelEntry \cup {NoEntry}
  BY DEF ChannelInv, ChannelTypes, ChannelTypeOK
<1>b. ByOthers => changes' \in 0..MaxChanges /\ sent' = sent
  BY <1>t, ChannelAssumption DEF ChannelTypeOK, ByOthers
<1>1. CASE Funded(c)
  <2>1. PICK b \in 1..MaxBalance :
            IF onChain[c] = NoEntry \/ onChain[c].status = "Closed"
            THEN Change(c, [status |-> "Open", balance |-> b, ticket_index |-> 0])
            ELSE onChain[c].status = "Open" /\ Change(c, [onChain[c] EXCEPT !.balance = b])
    BY <1>1 DEF Funded
  <2>2. [status |-> "Open", balance |-> b, ticket_index |-> 0] \in ChannelEntry
    BY ChannelAssumption DEF ChannelEntry, Statuses
  <2>3. onChain[c] # NoEntry => [onChain[c] EXCEPT !.balance = b] \in ChannelEntry
    BY <1>t, EntryChanges
  <2>4. ByOthers
    BY <1>1 DEF Funded
  <2> QED
    BY <1>t, <1>b, <2>1, <2>2, <2>3, <2>4, ChangeTyped, ChannelsOnChain
<1>2. CASE Redeemed(c)
  <2>1. [onChain[c] EXCEPT !.balance = onChain[c].balance - 1, !.ticket_index = 1] \in ChannelEntry
    BY <1>2, <1>t, EntryChanges DEF Redeemed
  <2>2. ByOthers
    BY <1>2 DEF Redeemed
  <2>3. Change(c, [onChain[c] EXCEPT !.balance = onChain[c].balance - 1, !.ticket_index = 1])
    BY <1>2 DEF Redeemed
  <2> QED
    BY <1>t, <1>b, <2>1, <2>2, <2>3, ChangeTyped, ChannelsOnChain
<1>3. CASE CounterpartyCloses(c)
  <2>1. ByOthers /\ (Initiated(c) \/ Closed(c))
    BY <1>3 DEF CounterpartyCloses
  <2> QED
    BY <1>t, <1>b, <2>1, ClosureTyped, ChannelsOnChain
<1>4. CASE NoticePeriodEnds(c)
  BY <1>4, <1>t, ChannelsOnChain DEF NoticePeriodEnds, ChannelTypeOK
<1> QED
  BY <1>1, <1>2, <1>3, <1>4 DEF ChainStep

LEMMA ClosingTxKinds ==
    ASSUME NEW c, NEW e
    PROVE  ClosingTx(c, e) \in {"none", "initiate", "finalize", "close_incoming"}
BY DEF ClosingTx

LEMMA ChannelCloser ==
    ASSUME ChannelInv, NEW c \in Channels, CloserStep(c)
    PROVE  ChannelInv'
<1>t. ChannelTypes /\ ChannelTypeOK /\ sent \subseteq TxType
  BY DEF ChannelInv, ChannelTypes
<1>1. CASE CloseChannel(c)
  <2> DEFINE s == <<"channel_by_id", c>>
             e == IF cached[s] = NotCached THEN GetChannelById(c) ELSE cached[s]
             tx == [channel |-> c, kind |-> ClosingTx(c, e)]
  <2>1. /\ sent' = sent \cup {tx} /\ cached' = [cached EXCEPT ![s] = e] /\ ClosingTx(c, e) # "none"
        /\ UNCHANGED <<onChain, changes, elapsed, fed, edges, channels, filling, feed, behind, untold>>
    BY <1>1 DEF CloseChannel
  <2>2. s \in CacheSlots /\ s[2] = c
    BY DEF CacheSlots
  <2>3. tx \in TxType
    BY <2>1, ClosingTxKinds DEF TxType
  <2>4. e \in ChannelEntry \cup {NoEntry}
    BY <1>t, <2>2 DEF ChannelTypeOK, GetChannelById
  <2>5. cached[s] = NotCached => e = channels[s[2]]
    BY <2>2 DEF GetChannelById
  <2>6. cached[s] # NotCached => e = cached[s]
    OBVIOUS
  <2> HIDE DEF s, e, tx
  <2>7. ChannelTypes'
    BY <1>t, <2>1, <2>2, <2>3, <2>4 DEF ChannelTypes, ChannelTypeOK
  <2>8. SlotsAreTrue'
    BY <1>t, <2>1, <2>2, <2>5, <2>6 DEF ChannelInv, SlotsAreTrue, ChannelTypeOK
  <2>9. FillsAreTrue'
    BY <2>1 DEF ChannelInv, FillsAreTrue
  <2> QED
    BY <2>7, <2>8, <2>9 DEF ChannelInv
<1>2. ASSUME NEW tx \in sent, Executes(tx) PROVE ChannelInv'
  <2>1. tx.channel \in Channels
    BY <1>t DEF TxType
  <2>2. /\ Initiated(tx.channel) \/ Closed(tx.channel)
        /\ sent' = sent \ {tx} /\ changes' = changes
    BY <1>2 DEF Executes
  <2> QED
    BY <1>t, <2>1, <2>2, ClosureTyped, ChannelsOnChain DEF ChannelTypeOK
<1>3. ASSUME NEW tx \in sent, Reverts(tx) PROVE ChannelInv'
  <2>1. /\ sent' = sent \ {tx}
        /\ UNCHANGED <<onChain, changes, elapsed, fed, edges, channels, cached, filling, feed, behind, untold>>
    BY <1>3 DEF Reverts
  <2> QED
    BY <1>t, <2>1, ChannelsOnChain DEF ChannelTypeOK
<1> QED
  BY <1>1, <1>2, <1>3 DEF CloserStep

\* A reader fills, drops or leaves a slot.
LEMMA ChannelCache ==
    ASSUME ChannelInv, NEW s \in CacheSlots, CacheStep(s)
    PROVE  ChannelInv'
<1>t. /\ ChannelTypes /\ ChannelTypeOK /\ filling \subseteq FillType /\ s[2] \in Channels
      /\ cached \in [CacheSlots -> ChannelEntry \cup {NoEntry, NotCached}]
  BY SlotParts DEF ChannelInv, ChannelTypes, ChannelTypeOK
<1>1. CASE FillBegins(s)
  <2> DEFINE l == [slot |-> s, entry |-> channels[s[2]], overtaken |-> FALSE]
  <2>1. /\ filling' = filling \cup {l}
        /\ UNCHANGED <<onChain, changes, elapsed, fed, edges, channels, cached, feed, sent, behind, untold>>
    BY <1>1 DEF FillBegins, GetChannelById
  <2>2. l \in FillType /\ l.entry = channels[l.slot[2]]
    BY <1>t DEF FillType, ChannelTypeOK
  <2> HIDE DEF l
  <2>3. ChannelTypes'
    BY <1>t, <2>1, <2>2 DEF ChannelTypes, ChannelTypeOK
  <2>4. SlotsAreTrue' /\ FillsAreTrue'
    BY <2>1, <2>2 DEF ChannelInv, SlotsAreTrue, FillsAreTrue
  <2> QED
    BY <2>3, <2>4 DEF ChannelInv
<1>2. CASE Dropped(s)
  <2>1. /\ cached' = [cached EXCEPT ![s] = NotCached] /\ behind' = behind \ {s}
        /\ UNCHANGED <<onChain, changes, elapsed, fed, edges, channels, filling, feed, sent, untold>>
    BY <1>2 DEF Dropped
  <2>2. ChannelTypes'
    BY <1>t, <2>1 DEF ChannelTypes, ChannelTypeOK
  <2>3. SlotsAreTrue' /\ FillsAreTrue'
    BY <1>t, <2>1 DEF ChannelInv, SlotsAreTrue, FillsAreTrue
  <2> QED
    BY <2>2, <2>3 DEF ChannelInv
<1>3. ASSUME NEW l \in filling, l.slot = s, FillEnds(l) PROVE ChannelInv'
  <2>1. /\ filling' = filling \ {l} /\ cached' = [cached EXCEPT ![s] = l.entry]
        /\ behind' = IF l.overtaken THEN behind \cup {s} ELSE behind \ {s}
        /\ UNCHANGED <<onChain, changes, elapsed, fed, edges, channels, feed, sent, untold>>
    BY <1>3 DEF FillEnds
  <2>2. l.entry \in ChannelEntry \cup {NoEntry}
    BY <1>t DEF FillType
  <2>3. ChannelTypes'
    BY <1>t, <2>1, <2>2 DEF ChannelTypes, ChannelTypeOK
  <2>4. FillsAreTrue'
    BY <2>1 DEF ChannelInv, FillsAreTrue
  <2>5. ~l.overtaken => l.entry = channels[s[2]]
    BY <1>3 DEF ChannelInv, FillsAreTrue
  <2>6. SlotsAreTrue'
    BY <1>t, <2>1, <2>5 DEF ChannelInv, SlotsAreTrue
  <2> QED
    BY <2>3, <2>4, <2>6 DEF ChannelInv
<1> QED
  BY <1>1, <1>2, <1>3 DEF CacheStep

\* Storing an update marks the lookups it overtakes.
LEMMA ChannelReceive ==
    ASSUME ChannelInv, NEW c \in Channels, ChannelReceived(c)
    PROVE  ChannelInv'
<1>t. ChannelTypes /\ ChannelTypeOK /\ filling \subseteq FillType
  BY DEF ChannelInv, ChannelTypes
<1>o. onChain[c] \in ChannelEntry \cup {NoEntry} /\ channels[c] \in ChannelEntry \cup {NoEntry}
  BY <1>t DEF ChannelTypeOK
<1>1. /\ channels' = [channels EXCEPT ![c] = onChain[c]]
      /\ feed' = [at |-> "stored", channel |-> c, entry |-> onChain[c], old |-> channels[c]]
      /\ filling' = {[l EXCEPT !.overtaken = l.overtaken \/ l.slot[2] = c] : l \in filling}
      /\ fed' = [fed EXCEPT ![c] = onChain[c]] /\ edges' = edges \cup {c}
      /\ UNCHANGED <<onChain, changes, elapsed, cached, sent, behind, untold>>
      /\ feed = Waiting /\ feed.at = "idle"
  BY DEF ChannelReceived, Fed, Waiting
<1>2. feed'.at = "stored" /\ feed'.channel = c /\ feed'.entry = onChain[c]
  BY <1>1
<1> DEFINE Marked(l) == [l EXCEPT !.overtaken = l.overtaken \/ l.slot[2] = c]
<1>3. ASSUME NEW l \in filling
      PROVE  Marked(l) \in FillType /\ (~Marked(l).overtaken => Marked(l) = l /\ l.slot[2] # c)
  <2>1. l \in FillType /\ l.overtaken \in BOOLEAN
    BY <1>t DEF FillType
  <2>2. Marked(l) \in FillType /\ Marked(l).overtaken = (l.overtaken \/ l.slot[2] = c)
    BY <2>1 DEF FillType
  <2>3. l.overtaken = FALSE => [l EXCEPT !.overtaken = FALSE] = l
    BY <2>1 DEF FillType
  <2> QED
    BY <2>1, <2>2, <2>3
<1> HIDE DEF Marked
<1>4. \A n \in filling' : \E l \in filling : n = Marked(l)
  BY <1>1 DEF Marked
<1>5. filling' \subseteq FillType /\ \A n \in filling' : ~n.overtaken => n \in filling /\ n.slot[2] # c
  BY <1>3, <1>4
<1>6. \A d \in Channels : channels'[d] = IF d = c THEN onChain[c] ELSE channels[d]
  BY <1>1, <1>t DEF ChannelTypeOK
<1>7. ChannelTypes'
  <2>1. ChannelTypeOK'
    BY <1>t, <1>o, <1>1, <1>2 DEF ChannelTypeOK
  <2>2. fed' \in [Channels -> ChannelEntry \cup {NoEntry}]
    BY <1>t, <1>o, <1>1 DEF ChannelTypes
  <2>3. feed' \in [at : {"stored", "cached"}, channel : Channels, entry : ChannelEntry \cup {NoEntry},
                       old : ChannelEntry \cup {NoEntry}]
    BY <1>o, <1>1
  <2> QED
    BY <1>t, <1>1, <1>2, <1>5, <1>6, <2>1, <2>2, <2>3 DEF ChannelTypes
<1>8. FillsAreTrue'
  BY <1>t, <1>5, <1>6, SlotParts DEF ChannelInv, FillsAreTrue, FillType
<1>9. SlotsAreTrue'
  BY <1>1, <1>2, <1>6, SlotParts DEF ChannelInv, SlotsAreTrue
<1> QED
  BY <1>7, <1>8, <1>9 DEF ChannelInv

LEMMA ChannelFeed ==
    ASSUME ChannelInv, FeedStep
    PROVE  ChannelInv'
<1>t. ChannelTypes /\ ChannelTypeOK /\ fed \in [Channels -> ChannelEntry \cup {NoEntry}]
  BY DEF ChannelInv, ChannelTypes
<1>1. ASSUME NEW c \in Channels, ChannelNotStored(c) PROVE ChannelInv'
  <2>1. /\ fed' = [fed EXCEPT ![c] = onChain[c]] /\ edges' = edges \cup {c}
        /\ UNCHANGED <<onChain, changes, elapsed, channels, cached, filling, feed, sent, behind, untold>>
    BY <1>1 DEF ChannelNotStored, Fed
  <2>2. ChannelTypes'
    BY <1>t, <2>1 DEF ChannelTypes, ChannelTypeOK
  <2> QED
    BY <2>1, <2>2 DEF ChannelInv, FillsAreTrue, SlotsAreTrue
<1>2. CASE FeedReconnects
  <2>1. /\ fed' \in [Channels -> ChannelEntry \cup {NoEntry}] /\ changes' \in 0..MaxChanges
        /\ UNCHANGED <<onChain, elapsed, edges, channels, cached, filling, feed, sent, behind, untold>>
    BY <1>2, <1>t, ChannelAssumption DEF FeedReconnects, ChannelTypeOK
  <2>2. ChannelTypes'
    BY <1>t, <2>1 DEF ChannelTypes, ChannelTypeOK
  <2> QED
    BY <2>1, <2>2 DEF ChannelInv, FillsAreTrue, SlotsAreTrue
<1>3. CASE ChannelCached
  <2>1. /\ feed.at = "stored" /\ feed' = [feed EXCEPT !.at = "cached"]
        /\ cached' = [s \in CacheSlots |-> IF s \in UpdatedSlots(feed.channel) THEN feed.entry ELSE cached[s]]
        /\ behind' = behind \ UpdatedSlots(feed.channel)
        /\ UNCHANGED <<onChain, changes, elapsed, fed, edges, channels, filling, sent, untold>>
    BY <1>3 DEF ChannelCached
  <2>2. /\ feed \in [at : {"stored", "cached"}, channel : Channels, entry : ChannelEntry \cup {NoEntry},
                       old : ChannelEntry \cup {NoEntry}]
        /\ channels[feed.channel] = feed.entry
    BY <1>t, <2>1 DEF ChannelTypes, Waiting
  <2>3. /\ feed' \in [at : {"stored", "cached"}, channel : Channels, entry : ChannelEntry \cup {NoEntry},
                       old : ChannelEntry \cup {NoEntry}]
        /\ feed'.at = "cached" /\ feed'.channel = feed.channel /\ feed'.entry = feed.entry
    BY <2>1, <2>2
  <2>4. feed.channel \in Channels /\ feed.entry \in ChannelEntry \cup {NoEntry}
    BY <2>2
  <2>5. ChannelTypes'
    BY <1>t, <2>1, <2>2, <2>3, <2>4 DEF ChannelTypes, ChannelTypeOK
  <2>6. \A s \in CacheSlots : s \in UpdatedSlots(feed.channel) <=> s[2] = feed.channel
    BY <2>4 DEF CacheSlots, UpdatedSlots
  <2>7. SlotsAreTrue'
    BY <2>1, <2>2, <2>3, <2>6 DEF ChannelInv, SlotsAreTrue
  <2>8. FillsAreTrue'
    BY <2>1 DEF ChannelInv, FillsAreTrue
  <2> QED
    BY <2>5, <2>7, <2>8 DEF ChannelInv
<1>4. CASE ChannelTold
  <2>1. /\ feed.at = "cached" /\ feed' = Waiting
        /\ UNCHANGED <<onChain, changes, elapsed, fed, edges, channels, cached, filling, sent, behind>>
        /\ untold' \subseteq untold \cup {feed.channel}
    BY <1>4 DEF ChannelTold
  <2>2. feed.channel \in Channels
    BY <1>t, <2>1 DEF ChannelTypes, Waiting
  <2>3. ChannelTypes'
    BY <1>t, <2>1, <2>2 DEF ChannelTypes, ChannelTypeOK, Waiting
  <2> QED
    BY <2>1, <2>3 DEF ChannelInv, FillsAreTrue, SlotsAreTrue
<1> QED
  BY <1>1, <1>2, <1>3, <1>4, ChannelReceive DEF FeedStep

\* Every step of the chain, the handler, the readers, the closer and the consumer
\* keeps the invariant.
LEMMA ChannelNext ==
    ASSUME ChannelInv, ChannelStep \/ UNCHANGED channelVars
    PROVE  ChannelInv'
<1>1. CASE UNCHANGED channelVars
  BY <1>1 DEF channelVars, ChannelInv, ChannelTypes, ChannelTypeOK, FillsAreTrue, SlotsAreTrue
<1> QED
  BY <1>1, ChannelFeed, ChannelChain, ChannelCloser, ChannelCache DEF ChannelStep, SubscriberStep

LEMMA ChannelResult == ChannelInv => ChannelTypeOK /\ CachedChannelsAreStored
BY DEF ChannelInv, ChannelTypes, SlotsAreTrue, CachedChannelsAreStored

\* The channels as a whole, all slots, readers and closing calls at once: between
\* updates a cached channel is the stored one, save for the named cause.
THEOREM ChannelCachesCorrect ==
    ChannelSpec => [](ChannelTypeOK /\ CachedChannelsAreStored)
<1>1. ChannelInit /\ StreamInit => ChannelInv
  BY ChannelInitInv
<1>2. ChannelInv /\ [ChannelStep]_<<channelVars, streamVars>> => ChannelInv'
  BY ChannelNext DEF channelVars
<1> QED
  BY <1>1, <1>2, ChannelResult, PTL DEF ChannelSpec
-----------------------------------------------------------------------------
(* The ticket parameters: what is kept of them follows the feed. *)

ValueTypes ==
    /\ params \in Params /\ values \in Params \cup {NoParams} /\ ticketValues \in Params \cup {NoParams}
    /\ update \in Params \cup {NoParams} /\ due \in BOOLEAN /\ connected \in BOOLEAN
    /\ query = NoQuery \/ query \in [answer : Params, overtaken : BOOLEAN]
    /\ connected => ticketValues # NoParams
    /\ ~connected => due

\* When the feed has nothing to deliver, the pair for ticket checks, the update
\* in hand and what came of a query are the parameters on chain.
ValuesFollow ==
    ~due =>
        /\ ticketValues = params
        /\ update # NoParams => update = params
        /\ update = NoParams =>
            /\ values # NoParams /\ ~outdated => values = params
            /\ query # NoQuery /\ ~query.overtaken => query.answer = params

ValueInv == ValueTypes /\ ValuesFollow

LEMMA ValueInitInv == ValueInit => ValueInv
BY DEF ValueInit, ValueInv, ValueTypes, ValuesFollow

\* The pair becomes the update, whichever of the two fields differ.
LEMMA TicketValuesFollow ==
    ASSUME NEW current \in Params, NEW new \in Params
    PROVE  NewTicketValues(current, new) = new
<1>1. current.prob = new.prob => [current EXCEPT !.price = new.price] = new
  BY DEF Params
<1>2. current.price = new.price => [current EXCEPT !.prob = new.prob] = new
  BY DEF Params
<1> QED
  BY <1>1, <1>2, ParamAssumption DEF NewTicketValues

LEMMA ValueNext ==
    ASSUME ValueInv, ValueStep \/ UNCHANGED valueVars
    PROVE  ValueInv'
<1>t. ValueTypes /\ ValuesFollow
  BY DEF ValueInv
<1>n. NoParams \notin Params
  BY ParamAssumption
<1>1. CASE UNCHANGED valueVars
  BY <1>1, <1>t DEF valueVars, ValueInv, ValueTypes, ValuesFollow
<1>2. CASE ParamsChange
  BY <1>2, <1>t DEF ParamsChange, ValueInv, ValueTypes, ValuesFollow
<1>3. CASE QueryBegins
  <2>1. query' \in [answer : Params, overtaken : BOOLEAN] /\ query'.answer = params
    BY <1>3, <1>t DEF QueryBegins, ValueTypes
  <2> QED
    BY <1>3, <1>t, <2>1 DEF QueryBegins, ValueInv, ValueTypes, ValuesFollow
<1>4. CASE QueryEnds
  <2>1. query \in [answer : Params, overtaken : BOOLEAN] /\ query.answer \in Params
    BY <1>4, <1>t DEF QueryEnds, ValueTypes
  <2>2. query' = NoQuery
    BY <1>4 DEF QueryEnds
  <2>3. ValueTypes'
    BY <1>4, <1>t, <2>1, <2>2 DEF QueryEnds, ValueTypes
  <2>4. ValuesFollow'
    BY <1>4, <1>t, <2>1, <2>2 DEF QueryEnds, ValuesFollow
  <2> QED
    BY <2>3, <2>4 DEF ValueInv
<1>5. CASE ConnectReads
  BY <1>5, <1>t DEF ConnectReads, ValueInv, ValueTypes, ValuesFollow
<1>6. CASE InvalidateValues
  BY <1>6, <1>t DEF InvalidateValues, ValueInv, ValueTypes, ValuesFollow
<1>7. CASE ParamsReceived
  <2>1. NewTicketValues(ticketValues, params) = params
    BY <1>7, <1>t, TicketValuesFollow DEF ParamsReceived, ValueTypes
  <2> QED
    BY <1>7, <1>t, <1>n, <2>1 DEF ParamsReceived, ValueInv, ValueTypes, ValuesFollow
<1>8. CASE ParamsHandled
  <2>1. /\ update \in Params /\ update' = NoParams
        /\ values' = IF values = NoParams THEN NoParams ELSE update
        /\ outdated' = (outdated /\ values = NoParams)
        /\ query' = IF query = NoQuery THEN query ELSE [query EXCEPT !.overtaken = TRUE]
        /\ UNCHANGED <<params, paramChanges, connected, ticketValues, due>>
    BY <1>8, <1>t DEF ParamsHandled, Patched, ValueTypes
  <2>2. \/ query' = NoQuery
        \/ query' \in [answer : Params, overtaken : BOOLEAN] /\ query'.overtaken = TRUE
    BY <1>t, <2>1 DEF ValueTypes
  <2>3. ValueTypes'
    BY <1>t, <2>1, <2>2 DEF ValueTypes
  <2>4. ValuesFollow'
    BY <1>t, <1>n, <2>1, <2>2 DEF ValuesFollow, ValueTypes
  <2> QED
    BY <2>3, <2>4 DEF ValueInv
<1> QED
  BY <1>1, <1>2, <1>3, <1>4, <1>5, <1>6, <1>7, <1>8 DEF ValueStep

LEMMA ValueResult == ValueInv => ValuesFollowTheChain
BY DEF ValueInv, ValueTypes, ValuesFollow, ValuesFollowTheChain, IncomingTicketValues, ServedValues, ReaderValues
-----------------------------------------------------------------------------
(* The registry-wide configuration: what was told adds up. *)

Configs == [{"fee", "pointer"} -> Fees]

\* A configuration, as the function from its two settings that it is.
LEMMA ConfigIsFunction ==
    /\ [fee : Fees, pointer : Fees] = Configs
    /\ NoConfig = [f \in {"fee", "pointer"} |-> Nothing]
    /\ NoConfig \notin Configs
<1>1. ASSUME NEW c \in [fee : Fees, pointer : Fees] PROVE c \in Configs
  BY DEF Configs
<1>2. ASSUME NEW c \in Configs PROVE c \in [fee : Fees, pointer : Fees]
  BY DEF Configs
<1>3. NoConfig = [f \in {"fee", "pointer"} |-> Nothing]
  BY DEF NoConfig
<1>4. NoConfig \notin Configs
  BY <1>3, RegistryAssumption DEF Configs
<1> QED
  BY <1>1, <1>2, <1>3, <1>4

\* A consumer of its own stream was told what it saw last.  Of the connector's,
\* every setting is the one handled last, or still the initial one and untold.
ConfigInv ==
    /\ config \in Configs
    /\ previous \in Configs \cup {NoConfig} /\ told = previous
    /\ \/ handled = [first |-> NoConfig, last |-> NoConfig] /\ live = NoConfig
       \/ /\ handled \in [first : Configs, last : Configs] /\ live \in [{"fee", "pointer"} -> Fees \cup {Nothing}]
          /\ \A f \in {"fee", "pointer"} :
                live[f] = handled.last[f] \/ (live[f] = Nothing /\ handled.first[f] = handled.last[f])

LEMMA ConfigInitInv == RegistryInit => ConfigInv
BY ConfigIsFunction DEF RegistryInit, ConfigInv

LEMMA ConfigNext ==
    ASSUME ConfigInv, TaskStep \/ ServiceStep \/ ConfigStep \/ UNCHANGED registryVars
    PROVE  ConfigInv'
<1>c. config \in Configs /\ NoConfig = [f \in {"fee", "pointer"} |-> Nothing] /\ NoConfig \notin Configs /\ Nothing \notin Fees
  BY ConfigIsFunction, RegistryAssumption DEF ConfigInv
<1>1. CASE UNCHANGED <<config, previous, told, handled, live>>
  BY <1>1 DEF ConfigInv
<1>2. CASE ConfigChanges
  BY <1>2, ConfigIsFunction DEF ConfigChanges, ConfigInv
<1>3. CASE ConfigHandled
  <2> DEFINE first == IF handled.first = NoConfig THEN config ELSE handled.first
  <2>1. /\ handled' = [first |-> first, last |-> config]
        /\ live' = IF handled.first = NoConfig THEN live ELSE After(live, ConfigEvents(config, handled.last))
        /\ UNCHANGED <<config, previous, told>>
    BY <1>3 DEF ConfigHandled
  <2>2. CASE handled = [first |-> NoConfig, last |-> NoConfig] /\ live = NoConfig
    <3>1. first = config /\ live' = live
      BY <2>1, <2>2
    <3>2. handled' \in [first : Configs, last : Configs] /\ handled'.first = config /\ handled'.last = config
      BY <1>c, <2>1, <3>1
    <3>3. live' = [f \in {"fee", "pointer"} |-> Nothing]
      BY <1>c, <2>2, <3>1
    <3> QED
      BY <2>1, <3>2, <3>3 DEF ConfigInv
  <2>3. CASE /\ handled \in [first : Configs, last : Configs] /\ live \in [{"fee", "pointer"} -> Fees \cup {Nothing}]
             /\ \A f \in {"fee", "pointer"} :
                   live[f] = handled.last[f] \/ (live[f] = Nothing /\ handled.first[f] = handled.last[f])
    <3>1. first = handled.first /\ handled.first \in Configs /\ handled.last \in Configs
          /\ live' = After(live, ConfigEvents(config, handled.last))
      BY <1>c, <2>1, <2>3
    <3>2. handled' \in [first : Configs, last : Configs] /\ handled'.first = handled.first /\ handled'.last = config
      BY <1>c, <2>1, <3>1
    <3>3. \A f \in {"fee", "pointer"} :
              live'[f] = IF handled.last[f] = Nothing \/ handled.last[f] # config[f] THEN config[f] ELSE live[f]
      BY <3>1 DEF After, ConfigEvents
    <3>4. live' \in [{"fee", "pointer"} -> Fees \cup {Nothing}]
      BY <1>c, <2>3, <3>1 DEF After, Configs
    <3> QED
      BY <2>1, <2>3, <3>2, <3>3, <3>4 DEF ConfigInv
  <2> QED
    BY <2>2, <2>3 DEF ConfigInv
<1>4. CASE ConfigSeen
  <2>1. previous' = config /\ told' = After(previous, ConfigEvents(config, previous)) /\ UNCHANGED <<config, handled, live>>
    BY <1>4 DEF ConfigSeen, ConfigInv
  <2>2. \A f \in {"fee", "pointer"} : told'[f] = config[f]
    BY <2>1 DEF After, ConfigEvents
  <2>3. told' = config
    BY <1>c, <2>1, <2>2 DEF After, Configs
  <2> QED
    BY <1>c, <2>1, <2>3 DEF ConfigInv
<1>5. CASE TaskStep
  BY <1>5, <1>1 DEF TaskStep, ReadTypes, ReadEntries, ReadFails, Subscribe
<1>6. CASE ServiceStep
  <2>1. \/ \E e \in Entries : Registered(e) \/ Updated(e) \/ Deregistered(e)
        \/ \E t \in Types : TypeRegistered(t) \/ \E f \in TypeFields : TypeChanged(t, f)
        \/ BlockTimePasses \/ HandleUpdate
    BY <1>6 DEF ServiceStep
  <2>2. CASE Write
    BY <2>2, <1>1 DEF Write
  <2> QED
    BY <2>1, <2>2, <1>1 DEF Registered, Updated, Deregistered, TypeRegistered, TypeChanged, BlockTimePasses, HandleUpdate
<1> QED
  BY <1>1, <1>2, <1>3, <1>4, <1>5, <1>6 DEF ConfigStep, registryVars

LEMMA ConfigResult == ConfigInv => ConfigIsKnown
<1> SUFFICES ASSUME ConfigInv, handled.last = config
             PROVE  \A f \in {"fee", "pointer"} :
                        live[f] = (IF live[f] = Nothing /\ handled.first[f] = config[f] THEN Nothing ELSE config[f])
  BY DEF ConfigInv, ConfigIsKnown
<1>1. handled # [first |-> NoConfig, last |-> NoConfig]
  BY ConfigIsFunction DEF ConfigInv
<1> QED
  BY <1>1 DEF ConfigInv
-----------------------------------------------------------------------------
(* The registry: which registrations of the replay are suppressed. *)

EntryUpdate == [kind : {"registered", "updated", "deregistered"}, key : Entries, entry : ServiceEntry, replay : BOOLEAN]
TypeUpdate == [kind : {"type_registered"} \cup TypeFields, key : Types, entry : [TypeFields -> {0, 1}], replay : BOOLEAN]
RegistryUpdate == EntryUpdate \cup TypeUpdate
EntryTable == [Entries -> ServiceEntry \cup {Nothing}]
TypeTable == [Types -> [TypeFields -> {0, 1}] \cup {Nothing}]

RegistryTypes ==
    /\ time \in 0..MaxTime /\ registry \in EntryTable /\ types \in TypeTable
    /\ connecting \in {"start", "types read", "read", "subscribed"}
    /\ asRead \in [entries : EntryTable, types : TypeTable]
    /\ atSubscription \in [entries : EntryTable, types : TypeTable]
    /\ replayedServices \in EntryTable /\ replayedTypes \subseteq Types
    /\ backlog \in Seq(RegistryUpdate)

\* What was read and is not replayed yet is as it was read; types stay.
RecordsAreRead ==
    /\ \A e \in Entries : replayedServices[e] \in {Nothing, asRead.entries[e]}
    /\ \A t \in Types : /\ t \in replayedTypes => asRead.types[t] # Nothing
                        /\ asRead.types[t] # Nothing => types[t] # Nothing
    /\ connecting # "subscribed" =>
        /\ backlog = <<>> /\ replayedServices = asRead.entries
        /\ replayedTypes = {t \in Types : asRead.types[t] # Nothing}

\* The replay precedes what is live and repeats nothing; while the replay of an
\* entry or type is pending, its record is as it was read.
ReplayIsFirst ==
    \A i \in 1..Len(backlog) :
        /\ backlog[i].replay =>
            /\ \A j \in 1..Len(backlog) :
                /\ j < i => backlog[j].replay
                /\ j # i /\ backlog[j].replay => <<backlog[j].kind, backlog[j].key>> # <<backlog[i].kind, backlog[i].key>>
            /\ \/ /\ backlog[i].kind = "registered" /\ backlog[i].entry = atSubscription.entries[backlog[i].key]
                  /\ replayedServices[backlog[i].key] = asRead.entries[backlog[i].key]
               \/ /\ backlog[i].kind = "type_registered"
                  /\ backlog[i].key \in replayedTypes <=> asRead.types[backlog[i].key] # Nothing
        /\ ~backlog[i].replay /\ backlog[i].kind = "type_registered" => asRead.types[backlog[i].key] = Nothing

ReplayPending(e) ==
    \E i \in 1..Len(backlog) : backlog[i].replay /\ backlog[i].kind = "registered" /\ backlog[i].key = e

\* A record that outlives the replay is of an entry that was not replayed as it
\* was read.
RecordsLeftOver ==
    connecting = "subscribed" =>
        \A e \in Entries : replayedServices[e] # Nothing /\ replayedServices[e] = atSubscription.entries[e] => ReplayPending(e)

ReplayInv == RegistryTypes /\ RecordsAreRead /\ ReplayIsFirst /\ RecordsLeftOver /\ misjudged = {}

\* A finite set's listing has every element once.
LEMMA Listing ==
    ASSUME NEW S, IsFiniteSet(S)
    PROVE  /\ SetToSeq(S) \in Seq(S)
           /\ \A i, j \in 1..Len(SetToSeq(S)) : SetToSeq(S)[i] = SetToSeq(S)[j] => i = j
           /\ \A x \in S : \E i \in 1..Len(SetToSeq(S)) : SetToSeq(S)[i] = x
<1> DEFINE n == Cardinality(S)
<1>1. n \in Nat /\ ExistsBijection(1..n, S)
  BY FS_CardinalityType
<1>2. PICK b \in Bijection(1..n, S) : TRUE
  BY <1>1 DEF ExistsBijection
<1>3. b \in [1..n -> S] /\ IsInjective(b)
  BY <1>2 DEF Bijection, Injection
<1> DEFINE f == SetToSeq(S)
<1>4. f \in [1..n -> S] /\ IsInjective(f)
  BY <1>3 DEF SetToSeq
<1> HIDE DEF f, n
<1>5. f \in Injection(1..n, S)
  BY <1>4 DEF Injection
<1>6. Cardinality(1..n) = n /\ IsFiniteSet(1..n)
  <2>1. 1..n = {} \/ n > 0
    BY <1>1
  <2> QED
    BY <1>1, <2>1, FS_Interval, FS_EmptySet
<1>7. f \in Surjection(1..n, S)
  BY <1>5, <1>6, FS_Injection DEF n
<1>8. \A x \in S : \E i \in 1..n : f[i] = x
  BY <1>7 DEF Surjection
<1>9. f \in Seq(S) /\ Len(f) = n
  BY <1>1, <1>4
<1> QED
  BY <1>4, <1>8, <1>9 DEF IsInjective, f

\* The rest of a sequence.
LEMMA RestOf ==
    ASSUME NEW T, NEW s \in Seq(T), s # <<>>
    PROVE  /\ Tail(s) \in Seq(T) /\ Len(Tail(s)) = Len(s) - 1 /\ Len(s) \in Nat /\ Len(s) > 0
           /\ Head(s) = s[1] /\ \A i \in 1..Len(Tail(s)) : i + 1 \in 1..Len(s) /\ Tail(s)[i] = s[i + 1]
           /\ \A i \in 2..Len(s) : i - 1 \in 1..Len(Tail(s)) /\ Tail(s)[i - 1] = s[i]
OBVIOUS
-----------------------------------------------------------------------------
LEMMA ReplayInitInv == RegistryInit => ReplayInv
<1> SUFFICES ASSUME RegistryInit PROVE ReplayInv
  OBVIOUS
<1>1. [registered_at |-> 0, updated_at |-> 0] \in ServiceEntry /\ NewType \in [TypeFields -> {0, 1}]
  BY RegistryAssumption DEF ServiceEntry, NewType
<1>2. NoEntries \in EntryTable /\ NoTypes \in TypeTable
  BY DEF NoEntries, NoTypes, EntryTable, TypeTable
<1>3. NothingRead \in [entries : EntryTable, types : TypeTable] /\ NothingRead.entries = NoEntries /\ NothingRead.types = NoTypes
  BY <1>2 DEF NothingRead
<1>4. RegistryTypes
  BY <1>1, <1>2, <1>3, RegistryAssumption DEF RegistryInit, RegistryTypes, EntryTable, TypeTable
<1>5. RecordsAreRead
  BY <1>3 DEF RegistryInit, RecordsAreRead, NoEntries, NoTypes
<1>6. ReplayIsFirst /\ RecordsLeftOver
  BY DEF RegistryInit, ReplayIsFirst, RecordsLeftOver
<1> QED
  BY <1>4, <1>5, <1>6 DEF RegistryInit, ReplayInv

\* What the feed adds comes last and is live.
LEMMA Emitted ==
    ASSUME NEW kind, NEW key, NEW entry, Emit(kind, key, entry), backlog \in Seq(RegistryUpdate),
           [kind |-> kind, key |-> key, entry |-> entry, replay |-> FALSE] \in RegistryUpdate
    PROVE  /\ backlog' \in Seq(RegistryUpdate) /\ Len(backlog) \in Nat
           /\ \A i \in 1..Len(backlog) : i \in 1..Len(backlog') /\ backlog'[i] = backlog[i]
           /\ \A i \in 1..Len(backlog') :
                \/ i \in 1..Len(backlog)
                \/ /\ connecting = "subscribed" /\ i = Len(backlog) + 1
                   /\ backlog'[i] = [kind |-> kind, key |-> key, entry |-> entry, replay |-> FALSE]
           /\ connecting # "subscribed" => backlog' = backlog
           /\ connecting = "subscribed" => Len(backlog') = Len(backlog) + 1
                /\ backlog'[Len(backlog) + 1] = [kind |-> kind, key |-> key, entry |-> entry, replay |-> FALSE]
<1> DEFINE u == [kind |-> kind, key |-> key, entry |-> entry, replay |-> FALSE]
<1>1. backlog' = IF connecting = "subscribed" THEN Append(backlog, u) ELSE backlog
  BY DEF Emit
<1> HIDE DEF u
<1>2. u \in RegistryUpdate
  BY DEF u
<1> SUFFICES /\ backlog' \in Seq(RegistryUpdate) /\ Len(backlog) \in Nat
             /\ \A i \in 1..Len(backlog) : i \in 1..Len(backlog') /\ backlog'[i] = backlog[i]
             /\ \A i \in 1..Len(backlog') :
                  i \in 1..Len(backlog) \/ (connecting = "subscribed" /\ i = Len(backlog) + 1 /\ backlog'[i] = u)
             /\ connecting # "subscribed" => backlog' = backlog
             /\ connecting = "subscribed" => Len(backlog') = Len(backlog) + 1 /\ backlog'[Len(backlog) + 1] = u
  BY DEF u
<1> QED
  BY <1>1, <1>2

\* A change of the registry, told or not.
LEMMA ReplayLive ==
    ASSUME ReplayInv, NEW kind, NEW key, NEW entry, Write, Emit(kind, key, entry),
           [kind |-> kind, key |-> key, entry |-> entry, replay |-> FALSE] \in RegistryUpdate,
           registry' \in EntryTable, types' \in TypeTable,
           \A t \in Types : types[t] # Nothing => types'[t] # Nothing,
           kind = "type_registered" => asRead.types[key] = Nothing
    PROVE  ReplayInv'
<1>u. UNCHANGED <<time, connecting, asRead, atSubscription, replayedServices, replayedTypes, misjudged>>
  BY DEF Write
<1>t. RegistryTypes
  BY DEF ReplayInv
<1>e. /\ backlog' \in Seq(RegistryUpdate) /\ Len(backlog) \in Nat
      /\ \A i \in 1..Len(backlog) : i \in 1..Len(backlog') /\ backlog'[i] = backlog[i]
      /\ \A i \in 1..Len(backlog') :
           \/ i \in 1..Len(backlog)
           \/ /\ connecting = "subscribed" /\ i = Len(backlog) + 1
              /\ backlog'[i] = [kind |-> kind, key |-> key, entry |-> entry, replay |-> FALSE]
      /\ connecting # "subscribed" => backlog' = backlog
  BY <1>t, Emitted DEF RegistryTypes
<1>1. RegistryTypes'
  BY <1>t, <1>u, <1>e DEF RegistryTypes
<1>2. RecordsAreRead'
  BY <1>u, <1>e DEF ReplayInv, RecordsAreRead
<1>3. \A i \in 1..Len(backlog') :
        \/ i \in 1..Len(backlog) /\ backlog'[i] = backlog[i]
        \/ i = Len(backlog) + 1 /\ backlog'[i].replay = FALSE /\ backlog'[i].kind = kind /\ backlog'[i].key = key
  BY <1>e
<1>4. ReplayIsFirst'
  <2> SUFFICES ASSUME NEW i \in 1..Len(backlog')
               PROVE /\ backlog'[i].replay =>
                        /\ \A j \in 1..Len(backlog') :
                            /\ j < i => backlog'[j].replay
                            /\ j # i /\ backlog'[j].replay => <<backlog'[j].kind, backlog'[j].key>> # <<backlog'[i].kind, backlog'[i].key>>
                        /\ \/ /\ backlog'[i].kind = "registered" /\ backlog'[i].entry = atSubscription.entries[backlog'[i].key]
                              /\ replayedServices[backlog'[i].key] = asRead.entries[backlog'[i].key]
                           \/ /\ backlog'[i].kind = "type_registered"
                              /\ backlog'[i].key \in replayedTypes <=> asRead.types[backlog'[i].key] # Nothing
                     /\ ~backlog'[i].replay /\ backlog'[i].kind = "type_registered" => asRead.types[backlog'[i].key] = Nothing
    BY <1>u DEF ReplayIsFirst
  <2>1. CASE i \in 1..Len(backlog) /\ backlog'[i] = backlog[i]
    <3>1. ASSUME NEW j \in 1..Len(backlog'), backlog[i].replay
          PROVE /\ j < i => backlog'[j].replay
                /\ j # i /\ backlog'[j].replay => <<backlog'[j].kind, backlog'[j].key>> # <<backlog'[i].kind, backlog'[i].key>>
      BY <1>3, <1>e, <2>1, <3>1 DEF ReplayInv, ReplayIsFirst
    <3> QED
      BY <2>1, <3>1 DEF ReplayInv, ReplayIsFirst
  <2>2. CASE backlog'[i].replay = FALSE /\ backlog'[i].kind = kind /\ backlog'[i].key = key
    BY <2>2
  <2> QED
    BY <1>3, <2>1, <2>2
<1>5. RecordsLeftOver'
  BY <1>u, <1>e DEF ReplayInv, RecordsLeftOver, ReplayPending
<1> QED
  BY <1>1, <1>2, <1>4, <1>5, <1>u DEF ReplayInv

\* What a write makes of an entry or a type is one again.
LEMMA WritesTyped ==
    ASSUME RegistryTypes
    PROVE  /\ [registered_at |-> time, updated_at |-> time] \in ServiceEntry
           /\ \A e \in Entries : registry[e] # Nothing =>
                registry[e] \in ServiceEntry /\ [registry[e] EXCEPT !.updated_at = time] \in ServiceEntry
           /\ NewType \in [TypeFields -> {0, 1}]
           /\ \A t \in Types, f \in TypeFields : types[t] # Nothing =>
                [types[t] EXCEPT ![f] = 1 - types[t][f]] \in [TypeFields -> {0, 1}]
<1>1. time \in 0..MaxTime /\ \A e \in Entries : registry[e] # Nothing => registry[e] \in ServiceEntry
  BY DEF RegistryTypes, EntryTable
<1>2. \A r \in ServiceEntry : [r EXCEPT !.updated_at = time] \in ServiceEntry
  BY <1>1 DEF ServiceEntry
<1>3. [registered_at |-> time, updated_at |-> time] \in ServiceEntry
  BY <1>1 DEF ServiceEntry
<1>4. NewType \in [TypeFields -> {0, 1}]
  BY DEF NewType
<1>5. ASSUME NEW r \in [TypeFields -> {0, 1}], NEW f \in TypeFields
      PROVE  [r EXCEPT ![f] = 1 - r[f]] \in [TypeFields -> {0, 1}]
  <2>1. r[f] \in {0, 1} /\ 1 - r[f] \in {0, 1}
    BY SMT
  <2> QED
    BY <2>1
<1>6. \A t \in Types : types[t] # Nothing => types[t] \in [TypeFields -> {0, 1}]
  BY DEF RegistryTypes, TypeTable
<1> QED
  BY <1>1, <1>2, <1>3, <1>4, <1>5, <1>6

LEMMA ReplayWrite ==
    ASSUME ReplayInv,
           \/ \E e \in Entries : Registered(e) \/ Updated(e) \/ Deregistered(e)
           \/ \E t \in Types : TypeRegistered(t) \/ \E f \in TypeFields : TypeChanged(t, f)
    PROVE  ReplayInv'
<1>t. RegistryTypes /\ registry \in EntryTable /\ types \in TypeTable
  BY DEF ReplayInv, RegistryTypes
<1>w. /\ [registered_at |-> time, updated_at |-> time] \in ServiceEntry
      /\ \A e \in Entries : registry[e] # Nothing =>
           registry[e] \in ServiceEntry /\ [registry[e] EXCEPT !.updated_at = time] \in ServiceEntry
      /\ NewType \in [TypeFields -> {0, 1}]
      /\ \A t \in Types, f \in TypeFields : types[t] # Nothing =>
           [types[t] EXCEPT ![f] = 1 - types[t][f]] \in [TypeFields -> {0, 1}]
  BY <1>t, WritesTyped
<1>n. Nothing \notin [TypeFields -> {0, 1}]
  BY RegistryAssumption
<1>e. ASSUME NEW k \in {"registered", "updated", "deregistered"}, NEW e \in Entries, NEW r \in ServiceEntry
      PROVE  [kind |-> k, key |-> e, entry |-> r, replay |-> FALSE] \in RegistryUpdate
  BY DEF RegistryUpdate, EntryUpdate
<1>f. ASSUME NEW k \in {"type_registered"} \cup TypeFields, NEW t \in Types, NEW r \in [TypeFields -> {0, 1}]
      PROVE  [kind |-> k, key |-> t, entry |-> r, replay |-> FALSE] \in RegistryUpdate
  BY DEF RegistryUpdate, TypeUpdate
<1>1. ASSUME NEW e \in Entries, Registered(e) PROVE ReplayInv'
  <2> DEFINE new == [registered_at |-> time, updated_at |-> time]
  <2>1. Write /\ Emit("registered", e, new) /\ registry' = [registry EXCEPT ![e] = new] /\ types' = types
    BY <1>1 DEF Registered
  <2>2. new \in ServiceEntry
    BY <1>w
  <2> HIDE DEF new
  <2>3. registry' \in EntryTable
    BY <1>t, <2>1, <2>2 DEF EntryTable
  <2> QED
    BY <1>t, <1>e, <2>1, <2>2, <2>3, ReplayLive
<1>2. ASSUME NEW e \in Entries, Updated(e) PROVE ReplayInv'
  <2> DEFINE new == [registry[e] EXCEPT !.updated_at = time]
  <2>1. Write /\ Emit("updated", e, new) /\ registry' = [registry EXCEPT ![e] = new] /\ types' = types
    BY <1>2 DEF Updated
  <2>2. new \in ServiceEntry
    BY <1>w, <1>2 DEF Updated
  <2> HIDE DEF new
  <2>3. registry' \in EntryTable
    BY <1>t, <2>1, <2>2 DEF EntryTable
  <2> QED
    BY <1>t, <1>e, <2>1, <2>2, <2>3, ReplayLive
<1>3. ASSUME NEW e \in Entries, Deregistered(e) PROVE ReplayInv'
  <2>1. Write /\ Emit("deregistered", e, registry[e]) /\ registry' = [registry EXCEPT ![e] = Nothing] /\ types' = types
    BY <1>3 DEF Deregistered
  <2>2. registry[e] \in ServiceEntry
    BY <1>w, <1>3 DEF Deregistered
  <2>3. registry' \in EntryTable
    BY <1>t, <2>1 DEF EntryTable
  <2> QED
    BY <1>t, <1>e, <2>1, <2>2, <2>3, ReplayLive
<1>4. ASSUME NEW t \in Types, TypeRegistered(t) PROVE ReplayInv'
  <2>1. Write /\ Emit("type_registered", t, NewType) /\ types' = [types EXCEPT ![t] = NewType] /\ registry' = registry
        /\ types[t] = Nothing
    BY <1>4 DEF TypeRegistered
  <2>2. types' \in TypeTable /\ \A x \in Types : types[x] # Nothing => types'[x] # Nothing
    BY <1>t, <1>w, <1>n, <2>1 DEF TypeTable
  <2>3. asRead.types[t] = Nothing
    BY <2>1 DEF ReplayInv, RecordsAreRead
  <2> QED
    BY <1>t, <1>w, <1>f, <2>1, <2>2, <2>3, ReplayLive
<1>5. ASSUME NEW t \in Types, NEW f \in TypeFields, TypeChanged(t, f) PROVE ReplayInv'
  <2> DEFINE new == [types[t] EXCEPT ![f] = 1 - types[t][f]]
  <2>1. Write /\ Emit(f, t, new) /\ types' = [types EXCEPT ![t] = new] /\ registry' = registry /\ types[t] # Nothing
    BY <1>5 DEF TypeChanged
  <2>2. new \in [TypeFields -> {0, 1}]
    BY <1>w, <2>1
  <2> HIDE DEF new
  <2>3. types' \in TypeTable /\ \A x \in Types : types[x] # Nothing => types'[x] # Nothing
    BY <1>t, <1>n, <2>1, <2>2 DEF TypeTable
  <2>4. f # "type_registered"
    BY DEF TypeFields
  <2> QED
    BY <1>t, <1>f, <2>1, <2>2, <2>3, <2>4, ReplayLive
<1> QED
  BY <1>1, <1>2, <1>3, <1>4, <1>5
-----------------------------------------------------------------------------
\* The snapshot of a subscription.
SnapshotEntry(e) == [kind |-> "registered", key |-> e, entry |-> registry[e], replay |-> TRUE]
SnapshotType(t) == [kind |-> "type_registered", key |-> t, entry |-> types[t], replay |-> TRUE]
Snapshot == {SnapshotEntry(e) : e \in {x \in Entries : registry[x] # Nothing}}
                \cup {SnapshotType(t) : t \in {x \in Types : types[x] # Nothing}}

LEMMA SnapshotFinite == IsFiniteSet(Snapshot)
<1> DEFINE E == {x \in Entries : registry[x] # Nothing}
           T == {x \in Types : types[x] # Nothing}
           A == {SnapshotEntry(e) : e \in E}
           B == {SnapshotType(t) : t \in T}
           fa == [e \in E |-> SnapshotEntry(e)]
           fb == [t \in T |-> SnapshotType(t)]
<1>1. IsFiniteSet(E) /\ IsFiniteSet(T)
  BY RegistryAssumption, FS_Subset
<1>2. fa \in Surjection(E, A)
  BY DEF Surjection
<1>3. fb \in Surjection(T, B)
  BY DEF Surjection
<1> HIDE DEF fa, fb, A, B, E, T
<1>4. IsFiniteSet(A) /\ IsFiniteSet(B)
  BY <1>1, <1>2, <1>3, FS_Surjection
<1>5. IsFiniteSet(A \cup B)
  BY <1>4, FS_Union
<1> QED
  BY <1>5 DEF Snapshot, A, B, E, T

LEMMA ReplayRead ==
    ASSUME ReplayInv, ReadTypes \/ ReadEntries \/ ReadFails
    PROVE  ReplayInv'
<1>t. RegistryTypes /\ RecordsAreRead
  BY DEF ReplayInv
<1>a. asRead.entries \in EntryTable /\ asRead.types \in TypeTable /\ NoEntries \in EntryTable /\ NoTypes \in TypeTable
  BY <1>t DEF RegistryTypes, EntryTable, TypeTable, NoEntries, NoTypes
<1>1. /\ connecting # "subscribed" /\ connecting' \in {"types read", "read"}
      /\ UNCHANGED <<time, registry, types, atSubscription, backlog, misjudged>>
      /\ asRead' \in [entries : EntryTable, types : TypeTable]
      /\ replayedServices' = asRead'.entries
      /\ replayedTypes' = {t \in Types : asRead'.types[t] # Nothing}
      /\ \A t \in Types : asRead'.types[t] # Nothing => types[t] # Nothing
  <2>1. CASE ReadTypes
    <3>1. /\ asRead' = [asRead EXCEPT !.types = types] /\ replayedTypes' = {t \in Types : types[t] # Nothing}
          /\ connecting = "start" /\ connecting' = "types read"
          /\ UNCHANGED <<time, registry, types, atSubscription, backlog, misjudged, replayedServices>>
      BY <2>1 DEF ReadTypes, Task
    <3>2. asRead' \in [entries : EntryTable, types : TypeTable] /\ asRead'.entries = asRead.entries /\ asRead'.types = types
      BY <1>t, <3>1 DEF RegistryTypes
    <3> QED
      BY <1>t, <3>1, <3>2 DEF RecordsAreRead
  <2>2. CASE ReadEntries
    <3>1. /\ asRead' = [asRead EXCEPT !.entries = registry] /\ replayedServices' = registry
          /\ connecting = "types read" /\ connecting' = "read"
          /\ UNCHANGED <<time, registry, types, atSubscription, backlog, misjudged, replayedTypes>>
      BY <2>2 DEF ReadEntries, Task
    <3>2. asRead' \in [entries : EntryTable, types : TypeTable] /\ asRead'.entries = registry /\ asRead'.types = asRead.types
      BY <1>t, <3>1 DEF RegistryTypes
    <3> QED
      BY <1>t, <3>1, <3>2 DEF RecordsAreRead
  <2>3. CASE ReadFails
    <3>1. /\ asRead' = NothingRead /\ replayedServices' = NoEntries /\ replayedTypes' = {}
          /\ connecting # "subscribed" /\ connecting' = "read"
          /\ UNCHANGED <<time, registry, types, atSubscription, backlog, misjudged>>
      BY <2>3 DEF ReadFails
    <3>2. asRead' \in [entries : EntryTable, types : TypeTable] /\ asRead'.entries = NoEntries /\ asRead'.types = NoTypes
      BY <1>a, <3>1 DEF NothingRead
    <3> QED
      BY <3>1, <3>2 DEF NoTypes
  <2> QED
    BY <2>1, <2>2, <2>3
<1>2. asRead'.entries \in EntryTable
  BY <1>1
<1>3. RegistryTypes'
  BY <1>t, <1>1, <1>2 DEF RegistryTypes
<1>4. RecordsAreRead' /\ backlog' = <<>>
  BY <1>t, <1>1 DEF RecordsAreRead
<1>5. ReplayIsFirst' /\ RecordsLeftOver'
  <2>1. 1..Len(backlog') = {}
    BY <1>4
  <2> QED
    BY <1>1, <2>1 DEF ReplayIsFirst, RecordsLeftOver
<1> QED
  BY <1>1, <1>3, <1>4, <1>5 DEF ReplayInv

\* Every entry and type that is there is replayed, once.
LEMMA SubscribeListing ==
    ASSUME ReplayInv, Subscribe
    PROVE  /\ backlog' \in Seq(Snapshot)
           /\ \A i, j \in 1..Len(backlog') : backlog'[i] = backlog'[j] => i = j
           /\ \A x \in Snapshot : \E i \in 1..Len(backlog') : backlog'[i] = x
           /\ Snapshot \subseteq RegistryUpdate
           /\ connecting' = "subscribed" /\ connecting = "read"
           /\ atSubscription' = [entries |-> registry, types |-> types]
           /\ UNCHANGED <<time, registry, types, asRead, replayedServices, replayedTypes, known, misjudged>>
<1>1. backlog' = SetToSeq(Snapshot)
  BY DEF Subscribe, Snapshot, SnapshotEntry, SnapshotType
<1>2. Snapshot \subseteq RegistryUpdate
  <2>1. registry \in EntryTable /\ types \in TypeTable
    BY DEF ReplayInv, RegistryTypes
  <2>2. ASSUME NEW e \in Entries, registry[e] # Nothing PROVE SnapshotEntry(e) \in EntryUpdate
    BY <2>1, <2>2 DEF SnapshotEntry, EntryUpdate, EntryTable
  <2>3. ASSUME NEW t \in Types, types[t] # Nothing PROVE SnapshotType(t) \in TypeUpdate
    BY <2>1, <2>3 DEF SnapshotType, TypeUpdate, TypeTable
  <2> QED
    BY <2>2, <2>3 DEF Snapshot, RegistryUpdate
<1>3. /\ connecting' = "subscribed" /\ connecting = "read"
      /\ atSubscription' = [entries |-> registry, types |-> types]
      /\ UNCHANGED <<time, registry, types, asRead, replayedServices, replayedTypes, known, misjudged>>
  BY DEF Subscribe, Task
<1> QED
  BY <1>1, <1>2, <1>3, SnapshotFinite, Listing

LEMMA ReplaySubscribe ==
    ASSUME ReplayInv, Subscribe
    PROVE  ReplayInv'
<1>t. RegistryTypes /\ RecordsAreRead
  BY DEF ReplayInv
<1>s. /\ backlog' \in Seq(Snapshot)
      /\ \A i, j \in 1..Len(backlog') : backlog'[i] = backlog'[j] => i = j
      /\ \A x \in Snapshot : \E i \in 1..Len(backlog') : backlog'[i] = x
      /\ Snapshot \subseteq RegistryUpdate
      /\ connecting' = "subscribed" /\ connecting = "read"
      /\ atSubscription' = [entries |-> registry, types |-> types]
      /\ UNCHANGED <<time, registry, types, asRead, replayedServices, replayedTypes, known, misjudged>>
  BY SubscribeListing
<1>a. atSubscription' \in [entries : EntryTable, types : TypeTable] /\ atSubscription'.entries = registry
  BY <1>t, <1>s DEF RegistryTypes
<1>1. RegistryTypes'
  BY <1>t, <1>s, <1>a DEF RegistryTypes
<1>2. RecordsAreRead'
  BY <1>t, <1>s DEF RecordsAreRead
<1>x. \A x \in Snapshot :
        /\ x.replay
        /\ \/ x.kind = "registered" /\ x.key \in Entries /\ x.entry = registry[x.key] /\ x = SnapshotEntry(x.key)
           \/ x.kind = "type_registered" /\ x.key \in Types /\ x = SnapshotType(x.key)
  BY DEF Snapshot, SnapshotEntry, SnapshotType
<1>y. \A i \in 1..Len(backlog') : backlog'[i] \in Snapshot
  BY <1>s
<1>3. \A i, j \in 1..Len(backlog') : i # j => <<backlog'[j].kind, backlog'[j].key>> # <<backlog'[i].kind, backlog'[i].key>>
  <2> SUFFICES ASSUME NEW i \in 1..Len(backlog'), NEW j \in 1..Len(backlog'), i # j,
                      backlog'[j].kind = backlog'[i].kind, backlog'[j].key = backlog'[i].key
               PROVE  FALSE
    OBVIOUS
  <2>1. backlog'[i] = backlog'[j]
    BY <1>x, <1>y
  <2> QED
    BY <1>s, <2>1
<1>4. ReplayIsFirst'
  <2>1. \A i \in 1..Len(backlog') : backlog'[i].replay
    BY <1>x, <1>y
  <2>2. \A i \in 1..Len(backlog') :
            \/ /\ backlog'[i].kind = "registered" /\ backlog'[i].entry = atSubscription'.entries[backlog'[i].key]
               /\ replayedServices'[backlog'[i].key] = asRead'.entries[backlog'[i].key]
            \/ /\ backlog'[i].kind = "type_registered"
               /\ backlog'[i].key \in replayedTypes' <=> asRead'.types[backlog'[i].key] # Nothing
    BY <1>t, <1>s, <1>a, <1>x, <1>y DEF RecordsAreRead
  <2> QED
    BY <1>3, <2>1, <2>2 DEF ReplayIsFirst
<1>5. RecordsLeftOver'
  <2> SUFFICES ASSUME NEW e \in Entries, registry[e] # Nothing PROVE ReplayPending(e)'
    BY <1>s, <1>a DEF RecordsLeftOver
  <2>1. SnapshotEntry(e) \in Snapshot
    BY DEF Snapshot
  <2>2. PICK i \in 1..Len(backlog') : backlog'[i] = SnapshotEntry(e)
    BY <1>s, <2>1
  <2> QED
    BY <2>2 DEF ReplayPending, SnapshotEntry
<1> QED
  BY <1>1, <1>2, <1>4, <1>5, <1>s DEF ReplayInv

\* What handling the first update does to the records.
LEMMA RecordsAfter ==
    ASSUME ReplayInv, HandleUpdate
    PROVE  /\ backlog # <<>> /\ backlog' = Tail(backlog) /\ 1 \in 1..Len(backlog)
           /\ backlog' \in Seq(RegistryUpdate) /\ backlog[1] \in RegistryUpdate /\ Head(backlog) = backlog[1]
           /\ \A i \in 1..Len(backlog') : i + 1 \in 1..Len(backlog) /\ backlog'[i] = backlog[i + 1]
           /\ \A i \in 2..Len(backlog) : i - 1 \in 1..Len(backlog') /\ backlog'[i - 1] = backlog[i]
           /\ \A e \in Entries : replayedServices'[e] =
                IF e = backlog[1].key /\ ConsumesService(backlog[1]) THEN Nothing ELSE replayedServices[e]
           /\ replayedServices' \in EntryTable
           /\ \A t \in Types : t \in replayedTypes' <=> t \in replayedTypes /\ ~(t = backlog[1].key /\ ConsumesType(backlog[1]))
           /\ replayedTypes' \subseteq replayedTypes
           /\ UNCHANGED <<time, registry, types, connecting, asRead, atSubscription>>
<1>1. RegistryTypes /\ backlog \in Seq(RegistryUpdate) /\ replayedServices \in EntryTable
  BY DEF ReplayInv, RegistryTypes
<1>2. backlog # <<>> /\ backlog' = Tail(backlog)
  BY DEF HandleUpdate
<1>3. /\ backlog' \in Seq(RegistryUpdate) /\ Len(backlog') = Len(backlog) - 1 /\ Len(backlog) \in Nat /\ Len(backlog) > 0
      /\ Head(backlog) = backlog[1]
      /\ \A i \in 1..Len(backlog') : i + 1 \in 1..Len(backlog) /\ backlog'[i] = backlog[i + 1]
      /\ \A i \in 2..Len(backlog) : i - 1 \in 1..Len(backlog') /\ backlog'[i - 1] = backlog[i]
  BY <1>1, <1>2, RestOf
<1>4. 1 \in 1..Len(backlog) /\ backlog[1] \in RegistryUpdate
  BY <1>1, <1>3
<1>5. /\ replayedServices' = ServicesLeft(backlog[1])
      /\ replayedTypes' = IF ConsumesType(backlog[1]) THEN replayedTypes \ {backlog[1].key} ELSE replayedTypes
      /\ UNCHANGED <<time, registry, types, connecting, asRead, atSubscription>>
  BY <1>3 DEF HandleUpdate
<1>6. /\ replayedServices' \in EntryTable
      /\ \A e \in Entries : replayedServices'[e] =
            IF e = backlog[1].key /\ ConsumesService(backlog[1]) THEN Nothing ELSE replayedServices[e]
  BY <1>1, <1>5 DEF ServicesLeft, EntryTable
<1> QED
  BY <1>2, <1>3, <1>4, <1>5, <1>6

LEMMA ReplayHandle ==
    ASSUME ReplayInv, HandleUpdate
    PROVE  ReplayInv'
<1> DEFINE u == backlog[1]
<1>h. /\ backlog # <<>> /\ backlog' = Tail(backlog) /\ 1 \in 1..Len(backlog)
      /\ backlog' \in Seq(RegistryUpdate) /\ u \in RegistryUpdate /\ Head(backlog) = u
      /\ \A i \in 1..Len(backlog') : i + 1 \in 1..Len(backlog) /\ backlog'[i] = backlog[i + 1]
      /\ \A i \in 2..Len(backlog) : i - 1 \in 1..Len(backlog') /\ backlog'[i - 1] = backlog[i]
      /\ \A e \in Entries : replayedServices'[e] = IF e = u.key /\ ConsumesService(u) THEN Nothing ELSE replayedServices[e]
      /\ replayedServices' \in EntryTable
      /\ \A t \in Types : t \in replayedTypes' <=> t \in replayedTypes /\ ~(t = u.key /\ ConsumesType(u))
      /\ replayedTypes' \subseteq replayedTypes
      /\ UNCHANGED <<time, registry, types, connecting, asRead, atSubscription>>
  BY RecordsAfter
<1>t. RegistryTypes /\ RecordsAreRead /\ ReplayIsFirst /\ RecordsLeftOver /\ misjudged = {} /\ connecting = "subscribed"
  BY <1>h DEF ReplayInv, RecordsAreRead
<1>k. /\ u.kind = "registered" => u.key \in Entries /\ u.entry \in ServiceEntry /\ u.entry # Nothing
      /\ u.kind = "type_registered" => u.key \in Types
      /\ u.replay \in BOOLEAN
  BY <1>h, RegistryAssumption DEF RegistryUpdate, EntryUpdate, TypeUpdate, TypeFields
<1>f. /\ u.replay =>
            \/ /\ u.kind = "registered" /\ u.entry = atSubscription.entries[u.key]
               /\ replayedServices[u.key] = asRead.entries[u.key]
            \/ u.kind = "type_registered" /\ (u.key \in replayedTypes <=> asRead.types[u.key] # Nothing)
      /\ ~u.replay =>
            /\ \A i \in 1..Len(backlog) : ~backlog[i].replay
            /\ u.kind = "type_registered" => asRead.types[u.key] = Nothing
  <2>1. \A i \in 1..Len(backlog) : backlog[i].replay /\ i # 1 => backlog[1].replay
    BY <1>h, <1>t DEF ReplayIsFirst
  <2> QED
    BY <1>h, <1>t, <2>1 DEF ReplayIsFirst
<1>1. RegistryTypes'
  BY <1>h, <1>t DEF RegistryTypes
<1>2. RecordsAreRead'
  BY <1>h, <1>t DEF RecordsAreRead
<1>3. ReplayIsFirst'
  <2> SUFFICES ASSUME NEW i \in 1..Len(backlog')
               PROVE /\ backlog'[i].replay =>
                        /\ \A j \in 1..Len(backlog') :
                            /\ j < i => backlog'[j].replay
                            /\ j # i /\ backlog'[j].replay => <<backlog'[j].kind, backlog'[j].key>> # <<backlog'[i].kind, backlog'[i].key>>
                        /\ \/ /\ backlog'[i].kind = "registered" /\ backlog'[i].entry = atSubscription.entries[backlog'[i].key]
                              /\ replayedServices'[backlog'[i].key] = asRead.entries[backlog'[i].key]
                           \/ /\ backlog'[i].kind = "type_registered"
                              /\ backlog'[i].key \in replayedTypes' <=> asRead.types[backlog'[i].key] # Nothing
                     /\ ~backlog'[i].replay /\ backlog'[i].kind = "type_registered" => asRead.types[backlog'[i].key] = Nothing
    BY <1>h DEF ReplayIsFirst
  <2> DEFINE w == backlog[i + 1]
  <2>1. i + 1 \in 1..Len(backlog) /\ backlog'[i] = w /\ w \in RegistryUpdate /\ 1 < i + 1
    BY <1>h, <1>t DEF RegistryTypes
  <2>2. CASE ~w.replay
    BY <1>t, <2>1, <2>2 DEF ReplayIsFirst
  <2>3. CASE w.replay
    <3>1. \A j \in 1..Len(backlog) :
            /\ j < i + 1 => backlog[j].replay
            /\ j # i + 1 /\ backlog[j].replay => <<backlog[j].kind, backlog[j].key>> # <<w.kind, w.key>>
      BY <1>t, <2>1, <2>3 DEF ReplayIsFirst
    <3>2. \A j \in 1..Len(backlog') :
            /\ j < i => backlog'[j].replay
            /\ j # i /\ backlog'[j].replay => <<backlog'[j].kind, backlog'[j].key>> # <<w.kind, w.key>>
      BY <1>h, <3>1
    <3>3. u.replay /\ <<u.kind, u.key>> # <<w.kind, w.key>>
      BY <1>h, <2>1, <3>1
    <3>4. CASE w.kind = "registered"
      <4>1. w.key \in Entries /\ w.entry = atSubscription.entries[w.key] /\ replayedServices[w.key] = asRead.entries[w.key]
        BY <1>t, <2>1, <2>3, <3>4 DEF ReplayIsFirst, RegistryUpdate, EntryUpdate, TypeUpdate, TypeFields
      <4>2. replayedServices'[w.key] = replayedServices[w.key]
        BY <1>h, <3>3, <3>4, <4>1 DEF ConsumesService
      <4> QED
        BY <2>1, <2>3, <3>2, <3>4, <4>1, <4>2
    <3>5. CASE w.kind # "registered"
      <4>1. w.kind = "type_registered" /\ (w.key \in replayedTypes <=> asRead.types[w.key] # Nothing)
        BY <1>t, <2>1, <2>3, <3>5 DEF ReplayIsFirst
      <4>2. w.key \in Types
        BY <2>1, <4>1 DEF RegistryUpdate, EntryUpdate, TypeUpdate
      <4>3. w.key \in replayedTypes' <=> w.key \in replayedTypes
        BY <1>h, <3>3, <4>1, <4>2 DEF ConsumesType
      <4> QED
        BY <2>1, <2>3, <3>2, <4>1, <4>3
    <3> QED
      BY <3>4, <3>5
  <2> QED
    BY <2>2, <2>3
<1>4. RecordsLeftOver'
  <2> SUFFICES ASSUME NEW e \in Entries, replayedServices'[e] # Nothing, replayedServices'[e] = atSubscription.entries[e]
               PROVE  ReplayPending(e)'
    BY <1>h DEF RecordsLeftOver
  <2>1. replayedServices'[e] = replayedServices[e] /\ ~(e = u.key /\ ConsumesService(u))
    BY <1>h
  <2>2. PICK i \in 1..Len(backlog) : backlog[i].replay /\ backlog[i].kind = "registered" /\ backlog[i].key = e
    BY <1>t, <2>1 DEF RecordsLeftOver, ReplayPending
  <2>3. i # 1
    BY <1>f, <2>1, <2>2 DEF ConsumesService
  <2>4. i - 1 \in 1..Len(backlog') /\ backlog'[i - 1] = backlog[i]
    BY <1>h, <2>2, <2>3
  <2> QED
    BY <2>2, <2>4 DEF ReplayPending
<1>5. misjudged' = {}
  <2> DEFINE dropped == ConsumesService(u) \/ ConsumesType(u)
  <2>1. misjudged' = IF u.kind \in {"registered", "type_registered"} /\ ~Excusable(u, dropped)
                     THEN misjudged \cup {u} ELSE misjudged
    BY <1>h DEF HandleUpdate
  <2>2. CASE u.kind = "registered"
    <3>1. dropped <=> replayedServices[u.key] = u.entry
      BY <2>2 DEF ConsumesService, ConsumesType
    <3>3. CASE ~u.replay
      <4>1. ~ReplayPending(u.key)
        BY <1>f, <3>3 DEF ReplayPending
      <4>2. replayedServices[u.key] = u.entry =>
                asRead.entries[u.key] = u.entry /\ atSubscription.entries[u.key] # u.entry
        BY <1>k, <1>t, <2>2, <4>1 DEF RecordsAreRead, RecordsLeftOver
      <4>3. dropped => Excusable(u, dropped)
        BY <2>2, <3>1, <4>2 DEF Excusable
      <4>4. ~dropped => Excusable(u, dropped)
        BY <1>k, <3>3 DEF Excusable
      <4> QED
        BY <2>1, <1>t, <4>3, <4>4
    <3>4. CASE u.replay
      <4>1. dropped => Excusable(u, dropped)
        BY <3>4, <1>k DEF Excusable
      <4>2. ~dropped => Excusable(u, dropped)
        BY <1>f, <2>2, <3>1, <3>4 DEF Excusable
      <4> QED
        BY <2>1, <1>t, <4>1, <4>2
    <3> QED
      BY <3>3, <3>4
  <2>3. CASE u.kind = "type_registered"
    <3>1. dropped <=> u.key \in replayedTypes
      BY <2>3 DEF ConsumesService, ConsumesType
    <3>2. CASE ~u.replay
      <4>1. ~dropped
        BY <1>f, <1>k, <1>t, <2>3, <3>1, <3>2 DEF RecordsAreRead
      <4> QED
        BY <1>k, <1>t, <2>1, <3>2, <4>1 DEF Excusable
    <3>3. CASE u.replay
      <4>1. dropped => Excusable(u, dropped)
        BY <3>3, <1>k DEF Excusable
      <4>2. ~dropped => Excusable(u, dropped)
        BY <1>f, <2>3, <3>1, <3>3 DEF Excusable
      <4> QED
        BY <2>1, <1>t, <4>1, <4>2
    <3> QED
      BY <3>2, <3>3
  <2> QED
    BY <1>t, <2>1, <2>2, <2>3
<1> QED
  BY <1>1, <1>2, <1>3, <1>4, <1>5 DEF ReplayInv

\* Every step of the registry, its feed and the connection task keeps the
\* invariant.
LEMMA ReplayNext ==
    ASSUME ReplayInv, TaskStep \/ ServiceStep \/ ConfigStep \/ UNCHANGED registryVars
    PROVE  ReplayInv'
<1>1. CASE UNCHANGED <<registry, types, connecting, asRead, atSubscription, replayedServices, replayedTypes,
                       backlog, misjudged>> /\ time' \in 0..MaxTime
  <2>1. RegistryTypes' /\ RecordsAreRead'
    BY <1>1 DEF ReplayInv, RegistryTypes, RecordsAreRead
  <2>2. ReplayIsFirst'
    BY <1>1 DEF ReplayInv, ReplayIsFirst
  <2>3. RecordsLeftOver'
    BY <1>1 DEF ReplayInv, RecordsLeftOver, ReplayPending
  <2> QED
    BY <1>1, <2>1, <2>2, <2>3 DEF ReplayInv
<1>t. time \in 0..MaxTime
  BY DEF ReplayInv, RegistryTypes
<1>2. CASE ConfigStep \/ UNCHANGED registryVars
  BY <1>1, <1>2, <1>t DEF ConfigStep, ConfigChanges, ConfigHandled, ConfigSeen, registryVars
<1>3. CASE BlockTimePasses
  <2>1. time' \in 0..MaxTime
    BY <1>3, <1>t, RegistryAssumption DEF BlockTimePasses
  <2> QED
    BY <1>1, <1>3, <2>1 DEF BlockTimePasses
<1> QED
  BY <1>2, <1>3, ReplayWrite, ReplayRead, ReplaySubscribe, ReplayHandle DEF TaskStep, ServiceStep
-----------------------------------------------------------------------------
(* The calls that ask before they act. *)

SafeType == [id : SafeIds, deployer : {"me", "other"}]
WorldType == [safes : SUBSET SafeType, registered : SafeIds \cup {Nobody}, bound : BOOLEAN, addrs : SUBSET Multiaddrs,
              balance : Int, stake : Int, typed : BOOLEAN, service : Int]
OpType == [kind : Kinds \cup {"none"}, safe : SafeIds \cup {Nobody}, addrs : SUBSET Multiaddrs, fee : BOOLEAN]
SentType == [nr : Nat, kind : Kinds, safe : SafeIds \cup {Nobody}, addrs : SUBSET Multiaddrs, fee : BOOLEAN]
WaitType == [pc : {"idle", "asked", "listening", "answered"}, want : Wants \cup {<<"key", Nobody>>},
             feed : SUBSET SafeType, answer : SafeType \cup {Nobody}]

OperationTypes ==
    /\ world \in WorldType /\ index \in WorldType
    /\ user \in [Users -> OpType] /\ txs \subseteq SentType /\ sends \in Nat
    /\ \A u \in Users : user[u] # NoOp => user[u].kind \in Kinds
    /\ waiter \in WaitType /\ done \in [Kinds -> Nat]
    /\ stored \subseteq Registrations /\ failing \in BOOLEAN

\* Blokli knows nothing that did not happen, and tells nothing it does not know.
IndexIsBehind ==
    /\ index.safes \subseteq world.safes /\ (index.bound => world.bound)
    /\ waiter.feed \subseteq index.safes

\* What is set up: the node's Safe, or its key binding.
IsSetUp(k) == IF k = "deploy" THEN Own(world.safes) # {} ELSE world.bound

\* An announcement counts when it pays for the key binding.
Counts(op) == op.kind = "announce" => op.fee

\* Unless a call could not see an earlier one, one at most is under way; it was
\* made when nothing had been set up, and nothing has been since.
OneUnderWay(k) ==
    k \notin blind =>
        /\ \A u, v \in Users : user[u].kind = k /\ user[v].kind = k => u = v
        /\ \A s, t \in txs : s.kind = k /\ t.kind = k => s = t
        /\ \A u \in Users, t \in txs : ~(user[u].kind = k /\ t.kind = k)
        /\ \A u \in Users : user[u].kind = k /\ Counts(user[u]) => done[k] = 0
        /\ \A t \in txs : t.kind = k /\ Counts(t) => done[k] = 0
        /\ done[k] <= 1 /\ (done[k] > 0 => IsSetUp(k))

OperationsInv ==
    OperationTypes /\ IndexIsBehind /\ AwaitedFits /\ \A k \in {"deploy", "announce"} : OneUnderWay(k)

LEMMA OperationsInitInv == OperationsInit => OperationsInv
<1> SUFFICES ASSUME OperationsInit PROVE OperationsInv
  OBVIOUS
<1>1. world \in WorldType /\ world.safes = {} /\ index = world
  BY OperationsAssumption DEF OperationsInit, WorldType
<1>2. NoOp \in OpType /\ NoOp.kind = "none"
  BY DEF NoOp, OpType
<1>3. NoWait \in WaitType /\ NoWait.feed = {} /\ NoWait.pc = "idle"
  BY DEF NoWait, WaitType
<1>4. OperationTypes
  BY <1>1, <1>2, <1>3 DEF OperationsInit, OperationTypes
<1>5. IndexIsBehind /\ AwaitedFits
  BY <1>1, <1>3 DEF OperationsInit, IndexIsBehind, AwaitedFits
<1>6. ASSUME NEW k \in {"deploy", "announce"} PROVE OneUnderWay(k)
  <2>1. k \in Kinds /\ k # "none"
    BY DEF Kinds
  <2> QED
    BY <1>2, <2>1 DEF OperationsInit, OneUnderWay
<1> QED
  BY <1>4, <1>5, <1>6 DEF OperationsInv

\* What a mined transaction does, by its kind.
LEMMA EffectCases ==
    ASSUME NEW tx
    PROVE  /\ tx.kind = "deploy" => Effect(tx) =
                {[world EXCEPT !.safes = world.safes \cup {DeployedSafe(i, "me")}, !.balance = world.balance - Cost(tx)] :
                    i \in SafeIds \ {s.id : s \in world.safes}}
           /\ tx.kind = "register" => Effect(tx) =
                IF world.registered = Nobody THEN {[world EXCEPT !.registered = tx.safe]} ELSE {}
           /\ tx.kind = "announce" => Effect(tx) =
                IF tx.fee \/ world.bound
                THEN {[world EXCEPT !.bound = TRUE, !.addrs = world.addrs \cup tx.addrs,
                                    !.balance = world.balance - Cost(tx)]}
                ELSE {}
           /\ tx.kind = "list" => Effect(tx) =
                IF world.typed /\ world.service = 0 THEN {[world EXCEPT !.service = 1]} ELSE {}
           /\ tx.kind = "relist" => Effect(tx) = IF world.service > 0 THEN {[world EXCEPT !.service = 2]} ELSE {}
           /\ tx.kind = "delist" => Effect(tx) = IF world.service > 0 THEN {[world EXCEPT !.service = 0]} ELSE {}
           /\ tx.kind = "withdraw" => Effect(tx) = {[world EXCEPT !.balance = world.balance - Cost(tx)]}
           /\ tx.kind \in {"open", "fund"} => Effect(tx) =
                {[world EXCEPT !.balance = world.balance - Cost(tx), !.stake = world.stake + 1]}
BY Zenon DEF Effect
-----------------------------------------------------------------------------
\* A world in which neither a Safe nor the key binding differs.
SameSetup(w, x) == x \in WorldType /\ x.safes = w.safes /\ x.bound = w.bound

LEMMA WorldFields ==
    ASSUME NEW w \in WorldType
    PROVE  /\ \A x \in SafeIds \cup {Nobody} : SameSetup(w, [w EXCEPT !.registered = x])
           /\ \A x \in SUBSET Multiaddrs : SameSetup(w, [w EXCEPT !.addrs = x])
           /\ \A x \in Int : SameSetup(w, [w EXCEPT !.balance = x])
           /\ \A x \in Int : SameSetup(w, [w EXCEPT !.stake = x])
           /\ \A x \in Int : SameSetup(w, [w EXCEPT !.service = x])
           /\ SameSetup(w, [w EXCEPT !.typed = TRUE])
<1>1. w \in [safes : SUBSET SafeType, registered : SafeIds \cup {Nobody}, bound : BOOLEAN, addrs : SUBSET Multiaddrs,
              balance : Int, stake : Int, typed : BOOLEAN, service : Int]
  BY DEF WorldType
<1>2. \A x \in SafeIds \cup {Nobody} : SameSetup(w, [w EXCEPT !.registered = x])
  BY <1>1 DEF WorldType, SameSetup
<1>3. \A x \in SUBSET Multiaddrs : SameSetup(w, [w EXCEPT !.addrs = x])
  BY <1>1 DEF WorldType, SameSetup
<1>4. \A x \in Int : SameSetup(w, [w EXCEPT !.balance = x])
  BY <1>1 DEF WorldType, SameSetup
<1>5. \A x \in Int : SameSetup(w, [w EXCEPT !.stake = x])
  BY <1>1 DEF WorldType, SameSetup
<1>6. \A x \in Int : SameSetup(w, [w EXCEPT !.service = x])
  BY <1>1 DEF WorldType, SameSetup
<1>7. SameSetup(w, [w EXCEPT !.typed = TRUE])
  BY <1>1 DEF WorldType, SameSetup
<1> QED
  BY <1>2, <1>3, <1>4, <1>5, <1>6, <1>7

LEMMA SetupFields ==
    ASSUME NEW w \in WorldType
    PROVE  /\ \A x \in SUBSET SafeType :
                [w EXCEPT !.safes = x] \in WorldType /\ [w EXCEPT !.safes = x].safes = x /\ [w EXCEPT !.safes = x].bound = w.bound
           /\ [w EXCEPT !.bound = TRUE] \in WorldType /\ [w EXCEPT !.bound = TRUE].bound
                /\ [w EXCEPT !.bound = TRUE].safes = w.safes
<1>1. w \in [safes : SUBSET SafeType, registered : SafeIds \cup {Nobody}, bound : BOOLEAN, addrs : SUBSET Multiaddrs,
              balance : Int, stake : Int, typed : BOOLEAN, service : Int]
  BY DEF WorldType
<1>2. \A x \in SUBSET SafeType :
        [w EXCEPT !.safes = x] \in WorldType /\ [w EXCEPT !.safes = x].safes = x /\ [w EXCEPT !.safes = x].bound = w.bound
  BY <1>1 DEF WorldType
<1>3. [w EXCEPT !.bound = TRUE] \in WorldType /\ [w EXCEPT !.bound = TRUE].bound /\ [w EXCEPT !.bound = TRUE].safes = w.safes
  BY <1>1 DEF WorldType
<1> QED
  BY <1>2, <1>3

LEMMA NewSafes ==
    ASSUME NEW w \in WorldType, NEW i \in SafeIds, NEW by \in {"me", "other"}
    PROVE  /\ w.safes \cup {DeployedSafe(i, by)} \in SUBSET SafeType
           /\ Own(w.safes) \subseteq Own(w.safes \cup {DeployedSafe(i, by)})
           /\ by = "me" => Own(w.safes \cup {DeployedSafe(i, by)}) # {}
           /\ by # "me" => Own(w.safes \cup {DeployedSafe(i, by)}) = Own(w.safes)
<1>1. DeployedSafe(i, by) \in SafeType /\ DeployedSafe(i, by).deployer = by
  BY DEF DeployedSafe, SafeType
<1>2. w.safes \in SUBSET SafeType
  BY DEF WorldType
<1>3. w.safes \cup {DeployedSafe(i, by)} \in SUBSET SafeType
  BY <1>1, <1>2
<1>4. by = "me" => DeployedSafe(i, by) \in Own(w.safes \cup {DeployedSafe(i, by)})
  BY <1>1 DEF Own
<1> QED
  BY <1>1, <1>3, <1>4 DEF Own

\* A transaction takes nothing back: Safes stay, and so does the key binding.
LEMMA EffectKeeps ==
    ASSUME world \in WorldType, NEW tx \in SentType, NEW w \in Effect(tx)
    PROVE  /\ w \in WorldType /\ world.safes \subseteq w.safes /\ (world.bound => w.bound)
           /\ tx.kind = "deploy" => Own(w.safes) # {}
           /\ tx.kind = "announce" => w.bound
           /\ Own(world.safes) # {} => Own(w.safes) # {}
<1>t. /\ tx.kind \in Kinds /\ tx.safe \in SafeIds \cup {Nobody} /\ tx.addrs \in SUBSET Multiaddrs
      /\ world.addrs \in SUBSET Multiaddrs /\ world.balance \in Int /\ world.stake \in Int
  BY DEF SentType, WorldType
<1>c. world.balance - Cost(tx) \in Int /\ world.stake + 1 \in Int /\ world.addrs \cup tx.addrs \in SUBSET Multiaddrs
  BY <1>t DEF Cost
<1> DEFINE balance == world.balance - Cost(tx)
           addrs == world.addrs \cup tx.addrs
           stake == world.stake + 1
<1>1. CASE tx.kind = "deploy"
  <2>1. Effect(tx) = {[world EXCEPT !.safes = world.safes \cup {DeployedSafe(i, "me")}, !.balance = balance] :
                         i \in SafeIds \ {s.id : s \in world.safes}}
    BY <1>1, EffectCases, Zenon
  <2> HIDE DEF balance
  <2>2. PICK i \in SafeIds : w = [world EXCEPT !.safes = world.safes \cup {DeployedSafe(i, "me")}, !.balance = balance]
    BY <2>1, Zenon
  <2> DEFINE safes == world.safes \cup {DeployedSafe(i, "me")}
             x == [world EXCEPT !.safes = safes]
  <2>3. safes \in SUBSET SafeType
    BY NewSafes
  <2>4. world.safes \subseteq safes /\ Own(safes) # {}
    BY NewSafes
  <2>5. w = [world EXCEPT !.safes = safes, !.balance = balance]
    BY <2>2
  <2> HIDE DEF safes
  <2>6. w = [x EXCEPT !.balance = balance]
    BY <2>5
  <2>7. x \in WorldType /\ x.safes = safes /\ x.bound = world.bound
    BY <2>3, SetupFields
  <2> HIDE DEF x
  <2>8. SameSetup(x, w)
    BY <1>c, <2>6, <2>7, WorldFields DEF balance
  <2> QED
    BY <1>1, <2>4, <2>7, <2>8 DEF SameSetup
<1>2. CASE tx.kind = "announce"
  <2>1. Effect(tx) = IF tx.fee \/ world.bound
                     THEN {[world EXCEPT !.bound = TRUE, !.addrs = addrs, !.balance = balance]} ELSE {}
    BY <1>2, EffectCases, Zenon
  <2> HIDE DEF balance, addrs
  <2>2. w = [world EXCEPT !.bound = TRUE, !.addrs = addrs, !.balance = balance]
    BY <2>1, Zenon
  <2> DEFINE x == [world EXCEPT !.bound = TRUE]
             y == [x EXCEPT !.addrs = addrs]
  <2>3. w = [y EXCEPT !.balance = balance]
    BY <2>2
  <2>4. x \in WorldType /\ x.safes = world.safes /\ x.bound
    BY SetupFields
  <2> HIDE DEF x
  <2>5. SameSetup(x, y)
    BY <1>c, <2>4, WorldFields DEF addrs
  <2> HIDE DEF y
  <2>6. SameSetup(y, w)
    BY <1>c, <2>3, <2>5, WorldFields DEF balance, SameSetup
  <2> QED
    BY <1>2, <2>4, <2>5, <2>6 DEF SameSetup
<1>3. ASSUME SameSetup(world, w), tx.kind \notin {"deploy", "announce"}
      PROVE  /\ w \in WorldType /\ world.safes \subseteq w.safes /\ (world.bound => w.bound)
             /\ tx.kind = "deploy" => Own(w.safes) # {}
             /\ tx.kind = "announce" => w.bound
             /\ Own(world.safes) # {} => Own(w.safes) # {}
  BY <1>3 DEF SameSetup
<1>4. CASE tx.kind = "register"
  <2>0. Effect(tx) = IF world.registered = Nobody THEN {[world EXCEPT !.registered = tx.safe]} ELSE {}
    BY <1>4, EffectCases, Zenon
  <2>1. w = [world EXCEPT !.registered = tx.safe]
    BY <2>0, Zenon
  <2> QED
    BY <1>3, <1>4, <1>t, <2>1, WorldFields
<1>5. CASE tx.kind = "list"
  <2>0. Effect(tx) = IF world.typed /\ world.service = 0 THEN {[world EXCEPT !.service = 1]} ELSE {}
    BY <1>5, EffectCases, Zenon
  <2>1. w = [world EXCEPT !.service = 1]
    BY <2>0, Zenon
  <2>2. PICK x \in Int : x = 1
    OBVIOUS
  <2>3. SameSetup(world, [world EXCEPT !.service = x])
    BY WorldFields
  <2> QED
    BY <1>3, <1>5, <2>1, <2>2, <2>3
<1>6. CASE tx.kind = "relist"
  <2>0. Effect(tx) = IF world.service > 0 THEN {[world EXCEPT !.service = 2]} ELSE {}
    BY <1>6, EffectCases, Zenon
  <2>1. w = [world EXCEPT !.service = 2]
    BY <2>0, Zenon
  <2>2. PICK x \in Int : x = 2
    OBVIOUS
  <2>3. SameSetup(world, [world EXCEPT !.service = x])
    BY WorldFields
  <2> QED
    BY <1>3, <1>6, <2>1, <2>2, <2>3
<1>7. CASE tx.kind = "delist"
  <2>0. Effect(tx) = IF world.service > 0 THEN {[world EXCEPT !.service = 0]} ELSE {}
    BY <1>7, EffectCases, Zenon
  <2>1. w = [world EXCEPT !.service = 0]
    BY <2>0, Zenon
  <2>2. PICK x \in Int : x = 0
    OBVIOUS
  <2>3. SameSetup(world, [world EXCEPT !.service = x])
    BY WorldFields
  <2> QED
    BY <1>3, <1>7, <2>1, <2>2, <2>3
<1>8. CASE tx.kind = "withdraw"
  <2>0. Effect(tx) = {[world EXCEPT !.balance = balance]}
    BY <1>8, EffectCases, Zenon
  <2>1. w = [world EXCEPT !.balance = balance]
    BY <2>0, Zenon
  <2> QED
    BY <1>3, <1>8, <1>c, <2>1, WorldFields
<1>9. CASE tx.kind \in {"open", "fund"}
  <2>0. Effect(tx) = {[world EXCEPT !.balance = balance, !.stake = stake]}
    BY <1>9, EffectCases, Zenon
  <2>1. w = [world EXCEPT !.balance = balance, !.stake = stake]
    BY <2>0, Zenon
  <2> HIDE DEF balance, stake
  <2> DEFINE x == [world EXCEPT !.balance = balance]
  <2>2. w = [x EXCEPT !.stake = stake]
    BY <2>1
  <2>3. SameSetup(world, x)
    BY <1>c, WorldFields DEF balance
  <2> HIDE DEF x
  <2>4. SameSetup(x, w)
    BY <1>c, <2>2, <2>3, WorldFields DEF SameSetup, stake
  <2> QED
    BY <1>3, <1>9, <2>3, <2>4 DEF SameSetup
<1> QED
  BY <1>1, <1>2, <1>4, <1>5, <1>6, <1>7, <1>8, <1>9, <1>t DEF Kinds

\* A call begins: nothing is under way, and nothing set up, that it did not see.
LEMMA OperationsBegin ==
    ASSUME OperationsInv, NEW u \in Users, NEW op \in OpType, op.kind \in Kinds, Begins(u, op),
           op.kind = "deploy" => Own(index.safes) = {},
           op.kind = "announce" => op.fee = ~index.bound
    PROVE  OperationsInv'
<1>u. /\ UNCHANGED <<world, index, txs, sends, waiter, done, stored, failing>>
      /\ user' = [user EXCEPT ![u] = op] /\ user[u] = NoOp
      /\ blind' = IF Unseen(op.kind) THEN blind \cup {op.kind} ELSE blind
  BY DEF Begins
<1>t. OperationTypes
  BY DEF OperationsInv
<1>v. \A v \in Users : user'[v] = IF v = u THEN op ELSE user[v]
  BY <1>u, <1>t DEF OperationTypes
<1>1. OperationTypes'
  BY <1>t, <1>u, <1>v DEF OperationTypes
<1>2. IndexIsBehind' /\ AwaitedFits'
  BY <1>u DEF OperationsInv, IndexIsBehind, AwaitedFits
<1>3. ASSUME NEW k \in {"deploy", "announce"} PROVE OneUnderWay(k)'
  <2> SUFFICES ASSUME k \notin blind' PROVE
        /\ \A a, b \in Users : user'[a].kind = k /\ user'[b].kind = k => a = b
        /\ \A s, t \in txs : s.kind = k /\ t.kind = k => s = t
        /\ \A a \in Users, t \in txs : ~(user'[a].kind = k /\ t.kind = k)
        /\ \A a \in Users : user'[a].kind = k /\ Counts(user'[a]) => done[k] = 0
        /\ \A t \in txs : t.kind = k /\ Counts(t) => done[k] = 0
        /\ done[k] <= 1 /\ (done[k] > 0 => IsSetUp(k))
    BY <1>u DEF OneUnderWay, Counts, IsSetUp
  <2>0. k \notin blind /\ OneUnderWay(k)
    BY <1>u DEF OperationsInv
  <2>1. CASE op.kind # k
    BY <1>v, <2>0, <2>1 DEF OneUnderWay
  <2>2. CASE op.kind = k
    <3>1. ~Unseen(k)
      BY <1>u, <2>2
    <3>2. /\ \A a \in Users : user[a].kind # k
          /\ \A t \in txs : t.kind # k
          /\ k = "deploy" => Own(world.safes) = Own(index.safes)
          /\ k = "announce" => world.bound = index.bound
      BY <3>1 DEF Unseen
    <3>3. Counts(op) => ~IsSetUp(k)
      BY <2>2, <3>2 DEF Counts, IsSetUp
    <3>4. done[k] \in Nat
      BY <1>t DEF OperationTypes, Kinds
    <3>5. Counts(op) => done[k] = 0
      BY <2>0, <3>3, <3>4 DEF OneUnderWay
    <3> QED
      BY <1>v, <2>0, <3>2, <3>5 DEF OneUnderWay
  <2> QED
    BY <2>1, <2>2
<1> QED
  BY <1>1, <1>2, <1>3 DEF OperationsInv

\* The second check passes and the transaction is sent, or the call ends.
LEMMA OperationsSubmit ==
    ASSUME OperationsInv, NEW u \in Users, Submit(u)
    PROVE  OperationsInv'
<1> DEFINE op == user[u]
<1>t. OperationTypes /\ user \in [Users -> OpType] /\ op \in OpType /\ op.kind \in Kinds
  BY DEF OperationsInv, OperationTypes, Submit
<1>u. /\ UNCHANGED <<world, index, waiter, blind, done, stored, failing>>
      /\ user' = [user EXCEPT ![u] = NoOp]
  BY DEF Submit
<1>n. NoOp \in OpType /\ NoOp.kind = "none"
  BY DEF NoOp, OpType
<1>v. /\ user' \in [Users -> OpType] /\ \A v \in Users : user'[v].kind # "none" => v # u /\ user'[v] = user[v]
      /\ \A v \in Users : user'[v] # NoOp => user'[v].kind \in Kinds
  BY <1>u, <1>t, <1>n DEF OperationTypes
<1>2. IndexIsBehind' /\ AwaitedFits'
  BY <1>u DEF OperationsInv, IndexIsBehind, AwaitedFits
<1>3. CASE UNCHANGED <<txs, sends>>
  <2>1. OperationTypes'
    BY <1>t, <1>u, <1>v, <1>3 DEF OperationTypes
  <2>2. ASSUME NEW k \in {"deploy", "announce"} PROVE OneUnderWay(k)'
    <3>1. \A v \in Users : user'[v].kind = k => user'[v] = user[v]
      BY <1>v
    <3> QED
      BY <1>u, <1>3, <3>1 DEF OperationsInv, OneUnderWay, Counts, IsSetUp
  <2> QED
    BY <1>2, <2>1, <2>2 DEF OperationsInv
<1>4. CASE SendTx(op)
  <2>1. PICK a \in IF op.addrs = {} THEN {{}} ELSE {{x} : x \in op.addrs} :
            txs' = txs \cup {[nr |-> sends, kind |-> op.kind, safe |-> op.safe, addrs |-> a, fee |-> op.fee]}
    BY <1>4 DEF SendTx
  <2> DEFINE tx == [nr |-> sends, kind |-> op.kind, safe |-> op.safe, addrs |-> a, fee |-> op.fee]
  <2>2. op.safe \in SafeIds \cup {Nobody} /\ op.fee \in BOOLEAN /\ a \in SUBSET Multiaddrs
    BY <1>t, <2>1 DEF OpType
  <2>3. tx \in SentType /\ tx.kind = op.kind /\ tx.fee = op.fee
    BY <1>t, <1>4, <2>2 DEF SentType, OperationTypes
  <2>4. txs' = txs \cup {tx} /\ sends' = sends + 1
    BY <2>1, <1>4 DEF SendTx
  <2> HIDE DEF tx
  <2>5. OperationTypes'
    BY <1>t, <1>u, <1>v, <2>3, <2>4 DEF OperationTypes
  <2>6. ASSUME NEW k \in {"deploy", "announce"} PROVE OneUnderWay(k)'
    <3> SUFFICES ASSUME k \notin blind PROVE
          /\ \A x, y \in Users : user'[x].kind = k /\ user'[y].kind = k => x = y
          /\ \A s, t \in txs' : s.kind = k /\ t.kind = k => s = t
          /\ \A x \in Users, t \in txs' : ~(user'[x].kind = k /\ t.kind = k)
          /\ \A x \in Users : user'[x].kind = k /\ Counts(user'[x]) => done[k] = 0
          /\ \A t \in txs' : t.kind = k /\ Counts(t) => done[k] = 0
          /\ done[k] <= 1 /\ (done[k] > 0 => IsSetUp(k))
      BY <1>u DEF OneUnderWay, Counts, IsSetUp
    <3>1. \A v \in Users : user'[v].kind = k => user'[v] = user[v] /\ v # u
      BY <1>v
    <3>2. OneUnderWay(k)
      BY DEF OperationsInv
    <3>3. Counts(tx) <=> Counts(op)
      BY <2>3 DEF Counts
    <3>4. CASE op.kind # k
      <4>1. \A t \in txs' : t.kind = k => t \in txs
        BY <2>3, <2>4, <3>4
      <4> QED
        BY <3>1, <3>2, <4>1 DEF OneUnderWay
    <3>5. CASE op.kind = k
      <4>1. /\ \A v \in Users : user'[v].kind # k
            /\ \A t \in txs : t.kind # k
        BY <3>1, <3>2, <3>5 DEF OneUnderWay
      <4>2. \A t \in txs' : t.kind = k => t = tx
        BY <2>4, <4>1
      <4>3. Counts(op) => done[k] = 0
        BY <3>2, <3>5 DEF OneUnderWay
      <4> QED
        BY <3>2, <3>3, <4>1, <4>2, <4>3 DEF OneUnderWay
    <3> QED
      BY <3>4, <3>5
  <2> QED
    BY <1>2, <2>5, <2>6 DEF OperationsInv
<1> QED
  BY <1>3, <1>4 DEF Submit
-----------------------------------------------------------------------------
\* The calls: what each begins with.
LEMMA OperationsCall ==
    ASSUME OperationsInv, NEW u \in Users,
           \/ DeploySafe(u) \/ (\E s \in SafeIds : RegisterSafe(u, s))
           \/ (\E addrs \in SUBSET Multiaddrs : Announce(u, addrs))
           \/ Withdraw(u) \/ OpenChannel(u) \/ FundChannel(u)
           \/ RegisterService(u) \/ UpdateService(u) \/ DeregisterService(u)
    PROVE  OperationsInv'
<1>n. NoOp \in OpType
  BY DEF NoOp, OpType
<1>t. \A k \in Kinds : Call(k) \in OpType /\ Call(k).kind = k
  BY <1>n DEF Call, OpType
<1>k. Kinds = {"deploy", "register", "announce", "withdraw", "open", "fund", "list", "relist", "delist"}
  BY DEF Kinds
<1>1. CASE DeploySafe(u)
  BY <1>1, <1>t, <1>k, OperationsBegin DEF DeploySafe
<1>2. ASSUME NEW s \in SafeIds, RegisterSafe(u, s) PROVE OperationsInv'
  <2> DEFINE op == [Call("register") EXCEPT !.safe = s]
  <2>1. Call("register") \in OpType /\ Call("register").kind = "register"
    BY <1>k, <1>t
  <2>2. op \in OpType /\ op.kind = "register"
    BY <2>1 DEF OpType
  <2>3. Begins(u, op)
    BY <1>2 DEF RegisterSafe
  <2> HIDE DEF op
  <2> QED
    BY <1>k, <2>2, <2>3, OperationsBegin
<1>3. ASSUME NEW addrs \in SUBSET Multiaddrs, Announce(u, addrs) PROVE OperationsInv'
  <2> DEFINE op == [Call("announce") EXCEPT !.addrs = addrs, !.fee = FeeDue]
  <2>0. Call("announce") \in OpType /\ Call("announce").kind = "announce"
    BY <1>k, <1>t
  <2>1. op = [[Call("announce") EXCEPT !.addrs = addrs] EXCEPT !.fee = ~index.bound]
    BY DEF FeeDue
  <2>2. index.bound \in BOOLEAN
    BY DEF OperationsInv, OperationTypes, WorldType
  <2>3. op \in OpType /\ op.kind = "announce" /\ op.fee = ~index.bound
    BY <2>0, <2>1, <2>2 DEF OpType
  <2>4. Begins(u, op)
    BY <1>3 DEF Announce
  <2> HIDE DEF op
  <2> QED
    BY <1>k, <2>3, <2>4, OperationsBegin
<1>4. ASSUME NEW k \in Kinds \ {"deploy", "announce"}, Begins(u, Call(k)) PROVE OperationsInv'
  BY <1>4, <1>t, OperationsBegin
<1> QED
  BY <1>1, <1>2, <1>3, <1>4, <1>k
     DEF Withdraw, OpenChannel, FundChannel, RegisterService, UpdateService, DeregisterService

\* A transaction takes effect.
LEMMA OperationsExecute ==
    ASSUME OperationsInv, NEW tx \in txs, TxExecutes(tx)
    PROVE  OperationsInv'
<1>t. OperationTypes /\ tx \in SentType /\ tx.kind \in Kinds /\ world \in WorldType /\ done \in [Kinds -> Nat] /\ tx.fee \in BOOLEAN
  BY DEF OperationsInv, OperationTypes, SentType
<1>u. /\ txs' = txs \ {tx} /\ world' \in Effect(tx)
      /\ done' = [done EXCEPT ![tx.kind] = IF tx.kind = "announce" /\ ~tx.fee THEN done[tx.kind] ELSE done[tx.kind] + 1]
      /\ UNCHANGED <<index, user, sends, waiter, blind, stored, failing>>
  BY DEF TxExecutes
<1>w. /\ world' \in WorldType /\ world.safes \subseteq world'.safes /\ (world.bound => world'.bound)
      /\ tx.kind = "deploy" => Own(world'.safes) # {}
      /\ tx.kind = "announce" => world'.bound
      /\ Own(world.safes) # {} => Own(world'.safes) # {}
  BY <1>t, <1>u, EffectKeeps
<1>d. /\ done' \in [Kinds -> Nat]
      /\ \A k \in Kinds : done'[k] = IF k = tx.kind /\ Counts(tx) THEN done[k] + 1 ELSE done[k]
  BY <1>t, <1>u DEF Counts
<1>1. OperationTypes'
  BY <1>t, <1>u, <1>w, <1>d DEF OperationTypes
<1>2. IndexIsBehind' /\ AwaitedFits'
  BY <1>u, <1>w DEF OperationsInv, IndexIsBehind, AwaitedFits
<1>3. ASSUME NEW k \in {"deploy", "announce"} PROVE OneUnderWay(k)'
  <2> SUFFICES ASSUME k \notin blind PROVE
        /\ \A a, b \in Users : user[a].kind = k /\ user[b].kind = k => a = b
        /\ \A s, t \in txs' : s.kind = k /\ t.kind = k => s = t
        /\ \A a \in Users, t \in txs' : ~(user[a].kind = k /\ t.kind = k)
        /\ \A a \in Users : user[a].kind = k /\ Counts(user[a]) => done'[k] = 0
        /\ \A t \in txs' : t.kind = k /\ Counts(t) => done'[k] = 0
        /\ done'[k] <= 1 /\ (done'[k] > 0 => IsSetUp(k)')
    BY <1>u DEF OneUnderWay, Counts
  <2>1. OneUnderWay(k) /\ k \in Kinds /\ done[k] \in Nat
    BY <1>t DEF OperationsInv, Kinds
  <2>2. IsSetUp(k) => IsSetUp(k)'
    BY <1>w DEF IsSetUp
  <2>3. CASE tx.kind # k
    <3>1. done'[k] = done[k]
      BY <1>d, <2>1, <2>3
    <3> QED
      BY <1>u, <2>1, <2>2, <3>1 DEF OneUnderWay
  <2>4. CASE tx.kind = k
    <3>1. /\ \A a \in Users : user[a].kind # k
          /\ \A t \in txs' : t.kind # k
          /\ Counts(tx) => done[k] = 0
      BY <1>u, <2>1, <2>4 DEF OneUnderWay
    <3>2. IsSetUp(k)'
      BY <1>w, <2>4 DEF IsSetUp
    <3>3. done'[k] <= 1
      BY <1>d, <2>1, <2>4, <3>1 DEF OneUnderWay
    <3> QED
      BY <3>1, <3>2, <3>3
  <2> QED
    BY <2>3, <2>4
<1> QED
  BY <1>1, <1>2, <1>3 DEF OperationsInv

\* What others do, and Blokli catching up.
LEMMA OperationsOther ==
    ASSUME OperationsInv,
           (\E tx \in txs : TxReverts(tx)) \/ OtherDeploys \/ OtherRegistersType \/ Indexes
    PROVE  OperationsInv'
<1>t. OperationTypes /\ world \in WorldType /\ index \in WorldType /\ waiter \in WaitType
  BY DEF OperationsInv, OperationTypes
<1>1. ASSUME NEW tx \in txs, TxReverts(tx) PROVE OperationsInv'
  <2>1. txs' = txs \ {tx} /\ UNCHANGED <<world, index, user, sends, waiter, blind, done, stored, failing>>
    BY <1>1 DEF TxReverts
  <2>2. OperationTypes' /\ IndexIsBehind' /\ AwaitedFits'
    BY <1>t, <2>1 DEF OperationsInv, OperationTypes, IndexIsBehind, AwaitedFits
  <2>3. \A k \in {"deploy", "announce"} : OneUnderWay(k)'
    BY <2>1 DEF OperationsInv, OneUnderWay, Counts, IsSetUp
  <2> QED
    BY <2>2, <2>3 DEF OperationsInv
<1>2. ASSUME world' \in WorldType, world.safes \subseteq world'.safes, world.bound => world'.bound,
             Own(world.safes) # {} => Own(world'.safes) # {},
             UNCHANGED <<index, user, txs, sends, waiter, blind, done, stored, failing>>
      PROVE  OperationsInv'
  <2>1. OperationTypes' /\ IndexIsBehind' /\ AwaitedFits'
    BY <1>t, <1>2 DEF OperationsInv, OperationTypes, IndexIsBehind, AwaitedFits
  <2>2. \A k \in {"deploy", "announce"} : OneUnderWay(k)'
    BY <1>2 DEF OperationsInv, OneUnderWay, Counts, IsSetUp
  <2> QED
    BY <2>1, <2>2 DEF OperationsInv
<1>3. CASE OtherDeploys
  <2>1. PICK i \in SafeIds : world' = [world EXCEPT !.safes = world.safes \cup {DeployedSafe(i, "other")}]
    BY <1>3 DEF OtherDeploys
  <2> DEFINE safes == world.safes \cup {DeployedSafe(i, "other")}
  <2>2. safes \in SUBSET SafeType /\ world.safes \subseteq safes /\ Own(world.safes) \subseteq Own(safes)
    BY <1>t, NewSafes
  <2>3. world' = [world EXCEPT !.safes = safes]
    BY <2>1
  <2> HIDE DEF safes
  <2>4. world' \in WorldType /\ world'.safes = safes /\ world'.bound = world.bound
    BY <1>t, <2>2, <2>3, SetupFields
  <2> QED
    BY <1>2, <1>3, <2>2, <2>4 DEF OtherDeploys
<1>4. CASE OtherRegistersType
  <2>1. world' = [world EXCEPT !.typed = TRUE]
    BY <1>4 DEF OtherRegistersType
  <2>2. SameSetup(world, world')
    BY <1>t, <2>1, WorldFields
  <2> QED
    BY <1>2, <1>4, <2>2 DEF OtherRegistersType, SameSetup
<1>5. CASE Indexes
  <2>1. /\ index' = world
        /\ waiter' = IF waiter.pc = "listening"
                     THEN [waiter EXCEPT !.feed = waiter.feed \cup (world.safes \ index.safes)] ELSE waiter
        /\ UNCHANGED <<world, user, txs, sends, blind, done, stored, failing>>
    BY <1>5 DEF Indexes
  <2>2. /\ index.safes \subseteq world.safes /\ (index.bound => world.bound)
        /\ waiter.feed \subseteq index.safes /\ world.safes \in SUBSET SafeType
    BY <1>t DEF OperationsInv, IndexIsBehind, WorldType
  <2>3. /\ waiter' \in WaitType /\ waiter'.feed \subseteq world.safes
        /\ waiter'.pc = "answered" => waiter' = waiter
    BY <1>t, <2>1, <2>2 DEF WaitType
  <2>4. OperationTypes'
    BY <1>t, <2>1, <2>3 DEF OperationTypes
  <2>5. IndexIsBehind'
    BY <2>1, <2>3 DEF IndexIsBehind
  <2>6. AwaitedFits'
    BY <2>1, <2>2, <2>3 DEF OperationsInv, AwaitedFits
  <2>7. \A k \in {"deploy", "announce"} : OneUnderWay(k)'
    BY <2>1 DEF OperationsInv, OneUnderWay, Counts, IsSetUp
  <2> QED
    BY <2>4, <2>5, <2>6, <2>7 DEF OperationsInv
<1> QED
  BY <1>1, <1>3, <1>4, <1>5

\* A wait asks, listens, hears or gives up.
LEMMA OperationsWait ==
    ASSUME OperationsInv, WaitStep
    PROVE  OperationsInv'
<1>t. OperationTypes /\ index \in WorldType /\ waiter \in WaitType /\ index.safes \in SUBSET SafeType
  BY DEF OperationsInv, OperationTypes, WorldType
<1>u. UNCHANGED <<world, index, user, txs, sends, blind, done, stored, failing>>
  BY DEF WaitStep, AwaitSafeDeployment, AwaitKeyBinding, AwaitSubscribes, AwaitHears, AwaitGivesUp, setupVars
<1>f. waiter.feed \subseteq index.safes /\ waiter.want \in Wants \cup {<<"key", Nobody>>}
  BY <1>t DEF OperationsInv, IndexIsBehind, WaitType
<1>n. /\ NoWait \in WaitType /\ NoWait.feed = {} /\ NoWait.pc = "idle"
      /\ NoWait = [pc |-> "idle", want |-> <<"key", Nobody>>, feed |-> {}, answer |-> Nobody]
  BY DEF NoWait, WaitType
<1>a. \A want \in Wants : want[1] # "key"
  BY DEF Wants
<1>1. ASSUME waiter' \in WaitType, waiter'.feed \subseteq index.safes,
             waiter'.pc = "answered" =>
                IF waiter'.want[1] = "key" THEN index.bound
                ELSE waiter'.answer \in index.safes /\ waiter'.want[2] \in {waiter'.answer.id, waiter'.answer.deployer}
      PROVE  OperationsInv'
  <2>1. OperationTypes' /\ IndexIsBehind'
    BY <1>t, <1>u, <1>1 DEF OperationsInv, OperationTypes, IndexIsBehind
  <2>2. AwaitedFits'
    BY <1>u, <1>1 DEF AwaitedFits
  <2>3. \A k \in {"deploy", "announce"} : OneUnderWay(k)'
    BY <1>u DEF OperationsInv, OneUnderWay, Counts, IsSetUp
  <2> QED
    BY <2>1, <2>2, <2>3 DEF OperationsInv
<1>2. ASSUME NEW want \in Wants, AwaitSafeDeployment(want) PROVE OperationsInv'
  <2>1. ASSUME NEW s \in SafeInfo(want), waiter' = [NoWait EXCEPT !.pc = "answered", !.want = want, !.answer = s]
        PROVE  OperationsInv'
    <3>1. waiter' = [pc |-> "answered", want |-> want, feed |-> {}, answer |-> s]
      BY <1>n, <2>1
    <3>2. s \in index.safes /\ want[2] \in {s.id, s.deployer}
      BY <2>1 DEF SafeInfo
    <3>3. waiter' \in WaitType
      BY <1>t, <3>1, <3>2 DEF WaitType
    <3> QED
      BY <1>1, <1>a, <3>1, <3>2, <3>3
  <2>2. ASSUME waiter' = [NoWait EXCEPT !.pc = "asked", !.want = want] PROVE OperationsInv'
    <3>1. waiter' = [pc |-> "asked", want |-> want, feed |-> {}, answer |-> Nobody]
      BY <1>n, <2>2
    <3>2. waiter' \in WaitType
      BY <3>1 DEF WaitType
    <3> QED
      BY <1>1, <3>1, <3>2
  <2> QED
    BY <1>2, <2>1, <2>2 DEF AwaitSafeDeployment
<1>3. CASE AwaitKeyBinding
  <2>1. waiter' = [pc |-> IF index.bound THEN "answered" ELSE "asked", want |-> <<"key", Nobody>>, feed |-> {}, answer |-> Nobody]
    BY <1>3, <1>n DEF AwaitKeyBinding
  <2>2. waiter' \in WaitType
    BY <2>1 DEF WaitType
  <2> QED
    BY <1>1, <2>1, <2>2
<1>4. CASE AwaitSubscribes
  <2>1. waiter' = [waiter EXCEPT !.pc = "listening"]
    BY <1>4 DEF AwaitSubscribes
  <2>2. waiter' \in WaitType /\ waiter'.feed = waiter.feed /\ waiter'.pc = "listening"
    BY <1>t, <2>1 DEF WaitType
  <2> QED
    BY <1>1, <1>f, <2>2
<1>5. CASE AwaitHears
  <2>a. ASSUME NEW s \in SafeType \cup {Nobody}, Answered(s)
        PROVE  /\ waiter' \in WaitType /\ waiter'.feed = {} /\ waiter'.answer = s /\ waiter'.want = waiter.want
    <3>1. waiter' = [[[waiter EXCEPT !.pc = "answered"] EXCEPT !.feed = {}] EXCEPT !.answer = s]
      BY <2>a DEF Answered
    <3> QED
      BY <1>t, <3>1 DEF WaitType
  <2>1. CASE waiter.want[1] = "key" /\ index.bound /\ Answered(Nobody)
    BY <1>1, <2>1, <2>a
  <2>2. ASSUME NEW s \in waiter.feed, waiter.want[1] # "key", Satisfies(waiter.want, s), Answered(s) PROVE OperationsInv'
    <3>1. s \in index.safes /\ s \in SafeType
      BY <1>t, <1>f
    <3>2. waiter.want[2] \in {s.id, s.deployer}
      BY <2>2 DEF Satisfies
    <3> QED
      BY <1>1, <2>2, <2>a, <3>1, <3>2
  <2>3. ASSUME NEW s \in waiter.feed, waiter' = [waiter EXCEPT !.feed = waiter.feed \ {s}] PROVE OperationsInv'
    <3>1. waiter' \in WaitType /\ waiter'.feed \subseteq waiter.feed /\ waiter'.pc = waiter.pc
      BY <1>t, <2>3 DEF WaitType
    <3> QED
      BY <1>1, <1>5, <1>f, <3>1 DEF AwaitHears
  <2> QED
    BY <1>5, <2>1, <2>2, <2>3 DEF AwaitHears
<1>6. CASE AwaitGivesUp
  BY <1>1, <1>6, <1>n DEF AwaitGivesUp
<1> QED
  BY <1>2, <1>3, <1>4, <1>5, <1>6 DEF WaitStep

\* A subset and the rest of a finite set make up its number.
LEMMA Halves ==
    ASSUME NEW S, IsFiniteSet(S), NEW T \in SUBSET S
    PROVE  Cardinality(S) - Cardinality(T) = Cardinality(S \ T)
<1>1. IsFiniteSet(T) /\ IsFiniteSet(S \ T)
  BY FS_Subset
<1>2. Cardinality(S) \in Nat /\ Cardinality(T) \in Nat /\ Cardinality(S \ T) \in Nat
  BY <1>1, FS_CardinalityType
<1>3. Cardinality(T \cup (S \ T)) = Cardinality(T) + Cardinality(S \ T) - Cardinality(T \cap (S \ T))
  BY <1>1, FS_Union
<1>4. T \cup (S \ T) = S /\ T \cap (S \ T) = {}
  OBVIOUS
<1>5. Cardinality({}) = 0
  BY FS_EmptySet
<1>6. Cardinality(S) = Cardinality(T) + Cardinality(S \ T) - 0
  BY <1>3, <1>4, <1>5, Zenon
<1> QED
  BY <1>2, <1>6

\* What is asked of the registry is what is answered, whatever Blokli stores.
LEMMA QueriesResult ==
    ASSUME OperationTypes
    PROVE  QueriesAreExact
<1> SUFFICES ASSUME NEW sel \in Selectors
             PROVE  LET asked == {r \in stored : /\ sel.type # Nobody => r.type = sel.type
                                                 /\ sel.node # Nobody => r.node = sel.node
                                                 /\ sel.live_only => r.live}
                    IN  /\ failing => CountServices(sel).is = "error"
                        /\ ~failing => /\ StreamServices(sel) = {r \in asked : r.valid}
                                       /\ CountServices(sel).count - Cardinality(StreamServices(sel))
                                            = IF sel.live_only THEN 0 ELSE Cardinality({r \in asked : ~r.valid})
  BY DEF QueriesAreExact
<1> DEFINE asked == {r \in stored : /\ sel.type # Nobody => r.type = sel.type
                                    /\ sel.node # Nobody => r.node = sel.node
                                    /\ sel.live_only => r.live}
           readable == {r \in asked : r.valid}
<1>1. failing => CountServices(sel).is = "error"
  BY DEF CountServices, Failed
<1>2. ToBlokliSelector(sel).type = sel.type /\ ToBlokliSelector(sel).node = sel.node /\ sel.live_only \in BOOLEAN
  BY DEF ToBlokliSelector, Selectors
<1>3. Finds(ToBlokliSelector(sel), sel.live_only) = asked
  BY <1>2 DEF Finds
<1>4. QueryServiceEntries(sel) = readable
  BY <1>2, <1>3 DEF QueryServiceEntries, Converts
<1>5. ~failing => StreamServices(sel) = readable
  BY <1>4 DEF StreamServices
<1>6. IsFiniteSet(asked) /\ readable \in SUBSET asked /\ asked \ readable = {r \in asked : ~r.valid}
  BY OperationsAssumption, FS_Subset DEF OperationTypes
<1>7. Cardinality(asked) - Cardinality(readable) = Cardinality({r \in asked : ~r.valid})
  BY <1>6, Halves
<1>8. Cardinality(readable) \in Nat
  BY <1>6, FS_Subset, FS_CardinalityType
<1>9. ASSUME ~failing
      PROVE  CountServices(sel).count - Cardinality(StreamServices(sel))
               = IF sel.live_only THEN 0 ELSE Cardinality({r \in asked : ~r.valid})
  <2> HIDE DEF asked, readable
  <2>1. CASE sel.live_only
    <3>1. CountServices(sel).count = Cardinality(readable)
      BY <1>9, <1>4, <2>1 DEF CountServices
    <3> QED
      BY <1>5, <1>8, <1>9, <2>1, <3>1
  <2>2. CASE ~sel.live_only
    <3>1. CountServices(sel).count = Cardinality(asked)
      BY <1>2, <1>9, <1>3, <2>2 DEF CountServices
    <3> QED
      BY <1>5, <1>7, <1>9, <2>2, <3>1
  <2> QED
    BY <2>1, <2>2
<1> QED
  BY <1>1, <1>5, <1>9

LEMMA OperationsResult == OperationsInv => OperationsAreSound
<1> SUFFICES ASSUME OperationsInv PROVE OperationsAreSound
  OBVIOUS
<1>1. SetupDoneOnce
  BY DEF OperationsInv, OneUnderWay, OperationTypes, Kinds, SetupDoneOnce
<1>2. QueriesAreExact
  BY QueriesResult DEF OperationsInv
<1> QED
  BY <1>1, <1>2 DEF OperationsInv, OperationsAreSound
-----------------------------------------------------------------------------
(* The event stream: what a broadcast does to a consumer's queue. *)

\* A full channel gives up its first d events; who loses the last one is noted.
LEMMA BroadcastKept ==
    ASSUME NEW E, queue \in Seq(E), NEW events \in Seq(E), Broadcast(events), phase = "subscribed"
    PROVE  \E d \in 0..Len(queue \o events) :
              /\ queue' \in Seq(E) /\ Len(queue') = Len(queue \o events) - d
              /\ \A j \in 1..Len(queue') : queue'[j] = (queue \o events)[j + d]
              /\ Len(queue \o events) > 0 => d < Len(queue \o events)
              /\ \A i : i \in missed' <=> /\ i \in missed \/ \E j \in 1..d : (queue \o events)[j].id = i
                                          /\ \A j \in 1..Len(queue') : queue'[j].id # i
<1> DEFINE all == queue \o events
           d == IF Len(all) > Capacity THEN Len(all) - Capacity ELSE 0
           kept == IF Len(all) > Capacity THEN SubSeq(all, Len(all) - Capacity + 1, Len(all)) ELSE all
           gone == IF Len(all) > Capacity THEN SubSeq(all, 1, Len(all) - Capacity) ELSE <<>>
<1>0. Capacity \in Nat \ {0}
  BY StreamAssumption
<1>1. all \in Seq(E) /\ Len(all) \in Nat
  OBVIOUS
<1>2. queue' = kept /\ missed' = (missed \cup IdsOf(gone)) \ IdsOf(kept)
  BY Zenon DEF Broadcast
<1> HIDE DEF all
<1>3. d \in 0..Len(all) /\ (Len(all) > 0 => d < Len(all))
  BY <1>0, <1>1
<1>4. /\ kept \in Seq(E) /\ Len(kept) = Len(all) - d /\ \A j \in 1..Len(kept) : kept[j] = all[j + d]
  BY <1>0, <1>1
<1>5. gone \in Seq(E) /\ Len(gone) = d /\ \A j \in 1..Len(gone) : gone[j] = all[j]
  BY <1>0, <1>1
<1> HIDE DEF d, kept, gone
<1>6. ASSUME NEW s \in Seq(E), NEW i PROVE i \in IdsOf(s) <=> \E j \in 1..Len(s) : s[j].id = i
  BY DEF IdsOf, ToSet
<1>7. ASSUME NEW i PROVE i \in missed' <=> /\ i \in missed \/ \E j \in 1..d : all[j].id = i
                                           /\ \A j \in 1..Len(queue') : queue'[j].id # i
  <2>1. i \in IdsOf(gone) <=> \E j \in 1..d : all[j].id = i
    <3>1. i \in IdsOf(gone) <=> \E j \in 1..Len(gone) : gone[j].id = i
      BY <1>5, <1>6
    <3> QED
      BY <1>5, <3>1
  <2>2. i \in IdsOf(kept) <=> \E j \in 1..Len(kept) : kept[j].id = i
    BY <1>4, <1>6
  <2> QED
    BY <1>2, <2>1, <2>2
<1> QED
  BY <1>2, <1>3, <1>4, <1>7 DEF all

LEMMA BroadcastElse ==
    ASSUME NEW events, Broadcast(events)
    PROVE  /\ UNCHANGED <<phase, listed, view>>
           /\ phase = "listing" => queue' = <<>> /\ missed' = missed \cup IdsOf(events)
           /\ phase \notin {"subscribed", "listing"} => queue' = <<>> /\ missed' = missed
<1>1. UNCHANGED <<phase, listed, view>> /\ (phase # "subscribed" => queue' = <<>>)
  BY DEF Broadcast
<1>2. phase = "listing" => missed' = missed \cup IdsOf(events)
  <2>1. "listing" # "subscribed"
    OBVIOUS
  <2> QED
    BY <2>1, Zenon DEF Broadcast
<1>3. phase \notin {"subscribed", "listing"} => missed' = missed
  BY Zenon DEF Broadcast
<1> QED
  BY <1>1, <1>2, <1>3

\* A consumer's queue holds events about the given ids and is empty before it is
\* activated.
StreamTypes(ids, entries) ==
    /\ phase \in {"unsubscribed", "listing", "subscribed"} /\ listed \subseteq ids
    /\ queue \in Seq([id : ids, entry : entries]) /\ (phase # "subscribed" => queue = <<>>)
    /\ view \in [Topics -> entries \cup {Untold}]

IsQueued(i) == \E j \in 1..Len(queue) : queue[j].id = i
-----------------------------------------------------------------------------
(* The consumer of announcements. *)

Announced(i) == db.accounts[i] # None /\ db.accounts[i].announced

\* The handler is about to tell that the account was announced.
ToBeTold(i) == handler.at = "stored" /\ handler.account.key_id = i /\ (handler.old = None \/ ~handler.old.announced)

\* The announcement was told, is on its way, or will be read.
Reaches(i) ==
    /\ phase = "listing" => i \in listed \cup missed
    /\ phase = "subscribed" => i \in listed \cup missed \/ view[i] = "announced" \/ IsQueued(i)

AnnounceInv ==
    /\ StreamTypes(Ids, {"announced"})
    /\ \A i \in Ids : db.accounts[i] # None => i \in nodes
    /\ handler.at # "idle" => handler.account.key_id \in nodes
    /\ handler.at = "stored" => db.accounts[handler.account.key_id] = handler.account
    /\ \A i \in Ids : Announced(i) /\ ~ToBeTold(i) => Reaches(i)

LEMMA AnnounceInitInv == AccountInit /\ StreamInit => AnnounceInv
<1> SUFFICES ASSUME AccountInit, StreamInit PROVE AnnounceInv
  OBVIOUS
<1>1. StreamTypes(Ids, {"announced"})
  BY DEF StreamInit, StreamTypes
<1>2. \A i \in Ids : db.accounts[i] = None
  BY DEF AccountInit
<1> QED
  BY <1>1, <1>2 DEF AccountInit, AnnounceInv, Announced, Idle

\* The events of an update.
LEMMA AnnouncementTyped ==
    ASSUME NEW a \in Account, NEW old
    PROVE  /\ AnnouncementEvents(a, old) \in Seq([id : Ids, entry : {"announced"}])
           /\ a.announced /\ (old = None \/ ~old.announced) =>
                /\ AnnouncementEvents(a, old) = <<[id |-> a.key_id, entry |-> "announced"]>>
                /\ a.key_id \in IdsOf(AnnouncementEvents(a, old))
<1>1. a.key_id \in Ids /\ [id |-> a.key_id, entry |-> "announced"] \in [id : Ids, entry : {"announced"}]
  BY DEF Account
<1>2. AnnouncementEvents(a, old) \in Seq([id : Ids, entry : {"announced"}])
  <2> DEFINE E == [id : Ids, entry : {"announced"}]
             x == [id |-> a.key_id, entry |-> "announced"]
  <2>1. x \in E
    BY <1>1
  <2>2. AnnouncementEvents(a, old) = <<x>> \/ AnnouncementEvents(a, old) = <<>>
    BY DEF AnnouncementEvents
  <2> HIDE DEF E, x
  <2>3. <<x>> \in Seq(E) /\ <<>> \in Seq(E)
    BY <2>1
  <2>4. AnnouncementEvents(a, old) \in Seq(E)
    BY <2>2, <2>3
  <2> QED
    BY <2>4 DEF E
<1>3. ASSUME a.announced, old = None \/ ~old.announced
      PROVE  AnnouncementEvents(a, old) = <<[id |-> a.key_id, entry |-> "announced"]>>
  BY <1>3 DEF AnnouncementEvents
<1>4. a.key_id \in IdsOf(<<[id |-> a.key_id, entry |-> "announced"]>>)
  <2> DEFINE s == <<[id |-> a.key_id, entry |-> "announced"]>>
  <2>1. 1 \in DOMAIN s /\ s[1].id = a.key_id
    OBVIOUS
  <2> HIDE DEF s
  <2> QED
    BY <2>1 DEF IdsOf, ToSet, s
<1> QED
  BY <1>2, <1>3, <1>4

\* The last stage of the handler: the consumer gets the announcement or misses it.
LEMMA AnnounceHandled ==
    ASSUME AccountInv, AnnounceInv, AccountHandled
    PROVE  AnnounceInv'
<1> DEFINE a == handler.account
           old == handler.old
           events == AnnouncementEvents(a, old)
           E == [id : Ids, entry : {"announced"}]
<1>t. handler.at = "stored" /\ a \in Account /\ a.key_id \in Ids /\ db.accounts[a.key_id] = a
  BY DEF AccountHandled, AccountInv, AccountTypes, AnnounceInv, Account
<1>u. handler' = Idle /\ handler'.at = "idle" /\ db' = db /\ nodes' = nodes /\ Broadcast(events)
  BY DEF AccountHandled, Idle
<1>s. UNCHANGED <<phase, listed, view>>
  BY <1>u, BroadcastElse
<1>e. events \in Seq(E) /\ queue \in Seq(E)
  BY <1>t, AnnouncementTyped DEF AnnounceInv, StreamTypes
<1>n. ASSUME NEW i \in Ids, Announced(i), ToBeTold(i)
      PROVE  i = a.key_id /\ events = <<[id |-> i, entry |-> "announced"]>> /\ i \in IdsOf(events)
  BY <1>n, <1>t, AnnouncementTyped DEF Announced, ToBeTold
<1>r. \A i \in Ids : Announced(i) /\ ~ToBeTold(i) => Reaches(i)
  BY DEF AnnounceInv
<1>p. phase \in {"unsubscribed", "listing", "subscribed"}
  BY DEF AnnounceInv, StreamTypes
<1> HIDE DEF events, a, old, E
<1>1. CASE phase = "subscribed"
  <2>1. PICK d \in 0..Len(queue \o events) :
              /\ queue' \in Seq(E) /\ Len(queue') = Len(queue \o events) - d
              /\ \A j \in 1..Len(queue') : queue'[j] = (queue \o events)[j + d]
              /\ Len(queue \o events) > 0 => d < Len(queue \o events)
              /\ \A i : i \in missed' <=> /\ i \in missed \/ \E j \in 1..d : (queue \o events)[j].id = i
                                          /\ \A j \in 1..Len(queue') : queue'[j].id # i
    BY <1>1, <1>u, <1>e, BroadcastKept
  <2> DEFINE all == queue \o events
  <2>2. Len(all) \in Nat /\ Len(all) = Len(queue) + Len(events) /\ Len(queue) \in Nat /\ Len(events) \in Nat
        /\ \A j \in 1..Len(queue) : all[j] = queue[j]
    BY <1>e
  <2>3. \A j \in 1..Len(events) : all[Len(queue) + j] = events[j]
    BY <1>e
  <2> HIDE DEF all
  <2>4. ASSUME NEW i \in Ids, NEW j \in 1..Len(all), all[j].id = i PROVE i \in missed' \/ IsQueued(i)'
    <3>1. CASE j <= d
      BY <2>1, <2>4, <3>1 DEF all, IsQueued
    <3>2. CASE j > d
      <4>1. j - d \in 1..Len(queue') /\ queue'[j - d] = all[j]
        BY <2>1, <2>2, <3>2 DEF all
      <4> QED
        BY <2>4, <4>1 DEF IsQueued
    <3> QED
      BY <3>1, <3>2, <2>1, <2>2
  <2>5. ASSUME NEW i \in Ids, Announced(i) PROVE Reaches(i)'
    <3>1. CASE ToBeTold(i)
      <4>1. events = <<[id |-> i, entry |-> "announced"]>>
        BY <1>n, <2>5, <3>1
      <4>2. Len(events) = 1 /\ events[1].id = i
        BY <4>1
      <4>3. Len(all) \in 1..Len(all) /\ all[Len(all)].id = i
        BY <2>2, <2>3, <4>2
      <4> QED
        BY <1>1, <1>s, <2>4, <4>3 DEF Reaches
    <3>2. CASE ~ToBeTold(i)
      <4>1. i \in listed \cup missed \/ view[i] = "announced" \/ IsQueued(i)
        BY <1>1, <1>r, <2>5, <3>2 DEF Reaches
      <4>2. IsQueued(i) => i \in missed' \/ IsQueued(i)'
        <5> SUFFICES ASSUME NEW j \in 1..Len(queue), queue[j].id = i PROVE i \in missed' \/ IsQueued(i)'
          BY DEF IsQueued
        <5>1. j \in 1..Len(all) /\ all[j].id = i
          BY <2>2
        <5> QED
          BY <2>4, <5>1
      <4>3. i \in missed => i \in missed' \/ IsQueued(i)'
        BY <2>1 DEF IsQueued
      <4> QED
        BY <1>1, <1>s, <4>1, <4>2, <4>3 DEF Reaches
    <3> QED
      BY <3>1, <3>2
  <2>6. StreamTypes(Ids, {"announced"})'
    BY <1>s, <1>1, <2>1 DEF AnnounceInv, StreamTypes, E
  <2> QED
    BY <1>u, <2>5, <2>6 DEF AnnounceInv, Announced
<1>2. CASE phase # "subscribed"
  <2>1. queue' = <<>> /\ (phase = "listing" => missed' = missed \cup IdsOf(events))
    BY <1>p, <1>2, <1>u, BroadcastElse
  <2>2. StreamTypes(Ids, {"announced"})'
    BY <1>s, <1>2, <2>1 DEF AnnounceInv, StreamTypes
  <2>3. ASSUME NEW i \in Ids, Announced(i) PROVE Reaches(i)'
    BY <1>2, <1>s, <1>n, <1>r, <2>1, <2>3 DEF Reaches
  <2> QED
    BY <1>u, <2>2, <2>3 DEF AnnounceInv, Announced
<1> QED
  BY <1>1, <1>2

\* The consumer's own steps.
LEMMA AnnounceConsumer ==
    ASSUME AccountInv, AnnounceInv, ConsumerStep
    PROVE  AnnounceInv'
<1>u. UNCHANGED <<db, nodes, handler>>
  BY DEF ConsumerStep, accountVars
<1>t. StreamTypes(Ids, {"announced"}) /\ nodes \subseteq Ids /\ \A i \in Ids : i \in Topics
  BY DEF AnnounceInv, AccountInv, AccountTypes, AccountTypeOK
<1>r. \A i \in Ids : Announced(i) => i \in nodes
  BY DEF AnnounceInv, Announced
<1>1. ASSUME StreamTypes(Ids, {"announced"})',
             \A i \in Ids : Announced(i) /\ ~ToBeTold(i) /\ Reaches(i) => Reaches(i)'
      PROVE  AnnounceInv'
  BY <1>1, <1>u DEF AnnounceInv, Announced, ToBeTold
<1>2. CASE ListState(nodes)
  <2>1. StreamTypes(Ids, {"announced"})'
    BY <1>2, <1>t DEF ListState, StreamTypes
  <2>2. \A i \in Ids : Announced(i) => Reaches(i)'
    BY <1>2, <1>r DEF ListState, Reaches
  <2> QED
    BY <1>1, <2>1, <2>2
<1>3. CASE Activate
  <2>1. StreamTypes(Ids, {"announced"})'
    BY <1>3, <1>t DEF Activate, StreamTypes
  <2>2. \A i \in Ids : Reaches(i) => Reaches(i)'
    BY <1>3 DEF Activate, Reaches
  <2> QED
    BY <1>1, <2>1, <2>2
<1>4. ASSUME NEW x \in listed, ReadState(x, Entry(x), Public(Entry(x))) PROVE AnnounceInv'
  <2>0. x \in Ids /\ x \in Topics
    BY <1>t DEF StreamTypes
  <2>1. /\ phase = "subscribed" /\ listed' = listed \ {x} /\ UNCHANGED <<phase, queue, missed>>
        /\ view' = IF Entry(x) = "announced" THEN [view EXCEPT ![x] = "announced"] ELSE view
    BY <1>4 DEF ReadState, Public
  <2>2. StreamTypes(Ids, {"announced"})'
    BY <1>t, <2>1 DEF StreamTypes
  <2>3. view' \in [Topics -> {"announced", Untold}] /\ \A i \in Topics : view[i] = "announced" => view'[i] = "announced"
    BY <1>t, <2>1 DEF StreamTypes
  <2>4. Announced(x) => view'[x] = "announced"
    <3>1. Announced(x) => Entry(x) = "announced"
      BY DEF Announced, Entry
    <3> QED
      BY <1>t, <2>0, <2>1, <3>1 DEF StreamTypes
  <2>5. ASSUME NEW i \in Ids, Announced(i), Reaches(i) PROVE Reaches(i)'
    BY <1>t, <2>1, <2>3, <2>4, <2>5 DEF Reaches, IsQueued
  <2> QED
    BY <1>1, <2>2, <2>5
<1>5. CASE TakeEvent
  <2> DEFINE E == [id : Ids, entry : {"announced"}]
  <2>1. /\ phase = "subscribed" /\ queue # <<>> /\ queue' = Tail(queue) /\ UNCHANGED <<phase, listed, missed>>
        /\ view' = [view EXCEPT ![Head(queue).id] = Head(queue).entry]
    BY <1>5 DEF TakeEvent
  <2>2. queue \in Seq(E)
    BY <1>t DEF StreamTypes
  <2> HIDE DEF E
  <2>3. /\ queue' \in Seq(E) /\ Head(queue) = queue[1] /\ 1 \in 1..Len(queue)
        /\ \A j \in 2..Len(queue) : j - 1 \in 1..Len(queue') /\ queue'[j - 1] = queue[j]
    BY <2>1, <2>2, RestOf
  <2>a. queue[1] \in E
    BY <2>2, <2>3
  <2>4. queue[1].id \in Ids /\ queue[1].entry = "announced"
    BY <2>a DEF E
  <2>5. view' \in [Topics -> {"announced", Untold}]
        /\ \A i \in Topics : view'[i] = IF i = queue[1].id THEN "announced" ELSE view[i]
    BY <1>t, <2>1, <2>3, <2>4 DEF StreamTypes
  <2>6. StreamTypes(Ids, {"announced"})'
    BY <1>t, <2>1, <2>3, <2>5 DEF StreamTypes, E
  <2>7. ASSUME NEW i \in Ids, IsQueued(i) PROVE view'[i] = "announced" \/ IsQueued(i)'
    <3>1. PICK j \in 1..Len(queue) : queue[j].id = i
      BY <2>7 DEF IsQueued
    <3>2. CASE j = 1
      BY <1>t, <2>5, <3>1, <3>2
    <3>3. CASE j # 1
      <4>1. j - 1 \in 1..Len(queue') /\ queue'[j - 1].id = i
        BY <2>3, <3>1, <3>3
      <4> QED
        BY <4>1 DEF IsQueued
    <3> QED
      BY <3>2, <3>3
  <2>8. ASSUME NEW i \in Ids, Reaches(i) PROVE Reaches(i)'
    BY <1>t, <2>1, <2>5, <2>7, <2>8 DEF Reaches
  <2> QED
    BY <1>1, <2>6, <2>8
<1> QED
  BY <1>2, <1>3, <1>4, <1>5 DEF ConsumerStep

LEMMA AnnounceNext ==
    ASSUME AccountInv, AnnounceInv, AccountStep \/ UNCHANGED <<accountVars, streamVars>>
    PROVE  AnnounceInv'
<1>1. ASSUME UNCHANGED streamVars, UNCHANGED <<db, handler>>, nodes \subseteq nodes' PROVE AnnounceInv'
  <2>1. StreamTypes(Ids, {"announced"})'
    BY <1>1 DEF AnnounceInv, StreamTypes, streamVars
  <2>2. \A i \in Ids : Announced(i)' /\ ~ToBeTold(i)' => Reaches(i)'
    BY <1>1 DEF AnnounceInv, Announced, ToBeTold, Reaches, IsQueued, streamVars
  <2> QED
    BY <1>1, <2>1, <2>2 DEF AnnounceInv
<1>2. ASSUME NEW s \in Slots, SlotStep(s) PROVE AnnounceInv'
  BY <1>1, <1>2 DEF SlotStep, LoadBegins, LoadFails, Expire, LoadEnds
<1>3. CASE (InvalidateCaches \/ \E i \in Ids : EdgeSeen(i)) /\ UNCHANGED streamVars
  BY <1>1, <1>3 DEF InvalidateCaches, EdgeSeen
<1>4. ASSUME NEW a \in Account, AccountReceived(a), UNCHANGED streamVars PROVE AnnounceInv'
  <2>1. /\ handler.at = "idle" /\ handler' = [at |-> "cached", account |-> a, old |-> None]
        /\ handler'.at = "cached" /\ handler'.account = a
        /\ nodes' = nodes \cup {a.key_id} /\ db' = db
    BY <1>4 DEF AccountReceived, Idle
  <2>2. StreamTypes(Ids, {"announced"})'
    BY <1>4 DEF AnnounceInv, StreamTypes, streamVars
  <2>3. \A i \in Ids : Announced(i)' => Reaches(i)'
    BY <1>4, <2>1 DEF AnnounceInv, Announced, ToBeTold, Reaches, IsQueued, streamVars
  <2> QED
    BY <2>1, <2>2, <2>3 DEF AnnounceInv
<1>5. CASE AccountStored /\ UNCHANGED streamVars
  <2> DEFINE a == handler.account
             old == db.accounts[a.key_id]
  <2>1. handler.at = "cached" /\ a \in Account /\ a.key_id \in Ids /\ DbType(db) /\ db' = InsertAccount(db, a) /\ nodes' = nodes
    BY <1>5, DbTyped DEF AccountStored, AccountInv, AccountTypes, Account
  <2>2. handler' = [handler EXCEPT !.at = "stored", !.old = old]
    BY <1>5 DEF AccountStored
  <2>3. handler = [at |-> handler.at, account |-> handler.account, old |-> handler.old]
    BY <2>1 DEF AccountInv, AccountTypes
  <2>4. handler'.at = "stored" /\ handler'.account = a /\ handler'.old = old
    BY <2>2, <2>3
  <2>5. \A i \in Ids : db'.accounts[i] = IF i = a.key_id THEN a ELSE db.accounts[i]
    BY <2>1, InsertFields
  <2>6. StreamTypes(Ids, {"announced"})'
    BY <1>5 DEF AnnounceInv, StreamTypes, streamVars
  <2>7. ASSUME NEW i \in Ids, Announced(i)', ~ToBeTold(i)' PROVE Reaches(i)'
    <3>1. Announced(i)
      BY <2>4, <2>5, <2>7 DEF Announced, ToBeTold
    <3>2. Reaches(i)
      BY <2>1, <3>1 DEF AnnounceInv, ToBeTold
    <3> QED
      BY <1>5, <3>2 DEF Reaches, IsQueued, streamVars
  <2>8. a.key_id \in nodes
    BY <2>1 DEF AnnounceInv
  <2>9. \A i \in Ids : db'.accounts[i] # None => i \in nodes'
    BY <2>1, <2>5, <2>8 DEF AnnounceInv
  <2> QED
    BY <2>1, <2>4, <2>5, <2>6, <2>7, <2>8, <2>9 DEF AnnounceInv
<1>6. CASE AccountNotStored /\ UNCHANGED streamVars
  <2>1. handler.at = "cached" /\ handler' = Idle /\ handler'.at = "idle" /\ UNCHANGED <<db, nodes>>
    BY <1>6 DEF AccountNotStored, Idle
  <2>2. StreamTypes(Ids, {"announced"})'
    BY <1>6 DEF AnnounceInv, StreamTypes, streamVars
  <2>3. \A i \in Ids : Announced(i)' => Reaches(i)'
    BY <1>6, <2>1 DEF AnnounceInv, Announced, ToBeTold, Reaches, IsQueued, streamVars
  <2> QED
    BY <2>1, <2>2, <2>3 DEF AnnounceInv
<1>7. CASE UNCHANGED <<accountVars, streamVars>>
  BY <1>1, <1>7 DEF accountVars
<1> QED
  BY <1>2, <1>3, <1>4, <1>5, <1>6, <1>7, AnnounceHandled, AnnounceConsumer DEF AccountStep, HandlerStep

LEMMA AnnounceResult == AnnounceInv => AnnouncedAccountsAreKnown
<1> SUFFICES ASSUME AnnounceInv, CaughtUp, handler = Idle, NEW i \in Ids, Entry(i) = "announced"
             PROVE  view[i] = "announced" \/ i \in missed
  BY DEF AnnouncedAccountsAreKnown
<1>1. Announced(i) /\ ~ToBeTold(i)
  BY DEF Entry, Announced, ToBeTold, Idle
<1>2. ~IsQueued(i)
  BY DEF CaughtUp, IsQueued
<1> QED
  BY <1>1, <1>2 DEF AnnounceInv, Reaches, CaughtUp

\* The accounts as a whole: a consumer that has caught up knows every announced
\* account, save for the named causes, for any accounts, readers and capacity.
THEOREM AnnouncementsCorrect == AccountSpec => []AnnouncedAccountsAreKnown
<1>1. AccountInit /\ StreamInit => AccountInv /\ AnnounceInv
  BY AccountInitInv, AnnounceInitInv
<1>2. AccountInv /\ AnnounceInv /\ [AccountStep]_<<accountVars, streamVars>> => AccountInv' /\ AnnounceInv'
  BY AccountNext, AnnounceNext DEF accountVars
<1> QED
  BY <1>1, <1>2, AnnounceResult, PTL DEF AccountSpec
-----------------------------------------------------------------------------
(* The consumer of channel events. *)

ViewEntry == ChannelEntry \cup {NoEntry}

\* The handler is not about to tell a change of this channel.
Settled(c) == feed.at = "idle" \/ feed.channel # c \/ feed.old = feed.entry

\* A consumer told nothing does as well without an entry that is not open.
Accepted(v, x) == v = x \/ (v = Untold /\ ~Opened(x))

IsLast(c, j) == queue[j].id = c /\ \A k \in 1..Len(queue) : k > j => queue[k].id # c

\* The last event on its way carries the stored entry; without one the consumer
\* has been told, or will read it.
IsTold(c) ==
    /\ \A j \in 1..Len(queue) : IsLast(c, j) => queue[j].entry = channels[c]
    /\ IsQueued(c) \/ Accepted(view[c], channels[c]) \/ c \in listed \/ phase = "unsubscribed"

ViewInv ==
    /\ StreamTypes(Channels, ViewEntry)
    /\ \A c \in Channels : Opened(channels[c]) => c \in edges
    /\ \A c \in Channels : c \in listed \/ phase = "unsubscribed" => view[c] = Untold
    /\ \A j \in 1..Len(queue) : queue[j].id \notin missed
    /\ \A c \in Channels : Settled(c) /\ c \notin missed \cup untold => IsTold(c)

LEMMA ViewInitInv == ChannelInit /\ StreamInit => ViewInv
<1> SUFFICES ASSUME ChannelInit, StreamInit PROVE ViewInv
  OBVIOUS
<1>1. StreamTypes(Channels, ViewEntry)
  BY DEF StreamInit, StreamTypes
<1>2. \A c \in Channels : view[c] = Untold /\ ~Opened(channels[c])
  BY ChannelAssumption DEF ChannelInit, StreamInit, Opened
<1>3. Len(queue) = 0 /\ phase = "unsubscribed"
  BY DEF StreamInit
<1> QED
  BY <1>1, <1>2, <1>3 DEF ViewInv, IsTold, IsLast

\* The chain, the caches and the closing calls leave the stored entries and the
\* stream alone.
LEMMA ViewElse ==
    ASSUME ViewInv, UNCHANGED streamVars, UNCHANGED <<channels, feed, untold>>, edges \subseteq edges'
    PROVE  ViewInv'
<1>1. StreamTypes(Channels, ViewEntry)'
  BY DEF ViewInv, StreamTypes, streamVars, ViewEntry
<1>2. \A c \in Channels : Settled(c)' /\ c \notin missed' \cup untold' => IsTold(c)'
  BY DEF ViewInv, Settled, IsTold, IsLast, IsQueued, Accepted, streamVars
<1>3. \A c \in Channels : Opened(channels'[c]) => c \in edges'
  BY DEF ViewInv, Opened
<1> QED
  BY <1>1, <1>2, <1>3 DEF ViewInv, streamVars, Opened

\* Every event of an update is about its channel and carries its entry.
LEMMA ChannelEventsTyped ==
    ASSUME NEW c, NEW old, NEW new
    PROVE  ChannelEvents(c, old, new) \in Seq({[id |-> c, entry |-> new]})
<1> DEFINE x == [id |-> c, entry |-> new]
           E == {x}
           If(raised) == IF raised THEN <<x>> ELSE <<>>
           events == ChannelEvents(c, old, new)
<1>2. ASSUME NEW raised PROVE If(raised) = <<x>> \/ If(raised) = <<>>
  OBVIOUS
<1>3. PICK p, q, r, s :
         /\ p \in {<<x>>, <<>>} /\ q \in {<<x>>, <<>>} /\ r \in {<<x>>, <<>>} /\ s \in {<<x>>, <<>>}
         /\ events = p \/ events = (q \o r) \o s
  <2>1. events = IF old = NoEntry THEN If(TRUE)
                 ELSE If(StatusEvent(old.status, new.status)) \o If(old.balance # new.balance)
                        \o If(old.ticket_index < new.ticket_index /\ c \notin Incoming)
    BY DEF ChannelEvents
  <2>2. /\ If(TRUE) \in {<<x>>, <<>>} /\ If(StatusEvent(old.status, new.status)) \in {<<x>>, <<>>}
        /\ If(old.balance # new.balance) \in {<<x>>, <<>>}
        /\ If(old.ticket_index < new.ticket_index /\ c \notin Incoming) \in {<<x>>, <<>>}
    BY <1>2
  <2> HIDE DEF If, events, x
  <2> QED
    BY <2>1, <2>2
<1> HIDE DEF x, events
<1>4. <<x>> \in Seq(E) /\ <<>> \in Seq(E)
  OBVIOUS
<1> HIDE DEF E
<1>5. p \in Seq(E) /\ q \in Seq(E) /\ r \in Seq(E) /\ s \in Seq(E)
  BY <1>3, <1>4
<1>6. (q \o r) \o s \in Seq(E)
  BY <1>5
<1>7. events \in Seq(E)
  BY <1>3, <1>5, <1>6
<1> QED
  BY <1>7 DEF events, E, x

\* The handler stores an update and is about to tell it.
LEMMA ViewReceive ==
    ASSUME ChannelInv, ViewInv, NEW c \in Channels, ChannelReceived(c), UNCHANGED streamVars
    PROVE  ViewInv'
<1>1. /\ channels' = [channels EXCEPT ![c] = onChain[c]] /\ edges' = edges \cup {c} /\ untold' = untold
      /\ feed' = [at |-> "stored", channel |-> c, entry |-> onChain[c], old |-> channels[c]]
      /\ feed = Waiting /\ feed.at = "idle"
  BY DEF ChannelReceived, Fed, Waiting
<1>2. channels \in [Channels -> ViewEntry]
  BY DEF ChannelInv, ChannelTypes, ChannelTypeOK, ViewEntry
<1>3. \A d \in Channels : channels'[d] = IF d = c THEN onChain[c] ELSE channels[d]
  BY <1>1, <1>2
<1>4. feed'.at = "stored" /\ feed'.channel = c /\ feed'.entry = onChain[c] /\ feed'.old = channels[c]
  BY <1>1
<1>5. StreamTypes(Channels, ViewEntry)'
  BY DEF ViewInv, StreamTypes, streamVars, ViewEntry
<1>6. \A d \in Channels : Opened(channels'[d]) => d \in edges'
  BY <1>1, <1>3 DEF ViewInv
<1>7. ASSUME NEW d \in Channels, Settled(d)', d \notin missed' \cup untold' PROVE IsTold(d)'
  <2>1. channels'[d] = channels[d]
    BY <1>3, <1>4, <1>7 DEF Settled
  <2>2. IsTold(d)
    BY <1>1, <1>7 DEF ViewInv, Settled, streamVars
  <2> QED
    BY <2>1, <2>2 DEF IsTold, IsLast, IsQueued, Accepted, streamVars
<1> QED
  BY <1>5, <1>6, <1>7 DEF ViewInv, streamVars, Opened

\* Telling the change of one channel: others keep what they had on its way, and
\* the event told last is the one the consumer gets.
LEMMA ViewTold ==
    ASSUME ChannelInv, ViewInv, ChannelTold
    PROVE  ViewInv'
<1> DEFINE f == feed.channel
           new == feed.entry
           events == ChannelEvents(f, feed.old, new)
           E == [id : Channels, entry : ViewEntry]
<1>1. feed.at = "cached" /\ f \in Channels /\ new \in ViewEntry /\ channels[f] = new
  BY DEF ChannelTold, ChannelInv, ChannelTypes, Waiting, ViewEntry
<1>2. /\ feed' = Waiting /\ feed'.at = "idle" /\ Broadcast(events) /\ UNCHANGED <<channels, edges>>
      /\ untold' = IF events # <<>> THEN untold \ {f}
                   ELSE IF feed.old # new THEN untold \cup {f} ELSE untold
  BY DEF ChannelTold, Waiting
<1>3. UNCHANGED <<phase, listed, view>>
  BY <1>2, BroadcastElse
<1>4. /\ events \in Seq(E) /\ queue \in Seq(E)
      /\ \A j \in 1..Len(events) : events[j].id = f /\ events[j].entry = new
  <2>1. queue \in Seq(E)
    BY DEF ViewInv, StreamTypes
  <2> DEFINE x == [id |-> f, entry |-> new]
  <2>2. events \in Seq({x})
    BY ChannelEventsTyped
  <2>3. x \in E /\ x.id = f /\ x.entry = new
    BY <1>1
  <2> HIDE DEF events, x, f, new, E
  <2>4. {x} \subseteq E /\ \A j \in 1..Len(events) : events[j] = x
    BY <2>2, <2>3
  <2>5. events \in Seq(E)
    BY <2>2, <2>4
  <2> QED
    BY <2>1, <2>3, <2>4, <2>5
<1>5. phase \in {"unsubscribed", "listing", "subscribed"}
  BY DEF ViewInv, StreamTypes
<1>6. \A c \in Channels : Settled(c) /\ c \notin missed \cup untold => IsTold(c)
  BY DEF ViewInv
<1>7. \A j \in 1..Len(queue) : queue[j].id \notin missed
  BY DEF ViewInv
\* What is known of a channel the events are not about.
<1>8. ASSUME NEW c \in Channels, c # f \/ events = <<>>, c \notin missed \cup untold' PROVE IsTold(c)
  <2>1. c \notin untold
    BY <1>2, <1>8
  <2>2. c = f => feed.old = new
    BY <1>2, <1>8
  <2> QED
    BY <1>6, <1>8, <2>1, <2>2 DEF Settled
<1> HIDE DEF events, f, new, E
<1>9. ASSUME queue' \in Seq(E), phase # "subscribed" => queue' = <<>>,
             \A j \in 1..Len(queue') : queue'[j].id \notin missed',
             \A c \in Channels : c \notin missed' \cup untold' => IsTold(c)'
      PROVE  ViewInv'
  <2>1. StreamTypes(Channels, ViewEntry)'
    BY <1>3, <1>9 DEF ViewInv, StreamTypes, ViewEntry, E
  <2> QED
    BY <1>2, <1>3, <1>9, <2>1 DEF ViewInv, Opened
<1>10. CASE phase # "subscribed"
  <2>1. queue' = <<>> /\ queue = <<>>
    BY <1>3, <1>5, <1>10, <1>2, BroadcastElse DEF ViewInv, StreamTypes
  <2>2. ASSUME NEW c \in Channels, c \notin missed' \cup untold' PROVE IsTold(c)'
    <3>1. CASE phase = "unsubscribed"
      BY <1>3, <2>1, <3>1 DEF IsTold, IsLast
    <3>2. CASE phase = "listing"
      <4>1. missed' = missed \cup IdsOf(events)
        BY <1>2, <3>2, BroadcastElse
      <4>2. c # f \/ events = <<>>
        <5>1. ASSUME events # <<>> PROVE f \in IdsOf(events)
          <6>1. 1 \in 1..Len(events) /\ events[1].id = f
            BY <1>4, <5>1
          <6> QED
            BY <1>4, <6>1 DEF IdsOf, ToSet
        <5> QED
          BY <2>2, <4>1, <5>1
      <4>3. IsTold(c)
        BY <1>8, <2>2, <4>1, <4>2
      <4> QED
        BY <1>2, <1>3, <2>1, <4>3 DEF IsTold, IsLast, IsQueued, Accepted, Opened
    <3> QED
      BY <1>5, <1>10, <3>1, <3>2
  <2>3. queue' \in Seq(E) /\ Len(queue') = 0
    BY <2>1
  <2> QED
    BY <1>9, <1>10, <2>1, <2>2, <2>3
<1>11. CASE phase = "subscribed"
  <2> DEFINE all == queue \o events
  <2>1. PICK d \in 0..Len(all) :
              /\ queue' \in Seq(E) /\ Len(queue') = Len(all) - d
              /\ \A j \in 1..Len(queue') : queue'[j] = all[j + d]
              /\ Len(all) > 0 => d < Len(all)
              /\ \A i : i \in missed' <=> /\ i \in missed \/ \E j \in 1..d : all[j].id = i
                                          /\ \A j \in 1..Len(queue') : queue'[j].id # i
    BY <1>11, <1>2, <1>4, BroadcastKept
  <2>2. /\ Len(all) = Len(queue) + Len(events) /\ Len(queue) \in Nat /\ Len(events) \in Nat
        /\ \A j \in 1..Len(queue) : all[j] = queue[j]
        /\ \A j \in 1..Len(events) : all[Len(queue) + j] = events[j]
    BY <1>4
  <2> HIDE DEF all
  <2>3. \A j \in 1..Len(all) : j > Len(queue) => all[j].id = f /\ all[j].entry = new
    <3>1. ASSUME NEW j \in 1..Len(all), j > Len(queue) PROVE all[j].id = f /\ all[j].entry = new
      <4>1. j - Len(queue) \in 1..Len(events) /\ all[j] = events[j - Len(queue)]
        BY <2>2, <3>1
      <4> QED
        BY <1>4, <4>1
    <3> QED
      BY <3>1
  <2>4. \A j \in 1..Len(queue') : queue'[j].id \notin missed'
    BY <2>1
  <2>5. ASSUME NEW c \in Channels, c \notin missed' \cup untold' PROVE IsTold(c)'
    <3>1. CASE c = f /\ events # <<>>
      <4> DEFINE n == Len(queue')
      <4>1. Len(events) > 0 /\ n \in 1..Len(queue') /\ Len(all) > Len(queue)
        BY <1>4, <2>1, <2>2, <3>1
      <4>2. queue'[n] = all[Len(all)] /\ queue'[n].id = c
        BY <2>1, <2>2, <2>3, <3>1, <4>1
      <4>3. ASSUME NEW j \in 1..Len(queue'), IsLast(c, j)' PROVE queue'[j].entry = channels'[c]
        <5>1. j = n
          BY <4>1, <4>2, <4>3 DEF IsLast
        <5> QED
          BY <1>1, <1>2, <2>2, <2>3, <3>1, <4>1, <4>2, <5>1
      <4>4. IsQueued(c)'
        BY <4>1, <4>2 DEF IsQueued
      <4> QED
        BY <4>3, <4>4 DEF IsTold
    <3>2. CASE c # f \/ events = <<>>
      <4>0. ASSUME NEW j \in 1..Len(all), all[j].id = c PROVE j \in 1..Len(queue) /\ all[j] = queue[j]
        <5>1. CASE c # f
          BY <2>2, <2>3, <4>0, <5>1
        <5>2. CASE events = <<>>
          BY <2>2, <4>0, <5>2
        <5> QED
          BY <3>2, <5>1, <5>2
      <4>1. CASE IsQueued(c)'
        <5>1. PICK m \in 1..Len(queue') : queue'[m].id = c
          BY <4>1 DEF IsQueued
        <5>a. queue'[m] = all[m + d]
          BY <2>1
        <5>b. m + d \in 1..Len(all)
          BY <2>1, <2>2
        <5>2. m + d \in 1..Len(all) /\ all[m + d].id = c
          BY <5>1, <5>a, <5>b
        <5>3. c \notin missed
          BY <1>7, <4>0, <5>2
        <5>4. IsTold(c)
          BY <1>8, <2>5, <3>2, <5>3
        <5>5. ASSUME NEW j \in 1..Len(queue'), IsLast(c, j)' PROVE queue'[j].entry = channels'[c]
          <6>a. queue'[j] = all[j + d] /\ queue'[j].id = c
            BY <2>1, <5>5, Zenon DEF IsLast
          <6>b. j + d \in 1..Len(all)
            BY <2>1, <2>2, <5>5
          <6>1. j + d \in 1..Len(all) /\ queue'[j] = all[j + d] /\ all[j + d].id = c
            BY <6>a, <6>b, Zenon
          <6>2. j + d \in 1..Len(queue) /\ all[j + d] = queue[j + d]
            BY <4>0, <6>1
          <6>3. ASSUME NEW k \in 1..Len(queue), k > j + d PROVE queue[k].id # c
            <7>a. k - d \in 1..Len(queue') /\ k - d > j /\ (k - d) + d = k
              BY <2>1, <2>2, <5>5, <6>3
            <7>b. queue'[k - d] = all[(k - d) + d]
              BY <2>1, <7>a, Zenon
            <7>1. k - d \in 1..Len(queue') /\ k - d > j /\ queue'[k - d] = all[k] /\ all[k] = queue[k]
              BY <2>2, <6>3, <7>a, <7>b
            <7> QED
              BY <5>5, <7>1 DEF IsLast
          <6>4. IsLast(c, j + d)
            BY <6>1, <6>2, <6>3 DEF IsLast
          <6> QED
            BY <1>2, <5>4, <6>1, <6>2, <6>4 DEF IsTold
        <5> QED
          BY <4>1, <5>5 DEF IsTold
      <4>2. CASE ~IsQueued(c)'
        <5>1. c \notin missed /\ \A j \in 1..d : all[j].id # c
          BY <2>1, <2>5, <4>2 DEF IsQueued
        <5>2. ~IsQueued(c)
          <6>1. ASSUME NEW j \in 1..Len(queue), queue[j].id = c PROVE FALSE
            <7>1. j \in 1..Len(all) /\ all[j].id = c
              BY <2>2, <6>1
            <7>2. j > d
              BY <2>1, <2>2, <5>1, <7>1
            <7>3. j - d \in 1..Len(queue') /\ queue'[j - d].id = c
              BY <2>1, <2>2, <7>1, <7>2
            <7> QED
              BY <4>2, <7>3 DEF IsQueued
          <6> QED
            BY <6>1 DEF IsQueued
        <5>3. IsTold(c)
          BY <1>8, <2>5, <3>2, <5>1
        <5>4. \A j \in 1..Len(queue') : ~IsLast(c, j)'
          BY <4>2 DEF IsLast, IsQueued
        <5> QED
          BY <1>2, <1>3, <5>2, <5>3, <5>4 DEF IsTold, Accepted, Opened
      <4> QED
        BY <4>1, <4>2
    <3> QED
      BY <3>1, <3>2
  <2> QED
    BY <1>9, <1>11, <2>1, <2>4, <2>5
<1> QED
  BY <1>10, <1>11

\* The consumer lists the edges, reads the listed channels and takes the events.
LEMMA ViewConsumer ==
    ASSUME ChannelInv, ViewInv, SubscriberStep
    PROVE  ViewInv'
<1>u. UNCHANGED <<channels, edges, feed, untold>>
  BY DEF SubscriberStep, channelVars
<1>t. /\ StreamTypes(Channels, ViewEntry) /\ edges \subseteq Channels /\ \A c \in Channels : c \in Topics
      /\ channels \in [Channels -> ViewEntry]
  BY ChannelAssumption DEF ViewInv, ChannelInv, ChannelTypes, ChannelTypeOK, ViewEntry
<1>r. \A c \in Channels : c \notin edges => ~Opened(channels[c])
  BY DEF ViewInv
<1>v. \A c \in Channels : c \in listed \/ phase = "unsubscribed" => view[c] = Untold
  BY DEF ViewInv
<1>q. \A j \in 1..Len(queue) : queue[j].id \notin missed
  BY DEF ViewInv
<1>1. ASSUME StreamTypes(Channels, ViewEntry)',
             \A c \in Channels : c \in listed' \/ phase' = "unsubscribed" => view'[c] = Untold,
             \A j \in 1..Len(queue') : queue'[j].id \notin missed',
             missed' = missed,
             \A c \in Channels : c \notin missed /\ IsTold(c) => IsTold(c)'
      PROVE  ViewInv'
  <2>1. \A c \in Channels : Settled(c)' => Settled(c)
    BY <1>u DEF Settled
  <2> QED
    BY <1>1, <1>u, <2>1 DEF ViewInv, Opened
<1>2. CASE ListState(edges)
  <2>1. /\ phase = "unsubscribed" /\ phase' = "listing" /\ listed' = edges /\ UNCHANGED <<queue, view, missed>>
    BY <1>2 DEF ListState
  <2>2. queue = <<>> /\ Len(queue) = 0
    BY <1>t, <2>1 DEF StreamTypes
  <2>3. StreamTypes(Channels, ViewEntry)'
    BY <1>t, <2>1, <2>2 DEF StreamTypes, ViewEntry
  <2>4. \A c \in Channels : IsTold(c)'
    BY <1>u, <1>r, <1>v, <2>1, <2>2 DEF IsTold, IsLast, Accepted, Opened
  <2> QED
    BY <1>1, <1>v, <1>q, <2>1, <2>3, <2>4
<1>3. CASE Activate
  <2>1. phase = "listing" /\ phase' = "subscribed" /\ UNCHANGED <<listed, queue, view, missed>>
    BY <1>3 DEF Activate
  <2>2. StreamTypes(Channels, ViewEntry)'
    BY <1>t, <2>1 DEF StreamTypes, ViewEntry
  <2>3. \A c \in Channels : IsTold(c) => IsTold(c)'
    BY <1>u, <2>1 DEF IsTold, IsLast, IsQueued, Accepted, Opened
  <2> QED
    BY <1>1, <1>v, <1>q, <2>1, <2>2, <2>3
<1>4. ASSUME NEW x \in listed, ReadState(x, EntryOf(x), Opened(EntryOf(x))) PROVE ViewInv'
  <2>0. x \in Channels /\ x \in Topics
    BY <1>t DEF StreamTypes
  <2>1. /\ phase = "subscribed" /\ listed' = listed \ {x} /\ UNCHANGED <<phase, queue, missed>>
        /\ view' = IF Opened(channels[x]) THEN [view EXCEPT ![x] = channels[x]] ELSE view
    BY <1>4 DEF ReadState, EntryOf, GetChannelById
  <2>2. view \in [Topics -> ViewEntry \cup {Untold}] /\ channels[x] \in ViewEntry
    BY <1>t, <2>0 DEF StreamTypes
  <2>3. /\ view' \in [Topics -> ViewEntry \cup {Untold}]
        /\ \A c \in Channels : c # x => view'[c] = view[c]
        /\ view'[x] = IF Opened(channels[x]) THEN channels[x] ELSE Untold
    BY <1>t, <1>v, <2>0, <2>1, <2>2
  <2>4. StreamTypes(Channels, ViewEntry)'
    BY <1>t, <2>1, <2>3 DEF StreamTypes, ViewEntry
  <2>5. ASSUME NEW c \in Channels, IsTold(c) PROVE IsTold(c)'
    <3>1. Accepted(view'[x], channels[x])
      BY <2>3 DEF Accepted
    <3>2. \A j \in 1..Len(queue') : IsLast(c, j)' => queue'[j].entry = channels'[c]
      BY <1>u, <2>1, <2>5 DEF IsTold, IsLast
    <3>3. IsQueued(c)' \/ Accepted(view'[c], channels[c]) \/ c \in listed'
      BY <2>1, <2>3, <2>5, <3>1 DEF IsTold, IsQueued
    <3> QED
      BY <1>u, <3>2, <3>3 DEF IsTold, Accepted, Opened
  <2> QED
    BY <1>1, <1>v, <1>q, <2>1, <2>3, <2>4, <2>5
<1>5. CASE TakeEvent
  <2> DEFINE E == [id : Channels, entry : ViewEntry]
  <2>1. /\ phase = "subscribed" /\ listed = {} /\ queue # <<>> /\ queue' = Tail(queue)
        /\ UNCHANGED <<phase, listed, missed>>
        /\ view' = [view EXCEPT ![Head(queue).id] = Head(queue).entry]
    BY <1>5 DEF TakeEvent
  <2>2. queue \in Seq(E)
    BY <1>t DEF StreamTypes
  <2> HIDE DEF E
  <2>3. /\ queue' \in Seq(E) /\ Head(queue) = queue[1] /\ 1 \in 1..Len(queue)
        /\ \A j \in 2..Len(queue) : j - 1 \in 1..Len(queue') /\ queue'[j - 1] = queue[j]
    BY <2>1, <2>2, RestOf
  <2>4. Len(queue) \in Nat /\ Len(queue') = Len(queue) - 1 /\ \A j \in 1..Len(queue') : queue'[j] = queue[j + 1]
    BY <2>1, <2>2
  <2>a. queue[1] \in E
    BY <2>2, <2>3
  <2>5. queue[1].id \in Channels /\ queue[1].entry \in ViewEntry
    BY <2>a DEF E
  <2>6. view' \in [Topics -> ViewEntry \cup {Untold}]
        /\ \A c \in Channels : view'[c] = IF c = queue[1].id THEN queue[1].entry ELSE view[c]
    BY <1>t, <2>1, <2>3, <2>5 DEF StreamTypes
  <2>7. StreamTypes(Channels, ViewEntry)'
    BY <1>t, <2>1, <2>3, <2>6 DEF StreamTypes, E, ViewEntry
  <2>8. \A j \in 1..Len(queue') : queue'[j].id \notin missed'
    BY <1>q, <2>1, <2>4
  <2>9. ASSUME NEW c \in Channels, IsTold(c) PROVE IsTold(c)'
    <3>1. ASSUME NEW j \in 1..Len(queue'), IsLast(c, j)' PROVE queue'[j].entry = channels'[c]
      <4>1. j + 1 \in 1..Len(queue) /\ queue'[j] = queue[j + 1] /\ queue[j + 1].id = c
        BY <2>4, <3>1 DEF IsLast
      <4>2. ASSUME NEW k \in 1..Len(queue), k > j + 1 PROVE queue[k].id # c
        <5>1. k - 1 \in 1..Len(queue') /\ k - 1 > j /\ queue'[k - 1] = queue[k]
          BY <2>3, <2>4, <4>2
        <5> QED
          BY <3>1, <5>1 DEF IsLast
      <4>3. IsLast(c, j + 1)
        BY <4>1, <4>2 DEF IsLast
      <4> QED
        BY <1>u, <2>9, <4>1, <4>3 DEF IsTold
    <3>2. CASE IsQueued(c)'
      BY <3>1, <3>2 DEF IsTold
    <3>3. CASE ~IsQueued(c)'
      <4>1. \A k \in 1..Len(queue) : k > 1 => queue[k].id # c
        BY <2>3, <2>4, <3>3 DEF IsQueued
      <4>2. CASE queue[1].id = c
        <5>1. IsLast(c, 1)
          BY <2>3, <4>1, <4>2 DEF IsLast
        <5>2. view'[c] = channels[c]
          BY <2>3, <2>6, <2>9, <4>2, <5>1 DEF IsTold
        <5> QED
          BY <1>u, <3>1, <5>2 DEF IsTold, Accepted
      <4>3. CASE queue[1].id # c
        <5>1. ~IsQueued(c)
          BY <2>4, <4>1, <4>3 DEF IsQueued
        <5>2. view'[c] = view[c]
          BY <2>6, <4>3
        <5> QED
          BY <1>u, <2>1, <2>9, <3>1, <5>1, <5>2 DEF IsTold, Accepted, Opened
      <4> QED
        BY <4>2, <4>3
    <3> QED
      BY <3>2, <3>3
  <2> QED
    BY <1>1, <2>1, <2>7, <2>8, <2>9
<1> QED
  BY <1>2, <1>3, <1>4, <1>5 DEF SubscriberStep

LEMMA ViewNext ==
    ASSUME ChannelInv, ViewInv, ChannelStep \/ UNCHANGED <<channelVars, streamVars>>
    PROVE  ViewInv'
<1>1. ASSUME NEW c \in Channels, ChainStep(c) PROVE ViewInv'
  <2>1. UNCHANGED <<channels, feed, untold, edges>>
    BY <1>1 DEF ChainStep, Funded, Redeemed, CounterpartyCloses, Initiated, Closed, Change, NoticePeriodEnds
  <2> QED
    BY <1>1, <2>1, ViewElse DEF ChainStep
<1>2. ASSUME NEW c \in Channels, CloserStep(c) PROVE ViewInv'
  <2>1. UNCHANGED <<channels, feed, untold, edges>>
    BY <1>2 DEF CloserStep, CloseChannel, Executes, Reverts, Initiated, Closed, Change
  <2> QED
    BY <1>2, <2>1, ViewElse DEF CloserStep
<1>3. ASSUME NEW s \in CacheSlots, CacheStep(s) PROVE ViewInv'
  <2>1. UNCHANGED <<channels, feed, untold, edges>>
    BY <1>3 DEF CacheStep, FillBegins, Dropped, FillEnds
  <2> QED
    BY <1>3, <2>1, ViewElse DEF CacheStep
<1>4. CASE FeedStep
  <2>1. ASSUME NEW c \in Channels, ChannelNotStored(c), UNCHANGED streamVars PROVE ViewInv'
    BY <2>1, ViewElse DEF ChannelNotStored, Fed
  <2>2. CASE FeedReconnects /\ UNCHANGED streamVars
    BY <2>2, ViewElse DEF FeedReconnects
  <2>3. CASE ChannelCached /\ UNCHANGED streamVars
    <3>1. feed.at = "stored" /\ feed' = [feed EXCEPT !.at = "cached"] /\ UNCHANGED <<channels, untold, edges>>
      BY <2>3 DEF ChannelCached
    <3>2. feed \in [at : {"stored", "cached"}, channel : Channels, entry : ViewEntry, old : ViewEntry]
      BY <3>1 DEF ChannelInv, ChannelTypes, Waiting, ViewEntry
    <3>3. feed'.at = "cached" /\ feed'.channel = feed.channel /\ feed'.entry = feed.entry /\ feed'.old = feed.old
      BY <3>1, <3>2
    <3>4. \A c \in Channels : Settled(c)' => Settled(c)
      BY <3>3 DEF Settled
    <3>5. StreamTypes(Channels, ViewEntry)'
      BY <2>3 DEF ViewInv, StreamTypes, streamVars, ViewEntry
    <3>6. \A c \in Channels : Settled(c)' /\ c \notin missed' \cup untold' => IsTold(c)'
      BY <2>3, <3>1, <3>4 DEF ViewInv, IsTold, IsLast, IsQueued, Accepted, Opened, streamVars
    <3> QED
      BY <2>3, <3>1, <3>5, <3>6 DEF ViewInv, streamVars, Opened
  <2> QED
    BY <1>4, <2>1, <2>2, <2>3, ViewReceive, ViewTold DEF FeedStep
<1>5. CASE UNCHANGED <<channelVars, streamVars>>
  BY <1>5, ViewElse DEF channelVars
<1> QED
  BY <1>1, <1>2, <1>3, <1>4, <1>5, ViewConsumer DEF ChannelStep

LEMMA ViewResult == ViewInv => ChannelViewIsCurrent
<1> SUFFICES ASSUME ViewInv, CaughtUp, feed = Waiting, NEW c \in Channels,
                    view[c] # Untold \/ Opened(channels[c]), c \notin missed \cup untold
             PROVE  view[c] = channels[c]
  BY DEF ChannelViewIsCurrent
<1>1. Settled(c)
  BY DEF Settled, Waiting
<1>2. IsTold(c) /\ ~IsQueued(c) /\ c \notin listed /\ phase # "unsubscribed"
  BY <1>1 DEF ViewInv, CaughtUp, IsQueued
<1> QED
  BY <1>2 DEF IsTold, Accepted

\* The channels as a whole: a consumer that has caught up was last told what is
\* stored, save for the named causes, for any channels, readers and capacity.
THEOREM ChannelViewCorrect == ChannelSpec => []ChannelViewIsCurrent
<1>1. ChannelInit /\ StreamInit => ChannelInv /\ ViewInv
  BY ChannelInitInv, ViewInitInv
<1>2. ChannelInv /\ ViewInv /\ [ChannelStep]_<<channelVars, streamVars>> => ChannelInv' /\ ViewInv'
  BY ChannelNext, ViewNext DEF channelVars
<1> QED
  BY <1>1, <1>2, ViewResult, PTL DEF ChannelSpec
-----------------------------------------------------------------------------
(* What a consumer knows of the registry. *)

EntryKinds == {"registered", "updated", "deregistered"}

\* The update at place i of the backlog is about this entry, or this type; it is
\* the change k of this one.
AboutEntry(e, i) == backlog[i].kind \in EntryKinds /\ backlog[i].key = e
AboutType(t, i) == backlog[i].kind \in {"type_registered"} \cup TypeFields /\ backlog[i].key = t
Concerns(k, key, i) == backlog[i].kind = k /\ backlog[i].key = key

\* No registration made from now on can equal x.
Gone(x) == x.registered_at < time \/ x.registered_at # x.updated_at

\* An entry that could still be registered as it was read is as it was read, or
\* is not there.
EntryInTime(e) ==
    /\ registry[e] # Nothing => registry[e].registered_at <= time
    /\ asRead.entries[e] # Nothing =>
        /\ asRead.entries[e].registered_at <= time
        /\ Gone(asRead.entries[e]) \/ registry[e] \in {asRead.entries[e], Nothing}

KnownAsRead ==
    /\ connecting \in {"start", "types read"} => known = NothingRead
    /\ connecting = "read" => known = asRead

\* The last update on its way leads to the entry; without one it is known.
EntryFollows(e) ==
    /\ \A i \in 1..Len(backlog) :
         AboutEntry(e, i) /\ (\A j \in 1..Len(backlog) : j > i => ~AboutEntry(e, j)) => UpdatedEntry(backlog[i]) = registry[e]
    /\ (\A i \in 1..Len(backlog) : ~AboutEntry(e, i)) =>
         \/ known.entries[e] = registry[e]
         \/ known.entries[e] = asRead.entries[e] /\ registry[e] = Nothing /\ atSubscription.entries[e] = Nothing

\* After a registration that is not the one read, none is.
OthersFollow(e) ==
    \A i \in 1..Len(backlog) : Concerns("registered", e, i) /\ asRead.entries[e] \notin {Nothing, backlog[i].entry} =>
        /\ Gone(asRead.entries[e])
        /\ \A j \in 1..Len(backlog) : j > i /\ Concerns("registered", e, j) => backlog[j].entry # asRead.entries[e]

\* Where a record waits for a registration, either the consumer knows what it
\* says and the registration comes first, or the record will not meet its like.
RecordFits(e) ==
    replayedServices[e] # Nothing =>
        \/ /\ known.entries[e] = replayedServices[e]
           /\ \/ registry[e] = Nothing /\ \A i \in 1..Len(backlog) : ~AboutEntry(e, i)
              \/ \E i \in 1..Len(backlog) : Concerns("registered", e, i) /\ \A j \in 1..Len(backlog) : j < i => ~AboutEntry(e, j)
        \/ /\ Gone(replayedServices[e])
           /\ \A i \in 1..Len(backlog) : Concerns("registered", e, i) => backlog[i].entry # replayedServices[e]

NewPending(t) == t \notin replayedTypes /\ \E i \in 1..Len(backlog) : Concerns("type_registered", t, i)
SettingPending(t, f) == \E i \in 1..Len(backlog) : Concerns(f, t, i)

SettingTold(t, f) ==
    \/ known.types[t][f] = types[t][f]
    \/ known.types[t][f] = Nothing /\ f # "owner" /\ asRead.types[t] = Nothing
    \/ asRead.types[t] # Nothing /\ known.types[t][f] = asRead.types[t][f] /\ types[t][f] = atSubscription.types[t][f]

\* A type's registration precedes its changes; the last change of a setting on
\* its way carries the setting.
TypeFollows(t) ==
    /\ \A i \in 1..Len(backlog) : AboutType(t, i) => types[t] # Nothing
    /\ known.types[t] = Nothing <=> types[t] = Nothing \/ NewPending(t)
    /\ \A i, j \in 1..Len(backlog) : Concerns("type_registered", t, i) /\ AboutType(t, j) => i <= j
    /\ \A f \in TypeFields :
        /\ \A i \in 1..Len(backlog) :
             Concerns(f, t, i) /\ (\A j \in 1..Len(backlog) : j > i => ~Concerns(f, t, j)) => backlog[i].entry[f] = types[t][f]
        /\ types[t] # Nothing /\ ~SettingPending(t, f) =>
             /\ \A i \in 1..Len(backlog) : Concerns("type_registered", t, i) => backlog[i].entry[f] = types[t][f]
             /\ NewPending(t) \/ SettingTold(t, f)

KnownTypes == known \in [entries : EntryTable, types : [Types -> [TypeFields -> {0, 1, Nothing}] \cup {Nothing}]]

KnownInv ==
    /\ KnownTypes /\ KnownAsRead
    /\ \A e \in Entries : EntryInTime(e)
    /\ connecting = "subscribed" =>
        /\ \A e \in Entries : EntryFollows(e) /\ OthersFollow(e) /\ RecordFits(e)
        /\ \A t \in Types : TypeFollows(t)

LEMMA KnownInitInv == RegistryInit => KnownInv
<1> SUFFICES ASSUME RegistryInit PROVE KnownInv
  OBVIOUS
<1>1. NothingRead.entries = NoEntries /\ NothingRead.types = NoTypes /\ asRead = NothingRead /\ known = NothingRead
  BY DEF RegistryInit, NothingRead
<1>2. KnownTypes
  BY <1>1 DEF KnownTypes, NothingRead, NoEntries, NoTypes, EntryTable
<1>3. \A e \in Entries : EntryInTime(e)
  <2> SUFFICES ASSUME NEW e \in Entries PROVE EntryInTime(e)
    OBVIOUS
  <2>1. registry[e] # Nothing => registry[e] = [registered_at |-> 0, updated_at |-> 0] /\ time = 0
    BY DEF RegistryInit
  <2> QED
    BY <1>1, <2>1 DEF EntryInTime, NoEntries
<1> QED
  BY <1>1, <1>2, <1>3 DEF KnownInv, KnownAsRead, RegistryInit

\* What the feed adds comes last, what is handled is taken from the front.
Appended(u) ==
    /\ Len(backlog) \in Nat /\ Len(backlog') = Len(backlog) + 1
    /\ \A i \in 1..Len(backlog) : backlog'[i] = backlog[i]
    /\ backlog'[Len(backlog) + 1] = u

Popped ==
    /\ Len(backlog) \in Nat /\ Len(backlog) > 0 /\ Len(backlog') = Len(backlog) - 1
    /\ \A i \in 1..Len(backlog') : backlog'[i] = backlog[i + 1]

\* The steps that are no change of an entry or a type, and handle none.
LEMMA KnownElse ==
    ASSUME ReplayInv, KnownInv, time' \in Nat, time <= time',
           UNCHANGED <<registry, types, connecting, asRead, atSubscription, replayedServices, replayedTypes, backlog, known>>
    PROVE  KnownInv'
<1>1. KnownTypes' /\ KnownAsRead'
  BY DEF KnownInv, KnownTypes, KnownAsRead
<1>2. time \in Nat /\ registry \in EntryTable /\ asRead.entries \in EntryTable /\ replayedServices \in EntryTable
  <2>1. time \in 0..MaxTime /\ registry \in EntryTable /\ replayedServices \in EntryTable
        /\ asRead \in [entries : EntryTable, types : TypeTable]
    BY DEF ReplayInv, RegistryTypes
  <2> QED
    BY <2>1, RegistryAssumption
<1>3. \A x \in ServiceEntry : x.registered_at \in Nat /\ (Gone(x) => Gone(x)')
  BY <1>2, RegistryAssumption DEF ServiceEntry, Gone
<1>4. ASSUME NEW e \in Entries PROVE EntryInTime(e) => EntryInTime(e)'
  <2>1. registry[e] \in ServiceEntry \cup {Nothing} /\ asRead.entries[e] \in ServiceEntry \cup {Nothing}
    BY <1>2 DEF EntryTable
  <2> QED
    BY <1>2, <1>3, <2>1 DEF EntryInTime
<1>5. ASSUME NEW e \in Entries, EntryFollows(e), OthersFollow(e), RecordFits(e)
      PROVE  EntryFollows(e)' /\ OthersFollow(e)' /\ RecordFits(e)'
  <2>1. replayedServices[e] \in ServiceEntry \cup {Nothing} /\ asRead.entries[e] \in ServiceEntry \cup {Nothing}
    BY <1>2 DEF EntryTable
  <2>2. EntryFollows(e)'
    BY <1>5 DEF EntryFollows, AboutEntry, UpdatedEntry
  <2>3. OthersFollow(e)'
    BY <1>3, <1>5, <2>1 DEF OthersFollow, Concerns
  <2>4. RecordFits(e)'
    BY <1>3, <1>5, <2>1 DEF RecordFits, Concerns, AboutEntry
  <2> QED
    BY <2>2, <2>3, <2>4
<1>6. ASSUME NEW t \in Types, TypeFollows(t) PROVE TypeFollows(t)'
  BY <1>6 DEF TypeFollows, AboutType, NewPending, Concerns, SettingPending, SettingTold
<1> QED
  BY <1>1, <1>4, <1>5, <1>6 DEF KnownInv

\* An update is added.
LEMMA EntryAdded ==
    ASSUME NEW e, NEW u, EntryFollows(e), Appended(u), UNCHANGED <<known, asRead, atSubscription>>,
           IF u.kind \in EntryKinds /\ u.key = e THEN registry'[e] = UpdatedEntry(u) ELSE registry'[e] = registry[e]
    PROVE  EntryFollows(e)'
<1>1. CASE u.kind \in EntryKinds /\ u.key = e
  <2> PICK n \in Nat : n = Len(backlog) + 1
    BY DEF Appended
  <2>1. n \in 1..Len(backlog') /\ n = Len(backlog') /\ AboutEntry(e, n)' /\ backlog'[n] = u
    BY <1>1 DEF Appended, AboutEntry
  <2>2. ASSUME NEW i \in 1..Len(backlog'), \A j \in 1..Len(backlog') : j > i => ~AboutEntry(e, j)' PROVE backlog'[i] = u
    <3>1. i = n
      BY <2>1, <2>2
    <3> QED
      BY <2>1, <3>1
  <2> QED
    BY <1>1, <2>1, <2>2 DEF EntryFollows, UpdatedEntry
<1>2. CASE ~(u.kind \in EntryKinds /\ u.key = e)
  <2>1. \A i \in 1..Len(backlog) : i \in 1..Len(backlog') /\ (AboutEntry(e, i)' <=> AboutEntry(e, i)) /\ backlog'[i] = backlog[i]
    BY DEF Appended, AboutEntry
  <2>2. \A i \in 1..Len(backlog') : AboutEntry(e, i)' => i \in 1..Len(backlog)
    BY <1>2 DEF Appended, AboutEntry
  <2>3. registry'[e] = registry[e]
    BY <1>2
  <2>4. ASSUME NEW i \in 1..Len(backlog'), AboutEntry(e, i)', \A j \in 1..Len(backlog') : j > i => ~AboutEntry(e, j)'
        PROVE  UpdatedEntry(backlog'[i]) = registry'[e]
    <3>1. i \in 1..Len(backlog) /\ AboutEntry(e, i) /\ \A j \in 1..Len(backlog) : j > i => ~AboutEntry(e, j)
      BY <2>1, <2>2, <2>4
    <3> QED
      BY <2>1, <2>3, <3>1 DEF EntryFollows
  <2>5. (\A i \in 1..Len(backlog') : ~AboutEntry(e, i)') => \A i \in 1..Len(backlog) : ~AboutEntry(e, i)
    BY <2>1
  <2> QED
    BY <2>3, <2>4, <2>5 DEF EntryFollows, UpdatedEntry
<1> QED
  BY <1>1, <1>2

LEMMA OthersAdded ==
    ASSUME NEW e, NEW u, OthersFollow(e), Appended(u), UNCHANGED <<asRead, time>>,
           u.kind = "registered" /\ u.key = e =>
              /\ u.entry = asRead.entries[e] => ~Gone(asRead.entries[e])
              /\ asRead.entries[e] \notin {Nothing, u.entry} => Gone(asRead.entries[e])
    PROVE  OthersFollow(e)'
<1> DEFINE x == asRead.entries[e]
<1>1. x' = x /\ (Gone(x)' <=> Gone(x))
  BY DEF Gone
<1>2. \A i \in 1..Len(backlog) : i \in 1..Len(backlog') /\ backlog'[i] = backlog[i]
  BY DEF Appended
<1>3. \A i \in 1..Len(backlog') : i \in 1..Len(backlog) \/ (i = Len(backlog) + 1 /\ backlog'[i] = u)
  BY DEF Appended
<1> HIDE DEF x
<1> SUFFICES ASSUME NEW i \in 1..Len(backlog'), Concerns("registered", e, i)', x \notin {Nothing, backlog'[i].entry}
             PROVE  /\ Gone(x)
                    /\ \A j \in 1..Len(backlog') : j > i /\ Concerns("registered", e, j)' => backlog'[j].entry # x
  BY <1>1 DEF OthersFollow, x
<1>4. CASE i \in 1..Len(backlog)
  <2>1. Concerns("registered", e, i) /\ x \notin {Nothing, backlog[i].entry}
    BY <1>2, <1>4 DEF Concerns
  <2>2. Gone(x) /\ \A j \in 1..Len(backlog) : j > i /\ Concerns("registered", e, j) => backlog[j].entry # x
    BY <1>4, <2>1 DEF OthersFollow, x
  <2>3. ASSUME NEW j \in 1..Len(backlog'), j > i, Concerns("registered", e, j)' PROVE backlog'[j].entry # x
    <3>1. CASE j \in 1..Len(backlog)
      BY <1>2, <2>2, <2>3, <3>1 DEF Concerns
    <3>2. CASE backlog'[j] = u
      BY <2>2, <2>3, <3>2 DEF Concerns, x
    <3> QED
      BY <1>3, <3>1, <3>2
  <2> QED
    BY <2>2, <2>3
<1>5. CASE i = Len(backlog) + 1 /\ backlog'[i] = u
  <2>1. Gone(x)
    BY <1>5 DEF Concerns, x
  <2>2. \A j \in 1..Len(backlog') : ~(j > i)
    BY <1>5 DEF Appended
  <2> QED
    BY <2>1, <2>2
<1> QED
  BY <1>3, <1>4, <1>5

LEMMA RecordAdded ==
    ASSUME NEW e, NEW u, RecordFits(e), Appended(u), UNCHANGED <<known, replayedServices, time>>,
           u.kind \in EntryKinds /\ u.key = e => u.kind = "registered" \/ registry[e] # Nothing,
           u.kind = "registered" /\ u.key = e /\ u.entry = replayedServices[e] => ~Gone(replayedServices[e]),
           ~(u.kind \in EntryKinds /\ u.key = e) => registry'[e] = registry[e]
    PROVE  RecordFits(e)'
<1> DEFINE x == replayedServices[e]
<1>1. x' = x /\ (Gone(x)' <=> Gone(x))
  BY DEF Gone
<1>2. \A i \in 1..Len(backlog) : i \in 1..Len(backlog') /\ backlog'[i] = backlog[i]
  BY DEF Appended
<1>3. \A i \in 1..Len(backlog') : i \in 1..Len(backlog) \/ (i = Len(backlog) + 1 /\ backlog'[i] = u)
  BY DEF Appended
<1>n. Len(backlog) \in Nat /\ Len(backlog) + 1 \in 1..Len(backlog') /\ backlog'[Len(backlog) + 1] = u
  BY DEF Appended
<1> HIDE DEF x
<1> SUFFICES ASSUME x # Nothing PROVE RecordFits(e)'
  BY <1>1 DEF RecordFits, x
<1>4. CASE Gone(x) /\ \A i \in 1..Len(backlog) : Concerns("registered", e, i) => backlog[i].entry # x
  <2>1. ASSUME NEW i \in 1..Len(backlog'), Concerns("registered", e, i)' PROVE backlog'[i].entry # x
    BY <1>2, <1>3, <1>4, <2>1 DEF Concerns, x
  <2> QED
    BY <1>1, <1>4, <2>1 DEF RecordFits, x
<1>5. CASE /\ known.entries[e] = x
           /\ \E i \in 1..Len(backlog) : Concerns("registered", e, i) /\ \A j \in 1..Len(backlog) : j < i => ~AboutEntry(e, j)
  <2>1. PICK i \in 1..Len(backlog) : Concerns("registered", e, i) /\ \A j \in 1..Len(backlog) : j < i => ~AboutEntry(e, j)
    BY <1>5
  <2>2. i \in 1..Len(backlog') /\ Concerns("registered", e, i)'
    BY <1>2, <2>1 DEF Concerns
  <2>3. ASSUME NEW j \in 1..Len(backlog'), j < i PROVE ~AboutEntry(e, j)'
    <3>1. j \in 1..Len(backlog)
      BY <1>n, <2>3
    <3> QED
      BY <1>2, <2>1, <2>3, <3>1 DEF AboutEntry
  <2> QED
    BY <1>1, <1>5, <2>2, <2>3 DEF RecordFits, x
<1>6. CASE known.entries[e] = x /\ registry[e] = Nothing /\ \A i \in 1..Len(backlog) : ~AboutEntry(e, i)
  <2>1. CASE u.kind \in EntryKinds /\ u.key = e
    <3> PICK n \in Nat : n = Len(backlog) + 1
      BY <1>n
    <3>1. n \in 1..Len(backlog') /\ Concerns("registered", e, n)'
      BY <1>6, <1>n, <2>1 DEF Concerns
    <3>2. \A j \in 1..Len(backlog') : j < n => ~AboutEntry(e, j)'
      BY <1>2, <1>3, <1>6, <1>n DEF AboutEntry
    <3> QED
      BY <1>1, <1>6, <1>n, <3>1, <3>2 DEF RecordFits, x
  <2>2. CASE ~(u.kind \in EntryKinds /\ u.key = e)
    <3>1. \A j \in 1..Len(backlog') : ~AboutEntry(e, j)'
      BY <1>2, <1>3, <1>6, <2>2 DEF AboutEntry
    <3> QED
      BY <1>1, <1>6, <2>2, <3>1 DEF RecordFits, x
  <2> QED
    BY <2>1, <2>2
<1> QED
  BY <1>4, <1>5, <1>6 DEF RecordFits, x
-----------------------------------------------------------------------------
\* An update of something else, or of an entry.
LEMMA TypeKept ==
    ASSUME NEW t, NEW u, TypeFollows(t), Appended(u), UNCHANGED <<known, asRead, atSubscription, replayedTypes>>,
           types'[t] = types[t], ~(u.kind \in {"type_registered"} \cup TypeFields /\ u.key = t)
    PROVE  TypeFollows(t)'
<1>1. \A i \in 1..Len(backlog) : i \in 1..Len(backlog') /\ backlog'[i] = backlog[i]
  BY DEF Appended
<1>2. \A i \in 1..Len(backlog') : i \in 1..Len(backlog) \/ backlog'[i] = u
  BY DEF Appended
<1>3. \A i \in 1..Len(backlog') : AboutType(t, i)' => i \in 1..Len(backlog) /\ AboutType(t, i)
  BY <1>1, <1>2 DEF AboutType
<1>4. ASSUME NEW k \in {"type_registered"} \cup TypeFields
      PROVE  /\ \A i \in 1..Len(backlog') : Concerns(k, t, i)' => i \in 1..Len(backlog) /\ Concerns(k, t, i)
             /\ \A i \in 1..Len(backlog) : Concerns(k, t, i) => Concerns(k, t, i)'
  BY <1>1, <1>2 DEF Concerns
<1>5. NewPending(t)' <=> NewPending(t)
  BY <1>1, <1>4 DEF NewPending
<1>6. \A f \in TypeFields : SettingPending(t, f)' <=> SettingPending(t, f)
  BY <1>1, <1>4 DEF SettingPending
<1>7. \A f \in TypeFields : SettingTold(t, f) => SettingTold(t, f)'
  BY DEF SettingTold
<1>8. \A i \in 1..Len(backlog') : AboutType(t, i)' => types'[t] # Nothing
  BY <1>3 DEF TypeFollows
<1>9. known'.types[t] = Nothing <=> types'[t] = Nothing \/ NewPending(t)'
  BY <1>5 DEF TypeFollows
<1>10. \A i, j \in 1..Len(backlog') : Concerns("type_registered", t, i)' /\ AboutType(t, j)' => i <= j
  BY <1>3, <1>4 DEF TypeFollows
<1>11. ASSUME NEW f \in TypeFields, NEW i \in 1..Len(backlog'), Concerns(f, t, i)',
              \A j \in 1..Len(backlog') : j > i => ~Concerns(f, t, j)'
       PROVE  backlog'[i].entry[f] = types'[t][f]
  <2>1. i \in 1..Len(backlog) /\ Concerns(f, t, i) /\ \A j \in 1..Len(backlog) : j > i => ~Concerns(f, t, j)
    BY <1>1, <1>4, <1>11
  <2> QED
    BY <1>1, <2>1 DEF TypeFollows
<1>12. ASSUME NEW f \in TypeFields, types'[t] # Nothing, ~SettingPending(t, f)'
       PROVE  /\ \A i \in 1..Len(backlog') : Concerns("type_registered", t, i)' => backlog'[i].entry[f] = types'[t][f]
              /\ NewPending(t)' \/ SettingTold(t, f)'
  BY <1>1, <1>4, <1>5, <1>6, <1>7, <1>12 DEF TypeFollows
<1> QED
  BY <1>8, <1>9, <1>10, <1>11, <1>12 DEF TypeFollows

\* A type is registered.
LEMMA TypeAdded ==
    ASSUME NEW t, NEW u, TypeFollows(t), Appended(u), UNCHANGED <<known, asRead, atSubscription, replayedTypes>>,
           types[t] = Nothing, types'[t] # Nothing, t \notin replayedTypes,
           u.kind = "type_registered", u.key = t, u.entry = types'[t]
    PROVE  TypeFollows(t)'
<1> PICK n \in Nat : n = Len(backlog) + 1
  BY DEF Appended
<1>1. n \in 1..Len(backlog') /\ backlog'[n] = u
  BY DEF Appended
<1>2. \A i \in 1..Len(backlog) : backlog'[i] = backlog[i] /\ ~AboutType(t, i)
  BY DEF Appended, TypeFollows
<1>3. \A i \in 1..Len(backlog') : i \in 1..Len(backlog) \/ i = n
  BY DEF Appended
<1>4. \A i \in 1..Len(backlog') : AboutType(t, i)' => i = n
  BY <1>2, <1>3 DEF AboutType
<1>5. ASSUME NEW k \in {"type_registered"} \cup TypeFields, NEW i \in 1..Len(backlog'), Concerns(k, t, i)'
      PROVE  i = n /\ k = "type_registered"
  <2>1. AboutType(t, i)'
    BY <1>5 DEF Concerns, AboutType
  <2> QED
    BY <1>1, <1>4, <1>5, <2>1 DEF Concerns
<1>6. NewPending(t)'
  BY <1>1 DEF NewPending, Concerns
<1>7. known'.types[t] = Nothing
  BY DEF TypeFollows
<1>8. "type_registered" \notin TypeFields
  BY DEF TypeFields
<1>9. \A f \in TypeFields, i \in 1..Len(backlog') : ~Concerns(f, t, i)'
  BY <1>5, <1>8
<1>10. \A i, j \in 1..Len(backlog') : Concerns("type_registered", t, i)' /\ AboutType(t, j)' => i <= j
  BY <1>4, <1>5
<1>11. \A f \in TypeFields, i \in 1..Len(backlog') : Concerns("type_registered", t, i)' => backlog'[i].entry[f] = types'[t][f]
  BY <1>1, <1>5
<1> QED
  BY <1>6, <1>7, <1>9, <1>10, <1>11 DEF TypeFollows

\* A setting of a type changes.
LEMMA SettingAdded ==
    ASSUME NEW t, NEW g \in TypeFields, NEW u, TypeFollows(t), Appended(u),
           UNCHANGED <<known, asRead, atSubscription, replayedTypes>>, types[t] # Nothing, types'[t] # Nothing,
           \A f \in TypeFields : f # g => types'[t][f] = types[t][f],
           u.kind = g, u.key = t, u.entry = types'[t]
    PROVE  TypeFollows(t)'
<1> PICK n \in Nat : n = Len(backlog) + 1
  BY DEF Appended
<1>1. n \in 1..Len(backlog') /\ backlog'[n] = u /\ n > Len(backlog) /\ n = Len(backlog') /\ Len(backlog) \in Nat
  BY DEF Appended
<1>2. \A i \in 1..Len(backlog) : i \in 1..Len(backlog') /\ backlog'[i] = backlog[i]
  BY DEF Appended
<1>3. \A i \in 1..Len(backlog') : i \in 1..Len(backlog) \/ i = n
  BY <1>1
<1>4. "type_registered" \notin TypeFields
  BY DEF TypeFields
<1>5. ASSUME NEW k \in {"type_registered"} \cup TypeFields, k # g
      PROVE  /\ \A i \in 1..Len(backlog') : Concerns(k, t, i)' => i \in 1..Len(backlog) /\ Concerns(k, t, i)
             /\ \A i \in 1..Len(backlog) : Concerns(k, t, i) => Concerns(k, t, i)'
  BY <1>1, <1>2, <1>3, <1>5 DEF Concerns
<1>6. "type_registered" # g
  BY <1>4
<1>7. NewPending(t)' <=> NewPending(t)
  BY <1>2, <1>5, <1>6 DEF NewPending
<1>8. Concerns(g, t, n)' /\ SettingPending(t, g)'
  BY <1>1 DEF SettingPending, Concerns
<1>9. known'.types[t] = Nothing <=> types'[t] = Nothing \/ NewPending(t)'
  BY <1>7 DEF TypeFollows
<1>10. ASSUME NEW i \in 1..Len(backlog'), NEW j \in 1..Len(backlog'), Concerns("type_registered", t, i)', AboutType(t, j)'
       PROVE  i <= j
  <2>1. i \in 1..Len(backlog) /\ Concerns("type_registered", t, i)
    BY <1>5, <1>6, <1>10
  <2>2. CASE j \in 1..Len(backlog)
    <3>1. AboutType(t, j)
      BY <1>2, <1>10, <2>2 DEF AboutType
    <3> QED
      BY <2>1, <2>2, <3>1 DEF TypeFollows
  <2>3. CASE j = n
    BY <1>1, <2>1, <2>3
  <2> QED
    BY <1>3, <2>2, <2>3
<1>11. ASSUME NEW f \in TypeFields, NEW i \in 1..Len(backlog'), Concerns(f, t, i)',
              \A j \in 1..Len(backlog') : j > i => ~Concerns(f, t, j)'
       PROVE  backlog'[i].entry[f] = types'[t][f]
  <2>1. CASE f = g
    <3>1. i = n
      BY <1>1, <1>8, <1>11, <2>1
    <3> QED
      BY <1>1, <3>1
  <2>2. CASE f # g
    <3>1. i \in 1..Len(backlog) /\ Concerns(f, t, i) /\ \A j \in 1..Len(backlog) : j > i => ~Concerns(f, t, j)
      BY <1>2, <1>5, <1>11, <2>2
    <3>2. backlog[i].entry[f] = types[t][f]
      BY <3>1 DEF TypeFollows
    <3> QED
      BY <1>2, <2>2, <3>1, <3>2
  <2> QED
    BY <2>1, <2>2
<1>12. ASSUME NEW f \in TypeFields, ~SettingPending(t, f)'
       PROVE  /\ \A i \in 1..Len(backlog') : Concerns("type_registered", t, i)' => backlog'[i].entry[f] = types'[t][f]
              /\ NewPending(t)' \/ SettingTold(t, f)'
  <2>1. f # g /\ types'[t][f] = types[t][f]
    BY <1>8, <1>12
  <2>2. ~SettingPending(t, f)
    BY <1>2, <1>5, <1>12, <2>1 DEF SettingPending
  <2>3. /\ \A i \in 1..Len(backlog) : Concerns("type_registered", t, i) => backlog[i].entry[f] = types[t][f]
        /\ NewPending(t) \/ SettingTold(t, f)
    BY <2>2 DEF TypeFollows
  <2>4. SettingTold(t, f) => SettingTold(t, f)'
    BY <2>1 DEF SettingTold
  <2> QED
    BY <1>2, <1>5, <1>6, <1>7, <2>1, <2>3, <2>4
<1> QED
  BY <1>9, <1>10, <1>11, <1>12 DEF TypeFollows
-----------------------------------------------------------------------------
\* What can still be registered as it was read has the time of now.
LEMMA NotGone ==
    ASSUME NEW x \in ServiceEntry, time \in Nat, x.registered_at <= time
    PROVE  Gone(x) \/ x = [registered_at |-> time, updated_at |-> time]
<1>1. x.registered_at \in Nat /\ x.updated_at \in Nat /\ x = [registered_at |-> x.registered_at, updated_at |-> x.updated_at]
  BY RegistryAssumption DEF ServiceEntry
<1>2. CASE x.registered_at < time \/ x.registered_at # x.updated_at
  BY <1>2 DEF Gone
<1>3. CASE x.registered_at = time /\ x.updated_at = time
  BY <1>1, <1>3
<1> QED
  BY <1>1, <1>2, <1>3

LEMMA NowIsNotGone == time \in Nat => ~Gone([registered_at |-> time, updated_at |-> time])
BY DEF Gone

LEMMA KnownWritten ==
    ASSUME ReplayInv, KnownInv, NEW kind, NEW key, NEW entry, Write, Emit(kind, key, entry),
           [kind |-> kind, key |-> key, entry |-> entry, replay |-> FALSE] \in RegistryUpdate,
           kind = "registered" => entry = [registered_at |-> time, updated_at |-> time],
           kind \in EntryKinds \ {"registered"} => registry[key] # Nothing,
           \A e \in Entries :
              /\ EntryInTime(e)'
              /\ IF kind \in EntryKinds /\ key = e
                 THEN registry'[e] = (IF kind = "deregistered" THEN Nothing ELSE entry)
                 ELSE registry'[e] = registry[e],
           \A t \in Types : TypeFollows(t) /\ Appended([kind |-> kind, key |-> key, entry |-> entry, replay |-> FALSE])
                              => TypeFollows(t)'
    PROVE  KnownInv'
<1> DEFINE u == [kind |-> kind, key |-> key, entry |-> entry, replay |-> FALSE]
<1>1. u.kind = kind /\ u.key = key /\ u.entry = entry
  OBVIOUS
<1>u. UNCHANGED <<time, connecting, asRead, atSubscription, replayedServices, replayedTypes, known>>
  BY DEF Write
<1>2. backlog \in Seq(RegistryUpdate) /\ time \in Nat /\ replayedServices \in EntryTable
  <2>1. time \in 0..MaxTime /\ backlog \in Seq(RegistryUpdate) /\ replayedServices \in EntryTable
    BY DEF ReplayInv, RegistryTypes
  <2> QED
    BY <2>1, RegistryAssumption
<1>r. asRead.entries \in EntryTable
  <2>1. asRead \in [entries : EntryTable, types : TypeTable]
    BY DEF ReplayInv, RegistryTypes
  <2> QED
    BY <2>1
<1>3. connecting = "subscribed" => Appended(u)
  BY <1>2, Emitted DEF Appended
<1>t. \A t \in Types : TypeFollows(t) /\ Appended(u) => TypeFollows(t)'
  OBVIOUS
<1> HIDE DEF u
<1>4. KnownTypes' /\ KnownAsRead'
  BY <1>u DEF KnownInv, KnownTypes, KnownAsRead
<1>5. ASSUME NEW e \in Entries, connecting = "subscribed" PROVE EntryFollows(e)' /\ OthersFollow(e)' /\ RecordFits(e)'
  <2>1. EntryFollows(e) /\ OthersFollow(e) /\ RecordFits(e) /\ EntryInTime(e) /\ Appended(u)
    BY <1>3, <1>5 DEF KnownInv
  <2>2. asRead.entries[e] \in ServiceEntry \cup {Nothing} /\ replayedServices[e] \in {Nothing, asRead.entries[e]}
    BY <1>r DEF EntryTable, ReplayInv, RecordsAreRead
  <2>3. Nothing \notin ServiceEntry
    BY RegistryAssumption
  <2>4. IF u.kind \in EntryKinds /\ u.key = e THEN registry'[e] = UpdatedEntry(u) ELSE registry'[e] = registry[e]
    BY <1>1 DEF UpdatedEntry
  <2>5. EntryFollows(e)'
    BY <1>u, <2>1, <2>4, EntryAdded
  <2>6. u.kind = "registered" => u.entry \in ServiceEntry /\ ~Gone(u.entry)
    <3>1. u.kind = "registered" => u.entry = [registered_at |-> time, updated_at |-> time]
      BY <1>1
    <3>2. u.kind = "registered" => u.entry \in ServiceEntry
      BY <1>1 DEF u, RegistryUpdate, EntryUpdate, TypeUpdate, TypeFields
    <3> QED
      BY <1>2, <3>1, <3>2, NowIsNotGone
  <2>7. asRead.entries[e] # Nothing => Gone(asRead.entries[e]) \/ (u.kind = "registered" => asRead.entries[e] = u.entry)
    BY <1>1, <1>2, <2>1, <2>2, NotGone DEF EntryInTime
  <2>8. OthersFollow(e)'
    BY <1>u, <2>1, <2>6, <2>7, OthersAdded
  <2>9. RecordFits(e)'
    <3>1. u.kind \in EntryKinds /\ u.key = e => u.kind = "registered" \/ registry[e] # Nothing
      BY <1>1
    <3> QED
      BY <1>u, <2>1, <2>4, <2>6, <3>1, RecordAdded
  <2> QED
    BY <2>5, <2>8, <2>9
<1>6. ASSUME NEW t \in Types, connecting = "subscribed" PROVE TypeFollows(t)'
  BY <1>3, <1>6, <1>t DEF KnownInv
<1> QED
  BY <1>4, <1>5, <1>6, <1>u DEF KnownInv

LEMMA KnownWrite ==
    ASSUME ReplayInv, KnownInv,
           \/ \E e \in Entries : Registered(e) \/ Updated(e) \/ Deregistered(e)
           \/ \E t \in Types : TypeRegistered(t) \/ \E f \in TypeFields : TypeChanged(t, f)
    PROVE  KnownInv'
<1>t. RegistryTypes /\ registry \in EntryTable /\ types \in TypeTable
  BY DEF ReplayInv, RegistryTypes
<1>r. asRead.entries \in EntryTable
  <2>1. asRead \in [entries : EntryTable, types : TypeTable]
    BY <1>t DEF RegistryTypes
  <2> QED
    BY <2>1
<1>m. time \in Nat
  <2>1. time \in 0..MaxTime
    BY <1>t DEF RegistryTypes
  <2> QED
    BY <2>1, RegistryAssumption
<1>w. /\ [registered_at |-> time, updated_at |-> time] \in ServiceEntry
      /\ \A e \in Entries : registry[e] # Nothing =>
           registry[e] \in ServiceEntry /\ [registry[e] EXCEPT !.updated_at = time] \in ServiceEntry
      /\ NewType \in [TypeFields -> {0, 1}]
      /\ \A t \in Types, f \in TypeFields : types[t] # Nothing =>
           [types[t] EXCEPT ![f] = 1 - types[t][f]] \in [TypeFields -> {0, 1}]
  BY <1>t, WritesTyped
<1>n. Nothing \notin [TypeFields -> {0, 1}] /\ Nothing \notin ServiceEntry
  BY RegistryAssumption
<1>e. ASSUME NEW k \in EntryKinds, NEW e \in Entries, NEW r \in ServiceEntry
      PROVE  [kind |-> k, key |-> e, entry |-> r, replay |-> FALSE] \in RegistryUpdate
  BY DEF RegistryUpdate, EntryUpdate, EntryKinds
<1>f. ASSUME NEW k \in {"type_registered"} \cup TypeFields, NEW t \in Types, NEW r \in [TypeFields -> {0, 1}]
      PROVE  [kind |-> k, key |-> t, entry |-> r, replay |-> FALSE] \in RegistryUpdate
  BY DEF RegistryUpdate, TypeUpdate
<1>i. \A e \in Entries : EntryInTime(e)
  BY DEF KnownInv
<1>g. ASSUME NEW e \in Entries PROVE asRead.entries[e] # Nothing =>
          Gone(asRead.entries[e]) \/ asRead.entries[e] = [registered_at |-> time, updated_at |-> time]
  <2>1. asRead.entries[e] # Nothing => asRead.entries[e] \in ServiceEntry /\ asRead.entries[e].registered_at <= time
    BY <1>i, <1>r DEF EntryTable, EntryInTime
  <2> QED
    BY <1>m, <2>1, NotGone
<1>k. "type_registered" \notin EntryKinds /\ TypeFields \cap EntryKinds = {} /\ "type_registered" \notin TypeFields
      /\ "registered" \notin TypeFields /\ "registered" # "type_registered"
  BY DEF EntryKinds, TypeFields
\* An entry that changes leaves the others and the types alone.
<1>o. ASSUME NEW e \in Entries, NEW v, registry' = [registry EXCEPT ![e] = v], UNCHANGED <<time, asRead>>
      PROVE  \A d \in Entries : d # e => registry'[d] = registry[d] /\ EntryInTime(d)'
  <2>1. \A d \in Entries : d # e => registry'[d] = registry[d]
    BY <1>t, <1>o DEF EntryTable
  <2> QED
    BY <1>i, <1>o, <2>1 DEF EntryInTime, Gone
<1>y. ASSUME NEW k \in EntryKinds, NEW e, NEW v, NEW t \in Types, UNCHANGED <<known, asRead, atSubscription, replayedTypes, types>>,
             TypeFollows(t), Appended([kind |-> k, key |-> e, entry |-> v, replay |-> FALSE])
      PROVE  TypeFollows(t)'
  <2> DEFINE u == [kind |-> k, key |-> e, entry |-> v, replay |-> FALSE]
  <2>1. ~(u.kind \in {"type_registered"} \cup TypeFields /\ u.key = t)
    BY <1>k
  <2>2. Appended(u) /\ types'[t] = types[t]
    BY <1>y
  <2> HIDE DEF u
  <2> QED
    BY <1>y, <2>1, <2>2, TypeKept
<1>u. Write => UNCHANGED <<time, connecting, asRead, atSubscription, replayedServices, replayedTypes, known>>
  BY DEF Write
<1>1. ASSUME NEW e \in Entries, Registered(e) PROVE KnownInv'
  <2> DEFINE new == [registered_at |-> time, updated_at |-> time]
  <2>1. Write /\ Emit("registered", e, new) /\ registry' = [registry EXCEPT ![e] = new] /\ types' = types
    BY <1>1 DEF Registered
  <2>2. new \in ServiceEntry /\ new.registered_at = time /\ new # Nothing
    BY <1>w, <1>n
  <2>3. asRead.entries[e] # Nothing => Gone(asRead.entries[e]) \/ asRead.entries[e] = new
    BY <1>g
  <2>k. "registered" \in EntryKinds /\ "registered" # "deregistered"
    BY DEF EntryKinds
  <2>d. new = [registered_at |-> time, updated_at |-> time]
    OBVIOUS
  <2> HIDE DEF new
  <2>4. registry'[e] = new
    BY <1>t, <2>1 DEF EntryTable
  <2>5. EntryInTime(e)'
    BY <1>i, <1>m, <1>u, <2>1, <2>2, <2>3, <2>4 DEF EntryInTime, Gone
  <2>6. \A d \in Entries : EntryInTime(d)' /\ (d # e => registry'[d] = registry[d])
    BY <1>o, <1>u, <2>1, <2>5
  <2>7. \A t \in Types : TypeFollows(t) /\ Appended([kind |-> "registered", key |-> e, entry |-> new, replay |-> FALSE])
                              => TypeFollows(t)'
    BY <1>u, <1>y, <2>1, <2>k
  <2>8. [kind |-> "registered", key |-> e, entry |-> new, replay |-> FALSE] \in RegistryUpdate
    BY <1>e, <2>2, <2>k
  <2> QED
    BY <2>1, <2>4, <2>6, <2>7, <2>8, <2>k, <2>d, KnownWritten
<1>2. ASSUME NEW e \in Entries, Updated(e) PROVE KnownInv'
  <2> DEFINE new == [registry[e] EXCEPT !.updated_at = time]
  <2>1. Write /\ Emit("updated", e, new) /\ registry' = [registry EXCEPT ![e] = new] /\ types' = types /\ registry[e] # Nothing
    BY <1>2 DEF Updated
  <2>2. new \in ServiceEntry /\ registry[e] \in ServiceEntry
    BY <1>w, <2>1
  <2>a. new.registered_at = registry[e].registered_at
    BY <2>2 DEF ServiceEntry
  <2>b. registry[e] = [registered_at |-> time, updated_at |-> time] => new = registry[e]
    BY <2>2
  <2>k. "updated" \in EntryKinds /\ "updated" # "deregistered" /\ "updated" # "registered"
    BY DEF EntryKinds
  <2> HIDE DEF new
  <2>3. asRead.entries[e] # Nothing => Gone(asRead.entries[e]) \/ asRead.entries[e] = new
    BY <1>g, <1>i, <2>1, <2>b DEF EntryInTime
  <2>4. registry'[e] = new
    BY <1>t, <2>1 DEF EntryTable
  <2>5. EntryInTime(e)'
    BY <1>i, <1>m, <1>u, <2>1, <2>2, <2>a, <2>3, <2>4 DEF EntryInTime, Gone
  <2>6. \A d \in Entries : EntryInTime(d)' /\ (d # e => registry'[d] = registry[d])
    BY <1>o, <1>u, <2>1, <2>5
  <2>7. \A t \in Types : TypeFollows(t) /\ Appended([kind |-> "updated", key |-> e, entry |-> new, replay |-> FALSE])
                              => TypeFollows(t)'
    BY <1>u, <1>y, <2>1, <2>k
  <2>8. [kind |-> "updated", key |-> e, entry |-> new, replay |-> FALSE] \in RegistryUpdate
    BY <1>e, <2>2, <2>k
  <2> QED
    BY <2>1, <2>4, <2>6, <2>7, <2>8, <2>k, KnownWritten
<1>3. ASSUME NEW e \in Entries, Deregistered(e) PROVE KnownInv'
  <2> DEFINE old == registry[e]
  <2>1. Write /\ Emit("deregistered", e, old) /\ registry' = [registry EXCEPT ![e] = Nothing] /\ types' = types /\ registry[e] # Nothing
    BY <1>3 DEF Deregistered
  <2>2. old \in ServiceEntry
    BY <1>w, <2>1
  <2>k. "deregistered" \in EntryKinds /\ "deregistered" # "registered"
    BY DEF EntryKinds
  <2> HIDE DEF old
  <2>4. registry'[e] = Nothing
    BY <1>t, <2>1 DEF EntryTable
  <2>5. EntryInTime(e)'
    BY <1>i, <1>u, <2>1, <2>4 DEF EntryInTime, Gone
  <2>6. \A d \in Entries : EntryInTime(d)' /\ (d # e => registry'[d] = registry[d])
    BY <1>o, <1>u, <2>1, <2>5
  <2>7. \A t \in Types : TypeFollows(t) /\ Appended([kind |-> "deregistered", key |-> e, entry |-> old, replay |-> FALSE])
                              => TypeFollows(t)'
    BY <1>u, <1>y, <2>1, <2>k
  <2>8. [kind |-> "deregistered", key |-> e, entry |-> old, replay |-> FALSE] \in RegistryUpdate
    BY <1>e, <2>2, <2>k
  <2> QED
    BY <2>1, <2>4, <2>6, <2>7, <2>8, <2>k, KnownWritten
\* A type that changes leaves the others and the entries alone.
<1>s. ASSUME NEW k \in {"type_registered"} \cup TypeFields, NEW t \in Types, NEW v \in [TypeFields -> {0, 1}],
             Write, Emit(k, t, v), registry' = registry, types' = [types EXCEPT ![t] = v],
             TypeFollows(t) /\ Appended([kind |-> k, key |-> t, entry |-> v, replay |-> FALSE]) => TypeFollows(t)'
      PROVE  KnownInv'
  <2> DEFINE u == [kind |-> k, key |-> t, entry |-> v, replay |-> FALSE]
  <2>1. u \in RegistryUpdate /\ u.key = t
    BY <1>f, <1>s
  <2>2. ASSUME NEW x \in Types, TypeFollows(x), Appended(u) PROVE TypeFollows(x)'
    <3>1. CASE x = t
      BY <1>s, <2>2, <3>1
    <3>2. CASE x # t
      <4>1. types'[x] = types[x]
        BY <1>s, <1>t, <3>2 DEF TypeTable
      <4>2. ~(u.kind \in {"type_registered"} \cup TypeFields /\ u.key = x)
        BY <2>1, <3>2
      <4> HIDE DEF u
      <4> QED
        BY <1>s, <1>u, <2>2, <4>1, <4>2, TypeKept
    <3> QED
      BY <3>1, <3>2
  <2>3. \A e \in Entries : EntryInTime(e)' /\ registry'[e] = registry[e]
    BY <1>i, <1>s, <1>u DEF EntryInTime, Gone
  <2>4. k \notin EntryKinds
    BY <1>k
  <2>5. k # "registered"
    BY <1>k
  <2> QED
    BY <1>s, <2>1, <2>2, <2>3, <2>4, <2>5, KnownWritten
<1>4. ASSUME NEW t \in Types, TypeRegistered(t) PROVE KnownInv'
  <2>1. Write /\ Emit("type_registered", t, NewType) /\ types' = [types EXCEPT ![t] = NewType] /\ registry' = registry
        /\ types[t] = Nothing
    BY <1>4 DEF TypeRegistered
  <2>2. types'[t] = NewType /\ NewType # Nothing
    BY <1>n, <1>t, <1>w, <2>1 DEF TypeTable
  <2>3. t \notin replayedTypes
    BY <2>1 DEF ReplayInv, RecordsAreRead
  <2>4. ASSUME TypeFollows(t), Appended([kind |-> "type_registered", key |-> t, entry |-> NewType, replay |-> FALSE])
        PROVE  TypeFollows(t)'
    <3> DEFINE u == [kind |-> "type_registered", key |-> t, entry |-> NewType, replay |-> FALSE]
    <3>1. u.kind = "type_registered" /\ u.key = t /\ u.entry = types'[t] /\ Appended(u)
      BY <2>2, <2>4
    <3> HIDE DEF u
    <3> QED
      BY <1>u, <2>1, <2>2, <2>3, <2>4, <3>1, TypeAdded
  <2> QED
    BY <1>s, <1>w, <2>1, <2>4
<1>5. ASSUME NEW t \in Types, NEW f \in TypeFields, TypeChanged(t, f) PROVE KnownInv'
  <2> DEFINE new == [types[t] EXCEPT ![f] = 1 - types[t][f]]
  <2>1. Write /\ Emit(f, t, new) /\ types' = [types EXCEPT ![t] = new] /\ registry' = registry /\ types[t] # Nothing
    BY <1>5 DEF TypeChanged
  <2>2. new \in [TypeFields -> {0, 1}]
    BY <1>w, <2>1
  <2>3. types[t] \in [TypeFields -> {0, 1}]
    BY <1>t, <2>1 DEF TypeTable
  <2>4. \A g \in TypeFields : g # f => new[g] = types[t][g]
    BY <2>3
  <2> HIDE DEF new
  <2>5. types'[t] = new /\ new # Nothing
    BY <1>n, <1>t, <2>1, <2>2 DEF TypeTable
  <2>6. ASSUME TypeFollows(t), Appended([kind |-> f, key |-> t, entry |-> new, replay |-> FALSE]) PROVE TypeFollows(t)'
    <3> DEFINE u == [kind |-> f, key |-> t, entry |-> new, replay |-> FALSE]
    <3>1. u.kind = f /\ u.key = t /\ u.entry = types'[t] /\ Appended(u)
      BY <2>5, <2>6
    <3> HIDE DEF u
    <3> QED
      BY <1>u, <2>1, <2>4, <2>5, <2>6, <3>1, SettingAdded
  <2> QED
    BY <1>s, <2>1, <2>2, <2>6
<1> QED
  BY <1>1, <1>2, <1>3, <1>4, <1>5
-----------------------------------------------------------------------------
\* The reads before the subscription, and their failure.
LEMMA KnownRead ==
    ASSUME ReplayInv, KnownInv, ReadTypes \/ ReadEntries \/ ReadFails
    PROVE  KnownInv'
<1>t. /\ time \in Nat /\ registry \in EntryTable /\ types \in TypeTable
      /\ asRead \in [entries : EntryTable, types : TypeTable]
  <2>1. time \in 0..MaxTime /\ registry \in EntryTable /\ types \in TypeTable
        /\ asRead \in [entries : EntryTable, types : TypeTable]
    BY DEF ReplayInv, RegistryTypes
  <2> QED
    BY <2>1, RegistryAssumption
<1>k. \A f \in [TypeFields -> {0, 1}] : f \in [TypeFields -> {0, 1, Nothing}]
  OBVIOUS
<1>n. NothingRead.entries = NoEntries /\ NothingRead.types = NoTypes
  BY DEF NothingRead
<1>i. \A e \in Entries : EntryInTime(e)
  BY DEF KnownInv
<1>1. CASE ReadTypes
  <2>1. /\ connecting = "start" /\ connecting' = "types read" /\ UNCHANGED <<time, registry, known>>
        /\ asRead' = [asRead EXCEPT !.types = types]
    BY <1>1 DEF ReadTypes, Task
  <2>2. asRead'.entries = asRead.entries
    BY <1>t, <2>1
  <2>3. \A e \in Entries : EntryInTime(e)'
    BY <1>i, <2>1, <2>2 DEF EntryInTime, Gone
  <2> QED
    BY <2>1, <2>3 DEF KnownInv, KnownTypes, KnownAsRead
<1>2. CASE ReadEntries
  <2>1. /\ connecting = "types read" /\ connecting' = "read" /\ UNCHANGED <<time, registry>>
        /\ asRead' = [asRead EXCEPT !.entries = registry] /\ known' = asRead'
    BY <1>2 DEF ReadEntries, Task
  <2>2. asRead'.entries = registry /\ asRead' \in [entries : EntryTable, types : TypeTable]
    BY <1>t, <2>1
  <2>3. \A e \in Entries : EntryInTime(e)'
    BY <1>i, <2>1, <2>2 DEF EntryInTime
  <2>4. KnownTypes'
    <3>1. known' \in [entries : EntryTable, types : TypeTable]
      BY <2>1, <2>2
    <3>2. \A x \in TypeTable : x \in [Types -> [TypeFields -> {0, 1, Nothing}] \cup {Nothing}]
      BY <1>k DEF TypeTable
    <3> QED
      BY <3>1, <3>2 DEF KnownTypes
  <2> QED
    BY <2>1, <2>3, <2>4 DEF KnownInv, KnownAsRead
<1>3. CASE ReadFails
  <2>1. /\ connecting \in {"start", "types read"} /\ connecting' = "read" /\ UNCHANGED <<time, registry, known>>
        /\ asRead' = NothingRead
    BY <1>3 DEF ReadFails
  <2>2. known = NothingRead
    BY <2>1 DEF KnownInv, KnownAsRead
  <2>3. \A e \in Entries : EntryInTime(e)'
    BY <1>i, <1>n, <2>1 DEF EntryInTime, NoEntries
  <2> QED
    BY <2>1, <2>2, <2>3 DEF KnownInv, KnownAsRead, KnownTypes
<1> QED
  BY <1>1, <1>2, <1>3

\* The replay leads from what was read to what is there.
LEMMA KnownSubscribe ==
    ASSUME ReplayInv, KnownInv, Subscribe
    PROVE  KnownInv'
<1>s. /\ backlog' \in Seq(Snapshot)
      /\ \A i, j \in 1..Len(backlog') : backlog'[i] = backlog'[j] => i = j
      /\ \A x \in Snapshot : \E i \in 1..Len(backlog') : backlog'[i] = x
      /\ connecting' = "subscribed" /\ connecting = "read"
      /\ atSubscription' = [entries |-> registry, types |-> types]
      /\ UNCHANGED <<time, registry, types, asRead, replayedServices, replayedTypes, known>>
  BY SubscribeListing
<1>u. \A i, j \in 1..Len(backlog') : backlog'[i] = backlog'[j] => i = j
  BY <1>s, Zenon
<1>k. known = asRead
  BY <1>s DEF KnownInv, KnownAsRead
<1>r. /\ replayedServices = asRead.entries /\ replayedTypes = {t \in Types : asRead.types[t] # Nothing}
      /\ \A t \in Types : asRead.types[t] # Nothing => types[t] # Nothing
  BY <1>s DEF ReplayInv, RecordsAreRead
<1>a. atSubscription'.entries = registry /\ atSubscription'.types = types
  BY <1>s
<1>x. \A x \in Snapshot :
        \/ x.kind = "registered" /\ x.key \in Entries /\ x.entry = registry[x.key] /\ registry[x.key] # Nothing /\ x = SnapshotEntry(x.key)
        \/ x.kind = "type_registered" /\ x.key \in Types /\ x.entry = types[x.key] /\ types[x.key] # Nothing /\ x = SnapshotType(x.key)
  BY DEF Snapshot, SnapshotEntry, SnapshotType
<1>y. \A i \in 1..Len(backlog') : backlog'[i] \in Snapshot
  BY <1>s
<1>d. "registered" \in EntryKinds /\ "type_registered" \notin EntryKinds /\ "registered" # "deregistered"
      /\ "registered" # "type_registered" /\ "registered" \notin TypeFields /\ "type_registered" \notin TypeFields
  BY DEF EntryKinds, TypeFields
<1>1. KnownTypes' /\ KnownAsRead' /\ \A e \in Entries : EntryInTime(e)'
  BY <1>s DEF KnownInv, KnownTypes, KnownAsRead, EntryInTime, Gone
<1>2. ASSUME NEW e \in Entries PROVE EntryFollows(e)' /\ OthersFollow(e)' /\ RecordFits(e)'
  <2>1. \A i \in 1..Len(backlog') : AboutEntry(e, i)' => Concerns("registered", e, i)' /\ backlog'[i] = SnapshotEntry(e)
          /\ backlog'[i].entry = registry[e] /\ registry[e] # Nothing /\ backlog'[i].kind = "registered"
    BY <1>x, <1>y, <1>d DEF AboutEntry, Concerns
  <2>2. \A i, j \in 1..Len(backlog') : AboutEntry(e, i)' /\ AboutEntry(e, j)' => i = j
    BY <1>u, <2>1, Zenon
  <2>c. \A i \in 1..Len(backlog') : Concerns("registered", e, i)' => AboutEntry(e, i)'
    BY <1>d DEF AboutEntry, Concerns
  <2>3. registry[e] # Nothing => \E i \in 1..Len(backlog') : AboutEntry(e, i)'
    <3>1. ASSUME registry[e] # Nothing PROVE \E i \in 1..Len(backlog') : AboutEntry(e, i)'
      <4>1. SnapshotEntry(e) \in Snapshot
        BY <3>1 DEF Snapshot
      <4>2. PICK i \in 1..Len(backlog') : backlog'[i] = SnapshotEntry(e)
        BY <1>s, <4>1
      <4>3. AboutEntry(e, i)'
        BY <1>d, <4>2 DEF AboutEntry, SnapshotEntry
      <4> QED
        BY <4>3
    <3> QED
      BY <3>1
  <2>4. EntryFollows(e)'
    <3>1. \A i \in 1..Len(backlog') : AboutEntry(e, i)' => UpdatedEntry(backlog'[i]) = registry'[e]
      BY <1>s, <1>d, <2>1 DEF UpdatedEntry
    <3>2. (\A i \in 1..Len(backlog') : ~AboutEntry(e, i)') =>
             known'.entries[e] = asRead'.entries[e] /\ registry'[e] = Nothing /\ atSubscription'.entries[e] = Nothing
      BY <1>s, <1>a, <1>k, <2>3
    <3> QED
      BY <3>1, <3>2 DEF EntryFollows, UpdatedEntry
  <2>5. OthersFollow(e)'
    <3>1. \A i \in 1..Len(backlog') : Concerns("registered", e, i)' => backlog'[i].entry = registry[e] /\ registry[e] # Nothing
      BY <2>1, <2>c
    <3>2. \A i, j \in 1..Len(backlog') : j > i /\ Concerns("registered", e, i)' => ~Concerns("registered", e, j)'
      <4>1. \A i \in 1..Len(backlog') : ~(i > i)
        OBVIOUS
      <4> QED
        BY <2>2, <2>c, <4>1
    <3>3. EntryInTime(e)
      BY DEF KnownInv
    <3>4. asRead.entries[e] \notin {Nothing, registry[e]} /\ registry[e] # Nothing => Gone(asRead.entries[e])'
      BY <1>s, <3>3 DEF EntryInTime, Gone
    <3> QED
      BY <1>s, <3>1, <3>2, <3>4 DEF OthersFollow
  <2>6. RecordFits(e)'
    <3>1. known'.entries[e] = replayedServices'[e]
      BY <1>s, <1>k, <1>r
    <3>2. CASE registry[e] = Nothing
      BY <1>s, <2>1, <3>1, <3>2 DEF RecordFits
    <3>3. CASE registry[e] # Nothing
      <4>1. PICK i \in 1..Len(backlog') : AboutEntry(e, i)'
        BY <2>3, <3>3
      <4>2. Concerns("registered", e, i)' /\ \A j \in 1..Len(backlog') : j < i => ~AboutEntry(e, j)'
        BY <2>1, <2>2, <4>1
      <4> QED
        BY <3>1, <4>2 DEF RecordFits
    <3> QED
      BY <3>2, <3>3
  <2> QED
    BY <2>4, <2>5, <2>6
<1>3. ASSUME NEW t \in Types PROVE TypeFollows(t)'
  <2>1. \A i \in 1..Len(backlog') : AboutType(t, i)' => Concerns("type_registered", t, i)' /\ backlog'[i] = SnapshotType(t)
          /\ backlog'[i].entry = types[t] /\ types[t] # Nothing /\ backlog'[i].kind = "type_registered"
    BY <1>x, <1>y, <1>d DEF AboutType, Concerns
  <2>2. \A i, j \in 1..Len(backlog') : AboutType(t, i)' /\ AboutType(t, j)' => i = j
    BY <1>u, <2>1, Zenon
  <2>c. \A i \in 1..Len(backlog') : Concerns("type_registered", t, i)' => AboutType(t, i)'
    BY DEF AboutType, Concerns
  <2>f. \A f \in TypeFields, i \in 1..Len(backlog') : ~Concerns(f, t, i)'
    <3>1. \A f \in TypeFields, i \in 1..Len(backlog') : Concerns(f, t, i)' => AboutType(t, i)'
      BY DEF AboutType, Concerns
    <3> QED
      BY <1>d, <2>1, <3>1 DEF Concerns
  <2>3. types[t] # Nothing => \E i \in 1..Len(backlog') : Concerns("type_registered", t, i)'
    <3>1. ASSUME types[t] # Nothing PROVE \E i \in 1..Len(backlog') : Concerns("type_registered", t, i)'
      <4>1. SnapshotType(t) \in Snapshot
        BY <3>1 DEF Snapshot
      <4>2. PICK i \in 1..Len(backlog') : backlog'[i] = SnapshotType(t)
        BY <1>s, <4>1
      <4>3. Concerns("type_registered", t, i)'
        BY <4>2 DEF Concerns, SnapshotType
      <4> QED
        BY <4>3
    <3> QED
      BY <3>1
  <2>4. NewPending(t)' <=> asRead.types[t] = Nothing /\ types[t] # Nothing
    <3>1. (t \in replayedTypes)' <=> asRead.types[t] # Nothing
      BY <1>s, <1>r
    <3> QED
      BY <2>1, <2>3, <2>c, <3>1 DEF NewPending
  <2>5. known'.types[t] = Nothing <=> types'[t] = Nothing \/ NewPending(t)'
    BY <1>s, <1>k, <1>r, <2>4
  <2>6. \A i, j \in 1..Len(backlog') : Concerns("type_registered", t, i)' /\ AboutType(t, j)' => i <= j
    <3>1. \A i \in 1..Len(backlog') : i <= i
      OBVIOUS
    <3> QED
      BY <2>2, <2>c, <3>1
  <2>7. \A f \in TypeFields : types'[t] # Nothing => NewPending(t)' \/ SettingTold(t, f)'
    BY <1>s, <1>a, <1>k, <1>r, <2>4 DEF SettingTold
  <2>8. \A f \in TypeFields, i \in 1..Len(backlog') : Concerns("type_registered", t, i)' => backlog'[i].entry[f] = types'[t][f]
    BY <1>s, <2>1, <2>c
  <2>9. \A i \in 1..Len(backlog') : AboutType(t, i)' => types'[t] # Nothing
    BY <1>s, <2>1
  <2> QED
    BY <2>5, <2>6, <2>7, <2>8, <2>9, <2>f DEF TypeFollows
<1> QED
  BY <1>1, <1>2, <1>3 DEF KnownInv
-----------------------------------------------------------------------------
\* What a consumer makes of an update that reaches it.
LEMMA LearnedFields ==
    ASSUME KnownTypes, NEW u \in RegistryUpdate
    PROVE  /\ u.kind \in EntryKinds =>
                /\ u.key \in Entries /\ UpdatedEntry(u) \in ServiceEntry \cup {Nothing}
                /\ Learned(u).types = known.types
                /\ Learned(u).entries \in EntryTable
                /\ \A e \in Entries : Learned(u).entries[e] = IF e = u.key THEN UpdatedEntry(u) ELSE known.entries[e]
           /\ u.kind \in {"type_registered"} \cup TypeFields =>
                /\ u.key \in Types /\ u.entry \in [TypeFields -> {0, 1}]
                /\ Learned(u).entries = known.entries
                /\ \A t \in Types : t # u.key => Learned(u).types[t] = known.types[t]
                /\ u.kind = "type_registered" =>
                     Learned(u).types[u.key] = [f \in TypeFields |-> IF f = "owner" THEN u.entry.owner ELSE Nothing]
                /\ u.kind \in TypeFields => Learned(u).types[u.key] = [known.types[u.key] EXCEPT ![u.kind] = u.entry[u.kind]]
           /\ u.kind \in EntryKinds \/ u.kind \in {"type_registered"} \cup TypeFields
           /\ Learned(u) = [entries |-> Learned(u).entries, types |-> Learned(u).types]
           /\ Learned(u).types = [t \in Types |-> Learned(u).types[t]]
<1>k. EntryKinds \cap ({"type_registered"} \cup TypeFields) = {} /\ "type_registered" \notin TypeFields
  BY DEF EntryKinds, TypeFields
<1>t. /\ known = [entries |-> known.entries, types |-> known.types] /\ known.entries \in EntryTable
      /\ known.types \in [Types -> [TypeFields -> {0, 1, Nothing}] \cup {Nothing}]
  BY DEF KnownTypes
<1>1. CASE u \in EntryUpdate
  <2>1. u.kind \in {"registered", "updated", "deregistered"} /\ u.key \in Entries /\ u.entry \in ServiceEntry
    BY <1>1 DEF EntryUpdate
  <2>2. UpdatedEntry(u) \in ServiceEntry \cup {Nothing}
    BY <2>1 DEF UpdatedEntry
  <2>3. Learned(u) = [known EXCEPT !.entries[u.key] = UpdatedEntry(u)]
    <3>1. u.kind # "type_registered"
      BY <2>1
    <3> QED
      BY <2>1, <3>1, Zenon DEF Learned
  <2> DEFINE v == UpdatedEntry(u)
             table == [known.entries EXCEPT ![u.key] = v]
  <2> HIDE DEF v
  <2>4. Learned(u) = [entries |-> table, types |-> known.types]
    BY <1>t, <2>3 DEF v
  <2>5. table \in EntryTable /\ \A e \in Entries : table[e] = IF e = u.key THEN v ELSE known.entries[e]
    BY <1>t, <2>1, <2>2 DEF EntryTable, v
  <2> HIDE DEF table
  <2> QED
    BY <1>k, <1>t, <2>1, <2>2, <2>4, <2>5 DEF v, EntryKinds
<1>2. CASE u \in TypeUpdate
  <2>1. u.kind \in {"type_registered"} \cup TypeFields /\ u.key \in Types /\ u.entry \in [TypeFields -> {0, 1}]
    BY <1>2 DEF TypeUpdate
  <2>2. u.kind \notin EntryKinds
    BY <1>k, <2>1
  <2>3. CASE u.kind = "type_registered"
    <3> DEFINE v == [f \in TypeFields |-> IF f = "owner" THEN u.entry.owner ELSE Nothing]
               table == [known.types EXCEPT ![u.key] = v]
    <3>1. Learned(u) = [known EXCEPT !.types[u.key] = v]
      <4>1. u.kind \notin {"registered", "updated", "deregistered"}
        BY <2>3
      <4> QED
        BY <2>3, <4>1, Zenon DEF Learned
    <3> HIDE DEF v
    <3>2. Learned(u) = [entries |-> known.entries, types |-> table]
      BY <1>t, <3>1
    <3>3. table = [t \in Types |-> table[t]] /\ \A t \in Types : table[t] = IF t = u.key THEN v ELSE known.types[t]
      BY <1>t
    <3> HIDE DEF table
    <3> QED
      BY <1>k, <2>1, <2>2, <2>3, <3>2, <3>3 DEF v
  <2>4. CASE u.kind \in TypeFields
    <3> DEFINE v == [known.types[u.key] EXCEPT ![u.kind] = u.entry[u.kind]]
               table == [known.types EXCEPT ![u.key] = v]
    <3>1. Learned(u) = [known EXCEPT !.types[u.key][u.kind] = u.entry[u.kind]]
      <4>1. u.kind \notin {"registered", "updated", "deregistered"} /\ u.kind # "type_registered"
        BY <2>4 DEF TypeFields
      <4>2. Learned(u) = [known EXCEPT !.types[u.key][u.kind] = ChangedSetting(u)]
        BY <4>1, Zenon DEF Learned
      <4> QED
        BY <4>2 DEF ChangedSetting
    <3>2. Learned(u) = [entries |-> known.entries, types |-> table]
      BY <1>t, <3>1
    <3> HIDE DEF v
    <3>3. table = [t \in Types |-> table[t]] /\ \A t \in Types : table[t] = IF t = u.key THEN v ELSE known.types[t]
      BY <1>t
    <3> HIDE DEF table
    <3> QED
      BY <1>k, <2>1, <2>2, <2>4, <3>2, <3>3 DEF v
  <2> QED
    BY <2>1, <2>3, <2>4
<1> QED
  BY <1>1, <1>2 DEF RegistryUpdate

\* The first update is handled: of an entry,
LEMMA EntryTaken ==
    ASSUME NEW e, EntryFollows(e), OthersFollow(e), RecordFits(e), Popped,
           UNCHANGED <<time, registry, asRead, atSubscription>>, NEW dropped \in BOOLEAN,
           replayedServices[e] \in {Nothing, asRead.entries[e]},
           AboutEntry(e, 1) /\ ~dropped => known'.entries[e] = UpdatedEntry(backlog[1]),
           ~AboutEntry(e, 1) \/ dropped => known'.entries[e] = known.entries[e],
           AboutEntry(e, 1) => (dropped <=> backlog[1].kind = "registered" /\ replayedServices[e] = backlog[1].entry),
           AboutEntry(e, 1) => backlog[1].entry # Nothing,
           replayedServices'[e] = IF AboutEntry(e, 1) /\ dropped THEN Nothing ELSE replayedServices[e]
    PROVE  EntryFollows(e)' /\ OthersFollow(e)' /\ RecordFits(e)'
<1>1. \A i \in 1..Len(backlog') : i + 1 \in 1..Len(backlog) /\ i + 1 > 1 /\ backlog'[i] = backlog[i + 1]
  BY DEF Popped
<1>2. \A i \in 1..Len(backlog) : i # 1 => i - 1 \in 1..Len(backlog') /\ backlog'[i - 1] = backlog[i]
  <2>1. ASSUME NEW i \in 1..Len(backlog), i # 1 PROVE i - 1 \in 1..Len(backlog') /\ backlog'[i - 1] = backlog[i]
    <3>1. i - 1 \in 1..Len(backlog') /\ (i - 1) + 1 = i
      BY <2>1 DEF Popped
    <3> QED
      BY <3>1 DEF Popped
  <2> QED
    BY <2>1
<1>3. \A i \in 1..Len(backlog') : /\ AboutEntry(e, i)' <=> AboutEntry(e, i + 1)
                                  /\ Concerns("registered", e, i)' <=> Concerns("registered", e, i + 1)
  BY <1>1 DEF AboutEntry, Concerns
<1>4. 1 \in 1..Len(backlog)
  BY DEF Popped
<1>5. ASSUME NEW i \in 1..Len(backlog'), AboutEntry(e, i)', \A j \in 1..Len(backlog') : j > i => ~AboutEntry(e, j)'
      PROVE  UpdatedEntry(backlog'[i]) = registry'[e]
  <2>1. AboutEntry(e, i + 1) /\ i + 1 \in 1..Len(backlog)
    BY <1>1, <1>3, <1>5
  <2>2. ASSUME NEW j \in 1..Len(backlog), j > i + 1 PROVE ~AboutEntry(e, j)
    <3>1. j - 1 \in 1..Len(backlog') /\ j - 1 > i /\ backlog'[j - 1] = backlog[j]
      BY <1>2, <2>2
    <3>2. PICK k \in 1..Len(backlog') : k > i /\ backlog'[k] = backlog[j]
      BY <3>1
    <3> QED
      BY <1>5, <3>2 DEF AboutEntry
  <2> QED
    BY <1>1, <2>1, <2>2 DEF EntryFollows
<1>6. ASSUME \A i \in 1..Len(backlog') : ~AboutEntry(e, i)'
      PROVE  \/ known'.entries[e] = registry'[e]
             \/ known'.entries[e] = asRead'.entries[e] /\ registry'[e] = Nothing /\ atSubscription'.entries[e] = Nothing
  <2>1. \A i \in 1..Len(backlog) : i # 1 => ~AboutEntry(e, i)
    <3>1. ASSUME NEW i \in 1..Len(backlog), i # 1 PROVE ~AboutEntry(e, i)
      <4>1. PICK k \in 1..Len(backlog') : backlog'[k] = backlog[i]
        BY <1>2, <3>1
      <4> QED
        BY <1>6, <4>1 DEF AboutEntry
    <3> QED
      BY <3>1
  <2>2. CASE AboutEntry(e, 1)
    <3>1. UpdatedEntry(backlog[1]) = registry[e]
      <4>1. \A j \in 1..Len(backlog) : j > 1 => ~AboutEntry(e, j)
        BY <2>1
      <4> QED
        BY <1>4, <2>2, <4>1 DEF EntryFollows
    <3>2. CASE ~dropped
      BY <2>2, <3>1, <3>2
    <3>3. CASE dropped
      <4>1. Concerns("registered", e, 1) /\ replayedServices[e] = backlog[1].entry /\ replayedServices[e] # Nothing
        BY <2>2, <3>3 DEF Concerns, AboutEntry
      <4>2. known.entries[e] = replayedServices[e]
        BY <1>4, <4>1 DEF RecordFits
      <4>3. UpdatedEntry(backlog[1]) = backlog[1].entry
        BY <4>1 DEF UpdatedEntry, Concerns
      <4> QED
        BY <3>1, <3>3, <4>1, <4>2, <4>3
    <3> QED
      BY <3>2, <3>3
  <2>3. CASE ~AboutEntry(e, 1)
    <3>1. \A i \in 1..Len(backlog) : ~AboutEntry(e, i)
      BY <2>1, <2>3
    <3>2. \/ known.entries[e] = registry[e]
          \/ known.entries[e] = asRead.entries[e] /\ registry[e] = Nothing /\ atSubscription.entries[e] = Nothing
      BY <3>1 DEF EntryFollows
    <3> QED
      BY <2>3, <3>2
  <2> QED
    BY <2>2, <2>3
<1>7. EntryFollows(e)'
  BY <1>5, <1>6 DEF EntryFollows, UpdatedEntry
<1>8. OthersFollow(e)'
  <2> SUFFICES ASSUME NEW i \in 1..Len(backlog'), Concerns("registered", e, i)', asRead.entries[e] \notin {Nothing, backlog'[i].entry}
               PROVE  /\ Gone(asRead.entries[e])
                      /\ \A j \in 1..Len(backlog') : j > i /\ Concerns("registered", e, j)' => backlog'[j].entry # asRead.entries[e]
    BY DEF OthersFollow, Gone
  <2>1. i + 1 \in 1..Len(backlog) /\ Concerns("registered", e, i + 1) /\ backlog'[i] = backlog[i + 1]
    BY <1>1, <1>3
  <2>2. /\ Gone(asRead.entries[e])
        /\ \A j \in 1..Len(backlog) : j > i + 1 /\ Concerns("registered", e, j) => backlog[j].entry # asRead.entries[e]
    BY <2>1 DEF OthersFollow
  <2>3. ASSUME NEW j \in 1..Len(backlog'), j > i, Concerns("registered", e, j)' PROVE backlog'[j].entry # asRead.entries[e]
    <3>1. j + 1 \in 1..Len(backlog) /\ j + 1 > i + 1 /\ Concerns("registered", e, j + 1) /\ backlog'[j] = backlog[j + 1]
      BY <1>1, <1>3, <2>3
    <3> QED
      BY <2>2, <3>1
  <2> QED
    BY <2>2, <2>3
<1>9. RecordFits(e)'
  <2> SUFFICES ASSUME replayedServices'[e] # Nothing PROVE RecordFits(e)'
    BY DEF RecordFits
  <2> DEFINE x == replayedServices[e]
  <2>1. replayedServices'[e] = x /\ x # Nothing /\ ~(AboutEntry(e, 1) /\ dropped) /\ x = asRead.entries[e]
    OBVIOUS
  <2>2. Gone(x)' <=> Gone(x)
    <3>1. x' = x
      BY <2>1
    <3> QED
      BY <3>1 DEF Gone
  <2> HIDE DEF x
  <2>3. CASE AboutEntry(e, 1) /\ ~(Gone(x) /\ \A i \in 1..Len(backlog) : Concerns("registered", e, i) => backlog[i].entry # x)
    <3>1. \E i \in 1..Len(backlog) : Concerns("registered", e, i) /\ \A j \in 1..Len(backlog) : j < i => ~AboutEntry(e, j)
      BY <1>4, <2>1, <2>3 DEF RecordFits, x
    <3>2. Concerns("registered", e, 1)
      BY <1>4, <2>3, <3>1
    <3>3. backlog[1].entry # x
      BY <2>1, <2>3, <3>2 DEF Concerns, x
    <3>4. Gone(x) /\ \A j \in 1..Len(backlog) : j > 1 /\ Concerns("registered", e, j) => backlog[j].entry # x
      BY <1>4, <2>1, <3>2, <3>3 DEF OthersFollow
    <3>5. ASSUME NEW i \in 1..Len(backlog'), Concerns("registered", e, i)' PROVE backlog'[i].entry # x
      BY <1>1, <1>3, <3>4, <3>5
    <3> QED
      BY <2>1, <2>2, <3>4, <3>5 DEF RecordFits, x
  <2>4. CASE Gone(x) /\ \A i \in 1..Len(backlog) : Concerns("registered", e, i) => backlog[i].entry # x
    <3>1. ASSUME NEW i \in 1..Len(backlog'), Concerns("registered", e, i)' PROVE backlog'[i].entry # x
      BY <1>1, <1>3, <2>4, <3>1
    <3> QED
      BY <2>1, <2>2, <2>4, <3>1 DEF RecordFits, x
  <2>5. CASE ~AboutEntry(e, 1) /\ ~(Gone(x) /\ \A i \in 1..Len(backlog) : Concerns("registered", e, i) => backlog[i].entry # x)
    <3>1. known'.entries[e] = x
      BY <2>1, <2>5 DEF RecordFits, x
    <3>2. CASE registry[e] = Nothing /\ \A i \in 1..Len(backlog) : ~AboutEntry(e, i)
      <4>1. \A i \in 1..Len(backlog') : ~AboutEntry(e, i)'
        BY <1>1, <1>3, <3>2
      <4> QED
        BY <2>1, <3>1, <3>2, <4>1 DEF RecordFits, x
    <3>3. CASE \E i \in 1..Len(backlog) : Concerns("registered", e, i) /\ \A j \in 1..Len(backlog) : j < i => ~AboutEntry(e, j)
      <4>1. PICK i \in 1..Len(backlog) : Concerns("registered", e, i) /\ \A j \in 1..Len(backlog) : j < i => ~AboutEntry(e, j)
        BY <3>3
      <4>2. i # 1
        BY <2>5, <4>1 DEF Concerns, AboutEntry, EntryKinds
      <4>3. i - 1 \in 1..Len(backlog') /\ backlog'[i - 1] = backlog[i]
        BY <1>2, <4>2
      <4> PICK k \in 1..Len(backlog') : k = i - 1
        BY <4>3
      <4>4. Concerns("registered", e, k)'
        BY <4>1, <4>3 DEF Concerns
      <4>5. ASSUME NEW j \in 1..Len(backlog'), j < k PROVE ~AboutEntry(e, j)'
        <5>1. j + 1 \in 1..Len(backlog) /\ j + 1 < i
          BY <1>1, <4>5
        <5> QED
          BY <1>3, <4>1, <5>1
      <4> QED
        BY <2>1, <3>1, <4>4, <4>5 DEF RecordFits, x
    <3> QED
      BY <2>1, <2>5, <3>2, <3>3 DEF RecordFits, x
  <2> QED
    BY <2>3, <2>4, <2>5
<1> QED
  BY <1>7, <1>8, <1>9
-----------------------------------------------------------------------------
\* and of a type.
LEMMA TypeTaken ==
    ASSUME NEW t, TypeFollows(t), Popped, UNCHANGED <<types, asRead, atSubscription>>,
           known.types[t] \in [TypeFields -> {0, 1, Nothing}] \cup {Nothing},
           ~AboutType(t, 1) => known'.types[t] = known.types[t],
           ~Concerns("type_registered", t, 1) => (t \in replayedTypes' <=> t \in replayedTypes),
           Concerns("type_registered", t, 1) =>
              /\ t \notin replayedTypes'
              /\ IF t \in replayedTypes THEN known'.types[t] = known.types[t]
                 ELSE /\ asRead.types[t] = Nothing
                      /\ known'.types[t] = [f \in TypeFields |-> IF f = "owner" THEN backlog[1].entry.owner ELSE Nothing],
           \A g \in TypeFields : Concerns(g, t, 1) =>
              /\ known'.types[t] = [known.types[t] EXCEPT ![g] = backlog[1].entry[g]]
              /\ backlog[1].entry[g] \in {0, 1},
           Concerns("type_registered", t, 1) => backlog[1].entry.owner \in {0, 1}
    PROVE  TypeFollows(t)'
<1>n. Nothing \notin [TypeFields -> {0, 1, Nothing}]
  BY RegistryAssumption
<1>1. \A i \in 1..Len(backlog') : i + 1 \in 1..Len(backlog) /\ i + 1 > 1 /\ backlog'[i] = backlog[i + 1]
  BY DEF Popped
<1>2. \A i \in 1..Len(backlog) : i # 1 => i - 1 \in 1..Len(backlog') /\ (i - 1) + 1 = i
  BY DEF Popped
<1>3. \A i \in 1..Len(backlog') : AboutType(t, i)' <=> AboutType(t, i + 1)
  BY <1>1 DEF AboutType
<1>4. \A k \in {"type_registered"} \cup TypeFields, i \in 1..Len(backlog') : Concerns(k, t, i)' <=> Concerns(k, t, i + 1)
  BY <1>1 DEF Concerns
<1>5. 1 \in 1..Len(backlog) /\ "type_registered" \notin TypeFields
  BY DEF Popped, TypeFields
<1>6. \A k \in {"type_registered"} \cup TypeFields, i \in 1..Len(backlog) : Concerns(k, t, i) => AboutType(t, i)
  BY DEF Concerns, AboutType
\* A registration is the first update of its type.
<1>7. AboutType(t, 1) => \A i \in 1..Len(backlog') : ~Concerns("type_registered", t, i)'
  <2>1. ASSUME NEW i \in 1..Len(backlog'), AboutType(t, 1), Concerns("type_registered", t, i + 1) PROVE FALSE
    <3>1. i + 1 <= 1
      BY <1>1, <1>5, <2>1 DEF TypeFollows
    <3> QED
      BY <1>1, <3>1
  <2> QED
    BY <1>4, <2>1
<1>8. \A k \in {"type_registered"} \cup TypeFields :
         (\E i \in 1..Len(backlog) : Concerns(k, t, i)) <=> Concerns(k, t, 1) \/ \E i \in 1..Len(backlog') : Concerns(k, t, i)'
  <2>1. ASSUME NEW k \in {"type_registered"} \cup TypeFields, NEW i \in 1..Len(backlog), Concerns(k, t, i), i # 1
        PROVE  \E j \in 1..Len(backlog') : Concerns(k, t, j)'
    <3>1. PICK j \in 1..Len(backlog') : j + 1 = i
      BY <1>2, <2>1
    <3> QED
      BY <1>4, <2>1, <3>1
  <2> QED
    BY <1>1, <1>4, <1>5, <2>1
<1>9. Concerns("type_registered", t, 1) =>
        (NewPending(t) <=> t \notin replayedTypes) /\ \A f \in TypeFields : ~Concerns(f, t, 1)
  BY <1>5 DEF NewPending, Concerns
<1>10. AboutType(t, 1) => ~NewPending(t)' /\ types[t] # Nothing
  BY <1>5, <1>7 DEF NewPending, TypeFollows
<1>11. ~AboutType(t, 1) => (NewPending(t)' <=> NewPending(t))
  BY <1>5, <1>6, <1>8 DEF NewPending
<1>12. \A f \in TypeFields : ~Concerns(f, t, 1) => (SettingPending(t, f)' <=> SettingPending(t, f))
  BY <1>8 DEF SettingPending
<1>13. AboutType(t, 1) => Concerns("type_registered", t, 1) \/ \E g \in TypeFields : Concerns(g, t, 1)
  BY DEF AboutType, Concerns
\* A setting's update finds the type known.
<1>14. ASSUME NEW g \in TypeFields, Concerns(g, t, 1) PROVE ~NewPending(t) /\ known.types[t] \in [TypeFields -> {0, 1, Nothing}]
  <2>1. AboutType(t, 1) /\ ~Concerns("type_registered", t, 1)
    BY <1>5, <1>6, <1>14 DEF Concerns
  <2>2. ~NewPending(t)
    BY <1>7, <1>8, <2>1 DEF NewPending
  <2> QED
    BY <1>10, <2>1, <2>2 DEF TypeFollows
<1>15. known'.types[t] = Nothing <=> types'[t] = Nothing \/ NewPending(t)'
  <2>1. CASE ~AboutType(t, 1)
    BY <1>11, <2>1 DEF TypeFollows
  <2>2. CASE Concerns("type_registered", t, 1)
    <3>1. known'.types[t] # Nothing
      <4>1. CASE t \in replayedTypes
        BY <1>5, <1>6, <1>9, <1>10, <2>2, <4>1 DEF TypeFollows
      <4>2. CASE t \notin replayedTypes
        <5>1. known'.types[t] \in [TypeFields -> {0, 1, Nothing}]
          BY <2>2, <4>2
        <5> QED
          BY <1>n, <5>1
      <4> QED
        BY <4>1, <4>2
    <3> QED
      BY <1>5, <1>6, <1>10, <2>2, <3>1
  <2>3. ASSUME NEW g \in TypeFields, Concerns(g, t, 1) PROVE known'.types[t] # Nothing /\ AboutType(t, 1)
    <3>1. known'.types[t] \in [TypeFields -> {0, 1, Nothing}]
      BY <1>14, <2>3
    <3> QED
      BY <1>n, <1>5, <1>6, <2>3, <3>1
  <2> QED
    BY <1>10, <1>13, <2>1, <2>2, <2>3
<1>16. \A i \in 1..Len(backlog') : AboutType(t, i)' => types'[t] # Nothing
  BY <1>1, <1>3 DEF TypeFollows
<1>17. ASSUME NEW i \in 1..Len(backlog'), NEW j \in 1..Len(backlog'), Concerns("type_registered", t, i)', AboutType(t, j)'
       PROVE  i <= j
  <2>1. i + 1 <= j + 1
    BY <1>1, <1>3, <1>4, <1>17 DEF TypeFollows
  <2> QED
    BY <2>1
<1>18. ASSUME NEW f \in TypeFields, NEW i \in 1..Len(backlog'), Concerns(f, t, i)',
              \A j \in 1..Len(backlog') : j > i => ~Concerns(f, t, j)'
       PROVE  backlog'[i].entry[f] = types'[t][f]
  <2>1. ASSUME NEW j \in 1..Len(backlog), j > i + 1 PROVE ~Concerns(f, t, j)
    <3>1. PICK k \in 1..Len(backlog') : k + 1 = j
      BY <1>2, <2>1
    <3>2. k > i
      BY <2>1, <3>1
    <3>3. ~Concerns(f, t, k)'
      BY <1>18, <3>2
    <3>4. Concerns(f, t, k)' <=> Concerns(f, t, k + 1)
      BY <1>4
    <3> QED
      BY <3>1, <3>3, <3>4
  <2>2. i + 1 \in 1..Len(backlog) /\ Concerns(f, t, i + 1)
    BY <1>1, <1>4, <1>18
  <2> QED
    BY <1>1, <2>1, <2>2 DEF TypeFollows
<1>19. ASSUME NEW f \in TypeFields, types'[t] # Nothing, ~SettingPending(t, f)'
       PROVE  /\ \A i \in 1..Len(backlog') : Concerns("type_registered", t, i)' => backlog'[i].entry[f] = types'[t][f]
              /\ NewPending(t)' \/ SettingTold(t, f)'
  <2>1. CASE ~Concerns(f, t, 1)
    <3>1. /\ \A i \in 1..Len(backlog) : Concerns("type_registered", t, i) => backlog[i].entry[f] = types[t][f]
          /\ NewPending(t) \/ SettingTold(t, f)
      BY <1>12, <1>19, <2>1 DEF TypeFollows
    <3>2. \A i \in 1..Len(backlog') : Concerns("type_registered", t, i)' => backlog'[i].entry[f] = types'[t][f]
      BY <1>1, <1>4, <3>1
    <3>3. CASE ~AboutType(t, 1)
      BY <1>11, <3>1, <3>2, <3>3 DEF SettingTold
    <3>4. CASE Concerns("type_registered", t, 1)
      <4>1. CASE t \in replayedTypes
        BY <1>9, <3>1, <3>2, <3>4, <4>1 DEF SettingTold
      <4>2. CASE t \notin replayedTypes
        <5>1. backlog[1].entry[f] = types[t][f]
          BY <1>5, <3>1, <3>4
        <5>2. known'.types[t][f] = IF f = "owner" THEN backlog[1].entry.owner ELSE Nothing
          BY <3>4, <4>2
        <5>3. f = "owner" => known'.types[t][f] = types'[t][f]
          <6>1. "owner" \in TypeFields
            BY DEF TypeFields
          <6>2. f = "owner" => backlog[1].entry["owner"] = types[t][f]
            BY <5>1
          <6> QED
            BY <5>2, <6>1, <6>2
        <5> QED
          BY <3>2, <3>4, <4>2, <5>2, <5>3 DEF SettingTold
      <4> QED
        BY <4>1, <4>2
    <3>5. ASSUME NEW g \in TypeFields, Concerns(g, t, 1) PROVE SettingTold(t, f)'
      <4>1. f # g
        BY <2>1, <3>5
      <4>2. known'.types[t][f] = known.types[t][f] /\ SettingTold(t, f)
        BY <1>14, <3>1, <3>5, <4>1
      <4> QED
        BY <4>2 DEF SettingTold
    <3> QED
      BY <1>13, <3>2, <3>3, <3>4, <3>5
  <2>2. CASE Concerns(f, t, 1)
    <3>1. \A i \in 1..Len(backlog) : i > 1 => ~Concerns(f, t, i)
      <4>1. ASSUME NEW i \in 1..Len(backlog), i > 1, Concerns(f, t, i) PROVE FALSE
        <5>1. PICK k \in 1..Len(backlog') : k + 1 = i
          BY <1>2, <4>1
        <5> QED
          BY <1>4, <1>19, <4>1, <5>1 DEF SettingPending
      <4> QED
        BY <4>1
    <3>2. backlog[1].entry[f] = types[t][f]
      BY <1>5, <2>2, <3>1 DEF TypeFollows
    <3>3. known'.types[t][f] = types'[t][f]
      BY <1>14, <2>2, <3>2
    <3> QED
      BY <1>5, <1>6, <1>7, <2>2, <3>3 DEF SettingTold
  <2> QED
    BY <2>1, <2>2
<1> QED
  BY <1>15, <1>16, <1>17, <1>18, <1>19 DEF TypeFollows
-----------------------------------------------------------------------------
LEMMA KnownHandle ==
    ASSUME ReplayInv, KnownInv, HandleUpdate
    PROVE  KnownInv'
<1> DEFINE u == backlog[1]
           dropped == ConsumesService(u) \/ ConsumesType(u)
<1>h. /\ backlog # <<>> /\ backlog' = Tail(backlog) /\ u \in RegistryUpdate /\ Head(backlog) = u
      /\ \A e \in Entries : replayedServices'[e] = IF e = u.key /\ ConsumesService(u) THEN Nothing ELSE replayedServices[e]
      /\ \A t \in Types : t \in replayedTypes' <=> t \in replayedTypes /\ ~(t = u.key /\ ConsumesType(u))
      /\ UNCHANGED <<time, registry, types, connecting, asRead, atSubscription>>
  BY RecordsAfter
<1>s. backlog \in Seq(RegistryUpdate) /\ RecordsAreRead /\ ReplayIsFirst
  BY DEF ReplayInv, RegistryTypes
<1>p. Popped /\ 1 \in 1..Len(backlog)
  BY <1>h, <1>s, RestOf DEF Popped
<1>c. connecting = "subscribed"
  BY <1>h, <1>s DEF RecordsAreRead
<1>i. KnownTypes /\ \A e \in Entries : EntryInTime(e) /\ EntryFollows(e) /\ OthersFollow(e) /\ RecordFits(e)
  BY <1>c DEF KnownInv
<1>j. \A t \in Types : TypeFollows(t)
  BY <1>c DEF KnownInv
<1>k. /\ "registered" \in EntryKinds /\ "type_registered" \notin EntryKinds /\ "registered" # "type_registered"
      /\ "type_registered" \notin TypeFields /\ EntryKinds \cap TypeFields = {}
  BY DEF EntryKinds, TypeFields
<1>n. known' = IF dropped THEN known ELSE Learned(u)
  BY <1>h DEF HandleUpdate
<1>v. u.kind \in EntryKinds => u.entry \in ServiceEntry /\ u.entry # Nothing
  <2>1. Nothing \notin ServiceEntry
    BY RegistryAssumption
  <2>2. u \in TypeUpdate => u.kind \notin EntryKinds
    BY <1>k DEF TypeUpdate
  <2>3. u \in EntryUpdate => u.entry \in ServiceEntry
    BY DEF EntryUpdate
  <2> QED
    BY <1>h, <2>1, <2>2, <2>3 DEF RegistryUpdate
<1>l. /\ u.kind \in EntryKinds =>
            /\ u.key \in Entries /\ UpdatedEntry(u) \in ServiceEntry \cup {Nothing}
            /\ Learned(u).types = known.types
            /\ Learned(u).entries \in EntryTable
            /\ \A e \in Entries : Learned(u).entries[e] = IF e = u.key THEN UpdatedEntry(u) ELSE known.entries[e]
      /\ u.kind \in {"type_registered"} \cup TypeFields =>
            /\ u.key \in Types /\ u.entry \in [TypeFields -> {0, 1}]
            /\ Learned(u).entries = known.entries
            /\ \A t \in Types : t # u.key => Learned(u).types[t] = known.types[t]
            /\ u.kind = "type_registered" =>
                 Learned(u).types[u.key] = [f \in TypeFields |-> IF f = "owner" THEN u.entry.owner ELSE Nothing]
            /\ u.kind \in TypeFields => Learned(u).types[u.key] = [known.types[u.key] EXCEPT ![u.kind] = u.entry[u.kind]]
      /\ u.kind \in EntryKinds \/ u.kind \in {"type_registered"} \cup TypeFields
      /\ Learned(u) = [entries |-> Learned(u).entries, types |-> Learned(u).types]
      /\ Learned(u).types = [t \in Types |-> Learned(u).types[t]]
  BY <1>h, <1>i, LearnedFields
<1>w. /\ ConsumesService(u) <=> u.kind = "registered" /\ replayedServices[u.key] = u.entry
      /\ ConsumesType(u) <=> u.kind = "type_registered" /\ u.key \in replayedTypes
  BY DEF ConsumesService, ConsumesType
<1>f. u.kind = "type_registered" /\ u.key \notin replayedTypes => asRead.types[u.key] = Nothing
  BY <1>p, <1>s DEF ReplayIsFirst
<1>a. \A e \in Entries : AboutEntry(e, 1) <=> u.kind \in EntryKinds /\ u.key = e
  BY DEF AboutEntry
<1>b. \A t \in Types : /\ AboutType(t, 1) <=> u.kind \in {"type_registered"} \cup TypeFields /\ u.key = t
                       /\ \A g \in {"type_registered"} \cup TypeFields : Concerns(g, t, 1) <=> u.kind = g /\ u.key = t
  BY DEF AboutType, Concerns
<1>q. \A e \in Entries : replayedServices[e] \in {Nothing, asRead.entries[e]}
  BY <1>s DEF RecordsAreRead
<1>g. \A x \in [TypeFields -> {0, 1}], f \in TypeFields : x[f] \in {0, 1}
  OBVIOUS
<1>o. "owner" \in TypeFields
  BY DEF TypeFields
<1> HIDE DEF u
<1>1. ASSUME NEW e \in Entries PROVE EntryFollows(e)' /\ OthersFollow(e)' /\ RecordFits(e)'
  <2>1. AboutEntry(e, 1) => (dropped <=> u.kind = "registered" /\ replayedServices[e] = u.entry)
    BY <1>a, <1>k, <1>w
  <2>2. AboutEntry(e, 1) /\ ~dropped => known'.entries[e] = UpdatedEntry(u)
    BY <1>a, <1>l, <1>n
  <2>3. ~AboutEntry(e, 1) \/ dropped => known'.entries[e] = known.entries[e]
    BY <1>a, <1>l, <1>n
  <2>4. replayedServices'[e] = IF AboutEntry(e, 1) /\ dropped THEN Nothing ELSE replayedServices[e]
    BY <1>a, <1>h, <1>k, <1>w
  <2>5. AboutEntry(e, 1) => u.entry # Nothing
    BY <1>a, <1>v
  <2>6. EntryFollows(e) /\ OthersFollow(e) /\ RecordFits(e)
    BY <1>i
  <2>7. dropped \in BOOLEAN
    BY DEF ConsumesService, ConsumesType
  <2> HIDE DEF dropped
  <2>8. UNCHANGED <<time, registry, asRead, atSubscription>> /\ replayedServices[e] \in {Nothing, asRead.entries[e]}
    BY <1>h, <1>q
  <2> QED
    BY <1>p, <2>1, <2>2, <2>3, <2>4, <2>5, <2>6, <2>7, <2>8, EntryTaken DEF u
<1>2. ASSUME NEW t \in Types PROVE TypeFollows(t)' /\ known'.types[t] \in [TypeFields -> {0, 1, Nothing}] \cup {Nothing}
  <2>1. known.types[t] \in [TypeFields -> {0, 1, Nothing}] \cup {Nothing}
    BY <1>i DEF KnownTypes
  <2>2. ~AboutType(t, 1) => known'.types[t] = known.types[t]
    BY <1>b, <1>l, <1>n
  <2>3. ~Concerns("type_registered", t, 1) => (t \in replayedTypes' <=> t \in replayedTypes)
    BY <1>b, <1>h, <1>w
  <2>4. Concerns("type_registered", t, 1) =>
           /\ t \notin replayedTypes'
           /\ IF t \in replayedTypes THEN known'.types[t] = known.types[t]
              ELSE /\ asRead.types[t] = Nothing
                   /\ known'.types[t] = [f \in TypeFields |-> IF f = "owner" THEN u.entry.owner ELSE Nothing]
    <3> SUFFICES ASSUME u.kind = "type_registered", u.key = t
                 PROVE  /\ t \notin replayedTypes'
                        /\ IF t \in replayedTypes THEN known'.types[t] = known.types[t]
                           ELSE /\ asRead.types[t] = Nothing
                                /\ known'.types[t] = [f \in TypeFields |-> IF f = "owner" THEN u.entry.owner ELSE Nothing]
      BY <1>b
    <3>1. dropped <=> t \in replayedTypes
      BY <1>k, <1>w
    <3>2. t \notin replayedTypes'
      BY <1>h, <1>w
    <3> HIDE DEF dropped
    <3> QED
      BY <1>f, <1>l, <1>n, <3>1, <3>2
  <2>5. ASSUME NEW g \in TypeFields, Concerns(g, t, 1)
        PROVE  known'.types[t] = [known.types[t] EXCEPT ![g] = u.entry[g]] /\ u.entry[g] \in {0, 1}
    <3>1. u.kind = g /\ u.key = t
      BY <1>b, <2>5
    <3>2. ~dropped
      BY <1>k, <1>w, <3>1
    <3> QED
      BY <1>g, <1>l, <1>n, <2>5, <3>1, <3>2
  <2>6. Concerns("type_registered", t, 1) => u.entry.owner \in {0, 1}
    BY <1>b, <1>g, <1>l, <1>o
  <2>7. TypeFollows(t)
    BY <1>j
  <2>8. UNCHANGED <<types, asRead, atSubscription>>
    BY <1>h
  <2>9. TypeFollows(t)'
    BY <1>p, <2>1, <2>2, <2>3, <2>4, <2>5, <2>6, <2>7, <2>8, TypeTaken DEF u
  <2>10. known'.types[t] \in [TypeFields -> {0, 1, Nothing}] \cup {Nothing}
    <3>1. CASE ~AboutType(t, 1)
      BY <2>1, <2>2, <3>1
    <3>2. CASE Concerns("type_registered", t, 1)
      BY <2>1, <2>4, <2>6, <3>2
    <3>3. ASSUME NEW g \in TypeFields, Concerns(g, t, 1) PROVE known'.types[t] \in [TypeFields -> {0, 1, Nothing}] \cup {Nothing}
      <4>1. CASE known.types[t] \in [TypeFields -> {0, 1, Nothing}]
        BY <2>5, <3>3, <4>1
      <4>2. CASE known.types[t] = Nothing
        <5>1. t \in replayedTypes \/ ~Concerns("type_registered", t, 1)
          BY <1>b, <1>k, <3>3
        <5>2. AboutType(t, 1)
          BY <1>b, <3>3
        <5>3. types[t] # Nothing /\ (NewPending(t) \/ known.types[t] # Nothing)
          BY <1>p, <2>7, <5>2 DEF TypeFollows
        <5>4. PICK i \in 1..Len(backlog) : Concerns("type_registered", t, i)
          BY <4>2, <5>3 DEF NewPending
        <5>5. i <= 1
          BY <1>p, <2>7, <5>2, <5>4 DEF TypeFollows
        <5>6. i = 1
          BY <5>5
        <5> QED
          BY <1>b, <1>k, <3>3, <5>4, <5>6
      <4> QED
        BY <2>1, <4>1, <4>2
    <3> QED
      BY <1>b, <3>1, <3>2, <3>3
  <2> QED
    BY <2>9, <2>10
<1>3. KnownTypes'
  <2>1. known'.entries \in EntryTable /\ known' = [entries |-> known'.entries, types |-> known'.types]
    <3>1. known.entries \in EntryTable /\ known = [entries |-> known.entries, types |-> known.types]
      BY <1>i DEF KnownTypes
    <3>2. Learned(u).entries \in EntryTable
      BY <1>l, <3>1
    <3> QED
      BY <1>l, <1>n, <3>1, <3>2
  <2>2. known'.types = [t \in Types |-> known'.types[t]]
    <3>1. known.types = [t \in Types |-> known.types[t]]
      BY <1>i DEF KnownTypes
    <3> QED
      BY <1>l, <1>n, <3>1
  <2> QED
    BY <1>2, <2>1, <2>2 DEF KnownTypes
<1>4. KnownAsRead' /\ \A e \in Entries : EntryInTime(e)'
  BY <1>c, <1>h, <1>i DEF KnownAsRead, EntryInTime, Gone
<1> QED
  BY <1>1, <1>2, <1>3, <1>4 DEF KnownInv

LEMMA KnownNext ==
    ASSUME ReplayInv, KnownInv, TaskStep \/ ServiceStep \/ ConfigStep \/ UNCHANGED registryVars
    PROVE  KnownInv'
<1>t. time \in Nat
  <2>1. time \in 0..MaxTime
    BY DEF ReplayInv, RegistryTypes
  <2> QED
    BY <2>1, RegistryAssumption
<1>1. CASE ConfigStep \/ UNCHANGED registryVars
  BY <1>1, <1>t, KnownElse DEF ConfigStep, ConfigChanges, ConfigHandled, ConfigSeen, registryVars
<1>2. CASE BlockTimePasses
  BY <1>2, <1>t, KnownElse DEF BlockTimePasses
<1> QED
  BY <1>1, <1>2, KnownWrite, KnownRead, KnownSubscribe, KnownHandle DEF TaskStep, ServiceStep

LEMMA KnownResult == KnownInv => RegistryIsKnown
<1> SUFFICES ASSUME KnownInv, connecting = "subscribed", backlog = <<>> PROVE RegistryIsKnown
  BY DEF RegistryIsKnown
<1>1. 1..Len(backlog) = {}
  OBVIOUS
<1>2. ASSUME NEW e \in Entries
      PROVE  \/ known.entries[e] = registry[e]
             \/ known.entries[e] = asRead.entries[e] /\ registry[e] = Nothing /\ atSubscription.entries[e] = Nothing
  <2>1. EntryFollows(e)
    BY DEF KnownInv
  <2> QED
    BY <1>1, <2>1 DEF EntryFollows
<1>3. ASSUME NEW t \in Types
      PROVE  /\ known.types[t] = Nothing <=> types[t] = Nothing
             /\ types[t] # Nothing => \A f \in TypeFields : SettingTold(t, f)
  <2>1. TypeFollows(t) /\ ~NewPending(t) /\ \A f \in TypeFields : ~SettingPending(t, f)
    BY <1>1 DEF KnownInv, NewPending, SettingPending
  <2> QED
    BY <2>1 DEF TypeFollows
<1> QED
  BY <1>2, <1>3 DEF RegistryIsKnown, SettingTold
-----------------------------------------------------------------------------
(* The connector as a whole. *)

\* The slot a behaviour watches is one of the caches it explores.
WatchedFits ==
    /\ part = "lookups" => watched \in Slots
    /\ part = "cached channels" => watched \in CacheSlots

\* A step of the whole is a step of every part or leaves it alone.
LEMMA StepsOfParts ==
    ASSUME WatchedFits, [Next]_vars
    PROVE  /\ WatchedFits'
           /\ AccountStep \/ UNCHANGED accountVars
           /\ ChannelStep \/ UNCHANGED channelVars
           /\ AccountsNext => AccountStep
           /\ ChannelsNext => ChannelStep
           /\ ValueStep \/ UNCHANGED valueVars
           /\ TaskStep \/ ServiceStep \/ ConfigStep \/ UNCHANGED registryVars
<1>1. CASE AccountsNext
  <2>1. UNCHANGED <<channelVars, valueVars, registryVars, part, watched>> /\ part \notin {"cached channels", "channel events"}
    BY <1>1 DEF AccountsNext
  <2>2. AccountStep
    BY <1>1 DEF AccountsNext, AccountStep, WatchedFits
  <2>3. ~ChannelsNext
    BY <2>1 DEF ChannelsNext, ChannelsFrame
  <2> QED
    BY <2>1, <2>2, <2>3 DEF WatchedFits
<1>2. CASE ChannelsNext
  <2>1. UNCHANGED <<accountVars, valueVars, registryVars, part, watched>> /\ part \notin {"lookups", "announcements"}
    BY <1>2 DEF ChannelsNext, ChannelsFrame
  <2>2. part = "cached channels" => watched \in CacheSlots /\ watched[2] \in Channels
    BY SlotParts DEF WatchedFits
  <2>3. ChannelStep
    BY <1>2, <2>2 DEF ChannelsNext, WatchedChannelStep, ChannelStep
  <2>4. ~AccountsNext
    BY <2>1 DEF AccountsNext
  <2> QED
    BY <2>1, <2>3, <2>4 DEF WatchedFits
<1>a. ASSUME ~AccountsNext, ~ChannelsNext, ValuesNext \/ RegistryNext \/ OperationsNext \/ UNCHANGED vars
      PROVE  /\ WatchedFits' /\ UNCHANGED <<accountVars, channelVars>> /\ (ValueStep \/ UNCHANGED valueVars)
             /\ TaskStep \/ ServiceStep \/ ConfigStep \/ UNCHANGED registryVars
  <2>1. CASE ValuesNext
    BY <2>1 DEF ValuesNext, WatchedFits
  <2>2. CASE RegistryNext
    BY <2>2 DEF RegistryNext, WatchedFits
  <2>3. CASE OperationsNext
    BY <2>3 DEF OperationsNext, WatchedFits
  <2>4. CASE UNCHANGED vars
    BY <2>4 DEF vars, WatchedFits
  <2> QED
    BY <1>a, <2>1, <2>2, <2>3, <2>4
<1> QED
  BY <1>1, <1>2, <1>a DEF Next

LEMMA OperationsNextInv ==
    ASSUME OperationsInv, [Next]_vars
    PROVE  OperationsInv'
<1>1. CASE UNCHANGED operationVars
  <2>1. UNCHANGED <<world, index, user, txs, sends, waiter, blind, done, stored, failing>>
    BY <1>1 DEF operationVars
  <2>2. OperationTypes' /\ IndexIsBehind' /\ AwaitedFits'
    BY <2>1 DEF OperationsInv, OperationTypes, IndexIsBehind, AwaitedFits
  <2>3. \A k \in {"deploy", "announce"} : OneUnderWay(k)'
    BY <2>1 DEF OperationsInv, OneUnderWay, Counts, IsSetUp
  <2> QED
    BY <2>2, <2>3 DEF OperationsInv
<1>2. CASE OperationsNext
  <2>1. \/ SettleStep \/ OtherDeploys \/ OtherRegistersType \/ WaitStep
        \/ \E u \in Users :
            \/ DeploySafe(u) \/ (\E s \in SafeIds : RegisterSafe(u, s))
            \/ (\E addrs \in SUBSET Multiaddrs : Announce(u, addrs))
            \/ Withdraw(u) \/ OpenChannel(u) \/ FundChannel(u)
            \/ RegisterService(u) \/ UpdateService(u) \/ DeregisterService(u)
    BY <1>2 DEF OperationsNext
  <2>2. CASE SettleStep
    BY <2>2, OperationsSubmit, OperationsExecute, OperationsOther DEF SettleStep
  <2> QED
    BY <2>1, <2>2, OperationsCall, OperationsOther, OperationsWait
<1> QED
  BY <1>1, <1>2 DEF Next, AccountsNext, ChannelsNext, ChannelsFrame, ValuesNext, RegistryNext, vars

\* The stream carries what the explored part broadcasts; the tables of the others
\* stay empty and their consumer untold.
NoAccounts == \A i \in Ids : db.accounts[i] = None
NoChannels == \A c \in Channels : channels[c] = NoEntry /\ view[c] = Untold

StreamInv ==
    /\ IF part \in {"lookups", "announcements"} THEN AnnounceInv ELSE NoAccounts
    /\ IF part \in {"cached channels", "channel events"} THEN ViewInv ELSE NoChannels

LEMMA StreamInitInv == Init => StreamInv
<1> SUFFICES ASSUME Init PROVE StreamInv
  OBVIOUS
<1>1. AccountInit /\ ChannelInit /\ StreamInit
  BY DEF Init
<1>2. NoAccounts
  BY <1>1 DEF AccountInit, NoAccounts
<1>3. NoChannels
  BY <1>1, ChannelAssumption DEF ChannelInit, StreamInit, NoChannels
<1> QED
  BY <1>1, <1>2, <1>3, AnnounceInitInv, ViewInitInv DEF StreamInv

\* A consumer of announcements is told of accounts only.
LEMMA ChannelsStayUntold ==
    ASSUME AnnounceInv, AccountStep, NEW c \in Channels
    PROVE  view'[c] = view[c]
<1>t. StreamTypes(Ids, {"announced"}) /\ c \notin Ids /\ c \in Topics
  BY TopicsAssumption, ChannelAssumption DEF AnnounceInv
<1>1. CASE UNCHANGED streamVars
  BY <1>1 DEF streamVars
<1>2. CASE AccountHandled
  BY <1>2 DEF AccountHandled, Broadcast
<1>3. CASE ListState(nodes) \/ Activate
  BY <1>3 DEF ListState, Activate
<1>4. ASSUME NEW i \in listed, ReadState(i, Entry(i), Public(Entry(i))) PROVE view'[c] = view[c]
  <2>1. i # c
    BY <1>t DEF StreamTypes
  <2> QED
    BY <1>t, <1>4, <2>1 DEF ReadState, StreamTypes
<1>5. CASE TakeEvent
  <2> DEFINE E == [id : Ids, entry : {"announced"}]
  <2>1. queue # <<>> /\ view' = [view EXCEPT ![Head(queue).id] = Head(queue).entry]
    BY <1>5 DEF TakeEvent
  <2>2. queue \in Seq(E)
    BY <1>t DEF StreamTypes
  <2> HIDE DEF E
  <2>3. Head(queue) \in E
    BY <2>1, <2>2
  <2>4. Head(queue).id \in Ids
    BY <2>3 DEF E
  <2> QED
    BY <1>t, <2>1, <2>4 DEF StreamTypes
<1> QED
  BY <1>1, <1>2, <1>3, <1>4, <1>5 DEF AccountStep, HandlerStep, ConsumerStep, SlotStep

LEMMA StreamNext ==
    ASSUME WatchedFits, AccountInv, ChannelInv, StreamInv, [Next]_vars
    PROVE  StreamInv'
<1>1. CASE AccountsNext
  <2>1. /\ part \in {"lookups", "announcements"} /\ part' = part /\ UNCHANGED channelVars
        /\ part \notin {"cached channels", "channel events"}
    BY <1>1 DEF AccountsNext
  <2>2. AccountStep
    BY <1>1, StepsOfParts
  <2>3. AnnounceInv /\ NoChannels
    BY <2>1 DEF StreamInv
  <2>4. NoChannels'
    BY <2>1, <2>2, <2>3, ChannelsStayUntold DEF NoChannels, channelVars
  <2> QED
    BY <2>1, <2>2, <2>3, <2>4, AnnounceNext DEF StreamInv
<1>2. CASE ChannelsNext
  <2>1. /\ part \in {"cached channels", "channel events"} /\ part' = part /\ UNCHANGED accountVars
        /\ part \notin {"lookups", "announcements"}
    BY <1>2 DEF ChannelsNext, ChannelsFrame
  <2>2. ChannelStep
    BY <1>2, StepsOfParts
  <2>3. ViewInv /\ NoAccounts
    BY <2>1 DEF StreamInv
  <2>4. NoAccounts'
    BY <2>1, <2>3 DEF NoAccounts, accountVars
  <2> QED
    BY <2>1, <2>2, <2>3, <2>4, ViewNext DEF StreamInv
<1>3. CASE ValuesNext \/ RegistryNext \/ OperationsNext
  <2>1. /\ part \notin {"lookups", "announcements", "cached channels", "channel events"} /\ part' = part
        /\ UNCHANGED <<accountVars, channelVars>> /\ (ValueStep \/ UNCHANGED streamVars)
    BY <1>3 DEF ValuesNext, RegistryNext, OperationsNext
  <2>2. view' = view
    BY <2>1 DEF ValueStep, ParamsHandled, Broadcast, streamVars
  <2>3. NoAccounts /\ NoChannels
    BY <2>1 DEF StreamInv
  <2>4. NoAccounts' /\ NoChannels'
    BY <2>1, <2>2, <2>3 DEF NoAccounts, NoChannels, accountVars, channelVars
  <2> QED
    BY <2>1, <2>4 DEF StreamInv
<1>4. CASE UNCHANGED vars
  <2>1. UNCHANGED <<accountVars, channelVars, streamVars>> /\ part' = part
    BY <1>4 DEF vars
  <2>2. AnnounceInv => AnnounceInv'
    BY <2>1, AnnounceNext
  <2>3. ViewInv => ViewInv'
    BY <2>1, ViewNext
  <2>4. (NoAccounts => NoAccounts') /\ (NoChannels => NoChannels')
    BY <2>1 DEF NoAccounts, NoChannels, accountVars, channelVars, streamVars
  <2> QED
    BY <2>1, <2>2, <2>3, <2>4 DEF StreamInv
<1> QED
  BY <1>1, <1>2, <1>3, <1>4 DEF Next

LEMMA StreamResult == StreamInv => AnnouncedAccountsAreKnown /\ ChannelViewIsCurrent
<1> SUFFICES ASSUME StreamInv PROVE AnnouncedAccountsAreKnown /\ ChannelViewIsCurrent
  OBVIOUS
<1>1. NoAccounts => AnnouncedAccountsAreKnown
  BY AccountAssumption DEF NoAccounts, AnnouncedAccountsAreKnown, Entry
<1>2. NoChannels => ChannelViewIsCurrent
  BY DEF NoChannels, ChannelViewIsCurrent, Opened
<1> QED
  BY <1>1, <1>2, AnnounceResult, ViewResult DEF StreamInv

ConnectorInv ==
    /\ WatchedFits /\ AccountInv /\ ChannelInv /\ StreamInv /\ ValueInv
    /\ ConfigInv /\ ReplayInv /\ KnownInv /\ OperationsInv

LEMMA ConnectorInitInv == Init => ConnectorInv
<1> SUFFICES ASSUME Init PROVE ConnectorInv
  OBVIOUS
<1>1. WatchedFits
  BY DEF Init, WatchedFits
<1>2. AccountInit /\ ChannelInit /\ ValueInit /\ RegistryInit /\ OperationsInit
  BY DEF Init
<1> QED
  BY <1>1, <1>2, AccountInitInv, ChannelInitInv, StreamInitInv, ValueInitInv, ConfigInitInv, ReplayInitInv,
     KnownInitInv, OperationsInitInv DEF ConnectorInv

LEMMA ConnectorNext ==
    ASSUME ConnectorInv, [Next]_vars
    PROVE  ConnectorInv'
BY StepsOfParts, AccountNext, ChannelNext, StreamNext, ValueNext, ConfigNext, ReplayNext, KnownNext, OperationsNextInv DEF ConnectorInv

\* Whatever the parts do, each keeps its invariant.
THEOREM ConnectorInvariant == Spec => []ConnectorInv
<1>1. Init => ConnectorInv
  BY ConnectorInitInv
<1>2. ConnectorInv /\ [Next]_vars => ConnectorInv'
  BY ConnectorNext
<1> QED
  BY <1>1, <1>2, PTL DEF Spec

\* No index answers other than its tables and no cache other than the backend,
\* save for the named causes.
THEOREM CachesCorrect == Spec => []CachesMatchBackend
<1>1. ConnectorInv => CachesMatchBackend
  BY AccountResult, ChannelResult DEF ConnectorInv, CachesMatchBackend
<1> QED
  BY <1>1, ConnectorInvariant, PTL

\* Prices, probability, fee and pointer are known as they are on chain, save for
\* the named causes.
THEOREM ValuesCorrect == Spec => []ValuesAreKnown
<1>1. ConnectorInv => ValuesAreKnown
  BY ValueResult, ConfigResult DEF ConnectorInv, ValuesAreKnown
<1> QED
  BY <1>1, ConnectorInvariant, PTL

\* No registration is suppressed or delivered against the registry's rules,
\* however the read, the subscription and the writes interleave.
THEOREM SuppressionCorrect == Spec => []SuppressionIsExact
<1>1. ConnectorInv => SuppressionIsExact
  BY DEF ConnectorInv, ReplayInv, SuppressionIsExact
<1> QED
  BY <1>1, ConnectorInvariant, PTL

\* The node is set up once, waits end with what they wait for, and queries of the
\* registry answer what was asked, for any callers and registrations.
THEOREM OperationsCorrect == Spec => []OperationsAreSound
<1>1. ConnectorInv => OperationsAreSound
  BY OperationsResult DEF ConnectorInv
<1> QED
  BY <1>1, ConnectorInvariant, PTL

\* A consumer of events that has caught up knows the accounts, the channels and
\* the registry as they are, save for the named causes, for any capacity of the
\* stream and any interleaving with listing, reading and subscribing.
THEOREM ConsumersCorrect == Spec => []ConsumersAreUpToDate
<1>1. ConnectorInv => ConsumersAreUpToDate
  BY StreamResult, KnownResult DEF ConnectorInv, ConsumersAreUpToDate
<1> QED
  BY <1>1, ConnectorInvariant, PTL
=============================================================================
