------------------------------ MODULE Forwarder ------------------------------
(***************************************************************************)
(* The session server of an exit node: it admits a session on the terms of *)
(* a rule, and then forwards it to a TCP or UDP target the allow list lets *)
(* through, or to the loopback service.                                    *)
(*                                                                         *)
(* One session is followed; what a name resolves to may change between any *)
(* two of its steps.  A socket address is a pair of an IP and a port.      *)
(***************************************************************************)
EXTENDS TargetPattern

CONSTANTS Configs,        \* configurations as written: use_list, list, rules
          Targets,        \* what a peer may ask for; opens: whether it unseals
          Hosts,          \* names there are, in lower case and without root dot
          SERVICE_ID_LOOPBACK,
          MaxRetries,     \* max_tcp_target_retries
          MaxDnsChanges,  \* bound on the changes of what names resolve to
          ChannelRoom,    \* what the session takes in before it is read
          Scripts         \* what the entry node sends on a loopback session: "data" and "surb"

Names == Seq([text : STRING, up : BOOLEAN]) \ {<<>>}
IsHost(h) == IF h.kind = "Dns" THEN h = [kind |-> "Dns", name |-> h.name, port |-> h.port] /\ h.name \in Names
             ELSE h = [kind |-> "Ip", ip |-> h.ip, port |-> h.port]
IsRule(rule) ==
    /\ rule = [target |-> rule.target, enforce_pix |-> rule.enforce_pix, min |-> rule.min, max |-> rule.max]
    /\ rule.target.form # "stream" =>
          rule.target = [form |-> "*"] \/ rule.target = [form |-> "service", id |-> rule.target.id]
    /\ rule.target.form = "stream" =>
          /\ rule.target = StreamPattern(rule.target.protocol, rule.target.host, rule.target.port)
          /\ rule.target.host \in Names

ASSUME ForwarderAssumption ==
    /\ MaxRetries \in Nat \ {0} /\ ChannelRoom \in Nat \ {0} /\ Scripts \subseteq Seq({"data", "surb"})
    /\ \A t \in Targets : t # Invalid /\ (t.form = "service" \/ (t.form = "stream" /\ IsHost(t.host)))
    /\ \A c \in Configs : /\ \A h \in c.list : IsHost(h)
                          /\ c.rules \in Seq(ToSet(c.rules)) /\ \A i \in DOMAIN c.rules : IsRule(c.rules[i])

VARIABLES cfg, dns, changes, target, stage, terms,
          resolved,   \* the addresses the target was resolved to
          pending,    \* listed names still being looked up
          by_name,    \* addresses listed names were found to lead to
          tries,
          contacted,  \* addresses a connection was attempted to
          loop        \* the loopback session

forwarderVars == <<cfg, dns, changes, target, stage, terms, resolved, pending, by_name, tries, contacted, loop>>
requestVars == <<cfg, dns, changes, target, terms>>

Idle == [script |-> <<>>, wire |-> <<>>, forward |-> 0, pipe |-> 0, surbs |-> 0, echoed |-> 0,
         reader |-> "idle", writer |-> "idle"]

ForwarderInit ==
    /\ cfg \in {c \in Configs : Valid(c)} /\ target \in Targets
    /\ dns \in [Hosts -> SUBSET Ips] /\ changes = 0 /\ stage = "asked" /\ terms = NodesOwnTerms
    /\ resolved = {} /\ pending = {} /\ by_name = {} /\ tries = 0 /\ contacted = {} /\ loop = Idle

\* External: what a resolver answers for a host, {} when it fails.
Lookup(host) ==
    IF host.kind = "Ip" THEN {<<host.ip, host.port>>}
    ELSE LET name == Lower(WithoutRootDot(host.name))
         IN  IF name \in Hosts THEN {<<ip, host.port>> : ip \in dns[name]} ELSE {}

\* External: a name leads elsewhere.
DnsChanges(name) ==
    /\ changes < MaxDnsChanges /\ changes' = changes + 1
    /\ \E ips \in SUBSET Ips \ {dns[name]} : dns' = [dns EXCEPT ![name] = ips]
    /\ UNCHANGED <<cfg, target, stage, terms, resolved, pending, by_name, tries, contacted, loop>>

--------------------------------------------------------------------------------
(* Admission *)

Admit ==
    /\ stage = "asked"
    /\ \/ cfg.rules = <<>> /\ stage' = "admitted" /\ UNCHANGED terms
       \/ cfg.rules # <<>> /\ Unsealed(target) = Invalid /\ stage' = "refused" /\ UNCHANGED terms
       \/ cfg.rules # <<>> /\ Unsealed(target) # Invalid /\ stage' = "admitted"
          /\ terms' = Terms(Rules(cfg.rules), Unsealed(target))
    /\ UNCHANGED <<cfg, dns, changes, target, resolved, pending, by_name, tries, contacted, loop>>
--------------------------------------------------------------------------------
(* The allow list *)

\* The name itself is listed, on the same port: where it leads is the operator's.
ListedByName(host) ==
    host.kind = "Dns" /\ \E h \in cfg.list :
        h.kind = "Dns" /\ h.port = host.port /\ EqIgnoreCase(WithoutRootDot(h.name), WithoutRootDot(host.name))

IsListed(addr) == \E h \in cfg.list : h.kind = "Ip" /\ <<h.ip, h.port>> = addr

\* Listed names that could account for an address, by their port.
NamesToResolve(addrs) == {h \in cfg.list : h.kind = "Dns" /\ \E a \in addrs : a[2] = h.port}
--------------------------------------------------------------------------------
(* Forwarding *)

Fails == stage' = "failed" /\ UNCHANGED <<resolved, pending, by_name, tries, contacted, loop>>

\* A UDP session takes the first address only.
ResolveTarget ==
    /\ stage = "admitted" /\ target.form = "stream"
    /\ IF Unsealed(target) = Invalid \/ Lookup(target.host) = {} THEN Fails
       ELSE /\ \/ target.protocol = "tcp" /\ resolved' = Lookup(target.host)
               \/ target.protocol = "udp" /\ \E a \in Lookup(target.host) : resolved' = {a}
            /\ stage' = "resolved" /\ UNCHANGED <<pending, by_name, tries, contacted, loop>>
    /\ UNCHANGED requestVars

\* What the list settles without looking anything up.
CheckList ==
    /\ stage = "resolved"
    /\ \/ /\ ~cfg.use_list \/ ListedByName(target.host) \/ \A a \in resolved : IsListed(a)
          /\ stage' = "connecting" /\ UNCHANGED pending
       \/ /\ cfg.use_list /\ ~ListedByName(target.host) /\ \E a \in resolved : ~IsListed(a)
          /\ stage' = "looking" /\ pending' = NamesToResolve(resolved)
    /\ UNCHANGED <<requestVars, resolved, by_name, tries, contacted, loop>>

\* One of the concurrent lookups is answered; a name that fails adds nothing.
LookedUp(h) ==
    /\ stage = "looking" /\ h \in pending
    /\ pending' = pending \ {h} /\ by_name' = by_name \cup Lookup(h)
    /\ UNCHANGED <<requestVars, stage, resolved, tries, contacted, loop>>

\* Every address has to be listed.
Decide ==
    /\ stage = "looking" /\ pending = {}
    /\ stage' = IF \A a \in resolved : IsListed(a) \/ a \in by_name THEN "connecting" ELSE "denied"
    /\ UNCHANGED <<requestVars, resolved, pending, by_name, tries, contacted, loop>>

\* Mutant: a retry resolves the target again.
ResolvedAgain == Lookup(target.host)

\* What a connection is attempted to.
ConnectTo == resolved

\* TcpStream::connect tries the addresses in turn; UDP binds to its only one.
ConnectionSucceeds ==
    /\ stage = "connecting"
    /\ \E tried \in SUBSET ConnectTo \ {{}} : contacted' = contacted \cup tried
    /\ stage' = "bridged"
    /\ UNCHANGED <<requestVars, resolved, pending, by_name, tries, loop>>

ConnectionFails ==
    /\ stage = "connecting" /\ contacted' = contacted \cup ConnectTo
    /\ IF target.protocol = "tcp" /\ tries < MaxRetries THEN tries' = tries + 1 /\ UNCHANGED stage
       ELSE stage' = "failed" /\ UNCHANGED tries
    /\ UNCHANGED <<requestVars, resolved, pending, by_name, loop>>
--------------------------------------------------------------------------------
(* The loopback service *)

Service ==
    /\ stage = "admitted" /\ target.form = "service"
    /\ \/ target.id # SERVICE_ID_LOOPBACK /\ Fails
       \/ /\ target.id = SERVICE_ID_LOOPBACK /\ stage' = "loopback"
          /\ \E script \in Scripts :
                loop' = [Idle EXCEPT !.script = script, !.wire = script, !.reader = "running", !.writer = "running"]
          /\ UNCHANGED <<resolved, pending, by_name, tries, contacted>>
    /\ UNCHANGED requestVars

Looping(new) ==
    /\ stage = "loopback" /\ loop' = new
    /\ UNCHANGED <<requestVars, stage, resolved, pending, by_name, tries, contacted>>

\* External: the entry node's packets arrive in order; data waits for room in
\* the session, and SURBs wait behind it.
Arrives ==
    /\ loop.wire # <<>> /\ (Head(loop.wire) = "data" => loop.forward < ChannelRoom)
    /\ Looping([loop EXCEPT !.wire = Tail(@),
                            !.forward = IF Head(loop.wire) = "data" THEN @ + 1 ELSE @,
                            !.surbs = IF Head(loop.wire) = "surb" THEN @ + 1 ELSE @])

\* Mutant: a bounded pipe.
PipeTakesOne == loop.pipe < 1

\* The pipe between reader and writer is unbounded.
PipeTakes == TRUE

\* The reader passes on what it reads, and notices only then that the writer is gone.
Reads ==
    /\ loop.reader = "running" /\ loop.forward > 0 /\ (loop.writer = "running" => PipeTakes)
    /\ Looping(IF loop.writer = "running" THEN [loop EXCEPT !.forward = @ - 1, !.pipe = @ + 1]
               ELSE [loop EXCEPT !.forward = @ - 1, !.reader = "ended"])

\* The entry node closes the session: the reader sees the end of it.
ReadsEnd ==
    /\ loop.reader = "running" /\ loop.forward = 0 /\ loop.wire = <<>>
    /\ Looping([loop EXCEPT !.reader = "ended"])

\* A read returns an error: the reader ends, whatever is still to come.
ReadFails ==
    /\ loop.reader = "running"
    /\ Looping([loop EXCEPT !.reader = "failed"])

\* A reply leaves the node on a SURB.
Writes ==
    /\ loop.writer = "running" /\ loop.pipe > 0 /\ loop.surbs > 0
    /\ Looping([loop EXCEPT !.pipe = @ - 1, !.surbs = @ - 1, !.echoed = @ + 1])

\* A write returns an error: the writer ends, and what the pipe holds is dropped.
WriteFails ==
    /\ loop.writer = "running" /\ loop.pipe > 0
    /\ Looping([loop EXCEPT !.writer = "failed"])

\* It has to, in a session that brings no more SURBs.
WriteIsRefused ==
    /\ loop.writer = "running" /\ loop.pipe > 0 /\ loop.surbs = 0 /\ loop.wire = <<>>
    /\ Looping([loop EXCEPT !.writer = "refused"])

\* Mutant: the writer ends with the reader, whatever the pipe still holds.
EndsWithReader ==
    /\ loop.writer = "running" /\ loop.reader # "running"
    /\ Looping([loop EXCEPT !.writer = "ended"])

\* The pipe is drained and its reader gone.
WriterEnds ==
    /\ loop.writer = "running" /\ loop.pipe = 0 /\ loop.reader # "running"
    /\ Looping([loop EXCEPT !.writer = "ended"])

\* process() returns once both tasks have.
LoopbackEnds ==
    /\ stage = "loopback" /\ loop.reader # "running" /\ loop.writer # "running"
    /\ stage' = "ended"
    /\ UNCHANGED <<requestVars, resolved, pending, by_name, tries, contacted, loop>>

LoopbackStep == Arrives \/ Reads \/ ReadsEnd \/ Writes \/ WriteIsRefused \/ WriterEnds \/ LoopbackEnds
\* What may happen to the session at any time, and what nobody may wait for.
LoopbackError == ReadFails \/ WriteFails
SessionStep == Admit \/ ResolveTarget \/ CheckList \/ Decide \/ Service \/ \E h \in pending : LookedUp(h)

ForwarderNext ==
    \/ SessionStep \/ ConnectionSucceeds \/ ConnectionFails \/ LoopbackStep \/ LoopbackError
    \/ \E name \in Hosts : DnsChanges(name)
--------------------------------------------------------------------------------
(* Properties *)

\* Names are the same host whatever their case and with or without the root dot.
SameHost(a, b) ==
    a = b \/ /\ a.kind = "Dns" /\ b.kind = "Dns" /\ a.port = b.port
             /\ LET bare(n) == Lower(IF Last(n).text = NoText THEN Front(n) ELSE n) IN bare(a.name) = bare(b.name)

CoveredByList(addr) ==
    \/ ~cfg.use_list
    \/ \E h \in cfg.list : SameHost(h, target.host) \/ (h.kind = "Ip" /\ <<h.ip, h.port>> = addr)
    \/ addr \in by_name

\* A connection is only ever attempted to an address the allow list covers: by the
\* target's name, literally, or through a listed name as it resolved during this
\* session, whatever the target's name leads to by then.  And the list refuses a
\* session only because of an address it does not cover.
OnlyAllowedTargetsAreReached ==
    /\ \A a \in contacted : CoveredByList(a)
    /\ stage = "denied" => \E a \in resolved : ~CoveredByList(a)

\* A rule as it is after the configuration was written back and read again.
Reloaded(rule) == IF rule.target = Invalid THEN rule ELSE [rule EXCEPT !.target = Parse(Display(@))]

\* A name written with a root dot may read as an address without it, and one
\* written with two loses the second when it is read again.
ReadsDifferently(rule) ==
    /\ rule.target.form = "stream"
    /\ \/ rule.target.host.kind = "Name" /\ rule.target.host.name \in Ips
       \/ rule.target.host.kind \in {"Name", "Subdomain"} /\ Last(rule.target.host.name).text = NoText

\* The terms a session is admitted on are those of every other spelling of its
\* target, and of the same rules after they were saved and loaded, other than
\* rules whose name reads as something else then.
TermsIgnoreSpelling ==
    stage = "admitted" /\ target.opens =>
        LET rules == Rules(cfg.rules)
        IN  /\ \A t \in Targets :
                    t.opens /\ (t = target \/ (t.form = "stream" /\ target.form = "stream"
                                    /\ t.protocol = target.protocol /\ SameHost(t.host, target.host)))
                        => Terms(rules, t) = terms
            /\ (\A i \in DOMAIN rules : ~ReadsDifferently(rules[i]))
                    => Terms([i \in DOMAIN rules |-> Reloaded(rules[i])], target) = terms

\* The loopback service never waits for an error to get on, however far the SURBs
\* stay behind the data, and as every step of it brings it closer to its end it does
\* end; unless a read failed: then nobody makes room for the SURBs behind the data.
LoopbackNeverStuck ==
    stage = "loopback" => ENABLED LoopbackStep \/ (loop.reader = "failed" /\ loop.forward = ChannelRoom)

Count(script, kind) == Cardinality({i \in DOMAIN script : script[i] = kind})

\* If the entry node sends a SURB for everything it sends, in whatever order, all that
\* was read has been echoed when the loopback service ends, and that is all there was
\* unless a read failed; only a failed write loses any of it.
LoopbackEchoesAll ==
    stage = "ended" /\ Count(loop.script, "data") <= Count(loop.script, "surb")
        => \/ loop.writer = "failed"
           \/ /\ loop.pipe = 0
              /\ loop.reader = "ended" => loop.echoed = Count(loop.script, "data")
=============================================================================
