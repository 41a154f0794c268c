---------------------------- MODULE TargetPattern ----------------------------
(***************************************************************************)
(* Names, patterns and rules of the session exit: how a host is written in *)
(* the configuration, what it is read as, which targets it selects, and    *)
(* what an entry of the allow list has to look like.                       *)
(*                                                                         *)
(* A name is the sequence of its labels, split at the dots; a label is a   *)
(* text and whether it is written in capitals.  "a.b." ends in an empty    *)
(* label, the root dot, and the empty name is a single empty label.        *)
(***************************************************************************)
EXTENDS Integers, Sequences, FiniteSets, SequencesExt

CONSTANTS Ips,        \* addresses: the sequences of labels that parse as one
          Blocks,     \* Blocks[text]: the addresses of a network written so
          Numeric,    \* texts of digits only
          NotDns,     \* texts with a character no name has
          PortNumbers,
          Wild,       \* "*" for a port or a service
          Invalid,    \* what does not parse
          Unset,      \* an absent term
          MAX_QUOTA   \* u64::MAX

\* A block is written with a slash, which no name has.
ASSUME PatternAssumption == "*" \in NotDns \ DOMAIN Blocks /\ DOMAIN Blocks \subseteq NotDns

NoText == ""
Label(text) == [text |-> text, up |-> FALSE]
Star == Label("*")
NoName == <<Label(NoText)>>

\* Mutant: the root dot is part of the name.
WithRootDot(name) == name

WithoutRootDot(name) == IF Len(name) > 1 /\ Last(name).text = NoText THEN Front(name) ELSE name

Lower(name) == [i \in DOMAIN name |-> Label(name[i].text)]
EqIgnoreCase(a, b) == Lower(a) = Lower(b)

IsDnsCharset(name) == \A i \in DOMAIN name : name[i].text \notin NotDns

\* The form a pattern keeps a name in.
DnsName(written) ==
    LET name == WithoutRootDot(written)
    IN  IF name = NoName \/ ~IsDnsCharset(name) THEN Invalid ELSE Lower(name)

\* Whether the allow list may hold a name.
DnsEntryProblem(written) ==
    LET name == WithoutRootDot(written)
    IN  \/ name = NoName \/ ~IsDnsCharset(name)
        \/ \E i \in DOMAIN name : name[i].text = NoText
        \/ Last(name).text \in Numeric
--------------------------------------------------------------------------------
(* Patterns *)

Named(kind, name) == IF name = Invalid THEN Invalid ELSE [kind |-> kind, name |-> name]

\* The host of a pattern.  Brackets around an address are a matter of spelling.
ParseHost(written) ==
    IF written = <<Star>> THEN [kind |-> "Any"]
    ELSE IF written[1] = Star THEN Named("Subdomain", DnsName(Tail(written)))
    ELSE IF Len(written) = 1 /\ written[1].text \in DOMAIN Blocks THEN [kind |-> "Network", net |-> written[1].text]
    ELSE IF written \in Ips THEN [kind |-> "Address", ip |-> written]
    ELSE Named("Name", DnsName(written))

\* Of a transport or any, a host, and a port or any.
StreamPattern(protocol, host, port) ==
    [form |-> "stream", protocol |-> protocol, host |-> host, port |-> port]

DisplayHost(host) ==
    CASE host.kind = "Any"       -> <<Star>>
      [] host.kind = "Subdomain" -> <<Star>> \o host.name
      [] host.kind = "Network"   -> <<Label(host.net)>>
      [] host.kind = "Address"   -> host.ip
      [] host.kind = "Name"      -> host.name

\* FromStr: "*", "service:<id>" or "<protocol>:<host>:<port>".
Parse(written) ==
    IF written.form # "stream" THEN written
    ELSE LET host == ParseHost(written.host)
         IN  IF \/ written.protocol \notin {"*", "tcp", "udp"} \/ written.port \notin PortNumbers \cup {Wild}
                \/ host = Invalid
             THEN Invalid ELSE StreamPattern(written.protocol, host, written.port)

Display(pattern) ==
    IF pattern.form # "stream" THEN pattern ELSE [pattern EXCEPT !.host = DisplayHost(@)]

\* UnsealedTarget::new: a service is not sealed, a host may be for another node.
Unsealed(target) == IF target.form = "stream" /\ ~target.opens THEN Invalid ELSE target

HostMatches(pattern, host) ==
    CASE pattern.kind = "Any"       -> TRUE
      [] pattern.kind = "Name"      -> host.kind = "Dns" /\ EqIgnoreCase(pattern.name, WithoutRootDot(host.name))
      [] pattern.kind = "Subdomain" ->
            host.kind = "Dns"
                /\ LET name == WithoutRootDot(host.name)  split == Len(name) - Len(pattern.name)
                   IN  split >= 1 /\ EqIgnoreCase(SubSeq(name, split + 1, Len(name)), pattern.name)
      [] pattern.kind = "Address"   -> host.kind = "Ip" /\ host.ip = pattern.ip
      [] pattern.kind = "Network"   -> host.kind = "Ip" /\ host.ip \in Blocks[pattern.net]

Matches(pattern, target) ==
    CASE pattern.form = "*"       -> TRUE
      [] pattern.form = "service" -> target.form = "service" /\ pattern.id \in {Wild, target.id}
      [] pattern.form = "stream"  ->
            /\ target.form = "stream"
            /\ pattern.protocol \in {"*", target.protocol} /\ pattern.port \in {Wild, target.host.port}
            /\ HostMatches(pattern.host, target.host)
--------------------------------------------------------------------------------
(* Rules *)

\* validate_admission_rule_quota.
QuotaCrossed(rule) == rule.min # Unset /\ rule.max # Unset /\ rule.min > rule.max

ParseRule(rule) == [rule EXCEPT !.target = Parse(@)]

\* The rules as loaded.
Rules(written) == [i \in DOMAIN written |-> ParseRule(written[i])]

\* A configuration that loads and validates.
Valid(cfg) ==
    /\ \A i \in DOMAIN cfg.rules : ParseRule(cfg.rules[i]).target # Invalid /\ ~QuotaCrossed(cfg.rules[i])
    /\ \A h \in cfg.list : h.kind = "Dns" => ~DnsEntryProblem(h.name)

NodesOwnTerms == [enforce_pix |-> Unset, quota |-> Unset]

\* admit(): the terms of the first rule that selects the target.  A bound left
\* unset does not narrow that end.
Terms(rules, target) ==
    LET n == SelectInSeq(rules, LAMBDA r : Matches(r.target, target))
        rule == rules[n]
        or(value, default) == IF value = Unset THEN default ELSE value
    IN  IF n = 0 THEN NodesOwnTerms
        ELSE [enforce_pix |-> rule.enforce_pix,
              quota |-> IF rule.min = Unset /\ rule.max = Unset THEN Unset
                        ELSE <<or(rule.min, 0), or(rule.max, MAX_QUOTA)>>]
=============================================================================
