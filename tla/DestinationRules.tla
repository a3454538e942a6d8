--------------------------- MODULE DestinationRules ---------------------------
(***************************************************************************)
(* Which destinations the layers of the client let through: the navigation *)
(* policy of the browser capsule (policy.rs), the CONNECT parser of the    *)
(* bridge, and the destination policy and SOCKS5 codec that bridge and     *)
(* base share.                                                             *)
(*                                                                         *)
(* A name is a sequence of tokens: dots are tokens, and tokens that stand  *)
(* side by side are one label, so that <<"my", "corp">> is the label       *)
(* mycorp.  A rule with the token "*" in front is a wildcard.              *)
(***************************************************************************)
EXTENDS Naturals, Sequences, SequencesExt

IPv4 == <<"10", ".", "1">>
IPv6 == <<"::1">>
IsIp(name) == name \in {IPv4, IPv6}

\* A URL as the policy takes it apart.
UrlRecord ==
  [text : STRING, scheme : STRING, userinfo : BOOLEAN, bracket : {"none", "closed", "open"},
   host : Seq(STRING), port : Nat, traversal : BOOLEAN]

\* Numbers that are no port, for a text without one and with none that parses.
NoPort == 65536
BadPort == 65537

---------------------------------------------------------------------------
(* policy.rs: the navigation policy and the URLs it produces.              *)

LowerCase(name) == [i \in DOMAIN name |-> IF name[i] = "Corp" THEN "corp" ELSE name[i]]

IsWildcard(rule) == Len(rule) >= 2 /\ rule[1] = "*" /\ rule[2] = "."
SuffixOf(rule) == SubSeq(rule, 3, Len(rule))

\* The suffix is taken as it is written, and needs no dot in front of it.
NavigationAdmits(rules, host) ==
  \/ rules = {}
  \/ \E rule \in rules :
       IF IsWildcard(rule)
       THEN IsSuffix(SuffixOf(rule), LowerCase(host)) /\ Len(host) > Len(SuffixOf(rule))
       ELSE LowerCase(host) = LowerCase(rule)

\* text says what is wrong with the URL before its parts are looked at; an
\* address with colons is one only in brackets.
UrlAllowed(rules, url) ==
  /\ url.text = "fine"
  /\ url.scheme \in {"https", "webgate"}
  /\ ~url.userinfo
  /\ url.bracket = "none" => url.host # IPv6
  /\ url.bracket \in {"none", "closed"}
  /\ url.port # BadPort
  /\ url.host # <<>>
  /\ ~url.traversal
  /\ NavigationAdmits(rules, url.host)

ValidatedUrl(url) == [url EXCEPT !.host = LowerCase(url.host), !.bracket = "none"]

---------------------------------------------------------------------------
(* socks5_proto.rs: the destination policy.                                *)

RuleIsValid(rule) ==
  /\ rule # <<>>
  /\ IF IsWildcard(rule)
     THEN SuffixOf(rule) # <<>> /\ ~Contains(SuffixOf(rule), "*")
     ELSE ~Contains(rule, "*")
  /\ ~Contains(rule, " ")

PolicyIsValid(rules, ports) ==
  /\ rules # {} /\ ports # {}
  /\ 0 \notin ports
  /\ \A rule \in rules : RuleIsValid(rule)

\* Names without trailing dots; none is a name with a label that is empty, too
\* long, or made of anything but letters, digits and inner hyphens.
NoName == <<"invalid">>

WithoutTrailingDots(name) ==
  SubSeq(name, 1, Min({i \in 0..Len(name) : \A j \in (i + 1)..Len(name) : name[j] = "."}))

NormalizeTargetDomain(name) ==
  LET plain == LowerCase(WithoutTrailingDots(name)) IN
  IF \/ plain = <<>>
     \/ \E i \in DOMAIN plain : plain[i] \in {"*", " ", "-", "::1", "long"}
     \/ plain[1] = "."
     \/ \E i \in 2..Len(plain) : plain[i] = "." /\ plain[i - 1] = "."
  THEN NoName ELSE plain

Domain(name) == [kind |-> "domain", name |-> name]
Ip(address) == [kind |-> "ip", name |-> address]

\* Mutant of WildcardCovers: the dot in front of the suffix is not asked for.
CoversAnyEnding(rule, host) ==
  ~IsIp(host) /\ Len(host) > Len(SuffixOf(rule)) /\ IsSuffix(SuffixOf(rule), host)

WildcardCovers(rule, host) ==
  LET suffix == SuffixOf(rule) IN
  /\ ~IsIp(host)
  /\ Len(host) > Len(suffix) + 1
  /\ IsSuffix(suffix, host)
  /\ host[Len(host) - Len(suffix)] = "."

Allows(rules, ports, target, port) ==
  LET host == IF target.kind = "ip" THEN target.name ELSE NormalizeTargetDomain(target.name) IN
  /\ port \in ports
  /\ host # NoName
  /\ \E rule \in {LowerCase(r) : r \in rules} :
       \/ host = rule
       \/ target.kind = "domain" /\ IsWildcard(rule) /\ WildcardCovers(rule, host)

---------------------------------------------------------------------------
(* The bridge reads host and port from the CONNECT line, tells the base    *)
(* over SOCKS5, and the base reads them back.                              *)

AuthorityIsValid(authority) ==
  /\ authority.text = "fine"
  /\ authority.host # <<>>
  /\ authority.bracket \in {"none", "closed"}
  /\ authority.bracket = "none" => authority.host # IPv6
  /\ authority.port \notin {NoPort, BadPort, 0}
  /\ IsIp(authority.host) \/ NormalizeTargetDomain(authority.host) # NoName

ParseAuthority(authority) ==
  IF IsIp(authority.host) THEN Ip(authority.host)
  ELSE Domain(NormalizeTargetDomain(authority.host))

\* The address type octet and what follows it.
WriteTarget(target) ==
  IF target.kind = "domain" THEN <<3, NormalizeTargetDomain(target.name)>>
  ELSE <<IF target.name = IPv4 THEN 1 ELSE 4, target.name>>

ReadTarget(wire) == IF wire[1] = 3 THEN Domain(wire[2]) ELSE Ip(wire[2])

---------------------------------------------------------------------------
(* Reference: labels, and the set of names a list of rules stands for.     *)

Labels(name) ==
  FoldLeft(LAMBDA done, token :
             IF token = "." THEN Append(done, <<>>)
             ELSE [done EXCEPT ![Len(done)] = Append(@, token)],
           << <<>> >>, name)

Configured(rules, host) ==
  \E rule \in {LowerCase(r) : r \in rules} :
    \/ host = rule
    \/ /\ IsWildcard(rule) /\ ~IsIp(host)
       /\ Len(Labels(host)) > Len(Labels(SuffixOf(rule)))
       /\ IsSuffix(Labels(SuffixOf(rule)), Labels(host))
=============================================================================
