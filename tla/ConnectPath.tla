------------------------------ MODULE ConnectPath ------------------------------
(***************************************************************************)
(* One destination on its way through the two local proxies: a CONNECT     *)
(* request to the bridge, or a SOCKS5 request that a local program sends   *)
(* to the base itself.  Both layers are given the profile's rules.         *)
(***************************************************************************)
EXTENDS DestinationRules

\* What is asked: [text, bracket, host, port] and the rules of the profile.
CONSTANTS RuleSets, Ports, Authorities

\* An authority as the bridge takes it apart.
AuthorityRecord ==
  [text : STRING, bracket : {"none", "closed", "open"}, host : Seq(STRING), port : Nat]

\* Rules and authorities are texts.
ASSUME ConnectAssumption ==
  /\ \A rules \in RuleSets : rules \subseteq Seq(STRING)
  /\ Authorities \subseteq AuthorityRecord

\* connect: [at, rules, authority, target, wire]
VARIABLE connect

NotRead == [kind |-> "unread", name |-> <<>>]

ConnectInit ==
  \E rules \in RuleSets, authority \in Authorities :
    connect = [at |-> "new", rules |-> rules, authority |-> authority,
               target |-> NotRead, wire |-> <<>>]

\* RestrictedSocks5Transport::new and the bridge's: no proxy without valid rules.
LayersAreBuilt ==
  /\ connect.at = "new"
  /\ connect' = [connect EXCEPT !.at = IF PolicyIsValid(connect.rules, Ports)
                                       THEN "proxy" ELSE "offline"]

BridgeParses ==
  /\ connect.at = "proxy"
  /\ connect' =
       IF AuthorityIsValid(connect.authority)
       THEN [connect EXCEPT !.at = "parsed", !.target = ParseAuthority(connect.authority)]
       ELSE [connect EXCEPT !.at = "refused"]

BridgeChecks ==
  /\ connect.at = "parsed"
  /\ connect' =
       IF Allows(connect.rules, Ports, connect.target, connect.authority.port)
       THEN [connect EXCEPT !.at = "admitted", !.wire = WriteTarget(connect.target)]
       ELSE [connect EXCEPT !.at = "refused"]

\* A local program may write any name; an address has its own type.
ProgramAsksBase ==
  /\ connect.at = "proxy"
  /\ connect.authority.port < NoPort /\ connect.authority.host # <<>>
  /\ connect' = [connect EXCEPT
       !.at = "asked",
       !.wire = IF IsIp(connect.authority.host) THEN WriteTarget(Ip(connect.authority.host))
                ELSE <<3, connect.authority.host>>]

\* The base reads the request and checks it, whoever sent it.
BaseChecks ==
  /\ connect.at \in {"admitted", "asked"}
  /\ LET target == ReadTarget(connect.wire) IN
     connect' =
       IF Allows(connect.rules, Ports, target, connect.authority.port)
       THEN [connect EXCEPT !.at = "dialed", !.target = target,
                            !.wire = WriteTarget(target)]
       ELSE [connect EXCEPT !.at = IF @ = "admitted" THEN "contradicted" ELSE "refused"]

ConnectNext ==
  \/ LayersAreBuilt
  \/ BridgeParses
  \/ BridgeChecks
  \/ ProgramAsksBase
  \/ BaseChecks

ConnectSpec == ConnectInit /\ [][ConnectNext]_connect

\* The base never refuses what the bridge let through, after the name was parsed,
\* normalized, encoded and read again; and what reaches the sidecar is a name that
\* the profile's rules stand for, label by label, however it was spelled and
\* whichever way it came.
DialedIsConfigured ==
  /\ connect.at # "contradicted"
  /\ connect.at = "dialed" =>
       /\ Configured(connect.rules, connect.wire[2])
       /\ connect.authority.port \in Ports
===============================================================================
