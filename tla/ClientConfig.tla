------------------------------ MODULE ClientConfig ------------------------------
(***************************************************************************)
(* The client profile (config.rs): what a line of a profile's text sets,   *)
(* and when a profile is accepted.  A text is a sequence of lines, a line  *)
(* a record [key, value]; what is read but never looked at again (names,   *)
(* version, labels, metadata) is left out.                                 *)
(***************************************************************************)
EXTENDS DestinationRules

Relay(address, port) == [address |-> address, port |-> port]

\* The three default destinations pass the same checks; one stands for them.
DefaultProfile ==
  [id |-> "default-fleet",
   primary |-> Relay("127.0.0.1", 43111),
   fallback |-> <<Relay("127.0.0.1", 43112)>>,
   destinations |-> <<[id |-> "docs", name |-> "docs", scheme |-> "webgate"]>>,
   domains |-> {<<"service">>, <<"docs", ".", "internal">>}]

RelayIsValid(relay) == relay.address # "" /\ relay.port # 0

ProfileIsValid(profile) ==
  /\ profile.id # ""
  /\ RelayIsValid(profile.primary)
  /\ \A i \in DOMAIN profile.fallback : RelayIsValid(profile.fallback[i])
  /\ profile.destinations # <<>>
  /\ profile.domains # {}
  /\ \A i \in DOMAIN profile.destinations :
       LET d == profile.destinations[i] IN
       d.id # "" /\ d.name # "" /\ d.scheme \in {"webgate", "https"}

\* A fallback's lines set the fallback of the default profile.
SetFallback(profile, relay) == [profile EXCEPT !.fallback = <<relay>>]

\* What a line does to the text read so far: [ok, profile, destinations, domains].
ReadLine(read, line) ==
  LET fallback == read.profile.fallback[1] IN
  CASE ~read.ok -> read
    [] line.key = "profile_id" -> [read EXCEPT !.profile.id = line.value]
    [] line.key = "primary_relay_addr" -> [read EXCEPT !.profile.primary.address = line.value]
    [] line.key = "fallback_relay_addr" ->
         [read EXCEPT !.profile = SetFallback(@, [fallback EXCEPT !.address = line.value])]
    [] line.key \in {"primary_relay_port", "fallback_relay_port"} /\ line.value = BadPort ->
         [read EXCEPT !.ok = FALSE]
    [] line.key = "primary_relay_port" -> [read EXCEPT !.profile.primary.port = line.value]
    [] line.key = "fallback_relay_port" ->
         [read EXCEPT !.profile = SetFallback(@, [fallback EXCEPT !.port = line.value])]
    [] line.key = "allowed_domains" ->
         [read EXCEPT !.domains = IF line.value # {} THEN line.value ELSE @]
    [] line.key = "destination" -> [read EXCEPT !.destinations = Append(@, line.value)]
    [] line.key = "broken" -> [read EXCEPT !.ok = FALSE]
    [] OTHER -> read

\* Destinations and domains replace the default ones only when there are some.
Assembled(read) ==
  [read.profile EXCEPT
    !.destinations = IF read.destinations # <<>> THEN read.destinations ELSE @,
    !.domains = IF read.domains # {} THEN read.domains ELSE @]

ReadText(lines) ==
  FoldLeft(ReadLine, [ok |-> TRUE, profile |-> DefaultProfile,
                      destinations |-> <<>>, domains |-> {}], lines)

\* For a mutant of BindConfig: the profile is not validated.
TextIsReadable(lines) == lines # <<>> /\ ReadText(lines).ok

TextIsAccepted(lines) ==
  lines # <<>> /\ ReadText(lines).ok /\ ProfileIsValid(Assembled(ReadText(lines)))

FromText(lines) == Assembled(ReadText(lines))
=================================================================================
