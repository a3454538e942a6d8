---------------------------- MODULE MCClientParts ----------------------------
(* Bounds of the model-checking run of ClientParts. *)
EXTENDS ClientParts

MCNames ==
  {<<"docs", ".", "corp">>, <<"docs", ".", "Corp", ".">>, <<"corp">>, <<"my", "corp">>,
   <<"a", ".", "my", "corp">>, <<"docs", ".", ".", "corp">>, <<".", "corp">>, <<".">>,
   <<"long", ".", "corp">>, <<"*", ".", "corp">>, <<"docs", "-">>, IPv4, IPv4 \o <<".">>, IPv6, <<>>}

MCRuleSets ==
  {{}, {<<"*">>}, {<<"*", ".">>}, {<<"docs", " ", "corp">>},
   {<<"*", ".", "Corp">>}, {<<"docs", ".", "Corp">>, <<"*", ".", "1">>},
   {<<"*", ".", "my", "corp">>, IPv4}, {IPv6, <<"corp">>}}

MCAuthorities ==
  [text : {"fine", "slash"}, bracket : {"none", "closed", "open"}, host : MCNames,
   port : {443, 80, 0, NoPort, BadPort}]

MCUrl == [text |-> "fine", scheme |-> "https", userinfo |-> FALSE, bracket |-> "none",
          host |-> <<"docs", ".", "Corp">>, port |-> NoPort, traversal |-> FALSE]

MCHostUrls ==
  {MCUrl, [MCUrl EXCEPT !.bracket = "closed", !.host = IPv6],
   [MCUrl EXCEPT !.traversal = TRUE], [MCUrl EXCEPT !.scheme = "file"]}

MCTargets ==
  {[MCUrl EXCEPT !.scheme = "webgate", !.host = <<"service">>], MCUrl,
   [MCUrl EXCEPT !.userinfo = TRUE]}

Line(key, value) == [key |-> key, value |-> value]

MCTexts ==
  {<<Line("allowed_domains", {<<"*", ".", "corp">>}), Line("fallback_relay_port", 443)>>,
   <<Line("primary_relay_port", 0)>>,
   <<Line("profile_id", "fleet"), Line("broken", "")>>,
   <<Line("destination", [id |-> "a", name |-> "a", scheme |-> "ftp"]),
     Line("allowed_domains", {})>>}

\* 11 stands for what is no number.
MCVersions ==
  {<<1>>, <<1, 0>>, <<1, 2>>, <<1, 2, 3>>, <<1, 2, 3, 1>>, <<1, 10>>, <<2>>,
   <<1, 11>>, <<1, 11, 3>>, <<11, 2>>}
===============================================================================
