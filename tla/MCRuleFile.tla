------------------------------- MODULE MCRuleFile -------------------------------
(* Instances of RuleFile for TLC. *)
EXTENDS RuleFile

\* 10.0.0.127, as it is in memory.
MCIPs == {2130706442}
MCDomains == {"mail", "[::1]", ""}
MCPatterns == {"*.a", "*.b"}
MCLabels(name) == <<name>>

MCStarred(name) == name \in {"*.a", "*.b", "*."}
\* "HTTPS" is the one application whose name begins with that of another.
MCPieces(name) ==
  CASE name = "mail"  -> {"ma"}
    [] name = "[::1]" -> {"[:"}
    [] name = ""      -> {}
    [] name = "HTTPS" -> {"HTTP", "HT"}
    [] OTHER          -> {"*."}

MCOrders == {<<>>, <<"*.b">>, <<"*.a", "*.b">>, <<"*.b", "*.a">>, <<"*.b", "*.b">>}

\* A rule of each of the other kinds or none, with any names, and with patterns in
\* both orders and twice.
MCInitially ==
  [ips : {{}}, apps : {{}}, ports : {{}}, domains : SUBSET MCDomains, patterns : MCOrders]
    \cup [ips : {MCIPs}, apps : {{"HTTPS"}}, ports : {{80}}, domains : SUBSET MCDomains,
          patterns : MCOrders]
=================================================================================
