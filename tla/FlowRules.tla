------------------------------- MODULE FlowRules -------------------------------
(***************************************************************************)
(* What the two engines without a ConnectionTracker share, written out     *)
(* once in src/main_working.cpp and once in src/dpi_mt.cpp: a flow entry   *)
(* per five-tuple (not per conversation, each direction has its own) and   *)
(* blocking rules that are all set before the first packet.                *)
(***************************************************************************)
EXTENDS FiveTuple

CONSTANTS Names,            \* names that TLS hellos and HTTP requests carry
          NoName,           \* the empty string
          AppTypes,         \* enum AppType
          sniToAppType(_),
          contains(_, _),   \* contains(name, d): std::string::find succeeds
          RuleSets          \* the rules the command line may ask for

ASSUME FlowAssumption ==
  /\ NoName \notin Names
  /\ {"UNKNOWN", "HTTP", "HTTPS", "DNS"} \subseteq AppTypes
  /\ \A name \in Names : sniToAppType(name) \in AppTypes \ {"UNKNOWN"}
  /\ sniToAppType(NoName) = "UNKNOWN"

\* What an engine looks at in a packet.  kind tells which extractor succeeds on
\* the payload, name what it returns; an extractor can return the empty string.
Packet == [tuple : Tuples, kind : {"tls", "http", "other"}, name : Names \cup {NoName}]

NewFlow ==
  [packets |-> 0, app_type |-> "UNKNOWN", sni |-> NoName,
   blocked |-> FALSE, classified |-> FALSE]

isBlocked(rules, src_ip, app, sni) ==
  \/ src_ip \in rules.ips
  \/ app \in rules.apps
  \/ \E d \in rules.domains : contains(sni, d)

\* The rules are asked until they match once.
Judged(rules, flow, p) ==
  [flow EXCEPT !.blocked = @ \/ isBlocked(rules, p.tuple.src_ip, flow.app_type, flow.sni)]

\* unordered_map::operator[], then assignment through the reference.
Entry(flows, t) == IF t \in DOMAIN flows THEN flows[t] ELSE NewFlow

\* Mutant: the assignment goes to a copy of the entry.
CopyOfEntry(flows, t, flow) == [x \in DOMAIN flows \cup {t} |-> Entry(flows, x)]

WithEntry(flows, t, flow) ==
  [x \in DOMAIN flows \cup {t} |-> IF x = t THEN flow ELSE flows[x]]
=================================================================================
