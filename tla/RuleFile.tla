-------------------------------- MODULE RuleFile --------------------------------
(***************************************************************************)
(* RuleManager::saveRules and loadRules (src/rule_manager.cpp): one thread *)
(* writes the rules to a text file, set by set, each under its own lock,   *)
(* while others go on changing them; later the program is started again    *)
(* and reads the file.  The process may end in the middle of a save: of    *)
(* what has been written any beginning is then on the disk.                *)
(***************************************************************************)
EXTENDS RuleManager, SequencesExt

CONSTANTS Bracketed,    \* names whose first character is '[', none of them a section header
          EmptyName,    \* the name ""
          starred(_),   \* a name has a '*' in it
          pieces(_),    \* what a name or an application can be cut to, not the empty text
          AppNames,     \* the names of all applications
          Initially,    \* the rules earlier calls can have led to
          MaxChanges    \* bound on the changes by other threads, which nothing bounds

\* An address has four bytes, what is cut off a name adds no '*' to it, and the rules at
\* the start are finitely many.
ASSUME RuleFileAssumption ==
  /\ \A ip \in IPs : ip \in Nat /\ ip \div 16777216 < 256
  /\ Ports \subseteq Nat /\ Apps \subseteq AppNames
  /\ \A name \in Domains : ~starred(name) /\ \A piece \in pieces(name) : ~starred(piece)
  /\ \A name \in Patterns : starred(name)
  /\ MaxChanges \in Nat
  /\ Initially \subseteq [ips : SUBSET IPs, apps : SUBSET Apps, ports : SUBSET Ports,
                          domains : SUBSET Domains, patterns : Seq(Patterns)]
  /\ \A r \in Initially : /\ IsFiniteSet(r.ips) /\ IsFiniteSet(r.apps)
                          /\ IsFiniteSet(r.ports) /\ IsFiniteSet(r.domains)
                          /\ Len(r.patterns) <= MaxPatterns

\* A line is [kind, value]: a section header, or a rule of the section it is in.
Values(kind) ==
  CASE kind = "header" -> {"IPS", "APPS", "DOMAINS", "PORTS"}
    [] kind = "ip"     -> Seq(0 .. 255)
    [] kind = "app"    -> UNION {{app} \cup pieces(app) : app \in Apps}
    [] kind = "name"   -> UNION {{name} \cup pieces(name) : name \in Domains \cup Patterns}
    [] kind = "port"   -> Nat

VARIABLES file,         \* the lines written so far
          pc,           \* the set saveRules writes next, or how far a restart has got
          changes       \* changes by other threads; a clearAll counts once

\* History: since saveRules was called, the rules that stood at every moment, those
\* that stood at some moment, and what there was at the call.  quiet: no other
\* thread made a step.  cut: the process ended during the save.  leftover: the rules
\* that have stood since clearAll was called.
VARIABLES stood, ever, atCall, quiet, cut, leftover

saved == <<stood, ever, atCall, quiet, cut>>
history == <<saved, leftover>>
vars == <<ruleVars, file, pc, changes, history>>

\* The rules in force, as one set.
Standing ==
  ({"ip"} \X blocked_ips) \cup ({"app"} \X blocked_apps) \cup ({"domain"} \X blocked_domains)
    \cup ({"pattern"} \X ToSet(domain_patterns)) \cup ({"port"} \X blocked_ports)

\* A cut line can be read as a rule that is none of IPs, Ports, Apps, ...
TypeOK ==
  /\ RulesTypeOK \/ (cut /\ pc = "restored")
  /\ \A k \in 1 .. Len(file) : file[k].value \in Values(file[k].kind)
  /\ pc \in {"idle", "ips", "apps", "domains", "ports", "close", "saved", "restarted", "restored"}
  /\ changes \in 0 .. MaxChanges

Init ==
  /\ \E r \in Initially :
       /\ blocked_ips = r.ips /\ blocked_apps = r.apps /\ blocked_ports = r.ports
       /\ blocked_domains = r.domains /\ domain_patterns = r.patterns
  /\ clearing = "none"
  /\ file = <<>> /\ pc = "idle" /\ changes = 0
  /\ stood = {} /\ ever = {} /\ atCall = rules /\ quiet = TRUE
  /\ cut = FALSE /\ leftover = {}

---------------------------------------------------------------------------------
\* Text.  An address is written as its bytes from the lowest up.
ipToString(ip) ==
  <<ip % 256, (ip \div 256) % 256, (ip \div 65536) % 256, ip \div 16777216>>

parseIP(octets) ==
  octets[1] + octets[2] * 256 + octets[3] * 65536 + octets[4] * 16777216

Header(section) == <<[kind |-> "header", value |-> section]>>
Lines(kind, q) == [k \in 1 .. Len(q) |-> [kind |-> kind, value |-> q[k]]]

\* The unordered sets are written in any order.
IPLines   == {Lines("ip", [k \in DOMAIN q |-> ipToString(q[k])]) : q \in SetToSeqs(blocked_ips)}
AppLines  == {Lines("app", q) : q \in SetToSeqs(blocked_apps)}
PortLines == {Lines("port", q) : q \in SetToSeqs(blocked_ports)}

\* Mutants: the patterns are forgotten; they are kept in a set.
ExactNamesOnly == {Lines("name", q) : q \in SetToSeqs(blocked_domains)}
PatternsAsSet ==
  {Lines("name", q \o r) : q \in SetToSeqs(blocked_domains), r \in SetToSeqs(ToSet(domain_patterns))}

\* getBlockedDomains: the exact names, then the patterns in their order.
DomainLines == {Lines("name", q \o domain_patterns) : q \in SetToSeqs(blocked_domains)}

---------------------------------------------------------------------------------
\* Mutant: the file is opened for appending.
SaveOpenAppends ==
  /\ pc \in {"idle", "saved"}
  /\ pc' = "ips"
  /\ stood' = Standing /\ ever' = Standing /\ atCall' = rules /\ quiet' = TRUE
  /\ UNCHANGED <<ruleVars, file, changes, cut, leftover>>

\* saveRules: the file is truncated ...
SaveOpen ==
  /\ pc \in {"idle", "saved"}
  /\ file' = <<>>
  /\ pc' = "ips"
  /\ stood' = Standing /\ ever' = Standing /\ atCall' = rules /\ quiet' = TRUE
  /\ UNCHANGED <<ruleVars, changes, cut, leftover>>

\* ... and each set is written under its lock.
SaveSection(at, section, bodies, next) ==
  /\ pc = at
  /\ \E body \in bodies : file' = file \o Header(section) \o body
  /\ pc' = next
  /\ UNCHANGED <<ruleVars, changes, history>>

\* Mutant: the ports follow the domains without a header.
SavePortsHeadless ==
  /\ pc = "ports"
  /\ \E body \in PortLines : file' = file \o body
  /\ pc' = "close"
  /\ UNCHANGED <<ruleVars, changes, history>>

SaveIPs     == SaveSection("ips", "IPS", IPLines, "apps")
SaveApps    == SaveSection("apps", "APPS", AppLines, "domains")
SaveDomains == SaveSection("domains", "DOMAINS", DomainLines, "ports")
SavePorts   == SaveSection("ports", "PORTS", PortLines, "close")

SaveClose ==
  /\ pc = "close"
  /\ pc' = "saved"
  /\ UNCHANGED <<ruleVars, file, changes, history>>

\* Another thread changes the rules.
ChangeRules ==
  /\ pc \notin {"restarted", "restored"}
  /\ RuleStep
  /\ changes' = changes + (IF clearing # "none" /\ clearing' # clearing THEN 0 ELSE 1)
  /\ changes' <= MaxChanges
  /\ stood' = stood \cap Standing' /\ ever' = ever \cup Standing'
  /\ leftover' = Standing' \cap (IF clearing = "none" /\ clearing' # "none" THEN Standing ELSE leftover)
  /\ quiet' = FALSE
  /\ UNCHANGED <<file, pc, atCall, cut>>

---------------------------------------------------------------------------------
\* loadRules: the rules and the section after a line.  A line of another section's
\* kind does not occur: every section is written with its header.
AfterLine(r, line) ==
  IF line.kind = "name" /\ line.value = EmptyName THEN r
  ELSE IF line.kind = "header" \/ (line.kind = "name" /\ line.value \in Bracketed)
    THEN [r EXCEPT !.section = line.value]
  ELSE
    CASE r.section = "IPS" /\ line.kind = "ip"    -> [r EXCEPT !.ips = @ \cup {parseIP(line.value)}]
      [] r.section = "APPS" /\ line.kind = "app"  -> [r EXCEPT !.apps = @ \cup ({line.value} \cap AppNames)]
      [] r.section = "PORTS" /\ line.kind = "port" -> [r EXCEPT !.ports = @ \cup {line.value}]
      [] r.section = "DOMAINS" /\ line.kind = "name" /\ ~starred(line.value) ->
           [r EXCEPT !.domains = @ \cup {line.value}]
      [] r.section = "DOMAINS" /\ line.kind = "name" /\ starred(line.value) ->
           [r EXCEPT !.patterns = Append(@, line.value)]
      [] OTHER -> r

\* ... and after each line of a file.
Reading(r, lines) ==
  LET after[n \in 0 .. Len(lines)] == IF n = 0 THEN r ELSE AfterLine(after[n - 1], lines[n])
  IN  after

\* What can be left of a line: the first digits of a number, an address without its
\* last bytes, which then read as 0, part of a name.  A cut header says nothing more.
Digits(n) == {n \div d : d \in {1, 10, 100, 1000, 10000}} \ ({0} \ {n})

Piece(line) ==
  {[kind |-> line.kind, value |-> v] : v \in
     CASE line.kind = "header" -> {}
       [] line.kind = "ip" ->
            UNION {{SubSeq(line.value, 1, k - 1) \o <<d>> \o SubSeq(<<0, 0, 0>>, k, 3) :
                      d \in Digits(line.value[k])} : k \in 1 .. 4}
       [] line.kind = "port" -> Digits(line.value)
       [] OTHER -> pieces(line.value)}

\* The beginnings of a text, by line and within one.
Cuts(lines) ==
  {SubSeq(lines, 1, n) : n \in 0 .. Len(lines)}
    \cup UNION {{Append(SubSeq(lines, 1, n - 1), line) : line \in Piece(lines[n])} :
                  n \in 1 .. Len(lines)}

\* The process ends and is started again with no rules.  During a save the disk has
\* as much of the text as has left the stream's buffer.
Restart ==
  /\ \/ pc = "saved" /\ UNCHANGED <<file, cut>>
     \/ pc \in {"ips", "apps", "domains", "ports", "close"} /\ file' \in Cuts(file) /\ cut' = TRUE
  /\ blocked_ips' = {} /\ blocked_apps' = {} /\ blocked_ports' = {}
  /\ blocked_domains' = {} /\ domain_patterns' = <<>> /\ clearing' = "none"
  /\ pc' = "restarted"
  /\ leftover' = {}
  /\ UNCHANGED <<changes, stood, ever, atCall, quiet>>

\* loadRules adds to the rules there are.  main and initialize call it before any
\* other thread is started.
LoadRules ==
  /\ pc = "restarted"
  /\ LET r == Reading([section |-> "none", ips |-> blocked_ips, apps |-> blocked_apps,
                       domains |-> blocked_domains, patterns |-> domain_patterns,
                       ports |-> blocked_ports], file)[Len(file)]
     IN  /\ blocked_ips' = r.ips /\ blocked_apps' = r.apps /\ blocked_domains' = r.domains
         /\ domain_patterns' = r.patterns /\ blocked_ports' = r.ports
  /\ pc' = "restored"
  /\ UNCHANGED <<clearing, file, changes, history>>

Finished == pc = "restored" /\ UNCHANGED vars

Next ==
  \/ SaveOpen \/ SaveIPs \/ SaveApps \/ SaveDomains \/ SavePorts \/ SaveClose
  \/ ChangeRules
  \/ Restart \/ LoadRules
  \/ Finished

Spec == Init /\ [][Next]_vars

---------------------------------------------------------------------------------
\* Every name in the file is read as a name.
Legible ==
  \A k \in 1 .. Len(file) : file[k].kind = "name" => file[k].value \notin Bracketed \cup {EmptyName}

\* A rule that stood for as long as the save took is there after a restart, and none
\* is there that never stood, whatever other threads did between the four locks.
\* Illegible names spoil the domain rules at most: other kinds of rules come back.
StandingRulesSaved ==
  pc = "restored" /\ ~cut =>
    /\ Legible => stood \subseteq Standing /\ Standing \subseteq ever
    /\ \A r \in stood : r[1] \in {"ip", "app", "port"} => r \in Standing

\* With no other thread at work a restart gives back exactly the rules, the order and
\* the repetitions of patterns included.
QuietSaveIsExact == pc = "restored" /\ Legible /\ quiet /\ ~cut => rules = atCall

\* A save cut short loses rules from the end, kind after kind: where a rule of one
\* kind has come back, all of the kinds before it that stood are there.  And it makes
\* up one rule at most, of a line that was cut in the middle.
CutSaveLosesTheEnd ==
  pc = "restored" /\ Legible =>
    /\ Cardinality(Standing \ ever) <= 1
    /\ LET kinds == <<"ip", "app", "domain", "pattern", "port">>
       IN  \A i, j \in 1 .. 5 : i < j /\ (\E r \in Standing \cap ever : r[1] = kinds[j]) =>
             {r \in stood : r[1] = kinds[i]} \subseteq Standing

\* clearAll is not atomic, but no rule that stood when it was called outlives it
\* unless somebody blocked it anew meanwhile.
ClearAllClears == clearing = "none" => leftover = {}
=================================================================================
