-------------------------------- MODULE FastPath --------------------------------
(***************************************************************************)
(* FastPathProcessor::processPacket (src/fast_path.cpp): one fast path     *)
(* thread takes packets through its ConnectionTracker and asks the shared  *)
(* RuleManager for a verdict, while other threads change the rules.        *)
(* shouldBlock takes the four rule locks one at a time, so its four checks *)
(* are four steps.  Everything else a packet goes through is local to the  *)
(* thread.                                                                 *)
(***************************************************************************)
EXTENDS ConnectionTracker, RuleManager

CONSTANTS Packets,         \* what can arrive: [tuple, flags, payload, name, long]
          sniToAppType(_)  \* the application a name belongs to

\* payload tells which extractor succeeds on it and name what it returns (a name
\* in a TLS hello or a Host header can be empty); long is payload_length >= 50.
Packet == [tuple : Tuples, flags : SUBSET {"SYN", "ACK", "FIN", "RST"},
           payload : {"empty", "tls", "http", "dns", "other"},
           name : Names \cup {NoName}, long : BOOLEAN]

ASSUME PacketsAssumption ==
  /\ Packets \subseteq Packet
  /\ \A name \in Names \cup {NoName} : sniToAppType(name) \in AppTypes

VARIABLES pc,              \* where in processPacket the thread is
          job,             \* the packet
          action           \* the verdict on the last packet

\* History: the packets so far; the kinds of rules that have matched the packet
\* at every moment since shouldBlock was called.
VARIABLES log, stood

localVars == <<pc, job, action>>
vars == <<trackerVars, ruleVars, localVars, log, stood>>

TypeOK ==
  /\ TrackerTypeOK /\ RulesTypeOK
  /\ pc \in {"idle", "track", "ip", "port", "app", "domain"}
  /\ job \in Packets
  /\ action \in {"none", "FORWARD", "DROP"}
  /\ log \in Seq(Packets)
  /\ stood \subseteq {"ip", "port", "app", "domain"}

Init ==
  /\ TrackerInit /\ RulesInit
  /\ pc = "idle" /\ job \in Packets /\ action = "none"
  /\ log = <<>> /\ stood = {}

key  == canonicalTuple(job.tuple)
conn == connections[key]

\* The kinds of rules that match the packet with connection c, right now.
Matching(c) ==
  {kind \in {"ip", "port", "app", "domain"} :
     \/ kind = "ip" /\ job.tuple.src_ip \in blocked_ips
     \/ kind = "port" /\ job.tuple.dst_port \in blocked_ports
     \/ kind = "app" /\ c.app_type \in blocked_apps
     \/ kind = "domain" /\ c.sni # NoName /\ isDomainBlocked(c.sni)}

---------------------------------------------------------------------------------
TCP == 6

\* A RST, or an ACK once a FIN has been seen.
Closes(c, flags) == "RST" \in flags \/ (c.fin_seen /\ "ACK" \in flags)

updateTCPState(c, flags) ==
  LET seen   == [c EXCEPT !.syn_seen = @ \/ ("SYN" \in flags /\ "ACK" \notin flags),
                          !.syn_ack_seen = @ \/ {"SYN", "ACK"} \subseteq flags,
                          !.fin_seen = @ \/ "FIN" \in flags]
      opens  == seen.syn_seen /\ seen.syn_ack_seen /\ "ACK" \in flags /\ c.state = "NEW"
  IN  [seen EXCEPT !.state = IF Closes(seen, flags) THEN "CLOSED" ELSE IF opens THEN "ESTABLISHED" ELSE @]

\* inspectPayload: the application and name the first extractor that succeeds
\* leads to; failing all, the port's protocol.  At most one element.
Classification(p) ==
  LET dst == p.tuple.dst_port
      src == p.tuple.src_port
      tls == p.payload = "tls" /\ (dst = 443 \/ p.long)
      web == p.payload = "http" /\ dst = 80
      dns == p.payload = "dns" /\ (dst = 53 \/ src = 53)
  IN  IF tls \/ web THEN {<<sniToAppType(p.name), p.name>>}
      ELSE IF dns THEN {<<"DNS", p.name>>}
      ELSE {<<app, NoName>> : app \in {a \in {"HTTP", "HTTPS"} :
                                         \/ a = "HTTP" /\ dst = 80
                                         \/ a = "HTTPS" /\ dst = 443}}

\* Mutant: every payload is inspected, and what it tells replaces what was known.
InspectedAgain(c, p) ==
  IF p.payload = "empty" \/ Classification(p) = {} THEN c
  ELSE LET found == CHOOSE x \in Classification(p) : TRUE
       IN  [c EXCEPT !.app_type = found[1], !.sni = found[2], !.state = "CLASSIFIED"]

inspectPayload(c, p) ==
  IF c.state = "CLASSIFIED" \/ p.payload = "empty" \/ Classification(p) = {} THEN c
  ELSE LET found == CHOOSE x \in Classification(p) : TRUE
       IN  classifyConnection(c, found[1], found[2])

\* Mutants: the BLOCKED test is dropped; shouldBlock ends before the domain check.
AlreadyBlockedIgnored(c) == FALSE
SkipDomain(c) == FALSE

\* "If connection is already blocked, drop immediately"
AlreadyBlocked(c) == c.state = "BLOCKED"

\* The last of shouldBlock's checks.
DomainMatches(c) == c.sni # NoName /\ isDomainBlocked(c.sni)

---------------------------------------------------------------------------------
\* A packet arrives: getOrCreateConnection.
Receive(p) ==
  /\ pc = "idle" /\ clock < MaxPackets
  /\ job' = p
  /\ clock' = clock + 1
  /\ connections' \in getOrCreateConnection(connections, p.tuple, clock')
  /\ total_seen' = IF canonicalTuple(p.tuple) \in DOMAIN connections
                     THEN total_seen ELSE total_seen + 1
  /\ log' = Append(log, p)
  /\ pc' = "track"
  /\ action' = "none"
  /\ UNCHANGED <<classified_count, blocked_count, ruleVars, stood>>

\* updateConnection, updateTCPState, and unless it is blocked inspectPayload.
Track ==
  /\ pc = "track"
  /\ LET c1 == updateConnection(conn, IsOutbound(conn, job.tuple), clock)
         c2 == IF job.tuple.protocol = TCP THEN updateTCPState(c1, job.flags) ELSE c1
         c3 == inspectPayload(c2, job)
     IN  \/ /\ AlreadyBlocked(c2)
            /\ connections' = With(connections, key, c2)
            /\ pc' = "idle" /\ action' = "DROP"
            /\ UNCHANGED <<classified_count, stood>>
         \/ /\ ~AlreadyBlocked(c2)
            /\ connections' = With(connections, key, c3)
            /\ classified_count' = IF c3.state = "CLASSIFIED" /\ Classifies(c2)
                                     THEN classified_count + 1 ELSE classified_count
            /\ pc' = "ip"
            /\ stood' = Matching(c3)
            /\ UNCHANGED action
  /\ UNCHANGED <<clock, total_seen, blocked_count, ruleVars, job, log>>

\* checkRules: one check of shouldBlock, under its own lock.  A match blocks the
\* connection and drops the packet.
Check(at, matches, next, verdict) ==
  /\ pc = at
  /\ \/ /\ matches
        /\ connections' = With(connections, key, blockConnection(conn))
        /\ blocked_count' = blocked_count + 1
        /\ pc' = "idle" /\ action' = "DROP"
     \/ /\ ~matches
        /\ pc' = next /\ action' = verdict
        /\ UNCHANGED <<connections, blocked_count>>
  /\ UNCHANGED <<clock, total_seen, classified_count, ruleVars, job, log, stood>>

CheckIP     == Check("ip", job.tuple.src_ip \in blocked_ips, "port", action)
CheckPort   == Check("port", job.tuple.dst_port \in blocked_ports, "app", action)
CheckApp    == Check("app", conn.app_type \in blocked_apps, "domain", action)
CheckDomain == Check("domain", DomainMatches(conn), "idle", "FORWARD")

\* The queue stays empty for the length of the timed pop: cleanupStale, at a time
\* when what was last seen before the deadline is 300 seconds old.
Timeout ==
  /\ pc = "idle"
  /\ \E deadline \in 0 .. clock + 1 : connections' = cleanupStale(connections, deadline)
  /\ UNCHANGED <<clock, counts, ruleVars, localVars, log, stood>>

\* Another thread changes the rules.
ChangeRules ==
  /\ RuleStep
  /\ UNCHANGED <<trackerVars, localVars, log>>
  /\ IF pc \in {"ip", "port", "app", "domain"}
       THEN stood' = stood \cap Matching(conn)'
       ELSE UNCHANGED stood

Next ==
  \/ \E p \in Packets : Receive(p)
  \/ Track
  \/ CheckIP \/ CheckPort \/ CheckApp \/ CheckDomain
  \/ Timeout
  \/ ChangeRules

Spec == Init /\ [][Next]_vars

---------------------------------------------------------------------------------
\* There is one record for the two directions of a flow.
OneRecordPerFlow ==
  \A k, m \in DOMAIN connections :
    SameFlow(connections[k].tuple, connections[m].tuple) => k = m

\* The connection a packet is worked on with stays in the table (processPacket
\* holds a pointer into it), and the table within max_connections_: eviction
\* takes the oldest entry, never the one just made.
CurrentInTable ==
  /\ pc # "idle" => key \in DOMAIN connections
  /\ Cardinality(DOMAIN connections) <= MaxConnections

\* packets_out and packets_in count the packets that went the way of the first
\* one, and the opposite way, since the record was made.
DirectionAccounting ==
  pc # "track" =>
    \A k \in DOMAIN connections :
      LET c == connections[k]
          since == c.first_seen .. Len(log)
          ways(t) == Cardinality({n \in since : log[n].tuple = t})
      IN  /\ c.packets_out = ways(c.tuple)
          /\ c.packets_out + c.packets_in =
               Cardinality({n \in since : SameFlow(log[n].tuple, c.tuple)})

\* A rule that stands for as long as shouldBlock takes is enforced, whatever
\* happens to the other rules meanwhile.
StandingRuleEnforced ==
  pc = "idle" /\ action = "FORWARD" => stood = {}

\* The first payload that tells something decides what a conversation is taken for,
\* the port alone included: a ClientHello in a later packet changes nothing.  It is
\* so until the conversation is closed or forgotten; one that was blocked before may
\* stay unknown.
FirstPayloadDecides ==
  pc # "track" =>
    \A k \in DOMAIN connections :
      LET c == connections[k]
          mine == {n \in c.first_seen .. Len(log) : SameFlow(log[n].tuple, c.tuple)}
          telling == {n \in mine : log[n].payload # "empty" /\ Classification(log[n]) # {}}
          first == CHOOSE n \in telling : \A m \in telling : n <= m
      IN  (\A n \in mine : {"FIN", "RST"} \cap log[n].flags = {}) =>
            \/ telling # {} /\ <<c.app_type, c.sni>> \in Classification(log[first])
            \/ (telling = {} \/ c.action = "DROP") /\ c.app_type = "UNKNOWN" /\ c.sni = NoName

\* The report counts a connection as classified, or as blocked, once: again only after
\* it was closed (a payload or a rule then takes it back from CLOSED), or forgotten
\* and seen anew.
CountedOncePerOpening ==
  LET closings == {n \in 1 .. Len(log) :
                     \/ "RST" \in log[n].flags
                     \/ "ACK" \in log[n].flags /\ \E m \in 1 .. n :
                          SameFlow(log[m].tuple, log[n].tuple) /\ "FIN" \in log[m].flags}
  IN  /\ classified_count <= total_seen + Cardinality(closings)
      /\ blocked_count <= total_seen + Cardinality(closings)

\* A blocked connection stays blocked until it is forgotten or a packet closes it, and
\* none of its packets before that gets through.
BlockedUntilClosed ==
  [][\A k \in DOMAIN connections \cap DOMAIN connections' :
       connections[k].state = "BLOCKED" =>
         \/ connections'[k].state = "BLOCKED" /\ (key' = k => action' # "FORWARD")
         \/ pc = "track" /\ key = k /\ Closes(connections'[k], job.flags)]_vars

\* "If connection is already blocked, drop immediately": no packet of a connection
\* whose action is DROP is forwarded.
BlockedConnectionDropped ==
  pc = "idle" /\ action = "FORWARD" /\ key \in DOMAIN connections => conn.action = "FORWARD"
=================================================================================
