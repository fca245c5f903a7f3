----------------------------- MODULE FastPathProofs -----------------------------
(***************************************************************************)
(* The fast path, for any traffic, any table size and any rules: what the  *)
(* table keeps of a flow, and what the rules do to it while other threads  *)
(* change them.                                                            *)
(***************************************************************************)
EXTENDS FastPath, FiniteSetTheorems, WellFoundedInduction, TLAPS

Kinds == {"ip", "port", "app", "domain"}

---------------------------------------------------------------------------------
\* Reversing twice gives the tuple back.
LEMMA ReverseTwice ==
  ASSUME NEW t \in FiveTuples
  PROVE  reverse(t) \in FiveTuples /\ reverse(reverse(t)) = t
BY DEF FiveTuples, reverse

\* Not both directions have the larger source; neither has it only when the
\* endpoints are equal.
LEMMA OneSourceIsLarger ==
  ASSUME NEW t \in FiveTuples
  PROVE  /\ SourceIsLarger(t) => ~SourceIsLarger(reverse(t))
         /\ ~SourceIsLarger(t) /\ ~SourceIsLarger(reverse(t)) => reverse(t) = t
BY DEF FiveTuples, SourceIsLarger, reverse

\* A ConnectionTracker keyed by canonicalTuple has one record for the two
\* directions of a conversation and no record for two conversations.
THEOREM OneKeyPerFlow ==
  ASSUME NEW s \in FiveTuples, NEW t \in FiveTuples
  PROVE  canonicalTuple(s) = canonicalTuple(t) <=> SameFlow(s, t)
<1>1. canonicalTuple(reverse(t)) = canonicalTuple(t)
  BY OneSourceIsLarger, ReverseTwice DEF canonicalTuple
<1>2. canonicalTuple(s) \in {s, reverse(s)} /\ canonicalTuple(t) \in {t, reverse(t)}
  BY DEF canonicalTuple
<1>3. ASSUME canonicalTuple(s) = canonicalTuple(t) PROVE SameFlow(s, t)
  BY <1>2, <1>3, ReverseTwice DEF SameFlow
<1> QED
  BY <1>1, <1>3 DEF SameFlow

\* Any numbers there are have a least one.
LEMMA LeastNumber ==
  ASSUME NEW T, T \subseteq Nat, T # {}
  PROVE  \E m \in T : \A n \in T : m <= n
<1> DEFINE R == {ss \in Nat \X Nat : ss[1] < ss[2]}
<1>1. IsWellFoundedOn(R, Nat)
  BY NatLessThanWellFounded DEF OpToRel
<1>2. \A x, y \in Nat : ~(<<y, x>> \in R) => x <= y
  OBVIOUS
<1> HIDE DEF R
<1>3. \E x \in T : \A y \in T : ~(<<y, x>> \in R)
  BY <1>1, WFMin
<1> QED
  BY <1>2, <1>3

\* Erasing a pattern leaves a list of patterns that is not longer.
LEMMA EraseType ==
  ASSUME NEW q \in Seq(Patterns), NEW d
  PROVE  EraseFirst(q, d) \in Seq(Patterns) /\ Len(EraseFirst(q, d)) <= Len(q)
<1>1. CASE \A k \in 1 .. Len(q) : q[k] # d
  BY <1>1 DEF EraseFirst
<1>2. CASE ~ \A k \in 1 .. Len(q) : q[k] # d
  <2> DEFINE Hit(k) == q[k] = d /\ \A j \in 1 .. k - 1 : q[j] # d
             first == CHOOSE k \in 1 .. Len(q) : Hit(k)
             Hits == {k \in 1 .. Len(q) : q[k] = d}
  <2>1. \E k \in 1 .. Len(q) : Hit(k)
    <3>1. Hits \subseteq Nat /\ Hits # {}
      BY <1>2
    <3>2. PICK m \in Hits : \A n \in Hits : m <= n
      BY <3>1, LeastNumber
    <3>3. \A j \in 1 .. m - 1 : j \in 1 .. Len(q) /\ j < m
      OBVIOUS
    <3> QED
      BY <3>2, <3>3
  <2>2. first \in 1 .. Len(q)
    BY <2>1
  <2>3. EraseFirst(q, d) = SubSeq(q, 1, first - 1) \o SubSeq(q, first + 1, Len(q))
    BY <1>2 DEF EraseFirst
  <2> HIDE DEF first
  <2>4. /\ SubSeq(q, 1, first - 1) \in Seq(Patterns) /\ Len(SubSeq(q, 1, first - 1)) = first - 1
        /\ SubSeq(q, first + 1, Len(q)) \in Seq(Patterns)
        /\ Len(SubSeq(q, first + 1, Len(q))) = Len(q) - first
    BY <2>2
  <2>5. \A r, s \in Seq(Patterns) : r \o s \in Seq(Patterns) /\ Len(r \o s) = Len(r) + Len(s)
    OBVIOUS
  <2>6. /\ EraseFirst(q, d) \in Seq(Patterns)
        /\ Len(EraseFirst(q, d)) = (first - 1) + (Len(q) - first)
    BY <2>3, <2>4, <2>5
  <2> QED
    BY <2>2, <2>6
<1> QED
  BY <1>1, <1>2

\* Rules stay rules of their kind.
LEMMA RulesKeepTypes ==
  ASSUME RulesTypeOK, RuleStep
  PROVE  RulesTypeOK'
<1>1. CASE \E d \in Domains \cup Patterns : blockDomain(d)
  <2>1. PICK d \in Domains \cup Patterns : blockDomain(d)
    BY <1>1
  <2>2. blocked_domains' \subseteq Domains
    BY <2>1 DEF blockDomain, RulesTypeOK
  <2>3. domain_patterns' \in Seq(Patterns) /\ Len(domain_patterns') <= MaxPatterns
    <3>1. CASE d \in Patterns /\ domain_patterns' = Append(domain_patterns, d)
               /\ Len(domain_patterns) < MaxPatterns
      <4>1. Len(domain_patterns') = Len(domain_patterns) + 1 /\ domain_patterns' \in Seq(Patterns)
        BY <3>1 DEF RulesTypeOK
      <4> QED
        BY <3>1, <4>1, PatternsAssumption DEF RulesTypeOK, PatternsAssumption
    <3>2. CASE UNCHANGED domain_patterns
      BY <3>2 DEF RulesTypeOK
    <3> QED
      BY <2>1, <3>1, <3>2 DEF blockDomain
  <2> QED
    BY <2>1, <2>2, <2>3 DEF blockDomain, RulesTypeOK
<1>2. CASE \E d \in Domains \cup Patterns : unblockDomain(d)
  <2>1. PICK d \in Domains \cup Patterns : unblockDomain(d)
    BY <1>2
  <2>2. blocked_domains' \subseteq Domains
    BY <2>1 DEF unblockDomain, RulesTypeOK
  <2>3. domain_patterns' \in Seq(Patterns) /\ Len(domain_patterns') <= MaxPatterns
    <3>1. Len(domain_patterns) \in Nat /\ MaxPatterns \in Nat
      BY PatternsAssumption DEF RulesTypeOK, PatternsAssumption
    <3>2. \/ UNCHANGED domain_patterns
          \/ domain_patterns' = EraseFirst(domain_patterns, d)
      BY <2>1 DEF unblockDomain
    <3>3. Len(EraseFirst(domain_patterns, d)) \in Nat
      BY EraseType DEF RulesTypeOK
    <3> QED
      BY <3>1, <3>2, <3>3, EraseType DEF RulesTypeOK
  <2> QED
    BY <2>1, <2>2, <2>3 DEF unblockDomain, RulesTypeOK
<1>3. CASE clearAll
  <2>1. /\ blocked_ips' \in {blocked_ips, {}} /\ blocked_apps' \in {blocked_apps, {}}
        /\ blocked_domains' \in {blocked_domains, {}} /\ blocked_ports' \in {blocked_ports, {}}
        /\ domain_patterns' \in {domain_patterns, <<>>}
        /\ clearing' \in {"none", "ips", "apps", "domains", "ports"}
    BY <1>3 DEF clearAll, ClearDomains, rules
  <2>2. <<>> \in Seq(Patterns) /\ Len(<<>>) = 0
    OBVIOUS
  <2>3. domain_patterns' \in Seq(Patterns) /\ Len(domain_patterns') <= MaxPatterns
    <3>1. CASE domain_patterns' = domain_patterns
      BY <3>1 DEF RulesTypeOK
    <3>2. CASE domain_patterns' = <<>>
      <4>1. domain_patterns' \in Seq(Patterns) /\ Len(domain_patterns') = 0
        BY <2>2, <3>2, Zenon
      <4> QED
        BY <4>1, PatternsAssumption DEF PatternsAssumption
    <3> QED
      BY <2>1, <3>1, <3>2
  <2> QED
    BY <2>1, <2>3 DEF RulesTypeOK
<1>4. CASE \/ \E ip \in IPs : blockIP(ip) \/ unblockIP(ip)
           \/ \E app \in Apps : blockApp(app) \/ unblockApp(app)
           \/ \E port \in Ports : blockPort(port) \/ unblockPort(port)
  BY <1>4 DEF blockIP, unblockIP, blockApp, unblockApp, blockPort, unblockPort, RulesTypeOK
<1> QED
  BY <1>1, <1>2, <1>3, <1>4 DEF RuleStep, Block, Unblock

---------------------------------------------------------------------------------
\* getOrCreateConnection: the record of the packet's flow is there, as it was or new;
\* other records are as they were, or one of them is gone; the table is not too large.
LEMMA LookupFinds ==
  ASSUME NEW conns, NEW t, NEW now \in Nat,
         IsFiniteSet(DOMAIN conns), Cardinality(DOMAIN conns) <= MaxConnections,
         \A k \in DOMAIN conns : conns[k].last_seen \in Nat /\ conns[k].last_seen < now,
         NEW after \in getOrCreateConnection(conns, t, now)
  PROVE  /\ canonicalTuple(t) \in DOMAIN after
         /\ \A k \in DOMAIN after :
              \/ k \in DOMAIN conns /\ after[k] = conns[k]
              \/ k \notin DOMAIN conns /\ k = canonicalTuple(t) /\ after[k] = NewConnection(t, now)
         /\ IsFiniteSet(DOMAIN after) /\ Cardinality(DOMAIN after) <= MaxConnections
<1> DEFINE new == canonicalTuple(t)
           grown == With(conns, new, NewConnection(t, now))
<1>1. CASE new \in DOMAIN conns
  BY <1>1 DEF getOrCreateConnection
<1>2. CASE new \notin DOMAIN conns
  <2>1. /\ DOMAIN grown = DOMAIN conns \cup {new}
        /\ grown[new] = NewConnection(t, now)
        /\ \A k \in DOMAIN conns : grown[k] = conns[k]
    BY <1>2 DEF With
  <2>2. /\ IsFiniteSet(DOMAIN grown)
        /\ Cardinality(DOMAIN grown) = Cardinality(DOMAIN conns) + 1
    BY <1>2, <2>1, FS_AddElement
  <2>3. Cardinality(DOMAIN conns) \in Nat /\ MaxConnections \in Nat \ {0}
    BY FS_CardinalityType, TrackerAssumption DEF TrackerAssumption
  <2>4. CASE Cardinality(DOMAIN grown) <= MaxConnections
    <3>1. after = grown
      BY <1>2, <2>2, <2>3, <2>4 DEF getOrCreateConnection, Insert
    <3> QED
      BY <1>2, <2>1, <2>2, <2>4, <3>1
  <2>5. CASE Cardinality(DOMAIN grown) > MaxConnections
    <3>1. PICK victim \in Oldest(grown) : after = Keep(grown, DOMAIN grown \ {victim})
      BY <1>2, <2>5 DEF getOrCreateConnection, Insert
    <3>2. victim \in DOMAIN grown
      BY DEF Oldest
    <3>3. victim # new
      <4>1. DOMAIN conns # {}
        BY <2>2, <2>3, <2>5, FS_EmptySet
      <4>2. PICK k \in DOMAIN conns : TRUE
        BY <4>1
      <4>3. grown[k].last_seen < now /\ grown[k].last_seen \in Nat
        BY <2>1
      <4>4. grown[new].last_seen = now
        BY <2>1 DEF NewConnection
      <4>5. ~(grown[new].last_seen <= grown[k].last_seen)
        BY <4>3, <4>4
      <4> QED
        BY <2>1, <4>5 DEF Oldest
    <3>4. /\ DOMAIN after = DOMAIN grown \ {victim}
          /\ \A k \in DOMAIN after : after[k] = grown[k]
      BY <3>1 DEF Keep
    <3>5. IsFiniteSet(DOMAIN after) /\ Cardinality(DOMAIN after) = Cardinality(DOMAIN grown) - 1
      BY <2>2, <3>2, <3>4, FS_RemoveElement
    <3>6. Cardinality(DOMAIN after) <= MaxConnections
      BY <2>2, <2>3, <3>5
    <3>7. new \in DOMAIN after
      BY <2>1, <3>3, <3>4
    <3>8. \A k \in DOMAIN after :
            \/ k \in DOMAIN conns /\ after[k] = conns[k]
            \/ k \notin DOMAIN conns /\ k = new /\ after[k] = NewConnection(t, now)
      BY <1>2, <2>1, <3>4
    <3> QED
      BY <3>5, <3>6, <3>7, <3>8
  <2> QED
    BY <2>2, <2>3, <2>4, <2>5
<1> QED
  BY <1>1, <1>2

---------------------------------------------------------------------------------
Flags == {"SYN", "ACK", "FIN", "RST"}

\* A packet is counted in its direction, and nothing else of the record changes but
\* the time.
LEMMA UpdateCounts ==
  ASSUME NEW c \in Connection, NEW outbound \in BOOLEAN, NEW now \in Nat
  PROVE  LET d == updateConnection(c, outbound, now) IN
         /\ d \in Connection
         /\ d.tuple = c.tuple /\ d.first_seen = c.first_seen /\ d.last_seen = now
         /\ d.state = c.state /\ d.fin_seen = c.fin_seen
         /\ d.app_type = c.app_type /\ d.sni = c.sni /\ d.action = c.action
         /\ d.packets_out = IF outbound THEN c.packets_out + 1 ELSE c.packets_out
         /\ d.packets_in = IF outbound THEN c.packets_in ELSE c.packets_in + 1
<1> DEFINE d == updateConnection(c, outbound, now)
<1>1. c.packets_out \in Nat /\ c.packets_in \in Nat
  BY DEF Connection
<1>2. CASE outbound
  <2>1. d = [c EXCEPT !.last_seen = now, !.packets_out = c.packets_out + 1]
    BY <1>2 DEF updateConnection
  <2>2. PICK n \in Nat : n = c.packets_out + 1
    BY <1>1
  <2>3. d = [c EXCEPT !.last_seen = now, !.packets_out = n]
    BY <2>1, <2>2
  <2> HIDE DEF d
  <2>4. d \in Connection
    BY <2>3 DEF Connection
  <2> QED
    BY <1>2, <2>2, <2>3, <2>4 DEF Connection, d
<1>3. CASE ~outbound
  <2>1. d = [c EXCEPT !.last_seen = now, !.packets_in = c.packets_in + 1]
    BY <1>3 DEF updateConnection
  <2>2. PICK n \in Nat : n = c.packets_in + 1
    BY <1>1
  <2>3. d = [c EXCEPT !.last_seen = now, !.packets_in = n]
    BY <2>1, <2>2
  <2> HIDE DEF d
  <2>4. d \in Connection
    BY <2>3 DEF Connection
  <2> QED
    BY <1>3, <2>2, <2>3, <2>4 DEF Connection, d
<1> QED
  BY <1>2, <1>3

\* The flags of a packet open a new record or close it, and change nothing else of its
\* state.
LEMMA FlagsClose ==
  ASSUME NEW c \in Connection, NEW flags \in SUBSET Flags
  PROVE  LET d == updateTCPState(c, flags) IN
         /\ d \in Connection
         /\ d.tuple = c.tuple /\ d.first_seen = c.first_seen /\ d.last_seen = c.last_seen
         /\ d.packets_out = c.packets_out /\ d.packets_in = c.packets_in
         /\ d.app_type = c.app_type /\ d.sni = c.sni /\ d.action = c.action
         /\ d.fin_seen => c.fin_seen \/ "FIN" \in flags
         /\ \/ d.state = c.state
            \/ d.state = "ESTABLISHED" /\ c.state = "NEW"
            \/ d.state = "CLOSED" /\ Closes(d, flags)
<1> DEFINE syn == c.syn_seen \/ ("SYN" \in flags /\ "ACK" \notin flags)
           synAck == c.syn_ack_seen \/ {"SYN", "ACK"} \subseteq flags
           fin == c.fin_seen \/ "FIN" \in flags
           seen == [c EXCEPT !.syn_seen = syn, !.syn_ack_seen = synAck, !.fin_seen = fin]
           opens == seen.syn_seen /\ seen.syn_ack_seen /\ "ACK" \in flags /\ c.state = "NEW"
           state == IF Closes(seen, flags) THEN "CLOSED"
                    ELSE IF opens THEN "ESTABLISHED" ELSE seen.state
<1>1. syn \in BOOLEAN /\ synAck \in BOOLEAN /\ fin \in BOOLEAN
  BY DEF Connection
<1>2. updateTCPState(c, flags) = [seen EXCEPT !.state = state]
  BY DEF updateTCPState
<1>3. fin => c.fin_seen \/ "FIN" \in flags
  OBVIOUS
<1> HIDE DEF syn, synAck, fin
<1>4. /\ seen \in Connection /\ seen.state = c.state /\ seen.fin_seen = fin
      /\ seen.tuple = c.tuple /\ seen.first_seen = c.first_seen /\ seen.last_seen = c.last_seen
      /\ seen.packets_out = c.packets_out /\ seen.packets_in = c.packets_in
      /\ seen.app_type = c.app_type /\ seen.sni = c.sni /\ seen.action = c.action
  BY <1>1 DEF Connection
<1> HIDE DEF seen
<1>5. /\ state \in ConnectionState
      /\ \/ state = c.state
         \/ state = "ESTABLISHED" /\ c.state = "NEW"
         \/ state = "CLOSED" /\ Closes(seen, flags)
  BY <1>4 DEF Connection, ConnectionState
<1> HIDE DEF state
<1> DEFINE d == [seen EXCEPT !.state = state]
<1>6. /\ d \in Connection /\ d.state = state /\ d.fin_seen = seen.fin_seen
      /\ d.tuple = seen.tuple /\ d.first_seen = seen.first_seen /\ d.last_seen = seen.last_seen
      /\ d.packets_out = seen.packets_out /\ d.packets_in = seen.packets_in
      /\ d.app_type = seen.app_type /\ d.sni = seen.sni /\ d.action = seen.action
  BY <1>4, <1>5 DEF Connection
<1> HIDE DEF d
<1>7. Closes(seen, flags) => Closes(d, flags)
  BY <1>6 DEF Closes
<1> QED
  BY <1>2, <1>3, <1>4, <1>5, <1>6, <1>7 DEF d

\* What a payload tells is an application and a name.
LEMMA ClassificationType ==
  ASSUME NEW p \in Packets
  PROVE  Classification(p) \subseteq AppTypes \X (Names \cup {NoName})
BY PacketsAssumption, TrackerAssumption
   DEF Classification, PacketsAssumption, TrackerAssumption, Packet

\* Inspection changes what is known of the application, and does not block.
LEMMA InspectionClassifies ==
  ASSUME NEW c \in Connection, NEW p \in Packets
  PROVE  LET d == inspectPayload(c, p) IN
         /\ d \in Connection
         /\ d.tuple = c.tuple /\ d.first_seen = c.first_seen /\ d.last_seen = c.last_seen
         /\ d.packets_out = c.packets_out /\ d.packets_in = c.packets_in
         /\ d.fin_seen = c.fin_seen
         /\ d.state \in {c.state, "CLASSIFIED"}
<1>1. CASE c.state = "CLASSIFIED" \/ p.payload = "empty" \/ Classification(p) = {}
  BY <1>1 DEF inspectPayload
<1>2. CASE ~(c.state = "CLASSIFIED" \/ p.payload = "empty" \/ Classification(p) = {})
  <2> DEFINE found == CHOOSE x \in Classification(p) : TRUE
  <2>1. found \in AppTypes \X (Names \cup {NoName})
    BY <1>2, ClassificationType
  <2>2. inspectPayload(c, p) = [c EXCEPT !.app_type = found[1], !.sni = found[2], !.state = "CLASSIFIED"]
    BY <1>2 DEF inspectPayload, classifyConnection, Classifies
  <2> HIDE DEF found
  <2> QED
    BY <2>1, <2>2 DEF Connection, ConnectionState
<1> QED
  BY <1>1, <1>2

---------------------------------------------------------------------------------
\* The table: every record is in the place of its flow and was last seen by now, there
\* are not too many, and the packet in hand has one.
TableInv ==
  /\ \A k \in DOMAIN connections :
       k = canonicalTuple(connections[k].tuple) /\ connections[k].last_seen <= clock
  /\ IsFiniteSet(DOMAIN connections) /\ Cardinality(DOMAIN connections) <= MaxConnections
  /\ pc # "idle" => key \in DOMAIN connections

\* The verdict: a connection that is being judged is not blocked; a rule that has
\* matched ever since matches now, so its kind has not been looked at yet.
VerdictInv ==
  /\ pc # "idle" => action = "none"
  /\ pc \in Kinds => conn.state # "BLOCKED" /\ stood \subseteq Matching(conn)
  /\ pc = "port" => "ip" \notin stood
  /\ pc = "app" => stood \cap {"ip", "port"} = {}
  /\ pc = "domain" => stood \subseteq {"domain"}
  /\ pc = "idle" /\ action = "FORWARD" =>
       stood = {} /\ (key \in DOMAIN connections => conn.state # "BLOCKED")

FastPathInv == TypeOK /\ TableInv /\ VerdictInv

\* The record of the packet in hand may be replaced by another of the same flow.
LEMMA RecordReplaced ==
  ASSUME TypeOK, TableInv, key \in DOMAIN connections,
         NEW c \in Connection, c.tuple = conn.tuple, c.last_seen <= clock,
         connections' = With(connections, key, c), UNCHANGED <<clock, job>>
  PROVE  /\ DOMAIN connections' = DOMAIN connections
         /\ connections'[key] = c /\ key' = key /\ conn' = c
         /\ \A k \in DOMAIN connections : k # key => connections'[k] = connections[k]
         /\ \A k \in DOMAIN connections' : connections'[k] \in Connection
         /\ TableInv'
<1>1. key' = key
  BY DEF key
<1>2. /\ DOMAIN connections' = DOMAIN connections
      /\ connections'[key] = c
      /\ \A k \in DOMAIN connections : k # key => connections'[k] = connections[k]
  BY DEF With
<1>3. conn' = c
  BY <1>1, <1>2 DEF conn
<1>4. \A k \in DOMAIN connections' : connections'[k] \in Connection
  BY <1>2 DEF TypeOK, TrackerTypeOK
<1>5. TableInv'
  <2>1. key = canonicalTuple(c.tuple)
    BY DEF TableInv, conn
  <2>2. \A k \in DOMAIN connections' :
          k = canonicalTuple(connections'[k].tuple) /\ connections'[k].last_seen <= clock'
    BY <1>2, <2>1 DEF TableInv
  <2> QED
    BY <1>1, <1>2, <2>2 DEF TableInv
<1> QED
  BY <1>1, <1>2, <1>3, <1>4, <1>5

\* What Track does to the record of the packet.
LEMMA TrackResult ==
  ASSUME TypeOK, TableInv, Track
  PROVE  \E c \in Connection :
           /\ connections' = With(connections, key, c)
           /\ c.tuple = conn.tuple /\ c.first_seen = conn.first_seen /\ c.last_seen = clock
           /\ c.packets_out = IF IsOutbound(conn, job.tuple)
                                THEN conn.packets_out + 1 ELSE conn.packets_out
           /\ c.packets_in = IF IsOutbound(conn, job.tuple)
                               THEN conn.packets_in ELSE conn.packets_in + 1
           /\ conn.state = "BLOCKED" => c.state = "BLOCKED" \/ Closes(c, job.flags)
           /\ \/ pc' = "idle" /\ action' = "DROP" /\ c.state = "BLOCKED"
                 /\ UNCHANGED <<classified_count, stood>>
              \/ pc' = "ip" /\ UNCHANGED action /\ c.state # "BLOCKED" /\ stood' = Matching(c)
                 /\ classified_count' \in {classified_count, classified_count + 1}
<1> DEFINE c1 == updateConnection(conn, IsOutbound(conn, job.tuple), clock)
           c2 == IF job.tuple.protocol = TCP THEN updateTCPState(c1, job.flags) ELSE c1
           c3 == inspectPayload(c2, job)
<1>1. conn \in Connection /\ IsOutbound(conn, job.tuple) \in BOOLEAN /\ clock \in Nat
  BY DEF Track, TableInv, TypeOK, TrackerTypeOK, conn, IsOutbound
<1>2. job \in Packets /\ job.flags \in SUBSET Flags
  BY PacketsAssumption DEF TypeOK, PacketsAssumption, Packet, Flags
<1>3. \/ /\ AlreadyBlocked(c2)
         /\ connections' = With(connections, key, c2)
         /\ pc' = "idle" /\ action' = "DROP"
         /\ UNCHANGED <<classified_count, stood>>
      \/ /\ ~AlreadyBlocked(c2)
         /\ connections' = With(connections, key, c3)
         /\ classified_count' \in {classified_count, classified_count + 1}
         /\ pc' = "ip"
         /\ stood' = Matching(c3)
         /\ UNCHANGED action
  BY DEF Track
<1>4. /\ c1 \in Connection
      /\ c1.tuple = conn.tuple /\ c1.first_seen = conn.first_seen /\ c1.last_seen = clock
      /\ c1.state = conn.state
      /\ c1.packets_out = IF IsOutbound(conn, job.tuple)
                            THEN conn.packets_out + 1 ELSE conn.packets_out
      /\ c1.packets_in = IF IsOutbound(conn, job.tuple)
                           THEN conn.packets_in ELSE conn.packets_in + 1
  BY <1>1, UpdateCounts
<1> HIDE DEF c1
<1>5. /\ c2 \in Connection
      /\ c2.tuple = c1.tuple /\ c2.first_seen = c1.first_seen /\ c2.last_seen = c1.last_seen
      /\ c2.packets_out = c1.packets_out /\ c2.packets_in = c1.packets_in
      /\ c1.state = "BLOCKED" => c2.state = "BLOCKED" \/ Closes(c2, job.flags)
  BY <1>2, <1>4, FlagsClose
<1> HIDE DEF c2
<1>6. /\ c3 \in Connection
      /\ c3.tuple = c2.tuple /\ c3.first_seen = c2.first_seen /\ c3.last_seen = c2.last_seen
      /\ c3.packets_out = c2.packets_out /\ c3.packets_in = c2.packets_in
      /\ c3.fin_seen = c2.fin_seen
      /\ c3.state \in {c2.state, "CLASSIFIED"}
  BY <1>2, <1>5, InspectionClassifies
<1> HIDE DEF c3
<1>7. CASE AlreadyBlocked(c2) /\ connections' = With(connections, key, c2)
           /\ pc' = "idle" /\ action' = "DROP" /\ UNCHANGED <<classified_count, stood>>
  <2> c2 \in Connection
    BY <1>5
  <2> WITNESS c2 \in Connection
  <2> QED
    BY <1>4, <1>5, <1>7 DEF AlreadyBlocked
<1>8. CASE ~AlreadyBlocked(c2) /\ connections' = With(connections, key, c3)
           /\ classified_count' \in {classified_count, classified_count + 1}
           /\ pc' = "ip" /\ stood' = Matching(c3) /\ UNCHANGED action
  <2>1. Closes(c2, job.flags) => Closes(c3, job.flags)
    BY <1>6 DEF Closes
  <2>2. c3.state # "BLOCKED"
    BY <1>6, <1>8 DEF AlreadyBlocked
  <2> c3 \in Connection
    BY <1>6
  <2> WITNESS c3 \in Connection
  <2> QED
    BY <1>4, <1>5, <1>6, <1>8, <2>1, <2>2 DEF AlreadyBlocked
<1> QED
  BY <1>3, <1>7, <1>8

\* The rules that match the packet stay the same while neither they nor the packet and
\* its record change.
LEMMA MatchingKept ==
  ASSUME UNCHANGED <<job, rules, conn>>
  PROVE  Matching(conn)' = Matching(conn)
BY DEF rules, Matching, isDomainBlocked

LEMMA InitSafe ==
  ASSUME Init
  PROVE  FastPathInv
<1>1. TypeOK
  <2>1. <<>> \in Seq(Packets) /\ <<>> \in Seq(Patterns) /\ Len(<<>>) = 0
    OBVIOUS
  <2>2. RulesTypeOK
    <3>1. domain_patterns \in Seq(Patterns) /\ Len(domain_patterns) = 0
      BY <2>1, Zenon DEF Init, RulesInit
    <3> QED
      BY <3>1, PatternsAssumption DEF Init, RulesInit, RulesTypeOK, PatternsAssumption
  <2>3. TrackerTypeOK
    BY TrackerAssumption DEF Init, TrackerInit, TrackerTypeOK, TrackerAssumption
  <2>4. log \in Seq(Packets)
    BY <2>1, Zenon DEF Init
  <2> QED
    BY <2>2, <2>3, <2>4 DEF Init, TypeOK
<1>2. TableInv
  <2>1. DOMAIN connections = {}
    BY DEF Init, TrackerInit
  <2>2. IsFiniteSet(DOMAIN connections) /\ Cardinality(DOMAIN connections) <= MaxConnections
    BY <2>1, FS_EmptySet, TrackerAssumption DEF TrackerAssumption
  <2> QED
    BY <2>1, <2>2 DEF Init, TableInv
<1>3. VerdictInv
  BY DEF Init, VerdictInv, Kinds
<1> QED
  BY <1>1, <1>2, <1>3 DEF FastPathInv

\* Receive leaves the records there are, or evicts one of them, and has one for the packet.
LEMMA ReceiveResult ==
  ASSUME FastPathInv, NEW p \in Packets, Receive(p)
  PROVE  /\ p.tuple \in Tuples
         /\ clock \in Nat /\ clock' = clock + 1 /\ clock' \in 0 .. MaxPackets
         /\ key' = canonicalTuple(p.tuple) /\ key' \in DOMAIN connections'
         /\ \A k \in DOMAIN connections' :
              \/ k \in DOMAIN connections /\ connections'[k] = connections[k]
              \/ /\ k \notin DOMAIN connections /\ k = canonicalTuple(p.tuple)
                 /\ connections'[k] = NewConnection(p.tuple, clock')
         /\ IsFiniteSet(DOMAIN connections') /\ Cardinality(DOMAIN connections') <= MaxConnections
<1>1. p.tuple \in Tuples /\ clock \in Nat /\ clock' = clock + 1 /\ clock' \in 0 .. MaxPackets
  BY PacketsAssumption, TrackerAssumption
     DEF PacketsAssumption, TrackerAssumption, Packet, FastPathInv, TypeOK, TrackerTypeOK, Receive
<1>2. \A k \in DOMAIN connections :
        connections[k].last_seen \in Nat /\ connections[k].last_seen < clock'
  BY <1>1 DEF FastPathInv, TypeOK, TrackerTypeOK, Connection, TableInv
<1>3. connections' \in getOrCreateConnection(connections, p.tuple, clock')
  BY DEF Receive
<1>4. key' = canonicalTuple(p.tuple)
  BY DEF Receive, key
<1> QED
  BY <1>1, <1>2, <1>3, <1>4, LookupFinds DEF FastPathInv, TableInv

LEMMA ReceiveSafe ==
  ASSUME FastPathInv, NEW p \in Packets, Receive(p)
  PROVE  FastPathInv'
<1> DEFINE new == canonicalTuple(p.tuple)
<1>1. p.tuple \in Tuples /\ clock \in Nat /\ clock' = clock + 1 /\ clock' \in 0 .. MaxPackets
  BY ReceiveResult
<1>2. /\ new \in DOMAIN connections'
      /\ \A k \in DOMAIN connections' :
           \/ k \in DOMAIN connections /\ connections'[k] = connections[k]
           \/ /\ k \notin DOMAIN connections /\ k = new
              /\ connections'[k] = NewConnection(p.tuple, clock')
      /\ IsFiniteSet(DOMAIN connections') /\ Cardinality(DOMAIN connections') <= MaxConnections
  BY ReceiveResult
<1>3. /\ NewConnection(p.tuple, clock') \in Connection
      /\ NewConnection(p.tuple, clock').tuple = p.tuple
      /\ NewConnection(p.tuple, clock').last_seen = clock'
  BY <1>1, TrackerAssumption DEF NewConnection, Connection, ConnectionState, TrackerAssumption
<1>4. key' = new
  BY ReceiveResult
<1>5. TypeOK'
  <2>1. \A k \in DOMAIN connections' :
          k \in {canonicalTuple(t) : t \in Tuples} /\ connections'[k] \in Connection
    BY <1>1, <1>2, <1>3 DEF FastPathInv, TypeOK, TrackerTypeOK
  <2>2. TrackerTypeOK'
    BY <1>1, <2>1 DEF Receive, FastPathInv, TypeOK, TrackerTypeOK
  <2>3. RulesTypeOK'
    BY DEF Receive, FastPathInv, TypeOK, RulesTypeOK, ruleVars, rules
  <2> QED
    BY <2>2, <2>3 DEF Receive, FastPathInv, TypeOK
<1>6. TableInv'
  <2>1. \A k \in DOMAIN connections' :
          k = canonicalTuple(connections'[k].tuple) /\ connections'[k].last_seen <= clock'
    BY <1>1, <1>2, <1>3 DEF FastPathInv, TypeOK, TrackerTypeOK, TableInv, Connection
  <2> QED
    BY <1>2, <1>4, <2>1 DEF TableInv
<1>7. VerdictInv'
  BY DEF Receive, VerdictInv, Kinds
<1> QED
  BY <1>5, <1>6, <1>7 DEF FastPathInv

LEMMA TrackSafe ==
  ASSUME FastPathInv, Track
  PROVE  FastPathInv'
<1>1. PICK c \in Connection :
        /\ connections' = With(connections, key, c)
        /\ c.tuple = conn.tuple /\ c.last_seen = clock
        /\ \/ pc' = "idle" /\ action' = "DROP" /\ c.state = "BLOCKED"
              /\ UNCHANGED <<classified_count, stood>>
           \/ pc' = "ip" /\ UNCHANGED action /\ c.state # "BLOCKED" /\ stood' = Matching(c)
              /\ classified_count' \in {classified_count, classified_count + 1}
  BY TrackResult DEF FastPathInv
<1>2. UNCHANGED <<clock, total_seen, blocked_count, ruleVars, job, log>>
  BY DEF Track
<1>3. c.last_seen <= clock
  BY <1>1 DEF FastPathInv, TypeOK, TrackerTypeOK
<1>4. key \in DOMAIN connections
  BY DEF Track, FastPathInv, TableInv
<1>5. /\ DOMAIN connections' = DOMAIN connections
      /\ conn' = c
      /\ \A k \in DOMAIN connections' : connections'[k] \in Connection
      /\ TableInv'
  <2>1. /\ TypeOK /\ TableInv /\ c.tuple = conn.tuple /\ UNCHANGED <<clock, job>>
        /\ connections' = With(connections, key, c)
    BY <1>1, <1>2 DEF FastPathInv
  <2> QED
    BY <1>3, <1>4, <2>1, RecordReplaced
<1>6. TypeOK'
  <2>1. TrackerTypeOK'
    BY <1>1, <1>2, <1>5 DEF FastPathInv, TypeOK, TrackerTypeOK
  <2>2. RulesTypeOK'
    BY <1>2 DEF FastPathInv, TypeOK, RulesTypeOK, ruleVars, rules
  <2>3. stood' \subseteq Kinds
    BY <1>1 DEF FastPathInv, TypeOK, Matching, Kinds
  <2> QED
    BY <1>1, <1>2, <2>1, <2>2, <2>3 DEF FastPathInv, TypeOK, Kinds
<1>7. VerdictInv'
  <2>1. Matching(conn)' = Matching(c)
    BY <1>2, <1>5 DEF Matching, isDomainBlocked, ruleVars, rules
  <2>2. action = "none"
    BY DEF Track, FastPathInv, VerdictInv
  <2> QED
    BY <1>1, <1>5, <2>1, <2>2 DEF VerdictInv, Kinds
<1> QED
  BY <1>5, <1>6, <1>7 DEF FastPathInv

\* A check that matches blocks the connection; one that does not leaves it alone.
LEMMA CheckResult ==
  ASSUME FastPathInv, CheckIP \/ CheckPort \/ CheckApp \/ CheckDomain
  PROVE  /\ pc \in Kinds
         /\ UNCHANGED <<clock, total_seen, classified_count, ruleVars, job, log, stood>>
         /\ \/ /\ connections' = With(connections, key, blockConnection(conn))
               /\ blocked_count' = blocked_count + 1
               /\ pc' = "idle" /\ action' = "DROP"
            \/ /\ UNCHANGED <<connections, blocked_count>>
               /\ \/ pc = "ip" /\ pc' = "port" /\ action' = action /\ "ip" \notin Matching(conn)
                  \/ pc = "port" /\ pc' = "app" /\ action' = action /\ "port" \notin Matching(conn)
                  \/ pc = "app" /\ pc' = "domain" /\ action' = action /\ "app" \notin Matching(conn)
                  \/ pc = "domain" /\ pc' = "idle" /\ action' = "FORWARD"
                     /\ "domain" \notin Matching(conn)
<1>1. CASE CheckIP
  BY <1>1 DEF CheckIP, Check, Matching, Kinds
<1>2. CASE CheckPort
  BY <1>2 DEF CheckPort, Check, Matching, Kinds
<1>3. CASE CheckApp
  BY <1>3 DEF CheckApp, Check, Matching, Kinds
<1>4. CASE CheckDomain
  <2>1. "domain" \in Matching(conn) <=> DomainMatches(conn)
    BY DEF Matching, DomainMatches
  <2> QED
    BY <1>4, <2>1 DEF CheckDomain, Check, Kinds
<1> QED
  BY <1>1, <1>2, <1>3, <1>4

LEMMA CheckSafe ==
  ASSUME FastPathInv, CheckIP \/ CheckPort \/ CheckApp \/ CheckDomain
  PROVE  FastPathInv'
<1>1. /\ pc \in Kinds
      /\ UNCHANGED <<clock, total_seen, classified_count, ruleVars, job, log, stood>>
  BY CheckResult
<1>2. key \in DOMAIN connections /\ key' = key /\ conn \in Connection
  BY <1>1 DEF FastPathInv, TableInv, Kinds, TypeOK, TrackerTypeOK, key, conn
<1>3. RulesTypeOK'
  BY <1>1 DEF FastPathInv, TypeOK, RulesTypeOK, ruleVars, rules
<1>4. CASE /\ connections' = With(connections, key, blockConnection(conn))
           /\ blocked_count' = blocked_count + 1
           /\ pc' = "idle" /\ action' = "DROP"
  <2> DEFINE c == blockConnection(conn)
  <2>1. c \in Connection /\ c.tuple = conn.tuple /\ c.last_seen = conn.last_seen
    BY <1>2 DEF blockConnection, Connection, ConnectionState
  <2>2. c.last_seen <= clock
    BY <1>2, <2>1 DEF FastPathInv, TableInv, conn
  <2> HIDE DEF c
  <2>3. connections' = With(connections, key, c)
    BY <1>4 DEF c
  <2>4. /\ DOMAIN connections' = DOMAIN connections
        /\ \A k \in DOMAIN connections' : connections'[k] \in Connection
        /\ TableInv'
    BY <1>1, <1>2, <2>1, <2>2, <2>3, RecordReplaced DEF FastPathInv
  <2>5. TypeOK'
    BY <1>1, <1>3, <1>4, <2>4 DEF FastPathInv, TypeOK, TrackerTypeOK
  <2>6. VerdictInv'
    BY <1>4 DEF VerdictInv, Kinds
  <2> QED
    BY <2>4, <2>5, <2>6 DEF FastPathInv
<1>5. CASE /\ UNCHANGED <<connections, blocked_count>>
           /\ \/ pc = "ip" /\ pc' = "port" /\ action' = action /\ "ip" \notin Matching(conn)
              \/ pc = "port" /\ pc' = "app" /\ action' = action /\ "port" \notin Matching(conn)
              \/ pc = "app" /\ pc' = "domain" /\ action' = action /\ "app" \notin Matching(conn)
              \/ pc = "domain" /\ pc' = "idle" /\ action' = "FORWARD"
                 /\ "domain" \notin Matching(conn)
  <2>1. conn' = conn
    BY <1>2, <1>5 DEF conn
  <2>2. Matching(conn)' = Matching(conn)
    BY <1>1, <2>1, MatchingKept DEF ruleVars
  <2>3. action = "none" /\ conn.state # "BLOCKED" /\ stood \subseteq Matching(conn)
    BY <1>1 DEF FastPathInv, VerdictInv, Kinds
  <2>4. VerdictInv'
    <3>1. CASE pc' = "port"
      BY <1>1, <1>5, <2>1, <2>2, <2>3, <3>1 DEF VerdictInv, Kinds
    <3>2. CASE pc' = "app"
      BY <1>1, <1>5, <2>1, <2>2, <2>3, <3>2 DEF FastPathInv, VerdictInv, Kinds
    <3>3. CASE pc' = "domain"
      <4>1. stood \subseteq Kinds /\ stood \cap {"ip", "port"} = {} /\ "app" \notin stood
        BY <1>5, <2>3, <3>3 DEF FastPathInv, VerdictInv, TypeOK, Kinds
      <4>2. stood \subseteq {"domain"}
        BY <4>1 DEF Kinds
      <4> QED
        BY <1>1, <1>5, <2>1, <2>2, <2>3, <3>3, <4>2 DEF VerdictInv, Kinds
    <3>4. CASE pc' = "idle"
      <4>1. stood \subseteq {"domain"} /\ "domain" \notin stood
        BY <1>5, <2>3, <3>4 DEF FastPathInv, VerdictInv
      <4>2. stood' = {}
        BY <1>1, <4>1
      <4> QED
        BY <1>1, <1>5, <2>1, <2>3, <3>4, <4>2 DEF VerdictInv, Kinds
    <3> QED
      BY <1>5, <3>1, <3>2, <3>3, <3>4
  <2>5. TypeOK'
    BY <1>1, <1>3, <1>5 DEF FastPathInv, TypeOK, TrackerTypeOK
  <2>6. TableInv'
    BY <1>1, <1>2, <1>5 DEF FastPathInv, TableInv, Kinds
  <2> QED
    BY <2>4, <2>5, <2>6 DEF FastPathInv
<1> QED
  BY <1>4, <1>5, CheckResult

LEMMA TimeoutSafe ==
  ASSUME FastPathInv, Timeout
  PROVE  FastPathInv'
<1>1. PICK S : connections' = Keep(connections, S)
  BY DEF Timeout, cleanupStale
<1>2. /\ DOMAIN connections' = DOMAIN connections \cap S
      /\ \A k \in DOMAIN connections' : connections'[k] = connections[k]
  BY <1>1 DEF Keep
<1>3. UNCHANGED <<clock, counts, ruleVars, localVars, log, stood>> /\ pc = "idle"
  BY DEF Timeout
<1>4. TypeOK'
  <2>1. RulesTypeOK'
    BY <1>3 DEF FastPathInv, TypeOK, RulesTypeOK, ruleVars, rules
  <2> QED
    BY <1>2, <1>3, <2>1 DEF FastPathInv, TypeOK, TrackerTypeOK, counts, localVars
<1>5. TableInv'
  <2>1. /\ IsFiniteSet(DOMAIN connections')
        /\ Cardinality(DOMAIN connections') <= Cardinality(DOMAIN connections)
    BY <1>2, FS_Subset DEF FastPathInv, TableInv
  <2>2. /\ Cardinality(DOMAIN connections') \in Nat /\ Cardinality(DOMAIN connections) \in Nat
        /\ MaxConnections \in Nat
    BY <2>1, FS_CardinalityType, TrackerAssumption DEF TrackerAssumption, FastPathInv, TableInv
  <2>3. Cardinality(DOMAIN connections') <= MaxConnections
    BY <2>1, <2>2 DEF FastPathInv, TableInv
  <2> QED
    BY <1>2, <1>3, <2>1, <2>3 DEF FastPathInv, TableInv, localVars
<1>6. VerdictInv'
  <2>1. key' = key
    BY <1>3 DEF key, localVars
  <2>2. key \in DOMAIN connections' => conn' = conn
    BY <1>2, <2>1 DEF conn
  <2> QED
    BY <1>2, <1>3, <2>1, <2>2 DEF FastPathInv, VerdictInv, Kinds, localVars
<1> QED
  BY <1>4, <1>5, <1>6 DEF FastPathInv

LEMMA ChangeRulesSafe ==
  ASSUME FastPathInv, ChangeRules
  PROVE  FastPathInv'
<1>1. UNCHANGED <<connections, clock, total_seen, classified_count, blocked_count, pc, job, action, log>>
  BY DEF ChangeRules, trackerVars, counts, localVars
<1>2. key' = key /\ conn' = conn
  BY <1>1 DEF key, conn
<1>3. RulesTypeOK'
  BY RulesKeepTypes DEF ChangeRules, FastPathInv, TypeOK
<1>4. stood' \subseteq stood /\ (pc \in Kinds => stood' \subseteq Matching(conn)')
  BY DEF ChangeRules, Kinds
<1>5. TypeOK'
  BY <1>1, <1>3, <1>4 DEF FastPathInv, TypeOK, TrackerTypeOK
<1>6. TableInv'
  BY <1>1, <1>2 DEF FastPathInv, TableInv
<1>7. VerdictInv'
  BY <1>1, <1>2, <1>4 DEF FastPathInv, VerdictInv
<1> QED
  BY <1>5, <1>6, <1>7 DEF FastPathInv

\* FastPathInv holds of every traffic under every change of rules.
THEOREM FastPathSafe == Spec => []FastPathInv
<1>1. Init => FastPathInv
  BY InitSafe
<1>2. FastPathInv /\ [Next]_vars => FastPathInv'
  <2> SUFFICES ASSUME FastPathInv, [Next]_vars PROVE FastPathInv'
    OBVIOUS
  <2>1. CASE UNCHANGED vars
    <3>1. key' = key /\ conn' = conn /\ Matching(conn)' = Matching(conn)
      <4>1. key' = key /\ conn' = conn
        BY <2>1 DEF vars, localVars, trackerVars, key, conn
      <4> QED
        BY <2>1, <4>1, MatchingKept DEF vars, localVars, ruleVars
    <3>2. RulesTypeOK'
      BY <2>1 DEF FastPathInv, TypeOK, RulesTypeOK, vars, ruleVars, rules
    <3>3. TypeOK' /\ TableInv'
      BY <2>1, <3>1, <3>2 DEF FastPathInv, TypeOK, TrackerTypeOK, TableInv, vars, localVars, trackerVars, counts
    <3>4. VerdictInv'
      BY <2>1, <3>1 DEF FastPathInv, VerdictInv, vars, localVars, trackerVars
    <3> QED
      BY <3>3, <3>4 DEF FastPathInv
  <2> QED
    BY <2>1, ReceiveSafe, TrackSafe, CheckSafe, TimeoutSafe, ChangeRulesSafe DEF Next
<1> QED
  BY <1>1, <1>2, PTL DEF Spec

\* The types of the table, the counters and the rules.
THEOREM TypeCorrect == Spec => []TypeOK
BY FastPathSafe, PTL DEF FastPathInv

\* The two directions of a conversation never have two records, equal addresses included:
\* both are kept under the canonical tuple.
THEOREM FlowsHaveOneRecord == Spec => []OneRecordPerFlow
<1>1. FastPathInv => OneRecordPerFlow
  <2> SUFFICES ASSUME FastPathInv, NEW k \in DOMAIN connections, NEW m \in DOMAIN connections,
                      SameFlow(connections[k].tuple, connections[m].tuple)
               PROVE  k = m
    BY DEF OneRecordPerFlow
  <2>1. connections[k].tuple \in FiveTuples /\ connections[m].tuple \in FiveTuples
    BY DispatchAssumption DEF DispatchAssumption, FastPathInv, TypeOK, TrackerTypeOK, Connection
  <2>2. canonicalTuple(connections[k].tuple) = canonicalTuple(connections[m].tuple)
    BY <2>1, OneKeyPerFlow
  <2> QED
    BY <2>2 DEF FastPathInv, TableInv
<1> QED
  BY <1>1, FastPathSafe, PTL

\* Eviction keeps the table within max_connections_ and never takes the record that
\* processPacket has a pointer into, whatever the size of the table.
THEOREM EvictionSparesCurrent == Spec => []CurrentInTable
<1>1. FastPathInv => CurrentInTable
  BY DEF FastPathInv, TableInv, CurrentInTable
<1> QED
  BY <1>1, FastPathSafe, PTL

\* A rule that matches the packet at every moment of the four checks drops it, whatever
\* other threads do to the other rules.
THEOREM StandingRulesEnforced == Spec => []StandingRuleEnforced
<1>1. FastPathInv => StandingRuleEnforced
  BY DEF FastPathInv, VerdictInv, StandingRuleEnforced
<1> QED
  BY <1>1, FastPathSafe, PTL

\* A blocked connection is released only by a packet that closes it, or by being
\* forgotten; until then none of its packets is forwarded.
THEOREM BlockedStaysBlocked == Spec => BlockedUntilClosed
<1> DEFINE Stays(k) ==
      connections[k].state = "BLOCKED" =>
        \/ connections'[k].state = "BLOCKED" /\ (key' = k => action' # "FORWARD")
        \/ pc = "track" /\ key = k /\ Closes(connections'[k], job.flags)
<1>1. ASSUME FastPathInv, Next, NEW k \in DOMAIN connections \cap DOMAIN connections'
      PROVE  Stays(k)
  <2>1. CASE \E p \in Packets : Receive(p)
    <3>1. PICK p \in Packets : Receive(p)
      BY <2>1
    <3>2. connections'[k] = connections[k]
      BY <1>1, <3>1, ReceiveResult
    <3>3. action' = "none"
      BY <3>1 DEF Receive
    <3> QED
      BY <3>2, <3>3
  <2>2. CASE Track
    <3>1. PICK c \in Connection :
            /\ connections' = With(connections, key, c)
            /\ conn.state = "BLOCKED" => c.state = "BLOCKED" \/ Closes(c, job.flags)
            /\ action' \in {"DROP", action}
      BY <1>1, <2>2, TrackResult DEF FastPathInv
    <3>2. action = "none" /\ pc = "track" /\ key' = key
      BY <1>1, <2>2 DEF Track, FastPathInv, VerdictInv, key
    <3>3. connections'[k] = IF k = key THEN c ELSE connections[k]
      BY <1>1, <3>1 DEF With
    <3> QED
      BY <3>1, <3>2, <3>3 DEF conn
  <2>3. CASE CheckIP \/ CheckPort \/ CheckApp \/ CheckDomain
    <3>1. /\ pc \in Kinds /\ UNCHANGED job
          /\ \/ connections' = With(connections, key, blockConnection(conn)) /\ action' = "DROP"
             \/ UNCHANGED connections
      BY <1>1, <2>3, CheckResult
    <3>2. conn.state # "BLOCKED" /\ key' = key
      BY <1>1, <3>1 DEF FastPathInv, VerdictInv, key
    <3>3. k # key => connections'[k] = connections[k]
      BY <1>1, <3>1 DEF With
    <3> QED
      BY <3>2, <3>3 DEF conn
  <2>4. CASE Timeout
    <3>1. connections'[k] = connections[k]
      BY <1>1, <2>4 DEF Timeout, cleanupStale, Keep
    <3>2. pc = "idle" /\ key' = key /\ action' = action
      BY <2>4 DEF Timeout, localVars, key
    <3> QED
      BY <1>1, <3>1, <3>2 DEF FastPathInv, VerdictInv, conn
  <2>5. CASE ChangeRules
    <3>1. UNCHANGED <<connections, action, pc, job>> /\ key' = key
      BY <2>5 DEF ChangeRules, trackerVars, localVars, key
    <3> QED
      BY <1>1, <3>1 DEF FastPathInv, VerdictInv, conn
  <2> QED
    BY <1>1, <2>1, <2>2, <2>3, <2>4, <2>5 DEF Next
<1>2. FastPathInv /\ [Next]_vars =>
        [\A k \in DOMAIN connections \cap DOMAIN connections' : Stays(k)]_vars
  BY <1>1
<1> QED
  BY <1>2, FastPathSafe, PTL DEF Spec, BlockedUntilClosed

---------------------------------------------------------------------------------
(* The counts of a record against the packets so far. *)

\* The packets of q up to the m-th that went the way of c's first, and all of its flow,
\* since c was made.
SameWay(c, q, m)  == {n \in c.first_seen .. m : q[n].tuple = c.tuple}
BothWays(c, q, m) == {n \in c.first_seen .. m : SameFlow(q[n].tuple, c.tuple)}

Counted(c, q, m) ==
  /\ c.first_seen \in 1 .. Len(q)
  /\ c.packets_out = Cardinality(SameWay(c, q, m))
  /\ c.packets_out + c.packets_in = Cardinality(BothWays(c, q, m))

\* The packet being tracked is in the log but not in its record yet.
Upto == IF pc = "track" THEN Len(log) - 1 ELSE Len(log)

CountInv ==
  /\ clock = Len(log)
  /\ pc = "track" => log # <<>> /\ log[Len(log)] = job
  /\ \A k \in DOMAIN connections : Counted(connections[k], log, Upto)

\* What comes later does not change the counts.
LEMMA LaterPacketsApart ==
  ASSUME NEW c, NEW q \in Seq(Packets), NEW p \in Packets, Counted(c, q, Len(q))
  PROVE  Counted(c, Append(q, p), Len(q))
<1>1. Len(Append(q, p)) = Len(q) + 1 /\ \A n \in 1 .. Len(q) : Append(q, p)[n] = q[n]
  OBVIOUS
<1>2. \A n \in c.first_seen .. Len(q) : n \in 1 .. Len(q)
  BY DEF Counted
<1>3. SameWay(c, Append(q, p), Len(q)) = SameWay(c, q, Len(q))
  BY <1>1, <1>2 DEF SameWay
<1>4. BothWays(c, Append(q, p), Len(q)) = BothWays(c, q, Len(q))
  BY <1>1, <1>2 DEF BothWays
<1> QED
  BY <1>1, <1>3, <1>4 DEF Counted

\* One more packet is one more element, or none.
LEMMA OneMorePacket ==
  ASSUME NEW c, NEW q, NEW m \in Nat, c.first_seen \in 1 .. m
  PROVE  /\ IsFiniteSet(SameWay(c, q, m - 1)) /\ IsFiniteSet(BothWays(c, q, m - 1))
         /\ Cardinality(SameWay(c, q, m)) = Cardinality(SameWay(c, q, m - 1))
              + (IF q[m].tuple = c.tuple THEN 1 ELSE 0)
         /\ Cardinality(BothWays(c, q, m)) = Cardinality(BothWays(c, q, m - 1))
              + (IF SameFlow(q[m].tuple, c.tuple) THEN 1 ELSE 0)
<1>1. c.first_seen .. m = (c.first_seen .. m - 1) \cup {m} /\ m \notin c.first_seen .. m - 1
  OBVIOUS
<1>2. IsFiniteSet(c.first_seen .. m - 1)
  BY FS_Interval
<1>3. IsFiniteSet(SameWay(c, q, m - 1)) /\ m \notin SameWay(c, q, m - 1)
  BY <1>1, <1>2, FS_Subset DEF SameWay
<1>4. IsFiniteSet(BothWays(c, q, m - 1)) /\ m \notin BothWays(c, q, m - 1)
  BY <1>1, <1>2, FS_Subset DEF BothWays
<1>5. Cardinality(SameWay(c, q, m - 1)) \in Nat /\ Cardinality(BothWays(c, q, m - 1)) \in Nat
  BY <1>3, <1>4, FS_CardinalityType
<1>6. Cardinality(SameWay(c, q, m)) = Cardinality(SameWay(c, q, m - 1))
        + (IF q[m].tuple = c.tuple THEN 1 ELSE 0)
  <2>1. CASE q[m].tuple = c.tuple
    <3>1. SameWay(c, q, m) = SameWay(c, q, m - 1) \cup {m}
      BY <1>1, <2>1 DEF SameWay
    <3> QED
      BY <1>3, <2>1, <3>1, FS_AddElement
  <2>2. CASE q[m].tuple # c.tuple
    <3>1. SameWay(c, q, m) = SameWay(c, q, m - 1)
      BY <1>1, <2>2 DEF SameWay
    <3> QED
      BY <1>5, <2>2, <3>1
  <2> QED
    BY <2>1, <2>2
<1>7. Cardinality(BothWays(c, q, m)) = Cardinality(BothWays(c, q, m - 1))
        + (IF SameFlow(q[m].tuple, c.tuple) THEN 1 ELSE 0)
  <2>1. CASE SameFlow(q[m].tuple, c.tuple)
    <3>1. BothWays(c, q, m) = BothWays(c, q, m - 1) \cup {m}
      BY <1>1, <2>1 DEF BothWays
    <3> QED
      BY <1>4, <2>1, <3>1, FS_AddElement
  <2>2. CASE ~SameFlow(q[m].tuple, c.tuple)
    <3>1. BothWays(c, q, m) = BothWays(c, q, m - 1)
      BY <1>1, <2>2 DEF BothWays
    <3> QED
      BY <1>5, <2>2, <3>1
  <2> QED
    BY <2>1, <2>2
<1> QED
  BY <1>3, <1>4, <1>6, <1>7

\* A packet of a record's flow goes the way of its first packet exactly when their
\* five-tuples are equal.
LEMMA OutboundIsSameTuple ==
  ASSUME NEW c \in Connection, NEW t \in Tuples, canonicalTuple(c.tuple) = canonicalTuple(t)
  PROVE  SameFlow(t, c.tuple) /\ (IsOutbound(c, t) <=> t = c.tuple)
<1>1. c.tuple \in FiveTuples /\ t \in FiveTuples
  BY DispatchAssumption DEF DispatchAssumption, Connection
<1>2. SameFlow(t, c.tuple)
  BY <1>1, OneKeyPerFlow
<1>3. t.protocol = c.tuple.protocol
  BY <1>1, <1>2 DEF SameFlow, reverse
<1> QED
  BY <1>1, <1>2, <1>3 DEF IsOutbound, FiveTuples

\* A new record counts none of the packets before its own.
LEMMA NewRecordCounts ==
  ASSUME NEW t, NEW q, NEW m \in Nat, m + 1 = Len(q)
  PROVE  Counted(NewConnection(t, m + 1), q, m)
<1> DEFINE c == NewConnection(t, m + 1)
<1>1. c.first_seen = m + 1 /\ c.packets_out = 0 /\ c.packets_in = 0
  BY DEF NewConnection
<1> HIDE DEF c
<1>2. SameWay(c, q, m) = {} /\ BothWays(c, q, m) = {}
  BY <1>1 DEF SameWay, BothWays
<1>3. m + 1 \in 1 .. Len(q)
  OBVIOUS
<1>4. Counted(c, q, m)
  BY <1>1, <1>2, <1>3, FS_EmptySet DEF Counted
<1> QED
  BY <1>4 DEF c

LEMMA ReceiveCounts ==
  ASSUME FastPathInv, CountInv, NEW p \in Packets, Receive(p)
  PROVE  CountInv'
<1>1. pc = "idle" /\ pc' = "track" /\ log' = Append(log, p) /\ job' = p /\ log \in Seq(Packets)
  BY DEF Receive, FastPathInv, TypeOK
<1>2. /\ Len(log') = Len(log) + 1 /\ Len(log) \in Nat /\ log' # <<>> /\ log'[Len(log')] = p
  BY <1>1
<1>3. clock = Len(log) /\ clock' = Len(log')
  BY <1>2, ReceiveResult DEF CountInv
<1>4. Upto' = Len(log) /\ Upto = Len(log)
  BY <1>1, <1>2 DEF Upto
<1>5. ASSUME NEW k \in DOMAIN connections'
      PROVE  Counted(connections'[k], log', Len(log))
  <2>1. CASE k \in DOMAIN connections /\ connections'[k] = connections[k]
    <3>1. Counted(connections[k], log, Len(log))
      BY <1>4, <2>1 DEF CountInv
    <3> QED
      BY <1>1, <2>1, <3>1, LaterPacketsApart
  <2>2. CASE connections'[k] = NewConnection(p.tuple, clock')
    BY <1>2, <1>3, <2>2, NewRecordCounts
  <2> QED
    BY <1>5, <2>1, <2>2, ReceiveResult
<1> QED
  BY <1>1, <1>2, <1>3, <1>4, <1>5 DEF CountInv

LEMMA TrackCounts ==
  ASSUME FastPathInv, CountInv, Track
  PROVE  CountInv'
<1> DEFINE m == Len(log)
<1>1. PICK c \in Connection :
        /\ connections' = With(connections, key, c)
        /\ c.tuple = conn.tuple /\ c.first_seen = conn.first_seen
        /\ c.packets_out = IF IsOutbound(conn, job.tuple)
                             THEN conn.packets_out + 1 ELSE conn.packets_out
        /\ c.packets_in = IF IsOutbound(conn, job.tuple)
                            THEN conn.packets_in ELSE conn.packets_in + 1
        /\ pc' # "track"
  BY TrackResult DEF FastPathInv
<1>2. pc = "track" /\ UNCHANGED <<clock, log, job>> /\ key \in DOMAIN connections
  BY DEF Track, FastPathInv, TableInv
<1>3. m \in Nat /\ log[m] = job /\ Upto = m - 1 /\ Upto' = m
  BY <1>1, <1>2 DEF CountInv, Upto, FastPathInv, TypeOK
<1>4. job.tuple \in Tuples
  BY PacketsAssumption DEF FastPathInv, TypeOK, PacketsAssumption, Packet
<1>5. \A k \in DOMAIN connections :
        /\ Counted(connections[k], log, m - 1)
        /\ connections[k].first_seen \in 1 .. m
        /\ connections[k] \in Connection /\ k = canonicalTuple(connections[k].tuple)
  BY <1>3 DEF CountInv, Counted, FastPathInv, TypeOK, TrackerTypeOK, TableInv
<1>6. Counted(c, log, m)
  <2>1. /\ SameFlow(job.tuple, conn.tuple)
        /\ IsOutbound(conn, job.tuple) <=> job.tuple = conn.tuple
    BY <1>2, <1>4, <1>5, OutboundIsSameTuple DEF conn, key
  <2>2. /\ Cardinality(SameWay(conn, log, m)) = Cardinality(SameWay(conn, log, m - 1))
             + (IF job.tuple = conn.tuple THEN 1 ELSE 0)
        /\ Cardinality(BothWays(conn, log, m)) = Cardinality(BothWays(conn, log, m - 1)) + 1
    BY <1>2, <1>3, <1>5, <2>1, OneMorePacket DEF conn
  <2>3. SameWay(c, log, m) = SameWay(conn, log, m) /\ BothWays(c, log, m) = BothWays(conn, log, m)
    BY <1>1 DEF SameWay, BothWays
  <2>4. /\ conn.packets_out = Cardinality(SameWay(conn, log, m - 1))
        /\ conn.packets_out + conn.packets_in = Cardinality(BothWays(conn, log, m - 1))
        /\ conn.first_seen \in 1 .. m
    BY <1>2, <1>5 DEF conn, Counted
  <2>5. conn.packets_out \in Nat /\ conn.packets_in \in Nat
    BY <1>2, <1>5 DEF conn, Connection
  <2>6. c.packets_out = Cardinality(SameWay(c, log, m))
    BY <1>1, <2>1, <2>2, <2>3, <2>4, <2>5
  <2>7. c.packets_out + c.packets_in = (conn.packets_out + conn.packets_in) + 1
    BY <1>1, <2>5
  <2> QED
    BY <1>1, <2>2, <2>3, <2>4, <2>6, <2>7 DEF Counted
<1>7. ASSUME NEW k \in DOMAIN connections, k # key
      PROVE  Counted(connections[k], log, m)
  <2>1. ~SameFlow(job.tuple, connections[k].tuple)
    <3>1. canonicalTuple(job.tuple) # canonicalTuple(connections[k].tuple)
      BY <1>5, <1>7 DEF key
    <3>2. job.tuple \in FiveTuples /\ connections[k].tuple \in FiveTuples
      BY <1>4, <1>5, DispatchAssumption DEF DispatchAssumption, Connection
    <3> QED
      BY <3>1, <3>2, OneKeyPerFlow
  <2>2. job.tuple # connections[k].tuple
    BY <2>1 DEF SameFlow
  <2>3. /\ Cardinality(SameWay(connections[k], log, m))
             = Cardinality(SameWay(connections[k], log, m - 1)) + 0
        /\ Cardinality(BothWays(connections[k], log, m))
             = Cardinality(BothWays(connections[k], log, m - 1)) + 0
    BY <1>3, <1>5, <2>1, <2>2, OneMorePacket
  <2>4. /\ Cardinality(SameWay(connections[k], log, m - 1)) \in Nat
        /\ Cardinality(BothWays(connections[k], log, m - 1)) \in Nat
    BY <1>3, <1>5, OneMorePacket, FS_CardinalityType
  <2> QED
    BY <1>5, <2>3, <2>4 DEF Counted
<1>8. \A k \in DOMAIN connections' : Counted(connections'[k], log, m)
  BY <1>1, <1>2, <1>6, <1>7 DEF With
<1> QED
  BY <1>1, <1>2, <1>3, <1>8 DEF CountInv

\* Steps that neither take a packet nor count one.
LEMMA OthersCount ==
  ASSUME CountInv, UNCHANGED <<clock, log, job>>, (pc = "track") <=> (pc' = "track"),
         \A k \in DOMAIN connections' :
           /\ k \in DOMAIN connections
           /\ connections'[k].tuple = connections[k].tuple
           /\ connections'[k].first_seen = connections[k].first_seen
           /\ connections'[k].packets_out = connections[k].packets_out
           /\ connections'[k].packets_in = connections[k].packets_in
  PROVE  CountInv'
<1>1. Upto' = Upto
  BY DEF Upto
<1>2. ASSUME NEW k \in DOMAIN connections'
      PROVE  Counted(connections'[k], log, Upto)
  <2>1. Counted(connections[k], log, Upto)
    BY <1>2 DEF CountInv
  <2>2. /\ SameWay(connections'[k], log, Upto) = SameWay(connections[k], log, Upto)
        /\ BothWays(connections'[k], log, Upto) = BothWays(connections[k], log, Upto)
    BY <1>2 DEF SameWay, BothWays
  <2> QED
    BY <1>2, <2>1, <2>2 DEF Counted
<1> QED
  BY <1>1, <1>2 DEF CountInv

\* The counts stay right, ...
LEMMA CountStep ==
  ASSUME FastPathInv, CountInv, [Next]_vars
  PROVE  CountInv'
<1>1. CASE CheckIP \/ CheckPort \/ CheckApp \/ CheckDomain
  <2>1. /\ UNCHANGED <<clock, log, job>> /\ pc \in Kinds /\ pc' # "track"
        /\ \/ connections' = With(connections, key, blockConnection(conn))
           \/ UNCHANGED connections
    BY <1>1, CheckResult
  <2>2. key \in DOMAIN connections /\ conn \in Connection
    BY <2>1 DEF FastPathInv, TableInv, TypeOK, TrackerTypeOK, Kinds, conn
  <2>3. /\ blockConnection(conn).tuple = conn.tuple
        /\ blockConnection(conn).first_seen = conn.first_seen
        /\ blockConnection(conn).packets_out = conn.packets_out
        /\ blockConnection(conn).packets_in = conn.packets_in
    BY <2>2 DEF blockConnection, Connection
  <2>4. CASE connections' = With(connections, key, blockConnection(conn))
    <3>1. \A k \in DOMAIN connections' :
            /\ k \in DOMAIN connections
            /\ connections'[k] = IF k = key THEN blockConnection(conn) ELSE connections[k]
      BY <2>2, <2>4 DEF With
    <3> QED
      BY <2>1, <2>3, <3>1, OthersCount DEF conn, Kinds
  <2>5. CASE UNCHANGED connections
    BY <2>1, <2>5, OthersCount DEF Kinds
  <2> QED
    BY <2>1, <2>4, <2>5
<1>2. CASE Timeout
  <2>1. \A k \in DOMAIN connections' :
          k \in DOMAIN connections /\ connections'[k] = connections[k]
    BY <1>2 DEF Timeout, cleanupStale, Keep
  <2>2. UNCHANGED <<clock, log, job, pc>>
    BY <1>2 DEF Timeout, localVars
  <2> QED
    BY <2>1, <2>2, OthersCount
<1>3. CASE ChangeRules \/ UNCHANGED vars
  <2>1. UNCHANGED <<connections, clock, log, job, pc>>
    BY <1>3 DEF ChangeRules, vars, trackerVars, localVars
  <2> QED
    BY <2>1, OthersCount
<1> QED
  BY <1>1, <1>2, <1>3, ReceiveCounts, TrackCounts DEF Next

LEMMA CountSafe == Spec => []CountInv
<1>1. Init => CountInv
  BY DEF Init, TrackerInit, CountInv
<1> QED
  BY <1>1, CountStep, FastPathSafe, PTL DEF Spec

\* ... so packets_out and packets_in are the packets of the two directions since the record
\* was made, evictions and clean-ups notwithstanding.
THEOREM DirectionsAreCounted == Spec => []DirectionAccounting
<1>1. CountInv => DirectionAccounting
  BY DEF CountInv, Upto, Counted, SameWay, BothWays, DirectionAccounting
<1> QED
  BY <1>1, CountSafe, PTL

---------------------------------------------------------------------------------
(* What a conversation is taken for, and how often it is counted. *)

\* A payload that an extractor or the port makes something of.
Tells(p) == p.payload # "empty" /\ Classification(p) # {}

\* The record of the packet in hand once it has seen the packet's flags, ...
Flagged(c) ==
  /\ c.tuple = conn.tuple /\ c.first_seen = conn.first_seen
  /\ c.app_type = conn.app_type /\ c.sni = conn.sni /\ c.action = conn.action
  /\ c.fin_seen => conn.fin_seen \/ "FIN" \in job.flags
  /\ \/ c.state = conn.state
     \/ c.state = "ESTABLISHED" /\ conn.state = "NEW"
     \/ c.state = "CLOSED" /\ Closes(c, job.flags)

\* ... and its payload, which classifies it once.
Inspected(c, d) ==
  \/ d = c /\ (c.state \in {"BLOCKED", "CLASSIFIED"} \/ ~Tells(job))
  \/ /\ c.state \notin {"BLOCKED", "CLASSIFIED"} /\ Tells(job)
     /\ d.state = "CLASSIFIED" /\ <<d.app_type, d.sni>> \in Classification(job)
     /\ d.tuple = c.tuple /\ d.first_seen = c.first_seen
     /\ d.action = c.action /\ d.fin_seen = c.fin_seen

LEMMA TrackStates ==
  ASSUME TypeOK, TableInv, Track
  PROVE  \E c, d \in Connection :
           /\ Flagged(c) /\ Inspected(c, d)
           /\ connections' = With(connections, key, d)
           /\ classified_count' = IF d = c THEN classified_count ELSE classified_count + 1
<1> DEFINE c1 == updateConnection(conn, IsOutbound(conn, job.tuple), clock)
           c2 == IF job.tuple.protocol = TCP THEN updateTCPState(c1, job.flags) ELSE c1
           c3 == inspectPayload(c2, job)
           found == CHOOSE x \in Classification(job) : TRUE
<1>1. conn \in Connection /\ IsOutbound(conn, job.tuple) \in BOOLEAN /\ clock \in Nat
  BY DEF Track, TableInv, TypeOK, TrackerTypeOK, conn, IsOutbound
<1>2. job \in Packets /\ job.flags \in SUBSET Flags
  BY PacketsAssumption DEF TypeOK, PacketsAssumption, Packet, Flags
<1>3. \/ /\ c2.state = "BLOCKED"
         /\ connections' = With(connections, key, c2)
         /\ UNCHANGED classified_count
      \/ /\ c2.state # "BLOCKED"
         /\ connections' = With(connections, key, c3)
         /\ classified_count' = IF c3.state = "CLASSIFIED" /\ c2.state # "CLASSIFIED"
                                  THEN classified_count + 1 ELSE classified_count
  BY DEF Track, AlreadyBlocked, Classifies
<1>4. /\ c1 \in Connection
      /\ c1.tuple = conn.tuple /\ c1.first_seen = conn.first_seen
      /\ c1.state = conn.state /\ c1.fin_seen = conn.fin_seen
      /\ c1.app_type = conn.app_type /\ c1.sni = conn.sni /\ c1.action = conn.action
  BY <1>1, UpdateCounts
<1> HIDE DEF c1
<1>5. /\ c2 \in Connection
      /\ c2.tuple = c1.tuple /\ c2.first_seen = c1.first_seen
      /\ c2.app_type = c1.app_type /\ c2.sni = c1.sni /\ c2.action = c1.action
      /\ c2.fin_seen => c1.fin_seen \/ "FIN" \in job.flags
      /\ \/ c2.state = c1.state
         \/ c2.state = "ESTABLISHED" /\ c1.state = "NEW"
         \/ c2.state = "CLOSED" /\ Closes(c2, job.flags)
  BY <1>2, <1>4, FlagsClose
<1>6. Flagged(c2)
  BY <1>4, <1>5 DEF Flagged
<1> HIDE DEF c2
<1>7. CASE c2.state \in {"BLOCKED", "CLASSIFIED"} \/ ~Tells(job)
  <2>1. c2.state # "BLOCKED" => c3 = c2
    BY <1>7 DEF inspectPayload, Tells
  <2>2. connections' = With(connections, key, c2) /\ classified_count' = classified_count
    BY <1>3, <2>1
  <2>3. Inspected(c2, c2)
    BY <1>7 DEF Inspected
  <2> QED
    BY <1>5, <1>6, <2>2, <2>3
<1>8. CASE c2.state \notin {"BLOCKED", "CLASSIFIED"} /\ Tells(job)
  <2>1. found \in Classification(job) /\ found \in AppTypes \X (Names \cup {NoName})
    BY <1>2, <1>8, ClassificationType DEF Tells
  <2>2. c3 = [c2 EXCEPT !.app_type = found[1], !.sni = found[2], !.state = "CLASSIFIED"]
    BY <1>8 DEF inspectPayload, classifyConnection, Classifies, Tells
  <2> HIDE DEF found, c3
  <2>3. /\ c3 \in Connection /\ c3.state = "CLASSIFIED"
        /\ c3.app_type = found[1] /\ c3.sni = found[2]
        /\ c3.tuple = c2.tuple /\ c3.first_seen = c2.first_seen
        /\ c3.action = c2.action /\ c3.fin_seen = c2.fin_seen
    BY <1>5, <2>1, <2>2 DEF Connection, ConnectionState
  <2>4. <<c3.app_type, c3.sni>> = found
    BY <2>1, <2>3
  <2>5. Inspected(c2, c3)
    BY <1>8, <2>1, <2>3, <2>4 DEF Inspected
  <2>6. c3 # c2 /\ connections' = With(connections, key, c3)
        /\ classified_count' = classified_count + 1
    BY <1>3, <1>8, <2>3
  <2> QED
    BY <1>5, <1>6, <2>3, <2>5, <2>6
<1> QED
  BY <1>7, <1>8

\* The records in none of the states S, and the packets of q up to the m-th that can have
\* closed a conversation.
Unlike(conns, S) == {k \in DOMAIN conns : conns[k].state \notin S}
Closing(q, n) ==
  \/ "RST" \in q[n].flags
  \/ "ACK" \in q[n].flags /\ \E j \in 1 .. n : SameFlow(q[j].tuple, q[n].tuple) /\ "FIN" \in q[j].flags
Closings(q, m) == {n \in 1 .. m : Closing(q, n)}

\* A count goes up only with a record that enters the states counted; what enters them a
\* second time has been closed.
CountedBy(n, S) ==
  n + Cardinality(Unlike(connections, S)) <= total_seen + Cardinality(Closings(log, Upto))

OpenInv ==
  /\ \A k \in DOMAIN connections : connections[k].fin_seen =>
       \E j \in 1 .. Upto : SameFlow(log[j].tuple, connections[k].tuple) /\ "FIN" \in log[j].flags
  /\ CountedBy(classified_count, {"CLASSIFIED", "BLOCKED"})
  /\ CountedBy(blocked_count, {"BLOCKED"})

\* One packet more closes once more, or not.
LEMMA OneMoreClosing ==
  ASSUME NEW q, NEW m \in Nat \ {0}
  PROVE  /\ Cardinality(Closings(q, m - 1)) \in Nat
         /\ Cardinality(Closings(q, m)) =
              Cardinality(Closings(q, m - 1)) + (IF Closing(q, m) THEN 1 ELSE 0)
<1>1. 1 .. m = (1 .. m - 1) \cup {m} /\ m \notin 1 .. m - 1
  OBVIOUS
<1>2. IsFiniteSet(1 .. m - 1)
  BY FS_Interval
<1>3. IsFiniteSet(Closings(q, m - 1)) /\ m \notin Closings(q, m - 1)
  BY <1>1, <1>2, FS_Subset DEF Closings
<1>4. Cardinality(Closings(q, m - 1)) \in Nat
  BY <1>3, FS_CardinalityType
<1>5. CASE Closing(q, m)
  <2>1. Closings(q, m) = Closings(q, m - 1) \cup {m}
    BY <1>1, <1>5 DEF Closings
  <2> QED
    BY <1>3, <1>4, <1>5, <2>1, FS_AddElement
<1>6. CASE ~Closing(q, m)
  <2>1. Closings(q, m) = Closings(q, m - 1)
    BY <1>1, <1>6 DEF Closings
  <2> QED
    BY <1>4, <1>6, <2>1
<1> QED
  BY <1>5, <1>6

\* A packet that has not come yet closes nothing.
LEMMA ClosingsKept ==
  ASSUME NEW q \in Seq(Packets), NEW p \in Packets
  PROVE  Closings(Append(q, p), Len(q)) = Closings(q, Len(q))
<1>1. \A n \in 1 .. Len(q) : Append(q, p)[n] = q[n]
  OBVIOUS
<1>2. Len(q) \in Nat
  OBVIOUS
<1>3. \A n \in 1 .. Len(q) : Closing(Append(q, p), n) <=> Closing(q, n)
  BY <1>1, <1>2 DEF Closing
<1> QED
  BY <1>3 DEF Closings

\* A record put in the place of another leaves the states S, enters them, or neither.
LEMMA UnlikeReplaced ==
  ASSUME NEW conns, NEW k \in DOMAIN conns, NEW c, NEW S, IsFiniteSet(DOMAIN conns)
  PROVE  LET before == Cardinality(Unlike(conns, S))
             after  == Cardinality(Unlike(With(conns, k, c), S))
         IN  /\ before \in Nat
             /\ after = before - (IF conns[k].state \in S THEN 0 ELSE 1)
                               + (IF c.state \in S THEN 0 ELSE 1)
<1> DEFINE U == Unlike(conns, S)
           V == Unlike(With(conns, k, c), S)
           W == U \ {k}
<1>1. IsFiniteSet(U) /\ IsFiniteSet(W) /\ k \notin W
  <2>1. U \subseteq DOMAIN conns /\ W \subseteq DOMAIN conns
    BY DEF Unlike
  <2> QED
    BY <2>1, FS_Subset
<1>2. Cardinality(U) \in Nat /\ Cardinality(W) \in Nat
  BY <1>1, FS_CardinalityType
<1>3. Cardinality(U) = Cardinality(W) + (IF conns[k].state \in S THEN 0 ELSE 1)
  <2>1. CASE conns[k].state \in S
    <3>1. W = U
      BY <2>1 DEF Unlike
    <3> QED
      BY <1>2, <2>1, <3>1
  <2>2. CASE conns[k].state \notin S
    <3>1. U = W \cup {k}
      BY <2>2 DEF Unlike
    <3> HIDE DEF U, W
    <3> QED
      BY <1>1, <1>2, <2>2, <3>1, FS_AddElement
  <2> QED
    BY <2>1, <2>2
<1>4. Cardinality(V) = Cardinality(W) + (IF c.state \in S THEN 0 ELSE 1)
  <2>1. CASE c.state \in S
    <3>1. V = W
      BY <2>1 DEF Unlike, With
    <3> QED
      BY <1>2, <2>1, <3>1
  <2>2. CASE c.state \notin S
    <3>1. V = W \cup {k}
      BY <2>2 DEF Unlike, With
    <3> HIDE DEF V, W
    <3> QED
      BY <1>1, <1>2, <2>2, <3>1, FS_AddElement
  <2> QED
    BY <2>1, <2>2
<1> HIDE DEF U, V, W
<1>5. Cardinality(V) = Cardinality(U) - (IF conns[k].state \in S THEN 0 ELSE 1)
                         + (IF c.state \in S THEN 0 ELSE 1)
  BY <1>2, <1>3, <1>4
<1> QED
  BY <1>2, <1>5 DEF U, V

\* A packet that comes opens a record at most; what it does with the flags is not yet known.
LEMMA ReceiveOpens ==
  ASSUME FastPathInv, CountInv, OpenInv, NEW p \in Packets, Receive(p)
  PROVE  OpenInv'
<1> DEFINE new == canonicalTuple(p.tuple)
<1>1. pc = "idle" /\ pc' = "track" /\ log' = Append(log, p) /\ log \in Seq(Packets)
  BY DEF Receive, FastPathInv, TypeOK
<1>2. /\ Len(log') = Len(log) + 1 /\ Len(log) \in Nat
      /\ \A j \in 1 .. Len(log) : log'[j] = log[j]
  BY <1>1
<1>3. Upto = Len(log) /\ Upto' = Len(log)
  BY <1>1, <1>2 DEF Upto
<1>4. Closings(log', Upto') = Closings(log, Upto)
  BY <1>1, <1>3, ClosingsKept
<1>5. \A k \in DOMAIN connections' :
        \/ k \in DOMAIN connections /\ connections'[k] = connections[k]
        \/ k \notin DOMAIN connections /\ k = new /\ connections'[k] = NewConnection(p.tuple, clock')
  BY ReceiveResult
<1>6. \A k \in DOMAIN connections' : connections'[k].fin_seen =>
        \E j \in 1 .. Upto' : /\ SameFlow(log'[j].tuple, connections'[k].tuple)
                              /\ "FIN" \in log'[j].flags
  <2> SUFFICES ASSUME NEW k \in DOMAIN connections', connections'[k].fin_seen
               PROVE  \E j \in 1 .. Upto' : /\ SameFlow(log'[j].tuple, connections'[k].tuple)
                                            /\ "FIN" \in log'[j].flags
    OBVIOUS
  <2>1. k \in DOMAIN connections /\ connections'[k] = connections[k]
    BY <1>5 DEF NewConnection
  <2> QED
    BY <1>2, <1>3, <2>1 DEF OpenInv
<1>7. UNCHANGED <<classified_count, blocked_count>>
      /\ total_seen' = IF new \in DOMAIN connections THEN total_seen ELSE total_seen + 1
  BY DEF Receive
<1>8. ASSUME NEW S
      PROVE  /\ Cardinality(Unlike(connections, S)) \in Nat
             /\ Cardinality(Unlike(connections', S)) \in Nat
             /\ Cardinality(Unlike(connections', S)) <=
                  Cardinality(Unlike(connections, S)) + (IF new \in DOMAIN connections THEN 0 ELSE 1)
  <2> DEFINE U == Unlike(connections, S)
             V == Unlike(connections', S)
  <2>1. IsFiniteSet(U) /\ Cardinality(U) \in Nat
    <3>1. U \subseteq DOMAIN connections
      BY DEF Unlike
    <3> QED
      BY <3>1, FS_Subset, FS_CardinalityType DEF FastPathInv, TableInv
  <2>2. V \subseteq U \cup {new} /\ (new \in DOMAIN connections => V \subseteq U)
    BY <1>5 DEF Unlike
  <2> HIDE DEF U, V
  <2>3. IsFiniteSet(U \cup {new}) /\ Cardinality(U \cup {new}) \in {Cardinality(U), Cardinality(U) + 1}
    BY <2>1, FS_AddElement
  <2>4. IsFiniteSet(V) /\ Cardinality(V) \in Nat /\ Cardinality(V) <= Cardinality(U \cup {new})
    BY <2>2, <2>3, FS_Subset, FS_CardinalityType
  <2>5. new \in DOMAIN connections => Cardinality(V) <= Cardinality(U)
    BY <2>1, <2>2, FS_Subset
  <2>6. Cardinality(V) <= Cardinality(U) + (IF new \in DOMAIN connections THEN 0 ELSE 1)
    BY <2>1, <2>3, <2>4, <2>5
  <2> QED
    BY <2>1, <2>4, <2>6 DEF U, V
<1>9. total_seen \in Nat /\ classified_count \in Nat /\ blocked_count \in Nat
  BY DEF FastPathInv, TypeOK, TrackerTypeOK
<1>10. Cardinality(Closings(log, Upto)) \in Nat
  <2>1. Closings(log, Upto) \subseteq 1 .. Upto /\ IsFiniteSet(1 .. Upto)
    BY <1>2, <1>3, FS_Interval DEF Closings
  <2> QED
    BY <2>1, FS_Subset, FS_CardinalityType
<1>11. CountedBy(classified_count, {"CLASSIFIED", "BLOCKED"})'
  <2> DEFINE S == {"CLASSIFIED", "BLOCKED"}
  <2>1. classified_count + Cardinality(Unlike(connections, S))
          <= total_seen + Cardinality(Closings(log, Upto))
    BY DEF OpenInv, CountedBy
  <2> HIDE DEF S
  <2>2. classified_count' + Cardinality(Unlike(connections', S))
          <= total_seen' + Cardinality(Closings(log', Upto'))
    BY <1>4, <1>7, <1>8, <1>9, <1>10, <2>1
  <2> QED
    BY <2>2 DEF CountedBy, S
<1>12. CountedBy(blocked_count, {"BLOCKED"})'
  <2> DEFINE S == {"BLOCKED"}
  <2>1. blocked_count + Cardinality(Unlike(connections, S))
          <= total_seen + Cardinality(Closings(log, Upto))
    BY DEF OpenInv, CountedBy
  <2> HIDE DEF S
  <2>2. blocked_count' + Cardinality(Unlike(connections', S))
          <= total_seen' + Cardinality(Closings(log', Upto'))
    BY <1>4, <1>7, <1>8, <1>9, <1>10, <2>1
  <2> QED
    BY <2>2 DEF CountedBy, S
<1> QED
  BY <1>6, <1>11, <1>12 DEF OpenInv

\* A packet that is tracked is of its record's flow, and of no other's.
LEMMA TrackedFlow ==
  ASSUME FastPathInv, CountInv, pc = "track"
  PROVE  /\ key \in DOMAIN connections /\ conn \in Connection
         /\ Len(log) \in Nat \ {0} /\ log[Len(log)] = job /\ Upto = Len(log) - 1
         /\ \A j \in 1 .. Len(log) : log[j] \in Packets /\ log[j].tuple \in FiveTuples
         /\ job.tuple \in FiveTuples /\ conn.tuple \in FiveTuples
         /\ \A k \in DOMAIN connections :
              /\ connections[k].tuple \in FiveTuples
              /\ SameFlow(job.tuple, connections[k].tuple) <=> k = key
<1>1. key \in DOMAIN connections /\ conn \in Connection
  BY DEF FastPathInv, TableInv, TypeOK, TrackerTypeOK, conn
<1>2. Len(log) \in Nat \ {0} /\ log[Len(log)] = job /\ Upto = Len(log) - 1
  BY DEF CountInv, FastPathInv, TypeOK, Upto
<1>3. job \in Packets /\ \A j \in 1 .. Len(log) : log[j] \in Packets
  BY DEF FastPathInv, TypeOK
<1>4. \A p \in Packets : p.tuple \in FiveTuples
  BY PacketsAssumption, DispatchAssumption DEF PacketsAssumption, DispatchAssumption, Packet
<1>5. \A k \in DOMAIN connections :
        connections[k].tuple \in FiveTuples /\ k = canonicalTuple(connections[k].tuple)
  BY DispatchAssumption
     DEF DispatchAssumption, FastPathInv, TypeOK, TrackerTypeOK, TableInv, Connection
<1>6. \A k \in DOMAIN connections : SameFlow(job.tuple, connections[k].tuple) <=> k = key
  BY <1>3, <1>4, <1>5, OneKeyPerFlow DEF key
<1> QED
  BY <1>1, <1>2, <1>3, <1>4, <1>5, <1>6 DEF conn

\* A record that is classified or blocked leaves that state only with a packet that closes.
LEMMA TrackOpens ==
  ASSUME FastPathInv, CountInv, OpenInv, Track
  PROVE  OpenInv'
<1> DEFINE m == Len(log)
<1>1. PICK c, d \in Connection :
        /\ Flagged(c) /\ Inspected(c, d)
        /\ connections' = With(connections, key, d)
        /\ classified_count' = IF d = c THEN classified_count ELSE classified_count + 1
  BY TrackStates DEF FastPathInv
<1>2. pc = "track" /\ pc' # "track" /\ UNCHANGED <<total_seen, blocked_count, log, job>>
  BY DEF Track
<1>3. /\ key \in DOMAIN connections /\ conn \in Connection
      /\ m \in Nat \ {0} /\ log[m] = job /\ Upto = m - 1 /\ Upto' = m
  BY <1>2, TrackedFlow DEF Upto
<1>4. \A j \in 1 .. m : SameFlow(log[j].tuple, conn.tuple) <=> SameFlow(log[j].tuple, job.tuple)
  <2>1. /\ job.tuple \in FiveTuples /\ conn.tuple \in FiveTuples
        /\ \A j \in 1 .. m : log[j].tuple \in FiveTuples
        /\ SameFlow(job.tuple, conn.tuple)
    BY <1>2, TrackedFlow DEF conn
  <2>2. canonicalTuple(job.tuple) = canonicalTuple(conn.tuple)
    BY <2>1, OneKeyPerFlow
  <2> QED
    BY <2>1, <2>2, OneKeyPerFlow
<1>5. c.fin_seen => \E j \in 1 .. m : SameFlow(log[j].tuple, conn.tuple) /\ "FIN" \in log[j].flags
  <2>1. CASE "FIN" \in job.flags
    <3>1. m \in 1 .. m /\ SameFlow(log[m].tuple, job.tuple)
      BY <1>3 DEF SameFlow
    <3> QED
      BY <1>3, <1>4, <2>1, <3>1
  <2>2. CASE conn.fin_seen
    <3>1. PICK j \in 1 .. m - 1 : SameFlow(log[j].tuple, conn.tuple) /\ "FIN" \in log[j].flags
      BY <1>3, <2>2 DEF OpenInv, conn
    <3>2. j \in 1 .. m
      BY <1>3
    <3> QED
      BY <3>1, <3>2
  <2> QED
    BY <1>1, <2>1, <2>2 DEF Flagged
<1>6. \A k \in DOMAIN connections' : connections'[k].fin_seen =>
        \E j \in 1 .. Upto' : /\ SameFlow(log'[j].tuple, connections'[k].tuple)
                              /\ "FIN" \in log'[j].flags
  <2> SUFFICES ASSUME NEW k \in DOMAIN connections', connections'[k].fin_seen
               PROVE  \E j \in 1 .. m : SameFlow(log[j].tuple, connections'[k].tuple)
                                        /\ "FIN" \in log[j].flags
    BY <1>2, <1>3
  <2>1. CASE k = key
    <3>1. connections'[k] = d /\ d.fin_seen = c.fin_seen /\ d.tuple = conn.tuple
      BY <1>1, <2>1 DEF With, Inspected, Flagged
    <3> QED
      BY <1>5, <3>1
  <2>2. CASE k # key
    <3>1. k \in DOMAIN connections /\ connections'[k] = connections[k]
      BY <1>1, <2>2 DEF With
    <3>2. PICK j \in 1 .. m - 1 :
            SameFlow(log[j].tuple, connections[k].tuple) /\ "FIN" \in log[j].flags
      BY <1>3, <3>1 DEF OpenInv
    <3>3. j \in 1 .. m
      BY <1>3
    <3> QED
      BY <3>1, <3>2, <3>3
  <2> QED
    BY <2>1, <2>2
<1>7. Closes(c, job.flags) => Closing(log, m)
  BY <1>3, <1>4, <1>5 DEF Closes, Closing
<1>8. /\ Cardinality(Closings(log, m - 1)) \in Nat
      /\ Cardinality(Closings(log, m)) =
           Cardinality(Closings(log, m - 1)) + (IF Closing(log, m) THEN 1 ELSE 0)
  BY <1>3, OneMoreClosing
<1>9. ASSUME NEW S
      PROVE  /\ Cardinality(Unlike(connections, S)) \in Nat
             /\ Cardinality(Unlike(connections', S)) =
                  Cardinality(Unlike(connections, S)) - (IF conn.state \in S THEN 0 ELSE 1)
                                                      + (IF d.state \in S THEN 0 ELSE 1)
  BY <1>1, <1>3, UnlikeReplaced DEF FastPathInv, TableInv, conn
<1>10. total_seen \in Nat /\ classified_count \in Nat /\ blocked_count \in Nat
  BY DEF FastPathInv, TypeOK, TrackerTypeOK
<1>11. CountedBy(classified_count, {"CLASSIFIED", "BLOCKED"})'
  <2> DEFINE S == {"CLASSIFIED", "BLOCKED"}
  <2>1. classified_count + Cardinality(Unlike(connections, S))
          <= total_seen + Cardinality(Closings(log, m - 1))
    BY <1>3 DEF OpenInv, CountedBy
  <2>2. d = c /\ d.state \notin S => conn.state \notin S \/ Closing(log, m)
    BY <1>1, <1>7 DEF Flagged
  <2>3. d # c => d.state \in S /\ (conn.state \notin S \/ Closing(log, m))
    BY <1>1, <1>7 DEF Flagged, Inspected
  <2> HIDE DEF S
  <2>4. classified_count' + Cardinality(Unlike(connections', S))
          <= total_seen + Cardinality(Closings(log, m))
    <3> DEFINE u == Cardinality(Unlike(connections, S))
               v == Cardinality(Unlike(connections', S))
               p == Cardinality(Closings(log, m - 1))
               q == Cardinality(Closings(log, m))
    <3>1. /\ u \in Nat
          /\ v = u - (IF conn.state \in S THEN 0 ELSE 1) + (IF d.state \in S THEN 0 ELSE 1)
      BY <1>9
    <3>2. p \in Nat /\ q = p + (IF Closing(log, m) THEN 1 ELSE 0)
      BY <1>8
    <3>3. classified_count + u <= total_seen + p
      BY <2>1
    <3> SUFFICES classified_count' + v <= total_seen + q
      OBVIOUS
    <3> HIDE DEF u, v, p, q
    <3>4. CASE d = c
      <4>1. classified_count' = classified_count
        BY <1>1, <3>4
      <4> QED
        BY <1>10, <2>2, <3>1, <3>2, <3>3, <3>4, <4>1
    <3>5. CASE d # c
      <4>1. classified_count' = classified_count + 1
        BY <1>1, <3>5
      <4> QED
        BY <1>10, <2>3, <3>1, <3>2, <3>3, <3>5, <4>1
    <3> QED
      BY <3>4, <3>5
  <2> QED
    BY <1>2, <1>3, <2>4 DEF CountedBy, S
<1>12. CountedBy(blocked_count, {"BLOCKED"})'
  <2> DEFINE S == {"BLOCKED"}
  <2>1. blocked_count + Cardinality(Unlike(connections, S))
          <= total_seen + Cardinality(Closings(log, m - 1))
    BY <1>3 DEF OpenInv, CountedBy
  <2>2. d.state \notin S => conn.state \notin S \/ Closing(log, m)
    BY <1>1, <1>7 DEF Flagged, Inspected
  <2> HIDE DEF S
  <2>3. blocked_count + Cardinality(Unlike(connections', S))
          <= total_seen + Cardinality(Closings(log, m))
    BY <1>8, <1>9, <1>10, <2>1, <2>2
  <2> QED
    BY <1>2, <1>3, <2>3 DEF CountedBy, S
<1> QED
  BY <1>6, <1>11, <1>12 DEF OpenInv

\* Only a connection that is not blocked is blocked.
LEMMA CheckOpens ==
  ASSUME FastPathInv, OpenInv, CheckIP \/ CheckPort \/ CheckApp \/ CheckDomain
  PROVE  OpenInv'
<1>1. /\ pc \in Kinds /\ pc' # "track"
      /\ UNCHANGED <<total_seen, classified_count, job, log>>
      /\ \/ /\ connections' = With(connections, key, blockConnection(conn))
            /\ blocked_count' = blocked_count + 1
         \/ UNCHANGED <<connections, blocked_count>>
  BY CheckResult
<1>2. Upto' = Upto
  BY <1>1 DEF Upto, Kinds
<1>3. CASE UNCHANGED <<connections, blocked_count>>
  BY <1>1, <1>2, <1>3 DEF OpenInv, CountedBy
<1>4. CASE /\ connections' = With(connections, key, blockConnection(conn))
           /\ blocked_count' = blocked_count + 1
  <2> DEFINE c == blockConnection(conn)
  <2>1. key \in DOMAIN connections /\ conn \in Connection /\ conn.state # "BLOCKED"
    BY <1>1 DEF FastPathInv, TableInv, VerdictInv, TypeOK, TrackerTypeOK, conn, Kinds
  <2>2. c.state = "BLOCKED" /\ c.tuple = conn.tuple /\ c.fin_seen = conn.fin_seen
    BY <2>1 DEF blockConnection, Connection
  <2>3. connections' = With(connections, key, c)
    BY <1>4
  <2> HIDE DEF c
  <2>4. \A k \in DOMAIN connections' : connections'[k].fin_seen =>
          \E j \in 1 .. Upto' : /\ SameFlow(log'[j].tuple, connections'[k].tuple)
                                /\ "FIN" \in log'[j].flags
    <3>1. \A k \in DOMAIN connections' :
            /\ k \in DOMAIN connections
            /\ connections'[k].fin_seen = connections[k].fin_seen
            /\ connections'[k].tuple = connections[k].tuple
      BY <2>1, <2>2, <2>3 DEF With, conn
    <3> QED
      BY <1>1, <1>2, <3>1 DEF OpenInv
  <2>5. ASSUME NEW S
        PROVE  /\ Cardinality(Unlike(connections, S)) \in Nat
               /\ Cardinality(Unlike(connections', S)) =
                    Cardinality(Unlike(connections, S)) - (IF conn.state \in S THEN 0 ELSE 1)
                                                        + (IF c.state \in S THEN 0 ELSE 1)
    BY <2>1, <2>3, UnlikeReplaced DEF FastPathInv, TableInv, conn
  <2>6. total_seen \in Nat /\ classified_count \in Nat /\ blocked_count \in Nat
    BY DEF FastPathInv, TypeOK, TrackerTypeOK
  <2>7. Cardinality(Closings(log, Upto)) \in Nat
    <3>1. Upto \in Int
      BY <1>1 DEF FastPathInv, TypeOK, Upto, Kinds
    <3>2. Closings(log, Upto) \subseteq 1 .. Upto /\ IsFiniteSet(1 .. Upto)
      BY <3>1, FS_Interval DEF Closings
    <3> QED
      BY <3>2, FS_Subset, FS_CardinalityType
  <2>8. CountedBy(classified_count, {"CLASSIFIED", "BLOCKED"})'
    <3> DEFINE S == {"CLASSIFIED", "BLOCKED"}
    <3>1. classified_count + Cardinality(Unlike(connections, S))
            <= total_seen + Cardinality(Closings(log, Upto))
      BY DEF OpenInv, CountedBy
    <3>2. c.state \in S
      BY <2>2
    <3> HIDE DEF S
    <3>3. classified_count + Cardinality(Unlike(connections', S))
            <= total_seen + Cardinality(Closings(log, Upto))
      BY <2>5, <2>6, <2>7, <3>1, <3>2
    <3> QED
      BY <1>1, <1>2, <3>3 DEF CountedBy, S
  <2>9. CountedBy(blocked_count, {"BLOCKED"})'
    <3> DEFINE S == {"BLOCKED"}
    <3>1. blocked_count + Cardinality(Unlike(connections, S))
            <= total_seen + Cardinality(Closings(log, Upto))
      BY DEF OpenInv, CountedBy
    <3>2. c.state \in S /\ conn.state \notin S
      BY <2>1, <2>2
    <3> HIDE DEF S
    <3>3. blocked_count + 1 + Cardinality(Unlike(connections', S))
            <= total_seen + Cardinality(Closings(log, Upto))
      BY <2>5, <2>6, <2>7, <3>1, <3>2
    <3> QED
      BY <1>1, <1>2, <1>4, <3>3 DEF CountedBy, S
  <2> QED
    BY <2>4, <2>8, <2>9 DEF OpenInv
<1> QED
  BY <1>1, <1>3, <1>4

\* Records that are forgotten are not counted any more.
LEMMA OthersOpen ==
  ASSUME FastPathInv, OpenInv, UNCHANGED <<counts, log, pc>>,
         \A k \in DOMAIN connections' : k \in DOMAIN connections /\ connections'[k] = connections[k]
  PROVE  OpenInv'
<1>1. UNCHANGED <<total_seen, classified_count, blocked_count>> /\ Upto' = Upto
  BY DEF counts, Upto
<1>2. ASSUME NEW S
      PROVE  /\ Cardinality(Unlike(connections, S)) \in Nat
             /\ Cardinality(Unlike(connections', S)) \in Nat
             /\ Cardinality(Unlike(connections', S)) <= Cardinality(Unlike(connections, S))
  <2> DEFINE U == Unlike(connections, S)
             V == Unlike(connections', S)
  <2>1. V \subseteq U /\ U \subseteq DOMAIN connections
    BY DEF Unlike
  <2>2. IsFiniteSet(DOMAIN connections)
    BY DEF FastPathInv, TableInv
  <2> HIDE DEF U, V
  <2>3. IsFiniteSet(U) /\ IsFiniteSet(V) /\ Cardinality(V) <= Cardinality(U)
    BY <2>1, <2>2, FS_Subset
  <2> QED
    BY <2>3, FS_CardinalityType DEF U, V
<1>3. total_seen \in Nat /\ classified_count \in Nat /\ blocked_count \in Nat
  BY DEF FastPathInv, TypeOK, TrackerTypeOK
<1>4. Cardinality(Closings(log, Upto)) \in Nat
  <2>1. Upto \in Int
    BY DEF FastPathInv, TypeOK, Upto
  <2>2. Closings(log, Upto) \subseteq 1 .. Upto /\ IsFiniteSet(1 .. Upto)
    BY <2>1, FS_Interval DEF Closings
  <2> QED
    BY <2>2, FS_Subset, FS_CardinalityType
<1>5. ASSUME NEW n \in Nat, NEW S, CountedBy(n, S)
      PROVE  n + Cardinality(Unlike(connections', S)) <= total_seen + Cardinality(Closings(log, Upto))
  BY <1>2, <1>3, <1>4, <1>5 DEF CountedBy
<1>6. /\ CountedBy(classified_count, {"CLASSIFIED", "BLOCKED"})'
      /\ CountedBy(blocked_count, {"BLOCKED"})'
  <2>1. classified_count + Cardinality(Unlike(connections', {"CLASSIFIED", "BLOCKED"}))
          <= total_seen + Cardinality(Closings(log, Upto))
    BY <1>3, <1>5 DEF OpenInv
  <2>2. blocked_count + Cardinality(Unlike(connections', {"BLOCKED"}))
          <= total_seen + Cardinality(Closings(log, Upto))
    BY <1>3, <1>5 DEF OpenInv
  <2> QED
    BY <1>1, <2>1, <2>2 DEF CountedBy
<1> QED
  BY <1>1, <1>6 DEF OpenInv

\* The report counts a connection as classified, or as blocked, once for every time it is
\* opened or closed, evictions, clean-ups and changes of rules notwithstanding.
THEOREM ConnectionsAreCountedOnce == Spec => []CountedOncePerOpening
<1>1. Init => OpenInv
  <2> SUFFICES ASSUME Init PROVE OpenInv
    OBVIOUS
  <2>1. DOMAIN connections = {} /\ total_seen = 0 /\ classified_count = 0 /\ blocked_count = 0
        /\ log = <<>> /\ pc = "idle"
    BY DEF Init, TrackerInit
  <2>2. /\ Unlike(connections, {"CLASSIFIED", "BLOCKED"}) = {}
        /\ Unlike(connections, {"BLOCKED"}) = {}
    BY <2>1 DEF Unlike
  <2>3. Closings(log, Upto) = {}
    BY <2>1 DEF Closings, Upto
  <2>4. Cardinality({}) = 0
    BY FS_EmptySet
  <2>5. CountedBy(classified_count, {"CLASSIFIED", "BLOCKED"}) /\ CountedBy(blocked_count, {"BLOCKED"})
    <3> DEFINE U == Cardinality(Unlike(connections, {"CLASSIFIED", "BLOCKED"}))
               V == Cardinality(Unlike(connections, {"BLOCKED"}))
               W == Cardinality(Closings(log, Upto))
    <3>1. U = 0 /\ V = 0 /\ W = 0
      BY <2>2, <2>3, <2>4
    <3> HIDE DEF U, V, W
    <3>2. classified_count + U <= total_seen + W /\ blocked_count + V <= total_seen + W
      BY <2>1, <3>1
    <3> QED
      BY <3>2 DEF CountedBy, U, V, W
  <2> QED
    BY <2>1, <2>5 DEF OpenInv
<1>2. FastPathInv /\ CountInv /\ OpenInv /\ [Next]_vars => OpenInv'
  <2> SUFFICES ASSUME FastPathInv, CountInv, OpenInv, [Next]_vars PROVE OpenInv'
    OBVIOUS
  <2>1. CASE Timeout
    <3>1. \A k \in DOMAIN connections' :
            k \in DOMAIN connections /\ connections'[k] = connections[k]
      BY <2>1 DEF Timeout, cleanupStale, Keep
    <3>2. UNCHANGED <<counts, log, pc>>
      BY <2>1 DEF Timeout, localVars
    <3> QED
      BY <3>1, <3>2, OthersOpen
  <2>2. CASE ChangeRules \/ UNCHANGED vars
    <3>1. UNCHANGED <<connections, counts, log, pc>>
      BY <2>2 DEF ChangeRules, vars, trackerVars, localVars
    <3> QED
      BY <3>1, OthersOpen
  <2> QED
    BY <2>1, <2>2, ReceiveOpens, TrackOpens, CheckOpens DEF Next
<1>3. FastPathInv /\ OpenInv => CountedOncePerOpening
  <2> SUFFICES ASSUME FastPathInv, OpenInv PROVE CountedOncePerOpening
    OBVIOUS
  <2> DEFINE closings == {n \in 1 .. Len(log) : Closing(log, n)}
             up == Closings(log, Upto)
             U == Unlike(connections, {"CLASSIFIED", "BLOCKED"})
             V == Unlike(connections, {"BLOCKED"})
  <2>1. Upto \in Int /\ Upto <= Len(log) /\ Len(log) \in Nat
    BY DEF FastPathInv, TypeOK, Upto
  <2>2. up \subseteq closings /\ closings \subseteq 1 .. Len(log) /\ IsFiniteSet(1 .. Len(log))
    <3>1. \A n \in 1 .. Upto : n \in 1 .. Len(log)
      BY <2>1
    <3>2. IsFiniteSet(1 .. Len(log))
      BY <2>1, FS_Interval
    <3> QED
      BY <3>1, <3>2 DEF Closings
  <2>3. U \subseteq DOMAIN connections /\ V \subseteq DOMAIN connections /\ IsFiniteSet(DOMAIN connections)
    BY DEF Unlike, FastPathInv, TableInv
  <2>4. total_seen \in Nat /\ classified_count \in Nat /\ blocked_count \in Nat
    BY DEF FastPathInv, TypeOK, TrackerTypeOK
  <2>5. /\ classified_count + Cardinality(U) <= total_seen + Cardinality(up)
        /\ blocked_count + Cardinality(V) <= total_seen + Cardinality(up)
    BY DEF OpenInv, CountedBy
  <2>6. CountedOncePerOpening <=>
          /\ classified_count <= total_seen + Cardinality(closings)
          /\ blocked_count <= total_seen + Cardinality(closings)
    BY DEF CountedOncePerOpening, Closing
  <2> HIDE DEF closings, up, U, V
  <2>7. /\ IsFiniteSet(closings) /\ IsFiniteSet(up) /\ IsFiniteSet(U) /\ IsFiniteSet(V)
        /\ Cardinality(up) <= Cardinality(closings)
    BY <2>2, <2>3, FS_Subset
  <2>8. /\ Cardinality(closings) \in Nat /\ Cardinality(up) \in Nat
        /\ Cardinality(U) \in Nat /\ Cardinality(V) \in Nat
    BY <2>7, FS_CardinalityType
  <2> QED
    BY <2>4, <2>5, <2>6, <2>7, <2>8
<1> QED
  BY <1>1, <1>2, <1>3, CountSafe, FastPathSafe, PTL DEF Spec

---------------------------------------------------------------------------------
(* The first payload that tells something. *)

\* The packets of a record's flow up to the m-th that tell something, and whether all of
\* its packets left it open.
Telling(c, q, m) == {n \in BothWays(c, q, m) : Tells(q[n])}
NoneClosed(c, q, m) == \A n \in BothWays(c, q, m) : {"FIN", "RST"} \cap q[n].flags = {}

\* c is taken for what the first of them told, or for nothing.
Decided(c, q, m) ==
  \E n \in Telling(c, q, m) : /\ \A j \in Telling(c, q, m) : n <= j
                              /\ <<c.app_type, c.sni>> \in Classification(q[n])
Unknown(c) == c.app_type = "UNKNOWN" /\ c.sni = NoName

Taken(c, q, m) ==
  NoneClosed(c, q, m) =>
    /\ ~c.fin_seen
    /\ \/ c.state = "CLASSIFIED" /\ Decided(c, q, m)
       \/ c.state \in {"NEW", "ESTABLISHED"} /\ Telling(c, q, m) = {} /\ Unknown(c)
       \/ c.state = "BLOCKED" /\ c.action = "DROP" /\ (Decided(c, q, m) \/ Unknown(c))

TakenInv == \A k \in DOMAIN connections : Taken(connections[k], log, Upto)

\* Only the packets of the flow count.
LEMMA TakenKept ==
  ASSUME NEW c, NEW q, NEW m, NEW r, NEW n, Taken(c, q, m),
         BothWays(c, r, n) = BothWays(c, q, m), \A j \in BothWays(c, q, m) : r[j] = q[j]
  PROVE  Taken(c, r, n)
<1>1. NoneClosed(c, r, n) <=> NoneClosed(c, q, m)
  BY DEF NoneClosed
<1>2. Telling(c, r, n) = Telling(c, q, m)
  BY DEF Telling
<1>3. \A j \in Telling(c, q, m) : r[j] = q[j]
  BY DEF Telling
<1>4. Decided(c, r, n) <=> Decided(c, q, m)
  BY <1>2, <1>3 DEF Decided
<1> QED
  BY <1>1, <1>2, <1>4 DEF Taken

LEMMA ReceiveTakes ==
  ASSUME FastPathInv, CountInv, TakenInv, NEW p \in Packets, Receive(p)
  PROVE  TakenInv'
<1>1. pc = "idle" /\ pc' = "track" /\ log' = Append(log, p) /\ log \in Seq(Packets)
  BY DEF Receive, FastPathInv, TypeOK
<1>2. /\ Len(log') = Len(log) + 1 /\ Len(log) \in Nat
      /\ \A j \in 1 .. Len(log) : log'[j] = log[j]
  BY <1>1
<1>3. Upto = Len(log) /\ Upto' = Len(log) /\ clock' = Len(log) + 1
  BY <1>1, <1>2, ReceiveResult DEF Upto, CountInv
<1>4. ASSUME NEW k \in DOMAIN connections'
      PROVE  Taken(connections'[k], log', Len(log))
  <2>1. CASE k \in DOMAIN connections /\ connections'[k] = connections[k]
    <3> DEFINE c == connections[k]
    <3>1. Taken(c, log, Len(log)) /\ c.first_seen \in 1 .. Len(log)
      BY <1>3, <2>1 DEF TakenInv, CountInv, Counted
    <3>2. \A j \in c.first_seen .. Len(log) : log'[j] = log[j]
      BY <1>2, <3>1
    <3>3. BothWays(c, log', Len(log)) = BothWays(c, log, Len(log))
      BY <3>2 DEF BothWays
    <3>4. \A j \in BothWays(c, log, Len(log)) : log'[j] = log[j]
      BY <3>2 DEF BothWays
    <3> HIDE DEF c
    <3>5. Taken(c, log', Len(log))
      BY <3>1, <3>3, <3>4, TakenKept
    <3> QED
      BY <2>1, <3>5 DEF c
  <2>2. CASE connections'[k] = NewConnection(p.tuple, clock')
    <3> DEFINE c == NewConnection(p.tuple, clock')
    <3>1. /\ c.first_seen = Len(log) + 1 /\ c.state = "NEW" /\ Unknown(c)
          /\ c.fin_seen = FALSE
      BY <1>3 DEF NewConnection, Unknown
    <3> HIDE DEF c
    <3>2. Telling(c, log', Len(log)) = {}
      BY <1>2, <3>1 DEF Telling, BothWays
    <3>3. Taken(c, log', Len(log))
      BY <3>1, <3>2 DEF Taken
    <3> QED
      BY <2>2, <3>3 DEF c
  <2> QED
    BY <1>4, <2>1, <2>2, ReceiveResult
<1> QED
  BY <1>3, <1>4 DEF TakenInv

\* The packet that is tracked decides if none before it did.
LEMMA TrackTakes ==
  ASSUME FastPathInv, CountInv, TakenInv, Track
  PROVE  TakenInv'
<1> DEFINE m == Len(log)
<1>1. PICK c, d \in Connection :
        /\ Flagged(c) /\ Inspected(c, d)
        /\ connections' = With(connections, key, d)
  BY TrackStates DEF FastPathInv
<1>2. pc = "track" /\ pc' # "track" /\ UNCHANGED <<log, job>>
  BY DEF Track
<1>3. /\ key \in DOMAIN connections /\ conn \in Connection
      /\ m \in Nat \ {0} /\ log[m] = job /\ Upto = m - 1 /\ Upto' = m
  BY <1>2, TrackedFlow DEF Upto
<1>4. \A k \in DOMAIN connections :
        connections[k].first_seen \in 1 .. m /\ Taken(connections[k], log, m - 1)
  BY <1>3 DEF CountInv, Counted, TakenInv
<1>5. \A k \in DOMAIN connections :
        BothWays(connections[k], log, m) =
          BothWays(connections[k], log, m - 1) \cup (IF k = key THEN {m} ELSE {})
  <2> TAKE k \in DOMAIN connections
  <2>1. SameFlow(log[m].tuple, connections[k].tuple) <=> k = key
    BY <1>2, <1>3, TrackedFlow
  <2>2. connections[k].first_seen .. m = (connections[k].first_seen .. m - 1) \cup {m}
    BY <1>3, <1>4
  <2> QED
    BY <2>1, <2>2 DEF BothWays
<1>6. ASSUME NEW k \in DOMAIN connections, k # key
      PROVE  Taken(connections[k], log, m)
  <2>1. BothWays(connections[k], log, m) = BothWays(connections[k], log, m - 1)
    BY <1>5, <1>6
  <2> QED
    BY <1>4, <2>1, TakenKept
<1>7. Taken(d, log, m)
  <2> DEFINE old == Telling(conn, log, m - 1)
             new == Telling(d, log, m)
  <2>1. /\ d.tuple = conn.tuple /\ d.first_seen = conn.first_seen /\ d.action = conn.action
        /\ d.fin_seen = c.fin_seen
    BY <1>1 DEF Flagged, Inspected
  <2>2. /\ BothWays(d, log, m) = BothWays(conn, log, m)
        /\ BothWays(conn, log, m) = BothWays(conn, log, m - 1) \cup {m}
    BY <1>3, <1>5, <2>1 DEF BothWays, conn
  <2>3. new = old \cup (IF Tells(job) THEN {m} ELSE {})
    BY <1>3, <2>2 DEF Telling
  <2>4. \A n \in old : n <= m /\ n \in Nat
    BY <1>3, <1>4 DEF Telling, BothWays, conn
  <2> SUFFICES ASSUME NoneClosed(d, log, m)
               PROVE  /\ ~d.fin_seen
                      /\ \/ d.state = "CLASSIFIED" /\ Decided(d, log, m)
                         \/ d.state \in {"NEW", "ESTABLISHED"} /\ new = {} /\ Unknown(d)
                         \/ d.state = "BLOCKED" /\ d.action = "DROP"
                            /\ (Decided(d, log, m) \/ Unknown(d))
    BY DEF Taken
  <2>5. NoneClosed(conn, log, m - 1) /\ {"FIN", "RST"} \cap job.flags = {}
    BY <1>3, <2>2 DEF NoneClosed
  <2>6. /\ ~conn.fin_seen
        /\ \/ conn.state = "CLASSIFIED" /\ Decided(conn, log, m - 1)
           \/ conn.state \in {"NEW", "ESTABLISHED"} /\ old = {} /\ Unknown(conn)
           \/ conn.state = "BLOCKED" /\ conn.action = "DROP"
              /\ (Decided(conn, log, m - 1) \/ Unknown(conn))
    BY <1>3, <1>4, <2>5 DEF Taken, conn
  <2>7. ~c.fin_seen /\ ~Closes(c, job.flags)
    BY <1>1, <2>5, <2>6 DEF Flagged, Closes
  <2>8. c.state = conn.state \/ (c.state = "ESTABLISHED" /\ conn.state = "NEW")
    BY <1>1, <2>7 DEF Flagged
  <2>9. /\ c.app_type = conn.app_type /\ c.sni = conn.sni
        /\ Unknown(conn) => Unknown(c)
    BY <1>1 DEF Flagged, Unknown
  <2>10. Decided(conn, log, m - 1) /\ d = c => Decided(d, log, m)
    <3> SUFFICES ASSUME Decided(conn, log, m - 1), d = c PROVE Decided(d, log, m)
      OBVIOUS
    <3>1. PICK n \in old : (\A j \in old : n <= j)
                           /\ <<conn.app_type, conn.sni>> \in Classification(log[n])
      BY DEF Decided
    <3>2. n \in new /\ \A j \in new : n <= j
      BY <2>3, <2>4, <3>1
    <3> QED
      BY <2>9, <3>1, <3>2 DEF Decided
  <2>11. CASE d = c /\ (c.state \in {"BLOCKED", "CLASSIFIED"} \/ ~Tells(job))
    BY <2>1, <2>3, <2>6, <2>7, <2>8, <2>9, <2>10, <2>11
  <2>12. CASE /\ c.state \notin {"BLOCKED", "CLASSIFIED"} /\ Tells(job)
              /\ d.state = "CLASSIFIED" /\ <<d.app_type, d.sni>> \in Classification(job)
    <3>1. new = {m}
      BY <2>3, <2>6, <2>8, <2>12
    <3>2. Decided(d, log, m)
      BY <1>3, <2>12, <3>1 DEF Decided
    <3> QED
      BY <2>1, <2>7, <2>12, <3>2
  <2> QED
    BY <1>1, <2>11, <2>12 DEF Inspected
<1>8. \A k \in DOMAIN connections' : Taken(connections'[k], log, m)
  BY <1>1, <1>6, <1>7 DEF With
<1> QED
  BY <1>2, <1>3, <1>8 DEF TakenInv

\* Blocking leaves a connection what it was taken for.
LEMMA CheckTakes ==
  ASSUME FastPathInv, TakenInv, CheckIP \/ CheckPort \/ CheckApp \/ CheckDomain
  PROVE  TakenInv'
<1>1. /\ pc \in Kinds /\ pc' # "track" /\ UNCHANGED <<job, log>>
      /\ \/ connections' = With(connections, key, blockConnection(conn))
         \/ UNCHANGED connections
  BY CheckResult
<1>2. Upto' = Upto
  BY <1>1 DEF Upto, Kinds
<1>3. CASE UNCHANGED connections
  BY <1>1, <1>2, <1>3 DEF TakenInv
<1>4. CASE connections' = With(connections, key, blockConnection(conn))
  <2> DEFINE c == blockConnection(conn)
  <2>1. key \in DOMAIN connections /\ conn \in Connection /\ Taken(conn, log, Upto)
    BY <1>1 DEF FastPathInv, TableInv, TypeOK, TrackerTypeOK, conn, Kinds, TakenInv
  <2>2. /\ c.state = "BLOCKED" /\ c.action = "DROP" /\ c.fin_seen = conn.fin_seen
        /\ c.tuple = conn.tuple /\ c.first_seen = conn.first_seen
        /\ c.app_type = conn.app_type /\ c.sni = conn.sni
    BY <2>1 DEF blockConnection, Connection
  <2> HIDE DEF c
  <2>3. BothWays(c, log, Upto) = BothWays(conn, log, Upto)
    BY <2>2 DEF BothWays
  <2>4. /\ Telling(c, log, Upto) = Telling(conn, log, Upto)
        /\ NoneClosed(c, log, Upto) <=> NoneClosed(conn, log, Upto)
        /\ Unknown(c) <=> Unknown(conn)
    BY <2>2, <2>3 DEF Telling, NoneClosed, Unknown
  <2>5. Decided(c, log, Upto) <=> Decided(conn, log, Upto)
    BY <2>2, <2>4 DEF Decided
  <2>6. Taken(c, log, Upto)
    BY <2>1, <2>2, <2>4, <2>5 DEF Taken
  <2>7. \A k \in DOMAIN connections' : Taken(connections'[k], log, Upto)
    BY <1>4, <2>1, <2>6 DEF With, TakenInv, c
  <2> QED
    BY <1>1, <1>2, <2>7 DEF TakenInv
<1> QED
  BY <1>1, <1>3, <1>4

\* The first payload that tells something decides what an open conversation is taken for,
\* for any traffic; only one that was blocked before can stay unknown.
THEOREM FirstPayloadsDecide == Spec => []FirstPayloadDecides
<1>1. Init => TakenInv
  BY DEF Init, TrackerInit, TakenInv
<1>2. FastPathInv /\ CountInv /\ TakenInv /\ [Next]_vars => TakenInv'
  <2> SUFFICES ASSUME FastPathInv, CountInv, TakenInv, [Next]_vars PROVE TakenInv'
    OBVIOUS
  <2>1. CASE Timeout \/ ChangeRules \/ UNCHANGED vars
    <3>1. \A k \in DOMAIN connections' :
            k \in DOMAIN connections /\ connections'[k] = connections[k]
      BY <2>1 DEF Timeout, cleanupStale, Keep, ChangeRules, vars, trackerVars
    <3>2. UNCHANGED log /\ Upto' = Upto
      BY <2>1 DEF Timeout, ChangeRules, vars, localVars, Upto
    <3> QED
      BY <3>1, <3>2 DEF TakenInv
  <2> QED
    BY <2>1, ReceiveTakes, TrackTakes, CheckTakes DEF Next
<1>3. TakenInv /\ CountInv => FirstPayloadDecides
  <2> SUFFICES ASSUME TakenInv, CountInv, pc # "track", NEW k \in DOMAIN connections,
                      NoneClosed(connections[k], log, Len(log))
               PROVE  LET c == connections[k]
                          telling == Telling(c, log, Len(log))
                          first == CHOOSE n \in telling : \A m \in telling : n <= m
                      IN  \/ telling # {} /\ <<c.app_type, c.sni>> \in Classification(log[first])
                          \/ (telling = {} \/ c.action = "DROP") /\ Unknown(c)
    BY DEF FirstPayloadDecides, NoneClosed, Telling, BothWays, Unknown, Tells
  <2> DEFINE c == connections[k]
             telling == Telling(c, log, Len(log))
             first == CHOOSE n \in telling : \A m \in telling : n <= m
  <2>1. Taken(c, log, Len(log)) /\ c.first_seen \in 1 .. Len(log)
    BY DEF TakenInv, CountInv, Counted, Upto
  <2>2. telling \subseteq Nat
    BY <2>1 DEF Telling, BothWays
  <2>3. Decided(c, log, Len(log)) =>
          telling # {} /\ <<c.app_type, c.sni>> \in Classification(log[first])
    <3> SUFFICES ASSUME Decided(c, log, Len(log))
                 PROVE  telling # {} /\ <<c.app_type, c.sni>> \in Classification(log[first])
      OBVIOUS
    <3>1. PICK n \in telling : (\A j \in telling : n <= j)
                               /\ <<c.app_type, c.sni>> \in Classification(log[n])
      BY DEF Decided
    <3>2. first \in telling /\ \A j \in telling : first <= j
      BY <3>1
    <3> HIDE DEF telling, first
    <3>3. first = n
      BY <2>2, <3>1, <3>2
    <3> QED
      BY <3>1, <3>3
  <2> QED
    BY <2>1, <2>3 DEF Taken
<1> QED
  BY <1>1, <1>2, <1>3, CountSafe, FastPathSafe, PTL DEF Spec
=================================================================================
