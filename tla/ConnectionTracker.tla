--------------------------- MODULE ConnectionTracker ---------------------------
(***************************************************************************)
(* ConnectionTracker (src/connection_tracker.cpp): the flow table of one   *)
(* fast path thread, keyed by canonicalTuple.  Nobody else touches it, so  *)
(* the operations are functions of the table; FastPath strings together    *)
(* those that a packet goes through.  Byte counts are left out, they are   *)
(* kept next to the packet counts.                                         *)
(*                                                                         *)
(* clock stands for steady_clock: it counts the packets, so no two packets *)
(* read the same time.                                                     *)
(***************************************************************************)
EXTENDS FiveTuple, FiniteSets

CONSTANTS MaxConnections,  \* max_connections_ (100000 in the code)
          Names,           \* what SNI, Host and DNS extraction can return
          NoName,          \* the empty sni
          AppTypes,        \* enum AppType
          MaxPackets       \* bound on clock: packets looked at in one behaviour

ASSUME TrackerAssumption ==
  /\ MaxConnections \in Nat \ {0}
  /\ MaxPackets \in Nat
  /\ NoName \notin Names
  /\ {"UNKNOWN", "HTTP", "HTTPS", "DNS"} \subseteq AppTypes

VARIABLES connections,     \* connections_, by canonical tuple
          clock,
          total_seen, classified_count, blocked_count

counts == <<total_seen, classified_count, blocked_count>>
trackerVars == <<connections, clock, counts>>

ConnectionState == {"NEW", "ESTABLISHED", "CLASSIFIED", "BLOCKED", "CLOSED"}

Connection ==
  [tuple : Tuples, state : ConnectionState, app_type : AppTypes, sni : Names \cup {NoName},
   packets_in : Nat, packets_out : Nat, first_seen : Nat, last_seen : Nat,
   action : {"FORWARD", "DROP"},
   syn_seen : BOOLEAN, syn_ack_seen : BOOLEAN, fin_seen : BOOLEAN]

TrackerTypeOK ==
  /\ DOMAIN connections \subseteq {canonicalTuple(t) : t \in Tuples}
  /\ \A k \in DOMAIN connections : connections[k] \in Connection
  /\ clock \in 0 .. MaxPackets
  /\ total_seen \in Nat /\ classified_count \in Nat /\ blocked_count \in Nat

TrackerInit ==
  /\ connections = [k \in {} |-> {}]
  /\ clock = 0
  /\ total_seen = 0 /\ classified_count = 0 /\ blocked_count = 0

---------------------------------------------------------------------------------
\* Connection{}, for the first packet of a flow.
NewConnection(t, now) ==
  [tuple |-> t, state |-> "NEW", app_type |-> "UNKNOWN", sni |-> NoName,
   packets_in |-> 0, packets_out |-> 0, first_seen |-> now, last_seen |-> now,
   action |-> "FORWARD",
   syn_seen |-> FALSE, syn_ack_seen |-> FALSE, fin_seen |-> FALSE]

With(conns, k, c) == [x \in DOMAIN conns \cup {k} |-> IF x = k THEN c ELSE conns[x]]
Keep(conns, S) == [x \in DOMAIN conns \cap S |-> conns[x]]

\* Mutants: the comparison of evictOldest turned round; the packet counted as
\* outbound when only the source address matches.
Newest(conns) ==
  {k \in DOMAIN conns : \A m \in DOMAIN conns : conns[k].last_seen >= conns[m].last_seen}
DirectionByAddress(c, t) == t.src_ip = c.tuple.src_ip

\* The entries evictOldest may pick: which of several it takes depends on the
\* order of the hash table.
Oldest(conns) ==
  {k \in DOMAIN conns : \A m \in DOMAIN conns : conns[k].last_seen <= conns[m].last_seen}

\* getOrCreateConnection for a flow that is not in the table: insert, then evict
\* if that made the table too large.
Insert(conns, t, now) ==
  LET grown == With(conns, canonicalTuple(t), NewConnection(t, now)) IN
  IF Cardinality(DOMAIN grown) > MaxConnections
    THEN {Keep(grown, DOMAIN grown \ {victim}) : victim \in Oldest(grown)}
    ELSE {grown}

\* The tables getOrCreateConnection may leave.
getOrCreateConnection(conns, t, now) ==
  IF canonicalTuple(t) \in DOMAIN conns THEN {conns} ELSE Insert(conns, t, now)

\* is_outbound in FastPathProcessor::processPacket: the packet goes the way of the
\* flow's first packet.
IsOutbound(c, t) ==
  /\ t.src_ip = c.tuple.src_ip /\ t.dst_ip = c.tuple.dst_ip
  /\ t.src_port = c.tuple.src_port /\ t.dst_port = c.tuple.dst_port

updateConnection(c, outbound, now) ==
  IF outbound THEN [c EXCEPT !.last_seen = now, !.packets_out = @ + 1]
              ELSE [c EXCEPT !.last_seen = now, !.packets_in = @ + 1]

\* Mutant: classified again by every payload.
ClassifiesAgain(c) == TRUE

\* A connection is classified once; the count goes with it.
Classifies(c) == c.state # "CLASSIFIED"
classifyConnection(c, app, name) ==
  IF Classifies(c)
    THEN [c EXCEPT !.app_type = app, !.sni = name, !.state = "CLASSIFIED"]
    ELSE c

blockConnection(c) == [c EXCEPT !.state = "BLOCKED", !.action = "DROP"]

\* cleanupStale: what was last seen before the deadline, and what is CLOSED, goes.
cleanupStale(conns, deadline) ==
  Keep(conns, {k \in DOMAIN conns : /\ conns[k].last_seen >= deadline
                                    /\ conns[k].state # "CLOSED"})
=================================================================================
