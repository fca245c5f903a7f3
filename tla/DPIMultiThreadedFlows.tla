------------------------- MODULE DPIMultiThreadedFlows -------------------------
(***************************************************************************)
(* DPIMultiThreaded with what its fast path threads decide: each has a     *)
(* flow table of its own and asks the shared Rules (src/dpi_mt.cpp).       *)
(* Every step of it is a step of DPIMultiThreaded.                         *)
(***************************************************************************)
EXTENDS DPIMultiThreaded, SingleThreaded

CONSTANT Contents   \* of every frame: [kind, name] as in Packet

ASSUME ContentsAssumption ==
  /\ Contents \in Seq([kind : {"tls", "http", "other"}, name : Names \cup {NoName}])
  /\ Len(Contents) = Len(Frames)

VARIABLES rules,        \* Rules, set before process()
          flows,        \* FastPath::flows_ of every fast path
          app_counts    \* Stats::app_counts

flowVars == <<rules, flows, app_counts>>
allVars == <<vars, flowVars>>

packets ==
  [j \in Jobs |-> [tuple |-> tuple(j), kind |-> Contents[j].kind, name |-> Contents[j].name]]

FlowEntry == [packets : Nat, app_type : AppTypes, sni : Names \cup {NoName},
              blocked : BOOLEAN, classified : BOOLEAN]

\* A flow has an entry in the table of a fast path once that fast path has taken a
\* packet of it, and the entry counts all of them.
FlowsTypeOK ==
  /\ TypeOK
  /\ rules \in RuleSets
  /\ DOMAIN flows = FPs
  /\ app_counts \in [AppTypes -> Nat]
  /\ \A f \in FPs :
       /\ DOMAIN flows[f] = {tuple(j) : j \in processed[f]}
       /\ \A t \in DOMAIN flows[f] :
            /\ flows[f][t] \in FlowEntry
            /\ flows[f][t].packets = Cardinality({j \in processed[f] : tuple(j) = t})

FlowInit ==
  /\ Init
  /\ rules \in RuleSets
  /\ flows = [f \in FPs |-> [t \in {} |-> NewFlow]]
  /\ app_counts = [a \in AppTypes |-> 0]

---------------------------------------------------------------------------------
Named(p) ==
  \/ p.kind = "tls" /\ p.tuple.dst_port = 443
  \/ p.kind = "http" /\ p.tuple.dst_port = 80

\* Mutants: the fallback counts as a classification; the application is recorded
\* as it was before the packet.
ClassifiedByPort(flow, p) ==
  IF Named(p)
    THEN [flow EXCEPT !.sni = p.name, !.app_type = sniToAppType(p.name), !.classified = TRUE]
  ELSE IF 53 \in {p.tuple.src_port, p.tuple.dst_port}
    THEN [flow EXCEPT !.app_type = "DNS", !.classified = TRUE]
  ELSE IF p.tuple.dst_port = 443 THEN [flow EXCEPT !.app_type = "HTTPS", !.classified = TRUE]
  ELSE IF p.tuple.dst_port = 80 THEN [flow EXCEPT !.app_type = "HTTP", !.classified = TRUE]
  ELSE flow
RecordedBefore(before, after) == before

\* Port-based fallback does not mark the flow as classified.
classifyFlow(flow, p) ==
  IF Named(p)
    THEN [flow EXCEPT !.sni = p.name, !.app_type = sniToAppType(p.name), !.classified = TRUE]
  ELSE IF 53 \in {p.tuple.src_port, p.tuple.dst_port}
    THEN [flow EXCEPT !.app_type = "DNS", !.classified = TRUE]
  ELSE IF p.tuple.dst_port = 443 THEN [flow EXCEPT !.app_type = "HTTPS"]
  ELSE IF p.tuple.dst_port = 80 THEN [flow EXCEPT !.app_type = "HTTP"]
  ELSE flow

\* The flow entry whose application recordApp counts the packet under.
Recorded(before, after) == after

\* The entry a packet leaves behind.
Processed(flow, p) ==
  LET seen == [flow EXCEPT !.packets = @ + 1]
  IN  Judged(rules, IF seen.classified THEN seen ELSE classifyFlow(seen, p), p)

\* A fast path takes a packet: classify, ask the rules, record, forward or drop.
FPTake(f) ==
  /\ fpPc[f] = "pop" /\ fpq[f] # <<>>
  /\ LET p      == packets[Head(fpq[f])]
         before == Entry(flows[f], p.tuple)
         after  == Processed(before, p)
     IN  /\ \/ after.blocked /\ FPDrop(f)
            \/ ~after.blocked /\ FPForward(f)
         /\ flows' = [flows EXCEPT ![f] = WithEntry(@, p.tuple, after)]
         /\ app_counts' = [app_counts EXCEPT ![Recorded(before, after).app_type] = @ + 1]
  /\ UNCHANGED rules

\* The other steps of a fast path touch neither its table nor the counts, ...
FlowFPStep(f) ==
  FPTake(f) \/ ((FPCheck(f) \/ FPIdle(f) \/ FPPush(f)) /\ UNCHANGED flowVars)

\* ... nor do the steps of the other threads.
Quietly(A) == A /\ UNCHANGED flowVars

FlowNext ==
  \/ \E i \in LBs : Quietly(LBStep(i))
  \/ \E f \in FPs : FlowFPStep(f)
  \/ Quietly(WriterStep)
  \/ Quietly(ReaderLoop)
  \/ Quietly(MainStep)
  \/ Quietly(Returned)

FlowSpec == FlowInit /\ [][FlowNext]_allVars

\* All threads are scheduled, the calling one included.
FlowFairSpec ==
  /\ FlowSpec
  /\ \A i \in LBs : WF_allVars(Quietly(LBStep(i)))
  /\ \A f \in FPs : WF_allVars(FlowFPStep(f))
  /\ WF_allVars(Quietly(WriterStep))
  /\ WF_allVars(Quietly(ReaderLoop))
  /\ WF_allVars(Quietly(MainStep))

---------------------------------------------------------------------------------
\* The flows on which the two engines look for the same things: main_working.cpp
\* reads names from TCP only and goes on looking after an empty one, dpi_mt.cpp
\* does neither.
comparable ==
  {tuple(j) : j \in packetJobs} \
    {tuple(j) : j \in {k \in packetJobs : Named(packets[k])
                       /\ (tuple(k).protocol # 6 \/ packets[k].name = NoName)}}

single == FlowsAfter(rules, packets, Jobs \ packetJobs)

\* What the single-threaded engine would have decided on packet j.
SingleBlocks(j) == single[j][tuple(j)].blocked
SingleApp(j)    == single[j][tuple(j)].app_type

\* Spread over any number of threads, and in whatever order these run, the packets
\* get the verdicts that the single-threaded engine gives them.
DecidesAsSingleThreaded ==
  \A j \in forwarded \cup dropped :
    tuple(j) \in comparable => (j \in dropped <=> SingleBlocks(j))

\* The application breakdown in the report counts every decided packet under the
\* application the single-threaded engine counts it under.
CountsAsSingleThreaded ==
  (\A j \in packetJobs : tuple(j) \in comparable) =>
    LET alone == {<<j, SingleApp(j)>> : j \in forwarded \cup dropped}
    IN  \A a \in AppTypes : app_counts[a] = Cardinality({x \in alone : x[2] = a})
=================================================================================
