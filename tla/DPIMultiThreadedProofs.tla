------------------------- MODULE DPIMultiThreadedProofs -------------------------
(***************************************************************************)
(* Proofs about the self-contained engine, for any numbers of load         *)
(* balancers and fast paths, any queue size and any input.                 *)
(***************************************************************************)
EXTENDS DPIMultiThreadedFlows, PipelineProofs

\* Where process() is before it stops the load balancers, and after it has stopped
\* the fast paths.  (It never is at "start": it reads where it has started.)
BeforeStop == {"open", "start", "reader", "failed"}
AfterStop  == {"outFlag", "outShut", "outJoin", "close", "done"}

\* The places of process() are before, in, or after the stop of the workers.
LEMMA EnginePhases == Phases(BeforeStop, AfterStop)
BY DEF Phases, BeforeStop, AfterStop, LBPhase, FPPhase, MainPcs

EngineInv == PipelineInv(BeforeStop, AfterStop)

\* The invariant holds at first, ...
LEMMA EngineInit == Init => EngineInv
BY EnginePhases, TypeInit, RoutedInit, InitOrder DEF EngineInv, PipelineInv

\* ... and every step of the engine keeps it.
LEMMA EngineStep == EngineInv /\ [Next]_vars => EngineInv'
<1> SUFFICES ASSUME EngineInv, [Next]_vars PROVE EngineInv'
  OBVIOUS
<1> USE EnginePhases DEF EngineInv
<1>1. CASE WorkerStep \/ ReaderLoop
  BY <1>1, CarriersKeep
<1>2. CASE OpenFails
  <2>1. TypeOK'
    BY <1>2 DEF OpenFails, PipelineInv, TypeOK, MainPcs, workerVars, readerVars,
       lbVars, fpVars, outVars, fileVars, stats
  <2> QED
    BY <1>2, <2>1, MoveKeeps DEF OpenFails, BeforeStop, PipelineInv, NotStarted,
       workerVars, readerVars, lbVars, fpVars, outVars, stats
<1>3. CASE Open
  <2>1. <<Header>> \in Seq(Jobs \cup {Header})
    OBVIOUS
  <2> QED
    BY <1>3, <2>1, StartKeeps DEF Open
<1>4. CASE MainReads
  <2>1. TypeOK'
    BY <1>4, StopType DEF MainReads, PipelineInv, MainPcs
  <2> QED
    BY <1>4, <2>1, MoveKeeps DEF MainReads, ReaderDone, BeforeStop,
       workerVars, readerVars, lbVars, fpVars, outVars, stats
<1>5. CASE StopStep \/ FPStopJoin("outFlag")
  BY <1>5, StopKeeps DEF AfterStop
<1>6. CASE OutputStopFlag("outShut")
  <2>1. TypeOK'
    BY <1>6, StopType DEF PipelineInv, MainPcs
  <2>2. rPc \notin {"open", "read", "push"}
    BY <1>6 DEF OutputStopFlag, PipelineInv, StopOrder
  <2> QED
    BY <1>6, <2>1, <2>2, MoveKeeps DEF OutputStopFlag, AfterStop,
       readerVars, lbVars, fpVars, stats
<1>7. CASE UNCHANGED vars
  BY <1>7, StutterKeeps
<1> QED
  BY <1>1, <1>2, <1>3, <1>4, <1>5, <1>6, <1>7 DEF Next, MainStep, Returned

\* The variables keep their types and the queues their bound.
THEOREM TypeCorrect == Spec => []TypeOK
<1>1. EngineInv => TypeOK
  BY EnginePhases, PipelineSafe DEF EngineInv
<1> QED
  BY <1>1, EngineInit, EngineStep, PTL DEF Spec

\* No two fast paths ever process packets of one conversation.
THEOREM FlowsArePinned == Spec => []FlowPinned
<1>1. EngineInv => FlowPinned
  BY EnginePhases, PipelineSafe DEF EngineInv
<1> QED
  BY <1>1, EngineInit, EngineStep, PTL DEF Spec

\* The stop order of process() discards no packet: when a queue is shut down the
\* threads that push into it have been joined.
THEOREM NothingIsDiscarded == Spec => []NoJobDiscarded
<1>1. EngineInv => NoJobDiscarded
  BY EnginePhases, PipelineSafe DEF EngineInv
<1> QED
  BY <1>1, EngineInit, EngineStep, PTL DEF Spec

---------------------------------------------------------------------------------
\* Without files to work on nothing runs and nothing is written; with them, the header is
\* the first thing in the output, and only packets come after.
IdleInv ==
  /\ mPc \in {"open", "failed"} =>
       /\ rPc = "none" /\ wPc = "none"
       /\ \A i \in LBs : lbPc[i] = "none"
       /\ \A f \in FPs : fpPc[f] = "none"
       /\ file = <<>> /\ forwarded = {} /\ dropped = {}
  /\ mPc \notin {"open", "failed"} =>
       /\ file # <<>> /\ file[1] = Header
       /\ \A k \in 2 .. Len(file) : file[k] \in Jobs

\* The writer goes on until output_running is cleared, and leaves no packet behind.
WriterLast ==
  /\ mPc \in {"open", "failed", "outShut", "outJoin", "close", "done"} \/ outRunning
  /\ wPc = "exited" => outq = <<>> /\ mPc \in {"outShut", "outJoin", "close", "done"}

OutputInv == IdleInv /\ WriterLast /\ OutputOpen

\* The threads that carry the packets keep it, ...
LEMMA CarriersOutput ==
  ASSUME EngineInv, OutputInv, WorkerStep \/ ReaderLoop
  PROVE  OutputInv'
<1> USE DEF lbVars, fpVars, outVars, fileVars, stats, controlVars, readerVars, mainVars
<1>1. TypeOK /\ (mPc \in AfterStop => \A f \in FPs : fpPc[f] = "exited")
  BY DEF EngineInv, PipelineInv, StopOrder
<1>2. mPc \notin {"open", "failed"}
  BY DEF OutputInv, IdleInv, WorkerStep, LBStep, LBCheck, LBIdle, LBPop, LBPush,
     FPStep, FPCheck, FPIdle, FPDrop, FPForward, FPPush,
     WriterStep, WriterCheck, WriterIdle, WriterPop, WriterWrite,
     ReaderLoop, ReaderSkip, ReaderTake, ReaderPush, ReaderEnd
<1>3. OutputOpen'
  BY CarriersKeepOpen DEF OutputInv
<1>4. IdleInv' /\ WriterLast'
  <2>1. ASSUME NEW i \in LBs, LBStep(i) PROVE UNCHANGED <<mPc, file, wPc, outRunning, outq>>
    BY <2>1 DEF LBStep, LBCheck, LBIdle, LBPop, LBPush
  <2>2. ASSUME NEW f \in FPs, FPStep(f)
        PROVE  /\ UNCHANGED <<mPc, file, wPc, outRunning>>
               /\ outq' = outq \/ mPc \notin AfterStop
    BY <1>1, <2>2 DEF FPStep, FPCheck, FPIdle, FPDrop, FPForward, FPPush
  <2>3. ASSUME ReaderLoop PROVE UNCHANGED <<mPc, file, wPc, outRunning, outq>>
    BY <2>3 DEF ReaderLoop, ReaderSkip, ReaderTake, ReaderPush, ReaderEnd, workerVars
  <2>4. CASE UNCHANGED <<mPc, file, wPc, outRunning>> /\ (outq' = outq \/ mPc \notin AfterStop)
    BY <1>2, <2>4 DEF OutputInv, IdleInv, WriterLast, AfterStop
  <2>5. CASE WriterCheck \/ WriterIdle \/ WriterPop
    BY <1>2, <2>5 DEF WriterCheck, WriterIdle, WriterPop, WriterLoops, OutputInv, IdleInv,
       WriterLast
  <2>6. CASE WriterWrite
    <3>1. /\ file \in Seq(Jobs \cup {Header}) /\ file # <<>>
          /\ wJob \in Jobs /\ file' = Append(file, wJob)
      BY <1>1, <1>2, <2>6 DEF WriterWrite, TypeOK, OutputInv, IdleInv, OutputOpen
    <3>2. file' # <<>> /\ file'[1] = Header /\ \A k \in 2 .. Len(file') : file'[k] \in Jobs
      BY <1>2, <3>1 DEF OutputInv, IdleInv
    <3> QED
      BY <1>2, <2>6, <3>2 DEF WriterWrite, OutputInv, IdleInv, WriterLast
  <2> QED
    BY <2>1, <2>2, <2>3, <2>4, <2>5, <2>6 DEF WorkerStep, WriterStep
<1> QED
  BY <1>3, <1>4 DEF OutputInv

\* ... and so does process() itself.
LEMMA MainOutput ==
  ASSUME EngineInv, OutputInv, MainStep
  PROVE  OutputInv'
<1> USE DEF OutputInv, IdleInv, WriterLast, OutputOpen
<1>1. CASE OpenFails
  BY <1>1 DEF OpenFails, workerVars, readerVars, lbVars, fpVars, outVars, fileVars, stats
<1>2. CASE Open
  BY <1>2 DEF Open, StartAll
<1>3. CASE MainReads
  BY <1>3 DEF MainReads, ReaderDone, workerVars, outVars, fileVars
<1>4. CASE StopStep \/ FPStopJoin("outFlag") \/ OutputStopFlag("outShut")
  BY <1>4 DEF StopStep, LBStopFlag, LBStopShutdown, LBStopJoin, FPStopFlag, FPStopShutdown,
     FPStopJoin, OutputStopFlag, OutputShutdown, OutputJoin, CloseFile, workerVars, outVars, fileVars
<1> QED
  BY <1>1, <1>2, <1>3, <1>4 DEF MainStep

\* The packets are in line, and the output is as it should be.
LineOutputInv == OrderInv /\ OutputInv

\* At first the line is empty and nothing runs.
LEMMA LineInit == Init => LineOutputInv
BY OrderInit DEF Init, LineOutputInv, OutputInv, IdleInv, WriterLast, OutputOpen

\* Every step of the engine keeps them so.
LEMMA LineStep == EngineInv /\ LineOutputInv /\ [Next]_vars => LineOutputInv'
<1> SUFFICES ASSUME EngineInv, LineOutputInv, [Next]_vars PROVE LineOutputInv'
  OBVIOUS
<1>1. TypeOK /\ Routed /\ NoJobDiscarded /\ OrderInv /\ OutputInv /\ OutputOpen
  BY EnginePhases, PipelineSafe DEF EngineInv, PipelineInv, LineOutputInv, OutputInv
<1>2. ASSUME OrderInv', OutputInv' PROVE LineOutputInv'
  BY <1>2 DEF LineOutputInv
<1> USE DEF workerVars, lbVars, fpVars, outVars, fileVars, stats, readerVars, mainVars
<1>3. CASE WorkerStep \/ ReaderLoop
  <2>1. wPc = "write" => fileOpen
    BY <1>1 DEF OutputOpen
  <2> QED
    BY <1>1, <1>2, <1>3, <2>1, CarriersKeepLine, CarriersOutput
<1>4. CASE MainStep
  <2> SUFFICES OrderInv'
    BY <1>1, <1>2, <1>4, MainOutput
  <2>1. CASE OpenFails
    BY <1>1, <2>1, OthersKeep DEF OpenFails
  <2>2. CASE Open
    <3>1. file = <<>> /\ file' = <<Header>>
      BY <1>1, <2>2 DEF Open, OutputInv, IdleInv
    <3>2. UNCHANGED <<next, rJob, lbq, lbJob, fpq, fpJob, outq, wJob, dropped, forwarded>>
      BY <2>2 DEF Open, StartAll
    <3> QED
      BY <1>1, <3>1, <3>2, OthersKeep
  <2>3. CASE MainReads \/ StopStep \/ FPStopJoin("outFlag") \/ OutputStopFlag("outShut")
    BY <1>1, <2>3, StopKeepsLine DEF MainReads
  <2> QED
    BY <1>4, <2>1, <2>2, <2>3 DEF MainStep
<1>5. CASE UNCHANGED vars
  <2>1. OrderInv'
    BY <1>1, <1>5, OthersKeep DEF vars, controlVars
  <2>2. OutputInv'
    BY <1>1, <1>5 DEF vars, controlVars, OutputInv, IdleInv, WriterLast, OutputOpen
  <2> QED
    BY <1>2, <2>1, <2>2
<1> QED
  BY <1>3, <1>4, <1>5 DEF Next, Returned

\* No packet that was taken vanishes and none is there twice, not while the engine is stopped
\* either: each is in one queue, in one thread's hands, in the file or in the count of the
\* dropped.
THEOREM NoPacketIsLost == Spec => []EveryJobInOnePlace
<1>1. EngineInv /\ LineOutputInv => EveryJobInOnePlace
  BY OnePlace DEF EngineInv, PipelineInv, LineOutputInv
<1> QED
  BY <1>1, LineInit, LineStep, EngineInit, EngineStep, PTL DEF Spec

\* Whatever the threads do in between, the packets of a conversation are written in the order
\* of the input file.
THEOREM ConversationsStayInOrder == Spec => []FlowOrder
<1>1. LineOutputInv => FlowOrder
  BY DEF LineOutputInv, OrderInv
<1> QED
  BY <1>1, LineInit, LineStep, EngineInit, EngineStep, PTL DEF Spec

\* The header comes first, and after it only packets that were counted as forwarded.
LEMMA FileOfForwarded ==
  ASSUME TypeOK, LineOutputInv
  PROVE  /\ WellFormedFile
         /\ Written = {file[k] : k \in 2 .. Len(file)}
<1>1. /\ file \in Seq(Jobs \cup {Header}) /\ Len(file) \in Nat
      /\ file # <<>> => file[1] = Header
      /\ \A k \in 2 .. Len(file) : file[k] \in Jobs
  BY DEF TypeOK, LineOutputInv, OutputInv, IdleInv
<1>2. Header \notin Jobs
  BY DEF Header, Jobs
<1>3. \A k \in 1 .. Len(file) : file[k] # Header => k \in 2 .. Len(file)
  BY <1>1
<1>4. Written = {file[k] : k \in 2 .. Len(file)}
  BY <1>1, <1>2, <1>3 DEF Written, Elements
<1>5. Written \subseteq forwarded
  <2>1. \A j \in Jobs : j \in Line[9] => j \in forwarded
    BY DEF LineOutputInv, OrderInv, LineInv
  <2> QED
    BY <1>1, <1>4, <2>1, Stages
<1> QED
  BY <1>1, <1>4, <1>5 DEF WellFormedFile

\* Of one call the output is a capture.
THEOREM OutputIsACapture == Spec => []WellFormedFile
<1>1. EngineInv /\ LineOutputInv => WellFormedFile
  BY FileOfForwarded DEF EngineInv, PipelineInv
<1> QED
  BY <1>1, LineInit, LineStep, EngineInit, EngineStep, PTL DEF Spec

\* When the fast paths and the writer have been joined, nothing is on the way between them.
LEMMA JoinedHandsEmpty ==
  ASSUME EngineInv, LineOutputInv, mPc \in {"close", "done"}
  PROVE  \A t \in {2, 4, 6, 7, 8} : Line[t] = {}
<1>1. TypeOK /\ StopOrder(BeforeStop, AfterStop) /\ OutputOpen /\ WriterLast
  BY DEF EngineInv, PipelineInv, LineOutputInv, OutputInv
<1>2. wPc = "exited" /\ outq = <<>> /\ wJob = NoJob
  BY <1>1 DEF OutputOpen, WriterLast, TypeOK
<1>3. rJob = NoJob /\ (\A i \in LBs : lbJob[i] = NoJob) /\ \A f \in FPs : fpJob[f] = NoJob
  BY <1>1 DEF StopOrder, AfterStop, TypeOK
<1>4. NoJob \notin Jobs
  BY DEF NoJob, Jobs
<1> QED
  BY <1>2, <1>3, <1>4, Stages DEF InHand, InHands, Elements

\* What the sleep before the stop was too short for is left in the input queues, and only
\* there: every other packet that was counted is written or dropped.
THEOREM OnlyTheInputQueuesAreLeft == Spec => []OnlyInputQueuesKeepPackets
<1>1. EngineInv /\ LineOutputInv => OnlyInputQueuesKeepPackets
  <2> SUFFICES ASSUME EngineInv, LineOutputInv, mPc = "done"
               PROVE  Taken = Written \cup dropped \cup (UNION {Elements(lbq[i]) : i \in LBs})
                              \cup (UNION {Elements(fpq[f]) : f \in FPs})
    BY DEF OnlyInputQueuesKeepPackets
  <2> DEFINE atLBs == UNION {Elements(lbq[i]) : i \in LBs}
             atFPs == UNION {Elements(fpq[f]) : f \in FPs}
  <2>1. TypeOK
    BY DEF EngineInv, PipelineInv
  <2>2. \A t \in {2, 4, 6, 7, 8} : Line[t] = {}
    BY JoinedHandsEmpty
  <2>3. \A t \in 2 .. 9 : t \in {2, 4, 6, 7, 8} \/ t = 3 \/ t = 5 \/ t = 9
    OBVIOUS
  <2>4. \A j \in Jobs : j \in Taken <=> \/ j \in dropped \/ j \in InQueues(lbq, LBs)
                                        \/ j \in InQueues(fpq, FPs) \/ j \in Written
    BY <2>2, <2>3, Stages DEF LineOutputInv, OrderInv, LineInv
  <2>5. Taken \subseteq Jobs /\ dropped \subseteq Jobs /\ Written \subseteq Jobs
    BY <2>1 DEF Taken, TypeOK, Written, Elements
  <2>6. InQueues(lbq, LBs) = atLBs
    <3>1. \A i \in LBs : Elements(lbq[i]) \subseteq Jobs
      BY <2>1 DEF TypeOK, Elements
    <3> QED
      BY <3>1 DEF InQueues
  <2>7. InQueues(fpq, FPs) = atFPs
    <3>1. \A f \in FPs : Elements(fpq[f]) \subseteq Jobs
      BY <2>1 DEF TypeOK, Elements
    <3> QED
      BY <3>1 DEF InQueues
  <2>8. InQueues(lbq, LBs) \subseteq Jobs /\ InQueues(fpq, FPs) \subseteq Jobs
    BY DEF InQueues
  <2>9. Taken = dropped \cup InQueues(lbq, LBs) \cup InQueues(fpq, FPs) \cup Written
    BY <2>4, <2>5, <2>8
  <2> HIDE DEF atLBs, atFPs
  <2>10. Taken = Written \cup dropped \cup atLBs \cup atFPs
    BY <2>6, <2>7, <2>9
  <2> QED
    BY <2>10 DEF atLBs, atFPs
<1> QED
  BY <1>1, LineInit, LineStep, EngineInit, EngineStep, PTL DEF Spec

---------------------------------------------------------------------------------
\* Tuples with one key are of one conversation.
LEMMA OneConversation ==
  ASSUME NEW s \in FiveTuples, NEW t \in FiveTuples, canonicalTuple(s) = canonicalTuple(t)
  PROVE  SameFlow(s, t)
<1>1. canonicalTuple(s) \in {s, reverse(s)} /\ canonicalTuple(t) \in {t, reverse(t)}
  BY DEF canonicalTuple
<1>2. reverse(reverse(s)) = s /\ reverse(reverse(t)) = t
  BY DEF reverse, FiveTuples
<1> QED
  BY <1>1, <1>2 DEF SameFlow

\* Every packet of its conversation that comes before the one a fast path takes next has been
\* decided on.
LEMMA DecidedBefore ==
  ASSUME TypeOK, Routed, OrderInv, NEW f \in FPs, fpq[f] # <<>>, NEW x, x = Head(fpq[f])
  PROVE  /\ x \in packetJobs /\ x \notin forwarded \cup dropped
         /\ \A p \in packetJobs : p < x /\ conversation[p] = conversation[x] =>
              p \in forwarded \cup dropped
<1> DEFINE rest == [fpq EXCEPT ![f] = Tail(fpq[f])]
<1>1. fpq \in [FPs -> Seq(Jobs)] /\ AllSorted(fpq, FPs) /\ Lanes(fpq, FPs)
  BY LanesApart DEF TypeOK, OrderInv
<1>2. Changes(fpq, rest, f, Tail(fpq[f]))
  BY DEF Changes
<1> HIDE DEF rest
<1>3. /\ x \in Jobs /\ x \in InQueues(fpq, FPs)
      /\ InQueues(fpq, FPs) \subseteq InQueues(rest, FPs) \cup {x}
      /\ Ahead({x}, InQueues(rest, FPs))
  BY <1>1, <1>2, PopLane
<1>4. x \in Line[5] /\ x \in Taken
  BY <1>3, Stages DEF OrderInv, LineInv
<1>5. x \in packetJobs /\ x < next
  BY <1>4 DEF Taken, packetJobs
<1>6. \A u, v \in 1 .. 9 : v < u => Ahead(Line[u], Line[v])
  BY DEF OrderInv, LineInv, Ordered
<1>7. x \notin dropped
  BY <1>3, <1>4, AheadApart DEF OrderInv, LineInv
<1>8. x \notin forwarded
  <2>1. \A t \in 6 .. 9 : Ahead(Line[t], Line[5])
    BY <1>6
  <2> QED
    BY <1>3, <1>4, <2>1, AheadApart DEF OrderInv, LineInv
<1>9. ASSUME NEW p \in packetJobs, p < x, conversation[p] = conversation[x],
             p \notin forwarded \cup dropped
      PROVE  FALSE
  <2>1. p \in Jobs /\ Frames[p].parses /\ ~(x < p) /\ p # x
    BY <1>3, <1>9 DEF packetJobs, Jobs
  <2>2. SameFlow(tuple(x), tuple(p))
    <3>1. tuple(x) \in FiveTuples /\ tuple(p) \in FiveTuples
      BY <1>3, <2>1, JobTuple, DispatchAssumption DEF DispatchAssumption
    <3>2. canonicalTuple(tuple(x)) = canonicalTuple(tuple(p))
      BY <1>3, <1>9, <2>1 DEF conversation
    <3> QED
      BY <3>1, <3>2, OneConversation
  <2>3. p < next
    BY <1>3, <1>5, <1>9, <2>1 DEF TypeOK, Jobs
  <2>4. p \in Taken
    BY <2>1, <2>3 DEF Taken
  <2>5. PICK t \in 2 .. 9 : p \in Line[t]
    BY <1>9, <2>1, <2>4 DEF OrderInv, LineInv
  <2>6. t \in 2 .. 5
    BY <1>9, <2>1, <2>5 DEF OrderInv, LineInv
  <2>7. CASE t < 5
    BY <1>4, <1>6, <2>1, <2>2, <2>5, <2>6, <2>7 DEF Ahead
  <2>8. CASE t = 5
    <3>1. p \in InQueues(rest, FPs)
      BY <1>3, <2>1, <2>5, <2>8, Stages
    <3> QED
      BY <1>3, <2>1, <2>2, <3>1 DEF Ahead
  <2> QED
    BY <2>6, <2>7, <2>8
<1> QED
  BY <1>5, <1>7, <1>8, <1>9

\* The packet the writer has in its hands is not written yet, and every one of its
\* conversation that was forwarded and comes before it is.
LEMMA WrittenBefore ==
  ASSUME TypeOK, OrderInv, wJob # NoJob
  PROVE  /\ wJob \in packetJobs /\ wJob \in forwarded \ Written
         /\ \A p \in packetJobs : p < wJob /\ conversation[p] = conversation[wJob] /\ p \in forwarded
              => p \in Written
<1>1. wJob \in Jobs /\ Line[8] = {wJob}
  BY Stages DEF TypeOK, InHand
<1>2. wJob \in Taken /\ wJob \in forwarded
  BY <1>1 DEF OrderInv, LineInv
<1>3. wJob \in packetJobs
  BY <1>2 DEF Taken, packetJobs
<1>4. \A u, v \in 1 .. 9 : v < u => Ahead(Line[u], Line[v])
  BY DEF OrderInv, LineInv, Ordered
<1>5. wJob \notin Written
  BY <1>1, <1>4, AheadApart, Stages
<1>6. ASSUME NEW p \in packetJobs, p < wJob, conversation[p] = conversation[wJob], p \in forwarded
      PROVE  p \in Written
  <2>1. p \in Jobs /\ ~(wJob < p) /\ p # wJob
    BY <1>1, <1>6 DEF packetJobs, Jobs
  <2>2. SameFlow(tuple(wJob), tuple(p))
    <3>1. tuple(wJob) \in FiveTuples /\ tuple(p) \in FiveTuples
      BY <1>1, <2>1, JobTuple, DispatchAssumption DEF DispatchAssumption
    <3>2. canonicalTuple(tuple(wJob)) = canonicalTuple(tuple(p))
      BY <1>1, <1>6, <2>1 DEF conversation
    <3> QED
      BY <3>1, <3>2, OneConversation
  <2>3. PICK t \in 6 .. 9 : p \in Line[t]
    BY <1>6, <2>1 DEF OrderInv, LineInv
  <2>4. ~(t < 8)
    BY <1>1, <1>4, <2>1, <2>2, <2>3 DEF Ahead
  <2>5. t # 8
    BY <1>1, <2>1, <2>3
  <2>6. t = 9
    BY <2>3, <2>4, <2>5
  <2> QED
    BY <2>3, <2>6, Stages
<1> QED
  BY <1>2, <1>3, <1>5, <1>6

\* The packets in the output, by position.
LEMMA OutputPackets ==
  ASSUME TypeOK, LineOutputInv
  PROVE  Filter!Written = Written
<1>1. Written = {file[k] : k \in 2 .. Len(file)} /\ file \in Seq(Jobs \cup {Header})
  BY FileOfForwarded DEF TypeOK
<1>2. CASE file = <<>>
  BY <1>1, <1>2 DEF Filter!Written
<1>3. CASE file # <<>>
  <2>1. /\ Len(file) \in Nat /\ Len(Tail(file)) = Len(file) - 1
        /\ \A k \in 1 .. Len(Tail(file)) : Tail(file)[k] = file[k + 1]
    BY <1>1, <1>3
  <2>2. \A k \in 2 .. Len(file) : k - 1 \in 1 .. Len(Tail(file)) /\ (k - 1) + 1 = k
    BY <2>1
  <2>3. {Tail(file)[k] : k \in 1 .. Len(Tail(file))} = {file[k] : k \in 2 .. Len(file)}
    BY <2>1, <2>2
  <2> QED
    BY <1>1, <1>3, <2>3 DEF Filter!Written
<1> QED
  BY <1>2, <1>3

\* While a worker is at work the call is not over.
LEMMA WorkersRun ==
  ASSUME EngineInv, LineOutputInv, mPc \in {"done", "failed"}
  PROVE  ~WorkerStep /\ ~ReaderLoop
<1>1. /\ mPc \in AfterStop => \A i \in LBs : lbPc[i] = "exited"
      /\ mPc \in AfterStop => \A f \in FPs : fpPc[f] = "exited"
      /\ mPc \in {"close", "done"} => wPc = "exited"
      /\ rPc \in {"open", "read", "push"} => mPc = "reader"
      /\ mPc = "failed" => /\ rPc = "none" /\ wPc = "none"
                           /\ \A i \in LBs : lbPc[i] = "none"
                           /\ \A f \in FPs : fpPc[f] = "none"
  BY DEF EngineInv, PipelineInv, StopOrder, AfterStop, LineOutputInv, OutputInv, OutputOpen, IdleInv
<1>2. /\ \A i \in LBs : lbPc[i] \in {"none", "exited"}
      /\ \A f \in FPs : fpPc[f] \in {"none", "exited"}
      /\ wPc \in {"none", "exited"} /\ rPc \notin {"open", "read", "push"}
  BY <1>1 DEF AfterStop
<1> QED
  BY <1>2 DEF WorkerStep, LBStep, LBCheck, LBIdle, LBPop, LBPush,
     FPStep, FPCheck, FPIdle, FPDrop, FPForward, FPPush,
     WriterStep, WriterCheck, WriterIdle, WriterPop, WriterWrite,
     ReaderLoop, ReaderSkip, ReaderTake, ReaderPush, ReaderEnd

\* Every step of the engine is a step of the filter, or one it does not see: a fast path
\* decides when it pops, the writer writes, and process() returns when it closes the file.
LEMMA StepFilters ==
  ASSUME EngineInv, LineOutputInv, [Next]_vars
  PROVE  [Filter!Next]_(Filter!filterVars)
<1>1. /\ TypeOK /\ Routed /\ OrderInv /\ OutputOpen /\ IdleInv
      /\ Filter!Written = Written
  BY OutputPackets DEF EngineInv, PipelineInv, LineOutputInv, OutputInv
<1> USE DEF lbVars, fpVars, outVars, fileVars, stats, controlVars, readerVars, mainVars
<1>2. ASSUME UNCHANGED <<forwarded, dropped, file>>,
             mPc' \in {"done", "failed"} <=> mPc \in {"done", "failed"},
             mPc \in {"done", "failed"} => mPc' = mPc
      PROVE  UNCHANGED Filter!filterVars
  BY <1>2 DEF Filter!filterVars
<1>3. ASSUME NEW f \in FPs, FPDrop(f) \/ FPForward(f) PROVE Filter!Next
  <2> DEFINE x == Head(fpq[f])
  <2>1. /\ fpq[f] # <<>> /\ UNCHANGED <<file, mPc>>
        /\ \/ dropped' = dropped \cup {x} /\ forwarded' = forwarded
           \/ forwarded' = forwarded \cup {x} /\ dropped' = dropped
    BY <1>3 DEF FPDrop, FPForward
  <2>2. mPc \notin {"done", "failed"}
    BY <1>3, WorkersRun DEF WorkerStep, FPStep
  <2>3. /\ x \in packetJobs /\ x \notin forwarded \cup dropped
        /\ \A p \in packetJobs : p < x /\ conversation[p] = conversation[x] =>
             p \in forwarded \cup dropped
    BY <1>1, <2>1, DecidedBefore
  <2> HIDE DEF x
  <2>4. Filter!Decide(x)
    BY <2>1, <2>2, <2>3 DEF Filter!Decide, Filter!Decided, Filter!Before
  <2> QED
    BY <2>3, <2>4 DEF Filter!Next
<1>4. ASSUME WriterWrite PROVE Filter!Next
  <2>1. /\ wJob # NoJob /\ wJob \in Jobs /\ file' = Append(file, wJob)
        /\ UNCHANGED <<forwarded, dropped, mPc>>
    BY <1>1, <1>4 DEF WriterWrite, TypeOK, OutputOpen
  <2>2. mPc \notin {"done", "failed"}
    BY <1>4, WorkersRun DEF WorkerStep, WriterStep
  <2>3. /\ wJob \in packetJobs /\ wJob \in forwarded \ Written
        /\ \A p \in packetJobs : p < wJob /\ conversation[p] = conversation[wJob] /\ p \in forwarded
             => p \in Written
    BY <1>1, <2>1, WrittenBefore
  <2>4. file # <<>> /\ file \in Seq(Jobs \cup {Header})
    BY <1>1, <1>4 DEF WriterWrite, IdleInv, TypeOK
  <2>5. file' # <<>> /\ Tail(file') = Append(Tail(file), wJob)
    BY <2>1, <2>4
  <2>6. Filter!Write(wJob)
    BY <1>1, <2>1, <2>2, <2>3, <2>4, <2>5 DEF Filter!Write, Filter!Before
  <2> QED
    BY <2>3, <2>6 DEF Filter!Next
<1>5. ASSUME CloseFile PROVE Filter!Next
  <2>1. mPc = "close" /\ mPc' = "done" /\ UNCHANGED <<forwarded, dropped, file>>
    BY <1>5 DEF CloseFile
  <2>2. forwarded \subseteq Written
    <3>1. \A t \in {6, 7, 8} : Line[t] = {}
      BY <2>1, JoinedHandsEmpty
    <3>2. \A t \in 6 .. 9 : t \in {6, 7, 8} \/ t = 9
      OBVIOUS
    <3> QED
      BY <1>1, <3>1, <3>2, Stages DEF OrderInv, LineInv, TypeOK
  <2> QED
    BY <1>1, <2>1, <2>2 DEF Filter!Next, Filter!Return
<1>6. ASSUME OpenFails PROVE Filter!Next
  <2>1. /\ mPc = "open" /\ mPc' = "failed" /\ UNCHANGED <<forwarded, dropped, file>>
        /\ forwarded = {} /\ dropped = {}
    BY <1>1, <1>6 DEF OpenFails, IdleInv, workerVars
  <2> QED
    BY <2>1 DEF Filter!Next, Filter!Fail, Filter!Decided
<1>7. ASSUME Open PROVE UNCHANGED Filter!filterVars
  <2>1. /\ mPc = "open" /\ mPc' = "reader" /\ UNCHANGED <<forwarded, dropped>>
        /\ file = <<>> /\ file' = <<Header>>
    BY <1>1, <1>7 DEF Open, IdleInv
  <2>2. Tail(<<Header>>) = <<>>
    OBVIOUS
  <2> QED
    BY <2>1, <2>2 DEF Filter!filterVars
<1>8. CASE WorkerStep
  <2>1. ASSUME NEW i \in LBs, LBStep(i) PROVE UNCHANGED <<forwarded, dropped, file, mPc>>
    BY <2>1 DEF LBStep, LBCheck, LBIdle, LBPop, LBPush
  <2>2. ASSUME NEW f \in FPs, FPCheck(f) \/ FPIdle(f) \/ FPPush(f)
        PROVE  UNCHANGED <<forwarded, dropped, file, mPc>>
    BY <2>2 DEF FPCheck, FPIdle, FPPush
  <2>3. ASSUME WriterCheck \/ WriterIdle \/ WriterPop
        PROVE  UNCHANGED <<forwarded, dropped, file, mPc>>
    BY <2>3 DEF WriterCheck, WriterIdle, WriterPop
  <2> QED
    BY <1>2, <1>3, <1>4, <1>8, <2>1, <2>2, <2>3 DEF WorkerStep, FPStep, WriterStep
<1>9. CASE ReaderLoop
  <2>1. UNCHANGED <<forwarded, dropped, file, mPc>>
    BY <1>9 DEF ReaderLoop, ReaderSkip, ReaderTake, ReaderPush, ReaderEnd, workerVars
  <2> QED
    BY <1>2, <2>1
<1>10. CASE MainStep
  <2>1. CASE \/ MainReads \/ FPStopJoin("outFlag") \/ OutputStopFlag("outShut")
             \/ StopStep /\ ~CloseFile
    <3>1. /\ UNCHANGED <<forwarded, dropped, file>>
          /\ mPc \notin {"done", "failed"} /\ mPc' \notin {"done", "failed"}
      BY <2>1 DEF MainReads, ReaderDone, StopStep, LBStopFlag, LBStopShutdown, LBStopJoin,
         FPStopFlag, FPStopShutdown, FPStopJoin, OutputStopFlag, OutputShutdown, OutputJoin,
         workerVars
    <3> QED
      BY <1>2, <3>1
  <2> QED
    BY <1>5, <1>6, <1>7, <1>10, <2>1 DEF MainStep, StopStep
<1>11. CASE UNCHANGED vars
  BY <1>2, <1>11 DEF vars, workerVars
<1> QED
  BY <1>8, <1>9, <1>10, <1>11 DEF Next, Returned

\* Seen from outside the engine is a filter, at every step: packets are decided in the order of
\* their conversation, written in that order, and process() returns only when all that was
\* forwarded is in the file.
THEOREM EngineFilters == Spec => Filter!Init /\ [][Filter!Next]_(Filter!filterVars)
<1>1. Init => Filter!Init
  BY DEF Init, Filter!Init
<1> QED
  BY <1>1, StepFilters, LineInit, LineStep, EngineInit, EngineStep, PTL DEF Spec

\* So all that is left of the filter's promise is that the call comes back.
THEOREM FiltersIfItReturns == Spec /\ EngineReturns => ImplementsPacketFilter
<1>1. mPc \in {"done", "failed"} =>
        (IF mPc \in {"done", "failed"} THEN mPc ELSE "running") # "running"
  OBVIOUS
<1> QED
  BY <1>1, EngineFilters, PTL DEF EngineReturns, ImplementsPacketFilter, Filter!Spec

---------------------------------------------------------------------------------
(* The loop of src/main_working.cpp: its recursive definition has a solution, and what each *)
(* packet does to the entry of each flow.                                                   *)

\* Induction over the naturals in a form without a predicate for a parameter: a
\* non-empty set of numbers has a least element.
LEMMA LeastNumber ==
  ASSUME NEW T, T \subseteq Nat, T # {}
  PROVE  \E x \in T : \A y \in T : ~(y < x)
<1> DEFINE R == {ss \in Nat \X Nat : ss[1] < ss[2]}
<1>1. IsWellFoundedOn(R, Nat)
  BY NatLessThanWellFounded DEF OpToRel
<1>2. \A x, y \in Nat : ~(<<y, x>> \in R) => ~(y < x)
  OBVIOUS
<1> HIDE DEF R
<1>3. \E x \in T : \A y \in T : ~(<<y, x>> \in R)
  BY <1>1, WFMin
<1> QED
  BY <1>2, <1>3

---------------------------------------------------------------------------------
\* The table after frame n, from a table that holds what was there before it.
TableAfter(rs, ps, sk, tables, n) ==
  IF n = 0 THEN [t \in {} |-> NewFlow]
  ELSE IF n \in sk THEN tables[n - 1]
  ELSE LET p == ps[n]
           flow == Inspected(Entry(tables[n - 1], p.tuple), p)
       IN  WithEntry(tables[n - 1], p.tuple, Judged(rs, flow, p))

\* These are the tables after the first N frames.
Run(rs, ps, sk, N, tables) ==
  tables = [n \in 0 .. N |-> TableAfter(rs, ps, sk, tables, n)]

\* The loop can be run for any number of frames ...
LEMMA TablesExist ==
  ASSUME NEW rs, NEW ps, NEW sk, NEW N \in Nat
  PROVE  \E tables : Run(rs, ps, sk, N, tables)
<1> DEFINE After(tables, n) == TableAfter(rs, ps, sk, tables, n)
           Runs(m) == \E tables : tables = [n \in 0 .. m |-> After(tables, n)]
           Fails == {m \in Nat : ~Runs(m)}
<1>1. \A g, h, n : (n # 0 => g[n - 1] = h[n - 1]) => After(g, n) = After(h, n)
  BY DEF TableAfter
<1>2. Runs(0)
  <2> DEFINE g == [n \in 0 .. 0 |-> After(<<>>, n)]
  <2> HIDE DEF After
  <2>1. g = [n \in 0 .. 0 |-> After(g, n)]
    BY <1>1
  <2> QED
    BY <2>1
<1>3. ASSUME NEW m \in Nat, Runs(m) PROVE Runs(m + 1)
  <2> HIDE DEF After
  <2> PICK g : g = [n \in 0 .. m |-> After(g, n)]
    BY <1>3
  <2> DEFINE h == [n \in 0 .. m + 1 |-> After(g, n)]
  <2>1. \A n \in 0 .. m : h[n] = g[n]
    OBVIOUS
  <2>2. \A n \in 0 .. m + 1 : n # 0 => g[n - 1] = h[n - 1]
    BY <2>1
  <2>3. h = [n \in 0 .. m + 1 |-> After(h, n)]
    <3> HIDE DEF h
    <3>1. \A n \in 0 .. m + 1 : After(g, n) = After(h, n)
      <4> TAKE n \in 0 .. m + 1
      <4>1. n # 0 => g[n - 1] = h[n - 1]
        BY <2>2
      <4> QED
        BY <4>1, <1>1
    <3> QED
      BY <3>1 DEF h
  <2> HIDE DEF h
  <2> QED
    BY <2>3
<1> HIDE DEF Runs
<1>4. Fails = {}
  <2> SUFFICES ASSUME Fails # {} PROVE FALSE
    OBVIOUS
  <2>1. PICK m \in Fails : \A k \in Fails : ~(k < m)
    BY LeastNumber
  <2>2. m \in Nat /\ m # 0
    BY <1>2
  <2>3. m - 1 \in Nat /\ m - 1 \notin Fails
    BY <2>1, <2>2
  <2> QED
    BY <1>3, <2>3, <2>2
<1>5. Runs(N)
  BY <1>4
<1> QED
  BY <1>5 DEF Runs, Run

\* ... and FlowsAfter is such a run.
LEMMA FlowsAfterRuns ==
  ASSUME NEW rs, NEW ps, NEW sk, Len(ps) \in Nat
  PROVE  Run(rs, ps, sk, Len(ps), FlowsAfter(rs, ps, sk))
<1> DEFINE IsRun(g) == Run(rs, ps, sk, Len(ps), g)
<1>1. \E g : IsRun(g)
  BY TablesExist
<1>2. FlowsAfter(rs, ps, sk) = CHOOSE g : IsRun(g)
  BY DEF FlowsAfter, TableAfter, Run
<1> HIDE DEF IsRun
<1>3. IsRun(CHOOSE g : IsRun(g))
  BY <1>1
<1>4. IsRun(FlowsAfter(rs, ps, sk))
  BY <1>2, <1>3
<1> QED
  BY <1>4 DEF IsRun

---------------------------------------------------------------------------------
\* The entry of flow t after n frames, as the next packet of t would find it.
Alone(rs, ps, sk, n, t) ==
  Entry(FlowsAfter(rs, ps, sk)[n], t)

\* No flow has been seen at first.
LEMMA AloneAtFirst ==
  ASSUME NEW rs, NEW ps, NEW sk, NEW t, Len(ps) \in Nat
  PROVE  Alone(rs, ps, sk, 0, t) = NewFlow
BY FlowsAfterRuns DEF Alone, Run, TableAfter, Entry

\* A packet is inspected and judged, and changes the entry of its flow.
LEMMA AloneTakes ==
  ASSUME NEW rs, NEW ps, NEW sk, Len(ps) \in Nat,
         NEW n \in 1 .. Len(ps), n \notin sk
  PROVE  LET p == ps[n]
             before == Alone(rs, ps, sk, n - 1, p.tuple)
             after == Alone(rs, ps, sk, n, p.tuple)
         IN  /\ after = Judged(rs, Inspected(before, p), p)
             /\ FlowsAfter(rs, ps, sk)[n][p.tuple] = after
<1> DEFINE tables == FlowsAfter(rs, ps, sk)
<1>1. tables[n] = TableAfter(rs, ps, sk, tables, n)
  BY FlowsAfterRuns DEF Run
<1> HIDE DEF tables
<1>2. tables[n] = WithEntry(tables[n - 1], ps[n].tuple,
         Judged(rs, Inspected(Entry(tables[n - 1], ps[n].tuple), ps[n]), ps[n]))
  BY <1>1 DEF TableAfter
<1> QED
  BY <1>2 DEF tables, Alone, WithEntry, Entry

\* All other frames leave the entry of a flow as it is.
LEMMA AloneLeaves ==
  ASSUME NEW rs, NEW ps, NEW sk, Len(ps) \in Nat,
         NEW n \in 1 .. Len(ps), NEW t, n \in sk \/ ps[n].tuple # t
  PROVE  Alone(rs, ps, sk, n, t) = Alone(rs, ps, sk, n - 1, t)
<1> DEFINE tables == FlowsAfter(rs, ps, sk)
<1>1. tables[n] = TableAfter(rs, ps, sk, tables, n)
  BY FlowsAfterRuns DEF Run
<1> HIDE DEF tables
<1>2. CASE n \in sk
  BY <1>1, <1>2 DEF TableAfter, tables, Alone
<1>3. CASE n \notin sk
  <2> DEFINE flow == Judged(rs, Inspected(Entry(tables[n - 1], ps[n].tuple), ps[n]), ps[n])
  <2>1. tables[n] = WithEntry(tables[n - 1], ps[n].tuple, flow)
    BY <1>1, <1>3 DEF TableAfter
  <2>2. ps[n].tuple # t
    BY <1>3
  <2> HIDE DEF flow
  <2> QED
    BY <2>1, <2>2 DEF tables, Alone, WithEntry, Entry
<1> QED
  BY <1>2, <1>3

\* Between two frames with no packet of t after the first the entry of t is the same.
LEMMA AloneUntil ==
  ASSUME NEW rs, NEW ps, NEW sk, Len(ps) \in Nat, NEW t,
         NEW m \in 0 .. Len(ps), NEW n \in m .. Len(ps),
         \A k \in m + 1 .. n : k \in sk \/ ps[k].tuple # t
  PROVE  Alone(rs, ps, sk, n, t) = Alone(rs, ps, sk, m, t)
<1> DEFINE E(k) == Alone(rs, ps, sk, k, t)
           Changed == {k \in m .. n : E(k) # E(m)}
<1>1. \A k \in m + 1 .. n : E(k) = E(k - 1)
  BY AloneLeaves
<1> HIDE DEF E
<1>2. Changed = {}
  <2> SUFFICES ASSUME Changed # {} PROVE FALSE
    OBVIOUS
  <2>1. Changed \subseteq Nat
    OBVIOUS
  <2>2. PICK k \in Changed : \A i \in Changed : ~(i < k)
    BY <2>1, LeastNumber
  <2>3. k \in m + 1 .. n
    OBVIOUS
  <2>4. k - 1 \notin Changed
    BY <2>2, <2>3
  <2> QED
    BY <1>1, <2>3, <2>4
<1> QED
  BY <1>2 DEF E

---------------------------------------------------------------------------------
\* The steps of the engine with its flow tables and rules are steps of an engine whose
\* verdicts are open, ...
LEMMA FlowStepImplements == [FlowNext]_allVars => [Next]_vars
<1>1. ASSUME NEW f \in FPs, FlowFPStep(f) PROVE Next
  BY <1>1 DEF FlowFPStep, FPTake, Next, WorkerStep, FPStep
<1>2. ASSUME NEW i \in LBs, Quietly(LBStep(i)) PROVE Next
  BY <1>2 DEF Quietly, Next, WorkerStep
<1>3. Quietly(WriterStep) \/ Quietly(ReaderLoop) \/ Quietly(MainStep) \/ Quietly(Returned)
        => Next
  BY DEF Quietly, Next, WorkerStep
<1>4. UNCHANGED allVars => UNCHANGED vars
  BY DEF allVars
<1> QED
  BY <1>1, <1>2, <1>3, <1>4 DEF FlowNext

\* ... so it is one.
THEOREM FlowsImplementPipeline == FlowSpec => Spec
<1>1. FlowInit => Init
  BY DEF FlowInit
<1> QED
  BY <1>1, FlowStepImplements, PTL DEF FlowSpec, Spec

---------------------------------------------------------------------------------
\* An entry of dpi_mt.cpp and one of main_working.cpp that come to the same: what is known
\* of the flow is the same, and dpi_mt.cpp has stopped to look for more exactly when
\* main_working.cpp would not find more.
SameEntry(flow, alone, t) ==
  /\ flow \in FlowEntry /\ alone \in FlowEntry
  /\ flow.sni = alone.sni /\ flow.app_type = alone.app_type /\ flow.blocked = alone.blocked
  /\ flow.classified =>
       alone.app_type # "UNKNOWN" /\ (alone.sni # NoName \/ alone.app_type = "DNS")
  /\ ~flow.classified => alone.sni = NoName
  /\ ~flow.classified /\ alone.app_type # "UNKNOWN" =>
       /\ 53 \notin {t.src_port, t.dst_port}
       /\ \/ t.dst_port = 443 /\ alone.app_type = "HTTPS"
          \/ t.dst_port = 80 /\ alone.app_type = "HTTP"

\* Flows nobody has seen a packet of.
LEMMA NewSame == \A t : SameEntry(NewFlow, NewFlow, t)
BY FlowAssumption DEF SameEntry, NewFlow, FlowEntry, FlowAssumption

\* A packet of a flow on which both look for the same things leaves such entries behind.
LEMMA PacketSame ==
  ASSUME NEW p, NEW flow, NEW alone, SameEntry(flow, alone, p.tuple),
         p.name \in Names \cup {NoName},
         Named(p) => p.tuple.protocol = 6 /\ p.name # NoName
  PROVE  SameEntry(Processed(flow, p), Judged(rules, Inspected(alone, p), p), p.tuple)
<1> DEFINE port == p.tuple.dst_port
           dns == 53 \in {p.tuple.src_port, p.tuple.dst_port}
           app == sniToAppType(p.name)
           seen == [flow EXCEPT !.packets = @ + 1]
           met == [alone EXCEPT !.packets = @ + 1]
           after == IF seen.classified THEN seen ELSE classifyFlow(seen, p)
<1> USE DEF FlowEntry
<1>1. SameEntry(seen, met, p.tuple)
  BY DEF SameEntry
<1>2. Named(p) => app \in AppTypes \ {"UNKNOWN"}
  BY FlowAssumption DEF FlowAssumption
<1>3. {"UNKNOWN", "HTTP", "HTTPS", "DNS"} \subseteq AppTypes /\ NoName \notin Names
  BY FlowAssumption DEF FlowAssumption
<1> HIDE DEF seen, met, app
<1>4. SameEntry(after, Inspected(alone, p), p.tuple)
  <2>1. Inspected(alone, p) = FromPort(FromDnsPort(FromRequest(FromHello(met, p), p), p), p)
    BY DEF Inspected, met
  <2>2. CASE seen.classified
    <3>1. after = seen
      BY <2>2
    <3>2. FromHello(met, p) = met
      BY <1>1, <2>2 DEF SameEntry, FromHello
    <3>3. FromRequest(met, p) = met
      BY <1>1, <2>2 DEF SameEntry, FromRequest
    <3>4. FromDnsPort(met, p) = met /\ FromPort(met, p) = met
      BY <1>1, <2>2 DEF SameEntry, FromDnsPort, FromPort
    <3> QED
      BY <1>1, <2>1, <3>1, <3>2, <3>3, <3>4
  <2>3. CASE ~seen.classified /\ Named(p)
    <3> DEFINE named == [met EXCEPT !.sni = p.name, !.app_type = app]
    <3>1. after = [seen EXCEPT !.sni = p.name, !.app_type = app, !.classified = TRUE]
      BY <2>3 DEF classifyFlow, app
    <3>2. SameEntry(after, named, p.tuple)
      <4>1. after \in FlowEntry /\ named \in FlowEntry
        BY <1>1, <1>2, <1>3, <2>3, <3>1 DEF SameEntry
      <4>2. /\ after.sni = p.name /\ after.app_type = app /\ after.classified
            /\ named.sni = p.name /\ named.app_type = app /\ after.blocked = named.blocked
        BY <1>1, <3>1 DEF SameEntry
      <4> HIDE DEF after, named, FlowEntry
      <4> QED
        BY <1>2, <2>3, <4>1, <4>2 DEF SameEntry
    <3>3. named.sni # NoName /\ named.app_type # "UNKNOWN"
      BY <1>1, <1>2, <2>3 DEF SameEntry
    <3>4. FromRequest(FromHello(met, p), p) = named
      <4>1. CASE p.kind = "tls" /\ port = 443
        <5>1. FromHello(met, p) = named
          BY <1>1, <2>3, <4>1 DEF SameEntry, FromHello, app
        <5> QED
          BY <5>1, <4>1 DEF FromRequest
      <4>2. CASE p.kind = "http" /\ port = 80
        <5>1. FromHello(met, p) = met
          BY <4>2 DEF FromHello
        <5>2. FromRequest(met, p) = named
          BY <1>1, <2>3, <4>2 DEF SameEntry, FromRequest, app
        <5> QED
          BY <5>1, <5>2
      <4> QED
        BY <2>3, <4>1, <4>2 DEF Named
    <3> HIDE DEF named
    <3>5. FromDnsPort(named, p) = named /\ FromPort(named, p) = named
      BY <3>3 DEF FromDnsPort, FromPort
    <3> QED
      BY <2>1, <3>2, <3>4, <3>5
  <2>4. CASE ~seen.classified /\ ~Named(p)
    <3>1. FromRequest(FromHello(met, p), p) = met
      BY <2>4 DEF FromRequest, FromHello, Named
    <3>2. CASE dns
      <4>1. met.app_type = "UNKNOWN"
        BY <1>1, <2>4, <3>2 DEF SameEntry
      <4>2. after = [seen EXCEPT !.app_type = "DNS", !.classified = TRUE]
        BY <2>4, <3>2 DEF classifyFlow
      <4>3. FromDnsPort(met, p) = [met EXCEPT !.app_type = "DNS"]
        BY <3>2, <4>1 DEF FromDnsPort
      <4>4. FromPort([met EXCEPT !.app_type = "DNS"], p) = [met EXCEPT !.app_type = "DNS"]
        BY <1>1 DEF FromPort, SameEntry
      <4>5. SameEntry(after, [met EXCEPT !.app_type = "DNS"], p.tuple)
        <5>1. "DNS" \in AppTypes
          BY <1>3
        <5> HIDE DEF after
        <5> QED
          BY <1>1, <4>2, <5>1 DEF SameEntry
      <4> QED
        BY <2>1, <3>1, <4>3, <4>4, <4>5
    <3>3. CASE ~dns
      <4>1. FromDnsPort(met, p) = met
        BY <3>3 DEF FromDnsPort
      <4>2. CASE port = 443
        <5>1. after = [seen EXCEPT !.app_type = "HTTPS"]
          BY <2>4, <3>3, <4>2 DEF classifyFlow
        <5>2. FromPort(met, p) = [met EXCEPT !.app_type = "HTTPS"]
          BY <1>1, <2>4, <4>2 DEF FromPort, SameEntry
        <5> QED
          BY <1>1, <1>3, <2>1, <2>4, <3>1, <3>3, <4>1, <4>2, <5>1, <5>2 DEF SameEntry
      <4>3. CASE port = 80
        <5>1. after = [seen EXCEPT !.app_type = "HTTP"]
          BY <2>4, <3>3, <4>3 DEF classifyFlow
        <5>2. FromPort(met, p) = [met EXCEPT !.app_type = "HTTP"]
          BY <1>1, <2>4, <4>3 DEF FromPort, SameEntry
        <5> QED
          BY <1>1, <1>3, <2>1, <2>4, <3>1, <3>3, <4>1, <4>3, <5>1, <5>2 DEF SameEntry
      <4>4. CASE port \notin {443, 80}
        <5>1. after = seen
          BY <2>4, <3>3, <4>4 DEF classifyFlow
        <5>2. FromPort(met, p) = met
          BY <4>4 DEF FromPort
        <5> QED
          BY <1>1, <2>1, <3>1, <4>1, <5>1, <5>2
      <4> QED
        BY <4>2, <4>3, <4>4
    <3> QED
      BY <3>2, <3>3
  <2> QED
    BY <2>2, <2>3, <2>4
<1>5. Processed(flow, p) = Judged(rules, after, p)
  BY DEF Processed, seen
<1> HIDE DEF after
<1>6. isBlocked(rules, p.tuple.src_ip, after.app_type, after.sni) \in BOOLEAN
  BY DEF isBlocked
<1> QED
  BY <1>4, <1>5, <1>6 DEF SameEntry, Judged

---------------------------------------------------------------------------------
\* What fast path f has processed of flow t, and the packets of t up to frame m.
ProcessedOf(f, t) == {j \in processed[f] : tuple(j) = t}
Prefix(t, m) == {j \in packetJobs : tuple(j) = t /\ j <= m}

\* A packet that has been decided on has been processed by the fast path it belongs to.
DecidedAtHome ==
  \A f \in FPs : processed[f] = {j \in forwarded \cup dropped : Home(j) = f}

\* A fast path takes the packets of a flow one after the other, in the order of the input.
LEMMA TakesTheNext ==
  ASSUME TypeOK, Routed, OrderInv, DecidedAtHome, NEW f \in FPs, fpPc[f] = "pop", fpq[f] # <<>>,
         NEW x, x = Head(fpq[f])
  PROVE  /\ x \in packetJobs /\ x \notin forwarded \cup dropped /\ Home(x) = f
         /\ ProcessedOf(f, tuple(x)) = Prefix(tuple(x), x - 1)
<1>1. /\ x \in packetJobs /\ x \notin forwarded \cup dropped
      /\ \A p \in packetJobs : p < x /\ conversation[p] = conversation[x] =>
           p \in forwarded \cup dropped
  BY DecidedBefore
<1>2. Home(x) = f /\ x \in Elements(fpq[f])
  <2>1. fpq[f] \in Seq(Jobs)
    BY DEF TypeOK
  <2>2. x = fpq[f][1] /\ 1 \in 1 .. Len(fpq[f])
    BY <2>1
  <2> QED
    BY <2>2 DEF Routed, Elements
<1>3. x \in Jobs
  BY <1>1 DEF packetJobs
<1>4. x \in Line[5]
  BY <1>2, <1>3, Stages DEF InQueues
<1>5. ASSUME NEW p \in processed[f], tuple(p) = tuple(x)
      PROVE  p \in packetJobs /\ p < x
  <2>1. p \in Jobs /\ p \in forwarded \cup dropped /\ SameFlow(tuple(p), tuple(x))
    BY <1>5 DEF DecidedAtHome, TypeOK, SameFlow
  <2>2. CASE p \in dropped
    <3>1. Ahead(dropped, Line[5]) /\ p \in Taken
      BY <2>1, <2>2 DEF OrderInv, LineInv
    <3>2. p < x
      BY <1>4, <2>1, <2>2, <3>1 DEF Ahead
    <3> QED
      BY <3>1, <3>2 DEF Taken, packetJobs
  <2>3. CASE p \in forwarded
    <3>1. PICK s \in 6 .. 9 : p \in Line[s]
      BY <2>1, <2>3 DEF OrderInv, LineInv
    <3>2. s \in 2 .. 9 /\ s \in 1 .. 9 /\ 5 \in 1 .. 9 /\ 5 < s
      OBVIOUS
    <3>3. Ahead(Line[s], Line[5]) /\ p \in Taken
      BY <2>1, <3>1, <3>2 DEF OrderInv, LineInv, Ordered
    <3>4. p < x
      BY <1>4, <2>1, <3>1, <3>3 DEF Ahead
    <3> QED
      BY <3>3, <3>4 DEF Taken, packetJobs
  <2> QED
    BY <2>1, <2>2, <2>3
<1>6. ASSUME NEW p \in packetJobs, tuple(p) = tuple(x), p < x
      PROVE  p \in processed[f]
  <2>1. conversation[p] = conversation[x] /\ Home(p) = f
    BY <1>2, <1>3, <1>6 DEF conversation, Home, packetJobs
  <2> QED
    BY <1>1, <1>6, <2>1 DEF DecidedAtHome
<1>7. \A p \in Jobs : p < x <=> p <= x - 1
  BY <1>3 DEF Jobs
<1> QED
  BY <1>1, <1>2, <1>5, <1>6, <1>7 DEF ProcessedOf, Prefix, packetJobs

\* The entry that main_working.cpp has for flow t after m frames.
AloneAt(m, t) == Alone(rules, packets, Jobs \ packetJobs, m, t)

\* Fast paths that have processed as many packets of a flow know of it the same.
FlowsMatch ==
  \A f \in FPs, t \in comparable, m \in 0 .. Len(Frames) :
    ProcessedOf(f, t) = Prefix(t, m) => SameEntry(Entry(flows[f], t), AloneAt(m, t), t)

\* The invariant of the flow tables.
FlowInv ==
  DecidedAtHome /\ FlowsTypeOK /\ FlowsMatch /\ DecidesAsSingleThreaded /\ CountsAsSingleThreaded

\* The packets are as many as the frames.
LEMMA PacketsOfFrames ==
  /\ Len(packets) = Len(Frames) /\ Len(Frames) \in Nat
  /\ \A j \in Jobs : /\ packets[j].tuple = tuple(j)
                     /\ packets[j].name \in Names \cup {NoName}
<1> DEFINE Content == [kind : {"tls", "http", "other"}, name : Names \cup {NoName}]
           S == {packets[j] : j \in Jobs}
<1>1. Len(Frames) \in Nat
  BY PipelineAssumption DEF PipelineAssumption
<1>2. packets \in Seq(S) /\ Len(packets) = Len(Frames)
  <2> DEFINE p(j) == [tuple |-> tuple(j), kind |-> Contents[j].kind, name |-> Contents[j].name]
  <2>1. packets = [j \in 1 .. Len(Frames) |-> p(j)]
    BY DEF packets, Jobs
  <2> HIDE DEF p
  <2> QED
    BY <1>1, <2>1 DEF Jobs
<1>3. ASSUME NEW j \in Jobs PROVE Contents[j].name \in Names \cup {NoName}
  <2>1. Contents \in Seq(Content) /\ Len(Contents) = Len(Frames)
    BY ContentsAssumption DEF ContentsAssumption
  <2> HIDE DEF Content
  <2>2. Contents[j] \in Content
    BY <2>1 DEF Jobs
  <2> QED
    BY <2>2 DEF Content
<1> QED
  BY <1>1, <1>2, <1>3 DEF packets

\* At first no fast path knows of any flow, nor would main_working.cpp before its first packet.
LEMMA FlowInvInit == FlowInit => FlowInv
<1> SUFFICES ASSUME FlowInit PROVE FlowInv
  OBVIOUS
<1> USE DEF FlowInit, Init
<1>1. TypeOK
  BY TypeInit
<1>2. DecidedAtHome /\ DecidesAsSingleThreaded
  BY DEF DecidedAtHome, DecidesAsSingleThreaded
<1>3. FlowsTypeOK
  BY <1>1 DEF FlowsTypeOK
<1>4. FlowsMatch
  <2> SUFFICES ASSUME NEW f \in FPs, NEW t \in comparable, NEW m \in 0 .. Len(Frames),
                      ProcessedOf(f, t) = Prefix(t, m)
               PROVE  SameEntry(Entry(flows[f], t), AloneAt(m, t), t)
    BY DEF FlowsMatch
  <2>1. Entry(flows[f], t) = NewFlow
    BY DEF Entry
  <2>2. Prefix(t, m) = {}
    BY DEF ProcessedOf
  <2>3. \A k \in 0 + 1 .. m : k \in Jobs \ packetJobs \/ packets[k].tuple # t
    <3> TAKE k \in 0 + 1 .. m
    <3>1. k \in Jobs /\ k <= m
      BY PacketsOfFrames DEF Jobs
    <3> QED
      BY <2>2, <3>1, PacketsOfFrames DEF Prefix
  <2>4. 0 \in 0 .. Len(packets) /\ m \in 0 .. Len(packets) /\ Len(packets) \in Nat
    BY PacketsOfFrames
  <2>5. AloneAt(m, t) = AloneAt(0, t) /\ AloneAt(0, t) = NewFlow
    BY <2>3, <2>4, AloneUntil, AloneAtFirst DEF AloneAt
  <2> QED
    BY <2>1, <2>5, NewSame
<1>5. CountsAsSingleThreaded
  <2> DEFINE alone == {<<j, SingleApp(j)>> : j \in forwarded \cup dropped}
  <2>1. alone = {}
    OBVIOUS
  <2> HIDE DEF alone
  <2>2. \A a \in AppTypes : {x \in alone : x[2] = a} = {} /\ app_counts[a] = 0
    BY <2>1
  <2>3. \A a \in AppTypes : app_counts[a] = Cardinality({x \in alone : x[2] = a})
    BY <2>2, FS_EmptySet
  <2> QED
    BY <2>3 DEF CountsAsSingleThreaded, alone
<1> QED
  BY <1>2, <1>3, <1>4, <1>5 DEF FlowInv

\* Steps that leave the tables and the verdicts alone keep it.
LEMMA FlowInvQuiet ==
  ASSUME FlowInv, TypeOK', UNCHANGED flowVars, UNCHANGED stats
  PROVE  FlowInv'
<1> USE DEF flowVars, stats
<1>1. FlowsTypeOK' /\ DecidedAtHome'
  BY DEF FlowInv, FlowsTypeOK, DecidedAtHome
<1>2. FlowsMatch'
  BY DEF FlowInv, FlowsMatch, AloneAt, ProcessedOf
<1>3. DecidesAsSingleThreaded' /\ CountsAsSingleThreaded'
  BY DEF FlowInv, DecidesAsSingleThreaded, CountsAsSingleThreaded, SingleBlocks, SingleApp, single
<1> QED
  BY <1>1, <1>2, <1>3 DEF FlowInv

\* A packet is counted in the entry of its flow.
LEMMA ProcessedType ==
  ASSUME NEW flow \in FlowEntry, NEW p, p.name \in Names \cup {NoName}
  PROVE  /\ Processed(flow, p) \in FlowEntry
         /\ Processed(flow, p).packets = flow.packets + 1
<1> DEFINE seen == [flow EXCEPT !.packets = @ + 1]
           after == IF seen.classified THEN seen ELSE classifyFlow(seen, p)
<1>1. seen \in FlowEntry /\ seen.packets = flow.packets + 1
  BY DEF FlowEntry
<1> HIDE DEF seen
<1>2. sniToAppType(p.name) \in AppTypes /\ {"HTTP", "HTTPS", "DNS"} \subseteq AppTypes
  BY FlowAssumption DEF FlowAssumption
<1>3. after \in FlowEntry /\ after.packets = seen.packets
  <2>1. classifyFlow(seen, p) \in FlowEntry /\ classifyFlow(seen, p).packets = seen.packets
    <3>1. CASE Named(p)
      BY <1>1, <1>2, <3>1 DEF classifyFlow, FlowEntry
    <3>2. CASE ~Named(p)
      <4>1. \A a \in AppTypes :
              /\ [seen EXCEPT !.app_type = a] \in FlowEntry
              /\ [seen EXCEPT !.app_type = a].packets = seen.packets
              /\ [seen EXCEPT !.app_type = a, !.classified = TRUE] \in FlowEntry
              /\ [seen EXCEPT !.app_type = a, !.classified = TRUE].packets = seen.packets
        BY <1>1 DEF FlowEntry
      <4>2. classifyFlow(seen, p) \in {[seen EXCEPT !.app_type = "DNS", !.classified = TRUE],
              [seen EXCEPT !.app_type = "HTTPS"], [seen EXCEPT !.app_type = "HTTP"], seen}
        BY <3>2 DEF classifyFlow
      <4>3. "DNS" \in AppTypes /\ "HTTPS" \in AppTypes /\ "HTTP" \in AppTypes
        BY <1>2
      <4> QED
        BY <1>1, <4>1, <4>2, <4>3, Zenon
    <3> QED
      BY <3>1, <3>2
  <2> QED
    BY <1>1, <2>1
<1>4. Processed(flow, p) = Judged(rules, after, p)
  BY DEF Processed, seen
<1> HIDE DEF after
<1>5. isBlocked(rules, p.tuple.src_ip, after.app_type, after.sni) \in BOOLEAN
  BY DEF isBlocked
<1> QED
  BY <1>1, <1>3, <1>4, <1>5 DEF Judged, FlowEntry

\* What a packet does to the two entries of its flow.
LEMMA TakeSame ==
  ASSUME FlowInv, NEW f \in FPs, NEW x \in packetJobs, tuple(x) \in comparable,
         ProcessedOf(f, tuple(x)) = Prefix(tuple(x), x - 1)
  PROVE  /\ SameEntry(Processed(Entry(flows[f], tuple(x)), packets[x]), AloneAt(x, tuple(x)), tuple(x))
         /\ single[x][tuple(x)] = AloneAt(x, tuple(x))
<1> DEFINE t == tuple(x)
           p == packets[x]
<1>1. x \in Jobs /\ x \in 1 .. Len(packets) /\ Len(packets) \in Nat /\ x - 1 \in 0 .. Len(Frames)
  BY PacketsOfFrames DEF packetJobs, Jobs
<1>2. p.tuple = t /\ p.name \in Names \cup {NoName}
  BY <1>1, PacketsOfFrames
<1>3. Named(p) => p.tuple.protocol = 6 /\ p.name # NoName
  BY <1>2 DEF comparable
<1>4. SameEntry(Entry(flows[f], t), AloneAt(x - 1, t), t)
  BY <1>1 DEF FlowInv, FlowsMatch
<1>5. SameEntry(Processed(Entry(flows[f], t), p), Judged(rules, Inspected(AloneAt(x - 1, t), p), p), t)
  <2> DEFINE e == Entry(flows[f], t)
             a == AloneAt(x - 1, t)
  <2>1. SameEntry(e, a, p.tuple)
    BY <1>2, <1>4
  <2> HIDE DEF e, a, p, t
  <2>2. SameEntry(Processed(e, p), Judged(rules, Inspected(a, p), p), p.tuple)
    BY <1>2, <1>3, <2>1, PacketSame
  <2> QED
    BY <1>2, <2>2 DEF e, a
<1>6. /\ AloneAt(x, t) = Judged(rules, Inspected(AloneAt(x - 1, t), p), p)
      /\ single[x][t] = AloneAt(x, t)
  <2>1. x \notin Jobs \ packetJobs
    OBVIOUS
  <2>2. /\ AloneAt(x, p.tuple) = Judged(rules, Inspected(AloneAt(x - 1, p.tuple), p), p)
        /\ single[x][p.tuple] = AloneAt(x, p.tuple)
    BY <1>1, <2>1, AloneTakes DEF AloneAt, single
  <2> QED
    BY <1>2, <2>2
<1> QED
  BY <1>5, <1>6

\* A fast path that takes a packet keeps its table as it should be.
LEMMA TakeKeepsTypes ==
  ASSUME FlowInv, TypeOK', NEW f \in FPs, FPTake(f), NEW x, x = Head(fpq[f]),
         x \in packetJobs, x \notin forwarded \cup dropped, Home(x) = f
  PROVE  /\ FlowsTypeOK' /\ DecidedAtHome'
         /\ Entry(flows[f], tuple(x)) \in FlowEntry
<1> DEFINE t == tuple(x)
           p == packets[x]
           before == Entry(flows[f], t)
           after == Processed(before, p)
<1>1. x \in Jobs /\ p.tuple = t /\ p.name \in Names \cup {NoName}
  BY PacketsOfFrames DEF packetJobs
<1>2. /\ flows' = [flows EXCEPT ![f] = WithEntry(flows[f], t, after)]
      /\ app_counts' = [app_counts EXCEPT ![after.app_type] = @ + 1]
      /\ rules' = rules
      /\ processed' = [processed EXCEPT ![f] = @ \cup {x}]
      /\ forwarded' \cup dropped' = forwarded \cup dropped \cup {x}
  BY <1>1 DEF FPTake, FPDrop, FPForward, Recorded
<1>3. TypeOK /\ FlowsTypeOK /\ DecidedAtHome
  BY DEF FlowInv, FlowsTypeOK
<1>4. \A g \in FPs : /\ flows'[g] = IF g = f THEN WithEntry(flows[f], t, after) ELSE flows[g]
                     /\ processed'[g] = IF g = f THEN processed[f] \cup {x} ELSE processed[g]
  BY <1>2, <1>3 DEF FlowsTypeOK, TypeOK
<1>5. DecidedAtHome'
  BY <1>2, <1>3, <1>4 DEF DecidedAtHome
<1>6. x \notin processed[f] /\ IsFiniteSet(processed[f]) /\ processed[f] \subseteq Jobs
  <2>1. IsFiniteSet(Jobs)
    BY PacketsOfFrames, FS_Interval DEF Jobs
  <2>2. processed[f] \in SUBSET Jobs
    BY <1>3 DEF TypeOK
  <2> QED
    BY <1>3, <2>1, <2>2, FS_Subset DEF DecidedAtHome
<1>7. before \in FlowEntry /\ before.packets = Cardinality(ProcessedOf(f, t))
  <2>1. CASE t \in DOMAIN flows[f]
    BY <1>3, <2>1 DEF FlowsTypeOK, Entry, ProcessedOf
  <2>2. CASE t \notin DOMAIN flows[f]
    <3>1. before = NewFlow /\ NewFlow \in FlowEntry
      BY <2>2, NewSame DEF Entry, SameEntry
    <3>2. ProcessedOf(f, t) = {}
      BY <1>3, <2>2 DEF FlowsTypeOK, ProcessedOf
    <3> QED
      BY <3>1, <3>2, FS_EmptySet DEF NewFlow
  <2> QED
    BY <2>1, <2>2
<1>8. after \in FlowEntry /\ after.packets = before.packets + 1
  BY <1>1, <1>7, ProcessedType
<1>9. \A u : ProcessedOf(f, u)' = IF u = t THEN ProcessedOf(f, t) \cup {x} ELSE ProcessedOf(f, u)
  BY <1>4 DEF ProcessedOf
<1>10. after.packets = Cardinality(ProcessedOf(f, t)')
  <2>1. ProcessedOf(f, t) \in SUBSET processed[f] /\ x \notin ProcessedOf(f, t)
    BY <1>6 DEF ProcessedOf
  <2>2. IsFiniteSet(ProcessedOf(f, t))
    BY <1>6, <2>1, FS_Subset
  <2> QED
    BY <1>7, <1>8, <1>9, <2>1, <2>2, FS_AddElement
<1> HIDE DEF after, before
<1>11. /\ DOMAIN flows'[f] = DOMAIN flows[f] \cup {t}
       /\ \A u \in DOMAIN flows'[f] : flows'[f][u] = IF u = t THEN after ELSE flows[f][u]
  BY <1>4 DEF WithEntry
<1>12. ASSUME NEW g \in FPs
       PROVE  /\ DOMAIN flows'[g] = {tuple(j) : j \in processed'[g]}
              /\ \A u \in DOMAIN flows'[g] :
                   /\ flows'[g][u] \in FlowEntry
                   /\ flows'[g][u].packets = Cardinality(ProcessedOf(g, u)')
  <2>1. CASE g # f
    <3>1. flows'[g] = flows[g] /\ processed'[g] = processed[g]
      BY <1>4, <2>1
    <3>2. \A u : ProcessedOf(g, u)' = ProcessedOf(g, u)
      BY <3>1 DEF ProcessedOf
    <3> QED
      BY <1>3, <3>1, <3>2 DEF FlowsTypeOK, ProcessedOf
  <2>2. CASE g = f
    <3>1. DOMAIN flows[f] = {tuple(j) : j \in processed[f]}
      BY <1>3 DEF FlowsTypeOK
    <3>2. DOMAIN flows'[f] = {tuple(j) : j \in processed'[f]}
      BY <1>4, <1>11, <3>1
    <3>3. ASSUME NEW u \in DOMAIN flows'[f]
          PROVE  /\ flows'[f][u] \in FlowEntry
                 /\ flows'[f][u].packets = Cardinality(ProcessedOf(f, u)')
      <4>1. CASE u = t
        BY <1>8, <1>10, <1>11, <4>1
      <4>2. CASE u # t
        BY <1>3, <1>9, <1>11, <4>2 DEF FlowsTypeOK, ProcessedOf
      <4> QED
        BY <4>1, <4>2
    <3> QED
      BY <2>2, <3>2, <3>3
  <2> QED
    BY <2>1, <2>2
<1>13. app_counts' \in [AppTypes -> Nat]
  <2>1. after.app_type \in AppTypes
    BY <1>8 DEF FlowEntry
  <2>2. app_counts' = [app_counts EXCEPT ![after.app_type] = @ + 1]
    BY <1>2 DEF after, before
  <2> QED
    BY <1>3, <2>1, <2>2 DEF FlowsTypeOK
<1>14. DOMAIN flows' = FPs /\ rules' \in RuleSets
  BY <1>2, <1>3 DEF FlowsTypeOK
<1>15. FlowsTypeOK'
  BY <1>12, <1>13, <1>14 DEF FlowsTypeOK, ProcessedOf
<1> QED
  BY <1>5, <1>7, <1>15 DEF before

\* How many packets are counted under application a.
CountOf(S, a) == Cardinality({z \in S : z[2] = a})

\* A new packet is one more under its application, and none under the others.
LEMMA OneMore ==
  ASSUME NEW S, IsFiniteSet(S), NEW y, y \notin S, NEW a
  PROVE  CountOf(S \cup {y}, a) = CountOf(S, a) + (IF y[2] = a THEN 1 ELSE 0)
<1> DEFINE T == {z \in S : z[2] = a}
<1>1. T \in SUBSET S /\ y \notin T
  OBVIOUS
<1>2. IsFiniteSet(T) /\ Cardinality(T) \in Nat
  BY <1>1, FS_Subset, FS_CardinalityType
<1>3. CASE y[2] = a
  <2>1. {z \in S \cup {y} : z[2] = a} = T \cup {y}
    BY <1>3
  <2>2. Cardinality(T \cup {y}) = Cardinality(T) + 1
    BY <1>1, <1>2, FS_AddElement
  <2>3. CountOf(S \cup {y}, a) = CountOf(S, a) + 1
    BY <2>1, <2>2 DEF CountOf
  <2> QED
    BY <1>3, <2>3
<1>4. CASE y[2] # a
  <2>1. {z \in S \cup {y} : z[2] = a} = T
    BY <1>4
  <2>2. CountOf(S \cup {y}, a) = CountOf(S, a) /\ CountOf(S, a) \in Nat
    BY <1>2, <2>1 DEF CountOf
  <2> QED
    BY <1>4, <2>2
<1> QED
  BY <1>3, <1>4

\* The step that decides on a packet keeps the invariant.
LEMMA FlowInvTake ==
  ASSUME FlowInv, Routed, OrderInv, TypeOK', NEW f \in FPs, FPTake(f)
  PROVE  FlowInv'
<1> DEFINE x == Head(fpq[f])
           t == tuple(x)
           before == Entry(flows[f], t)
           after == Processed(before, packets[x])
<1>1. TypeOK /\ FlowsTypeOK /\ DecidedAtHome /\ fpPc[f] = "pop" /\ fpq[f] # <<>>
  BY DEF FlowInv, FlowsTypeOK, FPTake
<1>2. /\ x \in packetJobs /\ x \notin forwarded \cup dropped /\ Home(x) = f
      /\ ProcessedOf(f, t) = Prefix(t, x - 1)
  BY <1>1, TakesTheNext
<1>3. x \in Jobs /\ packets[x].tuple = t
  BY <1>2, PacketsOfFrames DEF packetJobs
<1>4. /\ flows' = [flows EXCEPT ![f] = WithEntry(flows[f], t, after)]
      /\ app_counts' = [app_counts EXCEPT ![after.app_type] = @ + 1]
      /\ rules' = rules
      /\ processed' = [processed EXCEPT ![f] = @ \cup {x}]
      /\ \/ after.blocked /\ dropped' = dropped \cup {x} /\ forwarded' = forwarded
         \/ ~after.blocked /\ forwarded' = forwarded \cup {x} /\ dropped' = dropped
  BY <1>3 DEF FPTake, FPDrop, FPForward, Recorded
<1>5. FlowsTypeOK' /\ DecidedAtHome' /\ before \in FlowEntry
  BY <1>2, TakeKeepsTypes
<1>6. t \in comparable => SameEntry(after, AloneAt(x, t), t) /\ single[x][t] = AloneAt(x, t)
  BY <1>2, TakeSame
<1>7. after \in FlowEntry
  BY <1>3, <1>5, PacketsOfFrames, ProcessedType
<1>8. single' = single /\ \A m, u : AloneAt(m, u)' = AloneAt(m, u)
  BY <1>4 DEF single, AloneAt
<1>9. \A g \in FPs : /\ flows'[g] = IF g = f THEN WithEntry(flows[f], t, after) ELSE flows[g]
                     /\ processed'[g] = IF g = f THEN processed[f] \cup {x} ELSE processed[g]
  BY <1>1, <1>4 DEF FlowsTypeOK, TypeOK
<1> HIDE DEF after, before, x
<1>10. FlowsMatch'
  <2> SUFFICES ASSUME NEW g \in FPs, NEW u \in comparable, NEW m \in 0 .. Len(Frames),
                      ProcessedOf(g, u)' = Prefix(u, m)
               PROVE  SameEntry(Entry(flows'[g], u), AloneAt(m, u), u)
    BY <1>8 DEF FlowsMatch
  <2>1. CASE g = f /\ u = t
    <3>1. Prefix(t, m) = Prefix(t, x - 1) \cup {x}
      BY <1>2, <1>9, <2>1 DEF ProcessedOf
    <3>2. x \in Prefix(t, m)
      BY <3>1
    <3>3. x \in 0 .. Len(packets) /\ m \in x .. Len(packets) /\ Len(packets) \in Nat
      BY <1>3, <3>2, PacketsOfFrames DEF Prefix, Jobs
    <3>4. \A k \in x + 1 .. m : k \in Jobs \ packetJobs \/ packets[k].tuple # t
      <4> SUFFICES ASSUME NEW k \in x + 1 .. m, k \in packetJobs, tuple(k) = t
                   PROVE  FALSE
        BY <1>3, <3>3, PacketsOfFrames DEF Jobs
      <4>1. k \in Prefix(t, m)
        BY DEF Prefix
      <4>2. k # x /\ ~(k <= x - 1)
        BY <1>3 DEF Jobs
      <4> QED
        BY <3>1, <4>1, <4>2 DEF Prefix
    <3>5. AloneAt(m, t) = AloneAt(x, t)
      BY <3>3, <3>4, AloneUntil DEF AloneAt
    <3>6. Entry(flows'[f], t) = after
      <4>1. flows'[f] = WithEntry(flows[f], t, after)
        BY <1>9
      <4> QED
        BY <4>1 DEF WithEntry, Entry
    <3> QED
      BY <1>6, <2>1, <3>5, <3>6
  <2>2. CASE ~(g = f /\ u = t)
    <3>1. ProcessedOf(g, u)' = ProcessedOf(g, u)
      BY <1>9, <2>2 DEF ProcessedOf
    <3>2. Entry(flows'[g], u) = Entry(flows[g], u)
      <4>1. CASE g # f
        BY <1>9, <4>1
      <4>2. CASE g = f
        <5>1. flows'[f] = WithEntry(flows[f], t, after) /\ u # t
          BY <1>9, <2>2, <4>2
        <5> QED
          BY <4>2, <5>1 DEF WithEntry, Entry
      <4> QED
        BY <4>1, <4>2
    <3> QED
      BY <3>1, <3>2 DEF FlowInv, FlowsMatch
  <2> QED
    BY <2>1, <2>2
<1>11. DecidesAsSingleThreaded'
  <2> SUFFICES ASSUME NEW j \in forwarded' \cup dropped', tuple(j) \in comparable
               PROVE  j \in dropped' <=> SingleBlocks(j)
    BY <1>8 DEF DecidesAsSingleThreaded, SingleBlocks
  <2>1. CASE j = x
    <3>1. SingleBlocks(x) <=> after.blocked
      BY <1>6, <2>1 DEF SingleBlocks, SameEntry
    <3> QED
      BY <1>2, <1>4, <2>1, <3>1
  <2>2. CASE j # x
    <3>1. j \in forwarded \cup dropped /\ (j \in dropped' <=> j \in dropped)
      BY <1>4, <2>2
    <3> QED
      BY <3>1 DEF FlowInv, DecidesAsSingleThreaded
  <2> QED
    BY <2>1, <2>2
<1>12. CountsAsSingleThreaded'
  <2> DEFINE pairs(D) == {<<j, SingleApp(j)>> : j \in D}
             D == forwarded \cup dropped
  <2> SUFFICES ASSUME \A j \in packetJobs : tuple(j) \in comparable, NEW a \in AppTypes
               PROVE  app_counts'[a] = CountOf(pairs(forwarded' \cup dropped'), a)
    BY <1>8 DEF CountsAsSingleThreaded, SingleApp, CountOf
  <2>1. SingleApp(x) = after.app_type
    BY <1>2, <1>6 DEF SingleApp, SameEntry
  <2>2. app_counts[a] = CountOf(pairs(D), a)
    BY DEF FlowInv, CountsAsSingleThreaded, CountOf
  <2>3. IsFiniteSet(pairs(D))
    <3>1. IsFiniteSet(D)
      <4>1. IsFiniteSet(Jobs)
        BY PacketsOfFrames, FS_Interval DEF Jobs
      <4>2. D \in SUBSET Jobs
        BY <1>1 DEF TypeOK
      <4> QED
        BY <4>1, <4>2, FS_Subset
    <3>2. [j \in D |-> <<j, SingleApp(j)>>] \in Surjection(D, pairs(D))
      BY DEF Surjection
    <3> QED
      BY <3>1, <3>2, FS_Surjection
  <2>4. forwarded' \cup dropped' = D \cup {x}
    BY <1>4
  <2>5. pairs(forwarded' \cup dropped') = pairs(D) \cup {<<x, SingleApp(x)>>}
    BY <2>4
  <2>6. <<x, SingleApp(x)>> \notin pairs(D)
    BY <1>2
  <2>7. app_counts'[a] = app_counts[a] + (IF after.app_type = a THEN 1 ELSE 0)
    BY <1>1, <1>4, <1>7 DEF FlowsTypeOK, FlowEntry
  <2> HIDE DEF pairs
  <2>8. CountOf(pairs(D) \cup {<<x, SingleApp(x)>>}, a) =
          CountOf(pairs(D), a) + (IF <<x, SingleApp(x)>>[2] = a THEN 1 ELSE 0)
    BY <2>3, <2>6, OneMore
  <2>9. <<x, SingleApp(x)>>[2] = after.app_type
    BY <2>1
  <2> QED
    BY <2>2, <2>5, <2>7, <2>8, <2>9
<1> QED
  BY <1>5, <1>10, <1>11, <1>12 DEF FlowInv

\* Every step of the engine with its flows keeps it.
LEMMA FlowInvStep ==
  ASSUME FlowInv, EngineInv, LineOutputInv, EngineInv', [FlowNext]_allVars
  PROVE  FlowInv'
<1>1. TypeOK' /\ Routed /\ OrderInv
  BY DEF EngineInv, PipelineInv, LineOutputInv
<1> USE DEF workerVars, stats, flowVars
<1>2. ASSUME NEW f \in FPs, FlowFPStep(f) PROVE FlowInv'
  <2>1. CASE FPTake(f)
    BY <1>1, <2>1, FlowInvTake
  <2>2. CASE (FPCheck(f) \/ FPIdle(f) \/ FPPush(f)) /\ UNCHANGED flowVars
    BY <1>1, <2>2, FlowInvQuiet DEF FPCheck, FPIdle, FPPush
  <2> QED
    BY <1>2, <2>1, <2>2 DEF FlowFPStep
<1>3. ASSUME NEW i \in LBs, Quietly(LBStep(i)) PROVE FlowInv'
  BY <1>1, <1>3, FlowInvQuiet DEF Quietly, LBStep, LBCheck, LBIdle, LBPop, LBPush
<1>4. ASSUME Quietly(WriterStep) PROVE FlowInv'
  BY <1>1, <1>4, FlowInvQuiet
  DEF Quietly, WriterStep, WriterCheck, WriterIdle, WriterPop, WriterWrite
<1>5. ASSUME Quietly(ReaderLoop) PROVE FlowInv'
  BY <1>1, <1>5, FlowInvQuiet
  DEF Quietly, ReaderLoop, ReaderSkip, ReaderTake, ReaderPush, ReaderEnd
<1>6. ASSUME Quietly(MainStep) PROVE FlowInv'
  BY <1>1, <1>6, FlowInvQuiet
  DEF Quietly, MainStep, OpenFails, Open, MainReads, ReaderDone, StopStep, LBStopFlag,
      LBStopShutdown, LBStopJoin, FPStopFlag, FPStopShutdown, FPStopJoin, OutputStopFlag,
      OutputShutdown, OutputJoin, CloseFile
<1>7. ASSUME Quietly(Returned) \/ UNCHANGED allVars PROVE FlowInv'
  BY <1>1, <1>7, FlowInvQuiet DEF Quietly, Returned, allVars, vars
<1> QED
  BY <1>2, <1>3, <1>4, <1>5, <1>6, <1>7 DEF FlowNext

\* The invariant of the engine holds with its flow tables, too.
LEMMA FlowsKeepAll == FlowSpec => [](EngineInv /\ LineOutputInv /\ FlowInv)
<1>1. FlowInit => EngineInv /\ LineOutputInv /\ FlowInv
  BY EngineInit, LineInit, FlowInvInit DEF FlowInit
<1>2. [FlowNext]_allVars => [Next]_vars
  BY FlowStepImplements
<1>3. EngineInv /\ LineOutputInv /\ FlowInv /\ [FlowNext]_allVars
        => (EngineInv /\ LineOutputInv /\ FlowInv)'
  BY <1>2, EngineStep, LineStep, FlowInvStep
<1> QED
  BY <1>1, <1>3, PTL DEF FlowSpec

\* A fast path has an entry for a flow exactly when it has taken packets of it, and the entry
\* counts all of them.
THEOREM FlowsTypeCorrect == FlowSpec => []FlowsTypeOK
<1>1. FlowInv => FlowsTypeOK
  BY DEF FlowInv
<1> QED
  BY <1>1, FlowsKeepAll, PTL

\* However many threads there are and in whatever order they run, the packets get the
\* verdicts that main_working.cpp gives them, one packet after the other.
THEOREM VerdictsAsSingleThreaded == FlowSpec => []DecidesAsSingleThreaded
<1>1. FlowInv => DecidesAsSingleThreaded
  BY DEF FlowInv
<1> QED
  BY <1>1, FlowsKeepAll, PTL

\* And they are counted under the applications it counts them under.
THEOREM ReportAsSingleThreaded == FlowSpec => []CountsAsSingleThreaded
<1>1. FlowInv => CountsAsSingleThreaded
  BY DEF FlowInv
<1> QED
  BY <1>1, FlowsKeepAll, PTL
=================================================================================
