---------------------------- MODULE DPIEngineProofs ----------------------------
(***************************************************************************)
(* Proofs about the modular engine, for any numbers of load balancers and  *)
(* fast paths, any queue size and any input: what holds of one call of     *)
(* processFile although its writer may leave too early.                    *)
(***************************************************************************)
EXTENDS DPIEngine, PipelineProofs

\* Where processFile is before it stops the load balancers, and after it has
\* stopped the fast paths.
BeforeStop == {"open", "start", "reader", "outFlag", "failed"}
AfterStop  == {"outShut", "outJoin", "close", "done"}

\* The places of processFile are before, in, or after the stop of the workers.
LEMMA EnginePhases == Phases(BeforeStop, AfterStop)
BY DEF Phases, BeforeStop, AfterStop, LBPhase, FPPhase, MainPcs

EngineInv == PipelineInv(BeforeStop, AfterStop)

\* The invariant holds at first, ...
LEMMA EngineInit == Init => EngineInv
BY EnginePhases, TypeInit, RoutedInit, InitOrder DEF EngineInv, PipelineInv

\* The reader thread opens its input, or ends there and then.
LEMMA ReaderOpenStep ==
  ASSUME EngineInv, ReaderOpenFails \/ ReaderOpens
  PROVE  EngineInv'
<1> USE DEF EngineInv, PipelineInv, workerVars, lbVars, fpVars, outVars, fileVars, stats, mainVars
<1>1. TypeOK'
  <2>1. CASE ReaderOpenFails
    BY <2>1 DEF ReaderOpenFails, TypeOK
  <2>2. CASE ReaderOpens
    <3>1. file' \in Seq(Jobs \cup {Header})
      BY <2>2 DEF ReaderOpens, TypeOK
    <3> QED
      BY <2>2, <3>1 DEF ReaderOpens, TypeOK
  <2> QED
    BY <2>1, <2>2
<1>2. rPc = "open" /\ mPc = "reader"
  BY DEF ReaderOpenFails, ReaderOpens, StopOrder
<1>3. UNCHANGED <<mPc, mIdx, lbq, lbShut, lbPc, lbJob, fpq, fpShut, fpPc, outShut, processed>>
  BY DEF ReaderOpenFails, ReaderOpens
<1>4. Routed'
  BY <1>3, OthersRoute
<1>5. StopOrder(BeforeStop, AfterStop)' /\ NotStarted'
  BY <1>2, <1>3 DEF StopOrder, NotStarted
<1> QED
  BY <1>1, <1>4, <1>5

\* ... and every step of the engine keeps it.
LEMMA EngineStep == EngineInv /\ [Next]_vars => EngineInv'
<1> SUFFICES ASSUME EngineInv, [Next]_vars PROVE EngineInv'
  OBVIOUS
<1>1. CASE WorkerStep \/ ReaderLoop
  BY <1>1, CarriersKeep DEF EngineInv
<1>2. CASE ReaderOpenFails \/ ReaderOpens
  BY <1>2, ReaderOpenStep
<1> USE EnginePhases DEF EngineInv
<1>3. CASE OpenFails \/ OpenOutput
  <2>1. <<>> \in Seq(Jobs \cup {Header})
    OBVIOUS
  <2>2. TypeOK'
    <3>1. TypeOK
      BY DEF PipelineInv
    <3>2. CASE OpenFails
      BY <3>1, <3>2 DEF OpenFails, TypeOK, MainPcs, workerVars, readerVars, lbVars, fpVars, outVars,
         fileVars, stats
    <3>3. CASE OpenOutput
      BY <2>1, <3>1, <3>3 DEF OpenOutput, TypeOK, MainPcs, readerVars, lbVars, fpVars, outVars, stats
    <3> QED
      BY <1>3, <3>2, <3>3
  <2> QED
    BY <1>3, <2>2, MoveKeeps DEF OpenFails, OpenOutput, BeforeStop, PipelineInv, NotStarted,
       workerVars, readerVars, lbVars, fpVars, outVars, stats
<1>4. CASE Start
  BY <1>4, StartKeeps DEF Start, fileVars, PipelineInv, TypeOK
<1>5. CASE ReaderDone("outFlag")
  <2>1. TypeOK'
    BY <1>5, StopType DEF PipelineInv, MainPcs
  <2> QED
    BY <1>5, <2>1, MoveKeeps DEF ReaderDone, BeforeStop,
       workerVars, readerVars, lbVars, fpVars, outVars, stats
<1>6. CASE StopRunning
  <2>1. TypeOK'
    BY <1>6, StopType DEF StopRunning, PipelineInv, MainPcs
  <2>2. rPc \notin {"open", "read", "push"}
    BY <1>6 DEF StopRunning, OutputStopFlag, PipelineInv, StopOrder
  <2> QED
    BY <1>6, <2>1, <2>2, MoveKeeps DEF StopRunning, OutputStopFlag, BeforeStop,
       readerVars, lbVars, fpVars, stats
<1>7. CASE StopStep \/ FPStopJoin("outShut")
  BY <1>7, StopKeeps DEF AfterStop
<1>8. CASE UNCHANGED vars
  BY <1>8, StutterKeeps
<1> QED
  BY <1>1, <1>2, <1>3, <1>4, <1>5, <1>6, <1>7, <1>8 DEF Next, Reader, MainStep, Returned

\* The variables keep their types and the queues their bound.
THEOREM TypeCorrect == Spec => []TypeOK
<1>1. EngineInv => TypeOK
  BY EnginePhases, PipelineSafe DEF EngineInv
<1> QED
  BY <1>1, EngineInit, EngineStep, PTL DEF Spec

\* "Same flow always goes to same FP": no two fast paths ever process packets of one
\* conversation.
THEOREM FlowsArePinned == Spec => []FlowPinned
<1>1. EngineInv => FlowPinned
  BY EnginePhases, PipelineSafe DEF EngineInv
<1> QED
  BY <1>1, EngineInit, EngineStep, PTL DEF Spec

\* "Stop LB threads first (they feed FPs)": within one call no packet is pushed into
\* a queue that has been shut down.  Of a second call on the same engine it is false
\* (ProcessAnother).
THEOREM NothingIsDiscarded == Spec => []NoJobDiscarded
<1>1. EngineInv => NoJobDiscarded
  BY EnginePhases, PipelineSafe DEF EngineInv
<1> QED
  BY <1>1, EngineInit, EngineStep, PTL DEF Spec
---------------------------------------------------------------------------------
\* What the output file needs: only forwarded packets are on their way to it, and while
\* it has no header there are no packets at all, because the reader that takes them has
\* not written it.
OutputInv ==
  /\ \A k \in 1 .. Len(outq) : outq[k] \in forwarded
  /\ wJob # NoJob => wJob \in forwarded
  /\ \A f \in FPs : fpJob[f] # NoJob => fpJob[f] \in forwarded
  /\ mPc \in {"start", "reader"} => fileOpen
  /\ mPc \in {"open", "start"} \/ rPc = "open" => file = <<>>
  /\ file = <<>> =>
       /\ forwarded = {} /\ rPc \notin {"read", "push"}
       /\ \A i \in LBs : lbq[i] = <<>> /\ lbPc[i] # "push"
       /\ \A f \in FPs : fpq[f] = <<>>

FileInv == OutputInv /\ WellFormedFile

\* A queue with one more or one less job holds no others.
LEMMA QueueHolds ==
  ASSUME NEW q \in Seq(Jobs), NEW S, \A k \in 1 .. Len(q) : q[k] \in S
  PROVE  /\ \A j \in S \cap Jobs, shut \in BOOLEAN :
              \A k \in 1 .. Len(Pushed(q, shut, j)) : Pushed(q, shut, j)[k] \in S
         /\ q # <<>> => Head(q) \in S /\ \A k \in 1 .. Len(Tail(q)) : Tail(q)[k] \in S
BY DEF Pushed

\* The load balancers have nothing before there is a header.
LEMMA LBFile ==
  ASSUME TypeOK, FileInv, NEW i \in LBs, LBStep(i)
  PROVE  FileInv'
<1> USE DEF FileInv, OutputInv, WellFormedFile, fpVars, outVars, fileVars, stats, controlVars,
            readerVars, mainVars
<1>1. UNCHANGED <<fpJob, outVars, fileVars, stats, controlVars>>
  BY DEF LBStep, LBCheck, LBIdle, LBPop, LBPush
<1>2. ASSUME file = <<>>
      PROVE  /\ \A b \in LBs : lbq'[b] = <<>> /\ lbPc'[b] # "push"
             /\ \A f \in FPs : fpq'[f] = <<>>
  BY <1>2 DEF LBStep, LBCheck, LBIdle, LBPop, LBPush, TypeOK
<1> QED
  BY <1>1, <1>2

\* A fast path counts a packet as forwarded before it hands it on.
LEMMA FPFile ==
  ASSUME TypeOK, FileInv, NEW f \in FPs, FPStep(f)
  PROVE  FileInv'
<1> USE DEF FileInv, OutputInv, WellFormedFile, lbVars, fileVars, controlVars, readerVars, mainVars
<1>1. UNCHANGED <<lbVars, wJob, fileVars, controlVars>>
  BY DEF FPStep, FPCheck, FPIdle, FPDrop, FPForward, FPPush, outVars
<1>2. ASSUME file = <<>> PROVE forwarded' = {} /\ \A g \in FPs : fpq'[g] = <<>>
  BY <1>2 DEF FPStep, FPCheck, FPIdle, FPDrop, FPForward, FPPush, TypeOK, stats
<1>3. forwarded \subseteq forwarded'
  BY DEF FPStep, FPCheck, FPIdle, FPDrop, FPForward, FPPush, stats
<1>4. \A g \in FPs : fpJob'[g] # NoJob => fpJob'[g] \in forwarded'
  <2>1. CASE FPForward(f)
    BY <2>1 DEF FPForward, TypeOK
  <2>2. CASE ~FPForward(f)
    <3>1. forwarded' = forwarded
          /\ (fpJob' = fpJob \/ fpJob' = [fpJob EXCEPT ![f] = NoJob])
      BY <2>2 DEF FPStep, FPCheck, FPIdle, FPDrop, FPPush, stats
    <3> QED
      BY <3>1 DEF TypeOK
  <2> QED
    BY <2>1, <2>2
<1>5. \A k \in 1 .. Len(outq') : outq'[k] \in forwarded'
  <2>1. CASE FPPush(f)
    <3>1. fpJob[f] \in forwarded \cap Jobs
      BY <2>1 DEF FPPush, TypeOK
    <3>2. outq' = Pushed(outq, outShut, fpJob[f]) /\ forwarded' = forwarded
      BY <2>1 DEF FPPush, stats
    <3> QED
      BY <3>1, <3>2, QueueHolds DEF TypeOK
  <2>2. CASE ~FPPush(f)
    BY <2>2, <1>3 DEF FPStep, FPCheck, FPIdle, FPDrop, FPForward, outVars
  <2> QED
    BY <2>1, <2>2
<1> QED
  BY <1>1, <1>2, <1>3, <1>4, <1>5

\* The writer appends what was forwarded, behind a header.
LEMMA WriterFile ==
  ASSUME TypeOK, FileInv, WriterStep
  PROVE  FileInv'
<1> USE DEF FileInv, OutputInv, WellFormedFile, lbVars, fpVars, stats, controlVars, readerVars, mainVars
<1>1. CASE WriterCheck \/ WriterIdle
  BY <1>1 DEF WriterCheck, WriterIdle, fileVars
<1>2. CASE WriterPop
  <2>1. Head(outq) \in forwarded /\ \A k \in 1 .. Len(Tail(outq)) : Tail(outq)[k] \in forwarded
    BY <1>2, QueueHolds DEF WriterPop, TypeOK
  <2> QED
    BY <1>2, <2>1 DEF WriterPop, fileVars
<1>3. CASE WriterWrite
  <2>1. wJob \in forwarded /\ file # <<>>
    BY <1>3 DEF WriterWrite, TypeOK
  <2>2. file \in Seq(Jobs \cup {Header}) /\ wJob \in Jobs \cup {Header}
    BY <1>3 DEF WriterWrite, TypeOK
  <2>3. file' # <<>> /\ file'[1] = Header /\ \A k \in 2 .. Len(file') : file'[k] \in forwarded
    BY <1>3, <2>1, <2>2 DEF WriterWrite
  <2> QED
    BY <1>3, <2>1, <2>3 DEF WriterWrite
<1> QED
  BY <1>1, <1>2, <1>3 DEF WriterStep

\* The reader writes the header before it takes a packet.
LEMMA ReaderFile ==
  ASSUME EngineInv, FileInv, Reader
  PROVE  FileInv'
<1> USE DEF FileInv, OutputInv, WellFormedFile, workerVars, lbVars, fpVars, outVars, fileVars, stats,
            mainVars
<1>1. TypeOK /\ (rPc \in {"open", "read", "push"} => mPc = "reader")
  BY DEF EngineInv, PipelineInv, StopOrder
<1>2. CASE ReaderOpenFails
  BY <1>2 DEF ReaderOpenFails
<1>3. CASE ReaderOpens
  <2>1. file' = <<Header>> /\ rPc' = "read" /\ mPc' = "reader"
    BY <1>1, <1>3 DEF ReaderOpens
  <2>2. UNCHANGED <<outq, wJob, fpJob, forwarded, fileOpen>>
    BY <1>3 DEF ReaderOpens
  <2>3. OutputInv'
    <3>1. file' # <<>> /\ fileOpen'
      BY <1>1, <2>1, <2>2, <1>3 DEF ReaderOpens
    <3> QED
      BY <2>1, <2>2, <3>1
  <2>4. WellFormedFile'
    BY <2>1
  <2> QED
    BY <2>3, <2>4
<1>4. CASE ReaderLoop
  <2>1. rPc \in {"read", "push"} /\ file # <<>> /\ rPc' # "open" /\ mPc' = "reader"
    BY <1>1, <1>4 DEF ReaderLoop, ReaderSkip, ReaderTake, ReaderPush, ReaderEnd
  <2>2. UNCHANGED <<outq, wJob, fpJob, fileVars, forwarded>>
    BY <1>4 DEF ReaderLoop, ReaderSkip, ReaderTake, ReaderPush, ReaderEnd
  <2> QED
    BY <1>1, <2>1, <2>2
<1> QED
  BY <1>2, <1>3, <1>4 DEF Reader

\* Starting and stopping write nothing.
LEMMA MainFile ==
  ASSUME EngineInv, FileInv, MainStep
  PROVE  FileInv'
<1> USE DEF FileInv, OutputInv, WellFormedFile, workerVars, lbVars, fpVars, outVars, fileVars, stats,
            readerVars
<1>1. TypeOK
  BY DEF EngineInv, PipelineInv
<1>2. UNCHANGED <<lbq, fpq, outq, fpJob, wJob, forwarded>>
  BY DEF MainStep, OpenFails, OpenOutput, Start, StartAll, ReaderDone, StopRunning, OutputStopFlag,
     StopStep, LBStopFlag, LBStopShutdown, LBStopJoin, FPStopFlag, FPStopShutdown, FPStopJoin,
     OutputShutdown, OutputJoin, CloseFile
<1>3. CASE OpenFails
  BY <1>3 DEF OpenFails
<1>4. CASE OpenOutput
  BY <1>4 DEF OpenOutput
<1>5. CASE Start
  BY <1>2, <1>5 DEF Start, StartAll
<1>6. CASE \/ ReaderDone("outFlag") \/ StopRunning \/ StopStep \/ FPStopJoin("outShut")
  <2>1. mPc' \notin {"open", "start", "reader"} /\ UNCHANGED <<file, rPc, lbPc>>
    BY <1>6 DEF ReaderDone, StopRunning, OutputStopFlag, StopStep, LBStopFlag, LBStopShutdown,
       LBStopJoin, FPStopFlag, FPStopShutdown, FPStopJoin, OutputShutdown, OutputJoin, CloseFile
  <2> QED
    BY <1>2, <2>1
<1> QED
  BY <1>3, <1>4, <1>5, <1>6 DEF MainStep

\* What the output needs holds at first, ...
LEMMA FileInit == Init => FileInv
BY DEF Init, FileInv, OutputInv, WellFormedFile, NoJob

\* ... and every step of the engine keeps it.
LEMMA FileStep == EngineInv /\ FileInv /\ [Next]_vars => FileInv'
<1> SUFFICES ASSUME EngineInv, FileInv, [Next]_vars PROVE FileInv'
  OBVIOUS
<1>1. TypeOK
  BY DEF EngineInv, PipelineInv
<1>2. CASE UNCHANGED vars
  BY <1>2 DEF FileInv, OutputInv, WellFormedFile, vars, workerVars, controlVars, lbVars, fpVars,
     outVars, fileVars, stats, readerVars, mainVars
<1> QED
  BY <1>1, <1>2, LBFile, FPFile, WriterFile, ReaderFile, MainFile DEF Next, WorkerStep, Returned

\* The output of one call is a capture, whenever the writer stops: the header is written
\* once, before any packet, though the reader writes it and another thread the packets; and
\* what follows was counted as forwarded.
THEOREM OutputIsACapture == Spec => []WellFormedFile
<1>1. FileInv => WellFormedFile
  BY DEF FileInv
<1> QED
  BY <1>1, FileInit, FileStep, EngineInit, EngineStep, PTL DEF Spec

---------------------------------------------------------------------------------
\* The packets are in line, and the writer finds the file open.
LineOpenInv == OrderInv /\ OutputOpen

\* So it is at first, ...
LEMMA LineInit == Init => LineOpenInv
BY OrderInit DEF Init, LineOpenInv, OutputOpen

\* ... and after every step, because the file is created, and its header written, while it
\* is empty.
LEMMA LineStep == EngineInv /\ FileInv /\ LineOpenInv /\ [Next]_vars => LineOpenInv'
<1> SUFFICES ASSUME EngineInv, FileInv, LineOpenInv, [Next]_vars PROVE LineOpenInv'
  OBVIOUS
<1>1. /\ TypeOK /\ Routed /\ NoJobDiscarded /\ NotStarted
      /\ OrderInv /\ OutputOpen
      /\ rPc = "open" => mPc = "reader"
  BY EnginePhases, PipelineSafe DEF EngineInv, PipelineInv, LineOpenInv, StopOrder
<1>2. /\ mPc \in {"start", "reader"} => fileOpen
      /\ mPc \in {"open", "start"} \/ rPc = "open" => file = <<>>
  BY DEF FileInv, OutputInv
<1>3. ASSUME OrderInv', OutputOpen' PROVE LineOpenInv'
  BY <1>3 DEF LineOpenInv
<1> USE DEF workerVars, lbVars, fpVars, outVars, fileVars, stats, readerVars, mainVars
<1>4. CASE WorkerStep \/ ReaderLoop
  <2>1. wPc = "write" => fileOpen
    BY <1>1 DEF OutputOpen
  <2> QED
    BY <1>1, <1>3, <1>4, <2>1, CarriersKeepLine, CarriersKeepOpen
<1>5. CASE ReaderOpenFails
  <2>1. OutputOpen'
    BY <1>1, <1>5 DEF ReaderOpenFails, OutputOpen
  <2> QED
    BY <1>1, <1>3, <1>5, <2>1, OthersKeep DEF ReaderOpenFails
<1>6. CASE ReaderOpens
  <2>1. file = <<>> /\ file' = <<Header>>
    BY <1>1, <1>2, <1>6 DEF ReaderOpens
  <2>2. OutputOpen'
    BY <1>1, <1>6 DEF ReaderOpens, OutputOpen
  <2> QED
    BY <1>1, <1>3, <1>6, <2>1, <2>2, OthersKeep DEF ReaderOpens
<1>7. CASE OpenFails
  <2>1. OutputOpen'
    BY <1>1, <1>7 DEF OpenFails, OutputOpen
  <2> QED
    BY <1>1, <1>3, <1>7, <2>1, OthersKeep DEF OpenFails
<1>8. CASE OpenOutput
  <2>1. file = <<>> /\ file' = <<>>
    BY <1>2, <1>8 DEF OpenOutput
  <2>2. OutputOpen'
    BY <1>1, <1>8 DEF OpenOutput, OutputOpen
  <2> QED
    BY <1>1, <1>3, <1>8, <2>1, <2>2, OthersKeep DEF OpenOutput
<1>9. CASE Start
  <2>1. UNCHANGED <<next, rJob, lbq, lbJob, fpq, fpJob, outq, wJob, file, dropped, forwarded>>
    BY <1>9 DEF Start, StartAll
  <2>2. OutputOpen'
    BY <1>2, <1>9 DEF Start, StartAll, OutputOpen
  <2> QED
    BY <1>1, <1>3, <2>1, <2>2, OthersKeep
<1>10. CASE ReaderDone("outFlag") \/ StopRunning \/ StopStep \/ FPStopJoin("outShut")
  BY <1>1, <1>3, <1>10, StopKeepsLine DEF StopRunning
<1>11. CASE UNCHANGED vars
  <2>1. OutputOpen'
    BY <1>1, <1>11 DEF vars, controlVars, OutputOpen
  <2>2. UNCHANGED <<next, rJob, lbq, lbJob, fpq, fpJob, outq, wJob, file, dropped, forwarded>>
    BY <1>11 DEF vars, controlVars
  <2> QED
    BY <1>1, <1>3, <2>1, <2>2, OthersKeep
<1> QED
  BY <1>4, <1>5, <1>6, <1>7, <1>8, <1>9, <1>10, <1>11 DEF Next, Reader, MainStep, Returned

\* "processFile" keeps each conversation in order: whatever the threads do in between, its
\* packets are written in the order of the input file.
THEOREM ConversationsStayInOrder == Spec => []FlowOrder
<1>1. LineOpenInv => FlowOrder
  BY DEF LineOpenInv, OrderInv
<1> QED
  BY <1>1, LineInit, LineStep, FileInit, FileStep, EngineInit, EngineStep, PTL DEF Spec

\* No packet that was taken vanishes and none is there twice, not while the engine is stopped
\* either: each is in one queue, in one thread's hands, in the file or in the count of the
\* dropped.
THEOREM NoPacketIsLost == Spec => []EveryJobInOnePlace
<1>1. EngineInv /\ LineOpenInv => EveryJobInOnePlace
  BY OnePlace DEF EngineInv, PipelineInv, LineOpenInv
<1> QED
  BY <1>1, LineInit, LineStep, FileInit, FileStep, EngineInit, EngineStep, PTL DEF Spec
=================================================================================
