----------------------------- MODULE PipelineProofs -----------------------------
(***************************************************************************)
(* Lemmas about the steps of Pipeline that both engines use: types, the    *)
(* way of a flow through the queues, and the order in which the stages     *)
(* are stopped.                                                            *)
(***************************************************************************)
EXTENDS Pipeline, FiniteSetTheorems, TLAPS

(***************************************************************************)
(* What the dispatch relies on: the two directions of a conversation hash  *)
(* alike, whatever the mixing.                                             *)
(***************************************************************************)

\* Not both directions have the larger source; neither has it only when the
\* endpoints are equal.
LEMMA OneSourceIsLarger ==
  ASSUME NEW t \in FiveTuples
  PROVE  /\ SourceIsLarger(t) => ~SourceIsLarger(reverse(t))
         /\ ~SourceIsLarger(t) /\ ~SourceIsLarger(reverse(t)) => reverse(t) = t
BY DEF FiveTuples, SourceIsLarger, reverse

\* "Create bidirectional hash": FiveTupleHash gives both directions of a flow the
\* same value, whatever the mixing does with the five numbers.
THEOREM HashIsBidirectional ==
  ASSUME NEW t \in FiveTuples
  PROVE  FiveTupleHash(reverse(t)) = FiveTupleHash(t)
<1>1. CASE SourceIsLarger(t)
  BY <1>1, OneSourceIsLarger DEF FiveTupleHash, reverse
<1>2. CASE SourceIsLarger(reverse(t))
  <2>1. ~SourceIsLarger(t)
    BY <1>2, OneSourceIsLarger
  <2> QED
    BY <1>2, <2>1 DEF FiveTupleHash, reverse
<1>3. CASE ~SourceIsLarger(t) /\ ~SourceIsLarger(reverse(t))
  BY <1>3, OneSourceIsLarger
<1> QED
  BY <1>1, <1>2, <1>3

\* "Same flow always goes to same FP": the reader picks the load balancer, and that
\* the fast path, by the hash alone.
THEOREM DirectionsMeet ==
  ASSUME NEW s \in FiveTuples, NEW t \in FiveTuples, SameFlow(s, t)
  PROVE  /\ getLBForPacket(s) = getLBForPacket(t)
         /\ \A lb \in LBs : FPFor(lb, s) = FPFor(lb, t)
BY HashIsBidirectional DEF SameFlow, getLBForPacket, FPFor, selectFP

\* "LB0 handles FP0, FP1 (hash % 2 == 0 or 1)": not with as many load balancers as
\* each has fast paths.  Both choices are then the same number, and of the fast paths
\* of load balancer i only number i ever gets a packet.
THEOREM OneFPOfEachPool ==
  ASSUME NumLBs = FpsPerLB, NEW t \in Tuples
  PROVE  LET i == getLBForPacket(t) IN FPFor(i, t) = fp_start(i) + i
BY DEF getLBForPacket, FPFor, selectFP

\* The choices are indices of existing threads, and a load balancer keeps to the
\* fast paths of its own slice.
LEMMA ChoiceInRange ==
  ASSUME NEW t \in Tuples, NEW i \in LBs
  PROVE  getLBForPacket(t) \in LBs /\ FPFor(i, t) \in FPs
<1> DEFINE h == FiveTupleHash(t)
<1>1. h \in Nat /\ NumLBs \in Nat \ {0} /\ FpsPerLB \in Nat \ {0}
  BY DispatchAssumption DEF DispatchAssumption
<1> HIDE DEF h
<1>2. h % NumLBs \in 0 .. NumLBs - 1 /\ h % FpsPerLB \in 0 .. FpsPerLB - 1
  BY <1>1
<1>3. i \in 0 .. NumLBs - 1
  BY DEF LBs
<1>4. i * FpsPerLB >= 0 /\ i * FpsPerLB <= (NumLBs - 1) * FpsPerLB
  BY <1>1, <1>3
<1>5. (NumLBs - 1) * FpsPerLB = NumLBs * FpsPerLB - FpsPerLB
  BY <1>1
<1>6. i * FpsPerLB + (h % FpsPerLB) \in 0 .. NumLBs * FpsPerLB - 1
  BY <1>1, <1>2, <1>3, <1>4, <1>5
<1> QED
  BY <1>2, <1>6 DEF h, getLBForPacket, FPFor, selectFP, fp_start, LBs, FPs

---------------------------------------------------------------------------------
\* There is a load balancer and a fast path, and an index of either is in the
\* range of mIdx.
LEMMA Indices ==
  /\ 0 \in LBs /\ 0 \in FPs
  /\ LBs \subseteq 0 .. NumLBs * FpsPerLB
  /\ FPs \subseteq 0 .. NumLBs * FpsPerLB
<1>1. NumLBs \in Nat \ {0} /\ FpsPerLB \in Nat \ {0}
  BY DispatchAssumption DEF DispatchAssumption
<1>2. NumLBs * FpsPerLB \in Nat /\ NumLBs * FpsPerLB >= NumLBs
  BY <1>1
<1> QED
  BY <1>1, <1>2 DEF LBs, FPs

\* Every job has one of the five-tuples of the traffic.
LEMMA JobTuple == \A j \in Jobs : tuple(j) \in Tuples
<1> TAKE j \in Jobs
<1> DEFINE Frame == [tuple : Tuples, parses : BOOLEAN]
<1>1. Frames \in Seq(Frame)
  BY PipelineAssumption DEF PipelineAssumption
<1>2. Frame = [tuple : Tuples, parses : BOOLEAN]
  OBVIOUS
<1> HIDE DEF Frame
<1>3. Frames[j] \in Frame
  BY <1>1 DEF Jobs
<1> QED
  BY <1>2, <1>3 DEF tuple

\* The initial values have their types.
LEMMA TypeInit == Init => TypeOK
<1> SUFFICES ASSUME Init PROVE TypeOK
  OBVIOUS
<1>1. 0 \in 0 .. NumLBs * FpsPerLB
  BY Indices
<1>2. 1 \in 1 .. Len(Frames) + 1 /\ QueueSize \in Nat
  BY PipelineAssumption DEF PipelineAssumption
<1> USE DEF Init, ThreadPcs, MainPcs
<1>3. /\ lbq \in [LBs -> Seq(Jobs)] /\ \A i \in LBs : Len(lbq[i]) <= QueueSize
      /\ fpq \in [FPs -> Seq(Jobs)] /\ \A f \in FPs : Len(fpq[f]) <= QueueSize
      /\ outq \in Seq(Jobs) /\ Len(outq) <= QueueSize
      /\ file \in Seq(Jobs \cup {Header})
  BY <1>2
<1>4. /\ lbPc \in [LBs -> ThreadPcs] /\ fpPc \in [FPs -> ThreadPcs]
      /\ lbJob \in [LBs -> Jobs \cup {NoJob}] /\ fpJob \in [FPs -> Jobs \cup {NoJob}]
      /\ \A i \in LBs : lbPc[i] = "push" <=> lbJob[i] # NoJob
      /\ \A f \in FPs : fpPc[f] = "push" <=> fpJob[f] # NoJob
      /\ processed \in [FPs -> SUBSET Jobs]
  OBVIOUS
<1>5. /\ next \in 1 .. Len(Frames) + 1 /\ mIdx \in 0 .. NumLBs * FpsPerLB
      /\ mPc \in MainPcs
  BY <1>1, <1>2
<1> QED
  BY <1>3, <1>4, <1>5 DEF TypeOK

\* A queue of jobs a push has returned from, and one a pop has taken the head of.
LEMMA QueueStep ==
  ASSUME NEW q \in Seq(Jobs), Len(q) <= QueueSize
  PROVE  /\ \A j \in Jobs, shut \in BOOLEAN :
              PushReturns(q, shut) => /\ Pushed(q, shut, j) \in Seq(Jobs)
                                      /\ Len(Pushed(q, shut, j)) <= QueueSize
         /\ q # <<>> => /\ Head(q) \in Jobs
                        /\ Tail(q) \in Seq(Jobs) /\ Len(Tail(q)) <= QueueSize
<1>1. QueueSize \in Nat
  BY PipelineAssumption DEF PipelineAssumption
<1> QED
  BY <1>1 DEF PushReturns, Pushed

---------------------------------------------------------------------------------
\* Every step of a load balancer thread leaves the variables well-typed.
LEMMA LBType ==
  ASSUME TypeOK, NEW i \in LBs, LBStep(i)
  PROVE  TypeOK'
<1> USE DEF TypeOK, lbVars, fpVars, outVars, fileVars, stats, controlVars, readerVars, mainVars
<1>1. CASE LBCheck(i)
  BY <1>1 DEF LBCheck, ThreadPcs
<1>2. CASE LBIdle(i)
  BY <1>2 DEF LBIdle, ThreadPcs
<1>3. CASE LBPop(i)
  <2>1. Head(lbq[i]) \in Jobs /\ Tail(lbq[i]) \in Seq(Jobs) /\ Len(Tail(lbq[i])) <= QueueSize
    BY <1>3, QueueStep DEF LBPop
  <2>2. Head(lbq[i]) # NoJob
    BY <2>1 DEF Jobs, NoJob
  <2> QED
    BY <1>3, <2>1, <2>2 DEF LBPop, ThreadPcs
<1>4. CASE LBPush(i)
  <2> DEFINE f == FPFor(i, tuple(lbJob[i]))
  <2>1. lbJob[i] \in Jobs
    BY <1>4 DEF LBPush
  <2>2. f \in FPs
    BY <2>1, JobTuple, ChoiceInRange
  <2>3. /\ PushReturns(fpq[f], fpShut[f])
        /\ fpq' = [fpq EXCEPT ![f] = Pushed(fpq[f], fpShut[f], lbJob[i])]
    BY <1>4 DEF LBPush
  <2> HIDE DEF f
  <2>4. /\ Pushed(fpq[f], fpShut[f], lbJob[i]) \in Seq(Jobs)
        /\ Len(Pushed(fpq[f], fpShut[f], lbJob[i])) <= QueueSize
    BY <2>1, <2>2, <2>3, QueueStep
  <2>5. fpq' \in [FPs -> Seq(Jobs)] /\ \A g \in FPs : Len(fpq'[g]) <= QueueSize
    BY <2>2, <2>3, <2>4
  <2> QED
    BY <1>4, <2>5 DEF LBPush, ThreadPcs
<1> QED
  BY <1>1, <1>2, <1>3, <1>4 DEF LBStep

\* So does every step of a fast path thread,
LEMMA FPType ==
  ASSUME TypeOK, NEW f \in FPs, FPStep(f)
  PROVE  TypeOK'
<1> USE DEF TypeOK, lbVars, fpVars, outVars, fileVars, stats, controlVars, readerVars, mainVars
<1>1. CASE FPCheck(f)
  BY <1>1 DEF FPCheck, ThreadPcs
<1>2. CASE FPIdle(f)
  BY <1>2 DEF FPIdle, ThreadPcs
<1>3. ASSUME fpq[f] # <<>>
      PROVE  /\ Head(fpq[f]) \in Jobs /\ Head(fpq[f]) # NoJob
             /\ Tail(fpq[f]) \in Seq(Jobs) /\ Len(Tail(fpq[f])) <= QueueSize
  <2>1. /\ Head(fpq[f]) \in Jobs
        /\ Tail(fpq[f]) \in Seq(Jobs) /\ Len(Tail(fpq[f])) <= QueueSize
    BY <1>3, QueueStep
  <2> QED
    BY <2>1 DEF Jobs, NoJob
<1>4. CASE FPDrop(f)
  BY <1>3, <1>4 DEF FPDrop, ThreadPcs
<1>5. CASE FPForward(f)
  BY <1>3, <1>5 DEF FPForward, ThreadPcs
<1>6. CASE FPPush(f)
  <2>1. fpJob[f] \in Jobs
    BY <1>6 DEF FPPush
  <2>2. outq' \in Seq(Jobs) /\ Len(outq') <= QueueSize
    BY <1>6, <2>1, QueueStep DEF FPPush
  <2> QED
    BY <1>6, <2>2 DEF FPPush, ThreadPcs
<1> QED
  BY <1>1, <1>2, <1>4, <1>5, <1>6 DEF FPStep

\* every step of the writer,
LEMMA WriterType ==
  ASSUME TypeOK, WriterStep
  PROVE  TypeOK'
<1> USE DEF TypeOK, lbVars, fpVars, outVars, fileVars, stats, controlVars, readerVars, mainVars
<1>1. CASE WriterCheck
  BY <1>1 DEF WriterCheck
<1>2. CASE WriterIdle
  BY <1>2 DEF WriterIdle
<1>3. CASE WriterPop
  <2>1. Head(outq) \in Jobs /\ Tail(outq) \in Seq(Jobs) /\ Len(Tail(outq)) <= QueueSize
    BY <1>3, QueueStep DEF WriterPop
  <2>2. Head(outq) # NoJob
    BY <2>1 DEF Jobs, NoJob
  <2> QED
    BY <1>3, <2>1, <2>2 DEF WriterPop
<1>4. CASE WriterWrite
  BY <1>4 DEF WriterWrite
<1> QED
  BY <1>1, <1>2, <1>3, <1>4 DEF WriterStep

\* and every step of the reader's loop.
LEMMA ReaderType ==
  ASSUME TypeOK, ReaderLoop
  PROVE  TypeOK'
<1> USE DEF TypeOK, workerVars, lbVars, fpVars, outVars, fileVars, stats, mainVars
<1>0. Len(Frames) \in Nat
  BY PipelineAssumption DEF PipelineAssumption
<1>1. CASE ReaderSkip
  BY <1>0, <1>1 DEF ReaderSkip
<1>2. CASE ReaderTake
  BY <1>0, <1>2 DEF ReaderTake, Jobs, NoJob
<1>3. CASE ReaderPush
  <2> DEFINE i == getLBForPacket(tuple(rJob))
  <2>1. rJob \in Jobs
    BY <1>3 DEF ReaderPush
  <2>2. i \in LBs
    BY <2>1, JobTuple, ChoiceInRange, Indices
  <2>3. /\ PushReturns(lbq[i], lbShut[i])
        /\ lbq' = [lbq EXCEPT ![i] = Pushed(lbq[i], lbShut[i], rJob)]
    BY <1>3 DEF ReaderPush
  <2> HIDE DEF i
  <2>4. /\ Pushed(lbq[i], lbShut[i], rJob) \in Seq(Jobs)
        /\ Len(Pushed(lbq[i], lbShut[i], rJob)) <= QueueSize
    BY <2>1, <2>2, <2>3, QueueStep
  <2>5. lbq' \in [LBs -> Seq(Jobs)] /\ \A b \in LBs : Len(lbq'[b]) <= QueueSize
    BY <2>2, <2>3, <2>4
  <2> QED
    BY <1>3, <2>5 DEF ReaderPush
<1>4. CASE ReaderEnd
  BY <1>4 DEF ReaderEnd
<1> QED
  BY <1>1, <1>2, <1>3, <1>4 DEF ReaderLoop

\* Starting: the queues and counters are left as they are.
LEMMA StartType ==
  ASSUME TypeOK, StartAll,
         mPc' = "reader", rPc' \in {"open", "read"}, rJob = NoJob,
         file' \in Seq(Jobs \cup {Header}), fileOpen' \in BOOLEAN,
         UNCHANGED <<mIdx, rJob, next, stats>>,
         \A i \in LBs : lbJob[i] = NoJob, \A f \in FPs : fpJob[f] = NoJob, wJob = NoJob
  PROVE  TypeOK'
BY DEF TypeOK, StartAll, stats, ThreadPcs, MainPcs

\* Stopping one stage after the other.
LEMMA StopType ==
  ASSUME TypeOK, NEW to \in MainPcs,
         StopStep \/ FPStopJoin(to) \/ OutputStopFlag(to) \/ ReaderDone(to)
  PROVE  TypeOK'
<1> USE DEF TypeOK, workerVars, lbVars, fpVars, outVars, fileVars, stats, readerVars
<1>1. CASE LBStopFlag
  BY <1>1 DEF LBStopFlag, MainPcs
<1>2. CASE LBStopShutdown
  BY <1>2 DEF LBStopShutdown, MainPcs
<1>3. CASE LBStopJoin
  <2>1. mPc' \in MainPcs
    BY <1>3 DEF LBStopJoin, MainPcs
  <2> QED
    BY <1>3, <2>1, Indices DEF LBStopJoin
<1>4. CASE FPStopFlag
  BY <1>4 DEF FPStopFlag, MainPcs
<1>5. CASE FPStopShutdown
  BY <1>5 DEF FPStopShutdown, MainPcs
<1>6. CASE OutputShutdown
  BY <1>6 DEF OutputShutdown, MainPcs
<1>7. CASE OutputJoin
  BY <1>7 DEF OutputJoin, MainPcs
<1>8. CASE CloseFile
  BY <1>8 DEF CloseFile, MainPcs
<1>9. CASE FPStopJoin(to)
  <2>1. mPc' \in MainPcs
    BY <1>9 DEF FPStopJoin, MainPcs
  <2> QED
    BY <1>9, <2>1, Indices DEF FPStopJoin
<1>10. CASE OutputStopFlag(to)
  BY <1>10 DEF OutputStopFlag
<1>11. CASE ReaderDone(to)
  BY <1>11 DEF ReaderDone
<1> QED
  BY <1>1, <1>2, <1>3, <1>4, <1>5, <1>6, <1>7, <1>8, <1>9, <1>10, <1>11 DEF StopStep

---------------------------------------------------------------------------------
\* The fast path the two choices by hash lead to.
Home(j) == FPFor(getLBForPacket(tuple(j)), tuple(j))

\* Every job is on the way to its home, or has been processed there.
Routed ==
  /\ \A i \in LBs :
       /\ \A k \in 1 .. Len(lbq[i]) : getLBForPacket(tuple(lbq[i][k])) = i
       /\ lbPc[i] = "push" => getLBForPacket(tuple(lbJob[i])) = i
  /\ \A f \in FPs :
       /\ \A k \in 1 .. Len(fpq[f]) : Home(fpq[f][k]) = f
       /\ \A j \in processed[f] : Home(j) = f

\* At first there is nothing to route.
LEMMA RoutedInit == Init => Routed
BY DEF Init, Routed

\* Processed at home, the packets of one conversation are processed by one fast path.
LEMMA RoutedPins == TypeOK /\ Routed => FlowPinned
<1> SUFFICES ASSUME TypeOK, Routed, NEW f \in FPs, NEW g \in FPs,
                    NEW j \in processed[f], NEW k \in processed[g],
                    SameFlow(tuple(j), tuple(k))
             PROVE  f = g
  BY DEF FlowPinned
<1>1. j \in Jobs /\ k \in Jobs
  BY DEF TypeOK
<1>2. tuple(j) \in Tuples /\ tuple(k) \in Tuples
  BY <1>1, JobTuple
<1>3. tuple(j) \in FiveTuples /\ tuple(k) \in FiveTuples
  BY <1>2, DispatchAssumption DEF DispatchAssumption
<1>4. getLBForPacket(tuple(j)) \in LBs
  BY <1>2, ChoiceInRange, Indices
<1>5. Home(j) = Home(k)
  BY <1>3, <1>4, DirectionsMeet DEF Home
<1> QED
  BY <1>5 DEF Routed

\* A load balancer pushes what it was sent to where both choices lead.
LEMMA LBRoutes ==
  ASSUME TypeOK, Routed, NEW i \in LBs, LBStep(i)
  PROVE  Routed'
<1> USE DEF Routed, fpVars, stats
<1>1. CASE LBCheck(i)
  BY <1>1 DEF LBCheck, TypeOK
<1>2. CASE LBIdle(i)
  BY <1>2 DEF LBIdle, TypeOK
<1>3. CASE LBPop(i)
  <2>1. lbq[i] \in Seq(Jobs) /\ lbq[i] # <<>>
    BY <1>3 DEF LBPop, TypeOK
  <2>2. /\ Head(lbq[i]) = lbq[i][1] /\ 1 \in 1 .. Len(lbq[i])
        /\ \A k \in 1 .. Len(Tail(lbq[i])) :
             k + 1 \in 1 .. Len(lbq[i]) /\ Tail(lbq[i])[k] = lbq[i][k + 1]
    BY <2>1
  <2> QED
    BY <1>3, <2>2 DEF LBPop, TypeOK
<1>4. CASE LBPush(i)
  <2> DEFINE f == FPFor(i, tuple(lbJob[i]))
  <2>1. lbPc[i] = "push" /\ lbJob[i] \in Jobs
    BY <1>4 DEF LBPush, TypeOK
  <2>2. f = Home(lbJob[i])
    BY <2>1 DEF Home
  <2>3. f \in FPs
    BY <2>1, JobTuple, ChoiceInRange
  <2>4. fpq' = [fpq EXCEPT ![f] = Pushed(fpq[f], fpShut[f], lbJob[i])]
    BY <1>4 DEF LBPush
  <2> HIDE DEF f
  <2>5. fpq[f] \in Seq(Jobs)
    BY <2>3 DEF TypeOK
  <2>6. \A k \in 1 .. Len(fpq'[f]) : Home(fpq'[f][k]) = f
    <3>1. fpq'[f] = fpq[f] \/ fpq'[f] = Append(fpq[f], lbJob[i])
      BY <2>3, <2>4 DEF Pushed, TypeOK
    <3>2. CASE fpq'[f] = fpq[f]
      BY <2>3, <3>2
    <3>3. CASE fpq'[f] = Append(fpq[f], lbJob[i])
      BY <2>1, <2>2, <2>3, <2>5, <3>3
    <3> QED
      BY <3>1, <3>2, <3>3
  <2>7. \A g \in FPs \ {f} : fpq'[g] = fpq[g]
    BY <2>4 DEF TypeOK
  <2>8. /\ lbq' = lbq /\ processed' = processed
        /\ lbJob' = [lbJob EXCEPT ![i] = NoJob]
        /\ lbPc' = [lbPc EXCEPT ![i] = "check"]
    BY <1>4 DEF LBPush
  <2>9. \A b \in LBs : lbPc'[b] = "push" => lbPc[b] = "push" /\ lbJob'[b] = lbJob[b]
    BY <2>8 DEF TypeOK
  <2> QED
    BY <2>6, <2>7, <2>8, <2>9
<1> QED
  BY <1>1, <1>2, <1>3, <1>4 DEF LBStep

\* A fast path processes what its own queue holds.
LEMMA FPRoutes ==
  ASSUME TypeOK, Routed, NEW f \in FPs, FPStep(f)
  PROVE  Routed'
<1> USE DEF Routed, lbVars, stats
<1>1. CASE FPCheck(f)
  BY <1>1 DEF FPCheck, TypeOK
<1>2. CASE FPIdle(f)
  BY <1>2 DEF FPIdle, TypeOK
<1>3. CASE FPPush(f)
  BY <1>3 DEF FPPush, TypeOK
<1>4. CASE FPDrop(f) \/ FPForward(f)
  <2>1. /\ fpq[f] \in Seq(Jobs) /\ fpq[f] # <<>>
        /\ fpq' = [fpq EXCEPT ![f] = Tail(fpq[f])]
        /\ processed' = [processed EXCEPT ![f] = @ \cup {Head(fpq[f])}]
        /\ UNCHANGED lbVars
    BY <1>4 DEF FPDrop, FPForward, TypeOK
  <2>2. /\ Head(fpq[f]) = fpq[f][1] /\ 1 \in 1 .. Len(fpq[f])
        /\ \A k \in 1 .. Len(Tail(fpq[f])) :
             k + 1 \in 1 .. Len(fpq[f]) /\ Tail(fpq[f])[k] = fpq[f][k + 1]
    BY <2>1
  <2>3. /\ \A g \in FPs \ {f} : fpq'[g] = fpq[g] /\ processed'[g] = processed[g]
        /\ fpq'[f] = Tail(fpq[f]) /\ processed'[f] = processed[f] \cup {Head(fpq[f])}
    BY <2>1 DEF TypeOK
  <2> QED
    BY <2>1, <2>2, <2>3
<1> QED
  BY <1>1, <1>2, <1>3, <1>4 DEF FPStep

\* The reader pushes a job to the load balancer its hash chooses.
LEMMA ReaderRoutes ==
  ASSUME TypeOK, Routed, ReaderLoop
  PROVE  Routed'
<1> USE DEF Routed, workerVars, lbVars, fpVars, stats
<1>1. CASE ReaderSkip \/ ReaderTake \/ ReaderEnd
  BY <1>1 DEF ReaderSkip, ReaderTake, ReaderEnd
<1>2. CASE ReaderPush
  <2> DEFINE i == getLBForPacket(tuple(rJob))
  <2>1. rJob \in Jobs
    BY <1>2 DEF ReaderPush, TypeOK
  <2>2. i \in LBs
    BY <2>1, JobTuple, ChoiceInRange, Indices
  <2>3. /\ lbq' = [lbq EXCEPT ![i] = Pushed(lbq[i], lbShut[i], rJob)]
        /\ UNCHANGED <<lbPc, lbJob, fpVars, stats>>
    BY <1>2 DEF ReaderPush
  <2>4. getLBForPacket(tuple(rJob)) = i
    OBVIOUS
  <2> HIDE DEF i
  <2>5. lbq[i] \in Seq(Jobs)
    BY <2>2 DEF TypeOK
  <2>6. \A k \in 1 .. Len(lbq'[i]) : getLBForPacket(tuple(lbq'[i][k])) = i
    <3>1. lbq'[i] = lbq[i] \/ lbq'[i] = Append(lbq[i], rJob)
      BY <2>2, <2>3 DEF Pushed, TypeOK
    <3>2. CASE lbq'[i] = lbq[i]
      BY <2>2, <3>2
    <3>3. CASE lbq'[i] = Append(lbq[i], rJob)
      BY <2>1, <2>2, <2>4, <2>5, <3>3
    <3> QED
      BY <3>1, <3>2, <3>3
  <2>7. \A b \in LBs \ {i} : lbq'[b] = lbq[b]
    BY <2>3 DEF TypeOK
  <2> QED
    BY <2>3, <2>6, <2>7
<1> QED
  BY <1>1, <1>2 DEF ReaderLoop

\* No other step touches what Routed speaks of, but to start the threads.
LEMMA OthersRoute ==
  ASSUME Routed, UNCHANGED <<lbq, lbJob, fpq, processed>>,
         lbPc' = lbPc \/ lbPc' = [i \in LBs |-> "check"]
  PROVE  Routed'
BY DEF Routed

---------------------------------------------------------------------------------
LBPhase == {"lbFlag", "lbShut", "lbJoin"}
FPPhase == {"fpFlag", "fpShut", "fpJoin"}

\* The stages are stopped one after the other.  In before and after are the places
\* of the stopping thread before it stops the load balancers and after it has
\* stopped the fast paths; the engines differ in where "outFlag" belongs.
StopOrder(before, after) ==
  /\ rPc \in {"open", "read", "push"} => mPc = "reader"
  /\ mPc \notin LBPhase \cup FPPhase => mIdx = 0
  /\ mPc \in before => \A i \in LBs : ~lbShut[i]
  /\ mPc \in before \cup LBPhase => \A f \in FPs : ~fpShut[f]
  /\ mPc \in LBPhase => mIdx \in LBs /\ \A i \in LBs : i < mIdx => lbPc[i] = "exited"
  /\ mPc \in FPPhase \cup after => \A i \in LBs : lbPc[i] = "exited"
  /\ mPc \in FPPhase => mIdx \in FPs /\ \A f \in FPs : f < mIdx => fpPc[f] = "exited"
  /\ mPc \in after => \A f \in FPs : fpPc[f] = "exited"
  /\ outShut => mPc \in {"outJoin", "close", "done"}

\* The places are told apart, and all are named.
Phases(before, after) ==
  /\ MainPcs = before \cup LBPhase \cup FPPhase \cup after
  /\ before \cap (LBPhase \cup FPPhase \cup after) = {}
  /\ after \cap (LBPhase \cup FPPhase) = {}
  /\ {"open", "start", "reader"} \subseteq before
  /\ {"outShut", "outJoin", "close", "done"} \subseteq after

\* Stopped in this order, no thread is left to push into a queue that is shut down.
LEMMA OrderDiscardsNothing ==
  ASSUME NEW before, NEW after, Phases(before, after), TypeOK, StopOrder(before, after)
  PROVE  NoJobDiscarded
<1>1. ASSUME rPc = "push" PROVE ~lbShut[getLBForPacket(tuple(rJob))]
  <2>1. rJob \in Jobs /\ mPc \in before
    BY <1>1 DEF TypeOK, StopOrder, Phases
  <2>2. getLBForPacket(tuple(rJob)) \in LBs
    BY <2>1, JobTuple, ChoiceInRange, Indices
  <2> QED
    BY <2>1, <2>2 DEF StopOrder
<1>2. ASSUME NEW i \in LBs, lbPc[i] = "push" PROVE ~fpShut[FPFor(i, tuple(lbJob[i]))]
  <2>1. lbJob[i] \in Jobs
    BY <1>2 DEF TypeOK
  <2>2. FPFor(i, tuple(lbJob[i])) \in FPs
    BY <2>1, JobTuple, ChoiceInRange
  <2>3. mPc \in before \cup LBPhase
    BY <1>2 DEF TypeOK, StopOrder, Phases
  <2> QED
    BY <2>2, <2>3 DEF StopOrder
<1>3. ASSUME NEW f \in FPs, fpPc[f] = "push" PROVE ~outShut
  BY <1>3 DEF StopOrder, Phases
<1> QED
  BY <1>1, <1>2, <1>3 DEF NoJobDiscarded

\* The worker threads do not shut anything down, and a thread that has exited does
\* not come back.
LEMMA WorkerKeepsOrder ==
  ASSUME TypeOK, WorkerStep
  PROVE  /\ UNCHANGED <<lbShut, fpShut, outShut, mPc, mIdx, rPc>>
         /\ \A i \in LBs : lbPc[i] = "exited" => lbPc'[i] = "exited"
         /\ \A f \in FPs : fpPc[f] = "exited" => fpPc'[f] = "exited"
<1> USE DEF lbVars, fpVars, outVars, controlVars, readerVars, mainVars, TypeOK
<1>1. ASSUME NEW i \in LBs, LBStep(i)
      PROVE  /\ UNCHANGED <<lbShut, fpShut, outShut, mPc, mIdx, rPc, fpPc>>
             /\ lbPc[i] # "exited" /\ \A b \in LBs \ {i} : lbPc'[b] = lbPc[b]
  BY <1>1 DEF LBStep, LBCheck, LBIdle, LBPop, LBPush
<1>2. ASSUME NEW f \in FPs, FPStep(f)
      PROVE  /\ UNCHANGED <<lbShut, fpShut, outShut, mPc, mIdx, rPc, lbPc>>
             /\ fpPc[f] # "exited" /\ \A g \in FPs \ {f} : fpPc'[g] = fpPc[g]
  BY <1>2 DEF FPStep, FPCheck, FPIdle, FPDrop, FPForward, FPPush
<1>3. ASSUME WriterStep
      PROVE  UNCHANGED <<lbShut, fpShut, outShut, mPc, mIdx, rPc, lbPc, fpPc>>
  BY <1>3 DEF WriterStep, WriterCheck, WriterIdle, WriterPop, WriterWrite
<1> QED
  BY <1>1, <1>2, <1>3 DEF WorkerStep

\* So they keep the order of the stop.
LEMMA WorkerOrder ==
  ASSUME NEW before, NEW after, TypeOK, StopOrder(before, after), WorkerStep
  PROVE  StopOrder(before, after)'
BY WorkerKeepsOrder DEF StopOrder

\* The reader reads only while nobody stops anything.
LEMMA ReaderOrder ==
  ASSUME NEW before, NEW after, StopOrder(before, after), ReaderLoop
  PROVE  StopOrder(before, after)'
BY DEF StopOrder, ReaderLoop, ReaderSkip, ReaderTake, ReaderPush, ReaderEnd, workerVars,
       lbVars, fpVars, outVars, mainVars

\* Nothing has been shut down when the threads are started.
LEMMA StartOrder ==
  ASSUME NEW before, NEW after, Phases(before, after), StopOrder(before, after),
         StartAll, mPc \in before, mPc' = "reader", UNCHANGED mIdx
  PROVE  StopOrder(before, after)'
BY DEF StopOrder, Phases, StartAll, LBPhase, FPPhase

\* Stopping and joining the load balancers, then the fast paths, then the writer.
LEMMA StopStepOrder ==
  ASSUME NEW before, NEW after, Phases(before, after), TypeOK, StopOrder(before, after),
         StopStep
  PROVE  StopOrder(before, after)'
<1> USE DEF StopOrder, Phases, LBPhase, FPPhase, readerVars, workerVars, lbVars, fpVars, outVars
<1>1. CASE LBStopFlag
  BY <1>1 DEF LBStopFlag
<1>2. CASE LBStopShutdown
  BY <1>2 DEF LBStopShutdown
<1>3. CASE LBStopJoin
  <2>1. mIdx \in LBs /\ \A i \in LBs : i < mIdx + 1 => lbPc[i] = "exited"
    BY <1>3 DEF LBStopJoin, LBs
  <2>2. CASE mIdx + 1 \in LBs
    BY <1>3, <2>1, <2>2 DEF LBStopJoin
  <2>3. CASE mIdx + 1 \notin LBs
    <3>1. \A i \in LBs : lbPc[i] = "exited"
      BY <2>1, <2>3, DispatchAssumption DEF LBs, DispatchAssumption
    <3>2. \A f \in FPs : ~(f < 0)
      BY DEF FPs
    <3> QED
      BY <1>3, <2>3, <3>1, <3>2, Indices DEF LBStopJoin
  <2> QED
    BY <2>2, <2>3
<1>4. CASE FPStopFlag
  BY <1>4 DEF FPStopFlag
<1>5. CASE FPStopShutdown
  BY <1>5 DEF FPStopShutdown
<1>6. CASE OutputShutdown
  BY <1>6 DEF OutputShutdown
<1>7. CASE OutputJoin
  BY <1>7 DEF OutputJoin
<1>8. CASE CloseFile
  BY <1>8 DEF CloseFile
<1> QED
  BY <1>1, <1>2, <1>3, <1>4, <1>5, <1>6, <1>7, <1>8 DEF StopStep

\* The last fast path joined, the stop goes on to what comes after.
LEMMA FPJoinOrder ==
  ASSUME NEW before, NEW after, Phases(before, after), TypeOK, StopOrder(before, after),
         NEW to \in after, FPStopJoin(to)
  PROVE  StopOrder(before, after)'
<1> USE DEF StopOrder, Phases, LBPhase, FPPhase, readerVars, workerVars, lbVars, fpVars, outVars
<1>1. mIdx \in FPs /\ \A f \in FPs : f < mIdx + 1 => fpPc[f] = "exited"
  BY DEF FPStopJoin, FPs
<1>2. CASE mIdx + 1 \in FPs
  BY <1>1, <1>2 DEF FPStopJoin
<1>3. CASE mIdx + 1 \notin FPs
  <2>1. \A f \in FPs : fpPc[f] = "exited"
    <3>1. NumLBs * FpsPerLB \in Nat
      BY DispatchAssumption DEF DispatchAssumption
    <3> QED
      BY <1>1, <1>3, <3>1 DEF FPs
  <2> QED
    BY <1>3, <2>1 DEF FPStopJoin
<1> QED
  BY <1>2, <1>3

---------------------------------------------------------------------------------
\* Before the start there are no threads.
NotStarted ==
  mPc \in {"open", "start"} =>
    /\ rPc = "none" /\ wPc = "none"
    /\ \A i \in LBs : lbPc[i] = "none"
    /\ \A f \in FPs : fpPc[f] = "none"

\* At first nothing is started or shut down.
LEMMA InitOrder ==
  ASSUME NEW before, NEW after, Phases(before, after), Init
  PROVE  StopOrder(before, after) /\ NotStarted
BY DEF Init, StopOrder, Phases, LBPhase, FPPhase, NotStarted

\* The writer touches nothing Routed speaks of.
LEMMA WriterRoutes ==
  ASSUME Routed, WriterStep
  PROVE  Routed'
BY OthersRoute DEF WriterStep, WriterCheck, WriterIdle, WriterPop, WriterWrite,
   lbVars, fpVars, stats

\* The invariant the engines share: types, the routes and the order of the stop.
PipelineInv(before, after) ==
  TypeOK /\ Routed /\ StopOrder(before, after) /\ NotStarted

\* The threads that carry the packets keep it.
LEMMA CarriersKeep ==
  ASSUME NEW before, NEW after, PipelineInv(before, after), WorkerStep \/ ReaderLoop
  PROVE  PipelineInv(before, after)'
<1> USE DEF PipelineInv
<1>1. TypeOK' /\ Routed'
  BY LBType, LBRoutes, FPType, FPRoutes, WriterType, ReaderType, ReaderRoutes, WriterRoutes
     DEF WorkerStep
<1>2. StopOrder(before, after)'
  BY WorkerOrder, ReaderOrder
<1>3. ASSUME mPc \in {"open", "start"} PROVE FALSE
  BY <1>3 DEF NotStarted, WorkerStep, LBStep, LBCheck, LBIdle, LBPop, LBPush,
     FPStep, FPCheck, FPIdle, FPDrop, FPForward, FPPush,
     WriterStep, WriterCheck, WriterIdle, WriterPop, WriterWrite,
     ReaderLoop, ReaderSkip, ReaderTake, ReaderPush, ReaderEnd
<1>4. mPc' = mPc
  BY WorkerKeepsOrder DEF ReaderLoop, ReaderSkip, ReaderTake, ReaderPush, ReaderEnd, mainVars
<1> QED
  BY <1>1, <1>2, <1>3, <1>4 DEF NotStarted

\* So does the thread that stops them.
LEMMA StopKeeps ==
  ASSUME NEW before, NEW after, Phases(before, after), PipelineInv(before, after),
         StopStep \/ \E to \in after : FPStopJoin(to)
  PROVE  PipelineInv(before, after)'
<1> USE DEF PipelineInv
<1>1. after \subseteq MainPcs /\ \A x \in after : x \notin {"open", "start"}
  BY DEF Phases
<1>2. "done" \in after
  BY DEF Phases
<1>3. TypeOK'
  BY <1>1, <1>2, StopType
<1>4. UNCHANGED <<lbq, lbPc, lbJob, fpq, processed>>
  BY DEF StopStep, LBStopFlag, LBStopShutdown, LBStopJoin, FPStopFlag, FPStopShutdown,
     FPStopJoin, OutputShutdown, OutputJoin, CloseFile, workerVars, lbVars, fpVars, stats
<1>5. Routed'
  BY <1>4, OthersRoute
<1>6. StopOrder(before, after)'
  BY StopStepOrder, FPJoinOrder
<1>7. mPc' \notin {"open", "start"}
  BY <1>1 DEF StopStep, LBStopFlag, LBStopShutdown, LBStopJoin, FPStopFlag, FPStopShutdown,
     FPStopJoin, OutputShutdown, OutputJoin, CloseFile
<1> QED
  BY <1>3, <1>5, <1>6, <1>7 DEF NotStarted

\* Starting finds no job in the hands of a thread.
LEMMA StartKeeps ==
  ASSUME NEW before, NEW after, Phases(before, after), PipelineInv(before, after),
         StartAll, mPc \in {"open", "start"},
         mPc' = "reader", rPc' \in {"open", "read"},
         file' \in Seq(Jobs \cup {Header}), fileOpen' \in BOOLEAN,
         UNCHANGED <<mIdx, rJob, next, stats>>
  PROVE  PipelineInv(before, after)'
<1> USE DEF PipelineInv
<1>1. /\ rJob = NoJob /\ wJob = NoJob
      /\ \A i \in LBs : lbJob[i] = NoJob
      /\ \A f \in FPs : fpJob[f] = NoJob
  BY DEF NotStarted, TypeOK
<1>2. TypeOK'
  BY <1>1, StartType
<1>3. Routed'
  BY OthersRoute DEF StartAll, stats
<1>4. StopOrder(before, after)'
  BY StartOrder DEF Phases
<1> QED
  BY <1>2, <1>3, <1>4 DEF NotStarted

\* A step that changes nothing keeps it.
LEMMA StutterKeeps ==
  ASSUME NEW before, NEW after, PipelineInv(before, after), UNCHANGED vars
  PROVE  PipelineInv(before, after)'
<1> USE DEF PipelineInv, vars, workerVars, controlVars, lbVars, fpVars, outVars, fileVars,
            stats, readerVars, mainVars
<1>1. TypeOK'
  BY DEF TypeOK
<1>2. Routed'
  BY OthersRoute
<1>3. StopOrder(before, after)' /\ NotStarted'
  BY DEF StopOrder, NotStarted
<1> QED
  BY <1>1, <1>2, <1>3

\* The stopping thread goes on, within a phase or from reading to the load balancers.
LEMMA MoveKeeps ==
  ASSUME NEW before, NEW after, Phases(before, after), PipelineInv(before, after), TypeOK',
         UNCHANGED <<mIdx, lbq, lbShut, lbPc, lbJob, fpq, fpShut, fpPc, outShut, wPc, rPc,
                     processed>>,
         rPc \notin {"open", "read", "push"},
         mPc' \in {"open", "start"} => mPc \in {"open", "start"},
         \/ mPc \in before /\ (mPc' \in before \/ mPc' = "lbFlag")
         \/ mPc \in after /\ mPc = "outFlag" /\ mPc' = "outShut"
  PROVE  PipelineInv(before, after)'
<1> USE DEF PipelineInv
<1>1. Routed'
  BY OthersRoute
<1>2. NotStarted'
  BY DEF NotStarted
<1>3. StopOrder(before, after)'
  <2> USE DEF StopOrder, Phases, LBPhase, FPPhase
  <2>1. CASE mPc \in before /\ mPc' \in before
    BY <2>1
  <2>2. CASE mPc \in before /\ mPc' = "lbFlag"
    <3>1. \A i \in LBs : ~(i < 0)
      BY DEF LBs
    <3> QED
      BY <2>2, <3>1, Indices
  <2>3. CASE mPc \in after /\ mPc = "outFlag" /\ mPc' = "outShut"
    BY <2>3
  <2> QED
    BY <2>1, <2>2, <2>3
<1> QED
  BY <1>1, <1>2, <1>3

\* What it is for.
LEMMA PipelineSafe ==
  ASSUME NEW before, NEW after, Phases(before, after), PipelineInv(before, after)
  PROVE  TypeOK /\ FlowPinned /\ NoJobDiscarded
BY RoutedPins, OrderDiscardsNothing DEF PipelineInv
---------------------------------------------------------------------------------
(* The line of every conversation: its packets go through the stages one behind *)
(* the other, none is lost on the way and none is there twice.                  *)

Unread == {j \in Jobs : j >= next}
InHand(j) == {j} \cap Jobs
InHands(job, threads) == {j \in Jobs : \E x \in threads : job[x] = j}
InQueues(q, threads) == {j \in Jobs : \E x \in threads : j \in Elements(q[x])}

\* The jobs at each stage, from the input file to the output file.
Line == << Unread, InHand(rJob), InQueues(lbq, LBs), InHands(lbJob, LBs), InQueues(fpq, FPs),
           InHands(fpJob, FPs), Elements(outq), InHand(wJob), Written >>

\* Of one conversation, what is in S comes before what is in T.
Ahead(S, T) == \A j \in S, k \in T : SameFlow(tuple(j), tuple(k)) => j < k
Sorted(q) ==
  \A a, b \in 1 .. Len(q) : a < b /\ SameFlow(tuple(q[a]), tuple(q[b])) => q[a] < q[b]
AllSorted(q, threads) == \A x \in threads : Sorted(q[x])
Ordered(line) == \A s, t \in 1 .. 9 : t < s => Ahead(line[s], line[t])

\* The line is in order, with what was dropped ahead of it; it holds, each behind the place
\* where it is counted, what the reader has taken and the fast paths have forwarded.
LineInv ==
  /\ Ordered(Line)
  /\ \A s \in 1 .. 5 : Ahead(dropped, Line[s])
  /\ \A j \in Jobs : j \in Taken <=> j \in dropped \/ \E s \in 2 .. 9 : j \in Line[s]
  /\ \A j \in Jobs : j \in forwarded <=> \E s \in 6 .. 9 : j \in Line[s]
  /\ dropped \cap forwarded = {}

\* The invariant: the order within each queue and the file, and where fast paths find their
\* jobs, is what keeps the line in order when the next job goes on.
OrderInv ==
  /\ LineInv
  /\ AllSorted(lbq, LBs) /\ AllSorted(fpq, FPs)
  /\ Sorted(outq)
  /\ FlowOrder
  /\ \A f \in FPs : fpJob[f] # NoJob => Home(fpJob[f]) = f

\* What is ahead is somewhere else.
LEMMA AheadApart ==
  ASSUME NEW S, NEW T, Ahead(S, T), NEW j \in Jobs, j \in S
  PROVE  j \notin T
BY DEF Ahead, SameFlow, Jobs

\* Job x goes on from stage s, where no other of its conversation is before it.
Moves(before, after, s, x) ==
  /\ x \in before[s]
  /\ \A t \in 1 .. 9 \ {s, s + 1} : after[t] = before[t]
  /\ after[s] \subseteq before[s] /\ before[s] \subseteq after[s] \cup {x}
  /\ after[s + 1] = before[s + 1] \cup {x}
  /\ Ahead({x}, after[s])

\* The line stays in order when one goes on, ...
LEMMA MoveOrdered ==
  ASSUME NEW A, NEW B, NEW s \in 1 .. 8, NEW x, Ordered(A), Moves(A, B, s, x)
  PROVE  Ordered(B)
<1> SUFFICES ASSUME NEW u \in 1 .. 9, NEW t \in 1 .. 9, t < u, NEW j \in B[u], NEW k \in B[t],
                    SameFlow(tuple(j), tuple(k))
             PROVE  j < k
  BY DEF Ordered, Ahead
<1> USE DEF Moves
<1>1. \A v, w \in 1 .. 9 : \A m \in A[v], n \in A[w] :
        w < v /\ SameFlow(tuple(m), tuple(n)) => m < n
  BY DEF Ordered, Ahead
<1>2. s + 1 \in 1 .. 9 /\ s \in 1 .. 9 /\ x \in A[s]
  OBVIOUS
<1>3. \A v \in 1 .. 9 : \A m \in B[v] : m \in A[v] \/ (v = s + 1 /\ m = x)
  BY <1>2
<1>4. CASE j \in A[u] /\ k \in A[t]
  BY <1>1, <1>4
<1>5. CASE u = s + 1 /\ j = x /\ k \in A[t]
  <2>1. CASE t = s
    BY <1>5, <2>1 DEF Ahead
  <2>2. CASE t # s
    BY <1>1, <1>2, <1>5, <2>2
  <2> QED
    BY <2>1, <2>2
<1>6. CASE t = s + 1 /\ k = x /\ j \in A[u]
  BY <1>1, <1>2, <1>6
<1> QED
  BY <1>3, <1>4, <1>5, <1>6

\* ... and the others keep their places.
LEMMA MoveCovers ==
  ASSUME NEW A, NEW B, NEW s \in 1 .. 8, NEW x, Moves(A, B, s, x),
         NEW low \in 1 .. 9, low <= s, NEW j
  PROVE  (\E t \in low .. 9 : j \in B[t]) <=> (\E t \in low .. 9 : j \in A[t])
<1> USE DEF Moves
<1>1. ASSUME NEW t \in low .. 9, j \in B[t] PROVE \E u \in low .. 9 : j \in A[u]
  <2>1. j \in A[t] \/ (t = s + 1 /\ j = x)
    BY <1>1
  <2>2. s \in low .. 9 /\ x \in A[s]
    OBVIOUS
  <2> QED
    BY <2>1, <2>2
<1>2. ASSUME NEW t \in low .. 9, j \in A[t] PROVE \E u \in low .. 9 : j \in B[u]
  <2>1. j \in B[t] \/ (t = s /\ j = x)
    BY <1>2
  <2>2. s + 1 \in low .. 9 /\ x \in B[s + 1]
    OBVIOUS
  <2> QED
    BY <2>1, <2>2
<1> QED
  BY <1>1, <1>2

\* The head of a queue in order is the first of its conversation, and what is left is in order.
LEMMA PopSorted ==
  ASSUME NEW q \in Seq(Jobs), q # <<>>, Sorted(q)
  PROVE  /\ Head(q) \in Jobs /\ Head(q) \in Elements(q)
         /\ Elements(Tail(q)) \subseteq Elements(q)
         /\ Elements(q) \subseteq Elements(Tail(q)) \cup {Head(q)}
         /\ Sorted(Tail(q)) /\ Ahead({Head(q)}, Elements(Tail(q)))
<1>1. Len(q) \in Nat /\ 1 \in 1 .. Len(q) /\ Head(q) = q[1] /\ Head(q) \in Jobs
  OBVIOUS
<1>2. Len(Tail(q)) = Len(q) - 1 /\ \A k \in 1 .. Len(q) - 1 : Tail(q)[k] = q[k + 1]
  OBVIOUS
<1>3. \A k \in 1 .. Len(q) - 1 : k + 1 \in 1 .. Len(q)
  BY <1>1
<1>4. Elements(Tail(q)) \subseteq Elements(q)
  BY <1>2, <1>3 DEF Elements
<1>5. ASSUME NEW j \in Elements(q) PROVE j \in Elements(Tail(q)) \cup {Head(q)}
  <2>1. PICK k \in 1 .. Len(q) : j = q[k]
    BY DEF Elements
  <2>2. CASE k = 1
    BY <1>1, <2>1, <2>2
  <2>3. CASE k # 1
    <3>1. k - 1 \in 1 .. Len(q) - 1 /\ (k - 1) + 1 = k
      BY <1>1, <2>3
    <3> QED
      BY <1>2, <2>1, <3>1 DEF Elements
  <2> QED
    BY <2>2, <2>3
<1>6. Sorted(Tail(q))
  BY <1>1, <1>2, <1>3 DEF Sorted
<1>7. Ahead({Head(q)}, Elements(Tail(q)))
  BY <1>1, <1>2, <1>3 DEF Sorted, Ahead, Elements
<1>8. Head(q) \in Elements(q)
  BY <1>1 DEF Elements
<1> QED
  BY <1>1, <1>4, <1>5, <1>6, <1>7, <1>8

\* A queue stays in order when the next of a conversation comes behind.
LEMMA PushSorted ==
  ASSUME NEW q \in Seq(Jobs), NEW j \in Jobs, Sorted(q), Ahead(Elements(q), {j})
  PROVE  Elements(Append(q, j)) = Elements(q) \cup {j} /\ Sorted(Append(q, j))
<1>1. /\ Len(q) \in Nat /\ Len(Append(q, j)) = Len(q) + 1 /\ Append(q, j)[Len(q) + 1] = j
      /\ \A k \in 1 .. Len(q) : Append(q, j)[k] = q[k]
  OBVIOUS
<1>2. \A k \in 1 .. Len(q) + 1 : k \in 1 .. Len(q) \/ k = Len(q) + 1
  BY <1>1
<1>3. Elements(Append(q, j)) = Elements(q) \cup {j}
  BY <1>1, <1>2 DEF Elements
<1>4. Sorted(Append(q, j))
  <2> SUFFICES ASSUME NEW a \in 1 .. Len(q) + 1, NEW b \in 1 .. Len(q) + 1, a < b,
                      SameFlow(tuple(Append(q, j)[a]), tuple(Append(q, j)[b]))
               PROVE  Append(q, j)[a] < Append(q, j)[b]
    BY <1>1 DEF Sorted
  <2>1. a \in 1 .. Len(q) /\ Append(q, j)[a] = q[a] /\ q[a] \in Elements(q)
    BY <1>1, <1>2 DEF Elements
  <2>2. CASE b \in 1 .. Len(q)
    BY <1>1, <2>1, <2>2 DEF Sorted
  <2>3. CASE b = Len(q) + 1
    BY <1>1, <2>1, <2>3 DEF Ahead
  <2> QED
    BY <1>2, <2>2, <2>3
<1> QED
  BY <1>3, <1>4

\* The stages by name, before a step and after it.
LEMMA Stages ==
  /\ Line[1] = Unread /\ Line[2] = InHand(rJob)
  /\ Line[3] = InQueues(lbq, LBs) /\ Line[4] = InHands(lbJob, LBs)
  /\ Line[5] = InQueues(fpq, FPs) /\ Line[6] = InHands(fpJob, FPs)
  /\ Line[7] = Elements(outq) /\ Line[8] = InHand(wJob) /\ Line[9] = Written
  /\ Line'[1] = Unread' /\ Line'[2] = InHand(rJob')
  /\ Line'[3] = InQueues(lbq', LBs) /\ Line'[4] = InHands(lbJob', LBs)
  /\ Line'[5] = InQueues(fpq', FPs) /\ Line'[6] = InHands(fpJob', FPs)
  /\ Line'[7] = Elements(outq') /\ Line'[8] = InHand(wJob') /\ Line'[9] = Written'
BY DEF Line

\* It is kept when a job goes on by a stage, if the reader counts what it takes and a fast
\* path what it forwards.
LEMMA MoveKeepsLine ==
  ASSUME LineInv, NEW s \in 1 .. 8, NEW x \in Jobs, Moves(Line, Line', s, x),
         dropped' = dropped,
         Taken' = IF s = 1 THEN Taken \cup {x} ELSE Taken,
         forwarded' = IF s = 5 THEN forwarded \cup {x} ELSE forwarded
  PROVE  LineInv'
<1>1. Ordered(Line')
  BY MoveOrdered DEF LineInv
<1>2. ASSUME NEW t \in 1 .. 5 PROVE Ahead(dropped', Line'[t])
  <2>1. Line'[t] \subseteq Line[t] \/ (t = s + 1 /\ Line'[t] = Line[t] \cup {x})
    BY DEF Moves
  <2>2. CASE t = s + 1
    <3>1. s \in 1 .. 5 /\ x \in Line[s]
      BY <2>2 DEF Moves
    <3> QED
      BY <2>1, <3>1 DEF LineInv, Ahead
  <2>3. CASE t # s + 1
    BY <2>1, <2>3 DEF LineInv, Ahead
  <2> QED
    BY <2>2, <2>3
<1>3. ASSUME NEW j \in Jobs
      PROVE  j \in Taken' <=> j \in dropped' \/ \E t \in 2 .. 9 : j \in Line'[t]
  <2>1. CASE s = 1
    <3>1. Line'[2] = Line[2] \cup {x} /\ \A t \in 3 .. 9 : Line'[t] = Line[t]
      BY <2>1 DEF Moves
    <3>2. \A t \in 2 .. 9 : t = 2 \/ t \in 3 .. 9
      OBVIOUS
    <3>3. (\E t \in 2 .. 9 : j \in Line'[t]) <=> j = x \/ \E t \in 2 .. 9 : j \in Line[t]
      BY <3>1, <3>2
    <3> QED
      BY <2>1, <3>3 DEF LineInv
  <2>2. CASE s # 1
    <3>1. (\E t \in 2 .. 9 : j \in Line'[t]) <=> (\E t \in 2 .. 9 : j \in Line[t])
      BY <2>2, MoveCovers
    <3> QED
      BY <2>2, <3>1 DEF LineInv
  <2> QED
    BY <2>1, <2>2
<1>4. ASSUME NEW j \in Jobs
      PROVE  j \in forwarded' <=> \E t \in 6 .. 9 : j \in Line'[t]
  <2>1. CASE s < 5
    <3>1. \A t \in 6 .. 9 : Line'[t] = Line[t]
      BY <2>1 DEF Moves
    <3> QED
      BY <2>1, <3>1 DEF LineInv
  <2>2. CASE s = 5
    <3>1. Line'[6] = Line[6] \cup {x} /\ \A t \in 7 .. 9 : Line'[t] = Line[t]
      BY <2>2 DEF Moves
    <3>2. \A t \in 6 .. 9 : t = 6 \/ t \in 7 .. 9
      OBVIOUS
    <3>3. (\E t \in 6 .. 9 : j \in Line'[t]) <=> j = x \/ \E t \in 6 .. 9 : j \in Line[t]
      BY <3>1, <3>2
    <3> QED
      BY <2>2, <3>3 DEF LineInv
  <2>3. CASE s > 5
    <3>1. (\E t \in 6 .. 9 : j \in Line'[t]) <=> (\E t \in 6 .. 9 : j \in Line[t])
      BY <2>3, MoveCovers
    <3> QED
      BY <2>3, <3>1 DEF LineInv
  <2> QED
    BY <2>1, <2>2, <2>3
<1>5. dropped' \cap forwarded' = {}
  <2>1. CASE s = 5
    <3>1. Ahead(dropped, Line[5]) /\ x \in Line[5]
      BY <2>1 DEF LineInv, Moves
    <3>2. x \notin dropped
      BY <3>1, AheadApart
    <3> QED
      BY <2>1, <3>2 DEF LineInv
  <2> QED
    BY <2>1 DEF LineInv
<1> QED
  BY <1>1, <1>2, <1>3, <1>4, <1>5 DEF LineInv

\* It is kept when a fast path drops the next of its queue.
LEMMA DropKeepsLine ==
  ASSUME LineInv, NEW x \in Line[5] \cap Jobs, Line'[5] \subseteq Line[5], Line[5] \subseteq Line'[5] \cup {x},
         Ahead({x}, Line'[5]), \A t \in 1 .. 9 \ {5} : Line'[t] = Line[t],
         dropped' = dropped \cup {x}, Taken' = Taken, forwarded' = forwarded
  PROVE  LineInv'
<1>1. \A t \in 1 .. 9 : Line'[t] \subseteq Line[t]
  OBVIOUS
<1>2. Ordered(Line')
  BY <1>1 DEF LineInv, Ordered, Ahead
<1>3. ASSUME NEW t \in 1 .. 5 PROVE Ahead(dropped', Line'[t])
  <2>1. Ahead(dropped, Line'[t])
    BY <1>1 DEF LineInv, Ahead
  <2>2. Ahead({x}, Line'[t])
    BY DEF LineInv, Ordered, Ahead
  <2> QED
    BY <2>1, <2>2 DEF Ahead
<1>4. ASSUME NEW j \in Jobs
      PROVE  j \in Taken' <=> j \in dropped' \/ \E t \in 2 .. 9 : j \in Line'[t]
  <2>1. (\E t \in 2 .. 9 : j \in Line'[t]) => \E t \in 2 .. 9 : j \in Line[t]
    BY <1>1
  <2>2. (\E t \in 2 .. 9 : j \in Line[t]) => j = x \/ \E t \in 2 .. 9 : j \in Line'[t]
    OBVIOUS
  <2>3. \E t \in 2 .. 9 : x \in Line[t]
    OBVIOUS
  <2> QED
    BY <2>1, <2>2, <2>3 DEF LineInv
<1>5. \A j \in Jobs : j \in forwarded' <=> \E t \in 6 .. 9 : j \in Line'[t]
  BY DEF LineInv
<1>6. x \notin forwarded
  <2>1. \A t \in 6 .. 9 : Ahead(Line[t], Line[5])
    BY DEF LineInv, Ordered
  <2> QED
    BY <2>1, AheadApart DEF LineInv
<1>7. dropped' \cap forwarded' = {}
  BY <1>6 DEF LineInv
<1> QED
  BY <1>2, <1>3, <1>4, <1>5, <1>7 DEF LineInv

---------------------------------------------------------------------------------
\* The lanes side by side: the queues of the load balancers and of the fast paths, and the
\* hands of the threads.  No conversation is in two of them.
Lanes(q, threads) ==
  \A x, y \in threads : x # y =>
    \A j \in Elements(q[x]), k \in Elements(q[y]) : ~SameFlow(tuple(j), tuple(k))
\* A thread or queue of them changes what it has.
Changes(before, after, thread, to) == after = [before EXCEPT ![thread] = to]
Hands(job, threads) ==
  \A x, y \in threads : x # y /\ job[x] \in Jobs /\ job[y] \in Jobs =>
    ~SameFlow(tuple(job[x]), tuple(job[y]))

\* The packets of one conversation take one way.
LEMMA OneWay ==
  ASSUME NEW j \in Jobs, NEW k \in Jobs, SameFlow(tuple(j), tuple(k))
  PROVE  getLBForPacket(tuple(j)) = getLBForPacket(tuple(k)) /\ Home(j) = Home(k)
<1>1. tuple(j) \in Tuples /\ tuple(k) \in Tuples
  BY JobTuple
<1>2. tuple(j) \in FiveTuples /\ tuple(k) \in FiveTuples
  BY <1>1, DispatchAssumption DEF DispatchAssumption
<1>3. getLBForPacket(tuple(j)) \in LBs
  BY <1>1, ChoiceInRange, Indices
<1> QED
  BY <1>2, <1>3, DirectionsMeet DEF Home

\* So no conversation is in two lanes.
LEMMA LanesApart ==
  ASSUME TypeOK, Routed, \A f \in FPs : fpJob[f] # NoJob => Home(fpJob[f]) = f
  PROVE  /\ Lanes(lbq, LBs) /\ Hands(lbJob, LBs)
         /\ Lanes(fpq, FPs) /\ Hands(fpJob, FPs)
<1>1. Lanes(lbq, LBs)
  <2>1. \A i \in LBs : \A j \in Elements(lbq[i]) : j \in Jobs /\ getLBForPacket(tuple(j)) = i
    BY DEF TypeOK, Routed, Elements
  <2> QED
    BY <2>1, OneWay DEF Lanes
<1>2. Lanes(fpq, FPs)
  <2>1. \A f \in FPs : \A j \in Elements(fpq[f]) : j \in Jobs /\ Home(j) = f
    BY DEF TypeOK, Routed, Elements
  <2> QED
    BY <2>1, OneWay DEF Lanes
<1>3. Hands(lbJob, LBs)
  <2>1. \A i \in LBs : lbJob[i] \in Jobs => getLBForPacket(tuple(lbJob[i])) = i
    BY DEF TypeOK, Routed, Jobs, NoJob
  <2> QED
    BY <2>1, OneWay DEF Hands
<1>4. Hands(fpJob, FPs)
  <2>1. \A f \in FPs : fpJob[f] \in Jobs => Home(fpJob[f]) = f
    BY DEF Jobs, NoJob
  <2> QED
    BY <2>1, OneWay DEF Hands
<1> QED
  BY <1>1, <1>2, <1>3, <1>4

\* The head of one lane is popped, ...
LEMMA PopLane ==
  ASSUME NEW T, NEW q \in [T -> Seq(Jobs)], NEW t \in T, q[t] # <<>>,
         AllSorted(q, T), Lanes(q, T),
         NEW r, Changes(q, r, t, Tail(q[t]))
  PROVE  /\ Head(q[t]) \in Jobs /\ Head(q[t]) \in InQueues(q, T)
         /\ InQueues(r, T) \subseteq InQueues(q, T)
         /\ InQueues(q, T) \subseteq InQueues(r, T) \cup {Head(q[t])}
         /\ Ahead({Head(q[t])}, InQueues(r, T))
         /\ AllSorted(r, T)
<1>1. q[t] \in Seq(Jobs) /\ r[t] = Tail(q[t]) /\ \A u \in T \ {t} : r[u] = q[u]
  BY DEF Changes
<1>2. /\ Head(q[t]) \in Jobs /\ Head(q[t]) \in Elements(q[t])
      /\ Elements(r[t]) \subseteq Elements(q[t])
      /\ Elements(q[t]) \subseteq Elements(r[t]) \cup {Head(q[t])}
      /\ Sorted(r[t]) /\ Ahead({Head(q[t])}, Elements(r[t]))
  BY <1>1, PopSorted DEF AllSorted
<1>3. \A u \in T : Elements(r[u]) \subseteq Elements(q[u])
  BY <1>1, <1>2
<1>4. Ahead({Head(q[t])}, InQueues(r, T))
  <2> SUFFICES ASSUME NEW u \in T, NEW k \in Elements(r[u]), SameFlow(tuple(Head(q[t])), tuple(k))
               PROVE  Head(q[t]) < k
    BY DEF Ahead, InQueues
  <2>1. CASE u = t
    BY <1>2, <2>1 DEF Ahead
  <2>2. CASE u # t
    BY <1>2, <1>3, <2>2 DEF Lanes
  <2> QED
    BY <2>1, <2>2
<1>5. InQueues(q, T) \subseteq InQueues(r, T) \cup {Head(q[t])}
  BY <1>1, <1>2 DEF InQueues
<1> QED
  BY <1>1, <1>2, <1>3, <1>4, <1>5 DEF InQueues, AllSorted

\* ... a job is pushed into one, ...
LEMMA PushLane ==
  ASSUME NEW T, NEW q \in [T -> Seq(Jobs)], NEW t \in T, NEW j \in Jobs,
         AllSorted(q, T), Ahead(InQueues(q, T), {j}),
         NEW r, Changes(q, r, t, Append(q[t], j))
  PROVE  /\ InQueues(r, T) = InQueues(q, T) \cup {j}
         /\ AllSorted(r, T)
<1>1. q[t] \in Seq(Jobs) /\ r[t] = Append(q[t], j) /\ \A u \in T \ {t} : r[u] = q[u]
  BY DEF Changes
<1>2. Elements(q[t]) \subseteq Jobs
  BY <1>1 DEF Elements
<1>3. Ahead(Elements(q[t]), {j})
  BY <1>2 DEF Ahead, InQueues
<1>4. Elements(r[t]) = Elements(q[t]) \cup {j} /\ Sorted(r[t])
  BY <1>1, <1>3, PushSorted DEF AllSorted
<1> QED
  BY <1>1, <1>4 DEF InQueues, AllSorted

\* ... a thread takes one in its hands ...
LEMMA TakeInHand ==
  ASSUME NEW T, NEW job \in [T -> Jobs \cup {NoJob}], NEW t \in T, job[t] = NoJob, NEW j \in Jobs,
         NEW taken, Changes(job, taken, t, j)
  PROVE  InHands(taken, T) = InHands(job, T) \cup {j}
<1>1. NoJob \notin Jobs
  BY DEF NoJob, Jobs
<1> QED
  BY <1>1 DEF InHands, Changes

\* ... and gives it away.
LEMMA GiveAway ==
  ASSUME NEW T, NEW job \in [T -> Jobs \cup {NoJob}], NEW t \in T, job[t] \in Jobs, Hands(job, T),
         NEW rest, Changes(job, rest, t, NoJob)
  PROVE  /\ job[t] \in InHands(job, T)
         /\ InHands(rest, T) \subseteq InHands(job, T)
         /\ InHands(job, T) \subseteq InHands(rest, T) \cup {job[t]}
         /\ Ahead({job[t]}, InHands(rest, T))
<1>1. NoJob \notin Jobs
  BY DEF NoJob, Jobs
<1>2. rest[t] = NoJob /\ \A u \in T \ {t} : rest[u] = job[u]
  BY DEF Changes
<1> QED
  BY <1>1, <1>2 DEF InHands, Hands, Ahead

---------------------------------------------------------------------------------
\* Step by step: the reader goes past a frame, ...
LEMMA ReaderSkipKeeps ==
  ASSUME TypeOK, OrderInv, ReaderSkip
  PROVE  OrderInv'
<1>1. next' = next + 1 /\ next \in 1 .. Len(Frames) + 1 /\ ~Frames[next].parses /\ Len(Frames) \in Nat
  BY PipelineAssumption DEF TypeOK, ReaderSkip, PipelineAssumption
<1>2. UNCHANGED <<rJob, lbq, lbJob, fpq, fpJob, outq, wJob, file, dropped, forwarded>>
  BY DEF ReaderSkip, workerVars, lbVars, fpVars, outVars, fileVars, stats
<1>3. Taken' = Taken /\ Written' = Written /\ Unread' \subseteq Unread
  BY <1>1, <1>2 DEF Taken, Written, Unread, Jobs
<1>4. Line'[1] \subseteq Line[1] /\ \A t \in 2 .. 9 : Line'[t] = Line[t]
  BY <1>2, <1>3, Stages
<1>5. LineInv'
  <2>1. \A t \in 1 .. 9 : Line'[t] \subseteq Line[t]
    BY <1>4
  <2>2. Ordered(Line')
    BY <2>1 DEF OrderInv, LineInv, Ordered, Ahead
  <2>3. \A t \in 1 .. 5 : Ahead(dropped', Line'[t])
    BY <1>2, <2>1 DEF OrderInv, LineInv, Ahead
  <2> QED
    BY <1>2, <1>3, <1>4, <2>2, <2>3 DEF OrderInv, LineInv
<1> QED
  BY <1>2, <1>5 DEF OrderInv, FlowOrder

\* ... takes the next one ...
LEMMA ReaderTakeKeeps ==
  ASSUME TypeOK, OrderInv, ReaderTake
  PROVE  OrderInv'
<1>1. /\ next' = next + 1 /\ next \in Jobs /\ Frames[next].parses /\ Len(Frames) \in Nat
      /\ rJob = NoJob /\ rJob' = next
  BY PipelineAssumption DEF TypeOK, ReaderTake, PipelineAssumption, Jobs
<1>2. UNCHANGED <<lbq, lbJob, fpq, fpJob, outq, wJob, file, dropped, forwarded>>
  BY DEF ReaderTake, workerVars, lbVars, fpVars, outVars, fileVars, stats
<1>3. Taken' = Taken \cup {next} /\ Written' = Written
  BY <1>1, <1>2 DEF Taken, Written, Jobs
<1>4. InHand(rJob) = {} /\ InHand(rJob') = {next}
  BY <1>1 DEF InHand, Jobs, NoJob
<1>5. /\ next \in Unread /\ Unread' \subseteq Unread /\ Unread \subseteq Unread' \cup {next}
      /\ Ahead({next}, Unread')
  BY <1>1 DEF Unread, Ahead, Jobs
<1>6. Moves(Line, Line', 1, next)
  BY <1>2, <1>3, <1>4, <1>5, Stages DEF Moves
<1>7. LineInv'
  BY <1>1, <1>2, <1>3, <1>6, MoveKeepsLine DEF OrderInv
<1> QED
  BY <1>2, <1>7 DEF OrderInv, FlowOrder

\* ... and pushes it to a load balancer, ...
LEMMA ReaderPushKeeps ==
  ASSUME TypeOK, Routed, NoJobDiscarded, OrderInv, ReaderPush
  PROVE  OrderInv'
<1>0. /\ lbq \in [LBs -> Seq(Jobs)] /\ lbJob \in [LBs -> Jobs \cup {NoJob}]
      /\ AllSorted(lbq, LBs)
  BY DEF TypeOK, OrderInv
<1> DEFINE i == getLBForPacket(tuple(rJob))
<1>1. rJob \in Jobs /\ ~lbShut[i]
  BY DEF ReaderPush, TypeOK, NoJobDiscarded
<1>2. i \in LBs
  BY <1>1, JobTuple, ChoiceInRange, Indices
<1>3. Changes(lbq, lbq', i, Append(lbq[i], rJob)) /\ rJob' = NoJob
  BY <1>1 DEF ReaderPush, Pushed, Changes
<1> HIDE DEF i
<1>4. UNCHANGED <<next, lbJob, fpq, fpJob, outq, wJob, file, dropped, forwarded>>
  BY DEF ReaderPush, fpVars, outVars, fileVars, stats
<1>5. Taken' = Taken /\ Written' = Written /\ Unread' = Unread
  BY <1>4 DEF Taken, Written, Unread
<1>6. InHand(rJob) = {rJob} /\ InHand(rJob') = {}
  BY <1>1, <1>3 DEF InHand, Jobs, NoJob
<1>7. Ahead(InQueues(lbq, LBs), {rJob})
  BY <1>6, Stages DEF OrderInv, LineInv, Ordered, Ahead
<1>8. InQueues(lbq', LBs) = InQueues(lbq, LBs) \cup {rJob} /\ AllSorted(lbq', LBs)
  BY <1>0, <1>1, <1>2, <1>3, <1>7, PushLane
<1>9. Moves(Line, Line', 2, rJob)
  BY <1>4, <1>5, <1>6, <1>8, Stages DEF Moves, Ahead
<1>10. LineInv'
  BY <1>1, <1>4, <1>5, <1>9, MoveKeepsLine DEF OrderInv
<1> QED
  BY <1>4, <1>8, <1>10 DEF OrderInv, FlowOrder

\* ... which pops it ...
LEMMA LBPopKeeps ==
  ASSUME TypeOK, Routed, OrderInv, NEW i \in LBs, LBPop(i)
  PROVE  OrderInv'
<1>0. /\ lbq \in [LBs -> Seq(Jobs)] /\ lbJob \in [LBs -> Jobs \cup {NoJob}]
      /\ AllSorted(lbq, LBs)
  BY DEF TypeOK, OrderInv
<1> DEFINE x == Head(lbq[i])
<1>1. /\ lbq[i] # <<>> /\ Changes(lbq, lbq', i, Tail(lbq[i]))
      /\ lbJob[i] = NoJob /\ Changes(lbJob, lbJob', i, x)
  BY DEF LBPop, TypeOK, Changes
<1>2. UNCHANGED <<next, rJob, fpq, fpJob, outq, wJob, file, dropped, forwarded>>
  BY DEF LBPop, fpVars, outVars, fileVars, stats, controlVars, readerVars
<1>3. Taken' = Taken /\ Written' = Written /\ Unread' = Unread
  BY <1>2 DEF Taken, Written, Unread
<1>4. Lanes(lbq, LBs)
  BY LanesApart DEF OrderInv
<1>5. /\ x \in Jobs /\ x \in InQueues(lbq, LBs)
      /\ InQueues(lbq', LBs) \subseteq InQueues(lbq, LBs)
      /\ InQueues(lbq, LBs) \subseteq InQueues(lbq', LBs) \cup {x}
      /\ Ahead({x}, InQueues(lbq', LBs))
      /\ AllSorted(lbq', LBs)
  BY <1>0, <1>1, <1>4, PopLane
<1> HIDE DEF x
<1>6. InHands(lbJob', LBs) = InHands(lbJob, LBs) \cup {x}
  BY <1>0, <1>1, <1>5, TakeInHand
<1>7. Moves(Line, Line', 3, x)
  BY <1>2, <1>3, <1>5, <1>6, Stages DEF Moves
<1>8. LineInv'
  BY <1>2, <1>3, <1>5, <1>7, MoveKeepsLine DEF OrderInv
<1> QED
  BY <1>2, <1>5, <1>8 DEF OrderInv, FlowOrder

\* ... and pushes it to a fast path, ...
LEMMA LBPushKeeps ==
  ASSUME TypeOK, Routed, NoJobDiscarded, OrderInv, NEW i \in LBs, LBPush(i)
  PROVE  OrderInv'
<1>0. /\ fpq \in [FPs -> Seq(Jobs)] /\ lbJob \in [LBs -> Jobs \cup {NoJob}]
      /\ AllSorted(fpq, FPs)
  BY DEF TypeOK, OrderInv
<1> DEFINE x == lbJob[i]
           f == FPFor(i, tuple(x))
<1>1. x \in Jobs /\ ~fpShut[f]
  BY DEF LBPush, TypeOK, NoJobDiscarded
<1>2. f \in FPs
  BY <1>1, JobTuple, ChoiceInRange
<1>3. Changes(fpq, fpq', f, Append(fpq[f], x)) /\ Changes(lbJob, lbJob', i, NoJob)
  BY <1>1 DEF LBPush, Pushed, Changes
<1> HIDE DEF f
<1>4. UNCHANGED <<next, rJob, lbq, fpJob, outq, wJob, file, dropped, forwarded>>
  BY DEF LBPush, outVars, fileVars, stats, controlVars, readerVars
<1>5. Taken' = Taken /\ Written' = Written /\ Unread' = Unread
  BY <1>4 DEF Taken, Written, Unread
<1>6. Hands(lbJob, LBs)
  BY LanesApart DEF OrderInv
<1>7. /\ x \in InHands(lbJob, LBs)
      /\ InHands(lbJob', LBs) \subseteq InHands(lbJob, LBs)
      /\ InHands(lbJob, LBs) \subseteq InHands(lbJob', LBs) \cup {x}
      /\ Ahead({x}, InHands(lbJob', LBs))
  BY <1>0, <1>1, <1>3, <1>6, GiveAway
<1> HIDE DEF x
<1>8. Ahead(InQueues(fpq, FPs), {x})
  BY <1>7, Stages DEF OrderInv, LineInv, Ordered, Ahead
<1>9. InQueues(fpq', FPs) = InQueues(fpq, FPs) \cup {x} /\ AllSorted(fpq', FPs)
  BY <1>0, <1>1, <1>2, <1>3, <1>8, PushLane
<1>10. Moves(Line, Line', 4, x)
  BY <1>4, <1>5, <1>7, <1>9, Stages DEF Moves
<1>11. LineInv'
  BY <1>1, <1>4, <1>5, <1>10, MoveKeepsLine DEF OrderInv
<1> QED
  BY <1>4, <1>9, <1>11 DEF OrderInv, FlowOrder

\* ... which pops it and drops it ...
LEMMA FPDropKeeps ==
  ASSUME TypeOK, Routed, OrderInv, NEW f \in FPs, FPDrop(f)
  PROVE  OrderInv'
<1> DEFINE x == Head(fpq[f])
<1>0. fpq \in [FPs -> Seq(Jobs)] /\ AllSorted(fpq, FPs)
  BY DEF TypeOK, OrderInv
<1>1. fpq[f] # <<>> /\ Changes(fpq, fpq', f, Tail(fpq[f])) /\ dropped' = dropped \cup {x}
  BY DEF FPDrop, Changes
<1>2. UNCHANGED <<next, rJob, lbq, lbJob, fpJob, outq, wJob, file, forwarded>>
  BY DEF FPDrop, lbVars, outVars, fileVars, controlVars, readerVars
<1>3. Taken' = Taken /\ Written' = Written /\ Unread' = Unread
  BY <1>2 DEF Taken, Written, Unread
<1>4. Lanes(fpq, FPs)
  BY LanesApart DEF OrderInv
<1>5. /\ x \in Jobs /\ x \in InQueues(fpq, FPs)
      /\ InQueues(fpq', FPs) \subseteq InQueues(fpq, FPs)
      /\ InQueues(fpq, FPs) \subseteq InQueues(fpq', FPs) \cup {x}
      /\ Ahead({x}, InQueues(fpq', FPs))
      /\ AllSorted(fpq', FPs)
  BY <1>0, <1>1, <1>4, PopLane
<1> HIDE DEF x
<1>6. /\ x \in Line[5] \cap Jobs /\ Line'[5] \subseteq Line[5] /\ Line[5] \subseteq Line'[5] \cup {x}
      /\ Ahead({x}, Line'[5])
  BY <1>5, Stages
<1>7. \A t \in 1 .. 9 \ {5} : Line'[t] = Line[t]
  BY <1>2, <1>3, Stages
<1>8. LineInv'
  BY <1>1, <1>2, <1>3, <1>6, <1>7, DropKeepsLine DEF OrderInv
<1> QED
  BY <1>2, <1>5, <1>8 DEF OrderInv, FlowOrder

\* ... or forwards it, ...
LEMMA FPForwardKeeps ==
  ASSUME TypeOK, Routed, OrderInv, NEW f \in FPs, FPForward(f)
  PROVE  OrderInv'
<1> DEFINE x == Head(fpq[f])
<1>0. /\ fpq \in [FPs -> Seq(Jobs)] /\ fpJob \in [FPs -> Jobs \cup {NoJob}]
      /\ AllSorted(fpq, FPs)
  BY DEF TypeOK, OrderInv
<1>1. /\ fpq[f] # <<>> /\ Changes(fpq, fpq', f, Tail(fpq[f]))
      /\ fpJob[f] = NoJob /\ Changes(fpJob, fpJob', f, x)
      /\ forwarded' = forwarded \cup {x}
  BY DEF FPForward, TypeOK, Changes
<1>2. UNCHANGED <<next, rJob, lbq, lbJob, outq, wJob, file, dropped>>
  BY DEF FPForward, lbVars, outVars, fileVars, controlVars, readerVars
<1>3. Taken' = Taken /\ Written' = Written /\ Unread' = Unread
  BY <1>2 DEF Taken, Written, Unread
<1>4. Lanes(fpq, FPs)
  BY LanesApart DEF OrderInv
<1>5. /\ x \in Jobs /\ x \in InQueues(fpq, FPs)
      /\ InQueues(fpq', FPs) \subseteq InQueues(fpq, FPs)
      /\ InQueues(fpq, FPs) \subseteq InQueues(fpq', FPs) \cup {x}
      /\ Ahead({x}, InQueues(fpq', FPs))
      /\ AllSorted(fpq', FPs)
  BY <1>0, <1>1, <1>4, PopLane
<1>6. Home(x) = f
  <2>1. Head(fpq[f]) = fpq[f][1] /\ 1 \in 1 .. Len(fpq[f])
    BY <1>0, <1>1
  <2> QED
    BY <2>1 DEF Routed
<1> HIDE DEF x
<1>7. InHands(fpJob', FPs) = InHands(fpJob, FPs) \cup {x}
  BY <1>0, <1>1, <1>5, TakeInHand
<1>8. \A g \in FPs : fpJob'[g] # NoJob => Home(fpJob'[g]) = g
  BY <1>0, <1>1, <1>6 DEF OrderInv, Changes
<1>9. Moves(Line, Line', 5, x)
  BY <1>2, <1>3, <1>5, <1>7, Stages DEF Moves
<1>10. LineInv'
  BY <1>1, <1>2, <1>3, <1>5, <1>9, MoveKeepsLine DEF OrderInv
<1> QED
  BY <1>2, <1>5, <1>8, <1>10 DEF OrderInv, FlowOrder

\* ... to the output queue, ...
LEMMA FPPushKeeps ==
  ASSUME TypeOK, Routed, NoJobDiscarded, OrderInv, NEW f \in FPs, FPPush(f)
  PROVE  OrderInv'
<1> DEFINE x == fpJob[f]
<1>0. outq \in Seq(Jobs) /\ fpJob \in [FPs -> Jobs \cup {NoJob}] /\ Sorted(outq)
  BY DEF TypeOK, OrderInv
<1>1. x \in Jobs /\ ~outShut
  BY DEF FPPush, TypeOK, NoJobDiscarded
<1>2. outq' = Append(outq, x) /\ Changes(fpJob, fpJob', f, NoJob)
  BY <1>1 DEF FPPush, Pushed, Changes
<1>3. UNCHANGED <<next, rJob, lbq, lbJob, fpq, wJob, file, dropped, forwarded>>
  BY DEF FPPush, lbVars, fileVars, stats, controlVars, readerVars
<1>4. Taken' = Taken /\ Written' = Written /\ Unread' = Unread
  BY <1>3 DEF Taken, Written, Unread
<1>5. Hands(fpJob, FPs)
  BY LanesApart DEF OrderInv
<1>6. /\ x \in InHands(fpJob, FPs)
      /\ InHands(fpJob', FPs) \subseteq InHands(fpJob, FPs)
      /\ InHands(fpJob, FPs) \subseteq InHands(fpJob', FPs) \cup {x}
      /\ Ahead({x}, InHands(fpJob', FPs))
  BY <1>0, <1>1, <1>2, <1>5, GiveAway
<1>7. \A g \in FPs : fpJob'[g] # NoJob => Home(fpJob'[g]) = g
  BY <1>0, <1>2 DEF OrderInv, Changes
<1> HIDE DEF x
<1>8. Ahead(Elements(outq), {x})
  BY <1>6, Stages DEF OrderInv, LineInv, Ordered, Ahead
<1>9. Elements(outq') = Elements(outq) \cup {x} /\ Sorted(outq')
  BY <1>0, <1>1, <1>2, <1>8, PushSorted
<1>10. Moves(Line, Line', 6, x)
  BY <1>3, <1>4, <1>6, <1>9, Stages DEF Moves
<1>11. LineInv'
  BY <1>1, <1>3, <1>4, <1>10, MoveKeepsLine DEF OrderInv
<1> QED
  BY <1>3, <1>7, <1>9, <1>11 DEF OrderInv, FlowOrder

\* ... from which the writer takes it ...
LEMMA WriterPopKeeps ==
  ASSUME TypeOK, OrderInv, WriterPop
  PROVE  OrderInv'
<1> DEFINE x == Head(outq)
<1>0. outq \in Seq(Jobs) /\ Sorted(outq)
  BY DEF TypeOK, OrderInv
<1>1. outq # <<>> /\ outq' = Tail(outq) /\ wJob = NoJob /\ wJob' = x
  BY DEF WriterPop, TypeOK
<1>2. UNCHANGED <<next, rJob, lbq, lbJob, fpq, fpJob, file, dropped, forwarded>>
  BY DEF WriterPop, lbVars, fpVars, fileVars, stats, controlVars, readerVars
<1>3. Taken' = Taken /\ Written' = Written /\ Unread' = Unread
  BY <1>2 DEF Taken, Written, Unread
<1>4. /\ x \in Jobs /\ x \in Elements(outq)
      /\ Elements(outq') \subseteq Elements(outq)
      /\ Elements(outq) \subseteq Elements(outq') \cup {x}
      /\ Sorted(outq') /\ Ahead({x}, Elements(outq'))
  BY <1>0, <1>1, PopSorted
<1> HIDE DEF x
<1>5. InHand(wJob) = {} /\ InHand(wJob') = {x}
  BY <1>1, <1>4 DEF InHand, Jobs, NoJob
<1>6. Moves(Line, Line', 7, x)
  BY <1>2, <1>3, <1>4, <1>5, Stages DEF Moves
<1>7. LineInv'
  BY <1>2, <1>3, <1>4, <1>6, MoveKeepsLine DEF OrderInv
<1> QED
  BY <1>2, <1>4, <1>7 DEF OrderInv, FlowOrder

\* ... and writes it to the file.
LEMMA WriterWriteKeeps ==
  ASSUME TypeOK, OrderInv, fileOpen, WriterWrite
  PROVE  OrderInv'
<1>1. /\ wJob \in Jobs /\ file' = Append(file, wJob) /\ wJob' = NoJob
      /\ file \in Seq(Jobs \cup {Header})
  BY DEF WriterWrite, TypeOK
<1>2. UNCHANGED <<next, rJob, lbq, lbJob, fpq, fpJob, outq, dropped, forwarded>>
  BY DEF WriterWrite, lbVars, fpVars, stats, controlVars, readerVars
<1>3. Taken' = Taken /\ Unread' = Unread
  BY <1>2 DEF Taken, Unread
<1>4. InHand(wJob) = {wJob} /\ InHand(wJob') = {}
  BY <1>1 DEF InHand, Jobs, NoJob
<1>5. /\ Len(file) \in Nat /\ Len(file') = Len(file) + 1 /\ file'[Len(file) + 1] = wJob
      /\ \A k \in 1 .. Len(file) : file'[k] = file[k]
  BY <1>1
<1>6. \A k \in 1 .. Len(file) + 1 : k \in 1 .. Len(file) \/ k = Len(file) + 1
  BY <1>5
<1>7. Written' = Written \cup {wJob}
  <2>1. Elements(file') = Elements(file) \cup {wJob}
    BY <1>5, <1>6 DEF Elements
  <2>2. wJob # Header
    BY <1>1 DEF Jobs, Header
  <2> QED
    BY <2>1, <2>2 DEF Written
<1>8. Ahead(Written, {wJob})
  BY <1>4, Stages DEF OrderInv, LineInv, Ordered, Ahead
<1>9. FlowOrder'
  <2> SUFFICES ASSUME NEW a \in 1 .. Len(file'), NEW b \in 1 .. Len(file'), a < b,
                      file'[a] # Header, file'[b] # Header,
                      SameFlow(tuple(file'[a]), tuple(file'[b]))
               PROVE  file'[a] < file'[b]
    BY DEF FlowOrder
  <2>1. a \in 1 .. Len(file) /\ file'[a] = file[a] /\ file[a] \in Written
    BY <1>5, <1>6 DEF Written, Elements
  <2>2. CASE b \in 1 .. Len(file)
    BY <1>5, <2>1, <2>2 DEF OrderInv, FlowOrder
  <2>3. CASE b = Len(file) + 1
    BY <1>5, <1>8, <2>1, <2>3 DEF Ahead
  <2> QED
    BY <1>5, <1>6, <2>2, <2>3
<1>10. Moves(Line, Line', 8, wJob)
  BY <1>2, <1>3, <1>4, <1>7, Stages DEF Moves, Ahead
<1>11. LineInv'
  BY <1>1, <1>2, <1>3, <1>10, MoveKeepsLine DEF OrderInv
<1> QED
  BY <1>2, <1>9, <1>11 DEF OrderInv

\* The other steps move nothing; to write the header, or to create the file, is to write no
\* packet.
LEMMA OthersKeep ==
  ASSUME OrderInv,
         UNCHANGED <<next, rJob, lbq, lbJob, fpq, fpJob, outq, wJob, dropped, forwarded>>,
         \/ file' = file
         \/ file = <<>> /\ (file' = <<>> \/ file' = <<Header>>)
  PROVE  OrderInv'
<1>1. Taken' = Taken /\ Unread' = Unread
  BY DEF Taken, Unread
<1>2. Written' = Written /\ FlowOrder'
  <2>1. CASE file' = file
    BY <2>1 DEF Written, Elements, FlowOrder, OrderInv
  <2>2. CASE file = <<>> /\ file' = <<>>
    BY <2>2 DEF Written, Elements, FlowOrder
  <2>3. CASE file = <<>> /\ file' = <<Header>>
    BY <2>3 DEF Written, Elements, FlowOrder
  <2> QED
    BY <2>1, <2>2, <2>3
<1>3. Line' = Line
  BY <1>1, <1>2 DEF Line
<1> QED
  BY <1>1, <1>2, <1>3 DEF OrderInv, LineInv

\* So the threads that carry the packets keep the line in order, if the file is open.
LEMMA CarriersKeepLine ==
  ASSUME TypeOK, Routed, NoJobDiscarded, OrderInv, wPc = "write" => fileOpen,
         WorkerStep \/ ReaderLoop
  PROVE  OrderInv'
<1> USE DEF lbVars, fpVars, outVars, fileVars, stats, controlVars, readerVars, mainVars
<1>1. ASSUME NEW i \in LBs, LBStep(i) PROVE OrderInv'
  <2>1. CASE LBCheck(i) \/ LBIdle(i)
    BY <2>1, OthersKeep DEF LBCheck, LBIdle
  <2> QED
    BY <1>1, <2>1, LBPopKeeps, LBPushKeeps DEF LBStep
<1>2. ASSUME NEW f \in FPs, FPStep(f) PROVE OrderInv'
  <2>1. CASE FPCheck(f) \/ FPIdle(f)
    BY <2>1, OthersKeep DEF FPCheck, FPIdle
  <2> QED
    BY <1>2, <2>1, FPDropKeeps, FPForwardKeeps, FPPushKeeps DEF FPStep
<1>3. CASE WriterStep
  <2>1. CASE WriterCheck \/ WriterIdle
    BY <2>1, OthersKeep DEF WriterCheck, WriterIdle
  <2>2. CASE WriterWrite
    BY <2>2, WriterWriteKeeps DEF WriterWrite
  <2> QED
    BY <1>3, <2>1, <2>2, WriterPopKeeps DEF WriterStep
<1>4. CASE ReaderLoop
  <2>1. CASE ReaderEnd
    BY <2>1, OthersKeep DEF ReaderEnd, workerVars
  <2> QED
    BY <1>4, <2>1, ReaderSkipKeeps, ReaderTakeKeeps, ReaderPushKeeps DEF ReaderLoop
<1> QED
  BY <1>1, <1>2, <1>3, <1>4 DEF WorkerStep

---------------------------------------------------------------------------------
\* At first all is unread.
LEMMA OrderInit == Init => OrderInv
<1> SUFFICES ASSUME Init PROVE OrderInv
  OBVIOUS
<1>1. NoJob \notin Jobs
  BY DEF NoJob, Jobs
<1>2. InQueues(lbq, LBs) = {} /\ InQueues(fpq, FPs) = {} /\ Elements(outq) = {} /\ Written = {}
  BY DEF Init, InQueues, Elements, Written
<1>3. InHand(rJob) = {} /\ InHand(wJob) = {} /\ InHands(lbJob, LBs) = {} /\ InHands(fpJob, FPs) = {}
  BY <1>1 DEF Init, InHand, InHands
<1>4. Taken = {}
  BY DEF Init, Taken, Jobs
<1>5. \A t \in 2 .. 9 : Line[t] = {}
  BY <1>2, <1>3, Stages
<1>6. LineInv
  BY <1>4, <1>5 DEF LineInv, Ordered, Ahead, Init
<1> QED
  BY <1>6 DEF Init, OrderInv, AllSorted, Sorted, FlowOrder

\* A place of job j at stage s.
PlaceAt(j, s) ==
  << {}, {p \in {<<"reader">>} : rJob = j},
     {p \in {"lbq"} \X LBs \X (1 .. QueueSize) :
        p[3] <= Len(lbq[p[2]]) /\ lbq[p[2]][p[3]] = j},
     {p \in {"lb"} \X LBs : lbJob[p[2]] = j},
     {p \in {"fpq"} \X FPs \X (1 .. QueueSize) :
        p[3] <= Len(fpq[p[2]]) /\ fpq[p[2]][p[3]] = j},
     {p \in {"fp"} \X FPs : fpJob[p[2]] = j},
     {p \in {"outq"} \X (1 .. Len(outq)) : outq[p[2]] = j},
     {p \in {<<"writer">>} : wJob = j},
     {p \in {"file"} \X (1 .. Len(file)) : file[p[2]] = j} >>[s]

\* S is empty unless b, and then it has one element.
OneIf(S, b) == (b <=> S # {}) /\ \A p, q \in S : p = q

\* A job is in a queue of those side by side at one place of one of them.
LEMMA QueuePlace ==
  ASSUME NEW name, NEW T, NEW q \in [T -> Seq(Jobs)], NEW j \in Jobs,
         \A t \in T : Len(q[t]) <= QueueSize, AllSorted(q, T), Lanes(q, T)
  PROVE  OneIf({p \in {name} \X T \X (1 .. QueueSize) : p[3] <= Len(q[p[2]]) /\ q[p[2]][p[3]] = j},
               j \in InQueues(q, T))
<1> DEFINE S == {p \in {name} \X T \X (1 .. QueueSize) : p[3] <= Len(q[p[2]]) /\ q[p[2]][p[3]] = j}
<1>1. QueueSize \in Nat /\ \A t \in T : q[t] \in Seq(Jobs) /\ Len(q[t]) \in Nat
  BY PipelineAssumption DEF PipelineAssumption
<1>2. ASSUME NEW p \in S
      PROVE  /\ p = <<name, p[2], p[3]>> /\ p[2] \in T /\ p[3] \in 1 .. Len(q[p[2]])
             /\ q[p[2]][p[3]] = j /\ j \in Elements(q[p[2]])
  BY <1>1 DEF Elements
<1>3. ASSUME j \in InQueues(q, T) PROVE S # {}
  <2>1. PICK t \in T : j \in Elements(q[t])
    BY <1>3 DEF InQueues
  <2>2. PICK k \in 1 .. Len(q[t]) : q[t][k] = j
    BY <2>1 DEF Elements
  <2>3. k \in 1 .. QueueSize /\ k <= Len(q[t])
    BY <1>1
  <2>4. <<name, t, k>> \in S
    BY <2>2, <2>3
  <2> QED
    BY <2>4
<1>4. ASSUME NEW p \in S PROVE j \in InQueues(q, T)
  BY <1>2 DEF InQueues
<1>5. ASSUME NEW p \in S, NEW r \in S PROVE p = r
  <2>1. /\ p = <<name, p[2], p[3]>> /\ p[2] \in T /\ p[3] \in 1 .. Len(q[p[2]])
        /\ q[p[2]][p[3]] = j /\ j \in Elements(q[p[2]])
    BY <1>2
  <2>2. /\ r = <<name, r[2], r[3]>> /\ r[2] \in T /\ r[3] \in 1 .. Len(q[r[2]])
        /\ q[r[2]][r[3]] = j /\ j \in Elements(q[r[2]])
    BY <1>2
  <2>3. SameFlow(tuple(j), tuple(j)) /\ ~(j < j)
    BY DEF SameFlow, Jobs
  <2>4. p[2] = r[2]
    BY <2>1, <2>2, <2>3 DEF Lanes
  <2>5. ~(p[3] < r[3]) /\ ~(r[3] < p[3])
    BY <2>1, <2>2, <2>3, <2>4 DEF AllSorted, Sorted
  <2>6. p[3] = r[3]
    BY <1>1, <2>1, <2>2, <2>5
  <2> QED
    BY <2>1, <2>2, <2>4, <2>6
<1> HIDE DEF S
<1>6. OneIf(S, j \in InQueues(q, T))
  BY <1>3, <1>4, <1>5 DEF OneIf
<1> QED
  BY <1>6 DEF S

\* In one thread's hands, ...
LEMMA HandPlace ==
  ASSUME NEW name, NEW T, NEW job, NEW j \in Jobs, Hands(job, T)
  PROVE  OneIf({p \in {name} \X T : job[p[2]] = j}, j \in InHands(job, T))
<1> DEFINE S == {p \in {name} \X T : job[p[2]] = j}
<1>1. ASSUME NEW p \in S PROVE p = <<name, p[2]>> /\ p[2] \in T /\ job[p[2]] = j
  OBVIOUS
<1>2. ASSUME j \in InHands(job, T) PROVE S # {}
  <2>1. PICK t \in T : job[t] = j
    BY <1>2 DEF InHands
  <2>2. <<name, t>> \in S
    BY <2>1
  <2> QED
    BY <2>2
<1>3. ASSUME NEW p \in S PROVE j \in InHands(job, T)
  BY <1>1 DEF InHands
<1>4. ASSUME NEW p \in S, NEW r \in S PROVE p = r
  <2>1. p[2] = r[2]
    BY <1>1 DEF Hands, SameFlow
  <2> QED
    BY <1>1, <2>1
<1> HIDE DEF S
<1>5. OneIf(S, j \in InHands(job, T))
  BY <1>2, <1>3, <1>4 DEF OneIf
<1> QED
  BY <1>5 DEF S

\* ... at one place of a sequence in order.
LEMMA SequencePlace ==
  ASSUME NEW name, NEW q, Len(q) \in Nat, NEW j \in Jobs,
         \A a, b \in 1 .. Len(q) : q[a] = j /\ q[b] = j => ~(a < b)
  PROVE  OneIf({p \in {name} \X (1 .. Len(q)) : q[p[2]] = j}, j \in Elements(q))
<1> DEFINE S == {p \in {name} \X (1 .. Len(q)) : q[p[2]] = j}
<1>1. ASSUME NEW p \in S PROVE p = <<name, p[2]>> /\ p[2] \in 1 .. Len(q) /\ q[p[2]] = j
  OBVIOUS
<1>2. ASSUME j \in Elements(q) PROVE S # {}
  <2>1. PICK k \in 1 .. Len(q) : q[k] = j
    BY <1>2 DEF Elements
  <2>2. <<name, k>> \in S
    BY <2>1
  <2> QED
    BY <2>2
<1>3. ASSUME NEW p \in S PROVE j \in Elements(q)
  BY <1>1 DEF Elements
<1>4. ASSUME NEW p \in S, NEW r \in S PROVE p = r
  <2>1. /\ p[2] \in 1 .. Len(q) /\ r[2] \in 1 .. Len(q)
        /\ ~(p[2] < r[2]) /\ ~(r[2] < p[2])
    BY <1>1
  <2>2. p[2] = r[2]
    BY <2>1
  <2> QED
    BY <1>1, <2>2
<1> HIDE DEF S
<1>5. OneIf(S, j \in Elements(q))
  BY <1>2, <1>3, <1>4 DEF OneIf
<1> QED
  BY <1>5 DEF S

\* At every stage a job is at one place or at none.
LEMMA StagePlace ==
  ASSUME TypeOK, Routed, OrderInv, NEW j \in Jobs, NEW s \in 2 .. 9
  PROVE  OneIf(PlaceAt(j, s), j \in Line[s])
<1>1. /\ Lanes(lbq, LBs) /\ Lanes(fpq, FPs) /\ Hands(lbJob, LBs) /\ Hands(fpJob, FPs)
      /\ AllSorted(lbq, LBs) /\ AllSorted(fpq, FPs)
  BY LanesApart DEF OrderInv
<1>2. /\ lbq \in [LBs -> Seq(Jobs)] /\ \A i \in LBs : Len(lbq[i]) <= QueueSize
      /\ fpq \in [FPs -> Seq(Jobs)] /\ \A f \in FPs : Len(fpq[f]) <= QueueSize
      /\ Len(outq) \in Nat /\ Len(file) \in Nat
  BY DEF TypeOK
<1>3. SameFlow(tuple(j), tuple(j)) /\ ~(j < j) /\ j # Header
  BY DEF SameFlow, Jobs, Header
<1>4. CASE s = 2
  <2>1. OneIf({p \in {<<"reader">>} : rJob = j}, j \in InHand(rJob))
    BY DEF OneIf, InHand
  <2> QED
    BY <1>4, <2>1, Stages DEF PlaceAt
<1>5. CASE s = 3
  <2>1. OneIf({p \in {"lbq"} \X LBs \X (1 .. QueueSize) :
                 p[3] <= Len(lbq[p[2]]) /\ lbq[p[2]][p[3]] = j}, j \in InQueues(lbq, LBs))
    BY <1>1, <1>2, QueuePlace
  <2> QED
    BY <1>5, <2>1, Stages DEF PlaceAt
<1>6. CASE s = 4
  <2>1. OneIf({p \in {"lb"} \X LBs : lbJob[p[2]] = j}, j \in InHands(lbJob, LBs))
    BY <1>1, HandPlace
  <2> QED
    BY <1>6, <2>1, Stages DEF PlaceAt
<1>7. CASE s = 5
  <2>1. OneIf({p \in {"fpq"} \X FPs \X (1 .. QueueSize) :
                 p[3] <= Len(fpq[p[2]]) /\ fpq[p[2]][p[3]] = j}, j \in InQueues(fpq, FPs))
    BY <1>1, <1>2, QueuePlace
  <2> QED
    BY <1>7, <2>1, Stages DEF PlaceAt
<1>8. CASE s = 6
  <2>1. OneIf({p \in {"fp"} \X FPs : fpJob[p[2]] = j}, j \in InHands(fpJob, FPs))
    BY <1>1, HandPlace
  <2> QED
    BY <1>8, <2>1, Stages DEF PlaceAt
<1>9. CASE s = 7
  <2>1. \A a, b \in 1 .. Len(outq) : outq[a] = j /\ outq[b] = j => ~(a < b)
    BY <1>3 DEF OrderInv, Sorted
  <2>2. OneIf({p \in {"outq"} \X (1 .. Len(outq)) : outq[p[2]] = j}, j \in Elements(outq))
    BY <1>2, <2>1, SequencePlace
  <2> QED
    BY <1>9, <2>2, Stages DEF PlaceAt
<1>10. CASE s = 8
  <2>1. OneIf({p \in {<<"writer">>} : wJob = j}, j \in InHand(wJob))
    BY DEF OneIf, InHand
  <2> QED
    BY <1>10, <2>1, Stages DEF PlaceAt
<1>11. CASE s = 9
  <2>1. \A a, b \in 1 .. Len(file) : file[a] = j /\ file[b] = j => ~(a < b)
    BY <1>3 DEF OrderInv, FlowOrder
  <2>2. OneIf({p \in {"file"} \X (1 .. Len(file)) : file[p[2]] = j}, j \in Elements(file))
    BY <1>2, <2>1, SequencePlace
  <2>3. j \in Elements(file) <=> j \in Written
    BY <1>3 DEF Written
  <2>4. OneIf({p \in {"file"} \X (1 .. Len(file)) : file[p[2]] = j}, j \in Written)
    BY <2>2, <2>3 DEF OneIf
  <2> QED
    BY <1>11, <2>4, Stages DEF PlaceAt
<1> QED
  BY <1>4, <1>5, <1>6, <1>7, <1>8, <1>9, <1>10, <1>11

\* In order behind each other, the stages have no job in common, nor do they share one with
\* what was dropped.
LEMMA OnePlace == TypeOK /\ Routed /\ OrderInv => EveryJobInOnePlace
<1> SUFFICES ASSUME TypeOK, Routed, OrderInv, NEW j \in Jobs
             PROVE  Cardinality(Places(j)) = IF j \in Taken THEN 1 ELSE 0
  BY DEF EveryJobInOnePlace
<1> DEFINE Dropped == {p \in {<<"dropped">>} : j \in dropped}
<1>1. \A p : p \in Places(j) <=> p \in Dropped \/ \E s \in 2 .. 9 : p \in PlaceAt(j, s)
  <2>1. Places(j) =
          PlaceAt(j, 2) \cup PlaceAt(j, 3) \cup PlaceAt(j, 4) \cup PlaceAt(j, 5)
          \cup PlaceAt(j, 6) \cup PlaceAt(j, 7) \cup PlaceAt(j, 8) \cup PlaceAt(j, 9)
          \cup Dropped
    BY DEF Places, PlaceAt
  <2>2. \A s \in 2 .. 9 : s \in {2, 3, 4, 5, 6, 7, 8, 9}
    OBVIOUS
  <2>3. \A s \in {2, 3, 4, 5, 6, 7, 8, 9} : s \in 2 .. 9
    OBVIOUS
  <2> HIDE DEF Dropped
  <2> QED
    BY <2>1, <2>2, <2>3
<1>2. \A s \in 2 .. 9 : OneIf(PlaceAt(j, s), j \in Line[s])
  BY StagePlace
<1>3. OneIf(Dropped, j \in dropped)
  BY DEF OneIf
<1>4. j \in Taken <=> j \in dropped \/ \E s \in 2 .. 9 : j \in Line[s]
  BY DEF OrderInv, LineInv
<1>5. ASSUME NEW s \in 2 .. 9, NEW t \in 2 .. 9, j \in Line[s], j \in Line[t] PROVE s = t
  <2>1. \A u, v \in 1 .. 9 : v < u => Ahead(Line[u], Line[v])
    BY DEF OrderInv, LineInv, Ordered
  <2>2. ~(s < t) /\ ~(t < s)
    BY <1>5, <2>1, AheadApart
  <2> QED
    BY <2>2
<1>6. ASSUME NEW s \in 2 .. 9, j \in Line[s] PROVE j \notin dropped
  <2>1. CASE s \in 2 .. 5
    BY <1>6, <2>1, AheadApart DEF OrderInv, LineInv
  <2>2. CASE s \in 6 .. 9
    BY <1>6, <2>2 DEF OrderInv, LineInv
  <2> QED
    BY <2>1, <2>2
<1> HIDE DEF Dropped
<1>7. CASE j \notin Taken
  <2>1. Places(j) = {}
    BY <1>1, <1>2, <1>3, <1>4, <1>7 DEF OneIf
  <2> QED
    BY <1>7, <2>1, FS_EmptySet
<1>8. CASE j \in Taken
  <2>1. PICK p : p \in Places(j)
    BY <1>1, <1>2, <1>3, <1>4, <1>8 DEF OneIf
  <2>2. ASSUME NEW a \in Places(j), NEW b \in Places(j) PROVE a = b
    <3>1. CASE a \in Dropped
      <4>1. j \in dropped
        BY <1>3, <3>1 DEF OneIf
      <4>2. b \in Dropped
        BY <1>1, <1>2, <1>6, <4>1 DEF OneIf
      <4> QED
        BY <1>3, <3>1, <4>2 DEF OneIf
    <3>2. CASE a \notin Dropped
      <4>1. PICK s \in 2 .. 9 : a \in PlaceAt(j, s)
        BY <1>1, <3>2
      <4>2. j \in Line[s] /\ j \notin dropped
        BY <1>2, <1>6, <4>1 DEF OneIf
      <4>3. PICK t \in 2 .. 9 : b \in PlaceAt(j, t)
        BY <1>1, <1>3, <4>2 DEF OneIf
      <4>4. t = s
        BY <1>2, <1>5, <4>2, <4>3 DEF OneIf
      <4> QED
        BY <1>2, <4>1, <4>3, <4>4 DEF OneIf
    <3> QED
      BY <3>1, <3>2
  <2>3. Places(j) = {p}
    BY <2>1, <2>2
  <2> QED
    BY <1>8, <2>3, FS_Singleton
<1> QED
  BY <1>7, <1>8

---------------------------------------------------------------------------------
\* The writer finds the file open: it is closed after the writer has been joined.
OutputOpen ==
  /\ wPc \notin {"none", "exited"} => fileOpen
  /\ mPc \in {"close", "done"} => wPc = "exited"

\* The threads that carry the packets leave it open, ...
LEMMA CarriersKeepOpen ==
  ASSUME OutputOpen, WorkerStep \/ ReaderLoop
  PROVE  OutputOpen'
<1> USE DEF OutputOpen, outVars, fileVars, controlVars, readerVars, mainVars
<1>1. ASSUME NEW i \in LBs, LBStep(i) PROVE OutputOpen'
  BY <1>1 DEF LBStep, LBCheck, LBIdle, LBPop, LBPush
<1>2. ASSUME NEW f \in FPs, FPStep(f) PROVE OutputOpen'
  BY <1>2 DEF FPStep, FPCheck, FPIdle, FPDrop, FPForward, FPPush
<1>3. CASE WriterStep
  BY <1>3 DEF WriterStep, WriterCheck, WriterIdle, WriterPop, WriterWrite
<1>4. CASE ReaderLoop
  BY <1>4 DEF ReaderLoop, ReaderSkip, ReaderTake, ReaderPush, ReaderEnd, workerVars
<1> QED
  BY <1>1, <1>2, <1>3, <1>4 DEF WorkerStep

\* ... the thread that stops them closes it last, and neither moves a packet.
LEMMA StopKeepsLine ==
  ASSUME NEW to, to \notin {"close", "done"}, OrderInv, OutputOpen,
         StopStep \/ FPStopJoin(to) \/ OutputStopFlag(to) \/ ReaderDone(to)
  PROVE  OrderInv' /\ OutputOpen'
<1>1. /\ UNCHANGED <<next, rJob, lbq, lbJob, fpq, fpJob, outq, wPc, wJob, file, dropped, forwarded>>
      /\ fileOpen' = fileOpen \/ (mPc = "close" /\ mPc' = "done")
      /\ mPc' \in {"close", "done"} => wPc = "exited" \/ mPc = "close"
  BY DEF StopStep, LBStopFlag, LBStopShutdown, LBStopJoin, FPStopFlag, FPStopShutdown,
     FPStopJoin, OutputStopFlag, OutputShutdown, OutputJoin, CloseFile, ReaderDone, workerVars,
     lbVars, fpVars, outVars, fileVars, stats, readerVars
<1>2. OrderInv'
  BY <1>1, OthersKeep
<1> QED
  BY <1>1, <1>2 DEF OutputOpen
=================================================================================
