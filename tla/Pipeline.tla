-------------------------------- MODULE Pipeline --------------------------------
(***************************************************************************)
(* The worker threads both engines are built from -- the load balancers,   *)
(* the fast paths and the output writer -- with the bounded queues between *)
(* them (src/load_balancer.cpp, src/fast_path.cpp, the output side of      *)
(* src/dpi_engine.cpp; inlined a second time in src/dpi_mt.cpp) -- and the *)
(* two loops that feed and stop them: the reader's and the one that stops  *)
(* and joins the workers one after the other.  DPIEngine and               *)
(* DPIMultiThreaded compose them into the two engines.                     *)
(*                                                                         *)
(* A step is one access to shared state: a read of a running flag, one     *)
(* queue operation, one file write.  Queue operations are those of         *)
(* BoundedQueue, which ThreadSafeQueue implements: a push waits for room   *)
(* and is discarded after shutdown, a timed pop takes the head or, from an *)
(* empty queue, comes back with nothing.                                   *)
(***************************************************************************)
EXTENDS Integers, Sequences, FiniteSets, FiveTuple

CONSTANTS QueueSize,   \* max_size_ of every queue (10000 in the code)
          Frames       \* the input file: [tuple, parses] per record

ASSUME PipelineAssumption ==
  /\ QueueSize \in Nat \ {0}
  /\ Frames \in Seq([tuple : Tuples, parses : BOOLEAN])

\* A job (PacketJob) is known by the position of its frame in the input file.
Jobs   == 1 .. Len(Frames)
NoJob  == 0
Header == -1           \* the global PCAP header in the output file

tuple(j) == Frames[j].tuple

VARIABLES
  lbq, lbShut,         \* LoadBalancer::input_queue_ and its shutdown_
  lbRunning,           \* LoadBalancer::running_
  lbPc, lbJob,         \* where each load balancer thread is, and job_opt
  fpq, fpShut,         \* FastPathProcessor::input_queue_ and its shutdown_
  fpRunning,           \* FastPathProcessor::running_
  fpPc, fpJob,         \* where each fast path thread is, and job_opt
  outq, outShut,       \* output_queue_ and its shutdown_
  outRunning,          \* what the writer polls: DPIEngine::running_ or output_running
  wPc, wJob,           \* where the writer is, and job_opt
  file, fileOpen,      \* what has been written to output_file_
  rPc, rJob, next,     \* the reader: where it is, its job, the next frame
  mPc, mIdx,           \* the thread in processFile, and the worker it stops
  processed,           \* jobs counted in each fast path's packets_processed_
  forwarded, dropped   \* jobs counted in forwarded_packets and dropped_packets

lbVars  == <<lbq, lbShut, lbRunning, lbPc, lbJob>>
fpVars  == <<fpq, fpShut, fpRunning, fpPc, fpJob>>
outVars == <<outq, outShut, outRunning, wPc, wJob>>
fileVars == <<file, fileOpen>>
stats   == <<processed, forwarded, dropped>>
workerVars == <<lbVars, fpVars, outVars, fileVars, stats>>
readerVars == <<rPc, rJob, next>>
mainVars == <<mPc, mIdx>>
controlVars == <<readerVars, mainVars>>
vars == <<workerVars, controlVars>>

ThreadPcs == {"none", "check", "pop", "push", "exited"}
MainPcs == {"open", "start", "reader", "lbFlag", "lbShut", "lbJoin", "fpFlag",
            "fpShut", "fpJoin", "outFlag", "outShut", "outJoin", "close", "done", "failed"}

TypeOK ==
  /\ lbq \in [LBs -> Seq(Jobs)] /\ \A i \in LBs : Len(lbq[i]) <= QueueSize
  /\ fpq \in [FPs -> Seq(Jobs)] /\ \A f \in FPs : Len(fpq[f]) <= QueueSize
  /\ outq \in Seq(Jobs) /\ Len(outq) <= QueueSize
  /\ lbShut \in [LBs -> BOOLEAN] /\ fpShut \in [FPs -> BOOLEAN] /\ outShut \in BOOLEAN
  /\ lbRunning \in [LBs -> BOOLEAN] /\ fpRunning \in [FPs -> BOOLEAN]
  /\ outRunning \in BOOLEAN
  /\ lbPc \in [LBs -> ThreadPcs] /\ fpPc \in [FPs -> ThreadPcs]
  /\ wPc \in {"none", "check", "pop", "write", "exited"}
  /\ lbJob \in [LBs -> Jobs \cup {NoJob}] /\ fpJob \in [FPs -> Jobs \cup {NoJob}]
  /\ wJob \in Jobs \cup {NoJob}
  /\ \A i \in LBs : lbPc[i] = "push" <=> lbJob[i] # NoJob
  /\ \A f \in FPs : fpPc[f] = "push" <=> fpJob[f] # NoJob
  /\ wPc = "write" <=> wJob # NoJob
  /\ file \in Seq(Jobs \cup {Header})
  /\ fileOpen \in BOOLEAN
  /\ rPc \in {"none", "open", "read", "push", "exited"}
  /\ rJob \in Jobs \cup {NoJob} /\ (rPc = "push" <=> rJob # NoJob)
  /\ next \in 1 .. Len(Frames) + 1
  /\ mPc \in MainPcs
  /\ mIdx \in 0 .. NumLBs * FpsPerLB
  /\ processed \in [FPs -> SUBSET Jobs]
  /\ forwarded \subseteq Jobs /\ dropped \subseteq Jobs

Init ==
  /\ lbq = [i \in LBs |-> <<>>] /\ fpq = [f \in FPs |-> <<>>] /\ outq = <<>>
  /\ lbShut = [i \in LBs |-> FALSE] /\ fpShut = [f \in FPs |-> FALSE] /\ outShut = FALSE
  /\ lbRunning = [i \in LBs |-> FALSE] /\ fpRunning = [f \in FPs |-> FALSE]
  /\ outRunning = FALSE
  /\ lbPc = [i \in LBs |-> "none"] /\ fpPc = [f \in FPs |-> "none"] /\ wPc = "none"
  /\ lbJob = [i \in LBs |-> NoJob] /\ fpJob = [f \in FPs |-> NoJob] /\ wJob = NoJob
  /\ file = <<>> /\ fileOpen = FALSE
  /\ rPc = "none" /\ rJob = NoJob /\ next = 1
  /\ mPc = "open" /\ mIdx = 0
  /\ processed = [f \in FPs |-> {}] /\ forwarded = {} /\ dropped = {}

---------------------------------------------------------------------------------
(***************************************************************************)
(* Plausible mistakes, each a drop-in for the definition of the same shape *)
(* below.                                                                  *)
(***************************************************************************)
PushNeverWaits(q, shut) == TRUE
WriterPollsFlagOnly == outRunning
\* handleOutput without the return in its DROP branch
DropFallsThrough(f) ==
  /\ fpPc[f] = "pop" /\ fpq[f] # <<>>
  /\ fpJob' = [fpJob EXCEPT ![f] = Head(fpq[f])]
  /\ fpq' = [fpq EXCEPT ![f] = Tail(fpq[f])]
  /\ processed' = [processed EXCEPT ![f] = @ \cup {Head(fpq[f])}]
  /\ dropped' = dropped \cup {Head(fpq[f])}
  /\ fpPc' = [fpPc EXCEPT ![f] = "push"]
  /\ UNCHANGED <<fpShut, fpRunning, forwarded, lbVars, outVars, fileVars, controlVars>>

---------------------------------------------------------------------------------
(***************************************************************************)
(* The queues.  A push waits for room, and gives its job up once the queue *)
(* is shut down.                                                           *)
(***************************************************************************)
PushReturns(q, shut) == Len(q) < QueueSize \/ shut
Pushed(q, shut, j) == IF shut THEN q ELSE Append(q, j)

(***************************************************************************)
(* LoadBalancer::run                                                       *)
(***************************************************************************)
\* while (running_)
LBCheck(i) ==
  /\ lbPc[i] = "check"
  /\ lbPc' = [lbPc EXCEPT ![i] = IF lbRunning[i] THEN "pop" ELSE "exited"]
  /\ UNCHANGED <<lbq, lbShut, lbRunning, lbJob, fpVars, outVars, fileVars, stats, controlVars>>

\* popWithTimeout comes back with nothing: continue.
LBIdle(i) ==
  /\ lbPc[i] = "pop" /\ lbq[i] = <<>>
  /\ lbPc' = [lbPc EXCEPT ![i] = "check"]
  /\ UNCHANGED <<lbq, lbShut, lbRunning, lbJob, fpVars, outVars, fileVars, stats, controlVars>>

LBPop(i) ==
  /\ lbPc[i] = "pop" /\ lbq[i] # <<>>
  /\ lbJob' = [lbJob EXCEPT ![i] = Head(lbq[i])]
  /\ lbq' = [lbq EXCEPT ![i] = Tail(lbq[i])]
  /\ lbPc' = [lbPc EXCEPT ![i] = "push"]
  /\ UNCHANGED <<lbShut, lbRunning, fpVars, outVars, fileVars, stats, controlVars>>

\* fp_queues_[selectFP(tuple)]->push
LBPush(i) ==
  /\ lbPc[i] = "push"
  /\ LET f == FPFor(i, tuple(lbJob[i])) IN
       /\ PushReturns(fpq[f], fpShut[f])
       /\ fpq' = [fpq EXCEPT ![f] = Pushed(fpq[f], fpShut[f], lbJob[i])]
  /\ lbJob' = [lbJob EXCEPT ![i] = NoJob]
  /\ lbPc' = [lbPc EXCEPT ![i] = "check"]
  /\ UNCHANGED <<lbq, lbShut, lbRunning, fpShut, fpRunning, fpPc, fpJob,
                 outVars, fileVars, stats, controlVars>>

(***************************************************************************)
(* FastPathProcessor::run.  Which packets the rules drop is left open      *)
(* here; a fast path decides on its own data, and the counters it touches  *)
(* are atomics nobody reads before the thread is joined.                   *)
(***************************************************************************)
FPCheck(f) ==
  /\ fpPc[f] = "check"
  /\ fpPc' = [fpPc EXCEPT ![f] = IF fpRunning[f] THEN "pop" ELSE "exited"]
  /\ UNCHANGED <<fpq, fpShut, fpRunning, fpJob, lbVars, outVars, fileVars, stats, controlVars>>

FPIdle(f) ==
  /\ fpPc[f] = "pop" /\ fpq[f] = <<>>
  /\ fpPc' = [fpPc EXCEPT ![f] = "check"]
  /\ UNCHANGED <<fpq, fpShut, fpRunning, fpJob, lbVars, outVars, fileVars, stats, controlVars>>

\* Pop a job and decide; handleOutput(DROP) only counts it ...
FPDrop(f) ==
  /\ fpPc[f] = "pop" /\ fpq[f] # <<>>
  /\ fpq' = [fpq EXCEPT ![f] = Tail(fpq[f])]
  /\ processed' = [processed EXCEPT ![f] = @ \cup {Head(fpq[f])}]
  /\ dropped' = dropped \cup {Head(fpq[f])}
  /\ fpPc' = [fpPc EXCEPT ![f] = "check"]
  /\ UNCHANGED <<fpShut, fpRunning, fpJob, forwarded, lbVars, outVars, fileVars, controlVars>>

\* ... while handleOutput(FORWARD) counts it before the push that may block.
FPForward(f) ==
  /\ fpPc[f] = "pop" /\ fpq[f] # <<>>
  /\ fpJob' = [fpJob EXCEPT ![f] = Head(fpq[f])]
  /\ fpq' = [fpq EXCEPT ![f] = Tail(fpq[f])]
  /\ processed' = [processed EXCEPT ![f] = @ \cup {Head(fpq[f])}]
  /\ forwarded' = forwarded \cup {Head(fpq[f])}
  /\ fpPc' = [fpPc EXCEPT ![f] = "push"]
  /\ UNCHANGED <<fpShut, fpRunning, dropped, lbVars, outVars, fileVars, controlVars>>

\* output_queue_.push
FPPush(f) ==
  /\ fpPc[f] = "push"
  /\ PushReturns(outq, outShut)
  /\ outq' = Pushed(outq, outShut, fpJob[f])
  /\ fpJob' = [fpJob EXCEPT ![f] = NoJob]
  /\ fpPc' = [fpPc EXCEPT ![f] = "check"]
  /\ UNCHANGED <<fpq, fpShut, fpRunning, lbVars, outShut, outRunning, wPc, wJob,
                 fileVars, stats, controlVars>>

(***************************************************************************)
(* The output writer.  Once cleared the flag stays clear, so reading it    *)
(* and then asking whether the queue is empty is one step.                 *)
(***************************************************************************)
WriterLoops == outRunning \/ outq # <<>>

WriterCheck ==
  /\ wPc = "check"
  /\ wPc' = IF WriterLoops THEN "pop" ELSE "exited"
  /\ UNCHANGED <<lbVars, fpVars, outq, outShut, outRunning, wJob, fileVars, stats, controlVars>>

WriterIdle ==
  /\ wPc = "pop" /\ outq = <<>>
  /\ wPc' = "check"
  /\ UNCHANGED <<lbVars, fpVars, outq, outShut, outRunning, wJob, fileVars, stats, controlVars>>

WriterPop ==
  /\ wPc = "pop" /\ outq # <<>>
  /\ wJob' = Head(outq)
  /\ outq' = Tail(outq)
  /\ wPc' = "write"
  /\ UNCHANGED <<lbVars, fpVars, outShut, outRunning, fileVars, stats, controlVars>>

\* writeOutputPacket: a packet for a file that is not open is lost.
WriterWrite ==
  /\ wPc = "write"
  /\ file' = IF fileOpen THEN Append(file, wJob) ELSE file
  /\ wJob' = NoJob
  /\ wPc' = "check"
  /\ UNCHANGED <<lbVars, fpVars, outq, outShut, outRunning, fileOpen, stats, controlVars>>

---------------------------------------------------------------------------------
(***************************************************************************)
(* The reader's loop.  A frame that does not parse, or is neither TCP nor  *)
(* UDP over IP, is skipped.                                                *)
(***************************************************************************)
ReaderSkip ==
  /\ rPc = "read" /\ next <= Len(Frames) /\ ~Frames[next].parses
  /\ next' = next + 1
  /\ UNCHANGED <<rPc, rJob, workerVars, mainVars>>

\* createPacketJob; the packet is counted in total_packets here.
ReaderTake ==
  /\ rPc = "read" /\ next <= Len(Frames) /\ Frames[next].parses
  /\ rJob' = next
  /\ next' = next + 1
  /\ rPc' = "push"
  /\ UNCHANGED <<workerVars, mainVars>>

\* getLBForPacket(tuple).getInputQueue().push
ReaderPush ==
  /\ rPc = "push"
  /\ LET i == getLBForPacket(tuple(rJob)) IN
       /\ PushReturns(lbq[i], lbShut[i])
       /\ lbq' = [lbq EXCEPT ![i] = Pushed(lbq[i], lbShut[i], rJob)]
  /\ rJob' = NoJob
  /\ rPc' = "read"
  /\ UNCHANGED <<next, lbShut, lbRunning, lbPc, lbJob, fpVars, outVars, fileVars, stats,
                 mainVars>>

ReaderEnd ==
  /\ rPc = "read" /\ next > Len(Frames)
  /\ rPc' = "exited"
  /\ UNCHANGED <<rJob, next, workerVars, mainVars>>

---------------------------------------------------------------------------------
(***************************************************************************)
(* Starting and stopping.  Starting one thread does not affect what the    *)
(* ones already started can do, so all are started in one step.            *)
(***************************************************************************)
StartAll ==
  /\ lbRunning' = [i \in LBs |-> TRUE]
  /\ fpRunning' = [f \in FPs |-> TRUE]
  /\ outRunning' = TRUE
  /\ lbPc' = [i \in LBs |-> "check"]
  /\ fpPc' = [f \in FPs |-> "check"]
  /\ wPc' = "check"
  /\ UNCHANGED <<lbq, lbShut, lbJob, fpq, fpShut, fpJob, outq, outShut, wJob>>

\* The reader is done, and the sleeps that "wait for queues to drain" are over:
\* they bound nothing, any number of steps fits into them.
ReaderDone(to) ==
  /\ mPc = "reader" /\ rPc = "exited"
  /\ mPc' = to
  /\ UNCHANGED <<mIdx, workerVars, readerVars>>

\* LoadBalancer::stop, for one load balancer after the other: clear running_,
\* shut the input queue down, join the thread.
LBStopFlag ==
  /\ mPc = "lbFlag"
  /\ lbRunning' = [lbRunning EXCEPT ![mIdx] = FALSE]
  /\ mPc' = "lbShut"
  /\ UNCHANGED <<mIdx, lbq, lbShut, lbPc, lbJob, fpVars, outVars, fileVars, stats, readerVars>>

LBStopShutdown ==
  /\ mPc = "lbShut"
  /\ lbShut' = [lbShut EXCEPT ![mIdx] = TRUE]
  /\ mPc' = "lbJoin"
  /\ UNCHANGED <<mIdx, lbq, lbRunning, lbPc, lbJob, fpVars, outVars, fileVars, stats, readerVars>>

LBStopJoin ==
  /\ mPc = "lbJoin" /\ lbPc[mIdx] = "exited"
  /\ IF mIdx + 1 \in LBs
       THEN mPc' = "lbFlag" /\ mIdx' = mIdx + 1
       ELSE mPc' = "fpFlag" /\ mIdx' = 0
  /\ UNCHANGED <<workerVars, readerVars>>

\* FastPathProcessor::stop, likewise.
FPStopFlag ==
  /\ mPc = "fpFlag"
  /\ fpRunning' = [fpRunning EXCEPT ![mIdx] = FALSE]
  /\ mPc' = "fpShut"
  /\ UNCHANGED <<mIdx, fpq, fpShut, fpPc, fpJob, lbVars, outVars, fileVars, stats, readerVars>>

FPStopShutdown ==
  /\ mPc = "fpShut"
  /\ fpShut' = [fpShut EXCEPT ![mIdx] = TRUE]
  /\ mPc' = "fpJoin"
  /\ UNCHANGED <<mIdx, fpq, fpRunning, fpPc, fpJob, lbVars, outVars, fileVars, stats, readerVars>>

FPStopJoin(to) ==
  /\ mPc = "fpJoin" /\ fpPc[mIdx] = "exited"
  /\ IF mIdx + 1 \in FPs
       THEN mPc' = "fpFlag" /\ mIdx' = mIdx + 1
       ELSE mPc' = to /\ mIdx' = 0
  /\ UNCHANGED <<workerVars, readerVars>>

\* The flag the writer polls is cleared.
OutputStopFlag(to) ==
  /\ mPc = "outFlag"
  /\ outRunning' = FALSE
  /\ mPc' = to
  /\ UNCHANGED <<mIdx, outq, outShut, wPc, wJob, lbVars, fpVars, fileVars, stats, readerVars>>

OutputShutdown ==
  /\ mPc = "outShut"
  /\ outShut' = TRUE
  /\ mPc' = "outJoin"
  /\ UNCHANGED <<mIdx, outq, outRunning, wPc, wJob, lbVars, fpVars, fileVars, stats, readerVars>>

OutputJoin ==
  /\ mPc = "outJoin" /\ wPc = "exited"
  /\ mPc' = "close"
  /\ UNCHANGED <<mIdx, workerVars, readerVars>>

\* output_file_.close() and the report
CloseFile ==
  /\ mPc = "close"
  /\ fileOpen' = FALSE
  /\ mPc' = "done"
  /\ UNCHANGED <<mIdx, file, lbVars, fpVars, outVars, stats, readerVars>>

\* The call is over: the process has nothing left to do.
Returned ==
  /\ mPc \in {"done", "failed"}
  /\ UNCHANGED vars

---------------------------------------------------------------------------------
LBStep(i) == LBCheck(i) \/ LBIdle(i) \/ LBPop(i) \/ LBPush(i)
FPStep(f) == FPCheck(f) \/ FPIdle(f) \/ FPDrop(f) \/ FPForward(f) \/ FPPush(f)
WriterStep == WriterCheck \/ WriterIdle \/ WriterPop \/ WriterWrite

ReaderLoop == ReaderSkip \/ ReaderTake \/ ReaderPush \/ ReaderEnd

WorkerStep ==
  \/ \E i \in LBs : LBStep(i)
  \/ \E f \in FPs : FPStep(f)
  \/ WriterStep

StopStep ==
  \/ LBStopFlag \/ LBStopShutdown \/ LBStopJoin
  \/ FPStopFlag \/ FPStopShutdown
  \/ OutputShutdown \/ OutputJoin \/ CloseFile

\* Every worker is scheduled; nothing is assumed of how fast.
WorkerFairness ==
  /\ \A i \in LBs : WF_vars(LBStep(i))
  /\ \A f \in FPs : WF_vars(FPStep(f))
  /\ WF_vars(WriterStep)

---------------------------------------------------------------------------------
Taken == {j \in Jobs : j < next /\ Frames[j].parses}
Elements(q) == {q[k] : k \in 1 .. Len(q)}
Written == Elements(file) \ {Header}

\* Every place, down to the position in a queue or in the file, where job j is.
Places(j) ==
  {p \in {<<"reader">>} : rJob = j}
  \cup {p \in {"lbq"} \X LBs \X (1 .. QueueSize) :
          p[3] <= Len(lbq[p[2]]) /\ lbq[p[2]][p[3]] = j}
  \cup {p \in {"lb"} \X LBs : lbJob[p[2]] = j}
  \cup {p \in {"fpq"} \X FPs \X (1 .. QueueSize) :
          p[3] <= Len(fpq[p[2]]) /\ fpq[p[2]][p[3]] = j}
  \cup {p \in {"fp"} \X FPs : fpJob[p[2]] = j}
  \cup {p \in {"outq"} \X (1 .. Len(outq)) : outq[p[2]] = j}
  \cup {p \in {<<"writer">>} : wJob = j}
  \cup {p \in {"file"} \X (1 .. Len(file)) : file[p[2]] = j}
  \cup {p \in {<<"dropped">>} : j \in dropped}

\* Every packet the reader has counted in total_packets is in exactly one place
\* -- a queue, a thread's hands, the output file, the drop count -- until the end,
\* shutdown included; nothing is duplicated and nothing vanishes.
EveryJobInOnePlace ==
  \A j \in Jobs : Cardinality(Places(j)) = IF j \in Taken THEN 1 ELSE 0

\* No thread is about to push into a queue that has been shut down: the push
\* would return normally and discard the packet.  This is what stopping the load
\* balancers first ("they feed FPs"), then the fast paths, then the output is for.
NoJobDiscarded ==
  /\ rPc = "push" => ~lbShut[getLBForPacket(tuple(rJob))]
  /\ \A i \in LBs : lbPc[i] = "push" => ~fpShut[FPFor(i, tuple(lbJob[i]))]
  /\ \A f \in FPs : fpPc[f] = "push" => ~outShut

\* "Same flow always goes to same FP", both directions of it: no two fast paths
\* ever process packets of one conversation.
FlowPinned ==
  \A f, g \in FPs : \A j \in processed[f], k \in processed[g] :
    SameFlow(tuple(j), tuple(k)) => f = g

\* The packets of one conversation are written in the order of the input file,
\* whatever the threads in between do.
FlowOrder ==
  \A a, b \in 1 .. Len(file) :
    (a < b /\ file[a] # Header /\ file[b] # Header /\ SameFlow(tuple(file[a]), tuple(file[b])))
      => file[a] < file[b]

\* The output is a PCAP file: the global header, once, before any packet; and
\* only packets counted as forwarded follow.
WellFormedFile ==
  /\ file # <<>> => file[1] = Header
  /\ \A k \in 2 .. Len(file) : file[k] \in forwarded

\* processFile returns: every worker is eventually stopped and joined.
EngineReturns == <>(mPc \in {"done", "failed"})
=================================================================================
