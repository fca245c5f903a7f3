---------------------------- MODULE DPIMultiThreaded ----------------------------
(***************************************************************************)
(* DPIEngine::process of src/dpi_mt.cpp: the calling thread opens both     *)
(* files, writes the header, starts the threads, reads, and stops them     *)
(* with output_running cleared last.                                       *)
(***************************************************************************)
EXTENDS Pipeline

\* The input or the output file cannot be opened: return false.
OpenFails ==
  /\ mPc = "open"
  /\ mPc' = "failed"
  /\ UNCHANGED <<mIdx, workerVars, readerVars>>

\* Both files are open: write the header, start all threads, start to read.
Open ==
  /\ mPc = "open"
  /\ fileOpen' = TRUE
  /\ file' = <<Header>>
  /\ StartAll
  /\ rPc' = "read"
  /\ mPc' = "reader"
  /\ UNCHANGED <<mIdx, rJob, next, stats>>

\* Mutant: the writer is told to stop together with the load balancers.
ReaderDoneStopsOutput ==
  /\ mPc = "reader" /\ rPc = "exited"
  /\ outRunning' = FALSE
  /\ mPc' = "lbFlag"
  /\ UNCHANGED <<mIdx, outq, outShut, wPc, wJob, lbVars, fpVars, fileVars, stats, readerVars>>

\* Mutant: the fast paths are stopped before the load balancers that feed them.
FPsFirst ==
  /\ mPc = "reader" /\ rPc = "exited"
  /\ mPc' = "fpFlag"
  /\ UNCHANGED <<mIdx, workerVars, readerVars>>

MainReads == ReaderDone("lbFlag")

MainStep ==
  \/ OpenFails \/ Open
  \/ MainReads
  \/ StopStep
  \/ FPStopJoin("outFlag")
  \/ OutputStopFlag("outShut")

Next == WorkerStep \/ ReaderLoop \/ MainStep \/ Returned

Spec == Init /\ [][Next]_vars

\* All threads are scheduled, the calling one included.
FairSpec == Spec /\ WorkerFairness /\ WF_vars(ReaderLoop) /\ WF_vars(MainStep)

---------------------------------------------------------------------------------
\* Seen from outside the engine is a filter; the header, the queues and what the
\* threads have in their hands are not part of that.
packetJobs == {j \in Jobs : Frames[j].parses}
conversation == [j \in Jobs |-> canonicalTuple(tuple(j))]

Filter == INSTANCE PacketFilter WITH
  Packets  <- packetJobs,
  FlowOf   <- conversation,
  accepted <- forwarded,
  rejected <- dropped,
  output   <- IF file = <<>> THEN <<>> ELSE Tail(file),
  status   <- IF mPc \in {"done", "failed"} THEN mPc ELSE "running"

\* process() implements the filter: per conversation packets are judged and written
\* in the order of the input, it comes back, and not before all that was forwarded
\* is in the file.
ImplementsPacketFilter == Filter!Spec

\* The packets that the sleep was too short for: when process() returns, a packet
\* that was counted is written, dropped, or still in the input queue of a load
\* balancer or a fast path.  No thread exits with a packet in its hands and the
\* output queue is empty.
OnlyInputQueuesKeepPackets ==
  mPc = "done" =>
    Taken = Written \cup dropped \cup (UNION {Elements(lbq[i]) : i \in LBs})
                   \cup (UNION {Elements(fpq[f]) : f \in FPs})
=================================================================================
