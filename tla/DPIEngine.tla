------------------------------- MODULE DPIEngine -------------------------------
(***************************************************************************)
(* DPIEngine::processFile of src/dpi_engine.cpp: the reader is a thread of *)
(* its own that opens the input once everything runs, and stop() clears    *)
(* running_, which the writer polls, before it stops the other workers.    *)
(***************************************************************************)
EXTENDS Pipeline

\* The output file cannot be opened: return false.
OpenFails ==
  /\ mPc = "open"
  /\ mPc' = "failed"
  /\ UNCHANGED <<mIdx, workerVars, readerVars>>

OpenOutput ==
  /\ mPc = "open"
  /\ fileOpen' = TRUE
  /\ file' = <<>>
  /\ mPc' = "start"
  /\ UNCHANGED <<mIdx, lbVars, fpVars, outVars, stats, readerVars>>

\* start(), and the reader thread.
Start ==
  /\ mPc = "start"
  /\ StartAll
  /\ rPc' = "open"
  /\ mPc' = "reader"
  /\ UNCHANGED <<mIdx, rJob, next, fileVars, stats>>

\* readerThreadFunc: the input cannot be opened, and nobody is told.
ReaderOpenFails ==
  /\ rPc = "open"
  /\ rPc' = "exited"
  /\ UNCHANGED <<rJob, next, workerVars, mainVars>>

\* Mutant: the header is forgotten.
ReaderOpensNoHeader ==
  /\ rPc = "open"
  /\ rPc' = "read"
  /\ UNCHANGED <<rJob, next, workerVars, mainVars>>

\* The input is open: writeOutputHeader.
ReaderOpens ==
  /\ rPc = "open"
  /\ file' = IF fileOpen THEN Append(file, Header) ELSE file
  /\ rPc' = "read"
  /\ UNCHANGED <<rJob, next, fileOpen, lbVars, fpVars, outVars, stats, mainVars>>

\* Mutant: stop() goes for the fast paths first.
FPsFirst ==
  /\ mPc = "outFlag"
  /\ outRunning' = FALSE
  /\ mPc' = "fpFlag"
  /\ UNCHANGED <<mIdx, outq, outShut, wPc, wJob, lbVars, fpVars, fileVars, stats, readerVars>>

\* stop(): running_ = false.
StopRunning == OutputStopFlag("lbFlag")

MainStep ==
  \/ OpenFails \/ OpenOutput \/ Start
  \/ ReaderDone("outFlag")
  \/ StopRunning
  \/ StopStep
  \/ FPStopJoin("outShut")

Reader == ReaderOpenFails \/ ReaderOpens \/ ReaderLoop

Next == WorkerStep \/ Reader \/ MainStep \/ Returned

Spec == Init /\ [][Next]_vars

\* All threads are scheduled, the calling one included.
FairSpec == Spec /\ WorkerFairness /\ WF_vars(Reader) /\ WF_vars(MainStep)

---------------------------------------------------------------------------------
\* processFile is called again, for another input, on the same engine.
ProcessAnother ==
  /\ mPc = "done"
  /\ mPc' = "open"
  /\ rPc' = "none" /\ next' = 1
  /\ UNCHANGED <<mIdx, rJob, workerVars>>

SpecReuse == Init /\ [][Next \/ ProcessAnother]_vars
=================================================================================
