------------------------------ MODULE PacketFilter ------------------------------
(***************************************************************************)
(* What the engine of src/dpi_mt.cpp is for, without its threads and       *)
(* queues: a filter from one capture to another.  Packets are decided in   *)
(* the order of their flow; the accepted ones are written, in that order   *)
(* too; when the call returns everything accepted is in the output.        *)
(*                                                                         *)
(* The call may return with packets nobody has decided on: the engine      *)
(* waits for half a second, not for its queues to be empty.                *)
(***************************************************************************)
EXTENDS Naturals, Sequences

CONSTANTS Packets,   \* the packets of the input, by their position in it
          FlowOf     \* the conversation each of them belongs to

VARIABLES accepted, rejected,   \* the verdicts: forwarded, dropped
          output,               \* the packets in the output, as written
          status                \* of the call: "running", "done" or "failed"

filterVars == <<accepted, rejected, output, status>>

Decided == accepted \cup rejected
Written == {output[k] : k \in 1 .. Len(output)}

\* The packets of p's conversation that come before it in the input.
Before(p) == {q \in Packets : q < p /\ FlowOf[q] = FlowOf[p]}

Init ==
  /\ accepted = {} /\ rejected = {}
  /\ output = <<>>
  /\ status = "running"

Decide(p) ==
  /\ status = "running"
  /\ p \notin Decided /\ Before(p) \subseteq Decided
  /\ \/ accepted' = accepted \cup {p} /\ UNCHANGED rejected
     \/ rejected' = rejected \cup {p} /\ UNCHANGED accepted
  /\ UNCHANGED <<output, status>>

Write(p) ==
  /\ status = "running"
  /\ p \in accepted \ Written
  /\ Before(p) \cap accepted \subseteq Written
  /\ output' = Append(output, p)
  /\ UNCHANGED <<accepted, rejected, status>>

Return ==
  /\ status = "running"
  /\ accepted \subseteq Written
  /\ status' = "done"
  /\ UNCHANGED <<accepted, rejected, output>>

\* A file cannot be opened.
Fail ==
  /\ status = "running"
  /\ Decided = {}
  /\ status' = "failed"
  /\ UNCHANGED <<accepted, rejected, output>>

Next == (\E p \in Packets : Decide(p) \/ Write(p)) \/ Return \/ Fail

\* The call comes back -- by then what was accepted is written.  That every packet
\* is decided is not promised.
Spec == Init /\ [][Next]_filterVars /\ <>(status # "running")
=================================================================================
