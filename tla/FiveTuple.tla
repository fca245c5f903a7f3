------------------------------- MODULE FiveTuple -------------------------------
(***************************************************************************)
(* FiveTuple and FiveTupleHash (include/types.h), canonicalTuple           *)
(* (src/connection_tracker.cpp) and the two hash-based choices made with   *)
(* them: which load balancer, and which fast path behind it, gets a        *)
(* packet (src/load_balancer.cpp; the same expressions are inlined in      *)
(* src/dpi_mt.cpp).                                                        *)
(***************************************************************************)
EXTENDS Integers

CONSTANTS Tuples,      \* the five-tuples that occur in the traffic
          Mix(_),      \* the 64-bit mixing of the five hashed numbers
          NumLBs,      \* Config::num_load_balancers
          FpsPerLB     \* Config::fps_per_lb

FiveTuples == [src_ip : Nat, dst_ip : Nat, src_port : Nat, dst_port : Nat, protocol : Nat]

reverse(t) ==
  [src_ip |-> t.dst_ip, dst_ip |-> t.src_ip,
   src_port |-> t.dst_port, dst_port |-> t.src_port, protocol |-> t.protocol]

\* The condition under which both FiveTupleHash and canonicalTuple swap the
\* endpoints: the source endpoint (ip, port) is the larger one.
SourceIsLarger(t) ==
  t.src_ip > t.dst_ip \/ (t.src_ip = t.dst_ip /\ t.src_port > t.dst_port)

\* Mutants: the endpoints are hashed, or kept, in packet order.
HashPacketOrder(t) ==
  Mix(<<t.src_ip, t.dst_ip, t.src_port, t.dst_port, t.protocol>>)
TupleOfPacket(t) == t

canonicalTuple(t) == IF SourceIsLarger(t) THEN reverse(t) ELSE t

FiveTupleHash(t) ==
  IF SourceIsLarger(t)
    THEN Mix(<<t.dst_ip, t.src_ip, t.dst_port, t.src_port, t.protocol>>)
    ELSE Mix(<<t.src_ip, t.dst_ip, t.src_port, t.dst_port, t.protocol>>)

ASSUME DispatchAssumption ==
  /\ NumLBs \in Nat \ {0}
  /\ FpsPerLB \in Nat \ {0}
  /\ Tuples \subseteq FiveTuples
  /\ \A t \in Tuples : FiveTupleHash(t) \in Nat

---------------------------------------------------------------------------------
LBs == 0 .. NumLBs - 1
FPs == 0 .. NumLBs * FpsPerLB - 1

\* LBManager: load balancer lb owns the FpsPerLB fast paths from here on.
fp_start(lb) == lb * FpsPerLB

getLBForPacket(t) == FiveTupleHash(t) % NumLBs
selectFP(t) == FiveTupleHash(t) % FpsPerLB

\* The fast path whose queue load balancer lb pushes a packet to.
FPFor(lb, t) == fp_start(lb) + selectFP(t)

\* The two directions of one conversation.
SameFlow(s, t) == s = t \/ s = reverse(t)
=================================================================================
