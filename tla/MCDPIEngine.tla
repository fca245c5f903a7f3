------------------------------ MODULE MCDPIEngine ------------------------------
(* Instances of DPIEngine for TLC. *)
EXTENDS DPIEngine

\* A client's packet to, and one from, the server: the client has the smaller
\* address and the larger port.
ToServer(port) ==
  [src_ip |-> 1, dst_ip |-> 2, src_port |-> port, dst_port |-> 3, protocol |-> 6]
FromServer(port) == reverse(ToServer(port))

MCTuples == UNION {{ToServer(port), FromServer(port)} : port \in 5 .. 8}

\* Stands for the mixing: the conversations of consecutive client ports get
\* consecutive hashes, and the swapped endpoints hash differently.
MCMix(e) == e[1] + e[3]

\* Both directions of one conversation, another one, and a frame that is no
\* TCP or UDP packet.
MCFrames ==
  << [tuple |-> ToServer(5),   parses |-> TRUE],
     [tuple |-> ToServer(6),   parses |-> TRUE],
     [tuple |-> FromServer(5), parses |-> TRUE],
     [tuple |-> ToServer(6),   parses |-> FALSE],
     [tuple |-> FromServer(6), parses |-> TRUE] >>
=================================================================================
