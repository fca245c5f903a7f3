--------------------------- MODULE MCThreadSafeQueue ---------------------------
(* Instance of ThreadSafeQueue for TLC; its constants are model values. *)
EXTENDS ThreadSafeQueue
=================================================================================
