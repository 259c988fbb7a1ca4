------------------------------ MODULE MCEventLoop ------------------------------
(***************************************************************************)
(* EventLoop for TLC.  Everything in it is bounded by the kernel's         *)
(* buffers, so datagrams and signals may arrive for ever.                  *)
(***************************************************************************)
EXTENDS EventLoop, TLC

Symmetry == Permutations(Datagrams) \cup Permutations(Signals)
===============================================================================
