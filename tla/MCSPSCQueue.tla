------------------------------ MODULE MCSPSCQueue ------------------------------
(* SPSCQueue for TLC: the sizes are given by the configurations.                *)
EXTENDS SPSCQueue
================================================================================
