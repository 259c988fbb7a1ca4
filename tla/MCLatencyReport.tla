---------------------------- MODULE MCLatencyReport ----------------------------
(***************************************************************************)
(* LatencyReport for TLC: up to MaxMessages messages, then one report.     *)
(***************************************************************************)
EXTENDS LatencyReport

CONSTANT MaxMessages    \* bound: messages before the engine stops

VARIABLE ended

MCInit == Init /\ ended = FALSE

Next == \/ /\ ~ended /\ messages_processed < MaxMessages
           /\ \E delta \in Latencies : Record(delta)
           /\ UNCHANGED ended
        \/ ~ended /\ Report /\ ended' = TRUE
        \/ ended /\ UNCHANGED <<vars, ended>>

Spec == MCInit /\ [][Next]_<<vars, ended>>
================================================================================
