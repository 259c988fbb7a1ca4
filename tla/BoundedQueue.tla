----------------------------- MODULE BoundedQueue -----------------------------
(***************************************************************************)
(* What include/SPSCQueue.h promises its two threads: a FIFO of at most    *)
(* Capacity values.  A push takes effect in one step, a pop hands out the  *)
(* oldest value, and what the destructor throws away is thrown away from   *)
(* the front, after the threads are done.  A push or a pop that returns    *)
(* false changes nothing.                                                  *)
(***************************************************************************)
EXTENDS Naturals, Sequences

CONSTANTS Capacity, Values

VARIABLES contents,    \* the values pushed and not yet popped, oldest first
          delivered,   \* every value pop() has returned, in order
          open         \* FALSE once the destructor has started

vars == <<contents, delivered, open>>

Init == contents = <<>> /\ delivered = <<>> /\ open = TRUE

Push(v) == /\ open
           /\ Len(contents) < Capacity
           /\ contents' = Append(contents, v)
           /\ UNCHANGED <<delivered, open>>

Pop == /\ open
       /\ contents # <<>>
       /\ delivered' = Append(delivered, Head(contents))
       /\ contents' = Tail(contents)
       /\ UNCHANGED open

Close == open /\ open' = FALSE /\ UNCHANGED <<contents, delivered>>

Discard == /\ ~open
           /\ contents # <<>>
           /\ contents' = Tail(contents)
           /\ UNCHANGED <<delivered, open>>

Next == (\E v \in Values : Push(v)) \/ Pop \/ Close \/ Discard

Spec == Init /\ [][Next]_vars
===============================================================================
