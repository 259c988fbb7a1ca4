------------------------------ MODULE SharedRing ------------------------------
(***************************************************************************)
(* The ring between the two threads as each of them sees it: a FIFO whose  *)
(* producer may not know yet of the latest pops and whose consumer may not *)
(* know yet of the latest pushes.  include/SPSCQueue.h implements it       *)
(* (ImplementsSharedRing in module SPSCQueue), and the composition of the  *)
(* process uses it in its place.                                           *)
(***************************************************************************)
EXTENDS Naturals, Sequences

CONSTANTS Capacity, Values,
          Junk         \* what packet holds before the first pop

VARIABLES contents,    \* the values pushed and not yet popped, oldest first
          visible,     \* how many of them the consumer has seen
          unseen_pops, \* the pops the producer has not seen
          packet,      \* the value that the last pop returned
          open         \* FALSE once the destructor has started

vars == <<contents, visible, unseen_pops, packet, open>>

Init == /\ contents = <<>> /\ visible = 0 /\ unseen_pops = 0
        /\ packet = Junk /\ open = TRUE

\* The ring as the producer sees it.
SeemsFull == Len(contents) + unseen_pops >= Capacity

\* The producer loads the consumer's cursor: n pops stay unseen.
SeePops(n) == /\ open /\ SeemsFull
              /\ n \in 0 .. unseen_pops
              /\ unseen_pops' = n
              /\ UNCHANGED <<contents, visible, packet, open>>

Push(v) == /\ open /\ ~SeemsFull
           /\ contents' = Append(contents, v)
           /\ UNCHANGED <<visible, unseen_pops, packet, open>>

\* The consumer loads the producer's cursor: n values are visible to it.
SeePushes(n) == /\ open /\ visible = 0
                /\ n \in 0 .. Len(contents)
                /\ visible' = n
                /\ UNCHANGED <<contents, unseen_pops, packet, open>>

Pop == /\ open /\ visible > 0
       /\ packet' = Head(contents)
       /\ contents' = Tail(contents)
       /\ visible' = visible - 1
       /\ unseen_pops' = unseen_pops + 1
       /\ UNCHANGED open

\* The threads are joined, and the destructor discards what is left.
Close == /\ open /\ open' = FALSE
         /\ visible' = 0 /\ unseen_pops' = 0
         /\ UNCHANGED <<contents, packet>>

Discard == /\ ~open /\ contents # <<>>
           /\ contents' = Tail(contents)
           /\ UNCHANGED <<visible, unseen_pops, packet, open>>

Next == \/ \E v \in Values : Push(v)
        \/ \E n \in 0 .. unseen_pops : SeePops(n)
        \/ \E n \in 0 .. Len(contents) : SeePushes(n)
        \/ Pop \/ Close \/ Discard

Spec == Init /\ [][Next]_vars
===============================================================================
