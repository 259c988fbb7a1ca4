----------------------------- MODULE NetworkLoop -----------------------------
(***************************************************************************)
(* What asio's io_context promises main(): the datagrams that reach the    *)
(* socket are handed to the receive handler one at a time, each once and   *)
(* in the order in which they arrived; a signal makes the signal handler   *)
(* run; no handler runs after that, and run() returns only then.           *)
(***************************************************************************)
EXTENDS Naturals, Sequences

CONSTANTS Datagrams,      \* what a receive can complete with
          NoData,         \* nothing has been handed to the handler yet
          SocketBuffer    \* how many datagrams the kernel holds for the socket

VARIABLES arrived,    \* datagrams that are not yet handed to the handler, oldest first
          handled,    \* the datagram that the handler was given last
          signalled,  \* a signal has been raised that the handler must see
          running,    \* the flag that the signal handler clears
          stage       \* of the loop

vars == <<arrived, handled, signalled, running, stage>>

Stages == {"starting", "looping", "returned", "closed", "killed"}

Init == /\ arrived = <<>> /\ handled = NoData
        /\ signalled = FALSE /\ running = TRUE
        /\ stage = "starting"

\* The kernel holds SocketBuffer datagrams, and one may be in the receive buffer.
Arrive(d) == /\ stage \in {"starting", "looping", "returned"}
             /\ Len(arrived) <= SocketBuffer
             /\ arrived' = Append(arrived, d)
             /\ UNCHANGED <<handled, signalled, running, stage>>

Raise == /\ stage \in {"starting", "looping", "returned"}
         /\ signalled' = TRUE
         /\ UNCHANGED <<arrived, handled, running, stage>>

\* A signal that finds no handler installed ends the process.
Kill == /\ stage # "looping"
        /\ stage' = "killed"
        /\ arrived' = <<>>
        /\ UNCHANGED <<handled, signalled, running>>

Start == /\ stage = "starting"
         /\ stage' = "looping"
         /\ UNCHANGED <<arrived, handled, signalled, running>>

Handle == /\ stage = "looping" /\ running /\ arrived # <<>>
          /\ handled' = Head(arrived)
          /\ arrived' = Tail(arrived)
          /\ UNCHANGED <<signalled, running, stage>>

HandleSignal == /\ stage = "looping" /\ running /\ signalled
                /\ running' = FALSE
                /\ UNCHANGED <<arrived, handled, signalled, stage>>

Return == /\ stage = "looping" /\ ~running
          /\ stage' = "returned"
          /\ UNCHANGED <<arrived, handled, signalled, running>>

Close == /\ stage = "returned"
         /\ stage' = "closed"
         /\ arrived' = <<>>
         /\ UNCHANGED <<handled, signalled, running>>

Next == \/ \E d \in Datagrams : Arrive(d)
        \/ Raise \/ Kill \/ Start \/ Handle \/ HandleSignal \/ Return \/ Close

Spec == Init /\ [][Next]_vars
===============================================================================
