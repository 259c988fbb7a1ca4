------------------------------ MODULE FeedHandler ------------------------------
(***************************************************************************)
(* The completion handler of include/FeedHandler.h: it checks what was     *)
(* received and pushes it on the ring.  A datagram is an error or has a    *)
(* size and a message; the kernel cuts what does not fit the buffer, so a  *)
(* longer datagram counts as one of the right size.                        *)
(*                                                                         *)
(* push() decides on the pops that the network thread has seen and looks   *)
(* again when the ring seems full (module SharedRing).                     *)
(***************************************************************************)
EXTENDS Naturals, Sequences

CONSTANTS Capacity, Values, Junk,
          PAYLOAD        \* sizeof(PacketPayload) - 8

VARIABLES contents, visible, unseen_pops, packet, open,   \* the ring
          handler,           \* "idle", "called", or "push" once the ring has room
          dropped_packets

Ring == INSTANCE SharedRing
ring == <<contents, visible, unseen_pops, packet, open>>

Init == handler = "idle" /\ dropped_packets = 0

\* bytes_recvd, and the test of the handler.
BytesReceived(d) == IF d.size < PAYLOAD THEN d.size ELSE PAYLOAD
Accepted(d) == ~d.error /\ BytesReceived(d) = PAYLOAD

Call == /\ handler = "idle"
        /\ handler' = "called"
        /\ UNCHANGED <<ring, dropped_packets>>

\* An error is only printed, a datagram that is too short is forgotten.
Ignore(d) ==
  /\ handler = "called" /\ ~Accepted(d)
  /\ handler' = "idle"
  /\ UNCHANGED <<ring, dropped_packets>>

Push(d) ==
  /\ handler \in {"called", "push"} /\ Accepted(d)
  /\ Ring!Push(d.message)
  /\ handler' = "idle"
  /\ UNCHANGED dropped_packets

\* The ring seems full: the producer loads the consumer's cursor.  If it is still
\* full push() returns false and the message is dropped.
Drop_Uncounted(still_full) == dropped_packets
Drop(still_full) == IF still_full THEN dropped_packets + 1 ELSE dropped_packets

LookAgain(d, n) ==
  LET still_full == Len(contents) + n >= Capacity
  IN /\ handler = "called" /\ Accepted(d)
     /\ Ring!SeePops(n)
     /\ handler' = IF still_full THEN "idle" ELSE "push"
     /\ dropped_packets' = Drop(still_full)
================================================================================
