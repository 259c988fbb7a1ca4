----------------------------- MODULE MarketHandler -----------------------------
(***************************************************************************)
(* The process (src/main.cpp) and its feed: a sender, the network, the     *)
(* event loop on main's thread with the feed handler, the ring, and the    *)
(* matching engine on its own thread, from the start of main() to its end. *)
(*                                                                         *)
(* The parts are the modules NetworkLoop (implemented by EventLoop),       *)
(* FeedHandler, SharedRing (implemented by SPSCQueue), MatchingEngine and  *)
(* OrderBook.  The network may lose, duplicate and reorder datagrams.      *)
(***************************************************************************)
EXTENDS Naturals, Sequences

CONSTANTS Capacity, Junk, NoData, SocketBuffer, PAYLOAD,
          RADIX, MAX_TICKS, UINT32_MAX, MAX_ORDERS, QTY_MOD, Prices, Quantities,
          MAX_SAMPLES, P99_NUM, P99_DEN, Latencies, NoReport,
          Messages,    \* the messages that the sender may send
          MaxSent,     \* bound: messages sent
          MaxFaults    \* bound: datagrams lost, duplicated, overtaken, damaged

ASSUME PayloadAssumption == PAYLOAD \in Nat \ {0}

\* The sizes of the book, as in PriceBitSet and OrderBook.
ASSUME SizesAssumption ==
  /\ RADIX \in Nat \ {0, 1}
  /\ MAX_TICKS \in Nat \ {0}
  /\ MAX_TICKS <= RADIX * (RADIX * RADIX)
  /\ UINT32_MAX \in Nat /\ UINT32_MAX >= MAX_TICKS
  /\ MAX_ORDERS \in Nat \ {0}
  /\ QTY_MOD \in Nat \ {0}
  /\ Prices \subseteq 0 .. MAX_TICKS - 1
  /\ Quantities \subseteq Nat

\* The ids and the prices of messages stay within the book's arrays: no caller
\* checks them.
ASSUME MessagesAssumption ==
  \A m \in Messages :
    /\ m.type \in {"A", "X", "M"} => m.order_id \in 0 .. MAX_ORDERS - 1
    /\ m.type \in {"A", "M"} => m.price \in Prices /\ m.quantity \in Quantities

VARIABLES
  arrived, handled, signalled, running, stage,              \* the event loop
  handler, dropped_packets,                                 \* the feed handler
  contents, visible, unseen_pops, packet, open,             \* the ring
  pool, free_list, levels, order_map, price_bits, best, call, queue,   \* the book
  cycle_deltas, messages_processed, report,                 \* the latencies
  worker,                                                   \* the engine's thread
  main,      \* how far main() is
  sent,      \* history: the messages sent, in order
  network,   \* the datagrams on their way
  faults     \* history: how many the network has harmed

loop == <<arrived, handled, signalled, running, stage>>
ring == <<contents, visible, unseen_pops, packet, open>>
book == <<pool, free_list, levels, order_map, price_bits, best, call, queue>>
latency == <<cycle_deltas, messages_processed, report>>
engine == <<book, latency, worker>>
feed == <<handler, dropped_packets>>
outside == <<sent, network, faults>>
vars == <<loop, feed, ring, engine, main, outside>>

\* What recvfrom can return: a message, a datagram of another size, or an error.
Intact(m) == [error |-> FALSE, size |-> PAYLOAD, message |-> m]
Longer(m) == [error |-> FALSE, size |-> PAYLOAD + 1, message |-> m]
Shorter(m) == [error |-> FALSE, size |-> PAYLOAD - 1, message |-> m]
Failed(m) == [error |-> TRUE, size |-> 0, message |-> m]
Datagrams == UNION {{Intact(m), Longer(m), Shorter(m), Failed(m)} : m \in Messages}

Loop == INSTANCE NetworkLoop
Feed == INSTANCE FeedHandler WITH Values <- Messages
Ring == INSTANCE SharedRing WITH Values <- Messages
Engine == INSTANCE MatchingEngine WITH Values <- Messages, Redelivery <- TRUE

Init == /\ Loop!Init /\ Feed!Init /\ Ring!Init /\ Engine!Init
        /\ main = "start"
        /\ sent = <<>> /\ network = <<>> /\ faults = 0

\* The ways in which the process is over.
Over == {"exited", "terminated", "killed"}
-------------------------------------------------------------------------------
\* The sender and the network.

\* The sender gives each order an id of its own.
Send(m) ==
  /\ Len(sent) < MaxSent
  /\ m.type = "A" => \A i \in 1 .. Len(sent) : sent[i].type = "A" => sent[i].order_id # m.order_id
  /\ sent' = Append(sent, m)
  /\ network' = Append(network, Intact(m))
  /\ UNCHANGED <<loop, feed, ring, engine, main, faults>>

Without(s, i) == SubSeq(s, 1, i - 1) \o SubSeq(s, i + 1, Len(s))

\* The datagram at i reaches the socket before the ones that were sent earlier.
Deliver(i) ==
  /\ main \notin Over \cup {"start"}
  /\ i = 1 \/ faults < MaxFaults
  /\ Loop!Arrive(network[i])
  /\ network' = Without(network, i)
  /\ faults' = IF i = 1 THEN faults ELSE faults + 1
  /\ UNCHANGED <<feed, ring, engine, main, sent>>

\* Lost on the way, or dropped because the socket's buffer is full or not there.
Lose(i) ==
  /\ faults < MaxFaults
  /\ network' = Without(network, i)
  /\ faults' = faults + 1
  /\ UNCHANGED <<loop, feed, ring, engine, main, sent>>

Duplicate(i) ==
  /\ faults < MaxFaults
  /\ network' = Append(network, network[i])
  /\ faults' = faults + 1
  /\ UNCHANGED <<loop, feed, ring, engine, main, sent>>

\* The datagram comes with another size, or the receive fails.
Damage(i) ==
  /\ faults < MaxFaults
  /\ \E d \in {Longer(network[i].message), Shorter(network[i].message),
               Failed(network[i].message)} : network' = [network EXCEPT ![i] = d]
  /\ faults' = faults + 1
  /\ UNCHANGED <<loop, feed, ring, engine, main, sent>>

Signal ==
  /\ main \notin Over \cup {"start"}
  /\ Loop!Raise
  /\ UNCHANGED <<feed, ring, engine, main, outside>>

\* Outside the loop the signals may have their default action.
Kill ==
  /\ main \notin Over
  /\ Loop!Kill
  /\ main' = "killed"
  /\ UNCHANGED <<feed, ring, engine, outside>>
-------------------------------------------------------------------------------
\* main()

\* A constructor or the creation of the thread throws: the catch block prints it.
ConstructFails ==
  /\ main = "start"
  /\ main' = "exited"
  /\ open' = FALSE
  /\ UNCHANGED <<loop, feed, contents, visible, unseen_pops, packet, engine, outside>>

CreateThread ==
  /\ main = "start"
  /\ Engine!Start
  /\ main' = "setup"
  /\ UNCHANGED <<arrived, handled, signalled, stage, feed, outside>>

\* The socket cannot be opened or bound, or a signal not registered: the stack is
\* unwound, and ~thread of the joinable worker calls std::terminate.
SetupFails ==
  /\ main = "setup"
  /\ main' = "terminated"
  /\ UNCHANGED <<loop, feed, ring, engine, outside>>

EnterLoop ==
  /\ main = "setup"
  /\ Loop!Start
  /\ main' = "loop"
  /\ UNCHANGED <<feed, ring, engine, outside>>

\* One handler at a time: the loop goes on when the feed handler has returned.
Receive ==
  /\ main = "loop"
  /\ Loop!Handle
  /\ Feed!Call
  /\ UNCHANGED <<engine, main, outside>>

HandlerStep ==
  /\ main = "loop"
  /\ \/ Feed!Ignore(handled)
     \/ Feed!Push(handled)
     \/ \E n \in 0 .. unseen_pops : Feed!LookAgain(handled, n)
  /\ UNCHANGED <<loop, engine, main, outside>>

SignalHandler_KeepsRunning ==
  /\ main = "loop" /\ handler = "idle"
  /\ stage = "looping" /\ running /\ signalled
  /\ stage' = "returned" /\ main' = "join"
  /\ UNCHANGED <<arrived, handled, signalled, running, feed, ring, engine, outside>>
SignalHandler ==
  /\ main = "loop" /\ handler = "idle"
  /\ Loop!HandleSignal
  /\ UNCHANGED <<feed, ring, engine, main, outside>>

LeaveLoop ==
  /\ main = "loop" /\ handler = "idle"
  /\ Loop!Return
  /\ main' = "join"
  /\ UNCHANGED <<feed, ring, engine, outside>>

Join_Detached ==
  /\ main = "join"
  /\ main' = "close"
  /\ UNCHANGED <<loop, feed, ring, engine, outside>>
Join ==
  /\ main = "join" /\ worker = "ended"
  /\ main' = "close"
  /\ UNCHANGED <<loop, feed, ring, engine, outside>>

\* The destructors of signals, feed_handler and io_context, then of the book, then
\* of the queue with what is left in it.
CloseLoop ==
  /\ main = "close"
  /\ Loop!Close
  /\ main' = "book"
  /\ UNCHANGED <<feed, ring, engine, outside>>

DestroyBook ==
  /\ main = "book"
  /\ main' = "queue"
  /\ UNCHANGED <<loop, feed, ring, engine, outside>>

DestroyQueue ==
  /\ main = "queue"
  /\ Ring!Close \/ Ring!Discard
  /\ UNCHANGED <<loop, feed, engine, main, outside>>

Exit ==
  /\ main = "queue" /\ ~open /\ contents = <<>>
  /\ main' = "exited"
  /\ UNCHANGED <<loop, feed, ring, engine, outside>>
-------------------------------------------------------------------------------
\* The engine's thread.
WorkerStep ==
  /\ main \notin Over
  /\ Engine!Step
  /\ UNCHANGED <<arrived, handled, signalled, stage, feed, main, outside>>

MainStep == \/ CreateThread \/ ConstructFails \/ SetupFails \/ EnterLoop
            \/ Receive \/ HandlerStep \/ SignalHandler \/ LeaveLoop
            \/ Join \/ CloseLoop \/ DestroyBook \/ DestroyQueue \/ Exit

Outside == \/ \E m \in Messages : Send(m)
           \/ \E i \in 1 .. Len(network) : Deliver(i) \/ Lose(i) \/ Duplicate(i) \/ Damage(i)
           \/ Signal \/ Kill

Ended == main \in Over /\ UNCHANGED vars

Next == MainStep \/ WorkerStep \/ Outside \/ Ended

Spec == Init /\ [][Next]_vars

\* Both threads run, and what one of them stores to an atomic becomes visible to the
\* other if it keeps loading it.
FairSpec ==
  /\ Spec
  /\ WF_vars(MainStep) /\ WF_vars(WorkerStep)
  /\ SF_vars(WorkerStep /\ worker' = "report")
  /\ SF_vars(WorkerStep /\ worker = "pop" /\ visible' = Len(contents))
-------------------------------------------------------------------------------
\* The engine's thread does not touch the book or the queue once main has begun to
\* destroy them: main() joins it first (main.cpp:151), and where an exception would
\* unwind past it (main.cpp:140) the process is terminated instead.
NoUseAfterDestroy ==
  worker \notin {"none", "ended"} => open /\ main \notin {"queue", "exited"}

\* The messages that are sent and not yet processed, oldest first.
MessagesOf(datagrams) == [i \in 1 .. Len(datagrams) |-> datagrams[i].message]
Applying == IF worker \in {"dispatch", "call", "sample"} THEN <<packet>> ELSE <<>>
Handling == IF handler # "idle" THEN <<handled.message>> ELSE <<>>
InTransit == Applying \o contents \o Handling \o MessagesOf(arrived) \o MessagesOf(network)

\* While the network does no harm and dropped_packets (FeedHandler.h:50) is zero,
\* the engine processes what was sent, all of it and in the order it was sent: between
\* the socket and the book nothing is lost, repeated or reordered without a trace.
Unharmed == faults = 0 /\ dropped_packets = 0 /\ main \in {"start", "setup", "loop", "join"}
InOrder == Unharmed => InTransit = SubSeq(sent, messages_processed + 1, Len(sent))

\* Then also an order whose cancel was sent and processed is not in the book, whatever
\* it traded with and however it was modified.  (With a lost, overtaken or dropped
\* message that is not so.)
CancelSent(id) ==
  \E i \in 1 .. Len(sent) : sent[i].type = "X" /\ sent[i].order_id = id
    /\ \A j \in i .. Len(sent) : sent[j].type = "A" => sent[j].order_id # id
InBook(id) == \E side \in {"B", "S"}, p \in 0 .. MAX_TICKS - 1 :
                \E i \in 1 .. Len(queue[side][p]) : pool[queue[side][p][i]].id = id
CancelHonoured ==
  Unharmed /\ InTransit = <<>> =>
    \A id \in 0 .. MAX_ORDERS - 1 : CancelSent(id) => ~InBook(id) /\ order_map[id] = 0

\* A signal that reaches its handler ends the process: the loop returns, the engine
\* sees running cleared wherever it is, and main gets past its join.
ShutdownCompletes == signalled ~> main \in Over

\* What the ring holds is processed, unless a signal stops the engine first.
AcceptedProcessed ==
  \A n \in 0 .. MaxSent + MaxFaults :
    (messages_processed = n /\ contents # <<>>)
      ~> (messages_processed > n \/ ~running \/ main \in Over)
===============================================================================
