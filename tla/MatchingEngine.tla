----------------------------- MODULE MatchingEngine -----------------------------
(***************************************************************************)
(* run_matching_engine (src/main.cpp): the worker thread polls the ring    *)
(* while running is set, applies each message to the order book, samples   *)
(* its latency, and reports when it stops.  It may still see running set   *)
(* after main has cleared it, and it sees the pushes late (SharedRing).    *)
(* The count of idle polls only decides whether the thread pauses.         *)
(***************************************************************************)
EXTENDS Naturals, Sequences

CONSTANTS Capacity, Values, Junk,
          RADIX, MAX_TICKS, UINT32_MAX, MAX_ORDERS, QTY_MOD, Prices, Quantities, Redelivery,
          MAX_SAMPLES, P99_NUM, P99_DEN, Latencies, NoReport

VARIABLES contents, visible, unseen_pops, packet, open,   \* the ring
          pool, free_list, levels, order_map, price_bits, best, call, queue,   \* the book
          cycle_deltas, messages_processed, report,   \* the latencies
          running,     \* main's flag
          worker       \* where the thread is

Ring == INSTANCE SharedRing
Book == INSTANCE OrderBook
Latency == INSTANCE LatencyReport

ring == <<contents, visible, unseen_pops, packet, open>>
book == <<pool, free_list, levels, order_map, price_bits, best, call, queue>>
latency == <<cycle_deltas, messages_processed, report>>

Init == Book!Init /\ Latency!Init /\ worker = "none"

\* std::thread
Start ==
  /\ worker = "none"
  /\ worker' = "check"
  /\ UNCHANGED <<ring, book, latency, running>>

\* running.load() returns true, although it may be false by now.
Poll ==
  /\ worker = "check"
  /\ worker' = "pop"
  /\ UNCHANGED <<ring, book, latency, running>>

Quit ==
  /\ worker = "check" /\ ~running
  /\ worker' = "report"
  /\ UNCHANGED <<ring, book, latency, running>>

\* queue.pop() finds nothing in its copy of the producer's cursor and loads it.
LookAgain_NotKept(n) ==
  /\ worker = "pop" /\ n = 0
  /\ Ring!SeePushes(0)
  /\ worker' = "check"
  /\ UNCHANGED <<book, latency, running>>
LookAgain(n) ==
  /\ worker = "pop"
  /\ Ring!SeePushes(n)
  /\ worker' = IF n = 0 THEN "check" ELSE "pop"
  /\ UNCHANGED <<book, latency, running>>

PopPacket ==
  /\ worker = "pop"
  /\ Ring!Pop
  /\ worker' = "dispatch"
  /\ UNCHANGED <<book, latency, running>>

\* The side of an Add: everything but 'B' is a sell.
SideOf(is_buy) == IF is_buy = "B" THEN "B" ELSE "S"

\* The switch on message_type.  A message about an id that the book does not know,
\* and a type that the switch does not know, change nothing.
Apply(p) ==
  \/ /\ p.type = "A"
     /\ Book!AddOrder(p.order_id, p.price, p.quantity, SideOf(p.is_buy))
  \/ /\ p.type = "X"
     /\ Book!CancelOrder(p.order_id)
  \/ /\ p.type = "M"
     /\ \/ Book!ModifyReplace(p.order_id, p.price, p.quantity)
        \/ Book!ModifyToZero(p.order_id, p.price, p.quantity)
        \/ Book!ModifyInPlace(p.order_id, p.price, p.quantity)
  \/ /\ \/ p.type \notin {"A", "X", "M"}
        \/ p.type \in {"X", "M"} /\ order_map[p.order_id] = Book!nullptr
     /\ UNCHANGED book

\* The worker is at "call" until the book has returned.
AfterBook == IF call'.pc = "idle" THEN "sample" ELSE "call"

Dispatch ==
  /\ worker = "dispatch"
  /\ Apply(packet)
  /\ worker' = AfterBook
  /\ UNCHANGED <<ring, latency, running>>

Match ==
  /\ worker = "call"
  /\ Book!Match
  /\ worker' = AfterBook
  /\ UNCHANGED <<ring, latency, running>>

Sample(delta) ==
  /\ worker = "sample"
  /\ Latency!Record(delta)
  /\ worker' = "check"
  /\ UNCHANGED <<ring, book, running>>

Report ==
  /\ worker = "report"
  /\ Latency!Report
  /\ worker' = "ended"
  /\ UNCHANGED <<ring, book, running>>

Step == \/ Poll \/ Quit \/ PopPacket \/ Dispatch \/ Match \/ Report
        \/ \E n \in 0 .. Len(contents) : LookAgain(n)
        \/ \E delta \in Latencies : Sample(delta)
=================================================================================
