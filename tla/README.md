# Verification of Market-Data-Handler

TLA+ models of the program in `src/`, model-checked with TLC and, where it pays,
proved with TLAPS. Paths below are relative to the repository.

## 1. The system

A UDP feed of Add, Cancel and Modify messages drives a limit order book. Two
threads: the network thread (`main`, running Asio's loop) receives datagrams and
pushes them into a ring; the matching engine thread polls the ring and applies
each message to the book, which it alone owns. A signal clears the `running` flag
and stops the loop; `main` joins the engine and destroys everything.

| Component | Source | State | Operations | Talks to |
| --- | --- | --- | --- | --- |
| SPSC ring buffer | `include/SPSCQueue.h` | two atomic cursors, a cached copy of each for the other thread, the slots | `push`, `pop`, destructor | shared memory between the two threads |
| Price bitmap | `include/PriceBitSet.h` | three levels of 64-bit words | `set`, `clear`, `get_highest`, `get_lowest` | called by the book |
| Order book, order pool | `include/OrderBook.h` | order pool and free list, a linked list and a total per price level and side, id map, two bitmaps, two cached best prices | `add_order`, `cancel_order`, `modify_order`, `match_order` | called by the engine thread |
| Feed handler | `include/FeedHandler.h` | receive buffer, socket, drop counter | receive completion handler | socket, ring (`push`) |
| Event loop | `include/asio/detail/` (vendored) | operation queue, work count, reactor's descriptors, signal pipe and registrations | `run`, `stop`, start and completion of a receive and of a signal wait, shutdown | kernel, feed handler, `main`'s signal handler |
| Engine thread and process | `src/main.cpp` | `running` flag, sample buffer, counters | polling loop, dispatch, report, signal handler, shutdown | ring (`pop`), book, Asio |
| Wire protocol | `include/Protocol.h` | packed structs | none | feed handler, engine |
| Thread pinning | `include/ThreadUtils.h` | none | OS calls | OS |

What is hard about each, and what makes it correct:

* **Ring.** Two threads without locks on possibly stale cursors that wrap.
  Correct: no two unordered accesses of a slot; every object constructed in dead
  memory and destroyed once; the ring is a bounded FIFO; what is published is
  eventually seen.
* **Bitmap.** A summary of a summary, used at exactly the number of ticks it can
  index. Correct: upper levels summarise lower ones; the scans find the extremes.
* **Book.** Six structures that describe the same orders and are updated on eight
  paths, with slots reused at once. Correct: every slot free or at one place;
  links follow arrival; totals are sums; bitmaps, best prices and id map agree with
  the levels; no crossed book between calls; matching is by price, then time; every
  call returns; an id that comes twice costs only its own orders.
* **Event loop.** Edge-triggered events, operations that complete at once or later,
  uncounted operations in a counted queue, signals at any moment. Correct: the work
  count is what is outstanding; nothing is queued twice; the loop never sleeps over an
  edge it has consumed; each datagram reaches the handler once and in order; a signal
  ends the loop under any load; no handler runs after that.
* **Feed handler.** A ring that is full, or only looks so; datagrams of the wrong size;
  receive errors. Correct: what is accepted is pushed or counted as dropped.
* **Engine and process.** A flag seen late; messages in flight at shutdown; exceptions
  after the thread has started; destruction while it runs. Correct: nothing is used after
  it is destroyed; without faults and drops the book sees what was sent, in order; a signal ends
  the process; what the ring holds is processed; the latency report is right.

`PROJECT.json` lists these as `hazards`, each at the line where it bites.

## 2. Modules

| Module | What it is |
| --- | --- |
| `BoundedQueue` | abstract: a FIFO of at most `Capacity` values |
| `SharedRing` | abstract: the same FIFO with each end's late view of the other |
| `SPSCQueue` | `SPSCQueue.h`, step by step, with a release/acquire memory model |
| `MCSPSCQueue` | TLC model of it |
| `ArithmeticLemmas` | lemmas on `%` and `\div` with a symbolic divisor, on least and greatest numbers and on running sums |
| `SPSCQueueProofs` | theorems about `SPSCQueue` |
| `PriceBitSet` | `PriceBitSet.h` as operators on a bitmap value; `OrderBook` extends it |
| `PriceBitSetSpec`, `MCPriceBitSet` | a bitmap under any sequence of calls, and its TLC model |
| `PriceBitSetLemmas` | what each bitmap operation does, for all sizes |
| `PriceBitSetProofs` | theorems about `PriceBitSetSpec` |
| `LimitOrderBook` | abstract: continuous matching with price-time priority |
| `OrderBook` | `OrderBook.h` |
| `RepeatedIds` | the same book with a history of the ids that an Add has repeated; TLC model of it |
| `MCOrderBook` | TLC model of it |
| `OrderBookProofs` | theorems about `OrderBook` and `RepeatedIds` |
| `NetworkLoop` | abstract: what the io_context promises `main` |
| `EventLoop`, `MCEventLoop` | Asio's scheduler, epoll reactor and signal service under this program; its TLC model |
| `EventLoopProofs` | theorems about `EventLoop` |
| `LatencyReport`, `MCLatencyReport` | the engine's samples and report; their specification and TLC model |
| `LatencyReportProofs` | theorems about it |
| `FeedHandler` | the receive handler, on a `SharedRing` |
| `MatchingEngine` | the engine's thread: `SharedRing`, `OrderBook` and `LatencyReport` |
| `MarketHandler`, `MCMarketHandler` | the process with its feed: `NetworkLoop`, `FeedHandler`, `MatchingEngine` and a network with faults; its TLC model |
| `MarketHandlerProofs` | theorems about `MarketHandler` |

The composition stands on the abstract sides of two refinements:

    SPSCQueue --implements--> SharedRing  --+
    EventLoop --implements--> NetworkLoop --+--> MarketHandler
    OrderBook, LatencyReport (as they are) -+

Definitions named `X_Something` stand next to the definition `X` they vary: each is
a slip the code could plausibly contain, and replacing `X` by it makes TLC report the
property that `PROJECT.json` pairs it with. They are not used by any specification.

### SPSCQueue

Both threads take one step per access of shared memory. `Push(v)`, `PushReload(i)`,
`PushConstruct` and `PushPublish` are the four parts of `push`; `Pop`,
`PopReload(i)`, `PopTake` and `PopPublish` those of `pop`. `Join`,
`DestroyRemaining` and `Deallocate` are `main`'s join and the destructor.

Memory: an atomic cursor is its modification order, the sequence of its stores. An
acquire load reads store number `i`, any one at or after the last one its thread has
read, so a load may be arbitrarily stale but never goes backwards (coherence). A
release store carries the number of slot accesses that precede it; an acquire load
of it makes them visible (`construct_view`, `destroy_view`). A slot carries the serial
number of the construct that filled it and the destroy that emptied it. If the
acquiring thread's view does not include the other thread's last access, the two
accesses race, and a racy read may return anything. The relaxed loads of a thread's own
cursor read its own last store.

`size_type` has `CursorMod` values and the capacity divides it, as the constructor's
assertion (`SPSCQueue.h:21`) implies. `size()` also asserts
`pop_cursor <= push_cursor` (line 44), which is false between the wraps of the two
cursors; with a 64-bit `size_type` that takes 2^64 messages.

### PriceBitSet

A word is the set of its one bits. `RADIX` is the number of bits per word, so that
small instances use all three levels. Out of the code's conditions, `TicksAssumption`
keeps the number of ticks within `RADIX^3`: the code uses 262144 = 64^3, the limit.

### OrderBook

Variables are the members of `OrderBook` and `OrderPool`; `levels["B"]` is `_bids`,
`levels["S"]` is `_asks`; pointers are pool indices with `nullptr` = 0. `queue` is a
history variable: the orders at each level in order of arrival. `RepeatedIds` adds another,
`repeated`: the ids of the Adds that came while `_order_map` knew an order of the same id, as after
a duplicated datagram. It changes no step of the book.

`AddOrder`, `CancelOrder`, `ModifyReplace`, `ModifyToZero` and `ModifyInPlace` are
the calls (the three paths of `modify_order` are three actions). Calls that match go on in
`StartSweep` (one round of the outer loop of `match_order`), `TradePart` and
`TradeFill` (one of the inner loop), `EndSweep` (the end of the round), and end in
`Return` or `Rest` (the tail of `add_order`). A cancel or modify of an unknown id
returns at once and is a stuttering step. The engine thread runs one call at a time, so
nothing else happens between these steps.

Abstractions: the fields of a free slot other than its links are forgotten
(`add_order` assigns them all before anything reads them); ids are indices of `_order_map`
and prices indices of the level vectors, since the code checks neither and outside
them its behaviour is undefined. `Order::quantity` has `QTY_MOD` values; assigning to
it truncates.

`Redelivery` says whether an Add may carry the id of a resting order, as after a
duplicated datagram.

### SharedRing

`BoundedQueue` is what the callers may rely on together; `SharedRing` is what each of them sees.
`visible` counts the elements the consumer knows of, `unseen_pops` the pops the
producer does not. `push` refuses only after `SeePops`, and `pop` only after
`SeePushes`, each of which may still return an old value. `SPSCQueue` maps to it by
its `push_seen` and `pop_seen`, the stores that the reloads have read.

### EventLoop

One thread runs the io_context, so `pc` says where it is: in `main`'s set-up, in the loop
(`do_run_one`), in a handler, or in the destructors. `op_queue` holds what Asio's
intrusive queue can hold here: `"task"` (the reactor), `"socket"` and `"pipe"` (descriptors
that the reactor returned, which run `perform_io`), `"recv"` and `"signal"` (operations that
are ready to complete). The remaining variables are the members of the same name, except
`recv_pending` (the socket's read queue holds the receive), `signal_waiting` (the signal
set's queue holds the wait), `socket_buffer` and `pipe` (in the kernel) and `ready`.

* `RunTask` and `EpollWait` are the scheduler's turn of its task and `epoll_reactor::run`
  up to `task_cleanup`. `RunSocket` and `RunPipe` are `perform_io` with what it completes.
  `RunReceive` and `RunSignal` complete a posted operation; `ReceiveHandler`,
  `SignalHandler` and `Stop` are the user's handlers with `work_cleanup`, the second split
  where `main.cpp` clears `running` before it stops the context.
* `StartReceive` is `async_receive_from` down to the speculative `recvfrom` in
  `start_op`; `WorkCleanup`, `Wake` and `Requeue` are the scheduler's helpers.
* `OpenSocket`, `FirstReceive`, `AddSignal`, `AsyncWait` and `Run` are `main` up to
  `run()`; `Join` is the end of `worker_thread.join()` after it (when the
  engine ends is `MarketHandler`'s subject); `RemoveSignal`, `CloseSocket`,
  `ShutdownSignals` and `ShutdownScheduler` are the destructors.
* `Arrive`, `Raise`, `RaiseInEpoll` and `Kill` are the kernel's: a datagram, a signal, a
  signal that interrupts `epoll_wait`, and a signal with no handler installed.

It is the Linux build with one thread, the one the program has: locks are always free,
there are no timers and no forks. About the kernel it assumes that every datagram and every write to the
pipe raises an edge, and that an edge is reported once, if the descriptor is still
readable. `NetworkLoop` is what is left of it for `main`.

### FeedHandler, MatchingEngine, LatencyReport

`FeedHandler` is the completion handler: `Ignore` for an error or a short datagram, `Push`,
and `LookAgain(d, n)` when the ring seems full, which leaves `n` pops unseen and drops the
message if it still seems so. The kernel cuts a longer datagram to the buffer's size, so it is
accepted. `start_receive` at its end is in `EventLoop`.

`MatchingEngine` has a step for each access of shared state: the load of `running` (`Poll`
also when main has just cleared it, `Quit`), the pop (`LookAgain`, `PopPacket`), the
dispatch and the steps of the book, and the sample. `Apply` is the switch over the message
type. `LatencyReport` counts in `MAX_SAMPLES` and takes the factor 0.99 as
`P99_NUM / P99_DEN`: `int(n * 0.99)` in doubles equals `n * 99 \div 100` for every `n` up
to `MAX_SAMPLES` = 10^6, which was computed for all of them. `std::sort` is what it promises
(`Sorts`): the samples in an order in which none is below an earlier one.

### MarketHandler

`main` says how far `main()` is. `CreateThread`, `EnterLoop`, `LeaveLoop`, `Join`,
`CloseLoop`, `DestroyBook`, `DestroyQueue` and `Exit` are its statements and destructors
in order. `ConstructFails` is an exception before the engine's thread exists. `SetupFails`
is one after it: the socket cannot be bound, and the destructor of the joinable thread ends
the process. The sender follows `scripts/simulator.py`: no two Adds have the same
id. The network loses (`Lose`), repeats (`Duplicate`), reorders (`Deliver(i)`, `i > 1`) and
damages (`Damage`) datagrams, `MaxFaults` times in all. `MessagesAssumption` keeps the ids and
prices of messages within the book's arrays, as in `OrderBook`.

## 3. Runs

| Run | Checks | Shows |
| --- | --- | --- |
| `ring` | `TypeOK`, `NoDataRace`, `ObjectLifetimes`, `ImplementsBoundedQueue`, `ImplementsSharedRing` | all interleavings and all stale loads of a ring of 2 |
| `ring_live` | `EveryPushDelivered` | a published element is delivered unless the program stops first |
| `bitmap` | `TypeOK`, `Hierarchy`, `ExtremesExact` | every set of 8 prices with words of 2 bits |
| `book` | type, structure, `Uncrossed`, `ImplementsLimitOrderBook` | three orders, unique ids |
| `book_redelivery` | structure, `HarmConfined`, `EveryCallReturns`, `RoundsProgress` | repeated ids, an exhausted pool: orders of a repeated id can be lost to `_order_map`, no others |
| `book_zero_price` | `EveryCallReturns`, violated | a sell at price 0 hangs the engine |
| `book_wide_quantity` | `EmptySideReported`, violated | a quantity of `QTY_MOD` or more corrupts its level |
| `event_loop` | `TypeOK`, `WorkCounted`, `QueueWellFormed`, `NoLostWakeup`, `ImplementsNetworkLoop` | datagrams and signals at any moment |
| `event_loop_live` | `SignalStops`, `DatagramHandled` | a flood of datagrams neither starves the signals nor is left unread |
| `latency_report` | `QuantilesExact` | every sequence of latencies, shorter and longer than the array |
| `process` | `NoUseAfterDestroy`, `InOrder`, `CancelHonoured` | the whole process with one network fault |
| `process_live` | `ShutdownCompletes`, `AcceptedProcessed` | a signal at any moment; a ring that drains |

Bounds. *Ring*: capacity 2, cursors that wrap at 4 and 7 pushes: the ring is filled
three times over, both cursors wrap, and a cached cursor can be a full ring behind; two
values tell a repeated or reordered element from the right one. *Bitmap*: `RADIX` 2
with 8 ticks has the code's shape (every bit of every level in use). *Book*: three
orders are the fewest with a head, a middle and a tail; two prices on two bitmap
words allow sweeps of two levels with a rest; quantities 0, 1 and 2 give no-ops,
partial fills, exact fills and fills across orders. With repeated ids (two slots,
three prices) the pool runs out. *Event loop*: nothing is counted, so datagrams and signals
arrive for ever; a socket buffer of three holds one datagram that is read, one that
arrives during the handler and one behind it, two signals fill a pipe of two, and two
datagrams tell a repeated or reordered one from the right one (90 thousand states;
symmetric in datagrams and signals, without symmetry in the live run, whose buffer holds two).
*Latency*: six messages, five samples and the fraction 3/4 in place of 0.99, so that the
three indices differ within reach. *Process*: three messages out of five (two orders that
meet, a cancel, a modify, an unknown type), a ring of one, so that it is full after the
first push and a stale cursor makes it look full, a socket buffer of one, one fault
of any kind at any place (1.8 million states). The live run sends two messages without faults.

Fairness. `ring_live`: the engine polls for ever (`WF` on the consumer), and a store
becomes visible to a thread that keeps loading the cursor (`SF` on the reload that reads
the last store), which C++ asks of implementations ([intro.progress]). No fairness
for the producer. `event_loop_live`: `WF` on main's thread up to the return of `run()`
and in its destructors, where it stops only where epoll blocks; none for datagrams and signals, and none
for the join between the two, which waits for the engine. That the engine ends, and `main` with it, is
`ShutdownCompletes` of `process_live`. `process_live`: `WF` on each thread, and `SF` on
the engine's load that sees `running` cleared and on its reload that sees the last push,
for the same reason as in the ring. None for the sender, the network and the signals. `book_redelivery`, `book_zero_price`: `WF` on the steps of a call in
progress, because nothing in `match_order` blocks.

Findings. `book_zero_price` and `book_wide_quantity` are violations of what the repository says of itself:

* `OrderBook.h:192` compares a sell's price with `_best_bid`, which is 0 when there are
  no bids. A sell at 0 with quantity left therefore "matches" the empty level 0 and
  the loop never ends. All passing runs take prices from 1 up.
* `OrderBook.h:104` truncates a quantity to 31 bits and line 115 adds all of it to the
  level. After the order has gone the level still has quantity, its bit stays set and its
  price stays the best. All passing runs take quantities below `QTY_MOD`.

## 4. Proofs

`tlapm` checks every theorem below for all values of the constants that satisfy the
modules' assumptions.

**Ring** (`SPSCQueueProofs`). `TypeCorrect`, `RaceFree`, `LifetimesSound`,
`Refinement`, `SharedRefinement`. `TypeOK` contains what `full()` and `empty()` rely on: the
difference of a thread's own cursor and its copy of the other, modulo `CursorMod`, is a number of
elements, between 0 and `Capacity`. None of them is inductive, because each speaks of the slot under a
cursor and none of how far apart the cursors, and the stale copies of them, may be.
`IndInv` adds that: store `i` of a cursor holds `i - 1` modulo `CursorMod` and
releases exactly `i - 1` accesses; a cached cursor is the value of a store that its
thread has read; measured with the cached copies the counters are within `Capacity`
(`Window`); every slot carries the serial numbers of the last accesses that fall on
it (`Serials`). From `Window`, two serial numbers on one slot are `Capacity` apart,
so the other thread's last access of a slot is one the thread has acquired. The
refinement maps the abstract contents to the values between the cursors; only the two
publishing steps, `Join` and the destructor's loop change them. `SharedRefinement` also
needs `Reloading`: a thread that reloads has, by its own copy, no room or nothing to take. The modular arithmetic is in
`ArithmeticLemmas`.

**Bitmap** (`PriceBitSetLemmas`, `PriceBitSetProofs`). `BitmapTypeCorrect`,
`HierarchyKept`, `ExtremesCorrect`. `SetCorrect` and `ClearCorrect` say that each
operation keeps the hierarchy and changes the set of prices by its argument,
`ScanCorrect` that on a hierarchy the scans are exact: the highest bit of a level
leads to a word that is not zero, and every other price is in a lower word or a
lower bit. Existence of the highest and lowest bit of a word comes from the well-ordering
of the naturals.

**Order book** (`OrderBookProofs`). Every safety invariant of the
`book` run, for every pool size, price range and word size: `BookTypeCorrect`,
`PoolNeverLeaks`, `LinksCorrect`, `TotalsCorrect`, `BestCorrect`, `MapCorrect`,
`BookUncrossed`. They assume `QuantitiesFit`, that a message's quantity fits
`Order::quantity`; the run `book_wide_quantity` shows what happens without it. The
invariants hold one another up, so `IndInv` is their conjunction, strengthened where
they are not inductive: a free slot has no links (`add_order` reads its `next`); the
total of a level is a strictly growing running sum, hence zero exactly when the level
is empty, which is what the code tests; during a sweep the bitmap may still name
the level that is being emptied, and `call.resting` is that level's head; the book is
uncrossed in the middle of a call too; without redelivery the id of the incoming order
is not in `order_map`. `DetachStructure` is the heart of the argument: unlinking one
order, wherever it is in its list, keeps links, sums and the partition of the pool; cancel, replace,
modify to zero and fill all use it. `RestStructure` does the same for an order that joins,
`ReduceCorrect` for one that loses quantity. The bitmap's lemmas are reused as they are.
`SumUnique` connects the running sum with the function that `TotalsExact` computes,
by a least counterexample.

`BookRefinement`: without repeated ids the book implements `LimitOrderBook`. `TradePart` and
`TradeFill` map to `Trade`, `Return` and `Rest` to `Settle`, the calls to the abstract calls,
and the steps that open and close the sweep of a level to stuttering. Two facts beyond
`IndInv` are needed. `SweepMatches`: a level is swept only while the incoming order
reaches it, so that the cached best price is the abstract `Best` up to the last trade.
`AlwaysRoom`: a resting order has an id of its own, other than the incoming one, so by counting
not every slot is taken and `add_order` never drops the rest of an order; `PoolSuffices` states
it as a theorem. With repeated ids the second fails (`book_redelivery` runs out of slots), hence
the hypothesis `~Redelivery`.

`MatchingEnds` is what can be proved of `EveryCallReturns`: `RoundsProgress` says that each step of
a call lowers `Measure`, a natural number made of the orders in the pool, of whether the incoming order has
quantity left, and of where the loops are. The point is `SweptLevelOccupied`: the level
that a round starts with holds an order. That fails for a sell at price 0 (`book_zero_price`), so the
theorem assumes that no message carries that price; `Priced` carries the assumption to the call.

`RepeatsConfined` says how far a repeated id reaches: `_order_map` finds every resting order whose id
was never repeated (`HarmConfined`). Alone that is not inductive, since an order that rests takes over
the entry of its id. `IncomingAlone` closes the gap: an incoming order whose id was never repeated has no
namesake in the book. The two need each other: an Add of an id that `_order_map` does not know has
no namesake because of `HarmConfined`. `ConfinedDetach` covers the paths on which an order leaves:
they clear the entry of its id, and two orders of one id that was never repeated would both be what
`_order_map` holds for it.

**Event loop** (`EventLoopProofs`). `LoopTypeCorrect`, `WorkCountCorrect`, `QueueCorrect`,
`WakeupsKept` and `LoopRefinement`, for any sizes of the socket's buffer and the pipe and
any set of signals. `IndInv` follows each thing through the places it can be in.
`QueueInv`: no operation is queued twice, and the task is behind the descriptors it
returned, so that they are gone when it runs again. `Edges`: what is readable and wanted has
its edge in the kernel or its descriptor in the queue; this is `NoLostWakeup` without the
condition that the thread sleeps. `Phase`: which flags each part of the loop implies.
`Tracked`: the receive and the wait are in one place each, and the count is their number;
it also makes the subtraction in `work_cleanup` stay in the naturals. In the refinement,
handing a datagram over is the step `ReceiveHandler`, a datagram in `_recv_buffer`
is the head of `arrived`, and a signal is seen from the pipe on.

**Latency report** (`LatencyReportProofs`). `ReportQuantiles`, for any room, any latencies and
any number of messages. That a sorted order exists, without which `Sorted` would say nothing, is
shown by inserting the samples one by one (`Insertion`, `SortExists`). What is at index `m` of it
has at most `m` samples below it and at least `m + 1` not above it (`RankOfPlace`, by two
injections), and the quotients cut the count at their fractions (`CutAt`). `ReportAssumption` asks
that the fraction be below one and at least a half, as 0.99 is.

**Process** (`MarketHandlerProofs`). `ProcessLifetimes`: `Lifetimes` relates the progress of
`main` to that of the engine, on all exits. `FeedInOrder`: `Conserved` says that
what is in transit, read from the engine back to the network, is the part of `sent` that
has not been processed. Each step moves a message from the head of one stage to the tail
of the next, so only sending and processing change it. It needs `AllIntact`: without a
fault no datagram is one that the handler ignores. Both hold for every
capacity, buffer, book and set of messages, since the book's steps do not touch what they speak of.

`CancelsHonoured` goes through the composition. `BookInv` says, as long as no harm is done: the
book satisfies the invariant of `OrderBookProofs` for a feed without repeated ids, and an id that
the book knows, or that a call in progress may make known, was added by a message the engine has begun and
not cancelled by a later one (`LiveOrders`). The two need each other. The sender adds an id once
(`OneAdd`) and the engine applies the next message sent (`NextMessage`, from `Conserved`), so
`LiveOrders` excludes an Add of a known id; then every step of the engine's book, which must allow
redelivery, is one of the book without it (`Book` is `OrderBookProofs` with `Redelivery` false,
`SameCalls` and `SameMatch` compare the two), and its invariant is kept. It assumes
`QuantitiesFit`. `BookInv` was checked by TLC on the `process` model before it was proved.

`PartsUsedAsSpecified`: every step of the process, with faults or without, is a step of
`NetworkLoop`, of `SharedRing` and of `OrderBook` or leaves them alone. So the safety theorems about
these parts, which hold for any use that their specifications allow, hold in the process, and
nothing is asked of the ring and the loop that the code is not shown to implement.

Only model-checked: everything with fairness (`EveryPushDelivered`, `EveryCallReturns`,
`SignalStops`, `DatagramHandled`, `ShutdownCompletes`, `AcceptedProcessed`), which is
beyond the prover; of `EveryCallReturns` the measure is proved. Every safety property of a
passing run is proved.

## 5. Not modelled

* **Ids and prices outside the arrays.** `OrderBook.h` checks neither, and past the vectors
  the behaviour is undefined: there is no state to describe. It is listed as a hazard.
* **Time.** The estimate of the cycle length and the output derived from it change no state.
  Time stamps of different cores that disagree give a sample of any size;
  `LatencyReport` takes the differences as given.
* **Thread pinning, message layout.** Calls of the operating system without state in the
  program; packed structs that both ends share.
* **Tests, benchmarks.** Drivers. They were read for what they expect.
* **Ring.** The allocation in the constructor and the guard for capacity 0, which `main`
  never uses.
* **The rest of Asio.** 169 thousand of the repository's 170 thousand lines are a
  vendored copy of Asio, nearly all of which this program never reaches: streams,
  acceptors, resolvers, timers, strands, thread pools, coroutines, SSL, buffers of other shapes, serial
  ports, files, the Windows, kqueue, select and io_uring back ends, and the templates that adapt
  handlers and executors. What `main` does reach at run time, scheduler, epoll
  reactor, signal service and UDP receive, is in `EventLoop`, without what only a second thread,
  a timer or a fork would use. So the share of all lines that is modelled is small; of
  the program's own logic little is left.

## 6. Plan

1. The latency report through the composition: `QuantilesExact` in `MarketHandler`, where the
   engine's thread, not `ended`, keeps samples and report apart.
2. The engine's book in `MarketHandler` replaced by `LimitOrderBook`, for runs with more messages
   and faults.
