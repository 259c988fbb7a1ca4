------------------------------- MODULE EventLoop -------------------------------
(***************************************************************************)
(* asio's io_context (include/asio/detail) as src/main.cpp uses it on      *)
(* Linux: the scheduler, the epoll reactor and the signal service, with    *)
(* the feed handler's socket and one signal set, run by main's thread.     *)
(*                                                                         *)
(* The scheduler keeps one queue of operations: "recv" and "signal" are    *)
(* the user's, "socket" and "pipe" the descriptors on which the reactor    *)
(* saw an event, and "task" is the reactor itself, which waits in epoll    *)
(* when its turn comes.  Datagrams and signals come at any time.           *)
(*                                                                         *)
(* The kernel: ready are the descriptors with an edge since epoll last     *)
(* reported them (all registrations are edge-triggered); epoll reports     *)
(* those that are still readable, in some order.                           *)
(***************************************************************************)
EXTENDS Integers, Sequences, FiniteSets

CONSTANTS Datagrams,      \* what recvfrom returns: a datagram or an error
          NoData,         \* what _recv_buffer holds before the first one
          SocketBuffer,   \* datagrams the kernel holds for the socket
          Signals,        \* SIGINT, SIGTERM
          PipeSize        \* signal numbers the signal pipe holds

ASSUME LoopAssumption ==
  /\ SocketBuffer \in Nat \ {0} /\ PipeSize \in Nat \ {0}
  /\ NoData \notin Datagrams

VARIABLES
  pc,                \* where main's thread is
  op_queue,          \* scheduler::op_queue_
  outstanding_work,  \* scheduler::outstanding_work_
  stopped,           \* scheduler::stopped_
  task_interrupted,  \* scheduler::task_interrupted_
  ready,             \* kernel: the descriptors on epoll's ready list
  socket_buffer,     \* kernel: datagrams nobody has received yet
  recv_pending,      \* the receive waits in the socket's op_queue_[read_op]
  recv_buffer,       \* FeedHandler::_recv_buffer
  pipe,              \* the signal pipe
  installed,         \* the signals for which asio_signal_handler is installed
  signal_waiting,    \* the wait is in the signal set's queue_
  undelivered,       \* registration::undelivered_ of each signal
  running,           \* main.cpp's flag
  handled            \* history: the datagram the receive handler saw last

scheduler == <<op_queue, outstanding_work, stopped, task_interrupted>>
receive == <<socket_buffer, recv_pending, recv_buffer>>
signal == <<pipe, installed, signal_waiting, undelivered>>
vars == <<pc, scheduler, ready, receive, signal, running, handled>>

Setup == {"open", "receive", "signals", "wait", "start"}
Looping == {"run", "poll", "block", "handler", "signal_handler", "stop"}
Teardown == {"returned", "joined", "close", "shutdown_signals", "shutdown_scheduler", "destroyed"}

Operations == {"task", "socket", "pipe", "recv", "signal"}
Descriptors == {"socket", "pipe"}
Elements(q) == {q[i] : i \in 1 .. Len(q)}
NoRepeats(q) == \A i, j \in 1 .. Len(q) : q[i] = q[j] => i = j

Init ==
  /\ pc = "open"
  /\ op_queue = <<>> /\ outstanding_work = 0 /\ stopped = FALSE /\ task_interrupted = TRUE
  /\ ready = {"interrupter"}
  /\ socket_buffer = <<>> /\ recv_pending = FALSE /\ recv_buffer = NoData
  /\ pipe = <<>> /\ installed = {} /\ signal_waiting = FALSE
  /\ undelivered = [s \in Signals |-> 0]
  /\ running = TRUE /\ handled = NoData
-------------------------------------------------------------------------------
\* What comes from outside.  A definition named X_... is a slip that the definition
\* X after it could contain: the properties must tell them apart.

\* What epoll reports: the descriptors on its list that are still readable.  The
\* interrupter always is, because nobody resets it.
Readable(d) == \/ d = "interrupter"
               \/ d = "socket" /\ socket_buffer # <<>>
               \/ d = "pipe" /\ pipe # <<>>
Events == {d \in ready : Readable(d)}

\* A datagram arrives on the bound socket; the kernel drops what it has no room for.
Arrive(d) ==
  /\ pc \notin {"open", "shutdown_signals", "shutdown_scheduler", "destroyed", "killed"}
  /\ Len(socket_buffer) < SocketBuffer
  /\ socket_buffer' = Append(socket_buffer, d)
  /\ ready' = ready \cup {"socket"}
  /\ UNCHANGED <<pc, scheduler, recv_pending, recv_buffer, signal, running, handled>>

\* The pipe after asio_signal_handler has tried to write s to it.
WriteSignal(s) ==
  /\ pipe' = IF Len(pipe) < PipeSize THEN Append(pipe, s) ELSE pipe
  /\ ready' = IF Len(pipe) < PipeSize THEN ready \cup {"pipe"} ELSE ready
  /\ UNCHANGED <<installed, signal_waiting, undelivered>>

\* asio_signal_handler, on a thread that is not waiting in epoll.
Raise(s) ==
  /\ s \in installed /\ pc # "killed"
  /\ WriteSignal(s)
  /\ UNCHANGED <<pc, scheduler, receive, running, handled>>

\* A signal taken by the thread that sleeps in epoll: epoll_wait fails with EINTR,
\* epoll_reactor::run sees no events, and the task is queued again.
RaiseInEpoll(s) ==
  /\ s \in installed /\ pc = "block" /\ Events = {}
  /\ WriteSignal(s)
  /\ task_interrupted' = TRUE
  /\ op_queue' = Append(op_queue, "task")
  /\ pc' = "run"
  /\ UNCHANGED <<outstanding_work, stopped, receive, running, handled>>

\* Without a handler a signal ends the process.
Kill ==
  /\ installed # Signals /\ pc \notin {"destroyed", "killed"}
  /\ pc' = "killed"
  /\ UNCHANGED <<scheduler, ready, receive, signal, running, handled>>
-------------------------------------------------------------------------------
\* The pieces of the scheduler and the reactor.

\* wake_one_thread_and_unlock and stop_all_threads: if wake and the task may be
\* blocked, it is interrupted.
Wake(wake) ==
  /\ task_interrupted' = (task_interrupted \/ wake)
  /\ ready' = IF wake /\ ~task_interrupted THEN ready \cup {"interrupter"} ELSE ready

\* work_cleanup: an operation has completed, and private_work was added meanwhile.
WorkCleanup_Uncompensated(work, private_work) ==
  /\ outstanding_work' = work - 1
  /\ stopped' = (stopped \/ work - 1 = 0)
WorkCleanup_Twice(work, private_work) ==
  /\ outstanding_work' = work + private_work - 2
  /\ stopped' = (stopped \/ (private_work = 0 /\ work - 2 = 0))
WorkCleanup(work, private_work) ==
  /\ outstanding_work' = work + private_work - 1
  /\ stopped' = (stopped \/ (private_work = 0 /\ work - 1 = 0))

\* non_blocking_recvfrom1 takes the oldest datagram.
ReceiveOne == /\ recv_buffer' = Head(socket_buffer)
              /\ socket_buffer' = Tail(socket_buffer)

\* async_receive_from: the reactor tries recvfrom at once.  If that succeeds the
\* operation is posted, else it waits for an event.
StartReceive_NotSpeculative ==
  /\ recv_pending' = TRUE
  /\ UNCHANGED <<op_queue, socket_buffer, recv_buffer>>
  /\ Wake(FALSE)
StartReceive ==
  IF socket_buffer = <<>>
  THEN /\ recv_pending' = TRUE
       /\ UNCHANGED <<op_queue, socket_buffer, recv_buffer>>
       /\ Wake(FALSE)
  ELSE /\ ReceiveOne
       /\ op_queue' = Append(op_queue, "recv")
       /\ UNCHANGED recv_pending
       /\ Wake(TRUE)
-------------------------------------------------------------------------------
\* main() until io_context.run().

\* The socket is opened, registered and bound; its service queues the task.
OpenSocket ==
  /\ pc = "open"
  /\ pc' = "receive"
  /\ op_queue' = <<"task">>
  /\ UNCHANGED <<outstanding_work, stopped, task_interrupted, ready, receive, signal,
                 running, handled>>

FirstReceive ==
  /\ pc = "receive"
  /\ pc' = "signals"
  /\ StartReceive
  /\ outstanding_work' = outstanding_work + 1
  /\ UNCHANGED <<stopped, signal, running, handled>>

\* The signal service opens its pipe and registers it, and the set installs the
\* handler for one signal after the other.
AddSignal(s) ==
  /\ pc = "signals" /\ s \notin installed
  /\ installed' = installed \cup {s}
  /\ pc' = IF installed' = Signals THEN "wait" ELSE pc
  /\ UNCHANGED <<scheduler, ready, receive, pipe, signal_waiting, undelivered, running, handled>>

\* async_wait: a signal that was delivered before is taken at once.  (None was: the
\* pipe is read in the loop.)
AsyncWait ==
  LET pending == {s \in Signals : undelivered[s] > 0}
  IN /\ pc = "wait"
     /\ pc' = "start"
     /\ outstanding_work' = outstanding_work + 1
     /\ signal_waiting' = (pending = {})
     /\ op_queue' = IF pending = {} THEN op_queue ELSE Append(op_queue, "signal")
     /\ undelivered' = IF pending = {} THEN undelivered
                       ELSE [undelivered EXCEPT ![CHOOSE s \in pending : TRUE] = @ - 1]
     /\ Wake(pending # {})
     /\ UNCHANGED <<stopped, receive, pipe, installed, running, handled>>

Run ==
  /\ pc = "start"
  /\ stopped' = (stopped \/ outstanding_work = 0)
  /\ pc' = IF outstanding_work = 0 THEN "returned" ELSE "run"
  /\ UNCHANGED <<op_queue, outstanding_work, task_interrupted, ready, receive, signal,
                 running, handled>>
-------------------------------------------------------------------------------
\* do_run_one: the head of the queue is taken until the scheduler is stopped.

Leave ==
  /\ pc = "run" /\ stopped
  /\ pc' = "returned"
  /\ UNCHANGED <<scheduler, ready, receive, signal, running, handled>>

\* o is at the head of the queue; another thread would be woken for what is behind it.
Dequeue(o) ==
  /\ pc = "run" /\ ~stopped /\ op_queue # <<>> /\ Head(op_queue) = o
  /\ Wake(Len(op_queue) > 1)

\* The task: the reactor blocks only if nothing else is queued.
RunTask ==
  /\ pc = "run" /\ ~stopped /\ op_queue # <<>> /\ Head(op_queue) = "task"
  /\ op_queue' = Tail(op_queue)
  /\ task_interrupted' = (op_queue' # <<>>)
  /\ pc' = IF op_queue' # <<>> THEN "poll" ELSE "block"
  /\ UNCHANGED <<outstanding_work, stopped, ready, receive, signal, running, handled>>

\* task_cleanup: the descriptors that the reactor returned are queued, and the task
\* behind them.
Requeue_TaskFirst(descriptors) == <<"task">> \o op_queue \o descriptors
Requeue(descriptors) == op_queue \o descriptors \o <<"task">>

\* The sequences of the elements of a set of descriptors.
Listings(set) == {q \in UNION {[1 .. n -> set] : n \in 0 .. 2} : NoRepeats(q) /\ Elements(q) = set}

\* epoll_reactor::run: epoll_wait returns with its events, or at once when polling.
EpollWait ==
  /\ pc \in {"poll", "block"}
  /\ pc = "poll" \/ Events # {}
  /\ ready' = {}
  /\ \E descriptors \in Listings(Events \cap Descriptors) : op_queue' = Requeue(descriptors)
  /\ task_interrupted' = TRUE
  /\ pc' = "run"
  /\ UNCHANGED <<outstanding_work, stopped, receive, signal, running, handled>>

\* A receive that succeeded at once is completed.
RunReceive ==
  /\ Dequeue("recv")
  /\ op_queue' = Tail(op_queue)
  /\ pc' = "handler"
  /\ UNCHANGED <<outstanding_work, stopped, receive, signal, running, handled>>

\* descriptor_state::perform_io on the socket: a waiting receive is tried again and
\* completed here.  Otherwise the work count is compensated, because a descriptor
\* is no work.
RunSocket ==
  /\ Dequeue("socket")
  /\ op_queue' = Tail(op_queue)
  /\ IF recv_pending /\ socket_buffer # <<>>
     THEN /\ recv_pending' = FALSE
          /\ ReceiveOne
          /\ pc' = "handler"
          /\ UNCHANGED <<outstanding_work, stopped>>
     ELSE /\ WorkCleanup(outstanding_work, 1)
          /\ UNCHANGED <<receive, pc>>
  /\ UNCHANGED <<signal, running, handled>>

\* How often s is in the sequence q.
Occurrences(q, s) == Cardinality({i \in 1 .. Len(q) : q[i] = s})

\* deliver_signal for every signal in the pipe: the first one takes the wait, if it
\* is there, and the others are kept as undelivered.
DeliverSignals_NotPosted ==
  /\ signal_waiting' = FALSE
  /\ op_queue' = Tail(op_queue)
  /\ undelivered' = [s \in Signals |-> undelivered[s] + Occurrences(pipe, s)]
DeliverSignals ==
  LET deliver == signal_waiting /\ pipe # <<>>
      kept == IF deliver THEN Tail(pipe) ELSE pipe
  IN /\ signal_waiting' = (signal_waiting /\ pipe = <<>>)
     /\ op_queue' = IF deliver THEN Append(Tail(op_queue), "signal") ELSE Tail(op_queue)
     /\ undelivered' = [s \in Signals |-> undelivered[s] + Occurrences(kept, s)]

\* perform_io on the pipe: pipe_read_op reads all of it and stays.
RunPipe ==
  /\ Dequeue("pipe")
  /\ DeliverSignals
  /\ pipe' = <<>>
  /\ WorkCleanup(outstanding_work, 1)
  /\ UNCHANGED <<pc, receive, installed, running, handled>>

RunSignal ==
  /\ Dequeue("signal")
  /\ op_queue' = Tail(op_queue)
  /\ pc' = "signal_handler"
  /\ UNCHANGED <<outstanding_work, stopped, receive, signal, running, handled>>

\* FeedHandler's handler: what it does with the datagram (module FeedHandler), and
\* start_receive again.  Then the completed receive is no more work.
ReceiveHandler ==
  /\ pc = "handler"
  /\ pc' = "run"
  /\ handled' = recv_buffer
  /\ StartReceive
  /\ WorkCleanup(outstanding_work + 1, 0)
  /\ UNCHANGED <<signal, running>>

\* main's handler clears running, and only then
SignalHandler ==
  /\ pc = "signal_handler"
  /\ pc' = "stop"
  /\ running' = FALSE
  /\ UNCHANGED <<scheduler, ready, receive, signal, handled>>

\* stops the io_context.
Stop ==
  /\ pc = "stop"
  /\ pc' = "run"
  /\ Wake(TRUE)
  /\ stopped' = TRUE
  /\ outstanding_work' = outstanding_work - 1
  /\ UNCHANGED <<op_queue, receive, signal, running, handled>>
-------------------------------------------------------------------------------
\* main() after run(): it waits for the matching engine, and then come the destructors
\* at the end of its try block, in their order.

\* worker_thread.join(): when the engine ends is not this module's to say.
Join ==
  /\ pc = "returned"
  /\ pc' = "joined"
  /\ UNCHANGED <<scheduler, ready, receive, signal, running, handled>>

\* ~signal_set: clear() gives every signal its default action back, and cancel()
\* posts the wait if it is still there.
RemoveSignal(s) ==
  /\ pc = "joined" /\ s \in installed
  /\ installed' = installed \ {s}
  /\ undelivered' = [undelivered EXCEPT ![s] = 0]
  /\ IF installed' # {}
     THEN UNCHANGED <<pc, op_queue, signal_waiting, ready, task_interrupted>>
     ELSE /\ pc' = "close"
          /\ op_queue' = IF signal_waiting THEN Append(op_queue, "signal") ELSE op_queue
          /\ signal_waiting' = FALSE
          /\ Wake(signal_waiting)
  /\ UNCHANGED <<outstanding_work, stopped, receive, pipe, running, handled>>

\* ~FeedHandler: the socket is deregistered and closed, a waiting receive is posted
\* as aborted.
CloseSocket ==
  /\ pc = "close"
  /\ pc' = "shutdown_signals"
  /\ op_queue' = IF recv_pending THEN Append(op_queue, "recv") ELSE op_queue
  /\ recv_pending' = FALSE
  /\ socket_buffer' = <<>>
  /\ task_interrupted' = (task_interrupted \/ recv_pending)
  /\ ready' = ready \ {"socket"}
  /\ UNCHANGED <<outstanding_work, stopped, recv_buffer, signal, running, handled>>

\* ~io_context shuts its services down, the last created first: signal_set_service
\* closes the pipe,
ShutdownSignals ==
  /\ pc = "shutdown_signals"
  /\ pc' = "shutdown_scheduler"
  /\ pipe' = <<>>
  /\ ready' = ready \ {"pipe"}
  /\ UNCHANGED <<scheduler, receive, installed, signal_waiting, undelivered, running, handled>>

\* the reactor abandons what waits in it, and the scheduler destroys its queue
\* without calling a handler.
ShutdownScheduler ==
  /\ pc = "shutdown_scheduler"
  /\ pc' = "destroyed"
  /\ op_queue' = <<>>
  /\ recv_pending' = FALSE
  /\ UNCHANGED <<outstanding_work, stopped, task_interrupted, ready, socket_buffer, recv_buffer,
                 signal, running, handled>>
-------------------------------------------------------------------------------
Environment == \/ \E d \in Datagrams : Arrive(d)
               \/ \E s \in Signals : Raise(s) \/ RaiseInEpoll(s)
               \/ Kill

SetupStep == OpenSocket \/ FirstReceive \/ (\E s \in Signals : AddSignal(s)) \/ AsyncWait \/ Run
LoopStep == \/ Leave \/ RunTask \/ EpollWait \/ RunReceive \/ RunSocket \/ RunPipe \/ RunSignal
            \/ ReceiveHandler \/ SignalHandler \/ Stop
TeardownStep == \/ \E s \in Signals : RemoveSignal(s)
                \/ CloseSocket \/ ShutdownSignals \/ ShutdownScheduler
MainStep == SetupStep \/ LoopStep \/ TeardownStep

\* The process has ended.
Ended == pc \in {"destroyed", "killed"} /\ UNCHANGED vars

Next == Environment \/ MainStep \/ Join \/ Ended

Spec == Init /\ [][Next]_vars

\* Main's thread runs: outside the join, which is not in MainStep, it waits only where
\* epoll does.
FairSpec == Spec /\ WF_vars(MainStep)
-------------------------------------------------------------------------------
TypeOK ==
  /\ pc \in Setup \cup Looping \cup Teardown \cup {"killed"}
  /\ op_queue \in Seq(Operations) /\ outstanding_work \in Nat
  /\ stopped \in BOOLEAN /\ task_interrupted \in BOOLEAN
  /\ ready \subseteq Descriptors \cup {"interrupter"}
  /\ socket_buffer \in Seq(Datagrams) /\ Len(socket_buffer) <= SocketBuffer
  /\ recv_pending \in BOOLEAN /\ recv_buffer \in Datagrams \cup {NoData}
  /\ pipe \in Seq(Signals) /\ Len(pipe) <= PipeSize /\ installed \subseteq Signals
  /\ signal_waiting \in BOOLEAN /\ undelivered \in [Signals -> Nat]
  /\ running \in BOOLEAN /\ handled \in Datagrams \cup {NoData}

\* Where the one receive of the feed handler and the one wait of main are.
Count(b) == IF b THEN 1 ELSE 0
Receives == Count(recv_pending) + Count("recv" \in Elements(op_queue)) + Count(pc = "handler")
Waits == Count(signal_waiting) + Count("signal" \in Elements(op_queue))
           + Count(pc \in {"signal_handler", "stop"})

\* The work count (scheduler.ipp's outstanding_work_) is the number of the user's
\* operations that are started and not completed, although an operation may be
\* counted by the reactor, compensated by a descriptor or posted by a cancellation.
\* From the first start_receive on there is exactly one receive: two would share
\* _recv_buffer, none would leave the feed unread.
WorkCounted ==
  pc \notin {"destroyed", "killed"} =>
    /\ outstanding_work = Receives + Waits
    /\ Receives = Count(pc \notin {"open", "receive"})

\* What epoll reported is queued once.  epoll_reactor::run relies on it: "any
\* previously returned descriptor operations have already been dequeued" when the
\* task runs.  The loop is never without its task while it runs.
QueueWellFormed ==
  /\ NoRepeats(op_queue)
  /\ pc \in {"poll", "block"} => Elements(op_queue) \cap (Descriptors \cup {"task"}) = {}
  /\ pc = "run" => "task" \in Elements(op_queue)

\* Main's thread never sleeps in epoll over something that nobody will report again:
\* the registrations are edge-triggered, a datagram or a signal that the loop has
\* seen and not consumed raises no second event.
NoLostWakeup ==
  pc = "block" =>
    /\ recv_pending /\ signal_waiting /\ op_queue = <<>>
    /\ socket_buffer # <<>> => "socket" \in ready
    /\ pipe # <<>> => "pipe" \in ready

\* A datagram that is still to be handled, in the order of arrival.
Unhandled ==
  IF pc \in {"shutdown_signals", "shutdown_scheduler", "destroyed", "killed"} THEN <<>>
  ELSE IF "recv" \in Elements(op_queue) \/ pc = "handler" THEN <<recv_buffer>> \o socket_buffer
  ELSE socket_buffer

Signalled == pipe # <<>> \/ "signal" \in Elements(op_queue)
               \/ pc \in {"signal_handler", "stop"} \/ ~running

Stage == IF pc \in Setup THEN "starting"
         ELSE IF pc \in Looping THEN "looping"
         ELSE IF pc \in {"returned", "joined", "close"} THEN "returned"
         ELSE IF pc = "killed" THEN "killed"
         ELSE "closed"

Loop == INSTANCE NetworkLoop WITH arrived <- Unhandled, signalled <- Signalled, stage <- Stage

\* The io_context is the simple loop of NetworkLoop: datagrams are handled once, in
\* their order, signals make the handler run, and run() returns only after it.
ImplementsNetworkLoop == Loop!Spec

\* A signal ends the loop, however many datagrams and signals keep arriving: the
\* task's turn always comes, and the queue is served in order.
SignalStops == pipe # <<>> ~> pc \in Teardown \cup {"killed"}

\* A datagram that the kernel holds reaches the handler unless a signal comes first.
DatagramHandled ==
  \A d \in Datagrams : d \in Elements(socket_buffer) ~> (handled = d \/ ~running \/ pc = "killed")
===============================================================================
