---------------------------- MODULE EventLoopProofs ----------------------------
(***************************************************************************)
(* The event loop counts its work, never sleeps over an edge that it has   *)
(* consumed, and implements NetworkLoop, for every size of the socket's    *)
(* buffer and of the signal pipe and any set of signals.                   *)
(*                                                                         *)
(* The inductive invariant follows the two user operations through the     *)
(* places where they can be, and the edges through ready and op_queue.     *)
(* The queue is well ordered: no operation is in it twice, and the task is *)
(* behind the descriptors that its last run returned.                      *)
(***************************************************************************)
EXTENDS EventLoop, FiniteSetTheorems, TLAPS

Over == {"destroyed", "killed"}

DescriptorsFirst(q) ==
  \A i, j \in 1 .. Len(q) : q[i] = "task" /\ q[j] \in Descriptors => j < i

WellOrdered(q) == NoRepeats(q) /\ DescriptorsFirst(q)

QueueInv ==
  /\ WellOrdered(op_queue)
  /\ pc = "open" => Elements(op_queue) = {}
  /\ pc = "block" => Elements(op_queue) = {}
  /\ pc = "poll" => Elements(op_queue) \cap (Descriptors \cup {"task"}) = {}
  /\ pc \notin Over \cup {"open", "poll", "block"} => "task" \in Elements(op_queue)

\* What is readable and still to be read has an edge that nobody has consumed.
Edges ==
  pc \notin Over =>
    /\ recv_pending /\ socket_buffer # <<>> => "socket" \in ready \cup Elements(op_queue)
    /\ pipe # <<>> => "pipe" \in ready \cup Elements(op_queue)

Phase ==
  /\ pc \in Setup \cup {"poll", "block", "handler", "signal_handler"} => running /\ ~stopped
  /\ pc = "stop" => ~running /\ ~stopped
  /\ pc = "run" => (stopped <=> ~running)
  /\ pc \in Teardown => stopped /\ ~running
  /\ pc \in {"wait", "start"} \cup Looping => installed = Signals

\* The receive and the wait are each in one place.
Tracked ==
  pc \notin Over =>
    /\ outstanding_work = Receives + Waits
    /\ Receives = Count(pc \notin {"open", "receive"})
    /\ Waits = Count(pc \notin {"open", "receive", "signals", "wait"} /\ ~stopped)

IndInv == TypeOK /\ QueueInv /\ Edges /\ Phase /\ Tracked
--------------------------------------------------------------------------------
\* The scheduler's queue.

LEMMA EmptyQueue ==
  /\ Elements(<<>>) = {} /\ WellOrdered(<<>>)
  /\ \A q \in Seq(Operations) : (q = <<>>) <=> (Elements(q) = {})
PROOF
  <1>1. Elements(<<>>) = {} /\ WellOrdered(<<>>)
    BY DEF Elements, WellOrdered, NoRepeats, DescriptorsFirst
  <1>2. ASSUME NEW q \in Seq(Operations), q # <<>>
        PROVE  Elements(q) # {}
    <2>1. 1 \in 1 .. Len(q)
      BY <1>2
    <2> QED BY <2>1 DEF Elements
  <1> QED BY <1>1, <1>2

LEMMA SingleTask ==
  /\ <<"task">> \in Seq(Operations)
  /\ Elements(<<"task">>) = {"task"} /\ WellOrdered(<<"task">>)
PROOF
  BY DEF Operations, Elements, WellOrdered, NoRepeats, DescriptorsFirst, Descriptors

\* An operation that is not in the queue is put behind the others.
LEMMA AppendQueue ==
  ASSUME NEW q \in Seq(Operations), NEW o \in Operations
  PROVE  /\ Append(q, o) \in Seq(Operations)
         /\ Elements(Append(q, o)) = Elements(q) \cup {o}
         /\ WellOrdered(q) /\ o \notin Elements(q) \cup Descriptors => WellOrdered(Append(q, o))
PROOF
  <1> DEFINE a == Append(q, o)
  <1>1. /\ a \in Seq(Operations) /\ Len(a) = Len(q) + 1 /\ Len(q) \in Nat
        /\ a[Len(q) + 1] = o
        /\ \A i \in 1 .. Len(q) : a[i] = q[i]
    OBVIOUS
  <1> HIDE DEF a
  <1>2. Elements(a) = Elements(q) \cup {o}
    <2>1. 1 .. Len(a) = (1 .. Len(q)) \cup {Len(q) + 1}
      BY <1>1
    <2> QED BY <1>1, <2>1 DEF Elements
  <1>3. ASSUME WellOrdered(q), o \notin Elements(q), o \notin Descriptors
        PROVE  WellOrdered(a)
    <2>1. \A i \in 1 .. Len(q) : q[i] # o
      BY <1>3 DEF Elements
    <2>2. NoRepeats(a)
      BY <1>1, <1>3, <2>1 DEF WellOrdered, NoRepeats
    <2>3. DescriptorsFirst(a)
      <3> SUFFICES ASSUME NEW i \in 1 .. Len(a), NEW j \in 1 .. Len(a),
                          a[i] = "task", a[j] \in Descriptors
                   PROVE  j < i
        BY DEF DescriptorsFirst
      <3>1. j \in 1 .. Len(q)
        BY <1>1, <1>3
      <3>2. CASE i \in 1 .. Len(q)
        BY <1>1, <1>3, <3>1, <3>2 DEF WellOrdered, DescriptorsFirst
      <3>3. CASE i = Len(q) + 1
        BY <3>1, <3>3
      <3> QED BY <1>1, <3>2, <3>3
    <2> QED BY <2>2, <2>3 DEF WellOrdered
  <1> QED BY <1>1, <1>2, <1>3 DEF a

\* The operation at the head is taken.
LEMMA TailQueue ==
  ASSUME NEW q \in Seq(Operations), q # <<>>, WellOrdered(q)
  PROVE  /\ Tail(q) \in Seq(Operations) /\ WellOrdered(Tail(q))
         /\ Head(q) \in Elements(q)
         /\ Elements(Tail(q)) = Elements(q) \ {Head(q)}
         /\ Head(q) = "task" => Elements(Tail(q)) \cap Descriptors = {}
PROOF
  <1> DEFINE t == Tail(q)
  <1>1. /\ t \in Seq(Operations) /\ Len(t) = Len(q) - 1 /\ Len(q) \in Nat /\ Len(q) > 0
        /\ \A i \in 1 .. Len(t) : t[i] = q[i + 1]
        /\ Head(q) = q[1]
    OBVIOUS
  <1> HIDE DEF t
  <1>2. \A i \in 1 .. Len(t) : i + 1 \in 1 .. Len(q)
    BY <1>1
  <1>3. WellOrdered(t)
    <2>1. ASSUME NEW i \in 1 .. Len(t), NEW j \in 1 .. Len(t), t[i] = t[j] PROVE i = j
      <3>1. q[i + 1] = q[j + 1] /\ i + 1 \in 1 .. Len(q) /\ j + 1 \in 1 .. Len(q)
        BY <1>1, <1>2, <2>1
      <3>2. i + 1 = j + 1
        BY <3>1 DEF WellOrdered, NoRepeats
      <3> QED BY <3>2
    <2>2. ASSUME NEW i \in 1 .. Len(t), NEW j \in 1 .. Len(t),
                 t[i] = "task", t[j] \in Descriptors
          PROVE  j < i
      <3>1. /\ q[i + 1] = "task" /\ q[j + 1] \in Descriptors
            /\ i + 1 \in 1 .. Len(q) /\ j + 1 \in 1 .. Len(q)
        BY <1>1, <1>2, <2>2
      <3>2. j + 1 < i + 1
        BY <3>1 DEF WellOrdered, DescriptorsFirst
      <3> QED BY <3>2
    <2> QED BY <2>1, <2>2 DEF WellOrdered, NoRepeats, DescriptorsFirst
  <1>4. q[1] \in Elements(q)
    BY <1>1 DEF Elements
  <1>5. Elements(t) = Elements(q) \ {q[1]}
    <2>1. ASSUME NEW x \in Elements(t) PROVE x \in Elements(q) \ {q[1]}
      BY <1>1, <1>2 DEF Elements, WellOrdered, NoRepeats
    <2>2. ASSUME NEW x \in Elements(q), x # q[1] PROVE x \in Elements(t)
      <3>1. PICK i \in 1 .. Len(q) : x = q[i]
        BY DEF Elements
      <3>2. i - 1 \in 1 .. Len(t) /\ t[i - 1] = q[i]
        BY <1>1, <2>2, <3>1
      <3> QED BY <3>1, <3>2 DEF Elements
    <2> QED BY <2>1, <2>2
  <1>6. ASSUME q[1] = "task", NEW x \in Elements(t), x \in Descriptors PROVE FALSE
    <2>1. PICK i \in 1 .. Len(t) : x = t[i]
      BY <1>6 DEF Elements
    <2> QED BY <1>1, <1>2, <1>6, <2>1 DEF WellOrdered, DescriptorsFirst
  <1> QED BY <1>1, <1>3, <1>4, <1>5, <1>6 DEF t

\* The descriptors that epoll reported and the task are put behind the others.
LEMMA RequeueQueue ==
  ASSUME NEW q \in Seq(Operations), WellOrdered(q),
         Elements(q) \cap (Descriptors \cup {"task"}) = {},
         NEW ds \in Seq(Operations), NoRepeats(ds), Elements(ds) \subseteq Descriptors
  PROVE  /\ q \o ds \o <<"task">> \in Seq(Operations)
         /\ WellOrdered(q \o ds \o <<"task">>)
         /\ Elements(q \o ds \o <<"task">>) = Elements(q) \cup Elements(ds) \cup {"task"}
PROOF
  <1> DEFINE r == q \o ds
             a == Append(r, "task")
  <1>1. /\ r \in Seq(Operations) /\ Len(r) = Len(q) + Len(ds)
        /\ Len(q) \in Nat /\ Len(ds) \in Nat
        /\ \A i \in 1 .. Len(q) : r[i] = q[i]
        /\ \A i \in 1 .. Len(ds) : r[Len(q) + i] = ds[i]
        /\ r \o <<"task">> = a
    BY DEF Operations
  <1> HIDE DEF r
  <1>2. ASSUME NEW i \in 1 .. Len(r), ~(i \in 1 .. Len(q))
        PROVE  i - Len(q) \in 1 .. Len(ds) /\ r[i] = ds[i - Len(q)]
    BY <1>1, <1>2
  <1>3. Elements(r) = Elements(q) \cup Elements(ds)
    <2>1. ASSUME NEW x \in Elements(r) PROVE x \in Elements(q) \cup Elements(ds)
      <3>1. PICK i \in 1 .. Len(r) : x = r[i]
        BY DEF Elements
      <3>2. CASE i \in 1 .. Len(q)
        BY <1>1, <3>1, <3>2 DEF Elements
      <3>3. CASE ~(i \in 1 .. Len(q))
        BY <1>2, <3>1, <3>3 DEF Elements
      <3> QED BY <3>2, <3>3
    <2>2. ASSUME NEW x \in Elements(q) PROVE x \in Elements(r)
      <3>1. PICK i \in 1 .. Len(q) : x = q[i]
        BY DEF Elements
      <3>2. i \in 1 .. Len(r)
        BY <1>1
      <3> QED BY <1>1, <3>1, <3>2 DEF Elements
    <2>3. ASSUME NEW x \in Elements(ds) PROVE x \in Elements(r)
      <3>1. PICK i \in 1 .. Len(ds) : x = ds[i]
        BY DEF Elements
      <3>2. Len(q) + i \in 1 .. Len(r)
        BY <1>1
      <3> QED BY <1>1, <3>1, <3>2 DEF Elements
    <2> QED BY <2>1, <2>2, <2>3
  <1>4. "task" \notin Elements(r) /\ "task" \in Operations /\ "task" \notin Descriptors
    BY <1>3 DEF Operations, Descriptors
  <1>5. WellOrdered(r)
    <2>1. \A i \in 1 .. Len(r) : r[i] # "task"
      BY <1>4 DEF Elements
    <2>2. ASSUME NEW i \in 1 .. Len(q), NEW j \in 1 .. Len(ds) PROVE q[i] # ds[j]
      <3>1. q[i] \in Elements(q) /\ ds[j] \in Descriptors
        BY DEF Elements
      <3> QED BY <3>1
    <2>3. ASSUME NEW i \in 1 .. Len(r), NEW j \in 1 .. Len(r), r[i] = r[j] PROVE i = j
      <3>1. CASE i \in 1 .. Len(q) /\ j \in 1 .. Len(q)
        BY <1>1, <2>3, <3>1 DEF WellOrdered, NoRepeats
      <3>2. CASE i \in 1 .. Len(q) /\ ~(j \in 1 .. Len(q))
        BY <1>1, <1>2, <2>2, <2>3, <3>2
      <3>3. CASE ~(i \in 1 .. Len(q)) /\ j \in 1 .. Len(q)
        BY <1>1, <1>2, <2>2, <2>3, <3>3
      <3>4. CASE ~(i \in 1 .. Len(q)) /\ ~(j \in 1 .. Len(q))
        <4>1. ds[i - Len(q)] = ds[j - Len(q)] /\ i - Len(q) \in 1 .. Len(ds) /\ j - Len(q) \in 1 .. Len(ds)
          BY <1>2, <2>3, <3>4
        <4>2. i - Len(q) = j - Len(q)
          BY <4>1 DEF NoRepeats
        <4> QED BY <1>1, <4>2
      <3> QED BY <3>1, <3>2, <3>3, <3>4
    <2> QED BY <2>1, <2>3 DEF WellOrdered, NoRepeats, DescriptorsFirst
  <1>6. /\ a \in Seq(Operations) /\ WellOrdered(a)
        /\ Elements(a) = Elements(r) \cup {"task"}
    BY <1>1, <1>4, <1>5, AppendQueue
  <1> QED BY <1>1, <1>3, <1>6 DEF r
--------------------------------------------------------------------------------
\* The invariant holds when main starts, and every step keeps it.

LEMMA InitIndInv == Init => IndInv
PROOF
  <1> SUFFICES ASSUME Init PROVE IndInv
    OBVIOUS
  <1>1. op_queue \in Seq(Operations) /\ WellOrdered(op_queue) /\ Elements(op_queue) = {}
    BY EmptyQueue DEF Init
  <1>2. TypeOK
    <2>1. /\ socket_buffer \in Seq(Datagrams) /\ Len(socket_buffer) <= SocketBuffer
          /\ pipe \in Seq(Signals) /\ Len(pipe) <= PipeSize
      BY LoopAssumption DEF Init
    <2>2. undelivered \in [Signals -> Nat]
      BY DEF Init
    <2> QED BY <1>1, <2>1, <2>2 DEF Init, TypeOK, Setup
  <1>3. QueueInv /\ Edges
    BY <1>1 DEF Init, QueueInv, Edges, Over
  <1>4. Phase
    BY DEF Init, Phase, Setup, Looping, Teardown
  <1>5. Tracked
    BY <1>1 DEF Init, Tracked, Receives, Waits, Count, Over
  <1> QED BY <1>2, <1>3, <1>4, <1>5 DEF IndInv

\* Facts of the current state that most steps need.
LEMMA Types ==
  ASSUME TypeOK
  PROVE  /\ op_queue \in Seq(Operations) /\ outstanding_work \in Nat
         /\ socket_buffer \in Seq(Datagrams) /\ pipe \in Seq(Signals)
         /\ Len(pipe) \in Nat /\ Len(socket_buffer) \in Nat
         /\ "task" \in Operations /\ "recv" \in Operations /\ "signal" \in Operations
PROOF
  BY DEF TypeOK, Operations

LEMMA ArriveStep ==
  ASSUME IndInv, NEW d \in Datagrams, Arrive(d)
  PROVE  IndInv'
PROOF
  <1> USE DEF IndInv
  <1>1. TypeOK'
    <2>1. socket_buffer' \in Seq(Datagrams) /\ Len(socket_buffer') <= SocketBuffer
      BY LoopAssumption DEF TypeOK, Arrive
    <2> QED BY <2>1 DEF TypeOK, Arrive, scheduler, signal, Descriptors
  <1>2. QueueInv'
    BY DEF QueueInv, Arrive, scheduler
  <1>3. Edges'
    BY DEF Edges, Arrive, scheduler, signal
  <1>4. Phase'
    BY DEF Phase, Arrive, scheduler, signal
  <1>5. Tracked'
    BY DEF Tracked, Receives, Waits, Arrive, scheduler, signal
  <1> QED BY <1>1, <1>2, <1>3, <1>4, <1>5

LEMMA WriteKeeps ==
  ASSUME TypeOK, NEW s \in Signals, WriteSignal(s)
  PROVE  /\ pipe' \in Seq(Signals) /\ Len(pipe') <= PipeSize
         /\ ready \subseteq ready' /\ ready' \subseteq Descriptors \cup {"interrupter"}
         /\ pipe' = pipe \/ "pipe" \in ready'
         /\ pipe' # <<>>
PROOF
  <1>1. CASE Len(pipe) < PipeSize
    BY <1>1, LoopAssumption DEF TypeOK, WriteSignal, Descriptors
  <1>2. CASE ~(Len(pipe) < PipeSize)
    BY <1>2, LoopAssumption DEF TypeOK, WriteSignal, Descriptors
  <1> QED BY <1>1, <1>2

LEMMA RaiseStep ==
  ASSUME IndInv, NEW s \in Signals, Raise(s)
  PROVE  IndInv'
PROOF
  <1> USE DEF IndInv
  <1>0. WriteSignal(s)
    BY DEF Raise
  <1>1. TypeOK'
    BY <1>0, WriteKeeps DEF TypeOK, Raise, WriteSignal, scheduler, receive
  <1>2. QueueInv'
    BY DEF QueueInv, Raise, scheduler
  <1>3. Edges'
    BY <1>0, WriteKeeps DEF Edges, Raise, scheduler, receive
  <1>4. Phase'
    BY <1>0 DEF Phase, Raise, WriteSignal, scheduler
  <1>5. Tracked'
    BY <1>0 DEF Tracked, Receives, Waits, Raise, WriteSignal, scheduler, receive
  <1> QED BY <1>1, <1>2, <1>3, <1>4, <1>5

LEMMA RaiseInEpollStep ==
  ASSUME IndInv, NEW s \in Signals, RaiseInEpoll(s)
  PROVE  IndInv'
PROOF
  <1> USE DEF IndInv
  <1>0. WriteSignal(s) /\ pc = "block" /\ pc' = "run" /\ op_queue' = Append(op_queue, "task")
    BY DEF RaiseInEpoll
  <1>q. /\ op_queue' \in Seq(Operations) /\ WellOrdered(op_queue')
        /\ Elements(op_queue) = {} /\ Elements(op_queue') = {"task"}
    <2>1. Elements(op_queue) = {}
      BY <1>0 DEF QueueInv
    <2>2. "task" \notin Elements(op_queue) \cup Descriptors
      BY <2>1 DEF Descriptors
    <2> QED BY <1>0, <2>1, <2>2, Types, AppendQueue DEF QueueInv
  <1>1. TypeOK'
    BY <1>0, <1>q, WriteKeeps DEF TypeOK, RaiseInEpoll, WriteSignal, receive, Looping
  <1>2. QueueInv'
    BY <1>0, <1>q DEF QueueInv, Over
  <1>3. Edges'
    BY <1>0, <1>q, WriteKeeps DEF Edges, RaiseInEpoll, receive, Over
  <1>4. Phase'
    BY <1>0 DEF Phase, RaiseInEpoll, WriteSignal, Setup, Looping, Teardown
  <1>5. Tracked'
    BY <1>0, <1>q DEF Tracked, Receives, Waits, Count, RaiseInEpoll, WriteSignal, receive, Over
  <1> QED BY <1>1, <1>2, <1>3, <1>4, <1>5

LEMMA KillStep ==
  ASSUME IndInv, Kill
  PROVE  IndInv'
PROOF
  <1> USE DEF IndInv
  <1>1. TypeOK'
    BY DEF TypeOK, Kill, scheduler, receive, signal
  <1>2. QueueInv' /\ Edges' /\ Tracked'
    BY DEF QueueInv, Edges, Tracked, Kill, scheduler, Over
  <1>3. Phase'
    BY DEF Phase, Kill, Setup, Looping, Teardown
  <1> QED BY <1>1, <1>2, <1>3
--------------------------------------------------------------------------------
\* The receive.

LEMMA WakeKeeps ==
  ASSUME TypeOK, NEW w \in BOOLEAN, Wake(w)
  PROVE  /\ task_interrupted' \in BOOLEAN
         /\ ready \subseteq ready' /\ ready' \subseteq Descriptors \cup {"interrupter"}
PROOF
  BY DEF TypeOK, Wake

\* The receive is started: afterwards it waits for an edge or is in the queue.
LEMMA StartReceiveKeeps ==
  ASSUME TypeOK, WellOrdered(op_queue), "recv" \notin Elements(op_queue), ~recv_pending, StartReceive
  PROVE  /\ op_queue' \in Seq(Operations) /\ WellOrdered(op_queue')
         /\ socket_buffer' \in Seq(Datagrams) /\ Len(socket_buffer') <= SocketBuffer
         /\ recv_buffer' \in Datagrams \cup {NoData}
         /\ task_interrupted' \in BOOLEAN
         /\ ready \subseteq ready' /\ ready' \subseteq Descriptors \cup {"interrupter"}
         /\ \/ recv_pending' = TRUE /\ socket_buffer' = <<>> /\ op_queue' = op_queue
            \/ recv_pending' = FALSE /\ Elements(op_queue') = Elements(op_queue) \cup {"recv"}
PROOF
  <1>1. CASE socket_buffer = <<>>
    <2>1. Wake(FALSE) /\ recv_pending' = TRUE /\ UNCHANGED <<op_queue, socket_buffer, recv_buffer>>
      BY <1>1 DEF StartReceive
    <2>2. /\ task_interrupted' \in BOOLEAN
          /\ ready \subseteq ready' /\ ready' \subseteq Descriptors \cup {"interrupter"}
      BY <2>1, WakeKeeps
    <2> QED BY <1>1, <2>1, <2>2 DEF TypeOK
  <1>2. CASE socket_buffer # <<>>
    <2>1. /\ Wake(TRUE) /\ op_queue' = Append(op_queue, "recv") /\ recv_pending' = recv_pending
          /\ recv_buffer' = Head(socket_buffer) /\ socket_buffer' = Tail(socket_buffer)
      BY <1>2 DEF StartReceive, ReceiveOne
    <2>2. /\ task_interrupted' \in BOOLEAN
          /\ ready \subseteq ready' /\ ready' \subseteq Descriptors \cup {"interrupter"}
      BY <2>1, WakeKeeps
    <2>3. "recv" \notin Elements(op_queue) \cup Descriptors
      BY DEF Descriptors
    <2>4. /\ op_queue' \in Seq(Operations) /\ WellOrdered(op_queue')
          /\ Elements(op_queue') = Elements(op_queue) \cup {"recv"}
      BY <2>1, <2>3, Types, AppendQueue
    <2>5. /\ socket_buffer' \in Seq(Datagrams) /\ Len(socket_buffer') <= SocketBuffer
          /\ recv_buffer' \in Datagrams
      BY <1>2, <2>1, LoopAssumption DEF TypeOK
    <2> QED BY <2>1, <2>2, <2>4, <2>5
  <1> QED BY <1>1, <1>2

\* The places of the receive, given where main's thread is.
LEMMA ReceivePlace ==
  ASSUME IndInv, pc \notin Over
  PROVE  /\ pc \in {"open", "receive", "handler"} =>
              ~recv_pending /\ "recv" \notin Elements(op_queue)
         /\ pc \notin {"open", "receive", "handler"} =>
              (recv_pending <=> "recv" \notin Elements(op_queue))
PROOF
  BY DEF IndInv, TypeOK, Tracked, Receives, Count

\* The places of the wait.
LEMMA WaitPlace ==
  ASSUME IndInv, pc \notin Over
  PROVE  /\ pc \in {"open", "receive", "signals", "wait", "signal_handler", "stop"} \/ stopped =>
              ~signal_waiting /\ "signal" \notin Elements(op_queue)
         /\ pc \notin {"open", "receive", "signals", "wait", "signal_handler", "stop"} /\ ~stopped =>
              (signal_waiting <=> "signal" \notin Elements(op_queue))
PROOF
  BY DEF IndInv, TypeOK, Tracked, Waits, Count, Phase, Setup

LEMMA OpenSocketStep ==
  ASSUME IndInv, OpenSocket
  PROVE  IndInv'
PROOF
  <1> USE DEF IndInv
  <1>0. pc = "open" /\ pc' = "receive" /\ op_queue' = <<"task">> /\ Elements(op_queue) = {}
    BY DEF OpenSocket, QueueInv
  <1>q. /\ op_queue' \in Seq(Operations) /\ WellOrdered(op_queue') /\ Elements(op_queue') = {"task"}
    BY <1>0, SingleTask
  <1>1. TypeOK'
    BY <1>0, <1>q DEF TypeOK, OpenSocket, receive, signal, Setup
  <1>2. QueueInv'
    BY <1>0, <1>q DEF QueueInv, Over
  <1>3. Edges'
    BY <1>0, <1>q DEF Edges, OpenSocket, receive, signal, Over
  <1>4. Phase'
    BY <1>0 DEF Phase, OpenSocket, Setup, Looping, Teardown
  <1>5. Tracked'
    BY <1>0, <1>q DEF Tracked, Receives, Waits, Count, OpenSocket, receive, signal, Over
  <1> QED BY <1>1, <1>2, <1>3, <1>4, <1>5

LEMMA FirstReceiveStep ==
  ASSUME IndInv, FirstReceive
  PROVE  IndInv'
PROOF
  <1> USE DEF IndInv
  <1>0. /\ pc = "receive" /\ pc' = "signals" /\ StartReceive /\ outstanding_work' = outstanding_work + 1
        /\ ~recv_pending /\ "recv" \notin Elements(op_queue) /\ WellOrdered(op_queue)
    BY ReceivePlace DEF FirstReceive, QueueInv, Over
  <1>q. /\ op_queue' \in Seq(Operations) /\ WellOrdered(op_queue')
        /\ socket_buffer' \in Seq(Datagrams) /\ Len(socket_buffer') <= SocketBuffer
        /\ recv_buffer' \in Datagrams \cup {NoData}
        /\ task_interrupted' \in BOOLEAN
        /\ ready \subseteq ready' /\ ready' \subseteq Descriptors \cup {"interrupter"}
        /\ \/ recv_pending' = TRUE /\ socket_buffer' = <<>> /\ op_queue' = op_queue
           \/ recv_pending' = FALSE /\ Elements(op_queue') = Elements(op_queue) \cup {"recv"}
    BY <1>0, StartReceiveKeeps
  <1>1. TypeOK'
    <2>1. outstanding_work' \in Nat
      BY <1>0 DEF TypeOK
    <2>2. recv_pending' \in BOOLEAN
      BY <1>q, Zenon
    <2> QED BY <1>0, <1>q, <2>1, <2>2 DEF TypeOK, FirstReceive, signal, Setup
  <1>2. QueueInv'
    BY <1>0, <1>q DEF QueueInv, Over
  <1>3. Edges'
    BY <1>0, <1>q DEF Edges, FirstReceive, signal, Over
  <1>4. Phase'
    BY <1>0 DEF Phase, FirstReceive, signal, Setup, Looping, Teardown
  <1>5. Tracked'
    BY <1>0, <1>q DEF TypeOK, Tracked, Receives, Waits, Count, FirstReceive, signal, Over
  <1> QED BY <1>1, <1>2, <1>3, <1>4, <1>5

LEMMA AddSignalStep ==
  ASSUME IndInv, NEW s \in Signals, AddSignal(s)
  PROVE  IndInv'
PROOF
  <1> USE DEF IndInv
  <1>0. /\ pc = "signals" /\ pc' \in {"signals", "wait"}
        /\ pc' = "wait" => installed' = Signals
        /\ UNCHANGED <<scheduler, ready, receive, pipe, signal_waiting, undelivered, running, handled>>
    BY DEF AddSignal
  <1>1. TypeOK'
    BY <1>0 DEF TypeOK, AddSignal, scheduler, receive, Setup
  <1>2. QueueInv' /\ Edges'
    BY <1>0 DEF QueueInv, Edges, scheduler, receive, Over
  <1>3. Phase'
    BY <1>0 DEF Phase, scheduler, Setup, Looping, Teardown
  <1>4. Tracked'
    BY <1>0 DEF Tracked, Receives, Waits, Count, scheduler, receive, Over
  <1> QED BY <1>1, <1>2, <1>3, <1>4

LEMMA AsyncWaitStep ==
  ASSUME IndInv, AsyncWait
  PROVE  IndInv'
PROOF
  <1> USE DEF IndInv
  <1> DEFINE pending == {s \in Signals : undelivered[s] > 0}
  <1>0. /\ pc = "wait" /\ pc' = "start" /\ outstanding_work' = outstanding_work + 1
        /\ signal_waiting' = (pending = {}) /\ Wake(pending # {})
        /\ op_queue' = IF pending = {} THEN op_queue ELSE Append(op_queue, "signal")
        /\ undelivered' = IF pending = {} THEN undelivered
                          ELSE [undelivered EXCEPT ![CHOOSE s \in pending : TRUE] = @ - 1]
        /\ UNCHANGED <<stopped, receive, pipe, installed, running, handled>>
    BY DEF AsyncWait
  <1>w. ~signal_waiting /\ "signal" \notin Elements(op_queue)
    BY <1>0, WaitPlace DEF Over
  <1>r. /\ task_interrupted' \in BOOLEAN
        /\ ready \subseteq ready' /\ ready' \subseteq Descriptors \cup {"interrupter"}
    BY <1>0, WakeKeeps
  <1>u. undelivered' \in [Signals -> Nat]
    <2>1. CASE pending = {}
      BY <1>0, <2>1 DEF TypeOK
    <2>2. CASE pending # {}
      <3>1. PICK s \in pending : s = CHOOSE t \in pending : TRUE
        BY <2>2
      <3>2. s \in Signals /\ undelivered[s] - 1 \in Nat /\ undelivered \in [Signals -> Nat]
        BY DEF TypeOK
      <3>3. undelivered' = [undelivered EXCEPT ![s] = @ - 1]
        BY <1>0, <2>2, <3>1
      <3> QED BY <3>2, <3>3
    <2> QED BY <2>1, <2>2
  <1>q. /\ op_queue' \in Seq(Operations) /\ WellOrdered(op_queue')
        /\ \/ signal_waiting' = TRUE /\ op_queue' = op_queue
           \/ signal_waiting' = FALSE /\ Elements(op_queue') = Elements(op_queue) \cup {"signal"}
    <2>1. CASE pending = {}
      BY <1>0, <2>1 DEF TypeOK, QueueInv
    <2>2. CASE pending # {}
      <3>1. "signal" \notin Elements(op_queue) \cup Descriptors
        BY <1>w DEF Descriptors
      <3> QED BY <1>0, <2>2, <3>1, Types, AppendQueue DEF QueueInv
    <2> QED BY <2>1, <2>2
  <1> HIDE DEF pending
  <1>1. TypeOK'
    BY <1>0, <1>q, <1>r, <1>u DEF TypeOK, receive, Setup
  <1>2. QueueInv'
    BY <1>0, <1>q DEF QueueInv, Over
  <1>3. Edges'
    BY <1>0, <1>q, <1>r DEF Edges, receive, Over
  <1>4. Phase'
    BY <1>0 DEF Phase, Setup, Looping, Teardown
  <1>5. Tracked'
    BY <1>0, <1>q, <1>w DEF TypeOK, Tracked, Receives, Waits, Count, receive, Phase, Setup, Over
  <1> QED BY <1>1, <1>2, <1>3, <1>4, <1>5

LEMMA RunStep ==
  ASSUME IndInv, Run
  PROVE  IndInv'
PROOF
  <1> USE DEF IndInv
  <1>0. pc = "start" /\ outstanding_work # 0 /\ pc' = "run" /\ stopped' = stopped
    <2>1. pc = "start"
      BY DEF Run
    <2>2. outstanding_work # 0
      BY <2>1 DEF Tracked, Receives, Waits, Count, Over
    <2> QED BY <2>1, <2>2 DEF Run, TypeOK
  <1>1. TypeOK'
    BY <1>0 DEF TypeOK, Run, receive, signal, Looping
  <1>2. QueueInv' /\ Edges'
    BY <1>0 DEF QueueInv, Edges, Run, receive, signal, Over
  <1>3. Phase'
    BY <1>0 DEF Phase, Run, signal, Setup, Looping, Teardown
  <1>4. Tracked'
    BY <1>0 DEF Tracked, Receives, Waits, Count, Run, receive, signal, Over
  <1> QED BY <1>1, <1>2, <1>3, <1>4
--------------------------------------------------------------------------------
\* The loop.

LEMMA LeaveStep ==
  ASSUME IndInv, Leave
  PROVE  IndInv'
PROOF
  <1> USE DEF IndInv
  <1>1. TypeOK'
    BY DEF TypeOK, Leave, scheduler, receive, signal, Teardown
  <1>2. QueueInv' /\ Edges'
    BY DEF QueueInv, Edges, Leave, scheduler, receive, signal, Over
  <1>3. Phase'
    BY DEF Phase, Leave, scheduler, signal, Setup, Looping, Teardown
  <1>4. Tracked'
    BY DEF Tracked, Receives, Waits, Count, Leave, scheduler, receive, signal, Over
  <1> QED BY <1>1, <1>2, <1>3, <1>4

\* An operation other than the task is taken from the queue.
LEMMA DequeueKeeps ==
  ASSUME IndInv, NEW o \in Operations, Dequeue(o)
  PROVE  /\ pc = "run" /\ ~stopped /\ running
         /\ Tail(op_queue) \in Seq(Operations) /\ WellOrdered(Tail(op_queue))
         /\ o \in Elements(op_queue)
         /\ Elements(Tail(op_queue)) = Elements(op_queue) \ {o}
         /\ o # "task" => "task" \in Elements(Tail(op_queue))
         /\ task_interrupted' \in BOOLEAN
         /\ ready \subseteq ready' /\ ready' \subseteq Descriptors \cup {"interrupter"}
PROOF
  <1>1. /\ pc = "run" /\ ~stopped /\ op_queue # <<>> /\ Head(op_queue) = o
        /\ Wake(Len(op_queue) > 1) /\ (Len(op_queue) > 1) \in BOOLEAN
    BY DEF Dequeue
  <1>2. /\ TypeOK /\ WellOrdered(op_queue) /\ op_queue \in Seq(Operations)
        /\ "task" \in Elements(op_queue) /\ running
    BY <1>1 DEF IndInv, TypeOK, QueueInv, Phase, Over
  <1>3. /\ Tail(op_queue) \in Seq(Operations) /\ WellOrdered(Tail(op_queue))
        /\ o \in Elements(op_queue)
        /\ Elements(Tail(op_queue)) = Elements(op_queue) \ {o}
    BY <1>1, <1>2, TailQueue
  <1>4. /\ task_interrupted' \in BOOLEAN
        /\ ready \subseteq ready' /\ ready' \subseteq Descriptors \cup {"interrupter"}
    BY <1>1, <1>2, WakeKeeps
  <1> QED BY <1>1, <1>2, <1>3, <1>4

LEMMA RunTaskStep ==
  ASSUME IndInv, RunTask
  PROVE  IndInv'
PROOF
  <1> USE DEF IndInv
  <1>0. /\ pc = "run" /\ ~stopped /\ op_queue # <<>> /\ Head(op_queue) = "task"
        /\ op_queue' = Tail(op_queue) /\ task_interrupted' = (op_queue' # <<>>)
        /\ pc' = IF op_queue' # <<>> THEN "poll" ELSE "block"
        /\ UNCHANGED <<outstanding_work, stopped, ready, receive, signal, running, handled>>
    BY DEF RunTask
  <1>q. /\ op_queue' \in Seq(Operations) /\ WellOrdered(op_queue')
        /\ Elements(op_queue') = Elements(op_queue) \ {"task"}
        /\ Elements(op_queue') \cap (Descriptors \cup {"task"}) = {}
        /\ "socket" \notin Elements(op_queue') /\ "pipe" \notin Elements(op_queue')
        /\ op_queue' = <<>> => Elements(op_queue') = {}
    <2>1. /\ op_queue' \in Seq(Operations) /\ WellOrdered(op_queue')
          /\ Elements(op_queue') = Elements(op_queue) \ {"task"}
          /\ Elements(op_queue') \cap Descriptors = {}
      BY <1>0, Types, TailQueue DEF QueueInv
    <2>2. op_queue' = <<>> => Elements(op_queue') = {}
      BY EmptyQueue
    <2> QED BY <2>1, <2>2 DEF Descriptors
  <1>1. TypeOK'
    BY <1>0, <1>q DEF TypeOK, receive, signal, Looping
  <1>2. QueueInv'
    BY <1>0, <1>q DEF QueueInv, Over
  <1>3. Edges'
    BY <1>0, <1>q DEF Edges, receive, signal, Over
  <1>4. Phase'
    BY <1>0 DEF Phase, signal, Setup, Looping, Teardown
  <1>5. Tracked'
    BY <1>0, <1>q DEF Tracked, Receives, Waits, Count, receive, signal, Over
  <1> QED BY <1>1, <1>2, <1>3, <1>4, <1>5

\* While epoll waits, an edge that is not consumed is on its list.
LEMMA EpollWaitStep ==
  ASSUME IndInv, EpollWait
  PROVE  IndInv'
PROOF
  <1> USE DEF IndInv
  <1>0. /\ pc \in {"poll", "block"} /\ pc' = "run" /\ ready' = {} /\ task_interrupted' = TRUE
        /\ UNCHANGED <<outstanding_work, stopped, receive, signal, running, handled>>
    BY DEF EpollWait
  <1>d. PICK ds \in Listings(Events \cap Descriptors) : op_queue' = Requeue(ds)
    BY DEF EpollWait
  <1>e. ds \in Seq(Operations) /\ NoRepeats(ds) /\ Elements(ds) = Events \cap Descriptors
    <2>1. PICK n \in 0 .. 2 : ds \in [1 .. n -> Events \cap Descriptors]
      BY DEF Listings
    <2>2. ds \in Seq(Operations)
      BY <2>1 DEF Descriptors, Operations
    <2> QED BY <2>2 DEF Listings
  <1>o. Elements(op_queue) \cap (Descriptors \cup {"task"}) = {} /\ WellOrdered(op_queue)
    BY <1>0 DEF QueueInv
  <1>q. /\ op_queue' \in Seq(Operations) /\ WellOrdered(op_queue')
        /\ Elements(op_queue') = Elements(op_queue) \cup (Events \cap Descriptors) \cup {"task"}
    BY <1>d, <1>e, <1>o, Types, RequeueQueue DEF Requeue
  <1>1. TypeOK'
    BY <1>0, <1>q DEF TypeOK, receive, signal, Looping
  <1>2. QueueInv'
    BY <1>0, <1>q DEF QueueInv, Over
  <1>3. Edges'
    <2>1. recv_pending /\ socket_buffer # <<>> => "socket" \in Events \cap Descriptors
      BY <1>0, <1>o DEF Edges, Events, Readable, Descriptors, Over
    <2>2. pipe # <<>> => "pipe" \in Events \cap Descriptors
      BY <1>0, <1>o DEF Edges, Events, Readable, Descriptors, Over
    <2> QED BY <1>0, <1>q, <2>1, <2>2 DEF Edges, receive, signal
  <1>4. Phase'
    BY <1>0 DEF Phase, signal, Setup, Looping, Teardown
  <1>5. Tracked'
    <2>1. /\ "recv" \in Elements(op_queue') <=> "recv" \in Elements(op_queue)
          /\ "signal" \in Elements(op_queue') <=> "signal" \in Elements(op_queue)
      BY <1>q DEF Descriptors
    <2> QED BY <1>0, <2>1 DEF Tracked, Receives, Waits, Count, receive, signal, Over
  <1> QED BY <1>1, <1>2, <1>3, <1>4, <1>5

LEMMA RunReceiveStep ==
  ASSUME IndInv, RunReceive
  PROVE  IndInv'
PROOF
  <1> USE DEF IndInv
  <1>0. /\ Dequeue("recv") /\ op_queue' = Tail(op_queue) /\ pc' = "handler"
        /\ UNCHANGED <<outstanding_work, stopped, receive, signal, running, handled>>
    BY DEF RunReceive
  <1>q. /\ pc = "run" /\ ~stopped /\ running
        /\ op_queue' \in Seq(Operations) /\ WellOrdered(op_queue')
        /\ "recv" \in Elements(op_queue) /\ Elements(op_queue') = Elements(op_queue) \ {"recv"}
        /\ "task" \in Elements(op_queue')
        /\ task_interrupted' \in BOOLEAN
        /\ ready \subseteq ready' /\ ready' \subseteq Descriptors \cup {"interrupter"}
    BY <1>0, DequeueKeeps DEF Operations
  <1>1. TypeOK'
    BY <1>0, <1>q DEF TypeOK, receive, signal, Looping
  <1>2. QueueInv'
    BY <1>0, <1>q DEF QueueInv, Over
  <1>3. Edges'
    BY <1>0, <1>q DEF Edges, receive, signal, Over
  <1>4. Phase'
    BY <1>0, <1>q DEF Phase, signal, Setup, Looping, Teardown
  <1>5. Tracked'
    BY <1>0, <1>q DEF Tracked, Receives, Waits, Count, receive, signal, Over
  <1> QED BY <1>1, <1>2, <1>3, <1>4, <1>5

LEMMA RunSocketStep ==
  ASSUME IndInv, RunSocket
  PROVE  IndInv'
PROOF
  <1> USE DEF IndInv
  <1>0. /\ Dequeue("socket") /\ op_queue' = Tail(op_queue)
        /\ UNCHANGED <<signal, running, handled>>
    BY DEF RunSocket
  <1>q. /\ pc = "run" /\ ~stopped /\ running
        /\ op_queue' \in Seq(Operations) /\ WellOrdered(op_queue')
        /\ Elements(op_queue') = Elements(op_queue) \ {"socket"}
        /\ "task" \in Elements(op_queue')
        /\ task_interrupted' \in BOOLEAN
        /\ ready \subseteq ready' /\ ready' \subseteq Descriptors \cup {"interrupter"}
    BY <1>0, DequeueKeeps DEF Operations
  <1>a. CASE recv_pending /\ socket_buffer # <<>>
    <2>0. /\ recv_pending' = FALSE /\ pc' = "handler" /\ UNCHANGED <<outstanding_work, stopped>>
          /\ recv_buffer' = Head(socket_buffer) /\ socket_buffer' = Tail(socket_buffer)
      BY <1>a DEF RunSocket, ReceiveOne
    <2>s. /\ socket_buffer' \in Seq(Datagrams) /\ Len(socket_buffer') <= SocketBuffer
          /\ recv_buffer' \in Datagrams
      BY <1>a, <2>0, LoopAssumption DEF TypeOK
    <2>1. TypeOK'
      BY <1>0, <1>q, <2>0, <2>s DEF TypeOK, signal, Looping
    <2>2. QueueInv' /\ Edges'
      BY <1>0, <1>q, <2>0 DEF QueueInv, Edges, signal, Over
    <2>3. Phase'
      BY <1>0, <1>q, <2>0 DEF Phase, signal, Setup, Looping, Teardown
    <2>4. Tracked'
      BY <1>0, <1>q, <1>a, <2>0 DEF Tracked, Receives, Waits, Count, signal, Over
    <2> QED BY <2>1, <2>2, <2>3, <2>4
  <1>b. CASE ~(recv_pending /\ socket_buffer # <<>>)
    <2>0. UNCHANGED <<outstanding_work, stopped, receive, pc>>
      BY <1>b DEF RunSocket, WorkCleanup, TypeOK
    <2>1. TypeOK'
      BY <1>0, <1>q, <2>0 DEF TypeOK, receive, signal
    <2>2. QueueInv' /\ Edges'
      BY <1>0, <1>b, <1>q, <2>0 DEF QueueInv, Edges, receive, signal, Over
    <2>3. Phase'
      BY <1>0, <1>q, <2>0 DEF Phase, signal
    <2>4. Tracked'
      BY <1>0, <1>q, <2>0 DEF Tracked, Receives, Waits, Count, receive, signal, Over
    <2> QED BY <2>1, <2>2, <2>3, <2>4
  <1> QED BY <1>a, <1>b

LEMMA OccurrencesNat ==
  ASSUME NEW q \in Seq(Signals), NEW s
  PROVE  Occurrences(q, s) \in Nat
PROOF
  <1>1. IsFiniteSet(1 .. Len(q))
    BY FS_Interval
  <1>2. IsFiniteSet({i \in 1 .. Len(q) : q[i] = s})
    BY <1>1, FS_Subset
  <1> QED BY <1>2, FS_CardinalityType DEF Occurrences

\* The signals in the pipe are delivered: the wait, if it was there, is now queued.
LEMMA DeliverKeeps ==
  ASSUME IndInv, Dequeue("pipe"), DeliverSignals
  PROVE  /\ op_queue' \in Seq(Operations) /\ WellOrdered(op_queue')
         /\ undelivered' \in [Signals -> Nat]
         /\ "task" \in Elements(op_queue') /\ "pipe" \notin Elements(op_queue')
         /\ "socket" \in Elements(op_queue') <=> "socket" \in Elements(op_queue)
         /\ "recv" \in Elements(op_queue') <=> "recv" \in Elements(op_queue)
         /\ \/ /\ signal_waiting' = signal_waiting
               /\ ~signal_waiting \/ pipe = <<>>
               /\ "signal" \in Elements(op_queue') <=> "signal" \in Elements(op_queue)
            \/ /\ signal_waiting /\ ~signal_waiting' /\ pipe # <<>>
               /\ "signal" \notin Elements(op_queue) /\ "signal" \in Elements(op_queue')
PROOF
  <1> DEFINE deliver == signal_waiting /\ pipe # <<>>
             kept == IF deliver THEN Tail(pipe) ELSE pipe
             rest == Tail(op_queue)
  <1>0. /\ signal_waiting' = (signal_waiting /\ pipe = <<>>)
        /\ op_queue' = IF deliver THEN Append(rest, "signal") ELSE rest
        /\ undelivered' = [s \in Signals |-> undelivered[s] + Occurrences(kept, s)]
    BY DEF DeliverSignals
  <1>1. /\ pc = "run" /\ ~stopped
        /\ rest \in Seq(Operations) /\ WellOrdered(rest)
        /\ Elements(rest) = Elements(op_queue) \ {"pipe"}
        /\ "task" \in Elements(rest)
    BY DequeueKeeps DEF Operations
  <1>2. undelivered' \in [Signals -> Nat]
    <2>1. kept \in Seq(Signals)
      BY DEF IndInv, TypeOK
    <2>2. \A s \in Signals : undelivered[s] \in Nat /\ Occurrences(kept, s) \in Nat
      BY <2>1, OccurrencesNat DEF IndInv, TypeOK
    <2> HIDE DEF kept
    <2> QED BY <1>0, <2>2
  <1>3. CASE deliver
    <2>1. "signal" \notin Elements(op_queue)
      BY <1>1, <1>3, WaitPlace DEF Over
    <2>2. "signal" \notin Elements(rest) \cup Descriptors /\ "signal" \in Operations
      BY <1>1, <2>1 DEF Descriptors, Operations
    <2>3. /\ op_queue' \in Seq(Operations) /\ WellOrdered(op_queue')
          /\ Elements(op_queue') = Elements(rest) \cup {"signal"}
      BY <1>0, <1>1, <1>3, <2>2, AppendQueue
    <2> QED BY <1>0, <1>1, <1>2, <1>3, <2>1, <2>3
  <1>4. CASE ~deliver
    <2>1. op_queue' = rest /\ signal_waiting' = signal_waiting
      BY <1>0, <1>4 DEF IndInv, TypeOK
    <2> QED BY <1>1, <1>2, <1>4, <2>1
  <1> QED BY <1>3, <1>4

LEMMA RunPipeStep ==
  ASSUME IndInv, RunPipe
  PROVE  IndInv'
PROOF
  <1> USE DEF IndInv
  <1>0. /\ Dequeue("pipe") /\ DeliverSignals /\ pipe' = <<>>
        /\ UNCHANGED <<pc, receive, installed, running, handled>>
    BY DEF RunPipe
  <1>w. UNCHANGED <<outstanding_work, stopped>>
    BY DEF RunPipe, WorkCleanup, TypeOK
  <1>q. /\ pc = "run" /\ ~stopped
        /\ task_interrupted' \in BOOLEAN
        /\ ready \subseteq ready' /\ ready' \subseteq Descriptors \cup {"interrupter"}
    BY <1>0, DequeueKeeps DEF Operations
  <1>d. /\ op_queue' \in Seq(Operations) /\ WellOrdered(op_queue')
        /\ undelivered' \in [Signals -> Nat]
        /\ "task" \in Elements(op_queue')
        /\ "socket" \in Elements(op_queue') <=> "socket" \in Elements(op_queue)
        /\ "recv" \in Elements(op_queue') <=> "recv" \in Elements(op_queue)
        /\ \/ /\ signal_waiting' = signal_waiting
              /\ "signal" \in Elements(op_queue') <=> "signal" \in Elements(op_queue)
           \/ /\ signal_waiting /\ ~signal_waiting'
              /\ "signal" \notin Elements(op_queue) /\ "signal" \in Elements(op_queue')
    BY <1>0, DeliverKeeps
  <1>1. TypeOK'
    <2>1. signal_waiting' \in BOOLEAN
      BY <1>0 DEF DeliverSignals
    <2>2. pipe' \in Seq(Signals) /\ Len(pipe') <= PipeSize
      BY <1>0, LoopAssumption
    <2> QED BY <1>0, <1>w, <1>q, <1>d, <2>1, <2>2 DEF TypeOK, receive
  <1>2. QueueInv'
    BY <1>0, <1>q, <1>d DEF QueueInv, Over
  <1>3. Edges'
    BY <1>0, <1>q, <1>d DEF Edges, receive, Over
  <1>4. Phase'
    BY <1>0, <1>w DEF Phase
  <1>5. Tracked'
    <2>1. Waits' = Waits /\ Receives' = Receives
      BY <1>0, <1>d DEF Waits, Receives, Count, receive
    <2> QED BY <1>0, <1>w, <2>1 DEF Tracked
  <1> QED BY <1>1, <1>2, <1>3, <1>4, <1>5

LEMMA RunSignalStep ==
  ASSUME IndInv, RunSignal
  PROVE  IndInv'
PROOF
  <1> USE DEF IndInv
  <1>0. /\ Dequeue("signal") /\ op_queue' = Tail(op_queue) /\ pc' = "signal_handler"
        /\ UNCHANGED <<outstanding_work, stopped, receive, signal, running, handled>>
    BY DEF RunSignal
  <1>q. /\ pc = "run" /\ ~stopped /\ running
        /\ op_queue' \in Seq(Operations) /\ WellOrdered(op_queue')
        /\ "signal" \in Elements(op_queue) /\ Elements(op_queue') = Elements(op_queue) \ {"signal"}
        /\ "task" \in Elements(op_queue')
        /\ task_interrupted' \in BOOLEAN
        /\ ready \subseteq ready' /\ ready' \subseteq Descriptors \cup {"interrupter"}
    BY <1>0, DequeueKeeps DEF Operations
  <1>1. TypeOK'
    BY <1>0, <1>q DEF TypeOK, receive, signal, Looping
  <1>2. QueueInv' /\ Edges'
    BY <1>0, <1>q DEF QueueInv, Edges, receive, signal, Over
  <1>3. Phase'
    BY <1>0, <1>q DEF Phase, signal, Setup, Looping, Teardown
  <1>4. Tracked'
    BY <1>0, <1>q DEF Tracked, Receives, Waits, Count, receive, signal, Over
  <1> QED BY <1>1, <1>2, <1>3, <1>4

\* The handler ends with the receive started again: the work count does not fall.
LEMMA ReceiveHandlerStep ==
  ASSUME IndInv, ReceiveHandler
  PROVE  IndInv'
PROOF
  <1> USE DEF IndInv
  <1>0. /\ pc = "handler" /\ pc' = "run" /\ handled' = recv_buffer /\ StartReceive
        /\ UNCHANGED <<signal, running>>
        /\ ~recv_pending /\ "recv" \notin Elements(op_queue) /\ WellOrdered(op_queue)
    BY ReceivePlace DEF ReceiveHandler, QueueInv, Over
  <1>w. outstanding_work # 0 /\ UNCHANGED <<outstanding_work, stopped>>
    <2>1. outstanding_work # 0 /\ outstanding_work \in Nat /\ stopped \in BOOLEAN
      BY <1>0 DEF TypeOK, Tracked, Receives, Waits, Count, Over
    <2> QED BY <2>1 DEF ReceiveHandler, WorkCleanup
  <1>q. /\ op_queue' \in Seq(Operations) /\ WellOrdered(op_queue')
        /\ socket_buffer' \in Seq(Datagrams) /\ Len(socket_buffer') <= SocketBuffer
        /\ recv_buffer' \in Datagrams \cup {NoData}
        /\ task_interrupted' \in BOOLEAN
        /\ ready \subseteq ready' /\ ready' \subseteq Descriptors \cup {"interrupter"}
        /\ \/ recv_pending' = TRUE /\ socket_buffer' = <<>> /\ op_queue' = op_queue
           \/ recv_pending' = FALSE /\ Elements(op_queue') = Elements(op_queue) \cup {"recv"}
    BY <1>0, StartReceiveKeeps
  <1>1. TypeOK'
    <2>1. recv_pending' \in BOOLEAN
      BY <1>q, Zenon
    <2> QED BY <1>0, <1>w, <1>q, <2>1 DEF TypeOK, signal, Looping
  <1>2. QueueInv'
    BY <1>0, <1>q DEF QueueInv, Over
  <1>3. Edges'
    BY <1>0, <1>q DEF Edges, signal, Over
  <1>4. Phase'
    BY <1>0, <1>w DEF Phase, signal, Setup, Looping, Teardown
  <1>5. Tracked'
    BY <1>0, <1>w, <1>q DEF TypeOK, Tracked, Receives, Waits, Count, signal, Over
  <1> QED BY <1>1, <1>2, <1>3, <1>4, <1>5

LEMMA SignalHandlerStep ==
  ASSUME IndInv, SignalHandler
  PROVE  IndInv'
PROOF
  <1> USE DEF IndInv
  <1>1. TypeOK'
    BY DEF TypeOK, SignalHandler, scheduler, receive, signal, Looping
  <1>2. QueueInv' /\ Edges'
    BY DEF QueueInv, Edges, SignalHandler, scheduler, receive, signal, Over
  <1>3. Phase'
    BY DEF Phase, SignalHandler, scheduler, signal, Setup, Looping, Teardown
  <1>4. Tracked'
    BY DEF Tracked, Receives, Waits, Count, SignalHandler, scheduler, receive, signal, Over
  <1> QED BY <1>1, <1>2, <1>3, <1>4

LEMMA StopStep ==
  ASSUME IndInv, Stop
  PROVE  IndInv'
PROOF
  <1> USE DEF IndInv
  <1>0. /\ pc = "stop" /\ pc' = "run" /\ stopped' = TRUE /\ Wake(TRUE)
        /\ outstanding_work' = outstanding_work - 1
        /\ UNCHANGED <<op_queue, receive, signal, running, handled>>
    BY DEF Stop
  <1>r. /\ task_interrupted' \in BOOLEAN
        /\ ready \subseteq ready' /\ ready' \subseteq Descriptors \cup {"interrupter"}
    BY <1>0, WakeKeeps
  <1>w. outstanding_work' \in Nat
    BY <1>0 DEF TypeOK, Tracked, Receives, Waits, Count, Over
  <1>1. TypeOK'
    BY <1>0, <1>r, <1>w DEF TypeOK, receive, signal, Looping
  <1>2. QueueInv' /\ Edges'
    BY <1>0, <1>r DEF QueueInv, Edges, receive, signal, Over
  <1>3. Phase'
    BY <1>0 DEF Phase, signal, Setup, Looping, Teardown
  <1>4. Tracked'
    BY <1>0 DEF TypeOK, Tracked, Receives, Waits, Count, receive, signal, Phase, Over
  <1> QED BY <1>1, <1>2, <1>3, <1>4
--------------------------------------------------------------------------------
\* The join and the destructors.

LEMMA JoinStep ==
  ASSUME IndInv, Join
  PROVE  IndInv'
PROOF
  <1> USE DEF IndInv
  <1>1. TypeOK'
    BY DEF TypeOK, Join, scheduler, receive, signal, Teardown
  <1>2. QueueInv' /\ Edges'
    BY DEF QueueInv, Edges, Join, scheduler, receive, signal, Over
  <1>3. Phase'
    BY DEF Phase, Join, scheduler, signal, Setup, Looping, Teardown
  <1>4. Tracked'
    BY DEF Tracked, Receives, Waits, Count, Join, scheduler, receive, signal, Over
  <1> QED BY <1>1, <1>2, <1>3, <1>4

LEMMA RemoveSignalStep ==
  ASSUME IndInv, NEW s \in Signals, RemoveSignal(s)
  PROVE  IndInv'
PROOF
  <1> USE DEF IndInv
  <1>0. /\ pc = "joined" /\ installed' = installed \ {s}
        /\ undelivered' = [undelivered EXCEPT ![s] = 0]
        /\ UNCHANGED <<outstanding_work, stopped, receive, pipe, running, handled>>
    BY DEF RemoveSignal
  <1>s. stopped /\ ~running /\ ~signal_waiting
    BY <1>0, WaitPlace DEF Phase, Teardown, Over
  <1>q. /\ pc' \in {"joined", "close"} /\ op_queue' = op_queue /\ signal_waiting' = FALSE
        /\ UNCHANGED <<ready, task_interrupted>>
    BY <1>0, <1>s DEF RemoveSignal, Wake, TypeOK
  <1>1. TypeOK'
    <2>1. undelivered' \in [Signals -> Nat] /\ installed' \subseteq Signals
      BY <1>0 DEF TypeOK
    <2> QED BY <1>0, <1>q, <2>1 DEF TypeOK, receive, Teardown
  <1>2. QueueInv' /\ Edges'
    BY <1>0, <1>q DEF QueueInv, Edges, receive, Over
  <1>3. Phase'
    BY <1>0, <1>s, <1>q DEF Phase, Setup, Looping, Teardown
  <1>4. Tracked'
    BY <1>0, <1>s, <1>q DEF Tracked, Receives, Waits, Count, receive, Over
  <1> QED BY <1>1, <1>2, <1>3, <1>4

LEMMA CloseSocketStep ==
  ASSUME IndInv, CloseSocket
  PROVE  IndInv'
PROOF
  <1> USE DEF IndInv
  <1>0. /\ pc = "close" /\ pc' = "shutdown_signals"
        /\ op_queue' = IF recv_pending THEN Append(op_queue, "recv") ELSE op_queue
        /\ recv_pending' = FALSE /\ socket_buffer' = <<>>
        /\ task_interrupted' = (task_interrupted \/ recv_pending) /\ ready' = ready \ {"socket"}
        /\ UNCHANGED <<outstanding_work, stopped, recv_buffer, signal, running, handled>>
    BY DEF CloseSocket
  <1>r. recv_pending <=> "recv" \notin Elements(op_queue)
    BY <1>0, ReceivePlace DEF Over
  <1>q. /\ op_queue' \in Seq(Operations) /\ WellOrdered(op_queue')
        /\ Elements(op_queue') = Elements(op_queue) \cup {"recv"}
    <2>1. CASE recv_pending
      <3>1. "recv" \notin Elements(op_queue) \cup Descriptors
        BY <1>r, <2>1 DEF Descriptors
      <3> QED BY <1>0, <2>1, <3>1, Types, AppendQueue DEF QueueInv
    <2>2. CASE ~recv_pending
      BY <1>0, <1>r, <2>2 DEF QueueInv, TypeOK
    <2> QED BY <2>1, <2>2
  <1>1. TypeOK'
    <2>1. socket_buffer' \in Seq(Datagrams) /\ Len(socket_buffer') <= SocketBuffer
      BY <1>0, LoopAssumption
    <2>2. task_interrupted' \in BOOLEAN
      BY <1>0 DEF TypeOK
    <2> QED BY <1>0, <1>q, <2>1, <2>2 DEF TypeOK, signal, Teardown
  <1>2. QueueInv'
    BY <1>0, <1>q DEF QueueInv, Over
  <1>3. Edges'
    BY <1>0, <1>q DEF Edges, signal, Over
  <1>4. Phase'
    BY <1>0 DEF Phase, signal, Setup, Looping, Teardown
  <1>5. Tracked'
    BY <1>0, <1>r, <1>q DEF Tracked, Receives, Waits, Count, signal, Over
  <1> QED BY <1>1, <1>2, <1>3, <1>4, <1>5

LEMMA ShutdownSignalsStep ==
  ASSUME IndInv, ShutdownSignals
  PROVE  IndInv'
PROOF
  <1> USE DEF IndInv
  <1>1. TypeOK'
    <2>1. pipe' \in Seq(Signals) /\ Len(pipe') <= PipeSize
      BY LoopAssumption DEF ShutdownSignals
    <2> QED BY <2>1 DEF TypeOK, ShutdownSignals, scheduler, receive, Teardown
  <1>2. QueueInv' /\ Edges'
    BY DEF QueueInv, Edges, ShutdownSignals, scheduler, receive, Over
  <1>3. Phase'
    BY DEF Phase, ShutdownSignals, scheduler, Setup, Looping, Teardown
  <1>4. Tracked'
    BY DEF Tracked, Receives, Waits, Count, ShutdownSignals, scheduler, receive, Over
  <1> QED BY <1>1, <1>2, <1>3, <1>4

LEMMA ShutdownSchedulerStep ==
  ASSUME IndInv, ShutdownScheduler
  PROVE  IndInv'
PROOF
  <1> USE DEF IndInv
  <1>1. op_queue' \in Seq(Operations) /\ WellOrdered(op_queue')
    BY EmptyQueue DEF ShutdownScheduler
  <1>2. TypeOK'
    BY <1>1 DEF TypeOK, ShutdownScheduler, signal, Teardown
  <1>3. QueueInv' /\ Edges' /\ Tracked'
    BY <1>1 DEF QueueInv, Edges, Tracked, ShutdownScheduler, Over
  <1>4. Phase'
    BY DEF Phase, ShutdownScheduler, signal, Setup, Looping, Teardown
  <1> QED BY <1>2, <1>3, <1>4

LEMMA StutterStep ==
  ASSUME IndInv, UNCHANGED vars
  PROVE  IndInv'
PROOF
  BY DEF IndInv, TypeOK, QueueInv, Edges, Phase, Tracked, Receives, Waits,
         vars, scheduler, receive, signal
--------------------------------------------------------------------------------
LEMMA StepIndInv == IndInv /\ [Next]_vars => IndInv'
PROOF
  <1> SUFFICES ASSUME IndInv, [Next]_vars PROVE IndInv'
    OBVIOUS
  <1>1. CASE Environment
    BY <1>1, ArriveStep, RaiseStep, RaiseInEpollStep, KillStep DEF Environment
  <1>2. CASE SetupStep
    BY <1>2, OpenSocketStep, FirstReceiveStep, AddSignalStep, AsyncWaitStep, RunStep DEF SetupStep
  <1>3. CASE LoopStep
    BY <1>3, LeaveStep, RunTaskStep, EpollWaitStep, RunReceiveStep, RunSocketStep, RunPipeStep,
       RunSignalStep, ReceiveHandlerStep, SignalHandlerStep, StopStep DEF LoopStep
  <1>4. CASE TeardownStep
    BY <1>4, RemoveSignalStep, CloseSocketStep, ShutdownSignalsStep, ShutdownSchedulerStep
    DEF TeardownStep
  <1>5. CASE Join
    BY <1>5, JoinStep
  <1>6. CASE Ended \/ UNCHANGED vars
    BY <1>6, StutterStep DEF Ended
  <1> QED BY <1>1, <1>2, <1>3, <1>4, <1>5, <1>6 DEF Next, MainStep

\* The invariant of asio's loop, for every size of the kernel's buffers.
THEOREM LoopInvariant == Spec => []IndInv
PROOF
  BY InitIndInv, StepIndInv, PTL DEF Spec

\* The scheduler's, the reactor's and the signal service's members keep their types;
\* in particular the work count never falls below zero.
THEOREM LoopTypeCorrect == Spec => []TypeOK
PROOF
  <1>1. IndInv => TypeOK
    BY DEF IndInv
  <1> QED BY <1>1, LoopInvariant, PTL

\* outstanding_work_ is the number of the user's operations in flight, and there is
\* exactly one receive from the first start_receive to the end.
THEOREM WorkCountCorrect == Spec => []WorkCounted
PROOF
  <1>1. IndInv => WorkCounted
    BY DEF IndInv, Tracked, WorkCounted, Over
  <1> QED BY <1>1, LoopInvariant, PTL

\* No descriptor is queued twice, and the task runs only when what it returned before
\* has been dequeued, as the comment in epoll_reactor::run demands.
THEOREM QueueCorrect == Spec => []QueueWellFormed
PROOF
  <1>1. IndInv => QueueWellFormed
    BY DEF IndInv, QueueInv, WellOrdered, QueueWellFormed, Over, Descriptors
  <1> QED BY <1>1, LoopInvariant, PTL

\* Main's thread sleeps only while both its operations wait, and an edge is pending
\* for everything that could complete them.
THEOREM WakeupsKept == Spec => []NoLostWakeup
PROOF
  <1>1. IndInv => NoLostWakeup
    <2> SUFFICES ASSUME IndInv, pc = "block" PROVE NoLostWakeup
      BY DEF NoLostWakeup
    <2>1. Elements(op_queue) = {} /\ ~stopped
      BY DEF IndInv, QueueInv, Phase
    <2>2. op_queue = <<>>
      BY <2>1, EmptyQueue DEF IndInv, TypeOK
    <2>3. recv_pending /\ signal_waiting
      BY <2>1, ReceivePlace, WaitPlace DEF Over
    <2> QED BY <2>1, <2>2, <2>3 DEF IndInv, Edges, NoLostWakeup, Over
  <1> QED BY <1>1, LoopInvariant, PTL
--------------------------------------------------------------------------------
\* The event loop implements NetworkLoop.

LEMMA Prepended ==
  ASSUME NEW S, NEW x \in S, NEW s \in Seq(S)
  PROVE  /\ <<x>> \o s # <<>> /\ Head(<<x>> \o s) = x /\ Tail(<<x>> \o s) = s
         /\ Len(<<x>> \o s) = Len(s) + 1
         /\ \A d \in S : Append(<<x>> \o s, d) = <<x>> \o Append(s, d)
         /\ s # <<>> => <<Head(s)>> \o Tail(s) = s
PROOF
  OBVIOUS

LEMMA ArriveRefines ==
  ASSUME IndInv, NEW d \in Datagrams, Arrive(d)
  PROVE  Loop!Arrive(d)
PROOF
  <1>1. /\ pc \notin {"open", "shutdown_signals", "shutdown_scheduler", "destroyed", "killed"}
        /\ Len(socket_buffer) < SocketBuffer /\ socket_buffer' = Append(socket_buffer, d)
        /\ UNCHANGED <<pc, op_queue, recv_buffer, pipe, running, handled>>
    BY DEF Arrive, scheduler, signal
  <1>2. /\ socket_buffer \in Seq(Datagrams) /\ recv_buffer \in Datagrams \cup {NoData}
        /\ Len(socket_buffer) \in Nat /\ SocketBuffer \in Nat
        /\ socket_buffer \in Seq(Datagrams \cup {NoData})
    BY LoopAssumption DEF IndInv, TypeOK
  <1>3. /\ Len(<<recv_buffer>> \o socket_buffer) = Len(socket_buffer) + 1
        /\ Append(<<recv_buffer>> \o socket_buffer, d) = <<recv_buffer>> \o Append(socket_buffer, d)
    BY <1>2, Prepended
  <1>4. Len(Unhandled) <= SocketBuffer /\ Unhandled' = Append(Unhandled, d)
    BY <1>1, <1>2, <1>3 DEF Unhandled
  <1>5. Stage' = Stage /\ Stage \in {"starting", "looping", "returned"}
    BY <1>1 DEF Stage, IndInv, TypeOK, Setup, Looping, Teardown
  <1>6. UNCHANGED <<handled, Signalled, running>>
    BY <1>1 DEF Signalled
  <1> QED BY <1>4, <1>5, <1>6 DEF Loop!Arrive

\* A signal in the pipe.  Once running is cleared another one makes no difference.
LEMMA RaiseRefines ==
  ASSUME IndInv, NEW s \in Signals, Raise(s) \/ RaiseInEpoll(s)
  PROVE  [Loop!Raise]_(Loop!vars)
PROOF
  <1>1. /\ pc # "killed" /\ WriteSignal(s) /\ UNCHANGED <<recv_buffer, socket_buffer, running, handled>>
    BY DEF Raise, RaiseInEpoll, receive
  <1>2. \/ UNCHANGED <<pc, op_queue>>
        \/ /\ pc = "block" /\ pc' = "run" /\ Elements(op_queue) = {}
           /\ Elements(op_queue') = {"task"}
    <2>1. CASE Raise(s)
      BY <2>1 DEF Raise, scheduler
    <2>2. CASE RaiseInEpoll(s)
      <3>1. pc = "block" /\ pc' = "run" /\ op_queue' = Append(op_queue, "task")
        BY <2>2 DEF RaiseInEpoll
      <3>2. Elements(op_queue) = {} /\ Elements(op_queue') = Elements(op_queue) \cup {"task"}
        BY <3>1, Types, AppendQueue DEF IndInv, QueueInv
      <3> QED BY <3>1, <3>2
    <2> QED BY <2>1, <2>2
  <1>3. pipe' # <<>>
    BY <1>1, WriteKeeps DEF IndInv
  <1>4. Unhandled' = Unhandled /\ Stage' = Stage
    BY <1>1, <1>2 DEF Unhandled, Stage, Setup, Looping, Teardown
  <1>5. Signalled' = TRUE
    BY <1>3 DEF Signalled
  <1>6. CASE Stage \in {"starting", "looping", "returned"}
    BY <1>1, <1>4, <1>5, <1>6 DEF Loop!Raise
  <1>7. CASE Stage \notin {"starting", "looping", "returned"}
    <2>1. pc \in Teardown
      BY <1>1, <1>7 DEF Stage, IndInv, TypeOK
    <2>2. Signalled = TRUE
      BY <2>1 DEF IndInv, Phase, Signalled
    <2> QED BY <1>1, <1>4, <1>5, <2>2 DEF Loop!vars
  <1> QED BY <1>6, <1>7

LEMMA KillRefines ==
  ASSUME IndInv, Kill
  PROVE  Loop!Kill
PROOF
  <1>1. /\ installed # Signals /\ pc' = "killed" /\ pc \notin Over
        /\ UNCHANGED <<op_queue, pipe, running, handled>>
    BY DEF Kill, scheduler, signal, Over
  <1>2. pc \notin Looping
    BY <1>1 DEF IndInv, Phase
  <1>3. Signalled' = Signalled
    BY <1>1, <1>2 DEF Signalled, Looping
  <1>4. Unhandled' = <<>> /\ Stage # "looping" /\ Stage' = "killed"
    BY <1>1, <1>2 DEF Unhandled, Stage, Setup, Looping
  <1> QED BY <1>1, <1>3, <1>4 DEF Loop!Kill

\* The receive is started: the datagram that it takes at once is still to be handled.
LEMMA StartReceiveShows ==
  ASSUME IndInv, StartReceive, "recv" \notin Elements(op_queue), ~recv_pending,
         pc' \in {"signals", "run"}
  PROVE  /\ Unhandled' = socket_buffer
         /\ "signal" \in Elements(op_queue') <=> "signal" \in Elements(op_queue)
PROOF
  <1>1. CASE socket_buffer = <<>>
    BY <1>1 DEF StartReceive, Unhandled
  <1>2. CASE socket_buffer # <<>>
    <2>1. /\ op_queue' = Append(op_queue, "recv")
          /\ recv_buffer' = Head(socket_buffer) /\ socket_buffer' = Tail(socket_buffer)
      BY <1>2 DEF StartReceive, ReceiveOne
    <2>2. Elements(op_queue') = Elements(op_queue) \cup {"recv"}
      BY <2>1, Types, AppendQueue DEF IndInv
    <2>3. <<recv_buffer'>> \o socket_buffer' = socket_buffer
      BY <1>2, <2>1 DEF IndInv, TypeOK
    <2> QED BY <2>2, <2>3 DEF Unhandled
  <1> QED BY <1>1, <1>2

LEMMA SetupRefines ==
  ASSUME IndInv, SetupStep
  PROVE  [Loop!Next]_(Loop!vars)
PROOF
  <1>1. CASE OpenSocket
    <2>1. /\ pc = "open" /\ pc' = "receive" /\ Elements(op_queue) = {} /\ Elements(op_queue') = {"task"}
          /\ UNCHANGED <<socket_buffer, recv_buffer, pipe, running, handled>>
      BY <1>1, SingleTask DEF OpenSocket, receive, signal, IndInv, QueueInv
    <2> QED BY <2>1 DEF Loop!vars, Unhandled, Signalled, Stage, Setup
  <1>2. CASE FirstReceive
    <2>1. /\ pc = "receive" /\ pc' = "signals" /\ StartReceive /\ UNCHANGED <<pipe, running, handled>>
      BY <1>2 DEF FirstReceive, signal
    <2>2. ~recv_pending /\ "recv" \notin Elements(op_queue)
      BY <2>1, ReceivePlace DEF Over
    <2>3. /\ Unhandled' = socket_buffer
          /\ "signal" \in Elements(op_queue') <=> "signal" \in Elements(op_queue)
      BY <2>1, <2>2, StartReceiveShows
    <2>4. Unhandled = socket_buffer
      BY <2>1, <2>2 DEF Unhandled
    <2>5. Signalled' = Signalled /\ Stage' = Stage
      BY <2>1, <2>3 DEF Signalled, Stage, Setup
    <2> QED BY <2>1, <2>3, <2>4, <2>5 DEF Loop!vars
  <1>3. CASE \E s \in Signals : AddSignal(s)
    <2>1. /\ pc = "signals" /\ pc' \in {"signals", "wait"}
          /\ UNCHANGED <<op_queue, socket_buffer, recv_buffer, pipe, running, handled>>
      BY <1>3 DEF AddSignal, scheduler, receive
    <2> QED BY <2>1 DEF Loop!vars, Unhandled, Signalled, Stage, Setup
  <1>4. CASE AsyncWait
    <2>1. /\ pc = "wait" /\ pc' = "start"
          /\ UNCHANGED <<socket_buffer, recv_buffer, pipe, running, handled>>
          /\ op_queue' = op_queue \/ op_queue' = Append(op_queue, "signal")
      BY <1>4 DEF AsyncWait, receive
    <2>2. Elements(op_queue') \in {Elements(op_queue), Elements(op_queue) \cup {"signal"}}
      BY <2>1, Types, AppendQueue DEF IndInv
    <2>3. Unhandled' = Unhandled /\ Stage' = Stage /\ Stage = "starting"
      BY <2>1, <2>2 DEF Unhandled, Stage, Setup
    <2>4. Signalled' = Signalled \/ Signalled' = TRUE
      BY <2>1, <2>2 DEF Signalled
    <2> QED BY <2>1, <2>3, <2>4 DEF Loop!vars, Loop!Next, Loop!Raise
  <1>5. CASE Run
    <2>1. /\ pc = "start" /\ UNCHANGED <<op_queue, socket_buffer, recv_buffer, pipe, running, handled>>
      BY <1>5 DEF Run, receive, signal
    <2>2. outstanding_work # 0
      BY <2>1 DEF IndInv, Tracked, Receives, Waits, Count, Over
    <2>3. pc' = "run"
      BY <1>5, <2>2 DEF Run
    <2>4. Unhandled' = Unhandled /\ Signalled' = Signalled /\ Stage = "starting" /\ Stage' = "looping"
      BY <2>1, <2>3 DEF Unhandled, Signalled, Stage, Setup, Looping
    <2> QED BY <2>1, <2>4 DEF Loop!Next, Loop!Start
  <1> QED BY <1>1, <1>2, <1>3, <1>4, <1>5 DEF SetupStep

LEMMA ReceiveHandlerRefines ==
  ASSUME IndInv, ReceiveHandler
  PROVE  Loop!Handle
PROOF
  <1>1. /\ pc = "handler" /\ pc' = "run" /\ handled' = recv_buffer /\ StartReceive
        /\ UNCHANGED <<pipe, running>>
    BY DEF ReceiveHandler, signal
  <1>2. ~recv_pending /\ "recv" \notin Elements(op_queue) /\ running
    BY <1>1, ReceivePlace DEF IndInv, Phase, Over
  <1>3. /\ Unhandled' = socket_buffer
        /\ "signal" \in Elements(op_queue') <=> "signal" \in Elements(op_queue)
    BY <1>1, <1>2, StartReceiveShows
  <1>4. /\ recv_buffer \in Datagrams \cup {NoData} /\ socket_buffer \in Seq(Datagrams \cup {NoData})
        /\ Unhandled = <<recv_buffer>> \o socket_buffer
    BY <1>1 DEF IndInv, TypeOK, Unhandled
  <1>5. Unhandled # <<>> /\ Head(Unhandled) = recv_buffer /\ Tail(Unhandled) = socket_buffer
    BY <1>4, Prepended
  <1>6. Signalled' = Signalled /\ Stage = "looping" /\ Stage' = "looping"
    BY <1>1, <1>3 DEF Signalled, Stage, Setup, Looping
  <1> QED BY <1>1, <1>2, <1>3, <1>5, <1>6 DEF Loop!Handle

\* The steps of the loop that no handler sees.
LEMMA SilentRefines ==
  ASSUME IndInv, RunTask \/ EpollWait \/ RunReceive \/ RunSocket \/ RunPipe \/ RunSignal
  PROVE  UNCHANGED Loop!vars
PROOF
  <1>0. UNCHANGED <<running, handled>>
    BY DEF RunTask, EpollWait, RunReceive, RunSocket, RunPipe, RunSignal
  <1>1. CASE RunTask
    <2>1. /\ pc = "run" /\ op_queue # <<>> /\ Head(op_queue) = "task" /\ op_queue' = Tail(op_queue)
          /\ pc' \in {"poll", "block"} /\ UNCHANGED <<socket_buffer, recv_buffer, pipe>>
      BY <1>1 DEF RunTask, receive, signal
    <2>2. Elements(op_queue') = Elements(op_queue) \ {"task"}
      BY <2>1, Types, TailQueue DEF IndInv, QueueInv
    <2> QED BY <1>0, <2>1, <2>2 DEF Loop!vars, Unhandled, Signalled, Stage, Setup, Looping
  <1>2. CASE EpollWait
    <2>1. /\ pc \in {"poll", "block"} /\ pc' = "run" /\ UNCHANGED <<socket_buffer, recv_buffer, pipe>>
      BY <1>2 DEF EpollWait, receive, signal
    <2>2. PICK ds \in Listings(Events \cap Descriptors) : op_queue' = Requeue(ds)
      BY <1>2 DEF EpollWait
    <2>3. ds \in Seq(Operations) /\ NoRepeats(ds) /\ Elements(ds) \subseteq Descriptors
      <3>1. PICK n \in 0 .. 2 : ds \in [1 .. n -> Events \cap Descriptors]
        BY DEF Listings
      <3>2. ds \in Seq(Operations)
        BY <3>1 DEF Descriptors, Operations
      <3> QED BY <3>2 DEF Listings
    <2>4. Elements(op_queue) \cap (Descriptors \cup {"task"}) = {} /\ WellOrdered(op_queue)
      BY <2>1 DEF IndInv, QueueInv
    <2>5. Elements(op_queue') = Elements(op_queue) \cup Elements(ds) \cup {"task"}
      BY <2>2, <2>3, <2>4, Types, RequeueQueue DEF IndInv, Requeue
    <2>6. /\ "recv" \in Elements(op_queue') <=> "recv" \in Elements(op_queue)
          /\ "signal" \in Elements(op_queue') <=> "signal" \in Elements(op_queue)
      BY <2>3, <2>5 DEF Descriptors
    <2> QED BY <1>0, <2>1, <2>6 DEF Loop!vars, Unhandled, Signalled, Stage, Setup, Looping
  <1>3. CASE RunReceive
    <2>1. /\ Dequeue("recv") /\ op_queue' = Tail(op_queue) /\ pc' = "handler"
          /\ UNCHANGED <<socket_buffer, recv_buffer, pipe>>
      BY <1>3 DEF RunReceive, receive, signal
    <2>2. /\ pc = "run" /\ "recv" \in Elements(op_queue)
          /\ Elements(op_queue') = Elements(op_queue) \ {"recv"}
      BY <2>1, DequeueKeeps DEF Operations
    <2> QED BY <1>0, <2>1, <2>2 DEF Loop!vars, Unhandled, Signalled, Stage, Setup, Looping
  <1>4. CASE RunSocket
    <2>1. Dequeue("socket") /\ op_queue' = Tail(op_queue) /\ pipe' = pipe
      BY <1>4 DEF RunSocket, signal
    <2>2. pc = "run" /\ Elements(op_queue') = Elements(op_queue) \ {"socket"}
      BY <2>1, DequeueKeeps DEF Operations
    <2>3. recv_pending <=> "recv" \notin Elements(op_queue)
      BY <2>2, ReceivePlace DEF Over
    <2>4. pc' \in {"run", "handler"} /\ Unhandled' = Unhandled
      <3>1. CASE recv_pending /\ socket_buffer # <<>>
        <4>1. /\ pc' = "handler"
              /\ recv_buffer' = Head(socket_buffer) /\ socket_buffer' = Tail(socket_buffer)
          BY <1>4, <3>1 DEF RunSocket, ReceiveOne
        <4>2. <<recv_buffer'>> \o socket_buffer' = socket_buffer
          BY <3>1, <4>1 DEF IndInv, TypeOK
        <4> QED BY <2>2, <2>3, <3>1, <4>1, <4>2 DEF Unhandled
      <3>2. CASE ~(recv_pending /\ socket_buffer # <<>>)
        <4>1. UNCHANGED <<pc, socket_buffer, recv_buffer>>
          BY <1>4, <3>2 DEF RunSocket, receive
        <4> QED BY <2>2, <4>1 DEF Unhandled
      <3> QED BY <3>1, <3>2
    <2>5. Signalled' = Signalled /\ Stage' = Stage
      BY <1>0, <2>1, <2>2, <2>4 DEF Signalled, Stage, Setup, Looping
    <2> QED BY <1>0, <2>4, <2>5 DEF Loop!vars
  <1>5. CASE RunPipe
    <2>1. /\ Dequeue("pipe") /\ DeliverSignals /\ pipe' = <<>>
          /\ UNCHANGED <<pc, socket_buffer, recv_buffer>>
      BY <1>5 DEF RunPipe, receive
    <2>2. /\ "recv" \in Elements(op_queue') <=> "recv" \in Elements(op_queue)
          /\ \/ /\ ~signal_waiting \/ pipe = <<>>
                /\ "signal" \in Elements(op_queue') <=> "signal" \in Elements(op_queue)
             \/ pipe # <<>> /\ "signal" \in Elements(op_queue')
      BY <2>1, DeliverKeeps
    <2>3. pc = "run" /\ ~stopped
      BY <2>1 DEF Dequeue
    <2>4. ~signal_waiting => "signal" \in Elements(op_queue)
      BY <2>3, WaitPlace DEF Over
    <2>5. Signalled' = Signalled
      BY <1>0, <2>1, <2>2, <2>3, <2>4 DEF Signalled
    <2>6. Unhandled' = Unhandled /\ Stage' = Stage
      BY <2>1, <2>2 DEF Unhandled, Stage
    <2> QED BY <1>0, <2>5, <2>6 DEF Loop!vars
  <1>6. CASE RunSignal
    <2>1. /\ Dequeue("signal") /\ op_queue' = Tail(op_queue) /\ pc' = "signal_handler"
          /\ UNCHANGED <<socket_buffer, recv_buffer, pipe>>
      BY <1>6 DEF RunSignal, receive, signal
    <2>2. /\ pc = "run" /\ "signal" \in Elements(op_queue)
          /\ Elements(op_queue') = Elements(op_queue) \ {"signal"}
      BY <2>1, DequeueKeeps DEF Operations
    <2> QED BY <1>0, <2>1, <2>2 DEF Loop!vars, Unhandled, Signalled, Stage, Setup, Looping
  <1> QED BY <1>1, <1>2, <1>3, <1>4, <1>5, <1>6

LEMMA StoppingRefines ==
  ASSUME IndInv, SignalHandler \/ Stop \/ Leave
  PROVE  [Loop!Next]_(Loop!vars)
PROOF
  <1>0. UNCHANGED <<op_queue, socket_buffer, recv_buffer, pipe, handled>>
    BY DEF SignalHandler, Stop, Leave, scheduler, receive, signal
  <1>1. CASE SignalHandler
    <2>1. pc = "signal_handler" /\ pc' = "stop" /\ running' = FALSE /\ running
      BY <1>1 DEF SignalHandler, IndInv, Phase
    <2>2. Signalled /\ Signalled' = Signalled /\ Unhandled' = Unhandled
          /\ Stage = "looping" /\ Stage' = "looping"
      BY <1>0, <2>1 DEF Signalled, Unhandled, Stage, Setup, Looping
    <2> QED BY <1>0, <2>1, <2>2 DEF Loop!Next, Loop!HandleSignal
  <1>2. CASE Stop
    <2>1. pc = "stop" /\ pc' = "run" /\ running' = running /\ ~running
      BY <1>2 DEF Stop, IndInv, Phase
    <2> QED BY <1>0, <2>1 DEF Loop!vars, Signalled, Unhandled, Stage, Setup, Looping
  <1>3. CASE Leave
    <2>1. pc = "run" /\ pc' = "returned" /\ running' = running /\ ~running
      BY <1>3 DEF Leave, IndInv, Phase
    <2>2. Signalled' = Signalled /\ Unhandled' = Unhandled
          /\ Stage = "looping" /\ Stage' = "returned"
      BY <1>0, <2>1 DEF Signalled, Unhandled, Stage, Setup, Looping
    <2> QED BY <1>0, <2>1, <2>2 DEF Loop!Next, Loop!Return
  <1> QED BY <1>1, <1>2, <1>3

LEMMA TeardownRefines ==
  ASSUME IndInv, TeardownStep
  PROVE  [Loop!Next]_(Loop!vars)
PROOF
  <1>0. UNCHANGED <<running, handled>>
    BY DEF TeardownStep, RemoveSignal, CloseSocket, ShutdownSignals, ShutdownScheduler
  <1>1. ~running
    BY DEF TeardownStep, RemoveSignal, CloseSocket, ShutdownSignals, ShutdownScheduler,
           IndInv, Phase, Teardown
  <1>2. Signalled' = Signalled
    BY <1>0, <1>1 DEF Signalled
  <1>3. CASE \E s \in Signals : RemoveSignal(s)
    <2>1. /\ pc = "joined" /\ UNCHANGED <<socket_buffer, recv_buffer>>
      BY <1>3 DEF RemoveSignal, receive
    <2>2. ~signal_waiting
      BY <2>1, WaitPlace DEF IndInv, Phase, Teardown, Over
    <2>3. pc' \in {"joined", "close"} /\ op_queue' = op_queue
      BY <1>3, <2>1, <2>2 DEF RemoveSignal
    <2> QED BY <1>0, <1>2, <2>1, <2>3 DEF Loop!vars, Unhandled, Stage, Setup, Looping
  <1>4. CASE CloseSocket
    <2>1. pc = "close" /\ pc' = "shutdown_signals"
      BY <1>4 DEF CloseSocket
    <2>2. Unhandled' = <<>> /\ Stage = "returned" /\ Stage' = "closed"
      BY <2>1 DEF Unhandled, Stage, Setup, Looping
    <2> QED BY <1>0, <1>2, <2>2 DEF Loop!Next, Loop!Close
  <1>5. CASE ShutdownSignals \/ ShutdownScheduler
    <2>1. /\ pc \in {"shutdown_signals", "shutdown_scheduler"}
          /\ pc' \in {"shutdown_scheduler", "destroyed"}
      BY <1>5 DEF ShutdownSignals, ShutdownScheduler
    <2> QED BY <1>0, <1>2, <2>1 DEF Loop!vars, Unhandled, Stage, Setup, Looping
  <1> QED BY <1>3, <1>4, <1>5 DEF TeardownStep

LEMMA LoopRefinementStep == IndInv /\ [Next]_vars => [Loop!Next]_(Loop!vars)
PROOF
  <1> SUFFICES ASSUME IndInv, [Next]_vars PROVE [Loop!Next]_(Loop!vars)
    OBVIOUS
  <1>1. CASE Environment
    BY <1>1, ArriveRefines, RaiseRefines, KillRefines DEF Environment, Loop!Next
  <1>2. CASE SetupStep
    BY <1>2, SetupRefines
  <1>3. CASE LoopStep
    BY <1>3, ReceiveHandlerRefines, SilentRefines, StoppingRefines DEF LoopStep, Loop!Next
  <1>4. CASE TeardownStep
    BY <1>4, TeardownRefines
  <1>5. CASE Ended \/ UNCHANGED vars
    <2>1. UNCHANGED <<pc, op_queue, socket_buffer, recv_buffer, pipe, running, handled>>
      BY <1>5 DEF Ended, vars, scheduler, receive, signal
    <2> QED BY <2>1 DEF Loop!vars, Unhandled, Signalled, Stage
  <1>6. CASE Join
    <2>1. /\ pc = "returned" /\ pc' = "joined"
          /\ UNCHANGED <<op_queue, socket_buffer, recv_buffer, pipe, running, handled>>
      BY <1>6 DEF Join, scheduler, receive, signal
    <2> QED BY <2>1 DEF Loop!vars, Unhandled, Signalled, Stage, Setup, Looping
  <1> QED BY <1>1, <1>2, <1>3, <1>4, <1>5, <1>6 DEF Next, MainStep

\* asio's io_context gives main() what NetworkLoop promises: each datagram is handled
\* once and in order, no handler runs after the signal's, and run() returns only then.
THEOREM LoopRefinement == Spec => ImplementsNetworkLoop
PROOF
  <1>1. Init => Loop!Init
    <2> SUFFICES ASSUME Init PROVE Loop!Init
      OBVIOUS
    <2>1. Elements(op_queue) = {}
      BY EmptyQueue DEF Init
    <2> QED BY <2>1 DEF Init, Loop!Init, Unhandled, Signalled, Stage, Setup
  <1> QED BY <1>1, LoopInvariant, LoopRefinementStep, PTL DEF Spec, ImplementsNetworkLoop, Loop!Spec
================================================================================
