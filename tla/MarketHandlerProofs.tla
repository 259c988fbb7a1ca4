-------------------------- MODULE MarketHandlerProofs --------------------------
(***************************************************************************)
(* The process never uses what it has destroyed, between the sender and    *)
(* the book it loses, repeats and reorders nothing without a trace, and    *)
(* an order whose cancel it has processed is not in the book: for every    *)
(* capacity of the ring, every size of the book, any messages and any      *)
(* number of them.                                                         *)
(*                                                                         *)
(* The order is conserved because each step moves a message from the head  *)
(* of one stage of the pipeline to the tail of the next, so that what is   *)
(* in transit, read from the engine back to the network, only loses its    *)
(* head when a message is processed and only grows at its end when one is  *)
(* sent.  For that the feed handler must accept every datagram that the    *)
(* network has not harmed.                                                 *)
(*                                                                         *)
(* With nothing repeated the book meets no Add of an id it knows, so what  *)
(* OrderBookProofs shows of a feed without redelivery holds of it here.    *)
(***************************************************************************)
EXTENDS MarketHandler, TLAPS

Lifetimes ==
  /\ main = "start" => worker = "none" /\ open
  /\ main \in {"close", "book", "queue"} => worker = "ended"
  /\ main = "exited" => worker \in {"none", "ended"}
  /\ ~open => worker \in {"none", "ended"}

Busy == {"dispatch", "call", "sample"}

Types ==
  /\ sent \in Seq(Messages) /\ network \in Seq(Datagrams) /\ arrived \in Seq(Datagrams)
  /\ handler # "idle" => handled \in Datagrams
  /\ contents \in Seq(Messages)
  /\ visible \in Nat /\ (open => visible <= Len(contents))
  /\ worker \in Busy => packet \in Messages
  /\ messages_processed \in Nat /\ dropped_packets \in Nat /\ faults \in Nat

IsIntact(d) == d = Intact(d.message)

\* Without a fault every datagram is one that the feed handler accepts.
AllIntact ==
  faults = 0 =>
    /\ \A i \in 1 .. Len(network) : IsIntact(network[i])
    /\ \A i \in 1 .. Len(arrived) : IsIntact(arrived[i])
    /\ handler # "idle" => IsIntact(handled)

Conserved ==
  Unharmed => /\ messages_processed <= Len(sent)
              /\ InTransit = SubSeq(sent, messages_processed + 1, Len(sent))

IndInv == Types /\ AllIntact /\ Conserved
--------------------------------------------------------------------------------
\* The engine's thread and what it uses.

LEMMA WorkerKeepsLifetimes ==
  ASSUME Lifetimes, WorkerStep
  PROVE  Lifetimes'
PROOF
  <1>1. worker \notin {"none", "ended"} /\ open' = open /\ main' = main
    BY DEF WorkerStep, Engine!Step, Engine!Poll, Engine!Quit, Engine!PopPacket, Engine!Dispatch,
           Engine!Match, Engine!Report, Engine!LookAgain, Engine!Sample, Engine!ring,
           Engine!Ring!Pop, Engine!Ring!SeePushes
  <1> QED BY <1>1 DEF Lifetimes

LEMMA MainKeepsLifetimes ==
  ASSUME Lifetimes, MainStep
  PROVE  Lifetimes'
PROOF
  <1>1. CASE CreateThread
    BY <1>1 DEF Lifetimes, CreateThread, Engine!Start, Engine!ring
  <1>2. CASE ConstructFails \/ SetupFails \/ EnterLoop \/ Receive \/ SignalHandler \/ LeaveLoop
             \/ Join \/ CloseLoop \/ DestroyBook \/ Exit
    BY <1>2 DEF Lifetimes, ConstructFails, SetupFails, EnterLoop, Receive, SignalHandler,
           LeaveLoop, Join, CloseLoop, DestroyBook, Exit, engine, ring, Feed!Call, Feed!ring
  <1>3. CASE HandlerStep
    BY <1>3 DEF Lifetimes, HandlerStep, engine, Feed!Ignore, Feed!Push, Feed!LookAgain, Feed!ring,
           Feed!Ring!Push, Feed!Ring!SeePops
  <1>4. CASE DestroyQueue
    BY <1>4 DEF Lifetimes, DestroyQueue, engine, Ring!Close, Ring!Discard
  <1> QED BY <1>1, <1>2, <1>3, <1>4 DEF MainStep

LEMMA OutsideKeepsLifetimes ==
  ASSUME Lifetimes, Outside
  PROVE  Lifetimes'
PROOF
  <1>1. UNCHANGED <<worker, open>> /\ main' \in {main, "killed"}
    BY DEF Outside, Send, Deliver, Lose, Duplicate, Damage, Signal, Kill, engine, ring
  <1> QED BY <1>1 DEF Lifetimes

\* main() destroys the book and the queue only when the engine's thread has ended or
\* was never created, on every path out of it.
THEOREM ProcessLifetimes == Spec => []NoUseAfterDestroy
PROOF
  <1>1. Init => Lifetimes
    BY DEF Init, Engine!Init, Ring!Init, Lifetimes
  <1>2. Lifetimes /\ [Next]_vars => Lifetimes'
    <2> SUFFICES ASSUME Lifetimes, [Next]_vars PROVE Lifetimes'
      OBVIOUS
    <2>1. CASE Ended \/ UNCHANGED vars
      BY <2>1 DEF Lifetimes, Ended, vars, engine, ring
    <2> QED BY <2>1, WorkerKeepsLifetimes, MainKeepsLifetimes, OutsideKeepsLifetimes DEF Next
  <1>3. Lifetimes => NoUseAfterDestroy
    BY DEF Lifetimes, NoUseAfterDestroy
  <1> QED BY <1>1, <1>2, <1>3, PTL DEF Spec
--------------------------------------------------------------------------------
\* Sequences of messages and datagrams.

LEMMA TailJoined ==
  \A x, a \in Seq(Messages) :
    x # <<>> => x \o a # <<>> /\ Tail(x \o a) = Tail(x) \o a
PROOF
  <1> TAKE x, a \in Seq(Messages)
  <1> QED OBVIOUS

LEMMA Joined ==
  ASSUME NEW x \in Seq(Messages), NEW a \in Seq(Messages), NEW m \in Messages
  PROVE  /\ x \o a \in Seq(Messages) /\ x \o <<>> = x /\ <<>> \o x = x
         /\ x \o Append(a, m) = Append(x \o a, m)
         /\ x \o Append(a, m) = (x \o a) \o <<m>>
PROOF
  <1>1. x \o a \in Seq(Messages) /\ x \o <<>> = x /\ <<>> \o x = x
    OBVIOUS
  <1>2. x \o Append(a, m) = Append(x \o a, m)
    OBVIOUS
  <1>3. x \o Append(a, m) = (x \o a) \o <<m>>
    OBVIOUS
  <1> QED BY <1>1, <1>2, <1>3

LEMMA Moved ==
  ASSUME NEW x \in Seq(Messages), NEW a \in Seq(Messages), NEW b \in Seq(Messages), b # <<>>
  PROVE  /\ (x \o Append(a, Head(b))) \o Tail(b) = (x \o a) \o b
         /\ (x \o <<Head(b)>>) \o Tail(b) = x \o b
PROOF
  <1>1. Head(b) \in Messages /\ Tail(b) \in Seq(Messages) /\ <<Head(b)>> \o Tail(b) = b
    OBVIOUS
  <1>2. \A y \in Seq(Messages) : (y \o <<Head(b)>>) \o Tail(b) = y \o (<<Head(b)>> \o Tail(b))
    BY <1>1
  <1>3. x \o Append(a, Head(b)) = (x \o a) \o <<Head(b)>> /\ x \o a \in Seq(Messages)
    BY <1>1, Joined
  <1> QED BY <1>1, <1>2, <1>3

LEMMA Unsent ==
  ASSUME NEW s \in Seq(Messages), NEW n \in Nat, n <= Len(s)
  PROVE  /\ SubSeq(s, n + 1, Len(s)) \in Seq(Messages)
         /\ SubSeq(s, n + 1, Len(s)) # <<>> =>
              /\ n + 1 <= Len(s)
              /\ Tail(SubSeq(s, n + 1, Len(s))) = SubSeq(s, n + 2, Len(s))
         /\ \A m \in Messages : SubSeq(Append(s, m), n + 1, Len(Append(s, m)))
                           = Append(SubSeq(s, n + 1, Len(s)), m)
PROOF
  <1>1. SubSeq(s, n + 1, Len(s)) \in Seq(Messages)
    OBVIOUS
  <1>2. SubSeq(s, n + 1, Len(s)) # <<>> => n + 1 <= Len(s)
    OBVIOUS
  <1>3. ASSUME n + 1 <= Len(s)
        PROVE  Tail(SubSeq(s, n + 1, Len(s))) = SubSeq(s, n + 2, Len(s))
    BY <1>3
  <1>4. ASSUME NEW m \in Messages
        PROVE  SubSeq(Append(s, m), n + 1, Len(Append(s, m))) = Append(SubSeq(s, n + 1, Len(s)), m)
    <2> DEFINE l == SubSeq(Append(s, m), n + 1, Len(Append(s, m)))
               r == Append(SubSeq(s, n + 1, Len(s)), m)
    <2>1. /\ l \in Seq(Messages) /\ Len(l) = Len(s) - n + 1
          /\ \A i \in 1 .. Len(l) : l[i] = Append(s, m)[n + i]
      OBVIOUS
    <2>2. /\ r \in Seq(Messages) /\ Len(r) = Len(s) - n + 1
          /\ \A i \in 1 .. Len(r) : r[i] = Append(s, m)[n + i]
      OBVIOUS
    <2> HIDE DEF l, r
    <2>3. l = r
      BY <2>1, <2>2
    <2> QED BY <2>3 DEF l, r
  <1> QED BY <1>1, <1>2, <1>3, <1>4

LEMMA DatagramMessage ==
  /\ \A d \in Datagrams : d.message \in Messages
  /\ \A m \in Messages : {Intact(m), Longer(m), Shorter(m), Failed(m)} \subseteq Datagrams
  /\ \A m \in Messages : Intact(m).message = m
PROOF
  <1>1. ASSUME NEW d \in Datagrams PROVE d.message \in Messages
    <2>1. PICK m \in Messages : d \in {Intact(m), Longer(m), Shorter(m), Failed(m)}
      BY DEF Datagrams
    <2> QED BY <2>1 DEF Intact, Longer, Shorter, Failed
  <1>2. ASSUME NEW m \in Messages
        PROVE  {Intact(m), Longer(m), Shorter(m), Failed(m)} \subseteq Datagrams
    BY DEF Datagrams
  <1>3. \A m \in Messages : Intact(m).message = m
    BY DEF Intact
  <1> QED BY <1>1, <1>2, <1>3

LEMMA MessagesOfKeeps ==
  ASSUME NEW s \in Seq(Datagrams)
  PROVE  /\ MessagesOf(s) \in Seq(Messages)
         /\ \A d \in Datagrams : MessagesOf(Append(s, d)) = Append(MessagesOf(s), d.message)
         /\ s # <<>> => /\ MessagesOf(s) # <<>> /\ Head(MessagesOf(s)) = Head(s).message
                        /\ MessagesOf(Tail(s)) = Tail(MessagesOf(s))
PROOF
  BY DatagramMessage DEF MessagesOf

LEMMA WithoutKeeps ==
  ASSUME NEW s \in Seq(Datagrams), NEW i \in 1 .. Len(s)
  PROVE  /\ Without(s, i) \in Seq(Datagrams)
         /\ Without(s, 1) = Tail(s)
PROOF
  BY DEF Without
--------------------------------------------------------------------------------
\* The pipeline from the sender to the book.

Alive == {"start", "setup", "loop", "join"}

LEMMA Pipeline ==
  ASSUME Types
  PROVE  /\ Applying \in Seq(Messages) /\ Handling \in Seq(Messages) /\ contents \in Seq(Messages)
         /\ MessagesOf(arrived) \in Seq(Messages) /\ MessagesOf(network) \in Seq(Messages)
         /\ Applying \o contents \in Seq(Messages)
         /\ (Applying \o contents) \o Handling \in Seq(Messages)
         /\ ((Applying \o contents) \o Handling) \o MessagesOf(arrived) \in Seq(Messages)
         /\ InTransit \in Seq(Messages)
PROOF
  <1>2. Applying \in Seq(Messages) /\ Handling \in Seq(Messages) /\ contents \in Seq(Messages)
    BY DatagramMessage DEF Types, Applying, Handling, Busy
  <1>3. MessagesOf(arrived) \in Seq(Messages) /\ MessagesOf(network) \in Seq(Messages)
    BY MessagesOfKeeps DEF Types
  <1> QED BY <1>2, <1>3 DEF InTransit

\* A step that changes none of the stages.
LEMMA QuietStep ==
  ASSUME IndInv,
         UNCHANGED <<sent, network, faults, arrived, handled, handler, dropped_packets,
                     contents, visible, packet, messages_processed>>,
         open' => open, worker' \in Busy <=> worker \in Busy, main' \in Alive => main \in Alive
  PROVE  IndInv'
PROOF
  <1>1. Types' /\ AllIntact'
    BY DEF IndInv, Types, AllIntact
  <1>2. InTransit' = InTransit
    BY DEF InTransit, Applying, Handling, MessagesOf, Busy
  <1>3. Unharmed' => Unharmed
    BY DEF Unharmed, Alive
  <1> QED BY <1>1, <1>2, <1>3 DEF IndInv, Conserved

\* A step that leaves the messages that the properties speak of, or keeps what is in
\* transit as it was.
LEMMA MoveStep ==
  ASSUME Conserved, Types', AllIntact', UNCHANGED <<sent, messages_processed>>,
         Unharmed' => Unharmed /\ InTransit' = InTransit
  PROVE  IndInv'
PROOF
  BY DEF IndInv, Conserved

LEMMA SendStep ==
  ASSUME IndInv, NEW m \in Messages, Send(m)
  PROVE  IndInv'
PROOF
  <1> USE DEF IndInv
  <1>0. /\ sent' = Append(sent, m) /\ network' = Append(network, Intact(m))
        /\ UNCHANGED <<faults, arrived, handled, handler, dropped_packets, contents, visible, open,
                       packet, messages_processed, worker, main>>
    BY DEF Send, loop, feed, ring, engine, latency
  <1>1. Intact(m) \in Datagrams /\ Intact(m).message = m /\ IsIntact(Intact(m))
    BY DatagramMessage DEF IsIntact
  <1>2. Types'
    BY <1>0, <1>1 DEF Types
  <1>3. AllIntact'
    BY <1>0, <1>1 DEF Types, AllIntact
  <1>4. InTransit' = Append(InTransit, m)
    <2>1. MessagesOf(network') = Append(MessagesOf(network), m)
      BY <1>0, <1>1, MessagesOfKeeps DEF Types
    <2>2. /\ Applying' = Applying /\ Handling' = Handling
      BY <1>0 DEF Applying, Handling
    <2>3. InTransit' = (((Applying \o contents) \o Handling) \o MessagesOf(arrived))
                          \o Append(MessagesOf(network), m)
      BY <1>0, <2>1, <2>2 DEF InTransit
    <2> QED BY <2>3, Pipeline, Joined DEF InTransit
  <1>5. Conserved'
    <2> SUFFICES ASSUME Unharmed' PROVE Conserved'
      BY DEF Conserved
    <2>1. /\ messages_processed <= Len(sent)
          /\ InTransit = SubSeq(sent, messages_processed + 1, Len(sent))
      BY <1>0 DEF Conserved, Unharmed
    <2>2. SubSeq(sent', messages_processed + 1, Len(sent'))
            = Append(SubSeq(sent, messages_processed + 1, Len(sent)), m)
      BY <1>0, <2>1, Unsent DEF Types
    <2>3. messages_processed <= Len(sent')
      BY <1>0, <2>1 DEF Types
    <2> QED BY <1>0, <1>4, <2>1, <2>2, <2>3 DEF Conserved
  <1> QED BY <1>2, <1>3, <1>5

LEMMA DeliverStep ==
  ASSUME IndInv, NEW i \in 1 .. Len(network), Deliver(i)
  PROVE  IndInv'
PROOF
  <1> USE DEF IndInv
  <1>0. /\ network' = Without(network, i) /\ arrived' = Append(arrived, network[i])
        /\ faults' = IF i = 1 THEN faults ELSE faults + 1
        /\ UNCHANGED <<sent, handled, handler, dropped_packets, contents, visible, open, packet,
                       messages_processed, worker, main>>
    BY DEF Deliver, Loop!Arrive, feed, ring, engine, latency
  <1>1. network[i] \in Datagrams /\ network' \in Seq(Datagrams) /\ network # <<>>
    BY <1>0, WithoutKeeps DEF Types
  <1>2. Types'
    BY <1>0, <1>1 DEF Types
  <1>3. faults' = 0 => i = 1 /\ faults = 0 /\ network' = Tail(network)
    BY <1>0, WithoutKeeps DEF Types
  <1>4. AllIntact'
    <2> SUFFICES ASSUME faults' = 0 PROVE AllIntact'
      BY DEF AllIntact
    <2>1. /\ \A j \in 1 .. Len(network) : IsIntact(network[j])
          /\ \A j \in 1 .. Len(arrived) : IsIntact(arrived[j])
          /\ handler # "idle" => IsIntact(handled)
      BY <1>3 DEF AllIntact
    <2>2. ASSUME NEW j \in 1 .. Len(network') PROVE IsIntact(network'[j])
      <3>0. network' = Tail(network) /\ network \in Seq(Datagrams) /\ network # <<>>
        BY <1>1, <1>3 DEF Types
      <3>1. j + 1 \in 1 .. Len(network) /\ network'[j] = network[j + 1]
        BY <3>0
      <3> QED BY <2>1, <3>1
    <2>3. \A j \in 1 .. Len(arrived') : IsIntact(arrived'[j])
      BY <1>0, <1>1, <2>1 DEF Types
    <2> QED BY <1>0, <2>1, <2>2, <2>3 DEF AllIntact
  <1>5. Unharmed' => Unharmed /\ InTransit' = InTransit
    <2> SUFFICES ASSUME Unharmed' PROVE Unharmed /\ InTransit' = InTransit
      OBVIOUS
    <2>0. i = 1 /\ faults = 0 /\ network' = Tail(network)
      BY <1>3 DEF Unharmed
    <2>1. /\ MessagesOf(network') = Tail(MessagesOf(network)) /\ MessagesOf(network) # <<>>
          /\ network[i].message = Head(MessagesOf(network))
      BY <1>1, <2>0, MessagesOfKeeps DEF Types
    <2>2. MessagesOf(arrived') = Append(MessagesOf(arrived), Head(MessagesOf(network)))
      BY <1>0, <1>1, <2>1, MessagesOfKeeps DEF Types
    <2>3. Applying' = Applying /\ Handling' = Handling
      BY <1>0 DEF Applying, Handling
    <2>4. InTransit' = (((Applying \o contents) \o Handling)
                          \o Append(MessagesOf(arrived), Head(MessagesOf(network))))
                          \o Tail(MessagesOf(network))
      BY <1>0, <2>1, <2>2, <2>3 DEF InTransit
    <2>5. InTransit' = InTransit
      <3> DEFINE x == (Applying \o contents) \o Handling
                 a == MessagesOf(arrived)
                 b == MessagesOf(network)
      <3>1. x \in Seq(Messages) /\ a \in Seq(Messages) /\ b \in Seq(Messages) /\ b # <<>>
        BY <2>1, Pipeline
      <3>2. InTransit = (x \o a) \o b /\ InTransit' = (x \o Append(a, Head(b))) \o Tail(b)
        BY <2>4 DEF InTransit
      <3> HIDE DEF x, a, b
      <3> QED BY <3>1, <3>2, Moved
    <2> QED BY <1>0, <2>0, <2>5 DEF Unharmed
  <1> QED BY <1>0, <1>2, <1>4, <1>5, MoveStep

LEMMA HarmStep ==
  ASSUME IndInv, NEW i \in 1 .. Len(network), Lose(i) \/ Duplicate(i) \/ Damage(i)
  PROVE  IndInv'
PROOF
  <1> USE DEF IndInv
  <1>0. /\ faults' = faults + 1
        /\ UNCHANGED <<sent, arrived, handled, handler, dropped_packets, contents, visible, open,
                       packet, messages_processed, worker, main>>
    BY DEF Lose, Duplicate, Damage, loop, feed, ring, engine, latency
  <1>1. network' \in Seq(Datagrams)
    <2>1. network[i] \in Datagrams /\ network[i].message \in Messages
      BY DatagramMessage DEF Types
    <2>2. CASE Lose(i)
      BY <2>2, WithoutKeeps DEF Types, Lose
    <2>3. CASE Duplicate(i)
      BY <2>1, <2>3 DEF Types, Duplicate
    <2>4. CASE Damage(i)
      <3>1. PICK d \in {Longer(network[i].message), Shorter(network[i].message),
                        Failed(network[i].message)} : network' = [network EXCEPT ![i] = d]
        BY <2>4 DEF Damage
      <3>2. d \in Datagrams
        BY <2>1, DatagramMessage
      <3> QED BY <3>1, <3>2 DEF Types
    <2> QED BY <2>2, <2>3, <2>4
  <1>2. Types' /\ AllIntact'
    BY <1>0, <1>1 DEF Types, AllIntact
  <1>3. ~Unharmed'
    BY <1>0 DEF Types, Unharmed
  <1> QED BY <1>0, <1>2, <1>3, MoveStep

LEMMA ReceiveStep ==
  ASSUME IndInv, Receive
  PROVE  IndInv'
PROOF
  <1> USE DEF IndInv
  <1>0. /\ arrived # <<>> /\ handled' = Head(arrived) /\ arrived' = Tail(arrived)
        /\ handler = "idle" /\ handler' = "called"
        /\ UNCHANGED <<sent, network, faults, dropped_packets, contents, visible, open, packet,
                       messages_processed, worker, main>>
    BY DEF Receive, Loop!Handle, Feed!Call, Feed!ring, outside, engine, latency
  <1>1. arrived \in Seq(Datagrams) /\ Head(arrived) \in Datagrams /\ Tail(arrived) \in Seq(Datagrams)
    BY <1>0 DEF Types
  <1>2. Types'
    BY <1>0, <1>1 DEF Types
  <1>3. AllIntact'
    <2> SUFFICES ASSUME faults' = 0 PROVE AllIntact'
      BY DEF AllIntact
    <2>1. /\ \A j \in 1 .. Len(network) : IsIntact(network[j])
          /\ \A j \in 1 .. Len(arrived) : IsIntact(arrived[j])
      BY <1>0 DEF AllIntact
    <2>2. ASSUME NEW j \in 1 .. Len(arrived') PROVE IsIntact(arrived'[j])
      <3>1. j + 1 \in 1 .. Len(arrived) /\ arrived'[j] = arrived[j + 1]
        BY <1>0, <1>1
      <3> QED BY <2>1, <3>1
    <2>3. IsIntact(handled')
      <3>1. 1 \in 1 .. Len(arrived) /\ handled' = arrived[1]
        BY <1>0, <1>1
      <3> QED BY <2>1, <3>1
    <2> QED BY <1>0, <2>1, <2>2, <2>3 DEF AllIntact
  <1>4. InTransit' = InTransit
    <2> DEFINE x == Applying \o contents
               b == MessagesOf(arrived)
    <2>1. /\ MessagesOf(arrived') = Tail(b) /\ b # <<>> /\ handled'.message = Head(b)
      BY <1>0, <1>1, MessagesOfKeeps
    <2>2. x \in Seq(Messages) /\ b \in Seq(Messages)
      BY Pipeline
    <2>3. Applying' = Applying /\ Handling = <<>> /\ Handling' = <<Head(b)>>
      BY <1>0, <2>1 DEF Applying, Handling
    <2>4. /\ InTransit' = ((x \o <<Head(b)>>) \o Tail(b)) \o MessagesOf(network)
          /\ InTransit = ((x \o <<>>) \o b) \o MessagesOf(network)
      BY <1>0, <2>1, <2>3 DEF InTransit
    <2> HIDE DEF x, b
    <2>5. (x \o <<Head(b)>>) \o Tail(b) = (x \o <<>>) \o b
      BY <2>1, <2>2, Moved
    <2> QED BY <2>4, <2>5
  <1>5. Unharmed' => Unharmed
    BY <1>0 DEF Unharmed
  <1> QED BY <1>0, <1>2, <1>3, <1>4, <1>5, MoveStep

\* The handler accepts an intact datagram and does not forget it.
LEMMA HandlerKeeps ==
  ASSUME IndInv, HandlerStep
  PROVE  IndInv'
PROOF
  <1> USE DEF IndInv
  <1>0. UNCHANGED <<sent, network, faults, arrived, handled, packet, messages_processed, worker, main>>
    BY DEF HandlerStep, loop, engine, latency, outside, Feed!Ignore, Feed!Push, Feed!LookAgain,
           Feed!ring, Feed!Ring!Push, Feed!Ring!SeePops
  <1>1. CASE Feed!Ignore(handled)
    <2>1. /\ handler = "called" /\ ~Feed!Accepted(handled) /\ handler' = "idle"
          /\ UNCHANGED <<contents, visible, open, dropped_packets>>
      BY <1>1 DEF Feed!Ignore, Feed!ring
    <2>2. faults # 0
      <3> SUFFICES ASSUME faults = 0 PROVE FALSE
        OBVIOUS
      <3>1. handled = Intact(handled.message)
        BY <2>1 DEF AllIntact, IsIntact
      <3>2. handled.error = FALSE /\ handled.size = PAYLOAD
        BY <3>1 DEF Intact
      <3> QED BY <2>1, <3>2, PayloadAssumption DEF Feed!Accepted, Feed!BytesReceived
    <2>3. Types' /\ AllIntact' /\ ~Unharmed'
      BY <1>0, <2>1, <2>2 DEF Types, AllIntact, Unharmed
    <2> QED BY <1>0, <2>3, MoveStep
  <1>2. CASE Feed!Push(handled)
    <2>1. /\ handler # "idle" /\ handler' = "idle" /\ contents' = Append(contents, handled.message)
          /\ UNCHANGED <<visible, open, dropped_packets>>
      BY <1>2 DEF Feed!Push, Feed!Ring!Push
    <2>2. handled.message \in Messages
      BY <2>1, DatagramMessage DEF Types
    <2>3. Types' /\ AllIntact'
      BY <1>0, <2>1, <2>2 DEF Types, AllIntact
    <2>4. InTransit' = InTransit
      <3> DEFINE x == Applying
                 m == handled.message
      <3>1. Applying' = Applying /\ Handling = <<m>> /\ Handling' = <<>>
        BY <1>0, <2>1 DEF Applying, Handling
      <3>2. x \in Seq(Messages) /\ contents \in Seq(Messages) /\ x \o Append(contents, m) \in Seq(Messages)
        BY <2>2, Pipeline
      <3>3. /\ InTransit' = (((x \o Append(contents, m)) \o <<>>) \o MessagesOf(arrived)) \o MessagesOf(network)
            /\ InTransit = (((x \o contents) \o <<m>>) \o MessagesOf(arrived)) \o MessagesOf(network)
        BY <1>0, <2>1, <3>1 DEF InTransit
      <3> HIDE DEF x, m
      <3>4. (x \o Append(contents, m)) \o <<>> = (x \o contents) \o <<m>>
        BY <2>2, <3>2, Joined DEF m
      <3> QED BY <3>3, <3>4
    <2>5. Unharmed' => Unharmed
      BY <1>0, <2>1 DEF Unharmed
    <2> QED BY <1>0, <2>3, <2>4, <2>5, MoveStep
  <1>3. CASE \E n \in 0 .. unseen_pops : Feed!LookAgain(handled, n)
    <2>1. /\ handler = "called" /\ UNCHANGED <<contents, visible, open>>
          /\ \/ handler' = "push" /\ dropped_packets' = dropped_packets
             \/ handler' = "idle" /\ dropped_packets' = dropped_packets + 1
      BY <1>3 DEF Feed!LookAgain, Feed!Drop, Feed!Ring!SeePops
    <2>2. Types' /\ AllIntact'
      BY <1>0, <2>1 DEF Types, AllIntact
    <2>3. Unharmed' => Unharmed /\ handler' = "push"
      BY <1>0, <2>1 DEF Types, Unharmed
    <2>4. handler' = "push" => InTransit' = InTransit
      BY <1>0, <2>1 DEF InTransit, Applying, Handling
    <2> QED BY <1>0, <2>2, <2>3, <2>4, MoveStep
  <1> QED BY <1>1, <1>2, <1>3 DEF HandlerStep

\* The engine takes the oldest message, and counts it when it has applied it.
LEMMA PopStep ==
  ASSUME IndInv, WorkerStep, Engine!PopPacket
  PROVE  IndInv'
PROOF
  <1> USE DEF IndInv
  <1>0. /\ worker = "pop" /\ worker' = "dispatch" /\ open /\ visible > 0
        /\ packet' = Head(contents) /\ contents' = Tail(contents) /\ visible' = visible - 1
        /\ UNCHANGED <<sent, network, faults, arrived, handled, handler, dropped_packets,
                       messages_processed, open, main>>
    BY DEF WorkerStep, feed, outside, Engine!PopPacket, Engine!Ring!Pop, Engine!latency
  <1>1. contents # <<>> /\ Head(contents) \in Messages /\ contents \in Seq(Messages)
    BY <1>0 DEF Types
  <1>2. Types' /\ AllIntact'
    BY <1>0, <1>1 DEF Types, AllIntact
  <1>3. InTransit' = InTransit
    <2>1. Applying = <<>> /\ Applying' = <<Head(contents)>> /\ Handling' = Handling
      BY <1>0 DEF Applying, Handling
    <2>2. <<Head(contents)>> \o Tail(contents) = <<>> \o contents
      BY <1>1
    <2> QED BY <1>0, <2>1, <2>2 DEF InTransit
  <1>4. Unharmed' => Unharmed
    BY <1>0 DEF Unharmed
  <1> QED BY <1>0, <1>2, <1>3, <1>4, MoveStep

LEMMA SampleStep ==
  ASSUME IndInv, WorkerStep, NEW delta, Engine!Sample(delta)
  PROVE  IndInv'
PROOF
  <1> USE DEF IndInv
  <1>0. /\ worker = "sample" /\ worker' = "check" /\ messages_processed' = messages_processed + 1
        /\ UNCHANGED <<sent, network, faults, arrived, handled, handler, dropped_packets,
                       contents, visible, packet, open, main>>
    BY DEF WorkerStep, feed, outside, Engine!Sample, Engine!Latency!Record, Engine!ring
  <1>1. Types' /\ AllIntact'
    BY <1>0 DEF Types, AllIntact, Busy
  <1>2. InTransit # <<>> /\ InTransit' = Tail(InTransit)
    <2> DEFINE y == Applying \o contents
               z == y \o Handling
               w == z \o MessagesOf(arrived)
    <2>1. Applying = <<packet>> /\ Applying' = <<>> /\ Handling' = Handling /\ packet \in Messages
      BY <1>0 DEF Applying, Handling, Types, Busy
    <2>2. /\ y \in Seq(Messages) /\ z \in Seq(Messages) /\ w \in Seq(Messages)
          /\ contents \in Seq(Messages) /\ Handling \in Seq(Messages)
          /\ MessagesOf(arrived) \in Seq(Messages) /\ MessagesOf(network) \in Seq(Messages)
      BY Pipeline
    <2>3. y # <<>> /\ Tail(y) = contents /\ <<>> \o contents = contents
      BY <2>1, <2>2
    <2>4. /\ InTransit = w \o MessagesOf(network)
          /\ InTransit' = (((<<>> \o contents) \o Handling) \o MessagesOf(arrived)) \o MessagesOf(network)
      BY <1>0, <2>1 DEF InTransit
    <2>5. z = y \o Handling /\ w = z \o MessagesOf(arrived)
      OBVIOUS
    <2> HIDE DEF y, z, w
    <2>6. z # <<>> /\ Tail(z) = contents \o Handling
      BY <2>2, <2>3, <2>5, TailJoined, Zenon
    <2>7. w # <<>> /\ Tail(w) = Tail(z) \o MessagesOf(arrived)
      BY <2>2, <2>6, <2>5, TailJoined, Zenon
    <2>8. w # <<>> /\ Tail(w) = (contents \o Handling) \o MessagesOf(arrived)
      BY <2>7, <2>6, Zenon
    <2>9. w \o MessagesOf(network) # <<>> /\ Tail(w \o MessagesOf(network)) = Tail(w) \o MessagesOf(network)
      BY <2>2, <2>8, TailJoined, Zenon
    <2> QED BY <2>3, <2>4, <2>8, <2>9
  <1>3. Conserved'
    <2> SUFFICES ASSUME Unharmed' PROVE Conserved'
      BY DEF Conserved
    <2>1. /\ messages_processed <= Len(sent) /\ messages_processed \in Nat /\ sent \in Seq(Messages)
          /\ InTransit = SubSeq(sent, messages_processed + 1, Len(sent))
      BY <1>0 DEF Conserved, Unharmed, Types
    <2>2. /\ messages_processed + 1 <= Len(sent)
          /\ Tail(InTransit) = SubSeq(sent, messages_processed + 2, Len(sent))
      BY <1>2, <2>1, Unsent
    <2>3. messages_processed' + 1 = messages_processed + 2
      BY <1>0, <2>1
    <2> QED BY <1>0, <1>2, <2>2, <2>3 DEF Conserved
  <1> QED BY <1>1, <1>3

LEMMA WorkerKeeps ==
  ASSUME IndInv, WorkerStep
  PROVE  IndInv'
PROOF
  <1>0. /\ UNCHANGED <<sent, network, faults, arrived, handled, handler, dropped_packets, main>>
        /\ Engine!Step
    BY DEF WorkerStep, feed, outside
  <1>1. CASE Engine!Poll \/ Engine!Quit \/ Engine!Dispatch \/ Engine!Match \/ Engine!Report
    <2>1. UNCHANGED <<contents, visible, packet, open, messages_processed>>
      BY <1>1 DEF Engine!Poll, Engine!Quit, Engine!Dispatch, Engine!Match, Engine!Report,
                  Engine!ring, Engine!latency, Engine!Latency!Report
    <2>2. worker' \in Busy <=> worker \in Busy
      BY <1>1 DEF Engine!Poll, Engine!Quit, Engine!Dispatch, Engine!Match, Engine!Report,
                  Engine!AfterBook, Busy
    <2> QED BY <1>0, <2>1, <2>2, QuietStep
  <1>2. CASE \E n \in 0 .. Len(contents) : Engine!LookAgain(n)
    <2>1. PICK n \in 0 .. Len(contents) : Engine!LookAgain(n)
      BY <1>2
    <2>2. /\ visible' = n /\ worker = "pop" /\ worker' \in {"pop", "check"}
          /\ UNCHANGED <<contents, packet, open, messages_processed>>
      BY <2>1 DEF Engine!LookAgain, Engine!Ring!SeePushes, Engine!latency
    <2>3. Types' /\ AllIntact'
      BY <1>0, <2>2 DEF IndInv, Types, AllIntact, Busy
    <2>4. InTransit' = InTransit
      BY <1>0, <2>2 DEF InTransit, Applying, Handling
    <2>5. Unharmed' => Unharmed
      BY <1>0 DEF Unharmed
    <2> QED BY <1>0, <2>2, <2>3, <2>4, <2>5, MoveStep DEF IndInv
  <1> QED BY <1>0, <1>1, <1>2, PopStep, SampleStep DEF Engine!Step

LEMMA MainKeeps ==
  ASSUME IndInv, MainStep
  PROVE  IndInv'
PROOF
  <1>1. CASE CreateThread
    <2>1. /\ main = "start" /\ main' = "setup" /\ worker = "none" /\ worker' = "check"
          /\ UNCHANGED <<sent, network, faults, arrived, handled, handler, dropped_packets,
                         contents, visible, packet, open, messages_processed>>
      BY <1>1 DEF CreateThread, Engine!Start, Engine!ring, Engine!latency, feed, outside
    <2> QED BY <2>1, QuietStep DEF Busy, Alive
  <1>2. CASE ConstructFails \/ SetupFails \/ EnterLoop \/ SignalHandler \/ LeaveLoop
             \/ Join \/ DestroyBook \/ Exit
    <2>1. /\ UNCHANGED <<sent, network, faults, arrived, handled, handler, dropped_packets,
                         contents, visible, packet, messages_processed, worker>>
          /\ open' => open
      BY <1>2 DEF ConstructFails, SetupFails, EnterLoop, SignalHandler, LeaveLoop, Join, DestroyBook,
                  Exit, loop, feed, ring, engine, latency, outside,
                  Loop!Start, Loop!HandleSignal, Loop!Return
    <2>2. main' \in Alive => main \in Alive
      BY <1>2 DEF ConstructFails, SetupFails, EnterLoop, SignalHandler, LeaveLoop, Join, DestroyBook,
                  Exit, Alive
    <2> QED BY <2>1, <2>2, QuietStep
  <1>3. CASE CloseLoop
    <2>1. /\ main' = "book" /\ arrived' = <<>>
          /\ UNCHANGED <<sent, network, faults, handled, handler, dropped_packets, contents, visible,
                         packet, open, messages_processed, worker>>
      BY <1>3 DEF CloseLoop, Loop!Close, feed, ring, engine, latency, outside
    <2>2. Types' /\ AllIntact' /\ ~Unharmed'
      BY <2>1 DEF IndInv, Types, AllIntact, Unharmed
    <2> QED BY <2>1, <2>2, MoveStep DEF IndInv
  <1>4. CASE DestroyQueue
    <2>1. /\ main = "queue" /\ main' = main /\ ~open'
          /\ UNCHANGED <<sent, network, faults, arrived, handled, handler, dropped_packets,
                         packet, messages_processed, worker>>
          /\ \/ contents' = contents /\ visible' = 0
             \/ contents # <<>> /\ contents' = Tail(contents) /\ visible' = visible
      BY <1>4 DEF DestroyQueue, Ring!Close, Ring!Discard, loop, feed, engine, latency, outside
    <2>2. contents' \in Seq(Messages) /\ visible' \in Nat
      <3>1. contents \in Seq(Messages) /\ visible \in Nat
        BY DEF IndInv, Types
      <3>2. contents # <<>> => Tail(contents) \in Seq(Messages)
        BY <3>1
      <3> QED BY <2>1, <3>1, <3>2
    <2>3. Types' /\ AllIntact' /\ ~Unharmed'
      BY <2>1, <2>2 DEF IndInv, Types, AllIntact, Unharmed
    <2> QED BY <2>1, <2>3, MoveStep DEF IndInv
  <1> QED BY <1>1, <1>2, <1>3, <1>4, ReceiveStep, HandlerKeeps DEF MainStep

LEMMA OutsideKeeps ==
  ASSUME IndInv, Outside
  PROVE  IndInv'
PROOF
  <1>1. CASE Signal
    <2>1. UNCHANGED <<sent, network, faults, arrived, handled, handler, dropped_packets,
                      contents, visible, packet, messages_processed, worker, open, main>>
      BY <1>1 DEF Signal, Loop!Raise, feed, ring, engine, latency, outside
    <2> QED BY <2>1, QuietStep
  <1>2. CASE Kill
    <2>1. /\ main' = "killed" /\ arrived' = <<>>
          /\ UNCHANGED <<sent, network, faults, handled, handler, dropped_packets, contents, visible,
                         packet, open, messages_processed, worker>>
      BY <1>2 DEF Kill, Loop!Kill, feed, ring, engine, latency, outside
    <2>2. Types' /\ AllIntact' /\ ~Unharmed'
      BY <2>1 DEF IndInv, Types, AllIntact, Unharmed
    <2> QED BY <2>1, <2>2, MoveStep DEF IndInv
  <1> QED BY <1>1, <1>2, SendStep, DeliverStep, HarmStep DEF Outside

LEMMA ProcessInvariant == Spec => []IndInv
PROOF
  <1>1. Init => IndInv
    <2> SUFFICES ASSUME Init PROVE IndInv
      OBVIOUS
    <2>1. /\ sent = <<>> /\ network = <<>> /\ faults = 0 /\ arrived = <<>> /\ contents = <<>>
          /\ visible = 0 /\ handler = "idle" /\ dropped_packets = 0 /\ messages_processed = 0
          /\ worker = "none"
      BY DEF Init, Loop!Init, Feed!Init, Ring!Init, Engine!Init, Engine!Latency!Init
    <2>2. Types /\ AllIntact
      BY <2>1 DEF Types, AllIntact, Busy
    <2>3. InTransit = <<>>
      BY <2>1 DEF InTransit, Applying, Handling, MessagesOf
    <2>4. SubSeq(sent, messages_processed + 1, Len(sent)) = <<>> /\ messages_processed <= Len(sent)
      BY <2>1
    <2> QED BY <2>2, <2>3, <2>4 DEF IndInv, Conserved
  <1>2. IndInv /\ [Next]_vars => IndInv'
    <2> SUFFICES ASSUME IndInv, [Next]_vars PROVE IndInv'
      OBVIOUS
    <2>1. CASE Ended \/ UNCHANGED vars
      <3>1. UNCHANGED <<sent, network, faults, arrived, handled, handler, dropped_packets,
                        contents, visible, packet, messages_processed, worker, open, main>>
        BY <2>1 DEF Ended, vars, loop, feed, ring, engine, latency, outside
      <3> QED BY <3>1, QuietStep
    <2> QED BY <2>1, MainKeeps, WorkerKeeps, OutsideKeeps DEF Next
  <1> QED BY <1>1, <1>2, PTL DEF Spec

\* While the network does no harm and dropped_packets is zero, the engine processes
\* what was sent, in the order it was sent, whatever the ring's capacity and the views
\* that the two threads have of it.
THEOREM FeedInOrder == Spec => []InOrder
PROOF
  <1>1. IndInv => InOrder
    BY DEF IndInv, Conserved, InOrder
  <1> QED BY <1>1, ProcessInvariant, PTL
--------------------------------------------------------------------------------
\* The order book of a feed that does not repeat the id of a resting order.
Book == INSTANCE OrderBookProofs WITH Redelivery <- FALSE, repeated <- {}

\* The engine's book and that one differ in the guard of AddOrder only.
LEMMA SameOperators ==
  /\ Engine!Book!Slots = Book!Slots
  /\ Engine!Book!opposite = Book!opposite
  /\ \A bm : Engine!Book!get_highest(bm) = Book!get_highest(bm)
  /\ \A bm : Engine!Book!get_lowest(bm) = Book!get_lowest(bm)
  /\ \A bm, p : Engine!Book!set(bm, p) = Book!set(bm, p)
  /\ \A bm, p : Engine!Book!clear(bm, p) = Book!clear(bm, p)
  /\ \A s : Engine!Book!Unlinked(s) = Book!Unlinked(s)
  /\ \A orders, s : Engine!Book!Without(orders, s) = Book!Without(orders, s)
  /\ \A level, s : Engine!Book!LevelWithout(level, s) = Book!LevelWithout(level, s)
PROOF
  <1>1. Engine!Book!Slots = Book!Slots /\ Engine!Book!opposite = Book!opposite
    BY DEF Engine!Book!Slots, Book!Slots, Engine!Book!opposite, Book!opposite,
           Engine!Book!Opposite, Book!Opposite
  <1>2. \A bm : Engine!Book!get_highest(bm) = Book!get_highest(bm)
    BY DEF Engine!Book!get_highest, Book!get_highest, Engine!Book!HighBit, Book!HighBit
  <1>3. \A bm : Engine!Book!get_lowest(bm) = Book!get_lowest(bm)
    BY DEF Engine!Book!get_lowest, Book!get_lowest, Engine!Book!LowBit, Book!LowBit
  <1>4. \A bm, p : Engine!Book!set(bm, p) = Book!set(bm, p)
    BY DEF Engine!Book!set, Book!set
  <1>5. \A bm, p : Engine!Book!clear(bm, p) = Book!clear(bm, p)
    BY DEF Engine!Book!clear, Book!clear
  <1>6. \A s : Engine!Book!Unlinked(s) = Book!Unlinked(s)
    BY <1>1 DEF Engine!Book!Unlinked, Book!Unlinked, Engine!Book!FreeOrder, Book!FreeOrder,
           Engine!Book!nullptr, Book!nullptr
  <1>7. \A orders, s : Engine!Book!Without(orders, s) = Book!Without(orders, s)
    BY DEF Engine!Book!Without, Book!Without, Engine!Book!Position, Book!Position
  <1>8. \A level, s : Engine!Book!LevelWithout(level, s) = Book!LevelWithout(level, s)
    BY DEF Engine!Book!LevelWithout, Book!LevelWithout, Engine!Book!nullptr, Book!nullptr
  <1> QED BY <1>1, <1>2, <1>3, <1>4, <1>5, <1>6, <1>7, <1>8

LEMMA SameDetach ==
  ASSUME NEW s, NEW side, NEW price, NEW id, Engine!Book!Detach(s, side, price, id)
  PROVE  Book!Detach(s, side, price, id)
  BY SameOperators DEF Engine!Book!Detach, Book!Detach, Engine!Book!Forget, Book!Forget,
     Engine!Book!Deallocate, Book!Deallocate, Engine!Book!nullptr, Book!nullptr

LEMMA SameRefresh ==
  ASSUME NEW side, NEW price, NEW total, Engine!Book!Refresh(side, price, total)
  PROVE  Book!Refresh(side, price, total)
PROOF
  <1>1. /\ Engine!Book!clear(price_bits[side], price) = Book!clear(price_bits[side], price)
        /\ Engine!Book!get_highest(price_bits'["B"]) = Book!get_highest(price_bits'["B"])
        /\ Engine!Book!get_lowest(price_bits'["S"]) = Book!get_lowest(price_bits'["S"])
    BY SameOperators
  <1> QED BY <1>1 DEF Engine!Book!Refresh, Book!Refresh, Engine!Book!Side, Book!Side

LEMMA SameRemove ==
  ASSUME NEW id, Engine!Book!Remove(id)
  PROVE  Book!Remove(id)
  BY SameDetach, SameRefresh DEF Engine!Book!Remove, Book!Remove

LEMMA SameCalls ==
  ASSUME NEW id, NEW price, NEW qty, NEW side
  PROVE  /\ Engine!Book!AddOrder(id, price, qty, side) /\ order_map[id] = Book!nullptr
              => Book!AddOrder(id, price, qty, side)
         /\ Engine!Book!CancelOrder(id) => Book!CancelOrder(id)
         /\ Engine!Book!ModifyReplace(id, price, qty) => Book!ModifyReplace(id, price, qty)
         /\ Engine!Book!ModifyToZero(id, price, qty) => Book!ModifyToZero(id, price, qty)
         /\ Engine!Book!ModifyInPlace(id, price, qty) => Book!ModifyInPlace(id, price, qty)
PROOF
  <1> USE DEF Engine!Book!nullptr, Book!nullptr, Engine!Book!StartMatch, Book!StartMatch,
              Engine!Book!Replaces, Book!Replaces, Engine!Book!book, Book!book
  <1>1. Engine!Book!AddOrder(id, price, qty, side) /\ order_map[id] = Book!nullptr
              => Book!AddOrder(id, price, qty, side)
    BY DEF Engine!Book!AddOrder, Book!AddOrder
  <1>2. Engine!Book!CancelOrder(id) => Book!CancelOrder(id)
    BY SameRemove DEF Engine!Book!CancelOrder, Book!CancelOrder
  <1>3. Engine!Book!ModifyReplace(id, price, qty) => Book!ModifyReplace(id, price, qty)
    BY SameRemove DEF Engine!Book!ModifyReplace, Book!ModifyReplace
  <1>4. Engine!Book!ModifyToZero(id, price, qty) => Book!ModifyToZero(id, price, qty)
    BY SameRemove DEF Engine!Book!ModifyToZero, Book!ModifyToZero
  <1>5. Engine!Book!ModifyInPlace(id, price, qty) => Book!ModifyInPlace(id, price, qty)
    BY DEF Engine!Book!ModifyInPlace, Book!ModifyInPlace, Engine!Book!QtyReduction, Book!QtyReduction
  <1> QED BY <1>1, <1>2, <1>3, <1>4, <1>5

LEMMA SameMatch ==
  Engine!Book!Match => Book!Match
PROOF
  <1> USE DEF Engine!Book!nullptr, Book!nullptr, Engine!Book!book, Book!book,
              Engine!Book!Sweeping, Book!Sweeping, Engine!Book!TradeQty, Book!TradeQty,
              Engine!Book!Matching, Book!Matching, Engine!Book!IsMatch, Book!IsMatch,
              Engine!Book!NoCall, Book!NoCall
  <1>1. Engine!Book!StartSweep => Book!StartSweep
    BY SameOperators DEF Engine!Book!StartSweep, Book!StartSweep
  <1>2. Engine!Book!TradePart => Book!TradePart
    BY SameOperators DEF Engine!Book!TradePart, Book!TradePart
  <1>3. Engine!Book!TradeFill => Book!TradeFill
    BY SameOperators, SameDetach DEF Engine!Book!TradeFill, Book!TradeFill
  <1>4. Engine!Book!EndSweep => Book!EndSweep
    BY SameOperators, SameRefresh DEF Engine!Book!EndSweep, Book!EndSweep
  <1>5. Engine!Book!Return => Book!Return
    BY DEF Engine!Book!Return, Book!Return
  <1>6. Engine!Book!Rest => Book!Rest
    BY SameOperators DEF Engine!Book!Rest, Book!Rest
  <1> QED BY <1>1, <1>2, <1>3, <1>4, <1>5, <1>6 DEF Engine!Book!Match, Book!Match

\* What is proved about that book, under the assumptions on its sizes.
LEMMA BookStep ==
  ASSUME Book!QuantitiesFit, Book!IndInv, [Book!Next]_Book!vars
  PROVE  Book!IndInv'
  BY Book!StepCorrect, SizesAssumption DEF Book!Ticks

LEMMA BookStart ==
  ASSUME Engine!Book!Init
  PROVE  Book!IndInv
PROOF
  <1>1. Engine!Book!Slots = Book!Slots /\ Engine!Book!FreeOrder = Book!FreeOrder
        /\ Engine!Book!Side = Book!Side /\ Engine!Book!Ticks = Book!Ticks
        /\ Engine!Book!EmptyLevel = Book!EmptyLevel /\ Engine!Book!Ids = Book!Ids
        /\ Engine!Book!NoBits = Book!NoBits /\ Engine!Book!NoCall = Book!NoCall
        /\ Engine!Book!nullptr = Book!nullptr
    BY DEF Engine!Book!Slots, Book!Slots, Engine!Book!FreeOrder, Book!FreeOrder,
           Engine!Book!Side, Book!Side, Engine!Book!Ticks, Book!Ticks, Engine!Book!EmptyLevel,
           Book!EmptyLevel, Engine!Book!Ids, Book!Ids, Engine!Book!NoBits, Book!NoBits,
           Engine!Book!NoCall, Book!NoCall, Engine!Book!nullptr, Book!nullptr,
           Engine!Book!L0_SIZE, Book!L0_SIZE, Engine!Book!L1_SIZE, Book!L1_SIZE
  <1>2. Book!Init
    BY <1>1 DEF Engine!Book!Init, Book!Init
  <1> QED BY <1>2, Book!InitCorrect, SizesAssumption DEF Book!Ticks

LEMMA BookKnownIds ==
  ASSUME Book!IndInv
  PROVE  /\ Book!Match =>
              /\ call.pc # "idle"
              /\ \A id \in Book!Ids : order_map'[id] # 0 => order_map[id] # 0 \/ id = call.id
              /\ call'.pc # "idle" => call'.id = call.id
         /\ \A id \in Book!Ids : Book!Remove(id) =>
              /\ order_map'[id] = 0
              /\ \A i \in Book!Ids : order_map'[i] # 0 => order_map[i] # 0
PROOF
  <1>1. ASSUME Book!Match
        PROVE  /\ call.pc # "idle"
               /\ \A id \in Book!Ids : order_map'[id] # Book!nullptr => order_map[id] # Book!nullptr \/ id = call.id
               /\ call'.pc # "idle" => call'.id = call.id
    BY <1>1, Book!MatchKnownIds, SizesAssumption DEF Book!Ticks
  <1>2. ASSUME NEW id \in Book!Ids, Book!Remove(id)
        PROVE  /\ order_map'[id] = Book!nullptr
               /\ \A i \in Book!Ids : order_map'[i] # Book!nullptr => order_map[i] # Book!nullptr
    BY <1>2, Book!RemoveKnownIds, SizesAssumption DEF Book!Ticks
  <1> QED BY <1>1, <1>2 DEF Book!nullptr
--------------------------------------------------------------------------------
IsAdd(m, id) == m.type = "A" /\ m.order_id = id
IsCancel(m, id) == m.type = "X" /\ m.order_id = id

\* The messages that the engine has applied or is applying.
Begun == IF worker \in {"call", "sample"} THEN messages_processed + 1 ELSE messages_processed

\* An id is live while the book knows it or a call may add it.
Live(id) == order_map[id] # 0 \/ (call.pc # "idle" /\ call.id = id)

\* A live order was added, and not cancelled since.
LiveOrders == \A id \in Book!Ids : Live(id) =>
  \E j \in 1 .. Begun : IsAdd(sent[j], id) /\ \A i \in j + 1 .. Begun : ~IsCancel(sent[i], id)

\* The sender adds each id once.
OneAdd == \A i, j \in 1 .. Len(sent) :
            sent[i].type = "A" /\ IsAdd(sent[j], sent[i].order_id) => i = j

BetweenCalls == worker # "call" => call.pc = "idle"

BookInv == /\ OneAdd
           /\ BetweenCalls
           /\ Unharmed => Book!IndInv /\ LiveOrders

\* Harm is never undone.
LEMMA HarmStays ==
  ASSUME Types, [Next]_vars, Unharmed'
  PROVE  Unharmed
PROOF
  <1>1. faults \in Nat /\ dropped_packets \in Nat
    BY DEF Types
  <1>2. CASE WorkerStep
    BY <1>2 DEF WorkerStep, feed, outside, Unharmed
  <1>3. CASE Outside
    <2>1. UNCHANGED dropped_packets /\ main' \in {main, "killed"} /\ faults' \in {faults, faults + 1}
      BY <1>3 DEF Outside, Send, Deliver, Lose, Duplicate, Damage, Signal, Kill, feed, outside
    <2> QED BY <1>1, <2>1 DEF Unharmed
  <1>4. CASE MainStep
    <2>1. faults' = faults /\ dropped_packets' \in {dropped_packets, dropped_packets + 1}
      BY <1>4 DEF MainStep, CreateThread, ConstructFails, SetupFails, EnterLoop, Receive, HandlerStep,
           SignalHandler, LeaveLoop, Join, CloseLoop, DestroyBook, DestroyQueue, Exit, feed, outside,
           Feed!Call, Feed!Ignore, Feed!Push, Feed!LookAgain, Feed!Drop
    <2>2. main' \in Alive => main \in Alive
      BY <1>4 DEF MainStep, CreateThread, ConstructFails, SetupFails, EnterLoop, Receive, HandlerStep,
           SignalHandler, LeaveLoop, Join, CloseLoop, DestroyBook, DestroyQueue, Exit, Alive
    <2> QED BY <1>1, <2>1, <2>2 DEF Unharmed, Alive
  <1>5. CASE Ended \/ UNCHANGED vars
    BY <1>5 DEF Ended, vars, feed, outside, Unharmed
  <1> QED BY <1>2, <1>3, <1>4, <1>5 DEF Next

\* The message that the engine works on is the next one of those sent.
LEMMA NextMessage ==
  ASSUME IndInv, Unharmed
  PROVE  /\ Begun \in Nat /\ Begun <= Len(sent)
         /\ worker \in Busy => /\ messages_processed + 1 <= Len(sent)
                               /\ packet = sent[messages_processed + 1] /\ packet \in Messages
PROOF
  <1>1. /\ sent \in Seq(Messages) /\ messages_processed \in Nat /\ messages_processed <= Len(sent)
        /\ InTransit = SubSeq(sent, messages_processed + 1, Len(sent))
        /\ worker \in Busy => packet \in Messages
    BY DEF IndInv, Types, Conserved
  <1>2. ASSUME worker \in Busy
        PROVE  messages_processed + 1 <= Len(sent) /\ packet = sent[messages_processed + 1]
    <2> DEFINE r == contents \o Handling \o MessagesOf(arrived) \o MessagesOf(network)
    <2>1. Applying = <<packet>> /\ packet \in Messages
      BY <1>1, <1>2 DEF Applying, Busy
    <2>2. /\ contents \in Seq(Messages) /\ Handling \in Seq(Messages)
          /\ MessagesOf(arrived) \in Seq(Messages) /\ MessagesOf(network) \in Seq(Messages)
      BY Pipeline DEF IndInv
    <2>3. InTransit = (((<<packet>> \o contents) \o Handling) \o MessagesOf(arrived)) \o MessagesOf(network)
      BY <2>1 DEF InTransit
    <2>4. \A x, y \in Seq(Messages) : x # <<>> => x \o y # <<>> /\ (x \o y)[1] = x[1] /\ x \o y \in Seq(Messages)
      OBVIOUS
    <2>5. <<packet>> \in Seq(Messages) /\ <<packet>> # <<>> /\ <<packet>>[1] = packet
      BY <2>1
    <2>6. InTransit # <<>> /\ InTransit[1] = packet
      <3> DEFINE a == <<packet>> \o contents
                 b == a \o Handling
                 c == b \o MessagesOf(arrived)
      <3>1. a # <<>> /\ a[1] = packet /\ a \in Seq(Messages)
        BY <2>2, <2>4, <2>5
      <3> HIDE DEF a
      <3>2. b # <<>> /\ b[1] = packet /\ b \in Seq(Messages)
        BY <2>2, <2>4, <3>1
      <3> HIDE DEF b
      <3>3. c # <<>> /\ c[1] = packet /\ c \in Seq(Messages)
        BY <2>2, <2>4, <3>2
      <3> HIDE DEF c
      <3>4. InTransit = c \o MessagesOf(network)
        BY <2>3 DEF a, b, c
      <3> QED BY <2>2, <2>4, <3>3, <3>4
    <2>7. messages_processed + 1 <= Len(sent)
      BY <1>1, <2>6, Unsent
    <2>8. SubSeq(sent, messages_processed + 1, Len(sent))[1] = sent[messages_processed + 1]
      BY <1>1, <2>7
    <2> QED BY <1>1, <2>6, <2>7, <2>8
  <1>3. Begun \in Nat /\ Begun <= Len(sent)
    BY <1>1, <1>2 DEF Begun, Busy
  <1> QED BY <1>1, <1>2, <1>3

\* A step that does not touch the book.
LEMMA BookQuiet ==
  ASSUME Book!QuantitiesFit, IndInv, BookInv, [Next]_vars, OneAdd',
         UNCHANGED book, Unharmed => Begun' = Begun,
         worker' # "call" => worker # "call",
         Unharmed => \A j \in 1 .. Begun : sent'[j] = sent[j]
  PROVE  BookInv'
PROOF
  <1>1. BetweenCalls'
    BY DEF BookInv, BetweenCalls, book
  <1>2. ASSUME Unharmed' PROVE Book!IndInv' /\ LiveOrders'
    <2>1. Unharmed
      BY <1>2, HarmStays DEF IndInv
    <2>2. Book!IndInv'
      <3>1. UNCHANGED Book!vars
        BY DEF book, Book!vars
      <3> QED BY <2>1, <3>1, BookStep DEF BookInv
    <2>3. LiveOrders'
      <3> SUFFICES ASSUME NEW id \in Book!Ids, Live(id)'
                   PROVE  \E j \in 1 .. Begun' : /\ IsAdd(sent'[j], id)
                                                 /\ \A i \in j + 1 .. Begun' : ~IsCancel(sent'[i], id)
        BY DEF LiveOrders, Book!Ids, IsAdd, IsCancel
      <3>1. Live(id)
        BY DEF Live, book
      <3>2. PICK j \in 1 .. Begun : IsAdd(sent[j], id) /\ \A i \in j + 1 .. Begun : ~IsCancel(sent[i], id)
        BY <2>1, <3>1 DEF BookInv, LiveOrders
      <3>3. \A i \in j + 1 .. Begun : i \in 1 .. Begun
        BY <2>1, NextMessage
      <3> QED BY <2>1, <3>2, <3>3
    <2> QED BY <2>2, <2>3
  <1> QED BY <1>1, <1>2 DEF BookInv

LEMMA OutsideBook ==
  ASSUME Book!QuantitiesFit, IndInv, BookInv, Outside
  PROVE  BookInv'
PROOF
  <1>0. [Next]_vars /\ sent \in Seq(Messages) /\ OneAdd
    BY DEF Next, IndInv, Types, BookInv
  <1>1. UNCHANGED book /\ UNCHANGED <<worker, messages_processed>>
    BY DEF Outside, Send, Deliver, Lose, Duplicate, Damage, Signal, Kill, engine, latency
  <1>2. Begun' = Begun
    BY <1>1 DEF Begun
  <1>3. CASE \E m \in Messages : Send(m)
    <2>1. PICK m \in Messages : Send(m)
      BY <1>3
    <2>2. /\ sent' = Append(sent, m)
          /\ m.type = "A" => \A i \in 1 .. Len(sent) : sent[i].type = "A" => sent[i].order_id # m.order_id
      BY <2>1 DEF Send
    <2>3. /\ Len(sent') = Len(sent) + 1 /\ sent'[Len(sent) + 1] = m /\ Len(sent) \in Nat
          /\ \A i \in 1 .. Len(sent) : sent'[i] = sent[i]
      BY <1>0, <2>2
    <2>4. OneAdd'
      <3> SUFFICES ASSUME NEW i \in 1 .. Len(sent'), NEW j \in 1 .. Len(sent'),
                          sent'[i].type = "A", sent'[j].type = "A",
                          sent'[j].order_id = sent'[i].order_id
                   PROVE  i = j
        BY DEF OneAdd, IsAdd
      <3>1. (i \in 1 .. Len(sent) \/ i = Len(sent) + 1) /\ (j \in 1 .. Len(sent) \/ j = Len(sent) + 1)
        BY <2>3
      <3>2. CASE i \in 1 .. Len(sent) /\ j \in 1 .. Len(sent)
        BY <1>0, <2>3, <3>2 DEF OneAdd, IsAdd
      <3>3. CASE ~(i \in 1 .. Len(sent) /\ j \in 1 .. Len(sent))
        BY <2>2, <2>3, <3>1, <3>3
      <3> QED BY <3>2, <3>3
    <2>5. Unharmed => \A j \in 1 .. Begun : sent'[j] = sent[j]
      BY <2>3, NextMessage
    <2> QED BY <1>0, <1>1, <1>2, <2>4, <2>5, BookQuiet
  <1>4. CASE ~(\E m \in Messages : Send(m))
    <2>1. sent' = sent
      BY <1>4 DEF Outside, Deliver, Lose, Duplicate, Damage, Signal, Kill, outside
    <2>2. OneAdd'
      BY <1>0, <2>1 DEF OneAdd, IsAdd
    <2> QED BY <1>0, <1>1, <1>2, <2>1, <2>2, BookQuiet
  <1> QED BY <1>3, <1>4

LEMMA MainBook ==
  ASSUME Book!QuantitiesFit, IndInv, BookInv, MainStep \/ Ended \/ UNCHANGED vars
  PROVE  BookInv'
PROOF
  <1>0. [Next]_vars /\ OneAdd
    BY DEF Next, BookInv
  <1>1. /\ UNCHANGED book /\ UNCHANGED <<messages_processed, sent>>
        /\ worker' = worker \/ (worker = "none" /\ worker' = "check")
    <2>1. CASE CreateThread
      BY <2>1 DEF CreateThread, Engine!Start, Engine!book, Engine!latency, book, outside
    <2>2. CASE ~CreateThread
      <3>1. UNCHANGED engine /\ UNCHANGED outside
        BY <2>2 DEF MainStep, ConstructFails, SetupFails, EnterLoop, Receive, HandlerStep,
             SignalHandler, LeaveLoop, Join, CloseLoop, DestroyBook, DestroyQueue, Exit, Ended, vars
      <3>2. UNCHANGED book /\ UNCHANGED latency
        BY <3>1 DEF engine
      <3>3. worker' = worker
        BY <3>1 DEF engine
      <3>4. UNCHANGED <<messages_processed, sent>>
        BY <3>1, <3>2 DEF latency, outside
      <3> QED BY <3>2, <3>3, <3>4
    <2> QED BY <2>1, <2>2
  <1>2. Begun' = Begun /\ (worker' # "call" => worker # "call")
    BY <1>1 DEF Begun
  <1>3. OneAdd'
    BY <1>0, <1>1 DEF OneAdd, IsAdd
  <1> QED BY <1>0, <1>1, <1>2, <1>3, BookQuiet

\* A message that the engine begins to apply leaves no order live but the one it adds
\* and the ones that were live and that it does not cancel.
LEMMA BeginMessage ==
  ASSUME LiveOrders, Begun \in Nat, Begun' = Begun + 1, sent' = sent,
         \A id \in Book!Ids : Live(id)' =>
            IsAdd(sent[Begun + 1], id) \/ (Live(id) /\ ~IsCancel(sent[Begun + 1], id))
  PROVE  LiveOrders'
PROOF
  <1> SUFFICES ASSUME NEW id \in Book!Ids, Live(id)'
               PROVE  \E j \in 1 .. Begun' : /\ IsAdd(sent'[j], id)
                                             /\ \A i \in j + 1 .. Begun' : ~IsCancel(sent'[i], id)
    BY DEF LiveOrders, Book!Ids, IsAdd, IsCancel
  <1>1. CASE IsAdd(sent[Begun + 1], id)
    <2>1. Begun + 1 \in 1 .. Begun' /\ (Begun + 1) + 1 .. Begun' = {}
      OBVIOUS
    <2> QED BY <1>1, <2>1
  <1>2. CASE Live(id) /\ ~IsCancel(sent[Begun + 1], id)
    <2>1. PICK j \in 1 .. Begun : IsAdd(sent[j], id) /\ \A i \in j + 1 .. Begun : ~IsCancel(sent[i], id)
      BY <1>2 DEF LiveOrders
    <2>2. j \in 1 .. Begun' /\ \A i \in j + 1 .. Begun' : i \in j + 1 .. Begun \/ i = Begun + 1
      OBVIOUS
    <2> QED BY <1>2, <2>1, <2>2
  <1> QED BY <1>1, <1>2

LEMMA DispatchBook ==
  ASSUME Book!QuantitiesFit, IndInv, BookInv, WorkerStep, Engine!Dispatch
  PROVE  BookInv'
PROOF
  <1>0. [Next]_vars /\ OneAdd /\ call.pc = "idle" /\ worker = "dispatch"
    BY DEF Next, BookInv, BetweenCalls, Engine!Dispatch
  <1>1. UNCHANGED <<messages_processed, sent>> /\ worker' = Engine!AfterBook /\ Engine!Apply(packet)
    BY DEF WorkerStep, Engine!Dispatch, Engine!latency, outside
  <1>2. OneAdd' /\ BetweenCalls'
    BY <1>0, <1>1 DEF OneAdd, IsAdd, BetweenCalls, Engine!AfterBook
  <1>3. ASSUME Unharmed' PROVE Book!IndInv' /\ LiveOrders'
    <2>1. Unharmed /\ Book!IndInv /\ LiveOrders
      BY <1>0, <1>3, HarmStays DEF IndInv, BookInv
    <2>2. Begun \in Nat /\ Begun = messages_processed /\ Begun' = Begun + 1
      BY <1>0, <1>1, <2>1, NextMessage DEF Begun, Engine!AfterBook
    <2>3. packet = sent[Begun + 1] /\ Begun + 1 \in 1 .. Len(sent) /\ packet \in Messages
      BY <1>0, <2>1, <2>2, NextMessage DEF Busy
    <2>4. /\ packet.type \in {"A", "X", "M"} => packet.order_id \in Book!Ids
          /\ packet.type \in {"A", "M"} => packet.price \in Prices /\ packet.quantity \in Quantities
      BY <2>3, MessagesAssumption DEF Book!Ids
    <2>5. Engine!SideOf(packet.is_buy) \in Book!Side
      BY DEF Engine!SideOf, Book!Side
    <2> DEFINE Goal ==
          /\ [Book!Next]_Book!vars
          /\ \A id \in Book!Ids : Live(id)' =>
               IsAdd(packet, id) \/ (Live(id) /\ ~IsCancel(packet, id))
    <2>6. ASSUME packet.type = "A",
                 Engine!Book!AddOrder(packet.order_id, packet.price, packet.quantity,
                                      Engine!SideOf(packet.is_buy))
          PROVE  Goal
      <3>1. ~Live(packet.order_id)
        <4> SUFFICES ASSUME Live(packet.order_id) PROVE FALSE
          OBVIOUS
        <4>1. PICK j \in 1 .. Begun : IsAdd(sent[j], packet.order_id)
          BY <2>1, <2>4, <2>6 DEF LiveOrders
        <4>2. j \in 1 .. Len(sent) /\ j # Begun + 1
          BY <2>2, <2>3
        <4> QED BY <1>0, <2>3, <2>6, <4>1, <4>2 DEF OneAdd
      <3>2. Book!AddOrder(packet.order_id, packet.price, packet.quantity, Engine!SideOf(packet.is_buy))
        BY <2>6, <3>1, SameCalls DEF Live, Book!nullptr
      <3>3. [Book!Next]_Book!vars
        BY <2>4, <2>5, <2>6, <3>2 DEF Book!Next, Book!Calls
      <3>4. order_map' = order_map /\ call'.id = packet.order_id
        BY <3>2 DEF Book!AddOrder, Book!StartMatch, Book!book
      <3> QED BY <2>6, <3>3, <3>4 DEF Live, IsAdd, IsCancel
    <2>7. ASSUME packet.type = "X", Engine!Book!CancelOrder(packet.order_id)
          PROVE  Goal
      <3>1. Book!CancelOrder(packet.order_id)
        BY <2>7, SameCalls
      <3>2. [Book!Next]_Book!vars
        BY <2>4, <2>7, <3>1 DEF Book!Next, Book!Calls
      <3>3. Book!Remove(packet.order_id) /\ call' = call
        BY <3>1 DEF Book!CancelOrder
      <3>4. /\ order_map'[packet.order_id] = 0
            /\ \A i \in Book!Ids : order_map'[i] # 0 => order_map[i] # 0
        BY <2>1, <2>4, <2>7, <3>3, BookKnownIds
      <3> QED BY <1>0, <2>7, <3>2, <3>3, <3>4 DEF Live, IsAdd, IsCancel
    <2>8. ASSUME packet.type = "M",
                 \/ Engine!Book!ModifyReplace(packet.order_id, packet.price, packet.quantity)
                 \/ Engine!Book!ModifyToZero(packet.order_id, packet.price, packet.quantity)
                 \/ Engine!Book!ModifyInPlace(packet.order_id, packet.price, packet.quantity)
          PROVE  Goal
      <3>1. \/ Book!ModifyReplace(packet.order_id, packet.price, packet.quantity)
            \/ Book!ModifyToZero(packet.order_id, packet.price, packet.quantity)
            \/ Book!ModifyInPlace(packet.order_id, packet.price, packet.quantity)
        BY <2>8, SameCalls
      <3>2. [Book!Next]_Book!vars
        BY <2>4, <2>8, <3>1 DEF Book!Next, Book!Calls
      <3>3. /\ order_map[packet.order_id] # 0
            /\ call' = call \/ call'.id = packet.order_id
            /\ Book!Remove(packet.order_id) \/ order_map' = order_map
        <4>1. CASE Book!ModifyReplace(packet.order_id, packet.price, packet.quantity)
          BY <4>1 DEF Book!ModifyReplace, Book!StartMatch, Book!nullptr
        <4>2. CASE Book!ModifyToZero(packet.order_id, packet.price, packet.quantity)
          BY <4>2 DEF Book!ModifyToZero, Book!nullptr
        <4>3. CASE Book!ModifyInPlace(packet.order_id, packet.price, packet.quantity)
          BY <4>3 DEF Book!ModifyInPlace, Book!nullptr
        <4> QED BY <3>1, <4>1, <4>2, <4>3
      <3>4. \A i \in Book!Ids : order_map'[i] # 0 => order_map[i] # 0
        BY <2>1, <2>4, <2>8, <3>3, BookKnownIds
      <3> QED BY <1>0, <2>8, <3>2, <3>3, <3>4 DEF Live, IsCancel
    <2>9. ASSUME \/ packet.type \notin {"A", "X", "M"}
                 \/ packet.type \in {"X", "M"} /\ order_map[packet.order_id] = Engine!Book!nullptr,
                 UNCHANGED Engine!book
          PROVE  Goal
      <3>1. UNCHANGED Book!vars
        BY <2>9 DEF Book!vars, Engine!book
      <3>2. UNCHANGED <<order_map, call>>
        BY <2>9 DEF Engine!book
      <3> QED BY <1>0, <2>9, <3>1, <3>2 DEF Live, IsCancel, Engine!Book!nullptr
    <2>10. Goal
      <3> HIDE DEF Goal
      <3> QED BY <1>1, <2>6, <2>7, <2>8, <2>9 DEF Engine!Apply
    <2>11. Book!IndInv'
      BY <2>1, <2>10, BookStep
    <2>12. LiveOrders'
      BY <1>1, <2>1, <2>2, <2>3, <2>10, BeginMessage
    <2> QED BY <2>11, <2>12
  <1> QED BY <1>2, <1>3 DEF BookInv

LEMMA MatchBook ==
  ASSUME Book!QuantitiesFit, IndInv, BookInv, WorkerStep, Engine!Match
  PROVE  BookInv'
PROOF
  <1>0. [Next]_vars /\ OneAdd /\ worker = "call"
    BY DEF Next, BookInv, Engine!Match
  <1>1. UNCHANGED <<messages_processed, sent>> /\ worker' = Engine!AfterBook /\ Book!Match
    BY SameMatch DEF WorkerStep, Engine!Match, Engine!latency, outside
  <1>2. OneAdd' /\ BetweenCalls' /\ Begun' = Begun
    BY <1>0, <1>1 DEF OneAdd, IsAdd, BetweenCalls, Begun, Engine!AfterBook
  <1>3. ASSUME Unharmed' PROVE Book!IndInv' /\ LiveOrders'
    <2>1. Unharmed /\ Book!IndInv /\ LiveOrders
      BY <1>0, <1>3, HarmStays DEF IndInv, BookInv
    <2>2. Book!IndInv'
      BY <1>1, <2>1, BookStep DEF Book!Next
    <2>3. LiveOrders'
      <3>1. \A id \in Book!Ids : Live(id)' => Live(id)
        BY <1>1, <2>1, BookKnownIds DEF Live
      <3> SUFFICES ASSUME NEW id \in Book!Ids, Live(id)'
                   PROVE  \E j \in 1 .. Begun' : /\ IsAdd(sent'[j], id)
                                                 /\ \A i \in j + 1 .. Begun' : ~IsCancel(sent'[i], id)
        BY DEF LiveOrders, Book!Ids, IsAdd, IsCancel
      <3> QED BY <1>1, <1>2, <2>1, <3>1 DEF LiveOrders
    <2> QED BY <2>2, <2>3
  <1> QED BY <1>2, <1>3 DEF BookInv

LEMMA WorkerBook ==
  ASSUME Book!QuantitiesFit, IndInv, BookInv, WorkerStep
  PROVE  BookInv'
PROOF
  <1>0. [Next]_vars /\ OneAdd /\ messages_processed \in Nat
    BY DEF Next, BookInv, IndInv, Types
  <1>1. CASE Engine!Poll \/ Engine!Quit \/ Engine!PopPacket \/ Engine!Report
             \/ \E n \in 0 .. Len(contents) : Engine!LookAgain(n)
    <2>1. /\ UNCHANGED book /\ UNCHANGED <<messages_processed, sent>>
          /\ worker \notin {"call", "sample"} /\ worker' \notin {"call", "sample"}
      BY <1>1 DEF WorkerStep, outside, book, Engine!Poll, Engine!Quit, Engine!PopPacket, Engine!Report,
           Engine!LookAgain, Engine!book, Engine!latency, Engine!Latency!Report
    <2>2. Begun' = Begun /\ OneAdd'
      BY <1>0, <2>1 DEF Begun, OneAdd, IsAdd
    <2> QED BY <1>0, <2>1, <2>2, BookQuiet
  <1>2. CASE \E delta \in Latencies : Engine!Sample(delta)
    <2>1. /\ UNCHANGED book /\ UNCHANGED sent /\ messages_processed' = messages_processed + 1
          /\ worker = "sample" /\ worker' = "check"
      BY <1>2 DEF WorkerStep, outside, book, Engine!Sample, Engine!book, Engine!Latency!Record
    <2>2. Begun' = Begun /\ OneAdd'
      BY <1>0, <2>1 DEF Begun, OneAdd, IsAdd
    <2> QED BY <1>0, <2>1, <2>2, BookQuiet
  <1> QED BY <1>1, <1>2, DispatchBook, MatchBook DEF WorkerStep, Engine!Step

\* Between calls, while no harm has been done, an order whose cancel was processed is
\* neither in order_map nor in the book.
LEMMA HonouredCancel ==
  ASSUME IndInv, BookInv
  PROVE  CancelHonoured
PROOF
  <1> SUFFICES ASSUME Unharmed, InTransit = <<>>, NEW id \in 0 .. MAX_ORDERS - 1, CancelSent(id)
               PROVE  ~InBook(id) /\ order_map[id] = 0
    BY DEF CancelHonoured
  <1>0. Book!IndInv /\ LiveOrders /\ OneAdd /\ id \in Book!Ids
    BY DEF BookInv, Book!Ids
  <1>1. sent \in Seq(Messages) /\ messages_processed \in Nat /\ messages_processed <= Len(sent)
        /\ InTransit = SubSeq(sent, messages_processed + 1, Len(sent))
    BY DEF IndInv, Types, Conserved
  <1>2. Begun \in Nat /\ Begun <= Len(sent) /\ messages_processed <= Begun
    BY <1>1, NextMessage DEF Begun
  <1>3. Begun = Len(sent)
    <2>1. messages_processed = Len(sent)
      <3> SUFFICES ASSUME messages_processed < Len(sent) PROVE FALSE
        BY <1>1
      <3>1. Len(SubSeq(sent, messages_processed + 1, Len(sent))) = Len(sent) - messages_processed
        BY <1>1
      <3>2. SubSeq(sent, messages_processed + 1, Len(sent)) = <<>>
        BY <1>1, Zenon
      <3>3. \A x \in Seq(Messages) : x = <<>> => Len(x) = 0
        OBVIOUS
      <3>4. Len(SubSeq(sent, messages_processed + 1, Len(sent))) = 0
        BY <1>1, <3>2, <3>3, Unsent
      <3> QED BY <1>1, <3>1, <3>4
    <2> QED BY <1>1, <1>2, <2>1
  <1>4. order_map[id] = 0
    <2> SUFFICES ASSUME order_map[id] # 0 PROVE FALSE
      OBVIOUS
    <2>1. PICK j \in 1 .. Begun : IsAdd(sent[j], id) /\ \A i \in j + 1 .. Begun : ~IsCancel(sent[i], id)
      BY <1>0 DEF LiveOrders, Live
    <2>2. PICK i \in 1 .. Len(sent) : /\ sent[i].type = "X" /\ sent[i].order_id = id
                                      /\ \A k \in i .. Len(sent) : sent[k].type = "A" => sent[k].order_id # id
      BY DEF CancelSent
    <2>3. j < i
      BY <1>2, <1>3, <2>1, <2>2 DEF IsAdd
    <2> QED BY <1>2, <1>3, <2>1, <2>2, <2>3 DEF IsCancel
  <1>5. ~InBook(id)
    <2> SUFFICES ASSUME NEW side \in {"B", "S"}, NEW p \in 0 .. MAX_TICKS - 1,
                        NEW i \in 1 .. Len(queue[side][p]), pool[queue[side][p][i]].id = id
                 PROVE  FALSE
      BY DEF InBook
    <2>1. queue[side][p][i] \in Book!Slots
      <3>1. queue \in [Book!Side -> [Book!Ticks -> Seq(Book!Slots)]]
        BY <1>0 DEF Book!IndInv, Book!TypeOK
      <3>2. queue[side][p] \in Seq(Book!Slots)
        BY <3>1 DEF Book!Side, Book!Ticks
      <3> QED BY <3>2
    <2>2. queue[side][p][i] \in Book!Listed(side, p)
      BY DEF Book!Listed, Book!Entries
    <2>3. order_map[id] = queue[side][p][i]
      BY <1>0, <2>2 DEF Book!IndInv, Book!MapSound, Book!Side, Book!Ticks
    <2> QED BY <1>4, <2>1, <2>3 DEF Book!Slots
  <1> QED BY <1>4, <1>5

\* From the socket to the book, an order whose cancel was sent and processed is gone.
THEOREM CancelsHonoured == Book!QuantitiesFit => (Spec => []CancelHonoured)
PROOF
  <1> SUFFICES ASSUME Book!QuantitiesFit PROVE Spec => []CancelHonoured
    OBVIOUS
  <1>1. Init => BookInv
    <2> SUFFICES ASSUME Init PROVE BookInv
      OBVIOUS
    <2>1. Book!IndInv
      BY BookStart DEF Init, Engine!Init
    <2>2. OneAdd
      BY DEF Init, OneAdd
    <2>3. call.pc = "idle" /\ \A id \in Book!Ids : order_map[id] = 0
      BY DEF Init, Engine!Init, Engine!Book!Init, Engine!Book!NoCall, Engine!Book!Ids, Book!Ids,
             Engine!Book!nullptr
    <2> QED BY <2>1, <2>2, <2>3 DEF BookInv, BetweenCalls, LiveOrders, Live
  <1>2. IndInv /\ BookInv /\ [Next]_vars => BookInv'
    BY WorkerBook, MainBook, OutsideBook DEF Next
  <1>3. IndInv /\ BookInv => CancelHonoured
    BY HonouredCancel
  <1> QED BY <1>1, <1>2, <1>3, ProcessInvariant, PTL DEF Spec
--------------------------------------------------------------------------------
\* The process uses its parts in no other way than their own specifications allow.

LEMMA LoopSteps ==
  ASSUME IndInv, [Next]_vars
  PROVE  [Loop!Next]_Loop!vars
PROOF
  <1> USE DEF Loop!Next
  <1>1. CASE MainStep
    <2>1. CASE EnterLoop \/ Receive \/ SignalHandler \/ LeaveLoop \/ CloseLoop
      BY <2>1 DEF EnterLoop, Receive, SignalHandler, LeaveLoop, CloseLoop
    <2>2. CASE CreateThread
      BY <2>2 DEF CreateThread, Engine!Start, Loop!vars
    <2>3. CASE ConstructFails \/ SetupFails \/ HandlerStep \/ Join \/ DestroyBook \/ DestroyQueue \/ Exit
      <3>1. UNCHANGED loop
        BY <2>3 DEF ConstructFails, SetupFails, HandlerStep, Join, DestroyBook, DestroyQueue, Exit
      <3> QED BY <3>1 DEF loop, Loop!vars
    <2> QED BY <1>1, <2>1, <2>2, <2>3 DEF MainStep
  <1>2. CASE WorkerStep
    <2>1. running' = running
      BY <1>2 DEF WorkerStep, Engine!Step, Engine!Poll, Engine!Quit, Engine!PopPacket, Engine!Dispatch,
             Engine!Match, Engine!Report, Engine!LookAgain, Engine!Sample
    <2> QED BY <1>2, <2>1 DEF WorkerStep, Loop!vars
  <1>3. CASE Outside
    <2>1. CASE \E i \in 1 .. Len(network) : Deliver(i)
      <3>1. PICK i \in 1 .. Len(network) : Loop!Arrive(network[i])
        BY <2>1 DEF Deliver
      <3>2. network[i] \in Datagrams
        BY DEF IndInv, Types
      <3> QED BY <3>1, <3>2
    <2>2. CASE Signal \/ Kill
      BY <2>2 DEF Signal, Kill
    <2>3. CASE ~(\E i \in 1 .. Len(network) : Deliver(i)) /\ ~(Signal \/ Kill)
      <3>1. UNCHANGED loop
        BY <1>3, <2>3 DEF Outside, Send, Lose, Duplicate, Damage
      <3> QED BY <3>1 DEF loop, Loop!vars
    <2> QED BY <2>1, <2>2, <2>3
  <1>4. CASE Ended \/ UNCHANGED vars
    BY <1>4 DEF Ended, vars, loop, Loop!vars
  <1> QED BY <1>1, <1>2, <1>3, <1>4 DEF Next

\* Before the threads exist nobody has used the ring.
RingFresh == main = "start" => worker = "none" /\ open /\ visible = 0 /\ unseen_pops = 0

LEMMA RingSteps ==
  ASSUME IndInv, RingFresh, [Next]_vars
  PROVE  [Ring!Next]_Ring!vars /\ RingFresh'
PROOF
  <1>0. contents \in Seq(Messages) /\ (handler # "idle" => handled.message \in Messages)
    BY DatagramMessage DEF IndInv, Types
  <1>1. CASE MainStep
    <2>1. CASE ConstructFails
      BY <2>1 DEF ConstructFails, RingFresh, Ring!Next, Ring!Close
    <2>2. CASE CreateThread
      BY <2>2 DEF CreateThread, Engine!Start, Engine!ring, Ring!vars, RingFresh
    <2>3. CASE HandlerStep
      <3>1. main' # "start"
        BY <2>3 DEF HandlerStep
      <3>2. CASE Feed!Ignore(handled)
        BY <3>1, <3>2 DEF Feed!Ignore, Feed!ring, Ring!vars, RingFresh
      <3>3. CASE Feed!Push(handled)
        <4>1. Ring!Push(handled.message) /\ handled.message \in Messages
          BY <1>0, <3>3 DEF Feed!Push, Feed!Ring!Push, Feed!Ring!SeemsFull, Ring!Push, Ring!SeemsFull
        <4> QED BY <3>1, <4>1 DEF Ring!Next, RingFresh
      <3>4. CASE \E n \in 0 .. unseen_pops : Feed!LookAgain(handled, n)
        <4>1. \E n \in 0 .. unseen_pops : Ring!SeePops(n)
          BY <3>4 DEF Feed!LookAgain, Feed!Ring!SeePops, Feed!Ring!SeemsFull, Ring!SeePops, Ring!SeemsFull
        <4> QED BY <3>1, <4>1 DEF Ring!Next, RingFresh
      <3> QED BY <2>3, <3>2, <3>3, <3>4 DEF HandlerStep
    <2>4. CASE DestroyQueue
      BY <2>4 DEF DestroyQueue, Ring!Next, RingFresh
    <2>5. CASE SetupFails \/ EnterLoop \/ Receive \/ SignalHandler \/ LeaveLoop \/ Join
               \/ CloseLoop \/ DestroyBook \/ Exit
      <3>1. UNCHANGED ring /\ main' # "start"
        BY <2>5 DEF SetupFails, EnterLoop, Receive, SignalHandler, LeaveLoop, Join, CloseLoop,
               DestroyBook, Exit, Feed!Call, Feed!ring, ring
      <3> QED BY <3>1 DEF ring, Ring!vars, RingFresh
    <2> QED BY <1>1, <2>1, <2>2, <2>3, <2>4, <2>5 DEF MainStep
  <1>2. CASE WorkerStep
    <2>1. RingFresh'
      BY <1>2 DEF RingFresh, WorkerStep, Engine!Step, Engine!Poll, Engine!Quit, Engine!PopPacket,
             Engine!Dispatch, Engine!Match, Engine!Report, Engine!LookAgain, Engine!Sample
    <2>2. CASE Engine!PopPacket
      BY <2>1, <2>2 DEF Engine!PopPacket, Engine!Ring!Pop, Ring!Pop, Ring!Next
    <2>3. CASE \E n \in 0 .. Len(contents) : Engine!LookAgain(n)
      <3>1. \E n \in 0 .. Len(contents) : Ring!SeePushes(n)
        BY <2>3 DEF Engine!LookAgain, Engine!Ring!SeePushes, Ring!SeePushes
      <3> QED BY <2>1, <3>1 DEF Ring!Next
    <2>4. CASE ~Engine!PopPacket /\ ~(\E n \in 0 .. Len(contents) : Engine!LookAgain(n))
      <3>1. UNCHANGED Engine!ring
        BY <1>2, <2>4 DEF WorkerStep, Engine!Step, Engine!Poll, Engine!Quit,
             Engine!Dispatch, Engine!Match, Engine!Report, Engine!Sample
      <3> QED BY <2>1, <3>1 DEF Engine!ring, Ring!vars
    <2> QED BY <2>2, <2>3, <2>4
  <1>3. CASE Outside
    <2>1. UNCHANGED ring /\ UNCHANGED worker /\ (main' = main \/ main' = "killed")
      BY <1>3 DEF Outside, Send, Deliver, Lose, Duplicate, Damage, Signal, Kill, engine
    <2> QED BY <2>1 DEF ring, Ring!vars, RingFresh
  <1>4. CASE Ended \/ UNCHANGED vars
    BY <1>4 DEF Ended, vars, ring, engine, Ring!vars, RingFresh
  <1> QED BY <1>1, <1>2, <1>3, <1>4 DEF Next

LEMMA BookSteps ==
  ASSUME IndInv, [Next]_vars
  PROVE  [Engine!Book!Next]_Engine!Book!vars
PROOF
  <1>1. CASE WorkerStep /\ Engine!Dispatch
    <2>1. packet \in Messages /\ Engine!Apply(packet)
      BY <1>1 DEF IndInv, Types, Busy, Engine!Dispatch
    <2>2. /\ packet.type \in {"A", "X", "M"} => packet.order_id \in Engine!Book!Ids
          /\ packet.type \in {"A", "M"} => packet.price \in Prices /\ packet.quantity \in Quantities
      BY <2>1, MessagesAssumption DEF Engine!Book!Ids
    <2>3. Engine!SideOf(packet.is_buy) \in Engine!Book!Side
      BY DEF Engine!SideOf, Engine!Book!Side
    <2>4. CASE UNCHANGED Engine!book
      BY <2>4 DEF Engine!book, Engine!Book!vars
    <2>5. CASE ~ UNCHANGED Engine!book
      <3>1. Engine!Book!Calls
        BY <2>1, <2>2, <2>3, <2>5 DEF Engine!Apply, Engine!Book!Calls
      <3> QED BY <3>1 DEF Engine!Book!Next
    <2> QED BY <2>4, <2>5
  <1>2. CASE WorkerStep /\ Engine!Match
    BY <1>2 DEF Engine!Match, Engine!Book!Next
  <1>3. CASE WorkerStep /\ ~Engine!Dispatch /\ ~Engine!Match
    <2>1. UNCHANGED Engine!book
      BY <1>3 DEF WorkerStep, Engine!Step, Engine!Poll, Engine!Quit, Engine!PopPacket, Engine!Report,
             Engine!LookAgain, Engine!Sample
    <2> QED BY <2>1 DEF Engine!book, Engine!Book!vars
  <1>4. CASE MainStep \/ Outside \/ Ended \/ UNCHANGED vars
    <2>1. CASE CreateThread
      BY <2>1 DEF CreateThread, Engine!Start, Engine!book, Engine!Book!vars
    <2>2. CASE ~CreateThread
      <3>1. UNCHANGED engine
        BY <1>4, <2>2 DEF MainStep, ConstructFails, SetupFails, EnterLoop, Receive, HandlerStep,
             SignalHandler, LeaveLoop, Join, CloseLoop, DestroyBook, DestroyQueue, Exit, Ended, vars,
             Outside, Send, Deliver, Lose, Duplicate, Damage, Signal, Kill
      <3>2. UNCHANGED book
        BY <3>1 DEF engine
      <3> QED BY <3>2 DEF book, Engine!Book!vars
    <2> QED BY <2>1, <2>2
  <1> QED BY <1>1, <1>2, <1>3, <1>4 DEF Next

\* Whatever the network does and however the process ends, it drives the event loop,
\* the ring and the order book within their specifications, so that what is proved of
\* each of them on its own holds in the process.
THEOREM PartsUsedAsSpecified == Spec => Loop!Spec /\ Ring!Spec /\ Engine!Book!Spec
PROOF
  <1>1. Init => Loop!Init /\ Ring!Init /\ Engine!Book!Init /\ RingFresh
    BY DEF Init, Engine!Init, RingFresh, Ring!Init
  <1>2. IndInv /\ RingFresh /\ [Next]_vars =>
          /\ [Loop!Next]_Loop!vars /\ [Engine!Book!Next]_Engine!Book!vars
          /\ [Ring!Next]_Ring!vars /\ RingFresh'
    BY LoopSteps, RingSteps, BookSteps
  <1> QED BY <1>1, <1>2, ProcessInvariant, PTL DEF Spec, Loop!Spec, Ring!Spec, Engine!Book!Spec
================================================================================
