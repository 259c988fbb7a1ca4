------------------------------ MODULE SPSCQueue ------------------------------
(***************************************************************************)
(* include/SPSCQueue.h: the lock-free single-producer single-consumer ring *)
(* between the network thread (push) and the matching engine (pop).        *)
(*                                                                         *)
(* Memory model.  Each atomic cursor is its modification order: the        *)
(* sequence of the stores made to it, each with the value stored and the   *)
(* VIEW it releases (how many slot accesses of the storing thread precede  *)
(* the store).  A load may return any store at or after the last one the   *)
(* thread has read (coherence), so it may be stale; an acquire load joins  *)
(* the view of the store it reads.  The slots are not atomic: each records *)
(* the serial number of the construct that filled it and of the destroy    *)
(* that emptied it, so that an access that is not ordered after the other  *)
(* thread's last access of the slot can be told.                           *)
(***************************************************************************)
EXTENDS Integers, Sequences

CONSTANTS Capacity,    \* _capacity
          CursorMod,   \* number of values of size_type (2^64)
          Values,      \* the payloads T
          Junk,        \* the contents of memory nobody has written yet
          MaxPushes    \* bound: number of values pushed

\* The constructor asserts that capacity is a power of two (SPSCQueue.h:21), so
\* that it divides the number of values of the cursor type.
ASSUME SizeAssumption ==
  /\ Capacity \in Nat \ {0}
  /\ CursorMod \in Nat
  /\ MaxPushes \in Nat
  /\ \E k \in 2 .. CursorMod : CursorMod = k * Capacity
  /\ Junk \notin Values

VARIABLES
  push_cursor,         \* modification order of _push_cursor, oldest store first
  pop_cursor,          \* modification order of _pop_cursor
  ring,                \* _ring
  pop_cursor_cached,   \* _pop_cursor_cached  (producer)
  pop_seen,            \* producer: position of the last store of _pop_cursor it read
  destroy_view,        \* producer: destroys it is ordered after
  push_pc, push_arg,   \* producer: where it is in push(), and the argument
  push_cursor_cached,  \* _push_cursor_cached (consumer)
  push_seen,           \* consumer: position of the last store of _push_cursor it read
  construct_view,      \* consumer: constructs it is ordered after
  pop_pc, pop_val,     \* consumer: where it is in pop(), and the value moved out
  delivered,           \* history: the values returned by pop()
  stage                \* "running", then "joined" (destructor runs), then "freed"

producer == <<pop_cursor_cached, pop_seen, destroy_view, push_pc, push_arg>>
consumer == <<push_cursor_cached, push_seen, construct_view, pop_pc, pop_val>>
vars == <<push_cursor, pop_cursor, ring, producer, consumer, delivered, stage>>

Slots == 0 .. Capacity - 1
CursorType == 0 .. CursorMod - 1
Store == [value : CursorType, view : Nat]
Memory == Values \cup {Junk}
SlotType == [val : Memory, constructed : Nat, destroyed : Nat]

\* The owner of a cursor always reads its own last store.
Current(cursor) == cursor[Len(cursor)].value

\* A definition named X_... is a slip that the definition X after it could
\* contain: the properties must tell them apart.

Subtract(a, b) == (a - b) % CursorMod
Full_OffByOne(push, pop) == Subtract(push, pop) > Capacity
Full(push, pop) == Subtract(push, pop) >= Capacity
Empty(push, pop) == push = pop
Index(cursor) == cursor % Capacity

\* The store of one thread that a release store of value + 1 appends.
StoreRelease(cursor, view) ==
  Append(cursor, [value |-> (Current(cursor) + 1) % CursorMod, view |-> view])

\* The view of a thread after an acquire load of the store s.
JoinAcquire_Relaxed(view, s) == view
JoinAcquire(view, s) == IF s.view > view THEN s.view ELSE view

\* A slot after the destroy number n.
Destroyed(slot, n) == [val |-> slot.val, constructed |-> slot.constructed, destroyed |-> n]

Size == Subtract(Current(push_cursor), Current(pop_cursor))

Init ==
  /\ push_cursor = <<[value |-> 0, view |-> 0]>>
  /\ pop_cursor  = <<[value |-> 0, view |-> 0]>>
  /\ ring = [s \in Slots |-> [val |-> Junk, constructed |-> 0, destroyed |-> 0]]
  /\ pop_cursor_cached = 0 /\ pop_seen = 1 /\ destroy_view = 0
  /\ push_cursor_cached = 0 /\ push_seen = 1 /\ construct_view = 0
  /\ push_pc = "idle" /\ push_arg = Junk
  /\ pop_pc = "idle" /\ pop_val = Junk
  /\ delivered = <<>>
  /\ stage = "running"
-------------------------------------------------------------------------------
\* push()

Push(v) ==
  /\ stage = "running" /\ push_pc = "idle"
  /\ Len(push_cursor) <= MaxPushes
  /\ push_arg' = v
  /\ push_pc' = IF Full(Current(push_cursor), pop_cursor_cached)
                THEN "reload" ELSE "construct"
  /\ UNCHANGED <<push_cursor, pop_cursor, ring, pop_cursor_cached, pop_seen,
                 destroy_view, consumer, delivered, stage>>

PushReload_NoRetest(i) ==
  /\ push_pc = "reload"
  /\ pop_seen' = i
  /\ pop_cursor_cached' = pop_cursor[i].value
  /\ destroy_view' = JoinAcquire(destroy_view, pop_cursor[i])
  /\ push_pc' = "construct"
  /\ UNCHANGED <<push_cursor, pop_cursor, ring, push_arg, consumer, delivered, stage>>

PushReload(i) ==
  /\ push_pc = "reload"
  /\ pop_seen' = i
  /\ pop_cursor_cached' = pop_cursor[i].value
  /\ destroy_view' = JoinAcquire(destroy_view, pop_cursor[i])
  /\ push_pc' = IF Full(Current(push_cursor), pop_cursor[i].value)
                THEN "idle" ELSE "construct"
  /\ UNCHANGED <<push_cursor, pop_cursor, ring, push_arg, consumer, delivered, stage>>

PushConstruct ==
  /\ push_pc = "construct"
  /\ ring' = [ring EXCEPT ![Index(Current(push_cursor))] =
                [val |-> push_arg, constructed |-> Len(push_cursor), destroyed |-> @.destroyed]]
  /\ push_pc' = "publish"
  /\ UNCHANGED <<push_cursor, pop_cursor, pop_cursor_cached, pop_seen, destroy_view,
                 push_arg, consumer, delivered, stage>>

PushPublish ==
  /\ push_pc = "publish"
  /\ push_cursor' = StoreRelease(push_cursor, Len(push_cursor))
  /\ push_pc' = "idle"
  /\ UNCHANGED <<pop_cursor, ring, pop_cursor_cached, pop_seen, destroy_view,
                 push_arg, consumer, delivered, stage>>
-------------------------------------------------------------------------------
\* pop()

Pop ==
  /\ stage = "running" /\ pop_pc = "idle"
  /\ pop_pc' = IF Empty(push_cursor_cached, Current(pop_cursor))
               THEN "reload" ELSE "take"
  /\ UNCHANGED <<push_cursor, pop_cursor, ring, producer, push_cursor_cached,
                 push_seen, construct_view, pop_val, delivered, stage>>

PopReload_TestsOldCopy(i) ==
  /\ pop_pc = "reload"
  /\ push_seen' = i
  /\ construct_view' = JoinAcquire(construct_view, push_cursor[i])
  /\ pop_pc' = IF Empty(push_cursor_cached, Current(pop_cursor))
               THEN "idle" ELSE "take"
  /\ UNCHANGED <<push_cursor, pop_cursor, ring, producer, push_cursor_cached, pop_val,
                 delivered, stage>>

PopReload_NoRetest(i) ==
  /\ pop_pc = "reload"
  /\ push_seen' = i
  /\ push_cursor_cached' = push_cursor[i].value
  /\ construct_view' = JoinAcquire(construct_view, push_cursor[i])
  /\ pop_pc' = "take"
  /\ UNCHANGED <<push_cursor, pop_cursor, ring, producer, pop_val, delivered, stage>>

PopReload(i) ==
  /\ pop_pc = "reload"
  /\ push_seen' = i
  /\ push_cursor_cached' = push_cursor[i].value
  /\ construct_view' = JoinAcquire(construct_view, push_cursor[i])
  /\ pop_pc' = IF Empty(push_cursor[i].value, Current(pop_cursor))
               THEN "idle" ELSE "take"
  /\ UNCHANGED <<push_cursor, pop_cursor, ring, producer, pop_val, delivered, stage>>

\* A read that races with the construct of the slot may return anything.
PopTake ==
  /\ pop_pc = "take"
  /\ LET idx == Index(Current(pop_cursor))
     IN  /\ pop_val' \in IF ring[idx].constructed <= construct_view
                         THEN {ring[idx].val} ELSE Memory
         /\ ring' = [ring EXCEPT ![idx] = Destroyed(@, Len(pop_cursor))]
  /\ pop_pc' = "publish"
  /\ UNCHANGED <<push_cursor, pop_cursor, producer, push_cursor_cached, push_seen,
                 construct_view, delivered, stage>>

PopPublish ==
  /\ pop_pc = "publish"
  /\ pop_cursor' = StoreRelease(pop_cursor, Len(pop_cursor))
  /\ delivered' = Append(delivered, pop_val)
  /\ pop_pc' = "idle"
  /\ UNCHANGED <<push_cursor, ring, producer, push_cursor_cached, push_seen,
                 construct_view, pop_val, stage>>
-------------------------------------------------------------------------------
\* ~SPSCQueue(), run by main after it has joined the matching engine: every
\* access of both threads is ordered before it.

Join ==
  /\ stage = "running" /\ push_pc = "idle" /\ pop_pc = "idle"
  /\ stage' = "joined"
  /\ UNCHANGED <<push_cursor, pop_cursor, ring, producer, consumer, delivered>>

DestroyRemaining ==
  /\ stage = "joined" /\ Size # 0
  /\ ring' = [ring EXCEPT ![Index(Current(pop_cursor))] = Destroyed(@, Len(pop_cursor))]
  /\ pop_cursor' = StoreRelease(pop_cursor, Len(pop_cursor))
  /\ UNCHANGED <<push_cursor, producer, consumer, delivered, stage>>

Deallocate ==
  /\ stage = "joined" /\ Size = 0
  /\ stage' = "freed"
  /\ UNCHANGED <<push_cursor, pop_cursor, ring, producer, consumer, delivered>>

Freed == stage = "freed" /\ UNCHANGED vars
-------------------------------------------------------------------------------
Producer == \/ \E v \in Values : Push(v)
            \/ \E i \in pop_seen .. Len(pop_cursor) : PushReload(i)
            \/ PushConstruct
            \/ PushPublish

Consumer == \/ Pop
            \/ \E i \in push_seen .. Len(push_cursor) : PopReload(i)
            \/ PopTake
            \/ PopPublish

Destructor == Join \/ DestroyRemaining \/ Deallocate \/ Freed

Next == Producer \/ Consumer \/ Destructor

Spec == Init /\ [][Next]_vars

\* The matching engine polls for as long as it runs, and a store to an atomic
\* becomes visible to a thread that keeps loading it ([intro.progress]).
FairSpec == /\ Spec
            /\ WF_vars(Consumer)
            /\ SF_vars(PopReload(Len(push_cursor)))
-------------------------------------------------------------------------------
\* The types of the queue's members and of the two threads' registers.
Types ==
  /\ push_cursor \in Seq(Store) /\ pop_cursor \in Seq(Store)
  /\ push_cursor # <<>> /\ pop_cursor # <<>>
  /\ ring \in [Slots -> SlotType]
  /\ pop_cursor_cached \in CursorType /\ push_cursor_cached \in CursorType
  /\ pop_seen \in 1 .. Len(pop_cursor) /\ push_seen \in 1 .. Len(push_cursor)
  /\ destroy_view \in Nat /\ construct_view \in Nat
  /\ push_pc \in {"idle", "reload", "construct", "publish"}
  /\ pop_pc \in {"idle", "reload", "take", "publish"}
  /\ push_arg \in Memory /\ pop_val \in Memory
  /\ delivered \in Seq(Memory)
  /\ stage \in {"running", "joined", "freed"}

\* Type invariant.  While the threads run, each cursor's unsigned distance from the
\* other thread's cursor as this thread has cached it is a number of elements, which is
\* what full() and empty() take it for (SPSCQueue.h:56, 60): no cursor overtakes a cached
\* one, so that the distance would wrap, and none gets more than the ring ahead of it.
TypeOK ==
  /\ Types
  /\ stage = "running" =>
       /\ Subtract(Current(push_cursor), pop_cursor_cached) \in 0 .. Capacity
       /\ Subtract(push_cursor_cached, Current(pop_cursor)) \in 0 .. Capacity

\* The slot that push() is about to construct in, and pop() to move from, was
\* last accessed by the other thread before something this thread has acquired:
\* the acquire/release pairs on the cursors (SPSCQueue.h:94, 102, 110, 119)
\* order every two conflicting accesses, however stale the loads are.
NoDataRace ==
  /\ push_pc = "construct" =>
       ring[Index(Current(push_cursor))].destroyed <= destroy_view
  /\ pop_pc = "take" =>
       ring[Index(Current(pop_cursor))].constructed <= construct_view

\* push() never constructs over a live object, pop() and the destructor never
\* destroy a dead one (SPSCQueue.h:101, 118, 32), and when the memory is
\* released no live object is left in it.
Live(s) == ring[s].constructed > ring[s].destroyed
ObjectLifetimes ==
  /\ push_pc = "construct" => ~Live(Index(Current(push_cursor)))
  /\ pop_pc = "take" => Live(Index(Current(pop_cursor)))
  /\ (stage = "joined" /\ Size # 0) => Live(Index(Current(pop_cursor)))
  /\ stage = "freed" => \A s \in Slots : ~Live(s)

\* The ring between the cursors is a bounded FIFO: push() and pop() take effect
\* when they store their cursor, and nothing is lost, repeated or reordered.
Contents == [i \in 1 .. Size |-> ring[Index(Current(pop_cursor) + i - 1)].val]
Abstract == INSTANCE BoundedQueue WITH contents <- Contents, open <- stage = "running"
ImplementsBoundedQueue == Abstract!Spec

\* It is also the ring with stale views that the composition of the process is
\* built on: a push or a pop that looks again sees any state of the other end that
\* is not older than the one it saw before, and nothing it must not see.
Shared == INSTANCE SharedRing WITH
  contents <- Contents,
  visible <- IF stage = "running" THEN push_seen - Len(pop_cursor) ELSE 0,
  unseen_pops <- IF stage = "running" THEN Len(pop_cursor) - pop_seen ELSE 0,
  packet <- IF delivered = <<>> THEN Junk ELSE delivered[Len(delivered)],
  open <- stage = "running"
ImplementsSharedRing == Shared!Spec

\* What was pushed is delivered, unless the threads are stopped first: the
\* cached copy of _push_cursor is refreshed often enough (SPSCQueue.h:109-114).
EveryPushDelivered ==
  \A n \in 1 .. MaxPushes :
    Len(push_cursor) > n ~> (Len(delivered) >= n \/ stage # "running")
===============================================================================
