---------------------------- MODULE SPSCQueueProofs ----------------------------
(***************************************************************************)
(* The ring buffer is race free and is a bounded FIFO for every capacity,  *)
(* every cursor width and any number of pushes.                            *)
(*                                                                         *)
(* The inductive invariant counts: store number i of a cursor holds i      *)
(* modulo CursorMod, each cached cursor is a real, possibly old, store of  *)
(* the other thread's cursor, the two counters stay within Capacity of     *)
(* each other even when measured with the cached copies, and every slot    *)
(* carries the serial numbers of the last accesses that fall on it.        *)
(***************************************************************************)
EXTENDS SPSCQueue, ArithmeticLemmas

\* The value of a cursor after n stores, and the slot of serial number n + 1.
Wrapped(n) == n % CursorMod
SlotOf(n)  == n % Capacity

Pushes == Len(push_cursor) - 1
Pops   == Len(pop_cursor) - 1
Constructs == IF push_pc = "publish" THEN Pushes + 1 ELSE Pushes
Destroys   == IF pop_pc = "publish" THEN Pops + 1 ELSE Pops

\* The modification order of a cursor counts.
Counts(cursor) ==
  \A i \in 1 .. Len(cursor) :
    cursor[i].value = Wrapped(i - 1) /\ cursor[i].view = i - 1

Cursors ==
  /\ Counts(push_cursor) /\ Counts(pop_cursor)
  /\ pop_cursor_cached = Wrapped(pop_seen - 1)
  /\ destroy_view = pop_seen - 1
  /\ push_cursor_cached = Wrapped(push_seen - 1)
  /\ construct_view = push_seen - 1

Window ==
  /\ Pops <= Pushes
  /\ stage = "running" => Pops <= push_seen - 1
  /\ Pushes - (pop_seen - 1) <= Capacity
  /\ push_pc \in {"construct", "publish"} => Pushes - (pop_seen - 1) < Capacity
  /\ pop_pc \in {"take", "publish"} => Pops < push_seen - 1

Serials ==
  /\ \A s \in Slots :
       /\ ring[s].constructed <= Constructs
       /\ ring[s].constructed > 0 => SlotOf(ring[s].constructed - 1) = s
       /\ ring[s].destroyed <= Destroys
       /\ ring[s].destroyed > 0 => SlotOf(ring[s].destroyed - 1) = s
       /\ ring[s].constructed > 0 => ring[s].val \in Values
  /\ \A n \in 1 .. Constructs : ring[SlotOf(n - 1)].constructed >= n
  /\ \A n \in 1 .. Destroys : ring[SlotOf(n - 1)].destroyed >= n

Arguments ==
  /\ push_pc # "idle" => push_arg \in Values
  /\ push_pc = "publish" => ring[SlotOf(Pushes)].val = push_arg
  /\ pop_pc = "publish" => pop_val = ring[SlotOf(Pops)].val

Stages ==
  /\ stage # "running" => push_pc = "idle" /\ pop_pc = "idle"
  /\ stage = "freed" => Pops = Pushes

IndInv == Types /\ Cursors /\ Window /\ Serials /\ Arguments /\ Stages
--------------------------------------------------------------------------------
\* Cursor values are within CursorType, step by one and select a slot.
LEMMA CursorStep ==
  ASSUME NEW a \in Nat
  PROVE  /\ Wrapped(a) \in CursorType
         /\ (Wrapped(a) + 1) % CursorMod = Wrapped(a + 1)
         /\ SlotOf(a) \in Slots
         /\ \A d \in Nat : Index(Wrapped(a) + d) = SlotOf(a + d)
         /\ Index(Wrapped(a)) = SlotOf(a)
PROOF
  <1>1. PICK k \in 2 .. CursorMod : CursorMod = k * Capacity
    BY SizeAssumption
  <1>2. /\ CursorMod \in Nat \ {0} /\ Capacity \in Nat \ {0} /\ k \in Nat \ {0}
        /\ a \in Int /\ 1 \in Int
    BY <1>1, SizeAssumption
  <1>3. a % CursorMod \in CursorType
    BY <1>2, DivMod DEF CursorType
  <1>4. a % Capacity \in Slots
    BY <1>2, DivMod DEF Slots
  <1>5. ((a % CursorMod) + 1) % CursorMod = (a + 1) % CursorMod
    BY <1>2, ModShift, Zenon
  <1>6. (a % CursorMod) % Capacity = a % Capacity
    BY <1>1, <1>2, ModOfMultiple, Zenon
  <1>7. ASSUME NEW d \in Nat
        PROVE  Index((a % CursorMod) + d) = (a + d) % Capacity
    <2>1. a % CursorMod \in Int /\ a % Capacity \in Int /\ d \in Int
      BY <1>3, <1>4, <1>2 DEF CursorType, Slots
    <2>2. (((a % CursorMod) % Capacity) + d) % Capacity = ((a % CursorMod) + d) % Capacity
      BY <1>2, <2>1, ModShift, Zenon
    <2>3. ((a % Capacity) + d) % Capacity = (a + d) % Capacity
      BY <1>2, <2>1, ModShift, Zenon
    <2> QED BY <1>6, <2>2, <2>3 DEF Index
  <1> QED BY <1>3, <1>4, <1>5, <1>6, <1>7 DEF Index, Wrapped, SlotOf

\* Measured on the wrapping cursors, a distance up to Capacity is exact.
LEMMA CursorDistance ==
  ASSUME NEW a \in Nat, NEW b \in Nat, b <= a, a - b <= Capacity
  PROVE  /\ Subtract(Wrapped(a), Wrapped(b)) = a - b
         /\ (Wrapped(a) = Wrapped(b)) <=> (a = b)
PROOF
  <1>1. PICK k \in 2 .. CursorMod : CursorMod = k * Capacity
    BY SizeAssumption
  <1>2. /\ CursorMod \in Nat \ {0} /\ Capacity \in Nat \ {0} /\ k \in Nat \ {0}
        /\ a \in Int /\ b \in Int
    BY <1>1, SizeAssumption
  <1>3. Capacity < CursorMod
    BY <1>1, <1>2
  <1>4. ((a % CursorMod) - (b % CursorMod)) % CursorMod = (a - b) % CursorMod
    BY <1>2, ModDistance, Zenon
  <1>5. (a - b) % CursorMod = a - b
    BY <1>2, <1>3, ModSmall
  <1>6. (a % CursorMod = b % CursorMod) => (a = b)
    <2>1. b <= a /\ a < b + CursorMod
      BY <1>2, <1>3
    <2> QED BY <1>2, <2>1, ModInjective, Zenon
  <1> QED BY <1>4, <1>5, <1>6 DEF Subtract, Wrapped

\* Two different serial numbers that fall on one slot are Capacity apart.
LEMMA SlotGap ==
  ASSUME NEW a \in Nat, NEW b \in Nat, a < b, SlotOf(a) = SlotOf(b)
  PROVE  a + Capacity <= b
PROOF
  <1>1. Capacity \in Nat \ {0} /\ a \in Int /\ b \in Int /\ a <= b
    BY SizeAssumption
  <1>2. SUFFICES ASSUME b < a + Capacity PROVE FALSE
    BY <1>1
  <1>3. a = b
    BY <1>1, <1>2, ModInjective, Zenon DEF SlotOf
  <1> QED BY <1>3

\* A release store keeps a cursor counting.
LEMMA StoreCounts ==
  ASSUME NEW cursor \in Seq(Store), cursor # <<>>, Counts(cursor)
  PROVE  /\ StoreRelease(cursor, Len(cursor)) \in Seq(Store)
         /\ StoreRelease(cursor, Len(cursor)) # <<>>
         /\ Len(StoreRelease(cursor, Len(cursor))) = Len(cursor) + 1
         /\ Counts(StoreRelease(cursor, Len(cursor)))
PROOF
  <1> DEFINE n == Len(cursor)
             new == [value |-> (Current(cursor) + 1) % CursorMod, view |-> n]
  <1>1. n \in Nat /\ n >= 1
    OBVIOUS
  <1>2. Current(cursor) = Wrapped(n - 1)
    BY <1>1 DEF Counts, Current
  <1>3. new.value = Wrapped(n) /\ new.value \in CursorType
    <2>1. n - 1 \in Nat /\ n \in Nat
      BY <1>1
    <2>2. (Wrapped(n - 1) + 1) % CursorMod = Wrapped((n - 1) + 1)
      BY <2>1, CursorStep
    <2>3. (n - 1) + 1 = n
      BY <1>1
    <2>4. Wrapped(n) \in CursorType
      BY <2>1, CursorStep
    <2> QED BY <1>2, <2>2, <2>3, <2>4
  <1>4. new \in Store
    BY <1>1, <1>3 DEF Store
  <1>5. StoreRelease(cursor, n) = Append(cursor, new)
    BY DEF StoreRelease
  <1> HIDE DEF n, new
  <1>6. Append(cursor, new) \in Seq(Store) /\ Append(cursor, new) # <<>>
    BY <1>4
  <1>7. Len(Append(cursor, new)) = n + 1
    BY <1>4 DEF n
  <1>8. ASSUME NEW i \in 1 .. n + 1
        PROVE  /\ Append(cursor, new)[i].value = Wrapped(i - 1)
               /\ Append(cursor, new)[i].view = i - 1
    <2>1. CASE i = n + 1
      <3>1. Append(cursor, new)[i] = new
        BY <2>1, <1>1, <1>4 DEF n
      <3>2. new.view = n /\ i - 1 = n
        BY <2>1, <1>1 DEF new
      <3> QED BY <3>1, <3>2, <1>3
    <2>2. CASE i # n + 1
      <3>1. i \in 1 .. n
        BY <2>2, <1>1
      <3>2. Append(cursor, new)[i] = cursor[i]
        BY <3>1 DEF n
      <3> QED BY <3>1, <3>2 DEF Counts, n
    <2> QED BY <2>1, <2>2
  <1> QED BY <1>1, <1>5, <1>6, <1>7, <1>8 DEF Counts, n

\* What the code computes from the cursors, in terms of the counters.
LEMMA CurrentFacts ==
  ASSUME IndInv
  PROVE  /\ Pushes \in Nat /\ Pops \in Nat
         /\ Pops <= Pushes /\ Pushes - Pops <= Capacity
         /\ Current(push_cursor) = Wrapped(Pushes)
         /\ Current(pop_cursor) = Wrapped(Pops)
         /\ Index(Current(push_cursor)) = SlotOf(Pushes)
         /\ Index(Current(pop_cursor)) = SlotOf(Pops)
         /\ SlotOf(Pushes) \in Slots /\ SlotOf(Pops) \in Slots
         /\ Size = Pushes - Pops
PROOF
  <1> USE DEF IndInv, Types
  <1>1. Pushes \in Nat /\ Pops \in Nat
    BY DEF Pushes, Pops
  <1>2. Current(push_cursor) = Wrapped(Pushes) /\ Current(pop_cursor) = Wrapped(Pops)
    BY DEF Cursors, Counts, Current, Pushes, Pops
  <1>3. Pops <= Pushes /\ Pushes - Pops <= Capacity
    BY SizeAssumption DEF Window, Pushes, Pops
  <1>4. Size = Pushes - Pops
    BY <1>1, <1>2, <1>3, CursorDistance DEF Size
  <1> QED BY <1>1, <1>2, <1>3, <1>4, CursorStep

\* Two serial numbers of the live window never share a slot.
LEMMA SlotApart ==
  ASSUME NEW a \in Nat, NEW b \in Nat, a < b, b < a + Capacity
  PROVE  SlotOf(a) # SlotOf(b)
  BY SlotGap, SizeAssumption

LEMMA InitIndInv == Init => IndInv
PROOF
  <1> SUFFICES ASSUME Init PROVE IndInv
    OBVIOUS
  <1> DEFINE zero == [value |-> 0, view |-> 0]
  <1>1. 0 \in CursorType /\ Wrapped(0) = 0
    BY SizeAssumption, ModSmall DEF CursorType, Wrapped
  <1>2. zero \in Store
    BY <1>1 DEF Store
  <1>3. /\ push_cursor = <<zero>> /\ pop_cursor = <<zero>>
        /\ Len(push_cursor) = 1 /\ Len(pop_cursor) = 1
        /\ push_cursor[1] = zero /\ pop_cursor[1] = zero
    BY DEF Init
  <1>4. push_cursor \in Seq(Store) /\ pop_cursor \in Seq(Store)
    BY <1>2, <1>3
  <1>5. Types
    BY <1>1, <1>3, <1>4 DEF Init, Types, SlotType, Memory
  <1>6. Cursors
    BY <1>1, <1>3 DEF Init, Cursors, Counts
  <1>7. Pushes = 0 /\ Pops = 0 /\ Constructs = 0 /\ Destroys = 0
    BY <1>3 DEF Init, Pushes, Pops, Constructs, Destroys
  <1>8. Window
    BY <1>7, SizeAssumption DEF Init, Window
  <1>9. Serials
    BY <1>7 DEF Init, Serials
  <1> QED BY <1>5, <1>6, <1>7, <1>8, <1>9 DEF Init, IndInv, Arguments, Stages
--------------------------------------------------------------------------------
\* Steps that leave the cursors and the slots alone.
LEMMA PushStep == \A v \in Values : IndInv /\ Push(v) => IndInv'
PROOF
  <1> SUFFICES ASSUME NEW v \in Values, IndInv, Push(v) PROVE IndInv'
    OBVIOUS
  <1> USE DEF IndInv
  <1>1. Types'
    BY DEF Push, Types, consumer, Memory
  <1>2. Pushes' = Pushes /\ Pops' = Pops /\ Constructs' = Constructs /\ Destroys' = Destroys
    BY DEF Push, Pushes, Pops, Constructs, Destroys, consumer
  <1>3. Cursors' /\ Serials' /\ Arguments' /\ Stages'
    BY <1>2 DEF Push, Cursors, Counts, Serials, Arguments, Stages, consumer
  <1>4. ~Full(Current(push_cursor), pop_cursor_cached) => Pushes - (pop_seen - 1) < Capacity
    <2>1. pop_seen - 1 \in Nat /\ pop_seen - 1 <= Pushes
      BY DEF Types, Window, Pushes, Pops
    <2>2. Subtract(Wrapped(Pushes), Wrapped(pop_seen - 1)) = Pushes - (pop_seen - 1)
      BY <2>1, CurrentFacts, CursorDistance DEF Window
    <2> QED BY <2>1, <2>2, CurrentFacts, SizeAssumption DEF Full, Cursors
  <1>5. Window'
    BY <1>2, <1>4 DEF Push, Window, consumer
  <1> QED BY <1>1, <1>3, <1>5

LEMMA PushReloadStep ==
  \A i \in pop_seen .. Len(pop_cursor) : IndInv /\ PushReload(i) => IndInv'
PROOF
  <1> SUFFICES ASSUME NEW i \in pop_seen .. Len(pop_cursor), IndInv, PushReload(i)
               PROVE  IndInv'
    OBVIOUS
  <1> USE DEF IndInv
  <1>1. /\ i \in 1 .. Len(pop_cursor) /\ pop_cursor[i] \in Store
        /\ pop_cursor[i].value = Wrapped(i - 1) /\ pop_cursor[i].view = i - 1
    BY DEF Types, Cursors, Counts
  <1>2. destroy_view' = i - 1
    BY <1>1 DEF PushReload, JoinAcquire, Cursors, Types
  <1>3. Types'
    BY <1>1, <1>2 DEF PushReload, Types, consumer, Store
  <1>4. Pushes' = Pushes /\ Pops' = Pops /\ Constructs' = Constructs /\ Destroys' = Destroys
    BY DEF PushReload, Pushes, Pops, Constructs, Destroys, consumer
  <1>5. Cursors' /\ Serials' /\ Arguments' /\ Stages'
    BY <1>1, <1>2, <1>4 DEF PushReload, Cursors, Counts, Serials, Arguments, Stages, consumer
  <1>6. Pushes - (i - 1) <= Capacity
    BY <1>1, SizeAssumption DEF Window, Types, Pushes
  <1>7. ~Full(Current(push_cursor), pop_cursor[i].value) => Pushes - (i - 1) < Capacity
    <2>1. i - 1 \in Nat /\ i - 1 <= Pushes
      BY <1>1 DEF Types, Window, Pushes, Pops
    <2>2. Subtract(Wrapped(Pushes), Wrapped(i - 1)) = Pushes - (i - 1)
      BY <2>1, <1>6, CurrentFacts, CursorDistance
    <2> QED BY <2>1, <2>2, <1>1, CurrentFacts, SizeAssumption DEF Full
  <1>8. Window'
    BY <1>4, <1>6, <1>7 DEF PushReload, Window, consumer
  <1> QED BY <1>3, <1>5, <1>8

LEMMA PopStep == IndInv /\ Pop => IndInv'
PROOF
  <1> SUFFICES ASSUME IndInv, Pop PROVE IndInv'
    OBVIOUS
  <1> USE DEF IndInv
  <1>1. Types'
    BY DEF Pop, Types, producer
  <1>2. Pushes' = Pushes /\ Pops' = Pops /\ Constructs' = Constructs /\ Destroys' = Destroys
    BY DEF Pop, Pushes, Pops, Constructs, Destroys, producer
  <1>3. Cursors' /\ Serials' /\ Arguments' /\ Stages'
    BY <1>2 DEF Pop, Cursors, Counts, Serials, Arguments, Stages, producer
  <1>4. ~Empty(push_cursor_cached, Current(pop_cursor)) => Pops < push_seen - 1
    <2>1. Pops \in Nat /\ push_seen - 1 \in Nat /\ Pops <= push_seen - 1
      BY CurrentFacts DEF Types, Window, Pop
    <2> QED BY <2>1, CurrentFacts DEF Empty, Cursors
  <1>5. Window'
    BY <1>2, <1>4 DEF Pop, Window, producer
  <1> QED BY <1>1, <1>3, <1>5

LEMMA PopReloadStep ==
  \A i \in push_seen .. Len(push_cursor) : IndInv /\ PopReload(i) => IndInv'
PROOF
  <1> SUFFICES ASSUME NEW i \in push_seen .. Len(push_cursor), IndInv, PopReload(i)
               PROVE  IndInv'
    OBVIOUS
  <1> USE DEF IndInv
  <1>1. /\ i \in 1 .. Len(push_cursor) /\ push_cursor[i] \in Store
        /\ push_cursor[i].value = Wrapped(i - 1) /\ push_cursor[i].view = i - 1
    BY DEF Types, Cursors, Counts
  <1>2. construct_view' = i - 1
    BY <1>1 DEF PopReload, JoinAcquire, Cursors, Types
  <1>3. Types'
    BY <1>1, <1>2 DEF PopReload, Types, producer, Store
  <1>4. Pushes' = Pushes /\ Pops' = Pops /\ Constructs' = Constructs /\ Destroys' = Destroys
    BY DEF PopReload, Pushes, Pops, Constructs, Destroys, producer
  <1>5. Cursors' /\ Serials' /\ Arguments' /\ Stages'
    BY <1>1, <1>2, <1>4 DEF PopReload, Cursors, Counts, Serials, Arguments, Stages, producer
  <1>6. Pops <= i - 1
    BY <1>1, CurrentFacts DEF Window, Types, PopReload, Stages
  <1>7. ~Empty(push_cursor[i].value, Current(pop_cursor)) => Pops < i - 1
    BY <1>1, <1>6, CurrentFacts DEF Empty
  <1>8. Window'
    BY <1>4, <1>6, <1>7 DEF PopReload, Window, producer
  <1> QED BY <1>3, <1>5, <1>8
--------------------------------------------------------------------------------
\* Steps that access a slot.
LEMMA PushConstructStep == IndInv /\ PushConstruct => IndInv'
PROOF
  <1> SUFFICES ASSUME IndInv, PushConstruct PROVE IndInv'
    OBVIOUS
  <1> USE DEF IndInv
  <1> DEFINE idx == SlotOf(Pushes)
  <1>1. /\ Pushes \in Nat /\ Pops \in Nat /\ idx \in Slots
        /\ Len(push_cursor) = Pushes + 1
        /\ ring' = [ring EXCEPT ![idx] = [val |-> push_arg, constructed |-> Pushes + 1,
                                          destroyed |-> ring[idx].destroyed]]
    <2>1. Len(push_cursor) = Pushes + 1
      BY DEF Pushes, Types
    <2> QED BY <2>1, CurrentFacts DEF PushConstruct
  <1>2. /\ Pushes' = Pushes /\ Pops' = Pops /\ Destroys' = Destroys
        /\ Constructs = Pushes /\ Constructs' = Pushes + 1
    BY DEF PushConstruct, Pushes, Pops, Constructs, Destroys, consumer
  <1>3. push_arg \in Values /\ ring[idx] \in SlotType
    BY <1>1 DEF PushConstruct, Arguments, Types
  <1> HIDE DEF idx
  <1>4. /\ ring'[idx].val = push_arg /\ ring'[idx].constructed = Pushes + 1
        /\ ring'[idx].destroyed = ring[idx].destroyed
        /\ \A s \in Slots : s # idx => ring'[s] = ring[s]
        /\ ring' \in [Slots -> SlotType]
    BY <1>1, <1>3 DEF Types, SlotType, Memory
  <1>5. Types'
    BY <1>4 DEF PushConstruct, Types, consumer
  <1>6. Cursors' /\ Window' /\ Stages'
    BY <1>2 DEF PushConstruct, Cursors, Counts, Window, Stages, consumer
  <1>7. Serials'
    <2>1. ASSUME NEW s \in Slots
          PROVE  /\ ring'[s].constructed <= Pushes + 1
                 /\ ring'[s].constructed > 0 => SlotOf(ring'[s].constructed - 1) = s
                 /\ ring'[s].destroyed <= Destroys
                 /\ ring'[s].destroyed > 0 => SlotOf(ring'[s].destroyed - 1) = s
                 /\ ring'[s].constructed > 0 => ring'[s].val \in Values
      <3>1. CASE s = idx
        BY <3>1, <1>1, <1>3, <1>4 DEF Serials, idx
      <3>2. CASE s # idx
        <4>1. ring'[s] = ring[s] /\ ring[s].constructed \in Nat
          BY <3>2, <1>4 DEF Types, SlotType
        <4> QED BY <4>1, <1>1, <1>2 DEF Serials
      <3> QED BY <3>1, <3>2
    <2>2. ASSUME NEW n \in 1 .. Pushes + 1
          PROVE  ring'[SlotOf(n - 1)].constructed >= n
      <3>1. n - 1 \in Nat /\ SlotOf(n - 1) \in Slots
        BY CursorStep
      <3>2. CASE SlotOf(n - 1) = idx
        BY <3>2, <1>1, <1>4
      <3>3. CASE SlotOf(n - 1) # idx
        <4>1. n # Pushes + 1
          BY <3>3, <1>1 DEF idx
        <4>2. n \in 1 .. Constructs
          BY <4>1, <1>1, <1>2
        <4> QED BY <4>2, <3>1, <3>3, <1>4 DEF Serials
      <3> QED BY <3>2, <3>3
    <2>3. ASSUME NEW n \in 1 .. Destroys
          PROVE  ring'[SlotOf(n - 1)].destroyed >= n
      <3>1. SlotOf(n - 1) \in Slots
        BY CursorStep DEF Destroys, Pops
      <3> QED BY <3>1, <1>4 DEF Serials
    <2> QED BY <1>2, <2>1, <2>2, <2>3 DEF Serials
  <1>8. Arguments'
    <2>1. pop_pc = "publish" => SlotOf(Pops) # SlotOf(Pushes)
      <3>1. Pushes < Pops + Capacity
        BY <1>1, SizeAssumption DEF PushConstruct, Window, Types, Pops
      <3>2. pop_pc = "publish" => Pops < Pushes
        BY <1>1 DEF Window, Types, Pushes
      <3> QED BY <1>1, <3>1, <3>2, SlotApart
    <2>2. pop_pc = "publish" => ring'[SlotOf(Pops)] = ring[SlotOf(Pops)]
      BY <2>1, <1>4, CurrentFacts DEF idx
    <2> QED BY <1>2, <1>3, <1>4, <2>2 DEF PushConstruct, Arguments, consumer, idx
  <1> QED BY <1>5, <1>6, <1>7, <1>8

LEMMA PopTakeStep == IndInv /\ PopTake => IndInv'
PROOF
  <1> SUFFICES ASSUME IndInv, PopTake PROVE IndInv'
    OBVIOUS
  <1> USE DEF IndInv
  <1> DEFINE idx == SlotOf(Pops)
  <1>1. /\ Pushes \in Nat /\ Pops \in Nat /\ idx \in Slots
        /\ ring' = [ring EXCEPT ![idx] = Destroyed(ring[idx], Pops + 1)]
        /\ Len(pop_cursor) = Pops + 1
        /\ pop_val' \in IF ring[idx].constructed <= construct_view
                        THEN {ring[idx].val} ELSE Memory
    <2>1. Len(pop_cursor) = Pops + 1
      BY DEF Pops, Types
    <2> QED BY <2>1, CurrentFacts DEF PopTake
  <1>2. /\ Pushes' = Pushes /\ Pops' = Pops /\ Constructs' = Constructs
        /\ Destroys = Pops /\ Destroys' = Pops + 1
    BY DEF PopTake, Pushes, Pops, Constructs, Destroys, producer
  <1>3. ring[idx] \in SlotType
    BY <1>1 DEF Types
  <1>4. ring[idx].constructed <= construct_view
    <2>1. /\ Pops < push_seen - 1 /\ push_seen - 1 <= Pushes
          /\ Constructs <= Pops + Capacity
          /\ construct_view = push_seen - 1 /\ push_seen \in Nat /\ Constructs \in Nat
      BY <1>1, SizeAssumption
      DEF PopTake, Window, Cursors, Types, Pushes, Pops, Constructs
    <2> DEFINE c == ring[idx].constructed
    <2>2. c \in Nat /\ c <= Constructs /\ (c > 0 => SlotOf(c - 1) = idx)
      BY <1>1, <1>3 DEF Serials, SlotType
    <2> HIDE DEF c
    <2>3. ~(c - 1 > Pops)
      <3> SUFFICES ASSUME c - 1 > Pops PROVE FALSE
        OBVIOUS
      <3>1. c - 1 \in Nat /\ c - 1 < Pops + Capacity
        BY <1>1, <2>1, <2>2, SizeAssumption
      <3> QED BY <3>1, <2>2, <1>1, SlotApart DEF idx
    <2> QED BY <2>1, <2>2, <2>3, <1>1 DEF c
  <1>5. pop_val' = ring[idx].val
    BY <1>1, <1>4
  <1> HIDE DEF idx
  <1>6. /\ ring'[idx].val = ring[idx].val
        /\ ring'[idx].constructed = ring[idx].constructed
        /\ ring'[idx].destroyed = Pops + 1
        /\ \A s \in Slots : s # idx => ring'[s] = ring[s]
        /\ ring' \in [Slots -> SlotType]
    BY <1>1, <1>3 DEF Types, SlotType, Destroyed
  <1>7. Types'
    BY <1>3, <1>5, <1>6 DEF PopTake, Types, producer, SlotType
  <1>8. Cursors' /\ Window' /\ Stages'
    BY <1>2 DEF PopTake, Cursors, Counts, Window, Stages, producer
  <1>9. Serials'
    <2>1. ASSUME NEW s \in Slots
          PROVE  /\ ring'[s].constructed <= Constructs
                 /\ ring'[s].constructed > 0 => SlotOf(ring'[s].constructed - 1) = s
                 /\ ring'[s].destroyed <= Pops + 1
                 /\ ring'[s].destroyed > 0 => SlotOf(ring'[s].destroyed - 1) = s
                 /\ ring'[s].constructed > 0 => ring'[s].val \in Values
      <3>1. CASE s = idx
        BY <3>1, <1>1, <1>3, <1>6 DEF Serials, idx
      <3>2. CASE s # idx
        <4>1. ring'[s] = ring[s] /\ ring[s].destroyed \in Nat
          BY <3>2, <1>6 DEF Types, SlotType
        <4> QED BY <4>1, <1>1, <1>2 DEF Serials
      <3> QED BY <3>1, <3>2
    <2>2. ASSUME NEW n \in 1 .. Pops + 1
          PROVE  ring'[SlotOf(n - 1)].destroyed >= n
      <3>1. n - 1 \in Nat /\ SlotOf(n - 1) \in Slots
        BY CursorStep
      <3>2. CASE SlotOf(n - 1) = idx
        BY <3>2, <1>1, <1>6
      <3>3. CASE SlotOf(n - 1) # idx
        <4>1. n # Pops + 1
          BY <3>3, <1>1 DEF idx
        <4>2. n \in 1 .. Destroys
          BY <4>1, <1>1, <1>2
        <4> QED BY <4>2, <3>1, <3>3, <1>6 DEF Serials
      <3> QED BY <3>2, <3>3
    <2>3. ASSUME NEW n \in 1 .. Constructs
          PROVE  ring'[SlotOf(n - 1)].constructed >= n
      <3>1. SlotOf(n - 1) \in Slots
        BY CursorStep DEF Constructs, Pushes
      <3> QED BY <3>1, <1>6 DEF Serials
    <2> QED BY <1>2, <2>1, <2>2, <2>3 DEF Serials
  <1>10. Arguments'
    <2>1. ring'[SlotOf(Pushes)].val = ring[SlotOf(Pushes)].val
      BY <1>6, CurrentFacts
    <2> QED BY <1>2, <1>5, <1>6, <2>1 DEF PopTake, Arguments, producer, idx
  <1> QED BY <1>7, <1>8, <1>9, <1>10
--------------------------------------------------------------------------------
\* Steps that store a cursor, and the destructor.
LEMMA PushPublishStep == IndInv /\ PushPublish => IndInv'
PROOF
  <1> SUFFICES ASSUME IndInv, PushPublish PROVE IndInv'
    OBVIOUS
  <1> USE DEF IndInv
  <1>1. /\ push_cursor' \in Seq(Store) /\ push_cursor' # <<>>
        /\ Len(push_cursor') = Len(push_cursor) + 1 /\ Counts(push_cursor')
    BY StoreCounts DEF PushPublish, Types, Cursors
  <1>2. Types'
    BY <1>1 DEF PushPublish, Types, consumer
  <1>3. /\ Pushes \in Nat /\ Pops \in Nat
        /\ Pushes' = Pushes + 1 /\ Pops' = Pops /\ Destroys' = Destroys
        /\ Constructs = Pushes + 1 /\ Constructs' = Pushes + 1
    BY <1>1, CurrentFacts DEF PushPublish, Pushes, Pops, Constructs, Destroys, Types, consumer
  <1>4. Cursors'
    BY <1>1 DEF PushPublish, Cursors, Counts, consumer
  <1>5. Window'
    BY <1>3, SizeAssumption DEF PushPublish, Window, consumer, Types
  <1>6. Serials' /\ Arguments' /\ Stages'
    BY <1>3 DEF PushPublish, Serials, Arguments, Stages, consumer
  <1> QED BY <1>2, <1>4, <1>5, <1>6

LEMMA PopPublishStep == IndInv /\ PopPublish => IndInv'
PROOF
  <1> SUFFICES ASSUME IndInv, PopPublish PROVE IndInv'
    OBVIOUS
  <1> USE DEF IndInv
  <1>1. /\ pop_cursor' \in Seq(Store) /\ pop_cursor' # <<>>
        /\ Len(pop_cursor') = Len(pop_cursor) + 1 /\ Counts(pop_cursor')
    BY StoreCounts DEF PopPublish, Types, Cursors
  <1>2. delivered' \in Seq(Memory)
    BY DEF PopPublish, Types
  <1>3. Types'
    BY <1>1, <1>2 DEF PopPublish, Types, producer
  <1>4. /\ Pushes \in Nat /\ Pops \in Nat
        /\ Pushes' = Pushes /\ Pops' = Pops + 1 /\ Constructs' = Constructs
        /\ Destroys = Pops + 1 /\ Destroys' = Pops + 1
    BY <1>1, CurrentFacts DEF PopPublish, Pushes, Pops, Constructs, Destroys, Types, producer
  <1>5. Cursors'
    BY <1>1 DEF PopPublish, Cursors, Counts, producer
  <1>6. Window'
    BY <1>4, SizeAssumption DEF PopPublish, Window, producer, Types, Pushes
  <1>7. Serials' /\ Arguments' /\ Stages'
    BY <1>4 DEF PopPublish, Serials, Arguments, Stages, producer
  <1> QED BY <1>3, <1>5, <1>6, <1>7

LEMMA DestroyRemainingStep == IndInv /\ DestroyRemaining => IndInv'
PROOF
  <1> SUFFICES ASSUME IndInv, DestroyRemaining PROVE IndInv'
    OBVIOUS
  <1> USE DEF IndInv
  <1> DEFINE idx == SlotOf(Pops)
  <1>1. /\ Pushes \in Nat /\ Pops \in Nat /\ idx \in Slots /\ Pops < Pushes
        /\ ring' = [ring EXCEPT ![idx] = Destroyed(ring[idx], Pops + 1)]
    <2>1. Len(pop_cursor) = Pops + 1
      BY DEF Pops, Types
    <2> QED BY <2>1, CurrentFacts DEF DestroyRemaining
  <1>2. /\ pop_cursor' \in Seq(Store) /\ pop_cursor' # <<>>
        /\ Len(pop_cursor') = Len(pop_cursor) + 1 /\ Counts(pop_cursor')
    BY StoreCounts DEF DestroyRemaining, Types, Cursors
  <1>3. push_pc = "idle" /\ pop_pc = "idle" /\ stage = "joined"
    BY DEF DestroyRemaining, Stages
  <1>4. /\ Pushes' = Pushes /\ Pops' = Pops + 1 /\ Constructs' = Constructs
        /\ Destroys = Pops /\ Destroys' = Pops + 1
    BY <1>2, <1>3, <1>1
    DEF DestroyRemaining, Pushes, Pops, Constructs, Destroys, producer, consumer, Types
  <1>5. ring[idx] \in SlotType
    BY <1>1 DEF Types
  <1> HIDE DEF idx
  <1>6. /\ ring'[idx].val = ring[idx].val
        /\ ring'[idx].constructed = ring[idx].constructed
        /\ ring'[idx].destroyed = Pops + 1
        /\ \A s \in Slots : s # idx => ring'[s] = ring[s]
        /\ ring' \in [Slots -> SlotType]
    BY <1>1, <1>5 DEF Types, SlotType, Destroyed
  <1>7. Types'
    BY <1>2, <1>6 DEF DestroyRemaining, Types, producer, consumer
  <1>8. Cursors' /\ Arguments' /\ Stages'
    BY <1>2, <1>3 DEF DestroyRemaining, Cursors, Counts, Arguments, Stages, producer, consumer
  <1>9. Window'
    BY <1>1, <1>3, <1>4 DEF DestroyRemaining, Window, producer, consumer
  <1>10. Serials'
    <2>1. ASSUME NEW s \in Slots
          PROVE  /\ ring'[s].constructed <= Constructs
                 /\ ring'[s].constructed > 0 => SlotOf(ring'[s].constructed - 1) = s
                 /\ ring'[s].destroyed <= Pops + 1
                 /\ ring'[s].destroyed > 0 => SlotOf(ring'[s].destroyed - 1) = s
                 /\ ring'[s].constructed > 0 => ring'[s].val \in Values
      <3>1. CASE s = idx
        BY <3>1, <1>1, <1>5, <1>6 DEF Serials, idx
      <3>2. CASE s # idx
        <4>1. ring'[s] = ring[s] /\ ring[s].destroyed \in Nat
          BY <3>2, <1>6 DEF Types, SlotType
        <4> QED BY <4>1, <1>1, <1>4 DEF Serials
      <3> QED BY <3>1, <3>2
    <2>2. ASSUME NEW n \in 1 .. Pops + 1
          PROVE  ring'[SlotOf(n - 1)].destroyed >= n
      <3>1. n - 1 \in Nat /\ SlotOf(n - 1) \in Slots
        BY CursorStep
      <3>2. CASE SlotOf(n - 1) = idx
        BY <3>2, <1>1, <1>6
      <3>3. CASE SlotOf(n - 1) # idx
        <4>1. n # Pops + 1
          BY <3>3, <1>1 DEF idx
        <4>2. n \in 1 .. Destroys
          BY <4>1, <1>1, <1>4
        <4> QED BY <4>2, <3>1, <3>3, <1>6 DEF Serials
      <3> QED BY <3>2, <3>3
    <2>3. ASSUME NEW n \in 1 .. Constructs
          PROVE  ring'[SlotOf(n - 1)].constructed >= n
      <3>1. SlotOf(n - 1) \in Slots
        BY CursorStep DEF Constructs, Pushes
      <3> QED BY <3>1, <1>6 DEF Serials
    <2> QED BY <1>4, <2>1, <2>2, <2>3 DEF Serials
  <1> QED BY <1>7, <1>8, <1>9, <1>10

LEMMA StageStep == IndInv /\ (Join \/ Deallocate \/ UNCHANGED vars) => IndInv'
PROOF
  <1> SUFFICES ASSUME IndInv, Join \/ Deallocate \/ UNCHANGED vars PROVE IndInv'
    OBVIOUS
  <1> USE DEF IndInv
  <1>1. /\ UNCHANGED <<push_cursor, pop_cursor, ring, producer, consumer, delivered>>
        /\ stage' \in {"running", "joined", "freed"}
        /\ stage' = stage \/ (stage' # "running" /\ push_pc = "idle" /\ pop_pc = "idle")
        /\ stage' = "freed" => (stage = "freed" \/ Size = 0)
    BY DEF Join, Deallocate, vars, Stages, Types
  <1>2. Pushes' = Pushes /\ Pops' = Pops /\ Constructs' = Constructs /\ Destroys' = Destroys
    BY <1>1 DEF Pushes, Pops, Constructs, Destroys, producer, consumer
  <1>3. Types' /\ Cursors' /\ Window' /\ Serials' /\ Arguments'
    BY <1>1, <1>2
    DEF Types, Cursors, Counts, Window, Serials, Arguments, producer, consumer
  <1>4. Size = 0 => Pops = Pushes
    BY CurrentFacts
  <1>5. Stages'
    BY <1>1, <1>2, <1>4 DEF Stages, producer, consumer
  <1> QED BY <1>3, <1>5

\* IndInv is inductive.
THEOREM Inductive == Spec => []IndInv
PROOF
  <1>1. IndInv /\ [Next]_vars => IndInv'
    <2> SUFFICES ASSUME IndInv, [Next]_vars PROVE IndInv'
      OBVIOUS
    <2>1. CASE Producer
      BY <2>1, PushStep, PushReloadStep, PushConstructStep, PushPublishStep DEF Producer
    <2>2. CASE Consumer
      BY <2>2, PopStep, PopReloadStep, PopTakeStep, PopPublishStep DEF Consumer
    <2>3. CASE Destructor
      BY <2>3, StageStep, DestroyRemainingStep DEF Destructor, Freed
    <2>4. CASE UNCHANGED vars
      BY <2>4, StageStep
    <2> QED BY <2>1, <2>2, <2>3, <2>4 DEF Next
  <1> QED BY InitIndInv, <1>1, PTL DEF Spec
--------------------------------------------------------------------------------
\* The queue's members and the threads' registers keep their types, and the distances on
\* which full() and empty() decide are numbers of elements, however old the cached cursors.
THEOREM TypeCorrect == Spec => []TypeOK
PROOF
  <1>1. ASSUME IndInv PROVE TypeOK
    <2>1. /\ Pushes \in Nat /\ Pops \in Nat /\ Pushes - Pops <= Capacity
          /\ pop_seen - 1 \in Nat /\ push_seen - 1 \in Nat
          /\ pop_seen - 1 <= Pops /\ push_seen - 1 <= Pushes
          /\ Pops <= Pushes /\ Capacity \in Nat
      BY <1>1, CurrentFacts, SizeAssumption DEF IndInv, Types, Pushes, Pops
    <2>2. Subtract(Current(push_cursor), pop_cursor_cached) \in 0 .. Capacity
      <3>1. pop_seen - 1 <= Pushes /\ Pushes - (pop_seen - 1) <= Capacity
        BY <1>1, <2>1 DEF IndInv, Window
      <3>2. Subtract(Wrapped(Pushes), Wrapped(pop_seen - 1)) = Pushes - (pop_seen - 1)
        BY <2>1, <3>1, CursorDistance
      <3> QED BY <1>1, <2>1, <3>1, <3>2, CurrentFacts DEF IndInv, Cursors
    <2>3. ASSUME stage = "running"
          PROVE  Subtract(push_cursor_cached, Current(pop_cursor)) \in 0 .. Capacity
      <3>1. Pops <= push_seen - 1 /\ (push_seen - 1) - Pops <= Capacity
        BY <1>1, <2>1, <2>3 DEF IndInv, Window
      <3>2. Subtract(Wrapped(push_seen - 1), Wrapped(Pops)) = (push_seen - 1) - Pops
        BY <2>1, <3>1, CursorDistance
      <3> QED BY <1>1, <2>1, <3>1, <3>2, CurrentFacts DEF IndInv, Cursors
    <2> QED BY <1>1, <2>2, <2>3 DEF IndInv, TypeOK
  <1> QED BY <1>1, Inductive, PTL

\* The latest serial number that falls on a slot whose turn comes with number
\* n + 1 is at least Capacity older.
LEMMA SerialGap ==
  ASSUME NEW n \in Nat, NEW c \in Nat, c <= n, c > 0 => SlotOf(c - 1) = SlotOf(n)
  PROVE  c = 0 \/ c + Capacity <= n + 1
PROOF
  <1> SUFFICES ASSUME c # 0 PROVE c + Capacity <= n + 1
    OBVIOUS
  <1>1. c - 1 \in Nat /\ c - 1 < n /\ SlotOf(c - 1) = SlotOf(n)
    OBVIOUS
  <1>2. (c - 1) + Capacity <= n
    BY <1>1, SlotGap
  <1> QED BY <1>1, <1>2, SizeAssumption

\* No access of a slot races with the other thread's accesses of it, for any
\* capacity and any cursor width, with loads as stale as the memory model allows.
THEOREM RaceFree == Spec => []NoDataRace
PROOF
  <1>1. IndInv => NoDataRace
    <2> SUFFICES ASSUME IndInv PROVE NoDataRace
      OBVIOUS
    <2> USE DEF IndInv
    <2>1. ASSUME push_pc = "construct"
          PROVE  ring[SlotOf(Pushes)].destroyed <= destroy_view
      <3> DEFINE d == ring[SlotOf(Pushes)].destroyed
      <3>1. /\ Pushes \in Nat /\ d \in Nat /\ d <= Destroys
            /\ d > 0 => SlotOf(d - 1) = SlotOf(Pushes)
        BY CurrentFacts DEF Serials, Types, SlotType
      <3>2. Destroys <= Pushes /\ Destroys \in Nat
        BY CurrentFacts DEF Destroys, Window, Types, Pushes
      <3>3. destroy_view = pop_seen - 1 /\ Pushes - (pop_seen - 1) < Capacity /\ pop_seen \in Nat \ {0}
        BY <2>1 DEF Cursors, Window, Types
      <3> HIDE DEF d
      <3>4. d = 0 \/ d + Capacity <= Pushes + 1
        BY <3>1, <3>2, SerialGap
      <3> QED BY <3>1, <3>3, <3>4, SizeAssumption DEF d
    <2>2. ASSUME pop_pc = "take"
          PROVE  ring[SlotOf(Pops)].constructed <= construct_view
      <3> DEFINE c == ring[SlotOf(Pops)].constructed
      <3>1. /\ Pops \in Nat /\ Pushes \in Nat /\ c \in Nat /\ c <= Constructs
            /\ c > 0 => SlotOf(c - 1) = SlotOf(Pops)
        BY CurrentFacts DEF Serials, Types, SlotType
      <3>2. /\ Constructs <= Pops + Capacity /\ Constructs \in Nat
            /\ Pops < push_seen - 1 /\ construct_view = push_seen - 1 /\ push_seen \in Nat
        BY <2>2, <3>1, CurrentFacts, SizeAssumption
        DEF Constructs, Window, Cursors, Types, Pushes, Pops
      <3> HIDE DEF c
      <3>3. ~(c - 1 > Pops)
        <4> SUFFICES ASSUME c - 1 > Pops PROVE FALSE
          OBVIOUS
        <4>1. c - 1 \in Nat /\ c - 1 < Pops + Capacity
          BY <3>1, <3>2, SizeAssumption
        <4> QED BY <4>1, <3>1, SlotApart
      <3> QED BY <3>1, <3>2, <3>3 DEF c
    <2> QED BY <2>1, <2>2, CurrentFacts DEF NoDataRace
  <1> QED BY Inductive, <1>1, PTL

\* Every object pushed is constructed in dead memory and destroyed once.
THEOREM LifetimesSound == Spec => []ObjectLifetimes
PROOF
  <1>1. IndInv => ObjectLifetimes
    <2> SUFFICES ASSUME IndInv PROVE ObjectLifetimes
      OBVIOUS
    <2> USE DEF IndInv
    <2>1. ASSUME push_pc = "construct" PROVE ~Live(SlotOf(Pushes))
      <3> DEFINE c == ring[SlotOf(Pushes)].constructed
      <3>1. /\ Pushes \in Nat /\ c \in Nat /\ c <= Pushes /\ SlotOf(Pushes) \in Slots
            /\ c > 0 => SlotOf(c - 1) = SlotOf(Pushes)
            /\ ring[SlotOf(Pushes)].destroyed \in Nat
        BY <2>1, CurrentFacts DEF Serials, Constructs, Types, SlotType
      <3> HIDE DEF c
      <3>2. c = 0 \/ c + Capacity <= Pushes + 1
        BY <3>1, SerialGap
      <3>3. c <= Destroys /\ Destroys \in Nat
        BY <2>1, <3>1, <3>2, CurrentFacts, SizeAssumption DEF Destroys, Window, Types, Pops
      <3>4. c > 0 => ring[SlotOf(Pushes)].destroyed >= c
        BY <3>1, <3>3 DEF Serials
      <3> QED BY <3>1, <3>4 DEF Live, c
    <2>2. ASSUME Pops < Pushes, pop_pc # "publish" PROVE Live(SlotOf(Pops))
      <3>1. /\ Pops + 1 \in 1 .. Constructs /\ Destroys = Pops
            /\ SlotOf(Pops) \in Slots /\ Pops \in Nat /\ (Pops + 1) - 1 = Pops
        BY <2>2, CurrentFacts DEF Constructs, Destroys
      <3>2. ring[SlotOf(Pops)].constructed >= Pops + 1
        BY <3>1 DEF Serials
      <3>3. ring[SlotOf(Pops)].destroyed <= Pops
        BY <3>1 DEF Serials
      <3> QED BY <3>1, <3>2, <3>3 DEF Live, Types, SlotType
    <2>3. pop_pc = "take" => Pops < Pushes
      BY CurrentFacts DEF Window, Types, Pushes
    <2>4. (stage = "joined" /\ Size # 0) => (Pops < Pushes /\ pop_pc # "publish")
      BY CurrentFacts DEF Stages
    <2>5. ASSUME stage = "freed", NEW s \in Slots PROVE ~Live(s)
      <3>1. Destroys = Constructs /\ Constructs \in Nat
        BY <2>5, CurrentFacts DEF Stages, Destroys, Constructs
      <3>2. /\ ring[s].constructed \in Nat /\ ring[s].destroyed \in Nat
            /\ ring[s].constructed <= Constructs
            /\ ring[s].constructed > 0 => SlotOf(ring[s].constructed - 1) = s
        BY DEF Serials, Types, SlotType
      <3>3. ring[s].constructed > 0 => ring[s].destroyed >= ring[s].constructed
        BY <3>1, <3>2 DEF Serials
      <3> QED BY <3>2, <3>3 DEF Live
    <2> QED BY <2>1, <2>2, <2>3, <2>4, <2>5, CurrentFacts DEF ObjectLifetimes
  <1> QED BY Inductive, <1>1, PTL
--------------------------------------------------------------------------------
\* Refinement.  What the ring holds, in terms of the counters.
Held == [i \in 1 .. Pushes - Pops |-> ring[SlotOf(Pops + (i - 1))].val]
HeldFact == /\ Contents = Held /\ Contents \in Seq(Memory) /\ Len(Contents) = Pushes - Pops
            /\ Pushes \in Nat /\ Pops \in Nat /\ Pops <= Pushes

LEMMA ContentsHeld == IndInv => HeldFact
PROOF
  <1> SUFFICES ASSUME IndInv PROVE HeldFact
    OBVIOUS
  <1>1. /\ Pushes \in Nat /\ Pops \in Nat /\ Pops <= Pushes /\ Size = Pushes - Pops
        /\ Current(pop_cursor) = Wrapped(Pops) /\ Wrapped(Pops) \in Nat
    BY CurrentFacts, CursorStep DEF CursorType
  <1>2. ASSUME NEW i \in 1 .. Pushes - Pops
        PROVE  /\ Index(Current(pop_cursor) + i - 1) = SlotOf(Pops + (i - 1))
               /\ ring[SlotOf(Pops + (i - 1))].val \in Memory
    <2>1. i - 1 \in Nat /\ Current(pop_cursor) + i - 1 = Wrapped(Pops) + (i - 1)
      BY <1>1
    <2>2. Pops + (i - 1) \in Nat
      BY <1>1
    <2> QED BY <1>1, <2>1, <2>2, CursorStep DEF IndInv, Types, SlotType
  <1>3. Contents = Held
    BY <1>1, <1>2 DEF Contents, Held
  <1>4. Held \in Seq(Memory) /\ Len(Held) = Pushes - Pops
    <2> DEFINE n == Pushes - Pops
    <2>1. n \in Nat
      BY <1>1
    <2>2. Held \in [1 .. n -> Memory]
      BY <1>2 DEF Held
    <2> HIDE DEF n
    <2>3. Held \in Seq(Memory)
      BY <2>1, <2>2
    <2>4. Len(Held) = n
      BY <2>1, <2>2, <2>3
    <2> QED BY <2>3, <2>4 DEF n
  <1> QED BY <1>1, <1>3, <1>4 DEF HeldFact

\* A step that keeps the two counters, the values held and the caller's view of
\* the queue maps to a stuttering step.
LEMMA HeldUnchanged ==
  ASSUME HeldFact, HeldFact', Pushes' = Pushes, Pops' = Pops,
         \A n \in Nat : (Pops <= n /\ n < Pushes) => ring'[SlotOf(n)].val = ring[SlotOf(n)].val
  PROVE  Contents' = Contents
PROOF
  <1>1. Pushes \in Nat /\ Pops \in Nat
    BY DEF HeldFact
  <1>2. \A i \in 1 .. Pushes - Pops :
          ring'[SlotOf(Pops + (i - 1))].val = ring[SlotOf(Pops + (i - 1))].val
    <2> TAKE i \in 1 .. Pushes - Pops
    <2>1. Pops + (i - 1) \in Nat /\ Pops <= Pops + (i - 1) /\ Pops + (i - 1) < Pushes
      BY <1>1
    <2> QED BY <2>1
  <1>3. Held' = [i \in 1 .. Pushes - Pops |-> ring'[SlotOf(Pops + (i - 1))].val]
    BY DEF Held, SlotOf
  <1>4. Held' = Held
    BY <1>2, <1>3 DEF Held
  <1> QED BY <1>4 DEF HeldFact

\* Storing _push_cursor appends the argument of push().
LEMMA PublishAppends ==
  ASSUME IndInv, HeldFact, HeldFact', PushPublish
  PROVE  Contents' = Append(Contents, push_arg) /\ Len(Contents) < Capacity
PROOF
  <1> USE DEF IndInv
  <1>1. Pushes' = Pushes + 1 /\ Pops' = Pops /\ ring' = ring
    BY StoreCounts DEF PushPublish, Pushes, Pops, Cursors, Types
  <1>2. push_arg \in Memory /\ ring[SlotOf(Pushes)].val = push_arg
    BY DEF PushPublish, Arguments, Types
  <1>3. /\ Pushes \in Nat /\ Pops \in Nat /\ Pops <= Pushes
        /\ Contents = Held /\ Contents \in Seq(Memory) /\ Len(Contents) = Pushes - Pops
        /\ Contents' = Held' /\ Contents' \in Seq(Memory)
        /\ Len(Contents') = Pushes + 1 - Pops
    BY <1>1 DEF HeldFact
  <1>4. Held' = [i \in 1 .. Pushes' - Pops' |-> ring'[SlotOf(Pops' + (i - 1))].val]
    BY DEF Held, SlotOf
  <1>5. Append(Contents, push_arg) \in Seq(Memory)
        /\ Len(Append(Contents, push_arg)) = Pushes + 1 - Pops
    BY <1>2, <1>3
  <1>6. ASSUME NEW i \in 1 .. Pushes + 1 - Pops
        PROVE  Contents'[i] = Append(Contents, push_arg)[i]
    <2>1. Contents'[i] = ring[SlotOf(Pops + (i - 1))].val
      BY <1>1, <1>3, <1>4
    <2>2. CASE i = Pushes + 1 - Pops
      <3>1. Pops + (i - 1) = Pushes /\ i = Len(Contents) + 1
        BY <2>2, <1>3
      <3>2. Append(Contents, push_arg)[Len(Contents) + 1] = push_arg
        BY <1>2, <1>3
      <3> QED BY <3>1, <3>2, <2>1, <1>2
    <2>3. CASE i # Pushes + 1 - Pops
      <3>1. i \in 1 .. Pushes - Pops
        BY <2>3, <1>3
      <3>2. Contents[i] = ring[SlotOf(Pops + (i - 1))].val
        BY <3>1, <1>3 DEF Held
      <3> QED BY <3>1, <3>2, <2>1, <1>2, <1>3
    <2> QED BY <2>2, <2>3
  <1>7. Contents' = Append(Contents, push_arg)
    <2> DEFINE new == Append(Contents, push_arg)
    <2>1. new \in Seq(Memory) /\ Len(new) = Len(Contents')
      BY <1>5, <1>3
    <2>2. \A i \in 1 .. Len(Contents') : Contents'[i] = new[i]
      BY <1>3, <1>6
    <2> HIDE DEF new
    <2>3. Contents' = new
      BY <2>1, <2>2, <1>3
    <2> QED BY <2>3 DEF new
  <1>8. Pushes - Pops < Capacity
    BY <1>3, SizeAssumption DEF PushPublish, Window, Types, Pushes, Pops
  <1> QED BY <1>3, <1>7, <1>8

\* Storing _pop_cursor removes the oldest value.
LEMMA AdvanceRemoves ==
  ASSUME HeldFact, HeldFact', Pushes' = Pushes, Pops' = Pops + 1,
         \A n \in Nat : (Pops + 1 <= n /\ n < Pushes) => ring'[SlotOf(n)].val = ring[SlotOf(n)].val
  PROVE  /\ Contents # <<>> /\ Contents' = Tail(Contents)
         /\ Head(Contents) = ring[SlotOf(Pops)].val
PROOF
  <1>1. /\ Pushes \in Nat /\ Pops \in Nat /\ Pops + 1 <= Pushes
        /\ Contents = Held /\ Contents \in Seq(Memory) /\ Len(Contents) = Pushes - Pops
        /\ Contents' = Held' /\ Contents' \in Seq(Memory)
        /\ Len(Contents') = Pushes - (Pops + 1)
    BY DEF HeldFact
  <1>2. Contents # <<>>
    BY <1>1
  <1>3. Head(Contents) = ring[SlotOf(Pops)].val
    <2>1. 1 \in 1 .. Pushes - Pops /\ Pops + (1 - 1) = Pops
      BY <1>1
    <2>2. Contents[1] = ring[SlotOf(Pops)].val
      BY <1>1, <2>1 DEF Held
    <2> QED BY <1>1, <1>2, <2>2
  <1>4. Held' = [i \in 1 .. Pushes - (Pops + 1) |-> ring'[SlotOf((Pops + 1) + (i - 1))].val]
    BY DEF Held, SlotOf
  <1>5. Tail(Contents) \in Seq(Memory) /\ Len(Tail(Contents)) = Len(Contents')
    BY <1>1, <1>2
  <1>6. ASSUME NEW i \in 1 .. Len(Contents') PROVE Contents'[i] = Tail(Contents)[i]
    <2>1. /\ i \in 1 .. Pushes - (Pops + 1) /\ i + 1 \in 1 .. Pushes - Pops
          /\ (Pops + 1) + (i - 1) = Pops + ((i + 1) - 1)
          /\ Pops + ((i + 1) - 1) \in Nat
          /\ Pops + 1 <= Pops + ((i + 1) - 1) /\ Pops + ((i + 1) - 1) < Pushes
      BY <1>1
    <2>2. Contents'[i] = ring'[SlotOf(Pops + ((i + 1) - 1))].val
      BY <1>1, <1>4, <2>1
    <2>3. Contents[i + 1] = ring[SlotOf(Pops + ((i + 1) - 1))].val
      BY <1>1, <2>1 DEF Held
    <2>4. Tail(Contents)[i] = Contents[i + 1]
      BY <1>1, <1>2, <1>5
    <2> QED BY <2>1, <2>2, <2>3, <2>4
  <1>7. Contents' = Tail(Contents)
    <2> DEFINE new == Tail(Contents)
    <2>1. new \in Seq(Memory) /\ Len(new) = Len(Contents')
      BY <1>5
    <2>2. \A i \in 1 .. Len(Contents') : Contents'[i] = new[i]
      BY <1>6
    <2> HIDE DEF new
    <2>3. Contents' = new
      BY <2>1, <2>2, <1>1
    <2> QED BY <2>3 DEF new
  <1> QED BY <1>2, <1>3, <1>7

\* The ring implements the bounded FIFO: push() and pop() take effect when they
\* store their cursor, every other step of the threads is invisible.
LEMMA RefinementStep ==
  ASSUME IndInv, HeldFact, HeldFact', [Next]_vars
  PROVE  [Abstract!Next]_(Abstract!vars)
PROOF
  <1> USE DEF IndInv
  <1>1. /\ Pushes \in Nat /\ Pops \in Nat
        /\ \A n \in Nat : SlotOf(n) \in Slots
    BY CursorStep DEF HeldFact
  <1>2. ASSUME Contents' = Contents, delivered' = delivered, stage' = stage
        PROVE  UNCHANGED Abstract!vars
    BY <1>2 DEF Abstract!vars
  <1>3. ASSUME UNCHANGED <<push_cursor, pop_cursor, ring, delivered, stage>>
        PROVE  UNCHANGED Abstract!vars
    <2>1. Pushes' = Pushes /\ Pops' = Pops
      BY <1>3 DEF Pushes, Pops
    <2> QED BY <1>2, <1>3, <2>1, HeldUnchanged
  <1>4. ASSUME NEW v \in Values, Push(v) PROVE UNCHANGED Abstract!vars
    BY <1>3, <1>4 DEF Push
  <1>5. ASSUME NEW i \in pop_seen .. Len(pop_cursor), PushReload(i) PROVE UNCHANGED Abstract!vars
    BY <1>3, <1>5 DEF PushReload
  <1>6. ASSUME Pop PROVE UNCHANGED Abstract!vars
    BY <1>3, <1>6 DEF Pop
  <1>7. ASSUME NEW i \in push_seen .. Len(push_cursor), PopReload(i) PROVE UNCHANGED Abstract!vars
    BY <1>3, <1>7 DEF PopReload
  <1>8. ASSUME UNCHANGED vars PROVE UNCHANGED Abstract!vars
    BY <1>3, <1>8 DEF vars
  <1>9. ASSUME PushConstruct PROVE UNCHANGED Abstract!vars
    <2>1. Pushes' = Pushes /\ Pops' = Pops /\ delivered' = delivered /\ stage' = stage
      BY <1>9 DEF PushConstruct, Pushes, Pops
    <2>2. ASSUME NEW n \in Nat, Pops <= n, n < Pushes
          PROVE  ring'[SlotOf(n)].val = ring[SlotOf(n)].val
      <3>1. Pushes < n + Capacity
        BY <1>1, <1>9, <2>2, SizeAssumption DEF PushConstruct, Window, Types, Pushes, Pops
      <3>2. SlotOf(n) # SlotOf(Pushes)
        BY <1>1, <2>2, <3>1, SlotApart
      <3> QED BY <1>1, <1>9, <3>2, CurrentFacts DEF PushConstruct, Types
    <2> QED BY <1>2, <2>1, <2>2, HeldUnchanged
  <1>10. ASSUME PopTake PROVE UNCHANGED Abstract!vars
    <2>1. Pushes' = Pushes /\ Pops' = Pops /\ delivered' = delivered /\ stage' = stage
      BY <1>10 DEF PopTake, Pushes, Pops
    <2>2. \A s \in Slots : ring'[s].val = ring[s].val
      BY <1>10 DEF PopTake, Types, Destroyed
    <2> QED BY <1>1, <1>2, <2>1, <2>2, HeldUnchanged
  <1>11. ASSUME PushPublish PROVE Abstract!Next
    <2>1. push_arg \in Values /\ stage = "running"
      BY <1>11 DEF PushPublish, Arguments, Stages
    <2>2. delivered' = delivered /\ stage' = stage
      BY <1>11 DEF PushPublish
    <2>3. Abstract!Push(push_arg)
      BY <1>11, <2>1, <2>2, PublishAppends DEF Abstract!Push
    <2> QED BY <2>1, <2>3 DEF Abstract!Next
  <1>12. ASSUME PopPublish PROVE Abstract!Next
    <2>1. Pushes' = Pushes /\ Pops' = Pops + 1 /\ ring' = ring
      BY <1>12, StoreCounts DEF PopPublish, Pushes, Pops, Cursors, Types
    <2>2. stage = "running" /\ stage' = stage /\ pop_val = ring[SlotOf(Pops)].val
          /\ delivered' = Append(delivered, pop_val)
      BY <1>12 DEF PopPublish, Stages, Arguments
    <2>3. Abstract!Pop
      BY <2>1, <2>2, AdvanceRemoves DEF Abstract!Pop
    <2> QED BY <2>3 DEF Abstract!Next
  <1>13. ASSUME DestroyRemaining PROVE Abstract!Next
    <2>1. Pushes' = Pushes /\ Pops' = Pops + 1
      BY <1>13, StoreCounts DEF DestroyRemaining, Pushes, Pops, Cursors, Types
    <2>2. \A s \in Slots : ring'[s].val = ring[s].val
      BY <1>13 DEF DestroyRemaining, Types, Destroyed
    <2>3. stage = "joined" /\ stage' = stage /\ delivered' = delivered
      BY <1>13 DEF DestroyRemaining
    <2>4. Abstract!Discard
      BY <1>1, <2>1, <2>2, <2>3, AdvanceRemoves DEF Abstract!Discard
    <2> QED BY <2>4 DEF Abstract!Next
  <1>14. ASSUME Join PROVE Abstract!Next
    <2>1. UNCHANGED <<push_cursor, pop_cursor, ring, delivered>>
          /\ stage = "running" /\ stage' = "joined"
      BY <1>14 DEF Join
    <2>2. Contents' = Contents
      BY <2>1, HeldUnchanged DEF Pushes, Pops
    <2>3. Abstract!Close
      BY <2>1, <2>2 DEF Abstract!Close
    <2> QED BY <2>3 DEF Abstract!Next
  <1>15. ASSUME Deallocate PROVE UNCHANGED Abstract!vars
    <2>1. UNCHANGED <<push_cursor, pop_cursor, ring, delivered>>
          /\ stage = "joined" /\ stage' = "freed"
      BY <1>15 DEF Deallocate
    <2>2. Contents' = Contents
      BY <2>1, HeldUnchanged DEF Pushes, Pops
    <2> QED BY <2>1, <2>2 DEF Abstract!vars
  <1>16. CASE Producer
    BY <1>16, <1>4, <1>5, <1>9, <1>11 DEF Producer
  <1>17. CASE Consumer
    BY <1>17, <1>6, <1>7, <1>10, <1>12 DEF Consumer
  <1>18. CASE Destructor
    BY <1>18, <1>8, <1>13, <1>14, <1>15 DEF Destructor, Freed
  <1> QED BY <1>8, <1>16, <1>17, <1>18 DEF Next

\* Every behaviour of the ring, at any capacity, cursor width and interleaving,
\* is a behaviour of the bounded FIFO.
THEOREM Refinement == Spec => ImplementsBoundedQueue
PROOF
  <1>1. Init => Abstract!Init
    <2> SUFFICES ASSUME Init PROVE Abstract!Init
      OBVIOUS
    <2>1. HeldFact
      BY InitIndInv, ContentsHeld
    <2>2. Pushes - Pops = 0
      BY DEF Init, Pushes, Pops
    <2>3. Contents = <<>>
      BY <2>1, <2>2 DEF HeldFact
    <2> QED BY <2>3 DEF Init, Abstract!Init
  <1>2. IndInv /\ HeldFact /\ HeldFact' /\ [Next]_vars => [Abstract!Next]_(Abstract!vars)
    BY RefinementStep
  <1>3. Spec => [](IndInv /\ HeldFact)
    BY Inductive, ContentsHeld, PTL
  <1> QED BY <1>1, <1>2, <1>3, PTL DEF Spec, ImplementsBoundedQueue, Abstract!Spec
--------------------------------------------------------------------------------
\* The ring with stale views.  A thread loads the other's cursor again only when
\* its cached copy leaves it no room, or nothing, to work on.
Reloading ==
  /\ push_pc = "reload" => Pushes - (pop_seen - 1) >= Capacity
  /\ pop_pc = "reload" => push_seen - 1 = Pops

LEMMA ReloadingStep ==
  ASSUME IndInv, Reloading, [Next]_vars
  PROVE  Reloading'
PROOF
  <1> USE DEF IndInv, Reloading, Pushes, Pops
  <1>1. ASSUME NEW v \in Values, Push(v) PROVE Reloading'
    <2>1. pop_seen - 1 \in Nat /\ pop_seen - 1 <= Pushes
      BY DEF Types, Window
    <2>2. Subtract(Wrapped(Pushes), Wrapped(pop_seen - 1)) = Pushes - (pop_seen - 1)
      BY <2>1, CurrentFacts, CursorDistance DEF Window
    <2>3. Full(Current(push_cursor), pop_cursor_cached) => Pushes - (pop_seen - 1) >= Capacity
      BY <2>2, CurrentFacts DEF Full, Cursors
    <2> QED BY <1>1, <2>3 DEF Push, consumer
  <1>2. ASSUME NEW i \in pop_seen .. Len(pop_cursor), PushReload(i) PROVE Reloading'
    BY <1>2 DEF PushReload, consumer
  <1>3. ASSUME PushConstruct PROVE Reloading'
    BY <1>3 DEF PushConstruct, consumer
  <1>4. ASSUME PushPublish PROVE Reloading'
    BY <1>4 DEF PushPublish, consumer
  <1>5. ASSUME Pop PROVE Reloading'
    <2>1. Empty(push_cursor_cached, Current(pop_cursor)) => push_seen - 1 = Pops
      <3>1. /\ Pops \in Nat /\ push_seen - 1 \in Nat /\ Pops <= push_seen - 1
            /\ push_seen - 1 <= Pushes /\ Pushes - Pops <= Capacity /\ Pushes \in Nat
        BY <1>5, CurrentFacts DEF Types, Window, Pop
      <3>2. (push_seen - 1) - Pops <= Capacity
        BY <3>1, SizeAssumption
      <3>3. (Wrapped(push_seen - 1) = Wrapped(Pops)) <=> (push_seen - 1 = Pops)
        BY <3>1, <3>2, CursorDistance
      <3> QED BY <3>3, CurrentFacts DEF Empty, Cursors
    <2> QED BY <1>5, <2>1 DEF Pop, producer
  <1>6. ASSUME NEW i \in push_seen .. Len(push_cursor), PopReload(i) PROVE Reloading'
    BY <1>6 DEF PopReload, producer
  <1>7. ASSUME PopTake PROVE Reloading'
    BY <1>7 DEF PopTake, producer
  <1>8. ASSUME PopPublish PROVE Reloading'
    BY <1>8 DEF PopPublish, producer
  <1>9. ASSUME Destructor \/ UNCHANGED vars PROVE Reloading'
    BY <1>9 DEF Destructor, Join, DestroyRemaining, Deallocate, Freed, Stages,
                vars, producer, consumer
  <1> QED BY <1>1, <1>2, <1>3, <1>4, <1>5, <1>6, <1>7, <1>8, <1>9
          DEF Next, Producer, Consumer

\* push() and pop() take effect when they store their cursor; a reload is the one
\* other step that the composition can see.
LEMMA SharedStep ==
  ASSUME IndInv, Reloading, HeldFact, HeldFact', [Next]_vars
  PROVE  [Shared!Next]_(Shared!vars)
PROOF
  <1> USE DEF IndInv
  <1>1. /\ Pushes \in Nat /\ Pops \in Nat
        /\ \A n \in Nat : SlotOf(n) \in Slots
    BY CursorStep DEF HeldFact
  <1>2. /\ Pushes = Len(push_cursor) - 1 /\ Pops = Len(pop_cursor) - 1
        /\ Len(push_cursor) \in Nat /\ Len(pop_cursor) \in Nat
        /\ pop_seen \in 1 .. Len(pop_cursor) /\ push_seen \in 1 .. Len(push_cursor)
        /\ Capacity \in Nat /\ Len(Contents) = Pushes - Pops
    BY SizeAssumption DEF Pushes, Pops, Types, HeldFact
  <1>3. ASSUME UNCHANGED <<push_cursor, pop_cursor, ring>> PROVE Contents' = Contents
    BY <1>3, HeldUnchanged DEF Pushes, Pops
  <1>4. ASSUME Contents' = Contents,
               UNCHANGED <<pop_cursor, push_seen, pop_seen, delivered, stage>>
        PROVE  UNCHANGED Shared!vars
    BY <1>4 DEF Shared!vars
  <1>5. ASSUME NEW v \in Values, Push(v) PROVE UNCHANGED Shared!vars
    BY <1>3, <1>4, <1>5 DEF Push, consumer
  <1>6. ASSUME NEW i \in pop_seen .. Len(pop_cursor), PushReload(i) PROVE Shared!Next
    <2>1. /\ stage = "running" /\ stage' = stage /\ pop_seen' = i
          /\ UNCHANGED <<push_cursor, pop_cursor, ring, push_seen, delivered>>
      BY <1>6 DEF PushReload, consumer, Stages
    <2>2. Contents' = Contents
      BY <1>3, <2>1
    <2>3. Pushes - (pop_seen - 1) >= Capacity
      BY <1>6 DEF PushReload, Reloading
    <2>4. Len(pop_cursor) - i \in 0 .. Len(pop_cursor) - pop_seen
      BY <1>2
    <2>5. Shared!SeemsFull
      BY <1>1, <1>2, <2>1, <2>3 DEF Shared!SeemsFull
    <2>6. Shared!SeePops(Len(pop_cursor) - i)
      BY <2>1, <2>2, <2>4, <2>5 DEF Shared!SeePops
    <2> QED BY <2>1, <2>4, <2>6 DEF Shared!Next
  <1>7. ASSUME PushConstruct PROVE UNCHANGED Shared!vars
    <2>1. /\ Pushes' = Pushes /\ Pops' = Pops
          /\ UNCHANGED <<pop_cursor, push_seen, pop_seen, delivered, stage>>
      BY <1>7 DEF PushConstruct, Pushes, Pops, consumer
    <2>2. ASSUME NEW n \in Nat, Pops <= n, n < Pushes
          PROVE  ring'[SlotOf(n)].val = ring[SlotOf(n)].val
      <3>1. Pushes < n + Capacity
        BY <1>1, <1>7, <2>2, SizeAssumption DEF PushConstruct, Window, Types, Pushes, Pops
      <3>2. SlotOf(n) # SlotOf(Pushes)
        BY <1>1, <2>2, <3>1, SlotApart
      <3> QED BY <1>1, <1>7, <3>2, CurrentFacts DEF PushConstruct, Types
    <2>3. Contents' = Contents
      BY <2>1, <2>2, HeldUnchanged
    <2> QED BY <1>4, <2>1, <2>3
  <1>8. ASSUME PushPublish PROVE Shared!Next
    <2>1. /\ push_arg \in Values /\ stage = "running" /\ stage' = stage
          /\ UNCHANGED <<pop_cursor, push_seen, pop_seen, delivered>>
      BY <1>8 DEF PushPublish, Arguments, Stages, consumer
    <2>2. ~Shared!SeemsFull
      BY <1>1, <1>2, <1>8, <2>1 DEF PushPublish, Window, Shared!SeemsFull
    <2>3. Shared!Push(push_arg)
      BY <1>8, <2>1, <2>2, PublishAppends DEF Shared!Push
    <2> QED BY <2>1, <2>3 DEF Shared!Next
  <1>9. ASSUME Pop PROVE UNCHANGED Shared!vars
    BY <1>3, <1>4, <1>9 DEF Pop, producer
  <1>10. ASSUME NEW i \in push_seen .. Len(push_cursor), PopReload(i) PROVE Shared!Next
    <2>1. /\ stage = "running" /\ stage' = stage /\ push_seen' = i
          /\ UNCHANGED <<push_cursor, pop_cursor, ring, pop_seen, delivered>>
      BY <1>10 DEF PopReload, producer, Stages
    <2>2. Contents' = Contents
      BY <1>3, <2>1
    <2>3. push_seen - Len(pop_cursor) = 0
      BY <1>2, <1>10 DEF PopReload, Reloading
    <2>4. i - Len(pop_cursor) \in 0 .. Len(Contents)
      BY <1>2, <2>3
    <2>5. Shared!SeePushes(i - Len(pop_cursor))
      BY <2>1, <2>2, <2>3, <2>4 DEF Shared!SeePushes
    <2> QED BY <2>4, <2>5 DEF Shared!Next
  <1>11. ASSUME PopTake PROVE UNCHANGED Shared!vars
    <2>1. /\ Pushes' = Pushes /\ Pops' = Pops
          /\ UNCHANGED <<pop_cursor, push_seen, pop_seen, delivered, stage>>
      BY <1>11 DEF PopTake, Pushes, Pops, producer
    <2>2. \A s \in Slots : ring'[s].val = ring[s].val
      BY <1>11 DEF PopTake, Types, Destroyed
    <2>3. Contents' = Contents
      BY <1>1, <2>1, <2>2, HeldUnchanged
    <2> QED BY <1>4, <2>1, <2>3
  <1>12. ASSUME PopPublish PROVE Shared!Next
    <2>1. /\ Pushes' = Pushes /\ Pops' = Pops + 1 /\ ring' = ring
          /\ Len(pop_cursor') = Len(pop_cursor) + 1
      BY <1>12, StoreCounts DEF PopPublish, Pushes, Pops, Cursors, Types
    <2>2. /\ stage = "running" /\ stage' = stage /\ pop_val = ring[SlotOf(Pops)].val
          /\ UNCHANGED <<push_seen, pop_seen>>
      BY <1>12 DEF PopPublish, Stages, Arguments, producer
    <2>3. /\ delivered' # <<>> /\ delivered'[Len(delivered')] = pop_val
      BY <1>12 DEF PopPublish, Types
    <2>4. push_seen - Len(pop_cursor) > 0
      BY <1>2, <1>12 DEF PopPublish, Window
    <2>5. /\ push_seen - Len(pop_cursor') = push_seen - Len(pop_cursor) - 1
          /\ Len(pop_cursor') - pop_seen = Len(pop_cursor) - pop_seen + 1
      BY <1>2, <2>1
    <2>6. Contents' = Tail(Contents) /\ Head(Contents) = pop_val
      BY <2>1, <2>2, AdvanceRemoves
    <2>7. Shared!Pop
      BY <2>2, <2>3, <2>4, <2>5, <2>6 DEF Shared!Pop
    <2> QED BY <2>7 DEF Shared!Next
  <1>13. ASSUME Join PROVE Shared!Next
    <2>1. UNCHANGED <<push_cursor, pop_cursor, ring, delivered>>
          /\ stage = "running" /\ stage' = "joined"
      BY <1>13 DEF Join
    <2>2. Shared!Close
      BY <1>3, <2>1 DEF Shared!Close
    <2> QED BY <2>2 DEF Shared!Next
  <1>14. ASSUME DestroyRemaining PROVE Shared!Next
    <2>1. Pushes' = Pushes /\ Pops' = Pops + 1
      BY <1>14, StoreCounts DEF DestroyRemaining, Pushes, Pops, Cursors, Types
    <2>2. \A s \in Slots : ring'[s].val = ring[s].val
      BY <1>14 DEF DestroyRemaining, Types, Destroyed
    <2>3. stage = "joined" /\ stage' = stage /\ delivered' = delivered
      BY <1>14 DEF DestroyRemaining
    <2>4. Contents # <<>> /\ Contents' = Tail(Contents)
      BY <1>1, <2>1, <2>2, AdvanceRemoves
    <2>5. Shared!Discard
      BY <2>3, <2>4 DEF Shared!Discard
    <2> QED BY <2>5 DEF Shared!Next
  <1>15. ASSUME Deallocate PROVE UNCHANGED Shared!vars
    <2>1. UNCHANGED <<push_cursor, pop_cursor, ring, delivered>>
          /\ stage = "joined" /\ stage' = "freed"
      BY <1>15 DEF Deallocate
    <2> QED BY <1>3, <2>1 DEF Shared!vars
  <1>16. ASSUME UNCHANGED vars PROVE UNCHANGED Shared!vars
    BY <1>3, <1>4, <1>16 DEF vars, producer, consumer
  <1>17. CASE Producer
    BY <1>17, <1>5, <1>6, <1>7, <1>8 DEF Producer
  <1>18. CASE Consumer
    BY <1>18, <1>9, <1>10, <1>11, <1>12 DEF Consumer
  <1>19. CASE Destructor
    BY <1>19, <1>13, <1>14, <1>15, <1>16 DEF Destructor, Freed
  <1> QED BY <1>16, <1>17, <1>18, <1>19 DEF Next

\* The ring that MarketHandler composes the process from is what SPSCQueue.h
\* provides: however stale a thread's copy of the other cursor, it only ever makes
\* the queue look fuller to push() and emptier to pop() than it is.
THEOREM SharedRefinement == Spec => ImplementsSharedRing
PROOF
  <1>1. Init => Shared!Init /\ Reloading
    <2> SUFFICES ASSUME Init PROVE Shared!Init /\ Reloading
      OBVIOUS
    <2>1. HeldFact
      BY InitIndInv, ContentsHeld
    <2>2. Pushes - Pops = 0 /\ Len(pop_cursor) = 1
      BY DEF Init, Pushes, Pops
    <2>3. Contents = <<>>
      BY <2>1, <2>2 DEF HeldFact
    <2> QED BY <2>2, <2>3 DEF Init, Shared!Init, Reloading
  <1>2. IndInv /\ Reloading /\ [Next]_vars => Reloading'
    BY ReloadingStep
  <1>3. IndInv /\ Reloading /\ HeldFact /\ HeldFact' /\ [Next]_vars
          => [Shared!Next]_(Shared!vars)
    BY SharedStep
  <1>4. Spec => [](IndInv /\ HeldFact)
    BY Inductive, ContentsHeld, PTL
  <1> QED BY <1>1, <1>2, <1>3, <1>4, PTL DEF Spec, ImplementsSharedRing, Shared!Spec
================================================================================
