--------------------------- MODULE OrderBookProofs ---------------------------
(***************************************************************************)
(* The order book's data structures agree with one another after every     *)
(* step of every sequence of calls, for every pool size, price range and   *)
(* word size, provided that the quantities of messages fit an order.  It   *)
(* implements a limit order book, and its loops come to an end.            *)
(***************************************************************************)
EXTENDS RepeatedIds, PriceBitSetLemmas, FiniteSetTheorems, SequenceTheorems

\* Order::quantity holds the quantities that messages carry.
QuantitiesFit == Quantities \subseteq 0 .. QTY_MOD - 1

QuantitiesOf(orders) == [i \in 1 .. Len(orders) |-> pool[orders[i]].quantity]

\* One level: its links, and a total that is positive while it holds orders.
LevelSound(side, p) ==
  /\ Linked(side, p)
  /\ NoRepeats(queue[side][p])
  /\ SumOf(Len(queue[side][p]), QuantitiesOf(queue[side][p]), levels[side][p].total_quantity)

\* add_order relies on deallocate having cleared the links of a free order.
FreeSound == \A s \in Entries(free_list) : pool[s].prev = nullptr /\ pool[s].next = nullptr

Structure == /\ PoolPartitioned
             /\ \A side \in Side, p \in Ticks : LevelSound(side, p)
             /\ FreeSound

\* During a sweep the bit of the level that is swept may outlive its orders.
BitsSound ==
  /\ \A side \in Side : Summarised(price_bits[side])
  /\ best["B"] = get_highest(price_bits["B"])
  /\ best["S"] = get_lowest(price_bits["S"])
  /\ \A side \in Side : \/ call.pc = "sweep" /\ side = opposite
                        \/ Members(price_bits[side]) = Occupied(side)
  /\ call.pc = "sweep" =>
       /\ best[opposite] \in Ticks
       /\ Occupied(opposite) \subseteq Members(price_bits[opposite])
       /\ Members(price_bits[opposite]) \subseteq Occupied(opposite) \cup {best[opposite]}
       /\ call.resting = levels[opposite][best[opposite]].head

\* Without redelivery the id of the incoming order is not in the book.
IncomingUnknown == ~Redelivery /\ call.pc # "idle" => order_map[call.id] = nullptr

NeverCrossed == \A b \in Occupied("B"), a \in Occupied("S") : b < a

IndInv == /\ TypeOK
          /\ Structure
          /\ BitsSound
          /\ MapSound
          /\ IncomingUnknown
          /\ NeverCrossed
          /\ call.qty < QTY_MOD
-------------------------------------------------------------------------------
\* The sum is the one that SumOfQuantities computes.
LEMMA SumUnique ==
  ASSUME NEW orders \in Seq(Slots), NEW t,
         SumOf(Len(orders), [i \in 1 .. Len(orders) |-> pool[orders[i]].quantity], t)
  PROVE  SumOfQuantities(orders) = t
PROOF
  <1> DEFINE n == Len(orders)
             d == [i \in 1 .. n |-> pool[orders[i]].quantity]
             Body(f) == [i \in 0 .. n |->
               IF i = 0 THEN 0 ELSE f[i - 1] + pool[orders[i]].quantity]
             sum == CHOOSE f : f = Body(f)
  <1>1. PICK acc : RunningSum(acc, n, d) /\ t = acc[n]
    BY DEF SumOf
  <1>2. n \in Nat
    OBVIOUS
  <1>3. acc = Body(acc)
    BY <1>1, <1>2 DEF RunningSum
  <1>4. sum = Body(sum)
    BY <1>3
  <1>5. SumOfQuantities(orders) = sum[n]
    BY DEF SumOfQuantities
  <1> HIDE DEF sum, n
  <1>6. /\ sum[0] = acc[0]
        /\ \A i \in 1 .. n : sum[i - 1] = acc[i - 1] => sum[i] = acc[i]
    BY <1>2, <1>3, <1>4
  <1>7. \A i \in 0 .. n : sum[i] = acc[i]
    <2> DEFINE S == {i \in 0 .. n : sum[i] # acc[i]}
    <2> SUFFICES ASSUME S # {} PROVE FALSE
      OBVIOUS
    <2>1. S \in SUBSET Nat
      BY <1>2
    <2>2. PICK x \in S : \A y \in S : x <= y
      BY <2>1, LeastNatural
    <2>3. x # 0 /\ x \in 0 .. n
      BY <1>6
    <2>4. x - 1 \in 0 .. n /\ x \in 1 .. n /\ ~(x <= x - 1)
      BY <1>2, <2>3
    <2>5. sum[x - 1] = acc[x - 1]
      BY <2>2, <2>4
    <2> QED BY <1>6, <2>2, <2>4, <2>5
  <1> QED BY <1>1, <1>2, <1>5, <1>7
-------------------------------------------------------------------------------
\* The empty list is the one without places.
LEMMA EmptyList ==
  ASSUME NEW orders \in Seq(Slots)
  PROVE  orders = <<>> <=> Len(orders) = 0
  OBVIOUS

\* The entries of a list of slots are slots.
LEMMA EntriesIn ==
  ASSUME NEW orders \in Seq(Slots)
  PROVE  Entries(orders) \subseteq Slots
  BY DEF Entries

\* Taking an order out of a list leaves the others in their order.
LEMMA WithoutCorrect ==
  ASSUME NEW orders \in Seq(Slots), NoRepeats(orders), NEW k \in 1 .. Len(orders),
         NEW rest, rest = Without(orders, orders[k])
  PROVE  /\ rest \in Seq(Slots) /\ Len(rest) = Len(orders) - 1
         /\ \A i \in 1 .. Len(orders) - 1 :
              rest[i] = IF i < k THEN orders[i] ELSE orders[i + 1]
         /\ Entries(rest) = Entries(orders) \ {orders[k]}
         /\ NoRepeats(rest)
PROOF
  <1> DEFINE n == Len(orders)
  <1>1. n \in Nat /\ \A i \in 1 .. n : orders[i] \in Slots
    OBVIOUS
  <1>2. Position(orders, orders[k]) = k
    BY DEF Position, NoRepeats
  <1>3. rest = [i \in 1 .. n - 1 |-> IF i < k THEN orders[i] ELSE orders[i + 1]]
    BY <1>2 DEF Without
  <1>4. \A i \in 1 .. n - 1 : rest[i] = IF i < k THEN orders[i] ELSE orders[i + 1]
    BY <1>3
  <1>5. rest \in Seq(Slots) /\ Len(rest) = n - 1
    <2>1. n - 1 \in Nat /\ \A i \in 1 .. n - 1 : i \in 1 .. n /\ i + 1 \in 1 .. n
      BY <1>1
    <2> QED BY <1>1, <1>3, <2>1
  <1>6. NoRepeats(rest)
    <2> SUFFICES ASSUME NEW i \in 1 .. n - 1, NEW j \in 1 .. n - 1, rest[i] = rest[j]
                 PROVE  i = j
      BY <1>5 DEF NoRepeats
    <2> DEFINE a == IF i < k THEN i ELSE i + 1
               b == IF j < k THEN j ELSE j + 1
    <2>1. a \in 1 .. n /\ b \in 1 .. n /\ orders[a] = orders[b]
      BY <1>1, <1>4
    <2>2. a = b
      BY <2>1 DEF NoRepeats
    <2> QED BY <1>1, <2>2
  <1>7. Entries(rest) = Entries(orders) \ {orders[k]}
    <2>1. ASSUME NEW i \in 1 .. n - 1
          PROVE  rest[i] \in Entries(orders) /\ rest[i] # orders[k]
      <3>1. PICK a \in 1 .. n : a # k /\ rest[i] = orders[a]
        <4>1. i \in 1 .. n /\ i + 1 \in 1 .. n /\ (i < k \/ i + 1 # k)
          BY <1>1
        <4> QED BY <1>1, <1>4, <4>1
      <3> QED BY <3>1 DEF Entries, NoRepeats
    <2>2. ASSUME NEW a \in 1 .. n, a # k
          PROVE  \E i \in 1 .. n - 1 : rest[i] = orders[a]
      <3>1. CASE a < k
        <4>1. a \in 1 .. n - 1
          BY <1>1, <3>1
        <4> QED BY <1>4, <3>1, <4>1
      <3>2. CASE a > k
        <4>1. a - 1 \in 1 .. n - 1 /\ ~(a - 1 < k) /\ (a - 1) + 1 = a
          BY <1>1, <3>2
        <4> QED BY <1>4, <4>1
      <3> QED BY <1>1, <2>2, <3>1, <3>2
    <2>3. Entries(rest) = {rest[i] : i \in 1 .. n - 1}
          /\ Entries(orders) = {orders[i] : i \in 1 .. n}
      BY <1>5 DEF Entries
    <2> HIDE DEF n
    <2>4. Entries(rest) \subseteq Entries(orders) \ {orders[k]}
      BY <2>1, <2>3
    <2>5. Entries(orders) \ {orders[k]} \subseteq Entries(rest)
      <3> SUFFICES ASSUME NEW x \in Entries(orders), x # orders[k] PROVE x \in Entries(rest)
        OBVIOUS
      <3>1. PICK a \in 1 .. n : x = orders[a]
        BY <2>3
      <3>2. PICK i \in 1 .. n - 1 : rest[i] = orders[a]
        BY <2>2, <3>1
      <3> QED BY <2>3, <3>1, <3>2
    <2> QED BY <2>4, <2>5
  <1> QED BY <1>4, <1>5, <1>6, <1>7

\* Appending an order that a list does not hold.
LEMMA AppendCorrect ==
  ASSUME NEW orders \in Seq(Slots), NoRepeats(orders), NEW s \in Slots,
         s \notin Entries(orders), NEW more, more = Append(orders, s)
  PROVE  /\ more \in Seq(Slots) /\ Len(more) = Len(orders) + 1
         /\ \A i \in 1 .. Len(orders) : more[i] = orders[i]
         /\ more[Len(orders) + 1] = s
         /\ Entries(more) = Entries(orders) \cup {s}
         /\ NoRepeats(more)
PROOF
  <1> DEFINE n == Len(orders)
  <1>1. n \in Nat /\ more \in Seq(Slots) /\ Len(more) = n + 1
        /\ (\A i \in 1 .. n : more[i] = orders[i]) /\ more[n + 1] = s
    OBVIOUS
  <1>2. Entries(more) = Entries(orders) \cup {s}
    <2> HIDE DEF n
    <2>1. \A i \in 1 .. n + 1 : i \in 1 .. n \/ i = n + 1
      BY <1>1
    <2>2. \A i \in 1 .. n : i \in 1 .. n + 1
      BY <1>1
    <2>3. n + 1 \in 1 .. n + 1
      BY <1>1
    <2>4. Entries(more) = {more[i] : i \in 1 .. n + 1} /\ Entries(orders) = {orders[i] : i \in 1 .. n}
      BY <1>1 DEF Entries, n
    <2> QED BY <1>1, <2>1, <2>2, <2>3, <2>4
  <1>3. NoRepeats(more)
    BY <1>1 DEF NoRepeats, Entries
  <1> QED BY <1>1, <1>2, <1>3

\* Taking the last order off a list.
LEMMA FrontCorrect ==
  ASSUME NEW orders \in Seq(Slots), NoRepeats(orders), orders # <<>>,
         NEW front, front = SubSeq(orders, 1, Len(orders) - 1)
  PROVE  /\ front \in Seq(Slots) /\ orders[Len(orders)] \in Slots
         /\ orders[Len(orders)] \in Entries(orders)
         /\ Entries(front) = Entries(orders) \ {orders[Len(orders)]}
         /\ NoRepeats(front)
PROOF
  <1> DEFINE n == Len(orders)
  <1>1. n \in Nat /\ n # 0 /\ n \in 1 .. n /\ orders[n] \in Slots
    OBVIOUS
  <1>2. front \in Seq(Slots) /\ Len(front) = n - 1
        /\ \A i \in 1 .. n - 1 : front[i] = orders[i]
    <2>1. n - 1 \in Nat
      BY <1>1
    <2>2. front = [i \in 1 .. n - 1 |-> orders[i]]
      BY <1>1, <2>1
    <2>3. \A i \in 1 .. n - 1 : orders[i] \in Slots
      BY <1>1
    <2> HIDE DEF n
    <2> QED BY <2>1, <2>2, <2>3
  <1> HIDE DEF n
  <1>3. Entries(orders) = {orders[i] : i \in 1 .. n} /\ Entries(front) = {front[i] : i \in 1 .. n - 1}
    BY <1>2 DEF Entries, n
  <1>4. \A i, j \in 1 .. n : orders[i] = orders[j] => i = j
    BY DEF NoRepeats, n
  <1>5. \A i \in 1 .. n - 1 : i \in 1 .. n /\ i # n
    BY <1>1
  <1>6. \A i \in 1 .. n : i = n \/ i \in 1 .. n - 1
    BY <1>1
  <1>7. Entries(front) = Entries(orders) \ {orders[n]}
    BY <1>1, <1>2, <1>3, <1>4, <1>5, <1>6
  <1>8. NoRepeats(front)
    BY <1>2, <1>4, <1>5 DEF NoRepeats
  <1> QED BY <1>1, <1>2, <1>3, <1>7, <1>8 DEF n
-------------------------------------------------------------------------------
\* The types of the parts of the book that a call can change.
BookType ==
  /\ pool \in [Slots -> OrderType]
  /\ free_list \in Seq(Slots)
  /\ levels \in [Side -> [Ticks -> LevelType]]
  /\ order_map \in [Ids -> Pointer]
  /\ queue \in [Side -> [Ticks -> Seq(Slots)]]

\* The smallest price, id and order exist, and a sentinel is no price.
LEMMA Constants ==
  /\ 0 \in Ticks /\ 0 \in Ids /\ FreeOrder \in OrderType /\ nullptr \notin Slots
  /\ \A p \in Ticks : p < UINT32_MAX /\ p \in Nat
PROOF
  <1>1. 0 \in Ticks /\ 0 \in Ids /\ 0 \in 0 .. QTY_MOD - 1 /\ nullptr \notin Slots
    BY TicksAssumption, BookAssumption DEF Ticks, Ids, nullptr, Slots
  <1>2. FreeOrder \in OrderType
    BY <1>1 DEF FreeOrder, OrderType, Pointer, Side
  <1>3. \A p \in Ticks : p < UINT32_MAX /\ p \in Nat
    BY TicksAssumption DEF Ticks
  <1> QED BY <1>1, <1>2, <1>3

\* What unlinking the order s does to each order.
LEMMA UnlinkedCorrect ==
  ASSUME BookType, NEW s \in Slots, pool' = Unlinked(s)
  PROVE  /\ pool' \in [Slots -> OrderType]
         /\ pool'[s].prev = nullptr /\ pool'[s].next = nullptr
         /\ \A t \in Slots \ {s} :
              /\ pool'[t].next = IF t = pool[s].prev THEN pool[s].next ELSE pool[t].next
              /\ pool'[t].prev = IF t = pool[s].next THEN pool[s].prev ELSE pool[t].prev
              /\ pool'[t].id = pool[t].id /\ pool'[t].side = pool[t].side
              /\ pool'[t].price = pool[t].price /\ pool'[t].quantity = pool[t].quantity
PROOF
  <1>1. pool[s] \in OrderType /\ pool \in [Slots -> OrderType]
    BY DEF BookType
  <1>2. pool'[s] = FreeOrder
    BY DEF Unlinked
  <1>3. ASSUME NEW t \in Slots \ {s}
        PROVE  /\ pool'[t] \in OrderType
               /\ pool'[t].next = IF t = pool[s].prev THEN pool[s].next ELSE pool[t].next
               /\ pool'[t].prev = IF t = pool[s].next THEN pool[s].prev ELSE pool[t].prev
               /\ pool'[t].id = pool[t].id /\ pool'[t].side = pool[t].side
               /\ pool'[t].price = pool[t].price /\ pool'[t].quantity = pool[t].quantity
    <2>1. pool[t] \in OrderType
      BY <1>1
    <2>2. pool'[t] = [pool[t] EXCEPT !.next = IF t = pool[s].prev THEN pool[s].next ELSE @,
                                     !.prev = IF t = pool[s].next THEN pool[s].prev ELSE @]
      BY DEF Unlinked
    <2> QED BY <1>1, <2>1, <2>2 DEF OrderType
  <1>4. pool' = [t \in Slots |-> pool'[t]]
    BY DEF Unlinked
  <1>5. \A t \in Slots : pool'[t] \in OrderType
    BY <1>2, <1>3, Constants
  <1>6. pool' \in [Slots -> OrderType]
    BY <1>4, <1>5
  <1> QED BY <1>2, <1>3, <1>6 DEF FreeOrder

\* Unlinking one order leaves the ids of all the others as they were.
LEMMA UnlinkedKeepsIds ==
  ASSUME BookType, NEW s \in Slots, pool' = Unlinked(s)
  PROVE  \A t \in Slots \ {s} : pool'[t].id = pool[t].id
PROOF
  BY UnlinkedCorrect

\* An order and its neighbours belong to one level.
LEMMA Neighbours ==
  ASSUME BookType, NEW side \in Side, NEW p \in Ticks, LevelSound(side, p),
         NEW k \in 1 .. Len(queue[side][p]), NEW s, s = queue[side][p][k]
  PROVE  /\ s \in Slots /\ s \in Listed(side, p)
         /\ pool[s].side = side /\ pool[s].price = p
         /\ pool[s].prev = IF k = 1 THEN nullptr ELSE queue[side][p][k - 1]
         /\ pool[s].next = IF k = Len(queue[side][p]) THEN nullptr ELSE queue[side][p][k + 1]
         /\ pool[s].prev \in Listed(side, p) \cup {nullptr}
         /\ pool[s].next \in Listed(side, p) \cup {nullptr}
PROOF
  <1> DEFINE q == queue[side][p]
  <1>1. q \in Seq(Slots)
    BY DEF BookType
  <1>2. /\ pool[s].side = side /\ pool[s].price = p
        /\ pool[s].prev = IF k = 1 THEN nullptr ELSE q[k - 1]
        /\ pool[s].next = IF k = Len(q) THEN nullptr ELSE q[k + 1]
    BY DEF LevelSound, Linked
  <1>3. Listed(side, p) = {q[i] : i \in 1 .. Len(q)}
    BY DEF Listed, Entries
  <1> HIDE DEF q
  <1>4. s = q[k] /\ k \in 1 .. Len(q) /\ Len(q) \in Nat
    BY <1>1 DEF q
  <1>5. (k # 1 => k - 1 \in 1 .. Len(q)) /\ (k # Len(q) => k + 1 \in 1 .. Len(q))
    BY <1>4
  <1> QED BY <1>1, <1>2, <1>3, <1>4, <1>5 DEF q

\* A level is sound as long as nothing of it changes.
LEMMA LevelFrame ==
  ASSUME BookType, NEW side \in Side, NEW p \in Ticks, LevelSound(side, p),
         queue'[side][p] = queue[side][p], levels'[side][p] = levels[side][p],
         \A s \in Listed(side, p) :
           /\ pool'[s].prev = pool[s].prev /\ pool'[s].next = pool[s].next
           /\ pool'[s].side = pool[s].side /\ pool'[s].price = pool[s].price
           /\ pool'[s].quantity = pool[s].quantity
  PROVE  LevelSound(side, p)'
PROOF
  <1> DEFINE q == queue[side][p]
  <1>1. q \in Seq(Slots)
    BY DEF BookType
  <1>2. \A i \in 1 .. Len(q) : q[i] \in Listed(side, p)
    BY DEF Listed, Entries
  <1>3. Linked(side, p)'
    BY <1>2, SMTT(30) DEF LevelSound, Linked
  <1>4. NoRepeats(queue[side][p])'
    BY DEF LevelSound, NoRepeats
  <1>5. SumOf(Len(q), QuantitiesOf(q)', levels[side][p].total_quantity)
    <2>1. \A i \in 1 .. Len(q) : QuantitiesOf(q)'[i] = QuantitiesOf(q)[i]
      BY <1>2 DEF QuantitiesOf
    <2>2. SumOf(Len(q), QuantitiesOf(q), levels[side][p].total_quantity)
      BY DEF LevelSound
    <2> QED BY <1>1, <2>1, <2>2, SumSame
  <1> QED BY <1>3, <1>4, <1>5 DEF LevelSound, QuantitiesOf

\* Detach() leaves a sound level behind.
LEMMA DetachLevel ==
  ASSUME BookType, NEW side \in Side, NEW p \in Ticks, LevelSound(side, p),
         NEW k \in 1 .. Len(queue[side][p]), NEW s, s = queue[side][p][k],
         NEW id, Detach(s, side, p, id)
  PROVE  LevelSound(side, p)' /\ levels'[side][p].total_quantity \in Nat
PROOF
  <1> DEFINE q == queue[side][p]
             n == Len(q)
             new == queue'[side][p]
             total == levels[side][p].total_quantity
  <1>1. q \in Seq(Slots) /\ n \in Nat /\ NoRepeats(q) /\ q[k] = s
        /\ (\A i \in 1 .. n : q[i] \in Slots) /\ k \in 1 .. n
    BY DEF BookType, LevelSound
  <1>2. new = Without(q, s)
    BY DEF Detach, BookType
  <1>3. /\ new \in Seq(Slots) /\ Len(new) = n - 1
        /\ \A i \in 1 .. n - 1 : new[i] = IF i < k THEN q[i] ELSE q[i + 1]
        /\ NoRepeats(new)
    <2>1. /\ new = Without(q, q[k]) /\ k \in 1 .. Len(q)
          /\ q \in Seq(Slots) /\ NoRepeats(q)
      BY <1>1, <1>2
    <2>2. /\ new \in Seq(Slots) /\ Len(new) = Len(q) - 1
          /\ \A i \in 1 .. Len(q) - 1 : new[i] = IF i < k THEN q[i] ELSE q[i + 1]
          /\ Entries(new) = Entries(q) \ {q[k]}
          /\ NoRepeats(new)
      BY <2>1, WithoutCorrect
    <2> QED BY <2>2
  <1>4. s \in Slots /\ pool' = Unlinked(s)
    BY <1>1 DEF Detach
  <1>5. \A t \in Slots \ {s} :
          /\ pool'[t].next = IF t = pool[s].prev THEN pool[s].next ELSE pool[t].next
          /\ pool'[t].prev = IF t = pool[s].next THEN pool[s].prev ELSE pool[t].prev
          /\ pool'[t].side = pool[t].side
          /\ pool'[t].price = pool[t].price /\ pool'[t].quantity = pool[t].quantity
    BY <1>4, UnlinkedCorrect
  <1>6. /\ pool[s].prev = IF k = 1 THEN nullptr ELSE q[k - 1]
        /\ pool[s].next = IF k = n THEN nullptr ELSE q[k + 1]
    BY Neighbours
  <1>7. /\ levels[side][p].head = IF n = 0 THEN nullptr ELSE q[1]
        /\ levels[side][p].tail = IF n = 0 THEN nullptr ELSE q[n]
        /\ \A i \in 1 .. n :
             /\ pool[q[i]].prev = IF i = 1 THEN nullptr ELSE q[i - 1]
             /\ pool[q[i]].next = IF i = n THEN nullptr ELSE q[i + 1]
             /\ pool[q[i]].side = side /\ pool[q[i]].price = p
    <2>1. q = <<>> <=> n = 0
      BY <1>1
    <2> QED BY <2>1 DEF LevelSound, Linked
  <1>8. SumOf(n, QuantitiesOf(q), total)
    BY DEF LevelSound
  <1>9. levels'[side][p] = LevelWithout(levels[side][p], s)
    BY DEF Detach, BookType
  <1>10. /\ levels'[side][p].head = IF pool[s].prev = nullptr THEN pool[s].next ELSE levels[side][p].head
         /\ levels'[side][p].tail = IF pool[s].next = nullptr THEN pool[s].prev ELSE levels[side][p].tail
         /\ levels'[side][p].total_quantity = total - pool[s].quantity
    BY <1>9 DEF LevelWithout
  <1>11. \A i, j \in 1 .. n : q[i] = q[j] => i = j
    BY <1>1 DEF NoRepeats
  <1>12. \A i \in 1 .. n : q[i] # nullptr
    BY <1>1, Constants
  <1>13. SumOf(n - 1, [i \in 1 .. n - 1 |-> pool'[new[i]].quantity], total - pool[s].quantity)
         /\ total - pool[s].quantity \in Nat
    <2> DEFINE d == QuantitiesOf(q)
               e == [i \in 1 .. n - 1 |-> pool'[new[i]].quantity]
    <2>1. d \in [1 .. n -> Nat] /\ d[k] = pool[s].quantity
      <3>1. \A i \in 1 .. n : pool[q[i]].quantity \in Nat
        <4>1. \A t \in Slots : pool[t].quantity \in 0 .. QTY_MOD - 1
          BY DEF BookType, OrderType
        <4> QED BY <1>1, <4>1, BookAssumption
      <3> QED BY <1>1, <3>1 DEF QuantitiesOf
    <2>2. ASSUME NEW i \in 1 .. n - 1 PROVE e[i] = IF i < k THEN d[i] ELSE d[i + 1]
      <3>1. i \in 1 .. n /\ i + 1 \in 1 .. n
        BY <1>1
      <3>2. CASE i < k
        <4>1. new[i] = q[i] /\ q[i] \in Slots \ {s} /\ d[i] = pool[q[i]].quantity
          BY <1>1, <1>3, <1>11, <3>1, <3>2 DEF QuantitiesOf
        <4> QED BY <1>5, <3>2, <4>1
      <3>3. CASE ~(i < k)
        <4>1. new[i] = q[i + 1] /\ i + 1 # k
          BY <1>1, <1>3, <3>3, SMTT(30)
        <4>2. q[i + 1] \in Slots \ {s} /\ d[i + 1] = pool[q[i + 1]].quantity
          BY <1>1, <1>11, <3>1, <4>1 DEF QuantitiesOf
        <4> QED BY <1>5, <3>3, <4>1, <4>2
      <3> QED BY <3>2, <3>3
    <2> HIDE DEF d, e
    <2>3. SumOf(n, d, total)
      BY <1>8 DEF d
    <2>4. SumOf(n - 1, e, total - d[k])
      BY <1>1, <2>1, <2>2, <2>3, SumRemove
    <2>5. total - d[k] \in Nat
      <3>1. total \in Nat /\ d[k] \in Nat /\ d[k] <= total
        <4> HIDE DEF total, n
        <4> QED BY <1>1, <2>1, <2>3, SumBounds
      <3> QED BY <3>1
    <2> QED BY <2>1, <2>4, <2>5 DEF e
  <1> HIDE DEF n
  <1>14. ASSUME NEW i \in 1 .. n - 1
         PROVE  /\ pool'[new[i]].prev = IF i = 1 THEN nullptr ELSE new[i - 1]
                /\ pool'[new[i]].next = IF i = n - 1 THEN nullptr ELSE new[i + 1]
                /\ pool'[new[i]].side = side /\ pool'[new[i]].price = p
    <2>1. i \in 1 .. n /\ i + 1 \in 1 .. n
      BY <1>1
    <2>2. CASE i < k
      <3>1. new[i] = q[i] /\ i # k /\ q[i] \in Slots \ {s}
        BY <1>1, <1>3, <1>11, <2>1, <2>2
      <3>2. /\ pool'[q[i]].next = IF q[i] = pool[s].prev THEN pool[s].next ELSE pool[q[i]].next
            /\ pool'[q[i]].prev = IF q[i] = pool[s].next THEN pool[s].prev ELSE pool[q[i]].prev
            /\ pool'[q[i]].side = side /\ pool'[q[i]].price = p
        BY <1>5, <1>7, <2>1, <3>1, SMTT(30)
      <3>3. q[i] # pool[s].next
        <4>1. k # n => k + 1 \in 1 .. n /\ i # k + 1
          BY <1>1, <2>2
        <4> QED BY <1>6, <1>11, <1>12, <2>1, <4>1
      <3>4. pool'[q[i]].prev = IF i = 1 THEN nullptr ELSE new[i - 1]
        <4>1. i # 1 => i - 1 \in 1 .. n - 1 /\ i - 1 < k
          BY <1>1, <2>2
        <4>2. pool'[q[i]].prev = IF i = 1 THEN nullptr ELSE q[i - 1]
          BY <1>7, <2>1, <3>2, <3>3
        <4>3. i # 1 => new[i - 1] = q[i - 1]
          BY <1>3, <4>1
        <4> QED BY <4>2, <4>3
      <3>5. CASE i = k - 1
        <4>1. q[i] = pool[s].prev /\ k # 1
          BY <1>1, <1>6, <3>5
        <4>2. pool'[q[i]].next = IF k = n THEN nullptr ELSE q[k + 1]
          BY <1>6, <3>2, <4>1
        <4>3. k # n => k \in 1 .. n - 1 /\ ~(k < k)
          BY <1>1
        <4>4. k # n => new[k] = q[k + 1]
          BY <1>3, <4>3
        <4>5. i + 1 = k /\ (i = n - 1 <=> k = n)
          BY <1>1, <3>5
        <4> QED BY <3>1, <3>2, <3>4, <4>2, <4>4, <4>5
      <3>6. CASE i # k - 1
        <4>1. i + 1 < k /\ i + 1 \in 1 .. n - 1 /\ i # n - 1 /\ i # n /\ (k # 1 => k - 1 \in 1 .. n)
          BY <1>1, <2>2, <3>6
        <4>2. q[i] # pool[s].prev
          BY <1>6, <1>11, <1>12, <2>1, <3>6, <4>1
        <4>3. pool'[q[i]].next = q[i + 1] /\ new[i + 1] = q[i + 1]
          BY <1>3, <1>7, <2>1, <3>2, <4>1, <4>2
        <4> QED BY <3>1, <3>2, <3>4, <4>1, <4>3
      <3> QED BY <3>5, <3>6
    <2>3. CASE ~(i < k)
      <3> DEFINE j == i + 1
      <3>0. j \in 1 .. n /\ j > k /\ j - 1 = i /\ j # 1 /\ j # k
        BY <1>1, <2>1, <2>3
      <3>1. new[i] = q[j] /\ q[j] \in Slots \ {s}
        BY <1>1, <1>3, <1>11, <2>3, <3>0
      <3> HIDE DEF j
      <3>2. /\ pool'[q[j]].next = IF q[j] = pool[s].prev THEN pool[s].next ELSE pool[q[j]].next
            /\ pool'[q[j]].prev = IF q[j] = pool[s].next THEN pool[s].prev ELSE pool[q[j]].prev
            /\ pool'[q[j]].side = side /\ pool'[q[j]].price = p
        BY <1>5, <1>7, <3>0, <3>1, SMTT(30)
      <3>3. q[j] # pool[s].prev
        <4>1. k # 1 => k - 1 \in 1 .. n /\ j # k - 1
          BY <1>1, <3>0
        <4> QED BY <1>6, <1>11, <1>12, <3>0, <4>1
      <3>4. pool'[q[j]].next = IF i = n - 1 THEN nullptr ELSE new[i + 1]
        <4>1. j = n <=> i = n - 1
          BY <1>1, <3>0
        <4>2. i # n - 1 => i + 1 \in 1 .. n - 1 /\ ~(i + 1 < k) /\ (i + 1) + 1 = j + 1
          BY <1>1, <2>3 DEF j
        <4>3. i # n - 1 => new[i + 1] = q[j + 1]
          BY <1>3, <4>2
        <4> QED BY <1>7, <3>0, <3>2, <3>3, <4>1, <4>3
      <3>5. CASE i = k
        <4>1. k # n /\ q[j] = pool[s].next
          BY <1>1, <1>6, <3>0, <3>5 DEF j
        <4>2. pool'[q[j]].prev = IF k = 1 THEN nullptr ELSE q[k - 1]
          BY <1>6, <3>2, <4>1
        <4>3. k # 1 => k - 1 \in 1 .. n - 1 /\ k - 1 < k
          BY <1>1
        <4>4. k # 1 => new[k - 1] = q[k - 1]
          BY <1>3, <4>3
        <4> QED BY <3>1, <3>2, <3>4, <3>5, <4>2, <4>4
      <3>6. CASE i # k
        <4>1. i # 1 /\ i - 1 \in 1 .. n - 1 /\ ~(i - 1 < k) /\ (i - 1) + 1 = i
              /\ (k # n => k + 1 \in 1 .. n /\ k + 1 # j)
          BY <1>1, <2>3, <3>0, <3>6
        <4>2. q[j] # pool[s].next
          BY <1>6, <1>11, <1>12, <3>0, <4>1
        <4>3. new[i - 1] = q[i]
          BY <1>3, <4>1
        <4>4. pool'[q[j]].prev = q[i]
          BY <1>7, <3>0, <3>2, <4>2
        <4> QED BY <3>1, <3>2, <3>4, <4>1, <4>3, <4>4
      <3> QED BY <3>5, <3>6
    <2> QED BY <2>2, <2>3
  <1>15. levels'[side][p].head = IF n - 1 = 0 THEN nullptr ELSE new[1]
    <2>1. CASE k = 1
      <3>1. n # 1 => 1 \in 1 .. n - 1 /\ ~(1 < k) /\ 1 + 1 = k + 1
        BY <1>1, <2>1
      <3> QED BY <1>1, <1>3, <1>6, <1>10, <2>1, <3>1
    <2>2. CASE k # 1
      <3>1. 1 \in 1 .. n - 1 /\ 1 < k /\ k - 1 \in 1 .. n /\ n # 0 /\ n - 1 # 0
        BY <1>1, <2>2
      <3> QED BY <1>3, <1>6, <1>7, <1>10, <1>12, <2>2, <3>1
    <2> QED BY <2>1, <2>2
  <1>16. levels'[side][p].tail = IF n - 1 = 0 THEN nullptr ELSE new[n - 1]
    <2>1. CASE k = n
      <3>1. n # 1 => n - 1 \in 1 .. n - 1 /\ n - 1 < k
        BY <1>1, <2>1
      <3> QED BY <1>1, <1>3, <1>6, <1>10, <2>1, <3>1
    <2>2. CASE k # n
      <3>1. n - 1 \in 1 .. n - 1 /\ ~(n - 1 < k) /\ (n - 1) + 1 = n /\ n # 0 /\ n - 1 # 0
            /\ k + 1 \in 1 .. n
        BY <1>1, <2>2
      <3>2. pool[s].next # nullptr
        BY <1>6, <1>12, <2>2, <3>1
      <3>3. new[n - 1] = q[n]
        BY <1>3, <3>1
      <3> QED BY <1>7, <1>10, <3>1, <3>2, <3>3
    <2> QED BY <2>1, <2>2
  <1>17. Linked(side, p)'
    <2>1. new = <<>> <=> n - 1 = 0
      <3>1. new \in Seq(Slots) /\ Len(new) = n - 1
        BY <1>3
      <3>2. new = <<>> <=> Len(new) = 0
        BY <3>1, EmptyList
      <3> QED BY <3>1, <3>2
    <2> QED BY <1>3, <1>14, <1>15, <1>16, <2>1 DEF Linked
  <1>18. SumOf(Len(new), QuantitiesOf(queue[side][p])', levels'[side][p].total_quantity)
    BY <1>3, <1>10, <1>13 DEF QuantitiesOf
  <1> QED BY <1>3, <1>10, <1>13, <1>17, <1>18 DEF LevelSound

\* What Detach() does to the lists, the other levels and the other orders.
LEMMA DetachEffect ==
  ASSUME BookType, Structure, NEW side \in Side, NEW p \in Ticks,
         NEW k \in 1 .. Len(queue[side][p]), NEW s, s = queue[side][p][k],
         NEW id \in Ids, Detach(s, side, p, id)
  PROVE  /\ s \in Slots /\ s \in Listed(side, p) /\ s \notin Entries(free_list)
         /\ queue'[side][p] = Without(queue[side][p], s)
         /\ queue'[side][p] \in Seq(Slots)
         /\ Entries(queue'[side][p]) = Listed(side, p) \ {s}
         /\ \A x \in Side, r \in Ticks : x # side \/ r # p =>
              queue'[x][r] = queue[x][r] /\ levels'[x][r] = levels[x][r]
         /\ \A x \in Side, r \in Ticks : /\ Entries(queue'[x][r]) \subseteq Listed(x, r)
                                         /\ s \notin Entries(queue'[x][r])
         /\ free_list' \in Seq(Slots) /\ NoRepeats(free_list')
         /\ Entries(free_list') = Entries(free_list) \cup {s}
PROOF
  <1>1. LevelSound(side, p) /\ PoolPartitioned
    BY DEF Structure
  <1>2. s \in Slots /\ s \in Listed(side, p)
    BY <1>1, Neighbours
  <1>3. s \notin Entries(free_list)
    BY <1>1, <1>2 DEF PoolPartitioned
  <1>4. queue[side][p] \in Seq(Slots) /\ NoRepeats(queue[side][p])
    BY <1>1 DEF BookType, LevelSound
  <1>5. queue'[side][p] = Without(queue[side][p], queue[side][p][k])
    BY DEF Detach, BookType
  <1>6. /\ queue'[side][p] \in Seq(Slots)
        /\ Entries(queue'[side][p]) = Entries(queue[side][p]) \ {queue[side][p][k]}
    <2> DEFINE q == queue[side][p]
               new == queue'[side][p]
    <2>1. new = Without(q, q[k]) /\ k \in 1 .. Len(q) /\ q \in Seq(Slots) /\ NoRepeats(q)
      BY <1>4, <1>5
    <2>2. /\ new \in Seq(Slots) /\ Len(new) = Len(q) - 1
          /\ \A i \in 1 .. Len(q) - 1 : new[i] = IF i < k THEN q[i] ELSE q[i + 1]
          /\ Entries(new) = Entries(q) \ {q[k]}
          /\ NoRepeats(new)
      BY <2>1, WithoutCorrect
    <2> QED BY <2>2
  <1>7. ASSUME NEW x \in Side, NEW r \in Ticks, x # side \/ r # p
        PROVE  queue'[x][r] = queue[x][r] /\ levels'[x][r] = levels[x][r]
    BY <1>7 DEF Detach, BookType
  <1>8. ASSUME NEW x \in Side, NEW r \in Ticks
        PROVE  Entries(queue'[x][r]) \subseteq Listed(x, r) /\ s \notin Entries(queue'[x][r])
    <2>1. CASE x = side /\ r = p
      BY <1>6, <2>1 DEF Listed
    <2>2. CASE x # side \/ r # p
      <3>1. Entries(queue'[x][r]) = Listed(x, r)
        BY <1>7, <2>2 DEF Listed
      <3>2. Listed(side, p) \cap Listed(x, r) = {}
        BY <1>1, <2>2 DEF PoolPartitioned
      <3> QED BY <1>2, <3>1, <3>2
    <2> QED BY <2>1, <2>2
  <1>9. /\ free_list' \in Seq(Slots) /\ NoRepeats(free_list')
        /\ Entries(free_list') = Entries(free_list) \cup {s}
    <2>1. /\ free_list \in Seq(Slots) /\ NoRepeats(free_list)
          /\ free_list' = Append(free_list, s)
      BY <1>1 DEF BookType, PoolPartitioned, Detach, Deallocate
    <2> QED BY <1>2, <1>3, <2>1, AppendCorrect
  <1> QED BY <1>2, <1>3, <1>5, <1>6, <1>7, <1>8, <1>9 DEF Listed

\* Detach() keeps the types and the structure of the whole book.
LEMMA DetachStructure ==
  ASSUME BookType, Structure, NEW side \in Side, NEW p \in Ticks,
         NEW k \in 1 .. Len(queue[side][p]), NEW s, s = queue[side][p][k],
         NEW id \in Ids, Detach(s, side, p, id)
  PROVE  BookType' /\ Structure'
PROOF
  <1>1. LevelSound(side, p) /\ PoolPartitioned /\ FreeSound
    BY DEF Structure
  <1>2. /\ s \in Slots /\ s \in Listed(side, p) /\ s \notin Entries(free_list)
        /\ queue'[side][p] \in Seq(Slots)
        /\ Entries(queue'[side][p]) = Listed(side, p) \ {s}
        /\ \A x \in Side, r \in Ticks : x # side \/ r # p =>
             queue'[x][r] = queue[x][r] /\ levels'[x][r] = levels[x][r]
        /\ \A x \in Side, r \in Ticks : /\ Entries(queue'[x][r]) \subseteq Listed(x, r)
                                        /\ s \notin Entries(queue'[x][r])
        /\ free_list' \in Seq(Slots) /\ NoRepeats(free_list')
        /\ Entries(free_list') = Entries(free_list) \cup {s}
    BY DetachEffect
  <1>3. pool' = Unlinked(s)
    BY DEF Detach
  <1>4. /\ pool' \in [Slots -> OrderType]
        /\ pool'[s].prev = nullptr /\ pool'[s].next = nullptr
        /\ \A t \in Slots \ {s} :
             /\ pool'[t].next = IF t = pool[s].prev THEN pool[s].next ELSE pool[t].next
             /\ pool'[t].prev = IF t = pool[s].next THEN pool[s].prev ELSE pool[t].prev
             /\ pool'[t].side = pool[t].side
             /\ pool'[t].price = pool[t].price /\ pool'[t].quantity = pool[t].quantity
    BY <1>2, <1>3, UnlinkedCorrect, SMTT(30)
  <1>5. /\ pool[s].prev \in Listed(side, p) \cup {nullptr}
        /\ pool[s].next \in Listed(side, p) \cup {nullptr}
    BY <1>1, Neighbours
  <1>6. LevelSound(side, p)' /\ levels'[side][p].total_quantity \in Nat
    BY <1>1, DetachLevel
  <1>7. \* Orders elsewhere keep their links.
        \A t \in Slots : t \notin Listed(side, p) =>
          /\ pool'[t].prev = pool[t].prev /\ pool'[t].next = pool[t].next
          /\ pool'[t].side = pool[t].side
          /\ pool'[t].price = pool[t].price /\ pool'[t].quantity = pool[t].quantity
    BY <1>2, <1>4, <1>5, Constants
  <1>8. BookType'
    <2>1. levels' \in [Side -> [Ticks -> LevelType]]
      <3>1. levels'[side][p] = LevelWithout(levels[side][p], s)
            /\ levels' = [levels EXCEPT ![side][p] = LevelWithout(levels[side][p], s)]
        BY DEF Detach, BookType
      <3>2. LevelWithout(levels[side][p], s) \in LevelType
        <4>1. pool[s].prev \in Pointer /\ pool[s].next \in Pointer
          BY <1>2 DEF BookType, OrderType
        <4>2. levels[side][p].head \in Pointer /\ levels[side][p].tail \in Pointer
          BY DEF BookType, LevelType
        <4>3. levels[side][p].total_quantity - pool[s].quantity \in Nat
          BY <1>6, <3>1 DEF LevelWithout
        <4> QED BY <4>1, <4>2, <4>3 DEF LevelWithout, LevelType
      <3> QED BY <3>1, <3>2 DEF BookType
    <2>2. order_map' \in [Ids -> Pointer]
      BY DEF Detach, Forget, BookType, Pointer
    <2>3. queue' \in [Side -> [Ticks -> Seq(Slots)]]
      BY <1>2 DEF Detach, BookType
    <2> QED BY <1>2, <1>4, <2>1, <2>2, <2>3 DEF BookType
  <1>9. ASSUME NEW x \in Side, NEW r \in Ticks PROVE LevelSound(x, r)'
    <2>1. CASE x = side /\ r = p
      BY <1>6, <2>1
    <2>2. CASE x # side \/ r # p
      <3>1. LevelSound(x, r)
        BY DEF Structure
      <3>2. queue'[x][r] = queue[x][r] /\ levels'[x][r] = levels[x][r]
        BY <1>2, <2>2
      <3>3. \A t \in Listed(x, r) : t \in Slots /\ t \notin Listed(side, p)
        <4>1. Listed(side, p) \cap Listed(x, r) = {}
          BY <1>1, <2>2 DEF PoolPartitioned
        <4>2. queue[x][r] \in Seq(Slots)
          BY DEF BookType
        <4> QED BY <4>1, <4>2, EntriesIn DEF Listed
      <3> QED BY <1>7, <3>1, <3>2, <3>3, LevelFrame
    <2> QED BY <2>1, <2>2
  <1>10. FreeSound'
    <2> SUFFICES ASSUME NEW t \in Entries(free_list')
                 PROVE  pool'[t].prev = nullptr /\ pool'[t].next = nullptr
      BY DEF FreeSound
    <2>1. CASE t = s
      BY <1>4, <2>1
    <2>2. CASE t # s
      <3>1. t \in Entries(free_list) /\ t \in Slots
        BY <1>2, <2>2, EntriesIn DEF BookType
      <3>2. t \notin Listed(side, p)
        BY <1>1, <3>1 DEF PoolPartitioned
      <3> QED BY <1>1, <1>7, <3>1, <3>2 DEF FreeSound
    <2> QED BY <2>1, <2>2
  <1>11. PoolPartitioned'
    <2>1. ASSUME NEW x \in Side, NEW r \in Ticks
          PROVE  /\ NoRepeats(queue'[x][r])
                 /\ Entries(queue'[x][r]) \cap Entries(free_list') = {}
      <3>1. NoRepeats(queue'[x][r])
        BY <1>9 DEF LevelSound
      <3>2. Listed(x, r) \cap Entries(free_list) = {}
        BY <1>1 DEF PoolPartitioned
      <3> QED BY <1>2, <3>1, <3>2
    <2>2. ASSUME NEW x \in Side, NEW r \in Ticks, NEW y \in Side, NEW u \in Ticks,
                 y # x \/ u # r
          PROVE  Entries(queue'[x][r]) \cap Entries(queue'[y][u]) = {}
      <3>1. Listed(x, r) \cap Listed(y, u) = {}
        BY <1>1, <2>2 DEF PoolPartitioned
      <3> QED BY <1>2, <3>1
    <2>3. ASSUME NEW t \in Slots
          PROVE  \/ t \in Entries(free_list')
                 \/ \E x \in Side, r \in Ticks : t \in Entries(queue'[x][r])
      <3>1. CASE t \in Entries(free_list) \/ t = s
        BY <1>2, <3>1
      <3>2. CASE t \notin Entries(free_list) /\ t # s
        <4>1. PICK x \in Side, r \in Ticks : t \in Listed(x, r)
          BY <1>1, <3>2 DEF PoolPartitioned
        <4>2. t \in Entries(queue'[x][r])
          BY <1>2, <3>2, <4>1 DEF Listed
        <4> QED BY <4>2
      <3> QED BY <3>1, <3>2
    <2>4. NoRepeats(free_list')
      BY <1>2
    <2> QED BY <2>1, <2>2, <2>3, <2>4, Zenon DEF PoolPartitioned, Listed
  <1> QED BY <1>8, <1>9, <1>10, <1>11 DEF Structure

\* Detach() of an order with its own id keeps order_map sound.
LEMMA DetachMap ==
  ASSUME BookType, Structure, MapSound, NEW side \in Side, NEW p \in Ticks,
         NEW k \in 1 .. Len(queue[side][p]), NEW s, s = queue[side][p][k],
         NEW id \in Ids, id = pool[s].id, Detach(s, side, p, id)
  PROVE  /\ MapSound'
         /\ order_map'[id] = nullptr
         /\ \A i \in Ids \ {id} : order_map'[i] = order_map[i]
PROOF
  <1>1. /\ s \in Slots /\ s \in Listed(side, p)
        /\ Entries(queue'[side][p]) = Listed(side, p) \ {s}
        /\ \A x \in Side, r \in Ticks : x # side \/ r # p => queue'[x][r] = queue[x][r]
        /\ \A x \in Side, r \in Ticks : /\ Entries(queue'[x][r]) \subseteq Listed(x, r)
                                        /\ s \notin Entries(queue'[x][r])
    BY DetachEffect
  <1>2. order_map'[id] = nullptr /\ \A i \in Ids \ {id} : order_map'[i] = order_map[i]
    BY DEF Detach, Forget, BookType
  <1>3. \A x \in Side, r \in Ticks : \A t \in Listed(x, r) : t \in Slots
    BY EntriesIn DEF BookType, Listed
  <1>4. \A t \in Slots \ {s} : pool'[t].id = pool[t].id /\ pool[t].id \in Ids
    <2>1. \A t \in Slots \ {s} : pool'[t].id = pool[t].id
      <3>1. pool' = Unlinked(s)
        BY DEF Detach
      <3>2. s \in Slots
        BY <1>1
      <3> QED BY <3>1, <3>2, UnlinkedKeepsIds
    <2> QED BY <2>1 DEF BookType, OrderType
  <1>5. ASSUME NEW i \in Ids, order_map'[i] # nullptr
        PROVE  /\ \E x \in Side, r \in Ticks : order_map'[i] \in Entries(queue'[x][r])
               /\ pool'[order_map'[i]].id = i
    <2>1. i # id /\ order_map'[i] = order_map[i]
      BY <1>2, <1>5
    <2>2. PICK x \in Side, r \in Ticks : order_map[i] \in Listed(x, r)
      BY <1>5, <2>1 DEF MapSound
    <2>3. pool[order_map[i]].id = i /\ order_map[i] # s
      BY <1>5, <2>1 DEF MapSound
    <2>4. order_map[i] \in Entries(queue'[x][r])
      BY <1>1, <2>2, <2>3 DEF Listed
    <2> QED BY <1>3, <1>4, <2>1, <2>2, <2>3, <2>4
  <1>6. ASSUME ~Redelivery, NEW x \in Side, NEW r \in Ticks, NEW t \in Entries(queue'[x][r])
        PROVE  order_map'[pool'[t].id] = t
    <2>1. t \in Listed(x, r) /\ t # s /\ t \in Slots
      BY <1>1, <1>3
    <2>2. order_map[pool[t].id] = t /\ order_map[pool[s].id] = s
      BY <1>1, <1>6, <2>1 DEF MapSound
    <2>3. pool'[t].id = pool[t].id /\ pool[t].id \in Ids \ {id}
      BY <1>4, <2>1, <2>2
    <2> QED BY <1>2, <2>2, <2>3
  <1>7. MapSound'
    BY <1>5, <1>6, Zenon DEF MapSound, Listed
  <1> QED BY <1>2, <1>7

\* A total is positive exactly when the list has orders.
LEMMA PositiveTotal ==
  ASSUME NEW P \in [Slots -> OrderType], NEW orders \in Seq(Slots), NEW total,
         SumOf(Len(orders), [i \in 1 .. Len(orders) |-> P[orders[i]].quantity], total)
  PROVE  /\ total \in Nat /\ (total = 0 <=> orders = <<>>)
         /\ \A i \in 1 .. Len(orders) : /\ P[orders[i]].quantity \in Nat
                                        /\ 0 < P[orders[i]].quantity
                                        /\ P[orders[i]].quantity <= total
PROOF
  <1> DEFINE n == Len(orders)
             d == [i \in 1 .. n |-> P[orders[i]].quantity]
  <1>1. n \in Nat /\ (orders = <<>> <=> n = 0) /\ \A i \in 1 .. n : orders[i] \in Slots
    BY EmptyList
  <1>2. d \in [1 .. n -> Nat]
    <2>1. \A t \in Slots : P[t].quantity \in 0 .. QTY_MOD - 1
      BY DEF OrderType
    <2>2. \A i \in 1 .. n : P[orders[i]].quantity \in Nat
      BY <1>1, <2>1, BookAssumption
    <2> QED BY <1>1, <2>2
  <1>3. \A i \in 1 .. n : d[i] = P[orders[i]].quantity
    OBVIOUS
  <1>4. SumOf(n, d, total)
    OBVIOUS
  <1> HIDE DEF n, d
  <1>5. total \in Nat /\ (total = 0 <=> n = 0) /\ \A k \in 1 .. n : 0 < d[k] /\ d[k] <= total
    BY <1>1, <1>2, <1>4, SumBounds
  <1>6. \A i \in 1 .. n : d[i] \in Nat
    BY <1>2
  <1> QED BY <1>1, <1>3, <1>5, <1>6 DEF n

-------------------------------------------------------------------------------
BitsType == /\ price_bits \in [Side -> BitSetType]
            /\ best \in [Side -> Ticks \cup {UINT32_MAX}]

\* The bitmaps are hierarchies and the cached best prices their scans.
Cached == /\ \A side \in Side : Summarised(price_bits[side])
          /\ best["B"] = get_highest(price_bits["B"])
          /\ best["S"] = get_lowest(price_bits["S"])

\* What a scan may answer.
LEMMA ScanType ==
  ASSUME NEW bm \in BitSetType, Summarised(bm)
  PROVE  get_highest(bm) \in Ticks /\ get_lowest(bm) \in Ticks \cup {UINT32_MAX}
PROOF
  <1>1. Members(bm) \subseteq Ticks
    BY DEF Members
  <1> QED BY <1>1, ScanCorrect, Constants

\* Refresh() takes the bit of an emptied level and keeps the caches exact.
LEMMA RefreshCorrect ==
  ASSUME BitsType, Cached, NEW side \in Side, NEW p \in Ticks, NEW total,
         Refresh(side, p, total)
  PROVE  /\ BitsType' /\ Cached'
         /\ Members(price_bits'[side]) =
              IF total = 0 THEN Members(price_bits[side]) \ {p} ELSE Members(price_bits[side])
         /\ \A x \in Side \ {side} : price_bits'[x] = price_bits[x]
PROOF
  <1>1. CASE total # 0
    BY <1>1 DEF Refresh, BitsType, Cached
  <1>2. CASE total = 0
    <2> DEFINE bm == price_bits[side]
    <2>1. bm \in BitSetType /\ Summarised(bm)
      BY DEF BitsType, Cached
    <2>2. /\ clear(bm, p) \in BitSetType /\ Summarised(clear(bm, p))
          /\ Members(clear(bm, p)) = Members(bm) \ {p}
      BY <2>1, ClearCorrect
    <2>3. price_bits' = [price_bits EXCEPT ![side] = clear(bm, p)]
      BY <1>2 DEF Refresh
    <2>4. price_bits'[side] = clear(bm, p) /\ \A x \in Side \ {side} : price_bits'[x] = price_bits[x]
      BY <2>3 DEF BitsType
    <2>5. price_bits' \in [Side -> BitSetType]
      BY <2>2, <2>3 DEF BitsType
    <2>6. \A x \in Side : Summarised(price_bits'[x])
      BY <2>2, <2>4 DEF Cached
    <2>7. best' = [x \in Side |-> IF x = "B" THEN get_highest(price_bits'["B"])
                                             ELSE get_lowest(price_bits'["S"])]
      BY <1>2 DEF Refresh
    <2>8. "B" \in Side /\ "S" \in Side
      BY DEF Side
    <2>9. best'["B"] = get_highest(price_bits'["B"]) /\ best'["S"] = get_lowest(price_bits'["S"])
      BY <2>7, <2>8
    <2>10. /\ get_highest(price_bits'["B"]) \in Ticks
           /\ get_lowest(price_bits'["S"]) \in Ticks \cup {UINT32_MAX}
      BY <2>5, <2>6, <2>8, ScanType
    <2>11. best' \in [Side -> Ticks \cup {UINT32_MAX}]
      BY <2>7, <2>10
    <2> QED BY <1>2, <2>2, <2>4, <2>5, <2>6, <2>9, <2>11 DEF BitsType, Cached
  <1> QED BY <1>1, <1>2
-------------------------------------------------------------------------------
\* order_map leads to the place of an order.
LEMMA Found ==
  ASSUME BookType, Structure, MapSound, NEW id \in Ids, order_map[id] # nullptr
  PROVE  \E side \in Side, p \in Ticks : \E k \in 1 .. Len(queue[side][p]) :
           /\ order_map[id] = queue[side][p][k]
           /\ pool[order_map[id]].side = side /\ pool[order_map[id]].price = p
           /\ pool[order_map[id]].id = id
PROOF
  <1>1. PICK side \in Side, p \in Ticks : order_map[id] \in Listed(side, p)
    BY DEF MapSound
  <1>2. PICK k \in 1 .. Len(queue[side][p]) : order_map[id] = queue[side][p][k]
    BY <1>1 DEF Listed, Entries
  <1>3. pool[order_map[id]].id = id
    BY DEF MapSound
  <1>4. pool[order_map[id]].side = side /\ pool[order_map[id]].price = p
    BY <1>2 DEF Structure, LevelSound, Linked
  <1> QED BY <1>2, <1>3, <1>4

\* Every level holds quantity exactly while it holds orders.
LEMMA Levels ==
  ASSUME BookType, Structure, NEW side \in Side, NEW p \in Ticks
  PROVE  /\ levels[side][p].total_quantity \in Nat
         /\ levels[side][p].total_quantity = 0 <=> queue[side][p] = <<>>
PROOF
  <1>1. /\ pool \in [Slots -> OrderType] /\ queue[side][p] \in Seq(Slots)
        /\ SumOf(Len(queue[side][p]), [i \in 1 .. Len(queue[side][p]) |->
                   pool[queue[side][p][i]].quantity], levels[side][p].total_quantity)
    BY DEF BookType, Structure, LevelSound, QuantitiesOf
  <1> QED BY <1>1, PositiveTotal

\* The same after a step.
LEMMA LevelsNext ==
  ASSUME BookType', Structure', NEW side \in Side, NEW p \in Ticks
  PROVE  /\ levels'[side][p].total_quantity \in Nat
         /\ levels'[side][p].total_quantity = 0 <=> queue'[side][p] = <<>>
PROOF
  <1>1. /\ pool' \in [Slots -> OrderType] /\ queue'[side][p] \in Seq(Slots)
        /\ SumOf(Len(queue'[side][p]), [i \in 1 .. Len(queue'[side][p]) |->
                   pool'[queue'[side][p][i]].quantity], levels'[side][p].total_quantity)
    BY DEF BookType, Structure, LevelSound, QuantitiesOf
  <1> QED BY <1>1, PositiveTotal

\* Detach() can only empty the level it works on.
LEMMA DetachOccupied ==
  ASSUME BookType, Structure, NEW side \in Side, NEW p \in Ticks,
         NEW k \in 1 .. Len(queue[side][p]), NEW s, s = queue[side][p][k],
         NEW id \in Ids, Detach(s, side, p, id)
  PROVE  /\ p \in Occupied(side)
         /\ Occupied(side)' = IF levels'[side][p].total_quantity = 0
                              THEN Occupied(side) \ {p} ELSE Occupied(side)
         /\ \A x \in Side \ {side} : Occupied(x)' = Occupied(x)
PROOF
  <1>1. BookType' /\ Structure'
    BY DetachStructure
  <1>2. levels'[side][p].total_quantity = 0 <=> queue'[side][p] = <<>>
    BY <1>1, LevelsNext
  <1>3. \A x \in Side, r \in Ticks : x # side \/ r # p => queue'[x][r] = queue[x][r]
    BY DetachEffect
  <1>4. queue[side][p] # <<>>
    <2>1. queue[side][p] \in Seq(Slots) /\ Len(queue[side][p]) # 0
      BY DEF BookType
    <2> QED BY <2>1, EmptyList
  <1> QED BY <1>2, <1>3, <1>4 DEF Occupied

\* cancel_order's work leaves every structure exact.
LEMMA RemoveCorrect ==
  ASSUME BookType, BitsType, Structure, Cached, MapSound, NeverCrossed,
         \A side \in Side : Members(price_bits[side]) = Occupied(side),
         NEW id \in Ids, order_map[id] # nullptr, Remove(id)
  PROVE  /\ BookType' /\ BitsType' /\ Structure' /\ Cached' /\ MapSound' /\ NeverCrossed'
         /\ \A side \in Side : Members(price_bits'[side]) = Occupied(side)'
         /\ order_map'[id] = nullptr
PROOF
  <1> DEFINE s == order_map[id]
  <1>0. PICK side \in Side, p \in Ticks : \E k \in 1 .. Len(queue[side][p]) :
          /\ s = queue[side][p][k]
          /\ pool[s].side = side /\ pool[s].price = p /\ pool[s].id = id
    BY Found
  <1>1. PICK k \in 1 .. Len(queue[side][p]) :
          /\ s = queue[side][p][k]
          /\ pool[s].side = side /\ pool[s].price = p /\ pool[s].id = id
    BY <1>0
  <1>2. Detach(s, side, p, id) /\ Refresh(side, p, levels'[side][p].total_quantity)
    BY <1>1 DEF Remove
  <1> HIDE DEF s
  <1>3. BookType' /\ Structure'
    BY <1>1, <1>2, DetachStructure
  <1>4. MapSound' /\ order_map'[id] = nullptr
    BY <1>1, <1>2, DetachMap
  <1>5. /\ Occupied(side)' = IF levels'[side][p].total_quantity = 0
                             THEN Occupied(side) \ {p} ELSE Occupied(side)
        /\ \A x \in Side \ {side} : Occupied(x)' = Occupied(x)
    BY <1>1, <1>2, DetachOccupied
  <1>6. /\ BitsType' /\ Cached'
        /\ Members(price_bits'[side]) =
              IF levels'[side][p].total_quantity = 0
              THEN Members(price_bits[side]) \ {p} ELSE Members(price_bits[side])
        /\ \A x \in Side \ {side} : price_bits'[x] = price_bits[x]
    BY <1>2, RefreshCorrect
  <1>7. \A x \in Side : Members(price_bits'[x]) = Occupied(x)'
    BY <1>5, <1>6
  <1>8. NeverCrossed'
    <2>1. \A x \in Side : Occupied(x)' \subseteq Occupied(x)
      BY <1>5
    <2> QED BY <2>1 DEF NeverCrossed, Side
  <1> QED BY <1>3, <1>4, <1>6, <1>7, <1>8
-------------------------------------------------------------------------------
\* An order that loses part of its quantity keeps its place.
LEMMA ReduceCorrect ==
  ASSUME BookType, Structure, MapSound, NEW side \in Side, NEW p \in Ticks,
         NEW k \in 1 .. Len(queue[side][p]), NEW s, s = queue[side][p][k],
         NEW v \in Nat, 0 < v, v <= pool[s].quantity,
         pool' = [pool EXCEPT ![s].quantity = v],
         levels' = [levels EXCEPT ![side][p].total_quantity = @ - (pool[s].quantity - v)],
         queue' = queue, free_list' = free_list, order_map' = order_map
  PROVE  /\ BookType' /\ Structure' /\ MapSound'
         /\ \A x \in Side, r \in Ticks : levels'[x][r].head = levels[x][r].head
PROOF
  <1> DEFINE q == queue[side][p]
             n == Len(q)
             total == levels[side][p].total_quantity
             reduction == pool[s].quantity - v
  <1>1. q \in Seq(Slots) /\ n \in Nat /\ k \in 1 .. n /\ s = q[k] /\ s \in Slots
        /\ \A i \in 1 .. n : q[i] \in Slots
    BY DEF BookType
  <1>2. /\ pool \in [Slots -> OrderType]
        /\ \A t \in Slots : pool[t] \in OrderType /\ pool[t].quantity \in 0 .. QTY_MOD - 1
    BY DEF BookType, OrderType
  <1>3. /\ pool' \in [Slots -> OrderType]
        /\ pool'[s].quantity = v
        /\ \A t \in Slots \ {s} : pool'[t] = pool[t]
        /\ \A t \in Slots :
             /\ pool'[t].prev = pool[t].prev /\ pool'[t].next = pool[t].next
             /\ pool'[t].side = pool[t].side /\ pool'[t].price = pool[t].price
             /\ pool'[t].id = pool[t].id
    <2>1. v \in 0 .. QTY_MOD - 1
      BY <1>1, <1>2, BookAssumption
    <2>2. pool[s] \in OrderType /\ [pool[s] EXCEPT !.quantity = v] \in OrderType
      BY <1>1, <1>2, <2>1 DEF OrderType
    <2>3. pool'[s] = [pool[s] EXCEPT !.quantity = v] /\ \A t \in Slots \ {s} : pool'[t] = pool[t]
      BY <1>1, <1>2
    <2>4. /\ pool'[s].prev = pool[s].prev /\ pool'[s].next = pool[s].next
          /\ pool'[s].side = pool[s].side /\ pool'[s].price = pool[s].price
          /\ pool'[s].id = pool[s].id /\ pool'[s].quantity = v
      BY <2>2, <2>3, SMTT(30) DEF OrderType
    <2>5. pool' \in [Slots -> OrderType]
      BY <1>1, <1>2, <2>2
    <2> QED BY <2>3, <2>4, <2>5
  <1>4. LevelSound(side, p) /\ PoolPartitioned /\ FreeSound
    BY DEF Structure
  <1>5. /\ SumOf(n, QuantitiesOf(q), total)
        /\ QuantitiesOf(q) \in [1 .. n -> Nat] /\ QuantitiesOf(q)[k] = pool[s].quantity
        /\ NoRepeats(q)
    <2>1. \A i \in 1 .. n : pool[q[i]].quantity \in Nat
      BY <1>1, <1>2, BookAssumption
    <2> QED BY <1>1, <1>4, <2>1 DEF LevelSound, QuantitiesOf
  <1>6. total \in Nat /\ pool[s].quantity \in Nat /\ pool[s].quantity <= total
    <2> DEFINE d == QuantitiesOf(q)
    <2>1. n \in Nat /\ d \in [1 .. n -> Nat] /\ SumOf(n, d, total) /\ k \in 1 .. n
      BY <1>1, <1>5
    <2> HIDE DEF d, n, total
    <2>2. total \in Nat /\ d[k] \in Nat /\ d[k] <= total
      BY <2>1, SumBounds
    <2> QED BY <1>5, <2>2 DEF d
  <1>7. /\ levels'[side][p].total_quantity = total - reduction
        /\ levels'[side][p].head = levels[side][p].head
        /\ levels'[side][p].tail = levels[side][p].tail
        /\ levels'[side][p] \in LevelType
        /\ levels' \in [Side -> [Ticks -> LevelType]]
        /\ \A x \in Side, r \in Ticks : x # side \/ r # p => levels'[x][r] = levels[x][r]
    <2>1. total - reduction \in Nat
      BY <1>6
    <2> DEFINE new == [levels[side][p] EXCEPT !.total_quantity = total - reduction]
    <2>2. levels[side][p] \in LevelType /\ levels \in [Side -> [Ticks -> LevelType]]
      BY DEF BookType
    <2>3. new \in LevelType /\ new.total_quantity = total - reduction
          /\ new.head = levels[side][p].head /\ new.tail = levels[side][p].tail
      BY <2>1, <2>2 DEF LevelType
    <2>4. levels' = [levels EXCEPT ![side][p] = new]
      BY <2>2
    <2> HIDE DEF new
    <2>5. levels'[side][p] = new
          /\ \A x \in Side, r \in Ticks : x # side \/ r # p => levels'[x][r] = levels[x][r]
      BY <2>2, <2>4
    <2>6. levels' \in [Side -> [Ticks -> LevelType]]
      <3>1. new \in LevelType
        BY <2>3
      <3>2. [levels[side] EXCEPT ![p] = new] \in [Ticks -> LevelType]
        BY <2>2, <3>1
      <3>3. levels' = [levels EXCEPT ![side] = [levels[side] EXCEPT ![p] = new]]
        BY <2>2, <2>4
      <3> QED BY <2>2, <3>2, <3>3
    <2> QED BY <2>3, <2>5, <2>6
  <1>8. LevelSound(side, p)'
    <2>1. \A i \in 1 .. n : /\ pool'[q[i]].prev = pool[q[i]].prev
                            /\ pool'[q[i]].next = pool[q[i]].next
                            /\ pool'[q[i]].side = pool[q[i]].side
                            /\ pool'[q[i]].price = pool[q[i]].price
      BY <1>1, <1>3
    <2>2. Linked(side, p)'
      <3>1. /\ levels[side][p].head = IF q = <<>> THEN nullptr ELSE q[1]
            /\ levels[side][p].tail = IF q = <<>> THEN nullptr ELSE q[n]
            /\ \A i \in 1 .. n :
                 /\ pool[q[i]].prev = IF i = 1 THEN nullptr ELSE q[i - 1]
                 /\ pool[q[i]].next = IF i = n THEN nullptr ELSE q[i + 1]
                 /\ pool[q[i]].side = side /\ pool[q[i]].price = p
        BY <1>4 DEF LevelSound, Linked
      <3>2. /\ levels'[side][p].head = IF q = <<>> THEN nullptr ELSE q[1]
            /\ levels'[side][p].tail = IF q = <<>> THEN nullptr ELSE q[n]
        BY <1>7, <3>1
      <3>3. \A i \in 1 .. n :
              /\ pool'[q[i]].prev = IF i = 1 THEN nullptr ELSE q[i - 1]
              /\ pool'[q[i]].next = IF i = n THEN nullptr ELSE q[i + 1]
              /\ pool'[q[i]].side = side /\ pool'[q[i]].price = p
        <4> HIDE DEF q, n
        <4> QED BY <2>1, <3>1, ZenonT(40)
      <3>4. queue'[side][p] = q
        OBVIOUS
      <3> QED BY <3>2, <3>3, <3>4, ZenonT(40) DEF Linked
    <2> DEFINE d == QuantitiesOf(q)
               e == [i \in 1 .. n |-> pool'[q[i]].quantity]
    <2>3. \A i \in 1 .. n : e[i] = IF i = k THEN v ELSE d[i]
      <3> SUFFICES ASSUME NEW i \in 1 .. n PROVE e[i] = IF i = k THEN v ELSE d[i]
        OBVIOUS
      <3>1. CASE i = k
        BY <1>1, <1>3, <3>1
      <3>2. CASE i # k
        <4>1. q[i] \in Slots \ {s}
          BY <1>1, <1>5, <3>2 DEF NoRepeats
        <4> QED BY <1>3, <3>2, <4>1 DEF QuantitiesOf
      <3> QED BY <3>1, <3>2
    <2>4. /\ n \in Nat /\ d \in [1 .. n -> Nat] /\ SumOf(n, d, total) /\ k \in 1 .. n
          /\ d[k] = pool[s].quantity /\ v <= d[k]
      BY <1>1, <1>5
    <2>5. SumOf(n, e, total - (d[k] - v))
      <3> HIDE DEF d, e, n, total
      <3> QED BY <2>3, <2>4, SumReduce
    <2>6. SumOf(n, QuantitiesOf(queue[side][p])', levels'[side][p].total_quantity)
      <3>1. levels'[side][p].total_quantity = total - (d[k] - v)
        BY <1>7, <2>4
      <3>2. QuantitiesOf(queue[side][p])' = e
        BY DEF QuantitiesOf
      <3> QED BY <2>5, <3>1, <3>2
    <2> QED BY <1>5, <2>2, <2>6 DEF LevelSound
  <1>9. ASSUME NEW x \in Side, NEW r \in Ticks PROVE LevelSound(x, r)'
    <2>1. CASE x = side /\ r = p
      BY <1>8, <2>1
    <2>2. CASE x # side \/ r # p
      <3>1. LevelSound(x, r) /\ queue'[x][r] = queue[x][r] /\ levels'[x][r] = levels[x][r]
        BY <1>7, <2>2 DEF Structure
      <3>2. Listed(side, p) \cap Listed(x, r) = {} /\ s \in Listed(side, p)
        BY <1>1, <1>4, <2>2, Neighbours DEF PoolPartitioned
      <3>3. Listed(x, r) \subseteq Slots
        BY EntriesIn DEF BookType, Listed
      <3>4. \A t \in Listed(x, r) : pool'[t] = pool[t]
        BY <1>3, <3>2, <3>3
      <3> QED BY <3>1, <3>4, LevelFrame
    <2> QED BY <2>1, <2>2
  <1>10. FreeSound'
    <2>1. Entries(free_list) \subseteq Slots
      BY EntriesIn DEF BookType
    <2>2. \A t \in Entries(free_list) : pool[t].prev = nullptr /\ pool[t].next = nullptr
      BY <1>4 DEF FreeSound
    <2>3. \A t \in Entries(free_list) : pool'[t].prev = nullptr /\ pool'[t].next = nullptr
      BY <1>3, <2>1, <2>2
    <2> QED BY <2>3 DEF FreeSound
  <1>11. PoolPartitioned'
    BY <1>4 DEF PoolPartitioned, Listed
  <1>12. MapSound'
    <2>1. \A x \in Side, r \in Ticks : Listed(x, r)' = Listed(x, r) /\ Listed(x, r) \subseteq Slots
      BY EntriesIn DEF BookType, Listed
    <2>2. \A t \in Slots : pool'[t].id = pool[t].id
      BY <1>3
    <2>3. ASSUME NEW i \in Ids, order_map[i] # nullptr
          PROVE  /\ \E x \in Side, r \in Ticks : order_map[i] \in Listed(x, r)'
                 /\ pool'[order_map[i]].id = i
      <3>1. PICK x \in Side, r \in Ticks : order_map[i] \in Listed(x, r)
        BY <2>3 DEF MapSound
      <3>2. pool[order_map[i]].id = i
        BY <2>3 DEF MapSound
      <3> QED BY <2>1, <2>2, <3>1, <3>2
    <2>4. ASSUME ~Redelivery, NEW x \in Side, NEW r \in Ticks, NEW t \in Listed(x, r)'
          PROVE  order_map[pool'[t].id] = t
      <3>1. t \in Listed(x, r) /\ t \in Slots
        BY <2>1
      <3>2. order_map[pool[t].id] = t
        BY <2>4, <3>1 DEF MapSound
      <3> QED BY <2>2, <3>1, <3>2
    <2> QED BY <2>3, <2>4, Zenon DEF MapSound
  <1>13. BookType'
    BY <1>3, <1>7 DEF BookType
  <1>14. \A x \in Side, r \in Ticks : levels'[x][r].head = levels[x][r].head
    BY <1>7
  <1> QED BY <1>9, <1>10, <1>11, <1>12, <1>13, <1>14 DEF Structure
-------------------------------------------------------------------------------
\* The end of add_order: the order that joins its level.
LEMMA RestStructure ==
  ASSUME BookType, Structure, MapSound, IncomingUnknown, call \in CallType,
         call.qty < QTY_MOD, Rest, NEW side, side = call.side, NEW p, p = call.price
  PROVE  /\ BookType' /\ Structure' /\ MapSound'
         /\ Occupied(side)' = Occupied(side) \cup {p}
         /\ \A x \in Side \ {side} : Occupied(x)' = Occupied(x)
PROOF
  <1> DEFINE qty == call.qty
             q == queue[side][p]
             n == Len(q)
             level == levels[side][p]
             s == free_list[Len(free_list)]
  <1>1. /\ side \in Side /\ p \in Ticks /\ qty \in Nat /\ qty # 0 /\ call.id \in Ids
        /\ q \in Seq(Slots) /\ n \in Nat /\ (q = <<>> <=> n = 0) /\ free_list # <<>>
        /\ level \in LevelType /\ call.pc # "idle"
        /\ \A i \in 1 .. n : q[i] \in Slots
    <2>1. side \in Side /\ p \in Ticks /\ qty \in Nat /\ call.id \in Ids
      BY DEF CallType
    <2>2. qty # 0 /\ free_list # <<>> /\ call.pc # "idle"
      BY DEF Rest
    <2>3. q \in Seq(Slots) /\ level \in LevelType
      BY <2>1 DEF BookType
    <2>4. q = <<>> <=> n = 0
      BY <2>3, EmptyList
    <2> QED BY <2>1, <2>2, <2>3, <2>4
  <1>2. /\ PoolPartitioned /\ FreeSound /\ LevelSound(side, p)
        /\ \A x \in Side, r \in Ticks : LevelSound(x, r)
    BY <1>1 DEF Structure
  <1>3. /\ s \in Slots /\ s \in Entries(free_list)
        /\ free_list' \in Seq(Slots) /\ NoRepeats(free_list')
        /\ Entries(free_list') = Entries(free_list) \ {s}
    <2>1. /\ free_list \in Seq(Slots) /\ NoRepeats(free_list)
          /\ free_list' = SubSeq(free_list, 1, Len(free_list) - 1)
      BY <1>2 DEF BookType, PoolPartitioned, Rest
    <2> QED BY <1>1, <2>1, FrontCorrect
  <1>4. \A x \in Side, r \in Ticks : s \notin Listed(x, r) /\ Listed(x, r) \subseteq Slots
    <2>1. \A x \in Side, r \in Ticks : s \notin Listed(x, r)
      BY <1>2, <1>3 DEF PoolPartitioned
    <2>2. \A x \in Side, r \in Ticks : Listed(x, r) \subseteq Slots
      BY EntriesIn DEF BookType, Listed
    <2> QED BY <2>1, <2>2
  <1>5. pool[s].prev = nullptr /\ pool[s].next = nullptr
    BY <1>2, <1>3 DEF FreeSound
  <1>6. /\ level.head = IF n = 0 THEN nullptr ELSE q[1]
        /\ level.tail = IF n = 0 THEN nullptr ELSE q[n]
        /\ \A i \in 1 .. n :
             /\ pool[q[i]].prev = IF i = 1 THEN nullptr ELSE q[i - 1]
             /\ pool[q[i]].next = IF i = n THEN nullptr ELSE q[i + 1]
             /\ pool[q[i]].side = side /\ pool[q[i]].price = p
    BY <1>1, <1>2 DEF LevelSound, Linked
  <1>7. /\ level.head = nullptr <=> n = 0
        /\ \A i \in 1 .. n : q[i] \in Listed(side, p) /\ q[i] # s /\ q[i] # nullptr
    <2>1. \A i \in 1 .. n : q[i] \in Listed(side, p)
      BY DEF Listed, Entries
    <2>2. \A i \in 1 .. n : q[i] # s /\ q[i] # nullptr
      BY <1>1, <1>4, <2>1, Constants
    <2>3. n # 0 => q[1] # nullptr
      <3>1. n # 0 => 1 \in 1 .. n
        BY <1>1
      <3> QED BY <2>2, <3>1
    <2>4. level.head = nullptr <=> n = 0
      BY <1>6, <2>3
    <2> QED BY <2>1, <2>2, <2>4
  <1>8. /\ pool' \in [Slots -> OrderType]
        /\ pool'[s].id = call.id /\ pool'[s].price = p /\ pool'[s].side = side
        /\ pool'[s].quantity = qty /\ pool'[s].next = nullptr
        /\ pool'[s].prev = IF n = 0 THEN nullptr ELSE q[n]
        /\ \A t \in Slots \ {s} :
             /\ pool'[t].next = IF n # 0 /\ t = q[n] THEN s ELSE pool[t].next
             /\ pool'[t].prev = pool[t].prev /\ pool'[t].id = pool[t].id
             /\ pool'[t].side = pool[t].side /\ pool'[t].price = pool[t].price
             /\ pool'[t].quantity = pool[t].quantity
    <2> DEFINE new(t) ==
          IF t = s
          THEN [id |-> call.id, price |-> call.price, side |-> call.side,
                quantity |-> call.qty % QTY_MOD, next |-> pool[s].next,
                prev |-> IF level.head = nullptr THEN pool[s].prev ELSE level.tail]
          ELSE [pool[t] EXCEPT !.next =
                  IF level.head # nullptr /\ t = level.tail THEN s ELSE @]
    <2>1. pool' = [t \in Slots |-> new(t)]
      BY DEF Rest
    <2>2. qty \in 0 .. QTY_MOD - 1 /\ call.qty % QTY_MOD = qty
      <3>1. qty \in 0 .. QTY_MOD - 1 /\ QTY_MOD \in Nat \ {0}
        BY <1>1, BookAssumption
      <3> QED BY <3>1, ModSmall, Zenon
    <2>3. new(s) = [id |-> call.id, price |-> p, side |-> side, quantity |-> qty,
                    next |-> nullptr, prev |-> IF n = 0 THEN nullptr ELSE q[n]]
      BY <1>5, <1>6, <1>7, <2>2
    <2>4. new(s) \in OrderType
      <3>1. (IF n = 0 THEN nullptr ELSE q[n]) \in Pointer /\ nullptr \in Pointer
        BY <1>1 DEF Pointer
      <3> QED BY <1>1, <2>2, <2>3, <3>1 DEF OrderType
    <2>5. ASSUME NEW t \in Slots \ {s}
          PROVE  /\ new(t) \in OrderType
                 /\ new(t).next = IF n # 0 /\ t = q[n] THEN s ELSE pool[t].next
                 /\ new(t).prev = pool[t].prev /\ new(t).id = pool[t].id
                 /\ new(t).side = pool[t].side /\ new(t).price = pool[t].price
                 /\ new(t).quantity = pool[t].quantity
      <3>1. pool[t] \in OrderType /\ pool[t].next \in Pointer /\ s \in Pointer
        BY <1>3 DEF BookType, OrderType, Pointer
      <3> DEFINE nx == IF n # 0 /\ t = q[n] THEN s ELSE pool[t].next
      <3>2. new(t) = [pool[t] EXCEPT !.next = nx]
        <4>1. (level.head # nullptr /\ t = level.tail) <=> (n # 0 /\ t = q[n])
          BY <1>6, <1>7
        <4>2. new(t) = [pool[t] EXCEPT !.next =
                          IF level.head # nullptr /\ t = level.tail THEN s ELSE @]
          BY <2>5
        <4> QED BY <4>1, <4>2
      <3>3. nx \in Pointer
        BY <3>1
      <3> HIDE DEF nx, new
      <3>4. /\ new(t) \in OrderType /\ new(t).next = nx
            /\ new(t).prev = pool[t].prev /\ new(t).id = pool[t].id
            /\ new(t).side = pool[t].side /\ new(t).price = pool[t].price
            /\ new(t).quantity = pool[t].quantity
        BY <3>1, <3>2, <3>3 DEF OrderType
      <3> QED BY <3>4 DEF nx
    <2>6. /\ new(s).id = call.id /\ new(s).price = p /\ new(s).side = side
          /\ new(s).quantity = qty /\ new(s).next = nullptr
          /\ new(s).prev = IF n = 0 THEN nullptr ELSE q[n]
      BY <2>3
    <2> HIDE DEF new
    <2>7. \A t \in Slots : pool'[t] = new(t)
      BY <2>1
    <2>8. pool' \in [Slots -> OrderType]
      BY <1>3, <2>1, <2>4, <2>5
    <2> QED BY <1>3, <2>5, <2>6, <2>7, <2>8
  <1>9. /\ queue' = [queue EXCEPT ![side][p] = Append(q, s)]
        /\ queue'[side][p] = Append(q, s)
        /\ \A x \in Side, r \in Ticks : x # side \/ r # p => queue'[x][r] = queue[x][r]
    BY <1>1 DEF Rest, BookType
  <1>10. /\ queue'[side][p] \in Seq(Slots) /\ Len(queue'[side][p]) = n + 1
         /\ \A i \in 1 .. n : queue'[side][p][i] = q[i]
         /\ queue'[side][p][n + 1] = s
         /\ Entries(queue'[side][p]) = Listed(side, p) \cup {s}
         /\ NoRepeats(queue'[side][p])
    <2>1. NoRepeats(q) /\ s \notin Entries(q)
      BY <1>1, <1>2, <1>4 DEF LevelSound, Listed
    <2> DEFINE more == queue'[side][p]
    <2>2. more = Append(q, s) /\ q \in Seq(Slots) /\ s \in Slots
      BY <1>1, <1>3, <1>9
    <2>3. /\ more \in Seq(Slots) /\ Len(more) = Len(q) + 1
          /\ \A i \in 1 .. Len(q) : more[i] = q[i]
          /\ more[Len(q) + 1] = s
          /\ Entries(more) = Entries(q) \cup {s}
          /\ NoRepeats(more)
      <3> HIDE DEF s, q
      <3> QED BY <2>1, <2>2, AppendCorrect
    <2> QED BY <2>3 DEF Listed
  <1>11. /\ levels' = [levels EXCEPT ![side][p] =
                         [head |-> IF level.head = nullptr THEN s ELSE level.head, tail |-> s,
                          total_quantity |-> level.total_quantity + qty]]
         /\ levels'[side][p].head = IF n = 0 THEN s ELSE q[1]
         /\ levels'[side][p].tail = s
         /\ levels'[side][p].total_quantity = level.total_quantity + qty
         /\ \A x \in Side, r \in Ticks : x # side \/ r # p => levels'[x][r] = levels[x][r]
    <2> DEFINE new == [head |-> IF level.head = nullptr THEN s ELSE level.head, tail |-> s,
                       total_quantity |-> level.total_quantity + qty]
    <2>1. levels' = [levels EXCEPT ![side][p] = new]
      BY DEF Rest
    <2>2. /\ new.head = IF n = 0 THEN s ELSE q[1]
          /\ new.tail = s /\ new.total_quantity = level.total_quantity + qty
      BY <1>6, <1>7
    <2>3. levels \in [Side -> [Ticks -> LevelType]]
      BY DEF BookType
    <2> HIDE DEF new
    <2>4. levels'[side][p] = new
          /\ \A x \in Side, r \in Ticks : x # side \/ r # p => levels'[x][r] = levels[x][r]
      BY <1>1, <2>1, <2>3
    <2> QED BY <2>1, <2>2, <2>4 DEF new
  <1> HIDE DEF s
  <1>12. Linked(side, p)'
    <2> DEFINE new == queue'[side][p]
    <2>1. ASSUME NEW i \in 1 .. n + 1
          PROVE  /\ pool'[new[i]].prev = IF i = 1 THEN nullptr ELSE new[i - 1]
                 /\ pool'[new[i]].next = IF i = n + 1 THEN nullptr ELSE new[i + 1]
                 /\ pool'[new[i]].side = side /\ pool'[new[i]].price = p
      <3>1. CASE i = n + 1
        <4>1. new[i] = s /\ (i # 1 <=> n # 0) /\ (i # 1 => i - 1 = n /\ n \in 1 .. n)
          BY <1>1, <1>10, <3>1
        <4>2. i # 1 => new[i - 1] = q[n]
          BY <1>10, <4>1
        <4> QED BY <1>8, <3>1, <4>1, <4>2
      <3>2. CASE i # n + 1
        <4>1. i \in 1 .. n /\ (i # 1 => i - 1 \in 1 .. n) /\ (i # n => i + 1 \in 1 .. n) /\ n # 0
          <5> HIDE DEF n
          <5> QED BY <1>1, <3>2
        <4>2. new[i] = q[i] /\ (i # 1 => new[i - 1] = q[i - 1]) /\ (i # n => new[i + 1] = q[i + 1])
              /\ (i = n => new[i + 1] = s)
          BY <1>10, <4>1
        <4>3. q[i] \in Slots \ {s} /\ (q[i] = q[n] <=> i = n)
          <5>1. n \in 1 .. n
            BY <1>1, <4>1
          <5>2. NoRepeats(q)
            BY <1>2 DEF LevelSound
          <5> QED BY <1>1, <1>7, <4>1, <5>1, <5>2 DEF NoRepeats
        <4>4. /\ pool'[q[i]].next = IF i = n THEN s ELSE pool[q[i]].next
              /\ pool'[q[i]].prev = pool[q[i]].prev
              /\ pool'[q[i]].side = pool[q[i]].side /\ pool'[q[i]].price = pool[q[i]].price
          BY <1>8, <4>1, <4>3
        <4>5. /\ pool[q[i]].prev = IF i = 1 THEN nullptr ELSE q[i - 1]
              /\ pool[q[i]].next = IF i = n THEN nullptr ELSE q[i + 1]
              /\ pool[q[i]].side = side /\ pool[q[i]].price = p
          BY <1>6, <4>1
        <4> HIDE DEF new, q, n
        <4>6. pool'[q[i]].next = new[i + 1]
          BY <4>2, <4>4, <4>5
        <4>7. pool'[q[i]].prev = IF i = 1 THEN nullptr ELSE new[i - 1]
          BY <4>2, <4>4, <4>5
        <4> QED BY <3>2, <4>2, <4>4, <4>5, <4>6, <4>7
      <3> QED BY <3>1, <3>2
    <2>2. new # <<>>
      BY <1>1, <1>10, EmptyList
    <2>3. Len(new) = n + 1
      BY <1>10
    <2>4. levels'[side][p].head = new[1]
      <3>1. n = 0 => new[1] = s
        BY <1>10
      <3>2. n # 0 => 1 \in 1 .. n
        BY <1>1
      <3> QED BY <1>10, <1>11, <3>1, <3>2
    <2>5. levels'[side][p].tail = new[n + 1]
      BY <1>10, <1>11
    <2>6. /\ levels'[side][p].head = IF new = <<>> THEN nullptr ELSE new[1]
          /\ levels'[side][p].tail = IF new = <<>> THEN nullptr ELSE new[Len(new)]
      BY <2>2, <2>3, <2>4, <2>5
    <2>7. \A i \in 1 .. Len(new) :
            /\ pool'[new[i]].prev = IF i = 1 THEN nullptr ELSE new[i - 1]
            /\ pool'[new[i]].next = IF i = Len(new) THEN nullptr ELSE new[i + 1]
            /\ pool'[new[i]].side = side /\ pool'[new[i]].price = p
      BY <2>1, <2>3, SMTT(30)
    <2> QED BY <2>6, <2>7, Zenon DEF Linked
  <1>13. SumOf(n + 1, QuantitiesOf(queue[side][p])', level.total_quantity + qty)
    <2> DEFINE d == QuantitiesOf(q)
               e == [i \in 1 .. n + 1 |-> pool'[queue'[side][p][i]].quantity]
    <2>1. SumOf(n, d, level.total_quantity)
      BY <1>2 DEF LevelSound
    <2>2. \A t \in Slots : pool[t].quantity \in Nat /\ pool'[t].quantity \in Nat
      <3>1. \A t \in Slots : pool[t].quantity \in 0 .. QTY_MOD - 1
                             /\ pool'[t].quantity \in 0 .. QTY_MOD - 1
        BY <1>8 DEF BookType, OrderType
      <3> QED BY <3>1, BookAssumption
    <2>3. d \in [1 .. n -> Nat]
      BY <1>1, <2>2 DEF QuantitiesOf
    <2>4. e \in [1 .. n + 1 -> Nat]
      <3>1. \A i \in 1 .. n + 1 : queue'[side][p][i] \in Slots
        BY <1>10
      <3> QED BY <2>2, <3>1
    <2>5. \A i \in 1 .. n : e[i] = d[i]
      <3> SUFFICES ASSUME NEW i \in 1 .. n PROVE e[i] = d[i]
        OBVIOUS
      <3>1. i \in 1 .. n + 1 /\ queue'[side][p][i] = q[i] /\ q[i] \in Slots \ {s}
        BY <1>1, <1>7, <1>10
      <3>2. pool'[q[i]].quantity = pool[q[i]].quantity
        BY <1>8, <3>1
      <3> QED BY <3>1, <3>2 DEF QuantitiesOf
    <2>6. e[n + 1] = qty /\ 0 < e[n + 1]
      <3>1. n + 1 \in 1 .. n + 1
        BY <1>1
      <3>2. e[n + 1] = qty
        BY <1>8, <1>10, <3>1
      <3> HIDE DEF e
      <3> QED BY <1>1, <3>2
    <2>7. SumOf(n + 1, e, level.total_quantity + e[n + 1])
      <3> DEFINE total == level.total_quantity
      <3>1. SumOf(n, d, total)
        BY <2>1
      <3> HIDE DEF total, d, e, n
      <3>2. SumOf(n + 1, e, total + e[n + 1])
        BY <1>1, <2>3, <2>4, <2>5, <2>6, <3>1, SumAppend
      <3> QED BY <3>2 DEF total
    <2>8. QuantitiesOf(queue[side][p])' = e
      BY <1>10 DEF QuantitiesOf
    <2> QED BY <2>6, <2>7, <2>8
  <1>14. LevelSound(side, p)'
    BY <1>10, <1>11, <1>12, <1>13 DEF LevelSound
  <1>15. ASSUME NEW x \in Side, NEW r \in Ticks PROVE LevelSound(x, r)'
    <2>1. CASE x = side /\ r = p
      BY <1>14, <2>1
    <2>2. CASE x # side \/ r # p
      <3>1. LevelSound(x, r) /\ queue'[x][r] = queue[x][r] /\ levels'[x][r] = levels[x][r]
        BY <1>2, <1>9, <1>11, <2>2
      <3>2. Listed(side, p) \cap Listed(x, r) = {}
        BY <1>1, <1>2, <2>2 DEF PoolPartitioned
      <3>3. n # 0 => q[n] \in Listed(side, p)
        BY <1>1, <1>7
      <3>4. \A t \in Listed(x, r) : /\ pool'[t].next = pool[t].next
                                    /\ pool'[t].prev = pool[t].prev
                                    /\ pool'[t].side = pool[t].side
                                    /\ pool'[t].price = pool[t].price
                                    /\ pool'[t].quantity = pool[t].quantity
        BY <1>4, <1>8, <3>2, <3>3
      <3> QED BY <3>1, <3>4, LevelFrame
    <2> QED BY <2>1, <2>2
  <1>16. BookType'
    <2>1. levels' \in [Side -> [Ticks -> LevelType]]
      <3> DEFINE new == [head |-> IF level.head = nullptr THEN s ELSE level.head, tail |-> s,
                         total_quantity |-> level.total_quantity + qty]
      <3>1. new \in LevelType
        <4>1. s \in Pointer /\ level.head \in Pointer /\ level.total_quantity + qty \in Nat
          BY <1>1, <1>3 DEF LevelType, Pointer
        <4> QED BY <4>1 DEF LevelType
      <3> HIDE DEF new
      <3>2. levels' = [levels EXCEPT ![side][p] = new]
        BY <1>11 DEF new
      <3> QED BY <1>1, <3>1, <3>2 DEF BookType
    <2>2. order_map' \in [Ids -> Pointer]
      BY <1>1, <1>3 DEF Rest, BookType, Pointer, s
    <2>3. queue' \in [Side -> [Ticks -> Seq(Slots)]]
      <3> DEFINE more == queue'[side][p]
      <3>1. queue' = [queue EXCEPT ![side][p] = more] /\ more \in Seq(Slots)
        BY <1>9, <1>10
      <3>2. queue \in [Side -> [Ticks -> Seq(Slots)]]
        BY DEF BookType
      <3> HIDE DEF more
      <3>3. [queue[side] EXCEPT ![p] = more] \in [Ticks -> Seq(Slots)]
        BY <1>1, <3>1, <3>2
      <3>4. queue' = [queue EXCEPT ![side] = [queue[side] EXCEPT ![p] = more]]
        BY <1>1, <3>1, <3>2
      <3> QED BY <1>1, <3>2, <3>3, <3>4
    <2> QED BY <1>3, <1>8, <2>1, <2>2, <2>3 DEF BookType
  <1>17. /\ Entries(queue'[side][p]) = Listed(side, p) \cup {s}
         /\ \A x \in Side, r \in Ticks : x # side \/ r # p => Entries(queue'[x][r]) = Listed(x, r)
    BY <1>9, <1>10 DEF Listed
  <1>18. FreeSound'
    <2> SUFFICES ASSUME NEW t \in Entries(free_list')
                 PROVE  pool'[t].prev = nullptr /\ pool'[t].next = nullptr
      BY DEF FreeSound
    <2>1. t \in Entries(free_list) /\ t \in Slots \ {s}
      BY <1>3, EntriesIn
    <2>2. t \notin Listed(side, p) /\ pool[t].prev = nullptr /\ pool[t].next = nullptr
      BY <1>1, <1>2, <2>1 DEF PoolPartitioned, FreeSound
    <2>3. n # 0 => q[n] \in Listed(side, p)
      BY <1>1, <1>7
    <2> QED BY <1>8, <2>1, <2>2, <2>3
  <1>19. PoolPartitioned'
    <2>1. ASSUME NEW x \in Side, NEW r \in Ticks
          PROVE  /\ NoRepeats(queue'[x][r])
                 /\ Entries(queue'[x][r]) \cap Entries(free_list') = {}
      <3>1. NoRepeats(queue'[x][r])
        BY <1>15 DEF LevelSound
      <3>2. Listed(x, r) \cap Entries(free_list) = {}
        BY <1>2 DEF PoolPartitioned
      <3> QED BY <1>3, <1>17, <3>1, <3>2
    <2>2. ASSUME NEW x \in Side, NEW r \in Ticks, NEW y \in Side, NEW u \in Ticks,
                 y # x \/ u # r
          PROVE  Entries(queue'[x][r]) \cap Entries(queue'[y][u]) = {}
      <3>1. Listed(x, r) \cap Listed(y, u) = {}
        BY <1>2, <2>2 DEF PoolPartitioned
      <3>2. s \notin Listed(x, r) /\ s \notin Listed(y, u)
        BY <1>4
      <3> QED BY <1>17, <2>2, <3>1, <3>2
    <2>3. ASSUME NEW t \in Slots
          PROVE  \/ t \in Entries(free_list')
                 \/ \E x \in Side, r \in Ticks : t \in Entries(queue'[x][r])
      <3>1. CASE t = s
        BY <1>1, <1>17, <3>1
      <3>2. CASE t # s /\ t \in Entries(free_list)
        BY <1>3, <3>2
      <3>3. CASE t # s /\ t \notin Entries(free_list)
        <4>1. PICK x \in Side, r \in Ticks : t \in Listed(x, r)
          BY <1>2, <3>3 DEF PoolPartitioned
        <4>2. t \in Entries(queue'[x][r])
          BY <1>17, <4>1
        <4> QED BY <4>2
      <3> QED BY <3>1, <3>2, <3>3
    <2>4. NoRepeats(free_list')
      BY <1>3
    <2> QED BY <2>1, <2>2, <2>3, <2>4, Zenon DEF PoolPartitioned, Listed
  <1>20. MapSound'
    <2>1. order_map'[call.id] = s /\ \A i \in Ids \ {call.id} : order_map'[i] = order_map[i]
      BY <1>1 DEF Rest, BookType, s
    <2>2. \A t \in Slots \ {s} : pool'[t].id = pool[t].id /\ pool[t].id \in Ids
      BY <1>8 DEF BookType, OrderType
    <2>3. ASSUME NEW i \in Ids, order_map'[i] # nullptr
          PROVE  /\ \E x \in Side, r \in Ticks : order_map'[i] \in Entries(queue'[x][r])
                 /\ pool'[order_map'[i]].id = i
      <3>1. CASE i = call.id
        BY <1>1, <1>8, <1>17, <2>1, <3>1
      <3>2. CASE i # call.id
        <4>1. order_map'[i] = order_map[i]
          BY <2>1, <3>2
        <4>2. PICK x \in Side, r \in Ticks : order_map[i] \in Listed(x, r)
          BY <2>3, <4>1 DEF MapSound
        <4>3. pool[order_map[i]].id = i
          BY <2>3, <4>1 DEF MapSound
        <4>4. order_map[i] \in Entries(queue'[x][r])
          BY <1>17, <4>2
        <4>5. order_map[i] \in Slots \ {s}
          BY <1>4, <4>2
        <4> QED BY <2>2, <4>1, <4>3, <4>4, <4>5
      <3> QED BY <3>1, <3>2
    <2>4. ASSUME ~Redelivery, NEW x \in Side, NEW r \in Ticks, NEW t \in Entries(queue'[x][r])
          PROVE  order_map'[pool'[t].id] = t
      <3>1. CASE t = s
        BY <1>8, <2>1, <3>1
      <3>2. CASE t # s
        <4>1. t \in Listed(x, r) /\ t \in Slots \ {s}
          BY <1>4, <1>17, <3>2
        <4>2. order_map[pool[t].id] = t
          BY <2>4, <4>1 DEF MapSound
        <4>3. order_map[call.id] = nullptr /\ t # nullptr
          BY <1>1, <2>4, <4>1, Constants DEF IncomingUnknown
        <4>4. pool'[t].id = pool[t].id /\ pool[t].id \in Ids \ {call.id}
          BY <2>2, <4>1, <4>2, <4>3
        <4> QED BY <2>1, <4>2, <4>4
      <3> QED BY <3>1, <3>2
    <2> QED BY <2>3, <2>4, Zenon DEF MapSound, Listed
  <1>21. /\ Occupied(side)' = Occupied(side) \cup {p}
         /\ \A x \in Side \ {side} : Occupied(x)' = Occupied(x)
    <2>1. queue'[side][p] # <<>>
      BY <1>1, <1>10, EmptyList
    <2> QED BY <1>1, <1>9, <2>1 DEF Occupied
  <1> QED BY <1>15, <1>16, <1>18, <1>19, <1>20, <1>21 DEF Structure
-------------------------------------------------------------------------------
\* Steps that leave the book alone leave its invariants alone.
LEMMA StructureSame ==
  ASSUME Structure, UNCHANGED <<pool, free_list, levels, queue>>
  PROVE  Structure' /\ \A x \in Side : Occupied(x)' = Occupied(x)
PROOF
  <1>1. PoolPartitioned'
    BY Zenon DEF Structure, PoolPartitioned, Listed
  <1>2. ASSUME NEW side \in Side, NEW p \in Ticks PROVE LevelSound(side, p)'
    <2>1. LevelSound(side, p)
      BY DEF Structure
    <2>2. Linked(side, p)'
      BY <2>1 DEF LevelSound, Linked
    <2>3. QuantitiesOf(queue[side][p])' = QuantitiesOf(queue[side][p])
      BY DEF QuantitiesOf
    <2> QED BY <2>1, <2>2, <2>3 DEF LevelSound
  <1>3. FreeSound'
    BY Zenon DEF Structure, FreeSound
  <1> QED BY <1>1, <1>2, <1>3, Zenon DEF Structure, Occupied

\* order_map stays sound while the orders and the lists stay the same.
LEMMA MapSame ==
  ASSUME MapSound, UNCHANGED <<pool, order_map, queue>>
  PROVE  MapSound'
  BY Zenon DEF MapSound, Listed

\* The invariant between sweeps.
Exact == /\ BookType /\ BitsType /\ Structure /\ Cached /\ MapSound /\ NeverCrossed
         /\ \A side \in Side : Members(price_bits[side]) = Occupied(side)

\* What the invariant says, in the parts that the lemmas use.
LEMMA FromInvariant ==
  ASSUME IndInv
  PROVE  /\ BookType /\ BitsType /\ Structure /\ Cached /\ MapSound /\ NeverCrossed
         /\ call \in CallType
         /\ call.pc # "sweep" => Exact
  BY Zenon DEF IndInv, TypeOK, BookType, BitsType, BitsSound, Cached, Exact

\* Outside a sweep those parts make up the invariant.
LEMMA ToInvariant ==
  ASSUME Exact', call' \in CallType, call'.pc # "sweep", call'.qty < QTY_MOD, IncomingUnknown'
  PROVE  IndInv'
  BY Zenon DEF IndInv, TypeOK, BookType, BitsType, BitsSound, Cached, Exact

\* Steps that leave the book alone leave it exact.
LEMMA ExactSame ==
  ASSUME Exact, UNCHANGED book
  PROVE  Exact'
PROOF
  <1>1. /\ pool' = pool /\ free_list' = free_list /\ levels' = levels /\ queue' = queue
        /\ order_map' = order_map /\ price_bits' = price_bits /\ best' = best
    BY DEF book
  <1>2. Structure' /\ \A x \in Side : Occupied(x)' = Occupied(x)
    BY <1>1, StructureSame DEF Exact
  <1>3. MapSound'
    BY <1>1, MapSame DEF Exact
  <1>4. BookType' /\ BitsType' /\ Cached'
    BY <1>1 DEF Exact, BookType, BitsType, Cached
  <1>5. NeverCrossed'
    BY <1>2 DEF Exact, NeverCrossed, Side
  <1>6. \A side \in Side : Members(price_bits'[side]) = Occupied(side)'
    BY <1>1, <1>2 DEF Exact
  <1> QED BY <1>2, <1>3, <1>4, <1>5, <1>6 DEF Exact

\* An empty book.
LEMMA InitCorrect == Init => IndInv
PROOF
  <1> SUFFICES ASSUME Init PROVE IndInv
    OBVIOUS
  <1> USE DEF Init
  <1>1. /\ NoBits \in BitSetType /\ Summarised(NoBits) /\ Members(NoBits) = {}
        /\ get_highest(NoBits) = 0 /\ get_lowest(NoBits) = UINT32_MAX
    BY NoBitsCorrect, ScanCorrect
  <1>2. /\ 0 \in Ticks /\ 0 \in Ids /\ 0 \in Nat /\ FreeOrder \in OrderType
        /\ nullptr \in Pointer /\ MAX_ORDERS \in Nat
    BY Constants, BookAssumption DEF Pointer
  <1>3. /\ free_list \in Seq(Slots) /\ Len(free_list) = MAX_ORDERS
        /\ \A i \in 1 .. MAX_ORDERS : free_list[i] = i
    BY <1>2 DEF Slots
  <1>4. \A x \in Side, r \in Ticks : queue[x][r] = <<>> /\ levels[x][r] = EmptyLevel
    OBVIOUS
  <1>5. TypeOK
    <2>1. pool \in [Slots -> OrderType] /\ order_map \in [Ids -> Pointer]
      BY <1>2
    <2>2. levels \in [Side -> [Ticks -> LevelType]]
      BY <1>2 DEF EmptyLevel, LevelType
    <2>3. price_bits \in [Side -> BitSetType]
      BY <1>1
    <2>4. best \in [Side -> Ticks \cup {UINT32_MAX}]
      BY <1>2
    <2>5. call \in CallType
      BY <1>2 DEF NoCall, CallType, Side
    <2>6. queue \in [Side -> [Ticks -> Seq(Slots)]]
      <3>1. <<>> \in Seq(Slots)
        OBVIOUS
      <3> QED BY <3>1
    <2> QED BY <1>3, <2>1, <2>2, <2>3, <2>4, <2>5, <2>6 DEF TypeOK
  <1>6. \A x \in Side, r \in Ticks : Listed(x, r) = {}
    BY <1>4 DEF Listed, Entries
  <1>7. Structure
    <2>1. NoRepeats(free_list) /\ \A t \in Slots : t \in Entries(free_list)
      BY <1>3 DEF NoRepeats, Entries, Slots
    <2>2. \A x \in Side, r \in Ticks : NoRepeats(queue[x][r])
      BY <1>4 DEF NoRepeats
    <2>3. PoolPartitioned
      BY <1>6, <2>1, <2>2 DEF PoolPartitioned
    <2>4. ASSUME NEW x \in Side, NEW r \in Ticks PROVE LevelSound(x, r)
      <3>1. Linked(x, r)
        BY <1>4 DEF Linked, EmptyLevel
      <3>2. Len(queue[x][r]) = 0 /\ levels[x][r].total_quantity = 0
        BY <1>4 DEF EmptyLevel
      <3> QED BY <2>2, <3>1, <3>2, SumNone DEF LevelSound
    <2>5. FreeSound
      <3>1. Entries(free_list) \subseteq Slots
        BY <1>3, EntriesIn
      <3> QED BY <3>1 DEF FreeSound, FreeOrder
    <2> QED BY <2>3, <2>4, <2>5 DEF Structure
  <1>8. \A x \in Side : Occupied(x) = {}
    BY <1>4 DEF Occupied
  <1>9. BitsSound
    BY <1>1, <1>8 DEF BitsSound, NoCall, Side
  <1>10. MapSound /\ IncomingUnknown /\ NeverCrossed
    BY <1>6, <1>8 DEF MapSound, IncomingUnknown, NeverCrossed, NoCall, Side
  <1>11. call.qty < QTY_MOD
    BY BookAssumption DEF NoCall
  <1> QED BY <1>5, <1>7, <1>9, <1>10, <1>11 DEF IndInv
-------------------------------------------------------------------------------
\* The calls, one by one.
LEMMA AddOrderCorrect ==
  ASSUME QuantitiesFit, IndInv, NEW id \in Ids, NEW price \in Prices, NEW qty \in Quantities,
         NEW side \in Side, AddOrder(id, price, qty, side)
  PROVE  IndInv'
PROOF
  <1>1. call.pc = "idle" /\ UNCHANGED book /\ (Redelivery \/ order_map[id] = nullptr)
    BY DEF AddOrder
  <1>2. Exact'
    BY <1>1, FromInvariant, ExactSame
  <1>3. call' = [pc |-> "match", id |-> id, price |-> price, qty |-> qty, side |-> side,
                 resting |-> nullptr]
    BY DEF AddOrder, StartMatch
  <1>4. qty \in Nat /\ qty < QTY_MOD /\ price \in Ticks /\ nullptr \in Pointer
    BY BookAssumption DEF QuantitiesFit, Pointer
  <1>5. call' \in CallType /\ call'.pc # "sweep" /\ call'.qty < QTY_MOD
    BY <1>3, <1>4 DEF CallType
  <1>6. IncomingUnknown'
    BY <1>1, <1>3 DEF IncomingUnknown, book
  <1> QED BY <1>2, <1>5, <1>6, ToInvariant

\* cancel_order, and modify_order to zero.
LEMMA CancelCorrect ==
  ASSUME IndInv, NEW id \in Ids, call.pc = "idle", order_map[id] # nullptr, Remove(id),
         UNCHANGED call
  PROVE  IndInv'
PROOF
  <1>1. Exact /\ call \in CallType
    BY FromInvariant
  <1>2. Exact'
    BY <1>1, RemoveCorrect DEF Exact
  <1>3. call' \in CallType /\ call'.pc # "sweep" /\ call'.qty < QTY_MOD /\ IncomingUnknown'
    BY <1>1 DEF IndInv, IncomingUnknown
  <1> QED BY <1>2, <1>3, ToInvariant

\* modify_order, when it cancels and adds.
LEMMA ModifyReplaceCorrect ==
  ASSUME QuantitiesFit, IndInv, NEW id \in Ids, NEW price \in Prices, NEW qty \in Quantities,
         ModifyReplace(id, price, qty)
  PROVE  IndInv'
PROOF
  <1>1. Exact /\ order_map[id] # nullptr /\ Remove(id)
    BY FromInvariant DEF ModifyReplace
  <1>2. Exact' /\ order_map'[id] = nullptr
    BY <1>1, RemoveCorrect DEF Exact
  <1> DEFINE side == pool[order_map[id]].side
  <1>3. call' = [pc |-> "match", id |-> id, price |-> price, qty |-> qty, side |-> side,
                 resting |-> nullptr]
    BY DEF ModifyReplace, StartMatch
  <1>4. side \in Side
    <2>1. order_map[id] \in Slots
      BY <1>1 DEF Exact, BookType, Pointer
    <2> QED BY <1>1, <2>1 DEF Exact, BookType, OrderType
  <1>5. qty \in Nat /\ qty < QTY_MOD /\ price \in Ticks /\ nullptr \in Pointer
    BY BookAssumption DEF QuantitiesFit, Pointer
  <1> HIDE DEF side
  <1>6. call' \in CallType /\ call'.pc # "sweep" /\ call'.qty < QTY_MOD
    BY <1>3, <1>4, <1>5 DEF CallType
  <1>7. IncomingUnknown'
    BY <1>2, <1>3 DEF IncomingUnknown
  <1> QED BY <1>2, <1>6, <1>7, ToInvariant

\* modify_order, when it only lowers the quantity.
LEMMA ModifyInPlaceCorrect ==
  ASSUME IndInv, NEW id \in Ids, NEW price \in Prices, NEW qty \in Quantities,
         ModifyInPlace(id, price, qty)
  PROVE  IndInv'
PROOF
  <1> DEFINE s == order_map[id]
  <1>1. /\ s # nullptr /\ call.pc = "idle" /\ ~(qty > pool[s].quantity) /\ qty # 0
        /\ pool' = [pool EXCEPT ![s].quantity = qty]
        /\ levels' = [levels EXCEPT ![pool[s].side][pool[s].price].total_quantity =
                        @ - (pool[s].quantity - qty)]
        /\ UNCHANGED <<free_list, order_map, price_bits, best, call, queue>>
    BY DEF ModifyInPlace, Replaces, QtyReduction
  <1>2. Exact /\ call \in CallType
    BY <1>1, FromInvariant
  <1>3. PICK side \in Side, p \in Ticks : \E k \in 1 .. Len(queue[side][p]) :
          /\ s = queue[side][p][k]
          /\ pool[s].side = side /\ pool[s].price = p /\ pool[s].id = id
    <2>1. BookType /\ Structure /\ MapSound
      BY <1>2 DEF Exact
    <2>2. order_map[id] # nullptr
      BY <1>1
    <2> QED BY <2>1, <2>2, Found
  <1>4. PICK k \in 1 .. Len(queue[side][p]) :
          /\ s = queue[side][p][k] /\ pool[s].side = side /\ pool[s].price = p
    BY <1>3
  <1>5. s \in Slots /\ pool[s].quantity \in Nat
    <2>1. s \in Slots
      BY <1>1, <1>2 DEF Exact, BookType, Pointer
    <2>2. pool[s].quantity \in 0 .. QTY_MOD - 1
      BY <1>2, <2>1 DEF Exact, BookType, OrderType
    <2> QED BY <2>1, <2>2, BookAssumption
  <1>6. qty \in Nat /\ 0 < qty /\ qty <= pool[s].quantity
    <2>1. qty \in Nat
      BY BookAssumption
    <2>2. ~(qty > pool[s].quantity) /\ qty # 0
      BY <1>1
    <2> HIDE DEF s
    <2> QED BY <1>5, <2>1, <2>2
  <1>7. levels' = [levels EXCEPT ![side][p].total_quantity = @ - (pool[s].quantity - qty)]
    BY <1>1, <1>4
  <1> HIDE DEF s
  <1>8. BookType' /\ Structure' /\ MapSound'
    <2>1. /\ BookType /\ Structure /\ MapSound
          /\ queue' = queue /\ free_list' = free_list /\ order_map' = order_map
          /\ pool' = [pool EXCEPT ![s].quantity = qty] /\ s = queue[side][p][k]
      BY <1>1, <1>2, <1>4 DEF Exact
    <2> QED BY <1>6, <1>7, <2>1, ReduceCorrect
  <1>9. \A x \in Side : Occupied(x)' = Occupied(x)
    BY <1>1 DEF Occupied
  <1>10. BitsType' /\ Cached' /\ NeverCrossed'
         /\ \A x \in Side : Members(price_bits'[x]) = Occupied(x)'
    BY <1>1, <1>2, <1>9 DEF Exact, BitsType, Cached, NeverCrossed, Side
  <1>11. call' \in CallType /\ call'.pc # "sweep" /\ call'.qty < QTY_MOD /\ IncomingUnknown'
    BY <1>1, <1>2 DEF IndInv, IncomingUnknown
  <1>12. Exact'
    BY <1>8, <1>10 DEF Exact
  <1> QED BY <1>11, <1>12, ToInvariant

\* A call that returns with nothing to add to the book.
LEMMA ReturnCorrect ==
  ASSUME IndInv, Return
  PROVE  IndInv'
PROOF
  <1>1. call.pc # "sweep" /\ UNCHANGED book /\ call' = NoCall
    BY DEF Return
  <1>2. Exact'
    BY <1>1, FromInvariant, ExactSame
  <1>3. call' \in CallType /\ call'.pc = "idle" /\ call'.qty < QTY_MOD
    BY <1>1, Constants, BookAssumption DEF NoCall, CallType, Side, Pointer
  <1>4. IncomingUnknown'
    BY <1>3 DEF IncomingUnknown
  <1> QED BY <1>2, <1>3, <1>4, ToInvariant
-------------------------------------------------------------------------------
\* The steps of match_order.
LEMMA StartSweepCorrect ==
  ASSUME IndInv, StartSweep
  PROVE  IndInv'
PROOF
  <1>1. /\ call.pc = "match" /\ IsMatch /\ UNCHANGED book
        /\ call' = [call EXCEPT !.pc = "sweep", !.resting = levels[opposite][best[opposite]].head]
    BY DEF StartSweep, Matching
  <1>2. Exact /\ call \in CallType
    BY <1>1, FromInvariant
  <1>3. Exact'
    BY <1>1, <1>2, ExactSame
  <1>4. opposite \in Side /\ best[opposite] \in Ticks
    <2>1. call.side \in Side /\ call.price \in Ticks
      BY <1>2 DEF CallType
    <2>2. CASE call.side = "B"
      <3>1. opposite = "S" /\ "S" \in Side /\ call.price >= best["S"]
        BY <1>1, <2>2 DEF opposite, Opposite, IsMatch, Side
      <3>2. best["S"] \in Ticks \cup {UINT32_MAX}
        BY <1>2, <3>1 DEF Exact, BitsType
      <3>3. best["S"] # UINT32_MAX
        BY <2>1, <3>1, Constants, TicksAssumption
      <3> QED BY <3>1, <3>2, <3>3
    <2>3. CASE call.side # "B"
      <3>1. opposite = "B" /\ "B" \in Side
        BY <2>1, <2>3 DEF opposite, Opposite, Side
      <3>2. price_bits["B"] \in BitSetType /\ Summarised(price_bits["B"])
            /\ best["B"] = get_highest(price_bits["B"])
        BY <1>2, <3>1 DEF Exact, BitsType, Cached
      <3> QED BY <3>1, <3>2, ScanType
    <2> QED BY <2>2, <2>3
  <1>5. /\ call' \in CallType /\ call'.pc = "sweep" /\ call'.qty = call.qty
        /\ call'.id = call.id /\ call'.side = call.side
        /\ call'.resting = levels[opposite][best[opposite]].head
    <2>1. levels[opposite][best[opposite]].head \in Pointer
      BY <1>2, <1>4 DEF Exact, BookType, LevelType
    <2> QED BY <1>1, <1>2, <2>1 DEF CallType
  <1>6. opposite' = opposite
    BY <1>5 DEF opposite
  <1>7. BitsSound'
    <2>1. /\ best' = best /\ levels' = levels
          /\ \A side \in Side : Members(price_bits'[side]) = Occupied(side)'
      BY <1>1, <1>3 DEF book, Exact
    <2>2. /\ best'[opposite'] \in Ticks
          /\ call'.resting = levels'[opposite'][best'[opposite']].head
      BY <1>4, <1>5, <1>6, <2>1
    <2>3. /\ Occupied(opposite)' \subseteq Members(price_bits'[opposite'])
          /\ Members(price_bits'[opposite']) \subseteq Occupied(opposite)' \cup {best'[opposite']}
      <3>1. PICK o \in Side : o = opposite /\ o = opposite'
        BY <1>4, <1>6
      <3>2. Members(price_bits'[o]) = Occupied(o)'
        BY <2>1, <3>1
      <3>3. Occupied(opposite)' = Occupied(o)'
        BY <3>1 DEF Occupied
      <3> QED BY <3>1, <3>2, <3>3
    <2> QED BY <1>3, <2>1, <2>2, <2>3 DEF BitsSound, Exact, Cached
  <1>8. IncomingUnknown' /\ call'.qty < QTY_MOD
    BY <1>1, <1>5 DEF IndInv, IncomingUnknown, book
  <1> QED BY <1>3, <1>5, <1>7, <1>8 DEF IndInv, Exact, TypeOK, BookType, BitsType

\* What is known while a level is swept.
Sweep(opp, b) ==
  /\ opp = opposite /\ b = best[opp] /\ opp \in Side /\ b \in Ticks
  /\ Occupied(opp) \subseteq Members(price_bits[opp])
  /\ Members(price_bits[opp]) \subseteq Occupied(opp) \cup {b}
  /\ \A x \in Side \ {opp} : Members(price_bits[x]) = Occupied(x)
  /\ call.resting = levels[opp][b].head

\* The invariant during a sweep.
LEMMA FromSweep ==
  ASSUME IndInv, call.pc = "sweep"
  PROVE  Sweep(opposite, best[opposite])
PROOF
  <1>1. opposite \in Side
    BY FromInvariant DEF CallType, opposite, Opposite, Side
  <1> QED BY <1>1 DEF IndInv, BitsSound, Sweep

\* During a sweep these parts make up the invariant.
LEMMA ToSweep ==
  ASSUME BookType', BitsType', Structure', Cached', MapSound', NeverCrossed',
         call' \in CallType, call'.qty < QTY_MOD, IncomingUnknown',
         NEW opp, NEW b, Sweep(opp, b)', call'.pc = "sweep"
  PROVE  IndInv'
PROOF
  <1>1. TypeOK'
    BY DEF TypeOK, BookType, BitsType
  <1>2. Occupied(opposite)' = Occupied(opp)'
    BY DEF Sweep, Occupied
  <1>3. BitsSound'
    BY <1>2 DEF BitsSound, Cached, Sweep
  <1> QED BY <1>1, <1>3 DEF IndInv

\* The end of a sweep: the bit of a level that was emptied is cleared.
LEMMA EndSweepCorrect ==
  ASSUME IndInv, EndSweep
  PROVE  IndInv'
PROOF
  <1>1. PICK opp \in Side : opp = opposite
    BY FromInvariant DEF CallType, opposite, Opposite, Side
  <1>2. PICK b \in Ticks : b = best[opp]
    BY <1>1, FromSweep DEF EndSweep, Sweep
  <1>3. Sweep(opp, b)
    BY <1>1, <1>2, FromSweep DEF EndSweep
  <1>4. /\ BookType /\ BitsType /\ Structure /\ Cached /\ MapSound /\ NeverCrossed
        /\ call \in CallType
    BY FromInvariant
  <1> DEFINE total == levels[opp][b].total_quantity
  <1>5. Refresh(opp, b, total) /\ UNCHANGED <<pool, free_list, levels, order_map, queue>>
        /\ call' = [call EXCEPT !.pc = "match", !.resting = nullptr] /\ call.pc = "sweep"
    BY <1>1, <1>2 DEF EndSweep
  <1>6. b \in Occupied(opp) <=> total # 0
    BY <1>4, Levels DEF Occupied
  <1>7. /\ BitsType' /\ Cached'
        /\ Members(price_bits'[opp]) =
             IF total = 0 THEN Members(price_bits[opp]) \ {b} ELSE Members(price_bits[opp])
        /\ \A x \in Side \ {opp} : price_bits'[x] = price_bits[x]
    BY <1>4, <1>5, RefreshCorrect
  <1>8. Structure' /\ \A x \in Side : Occupied(x)' = Occupied(x)
    BY <1>4, <1>5, StructureSame
  <1>9. \A x \in Side : Members(price_bits'[x]) = Occupied(x)'
    <2>1. Members(price_bits'[opp]) = Occupied(opp)
      BY <1>3, <1>6, <1>7 DEF Sweep
    <2>2. \A x \in Side \ {opp} : Members(price_bits'[x]) = Occupied(x)
      BY <1>3, <1>7 DEF Sweep
    <2> QED BY <1>8, <2>1, <2>2
  <1>10. BookType' /\ MapSound'
    BY <1>4, <1>5, MapSame DEF BookType
  <1>11. NeverCrossed'
    BY <1>4, <1>8 DEF NeverCrossed, Side
  <1>12. Exact'
    BY <1>7, <1>8, <1>9, <1>10, <1>11 DEF Exact
  <1>13. /\ call' \in CallType /\ call'.pc # "sweep" /\ call'.qty = call.qty
         /\ call'.id = call.id
    BY <1>4, <1>5 DEF CallType, Pointer
  <1>14. IncomingUnknown' /\ call'.qty < QTY_MOD
    BY <1>5, <1>13 DEF IndInv, IncomingUnknown
  <1> QED BY <1>12, <1>13, <1>14, ToInvariant

\* The order that is traded with is the first of the swept level.
LEMMA SweptOrder ==
  ASSUME IndInv, Sweeping
  PROVE  \E opp \in Side, b \in Ticks :
           /\ Sweep(opp, b)
           /\ 1 \in 1 .. Len(queue[opp][b]) /\ call.resting = queue[opp][b][1]
           /\ call.resting \in Slots
           /\ pool[call.resting].quantity \in Nat /\ 0 < pool[call.resting].quantity
           /\ call.qty \in Nat /\ 0 < call.qty
PROOF
  <1>1. call.pc = "sweep" /\ call.resting # nullptr /\ call.qty > 0
    BY DEF Sweeping
  <1>2. PICK opp \in Side, b \in Ticks : Sweep(opp, b)
    BY <1>1, FromSweep DEF Sweep
  <1>3. BookType /\ Structure /\ call \in CallType /\ LevelSound(opp, b)
    BY FromInvariant DEF Structure
  <1> DEFINE q == queue[opp][b]
  <1>4. q \in Seq(Slots)
    BY <1>3 DEF BookType
  <1>5. q # <<>> /\ call.resting = q[1]
    BY <1>1, <1>2, <1>3 DEF Sweep, LevelSound, Linked
  <1>6. 1 \in 1 .. Len(q) /\ q[1] \in Slots
    BY <1>4, <1>5, EmptyList
  <1>7. pool[q[1]].quantity \in Nat /\ 0 < pool[q[1]].quantity
    <2>1. /\ pool \in [Slots -> OrderType]
          /\ SumOf(Len(q), [i \in 1 .. Len(q) |-> pool[q[i]].quantity], levels[opp][b].total_quantity)
      BY <1>3 DEF BookType, LevelSound, QuantitiesOf
    <2> QED BY <1>4, <1>6, <2>1, PositiveTotal
  <1>8. call.qty \in Nat
    BY <1>3 DEF CallType
  <1> QED BY <1>1, <1>2, <1>5, <1>6, <1>7, <1>8

\* A trade that leaves the resting order with some quantity.
LEMMA TradePartCorrect ==
  ASSUME IndInv, TradePart
  PROVE  IndInv'
PROOF
  <1>1. Sweeping
    BY DEF TradePart
  <1>2. PICK opp \in Side, b \in Ticks :
           /\ Sweep(opp, b)
           /\ 1 \in 1 .. Len(queue[opp][b]) /\ call.resting = queue[opp][b][1]
           /\ call.resting \in Slots
           /\ pool[call.resting].quantity \in Nat /\ 0 < pool[call.resting].quantity
           /\ call.qty \in Nat /\ 0 < call.qty
    BY <1>1, SweptOrder
  <1>3. PICK s \in Slots : s = call.resting
    BY <1>2
  <1>4. /\ BookType /\ BitsType /\ Structure /\ Cached /\ MapSound /\ NeverCrossed
        /\ call \in CallType
    BY FromInvariant
  <1> DEFINE v == pool[s].quantity - call.qty
  <1>5. /\ TradeQty(pool[s]) = call.qty /\ v \in Nat /\ 0 < v /\ v <= pool[s].quantity
        /\ pool[s].quantity - v = call.qty
    <2> DEFINE a == pool[s].quantity
               c == call.qty
    <2>1. a \in Nat /\ 0 < a /\ c \in Nat /\ 0 < c
      BY <1>2, <1>3
    <2>2. TradeQty(pool[s]) = (IF a < c THEN a ELSE c) /\ a # TradeQty(pool[s])
      BY <1>3 DEF TradePart, TradeQty
    <2> HIDE DEF a, c
    <2>3. TradeQty(pool[s]) = c /\ a - c \in Nat /\ 0 < a - c /\ a - c <= a /\ a - (a - c) = c
      BY <2>1, <2>2
    <2> QED BY <2>3 DEF a, c
  <1>6. opp = opposite /\ b = best[opposite] /\ b = best[opp]
    BY <1>2 DEF Sweep
  <1>7. /\ pool' = [pool EXCEPT ![s].quantity = v]
        /\ levels' = [levels EXCEPT ![opp][b].total_quantity = @ - (pool[s].quantity - v)]
        /\ call' = [call EXCEPT !.qty = @ - call.qty]
        /\ UNCHANGED <<free_list, order_map, price_bits, best, queue>>
    BY <1>3, <1>5, <1>6 DEF TradePart
  <1> HIDE DEF v
  <1>8. /\ BookType' /\ Structure' /\ MapSound'
        /\ \A x \in Side, r \in Ticks : levels'[x][r].head = levels[x][r].head
    <2>1. s = queue[opp][b][1] /\ queue' = queue /\ free_list' = free_list /\ order_map' = order_map
      BY <1>2, <1>3, <1>7
    <2> QED BY <1>2, <1>4, <1>5, <1>7, <2>1, ReduceCorrect
  <1>9. /\ call' \in CallType /\ call'.pc = "sweep" /\ call'.qty = 0 /\ call'.id = call.id
        /\ call'.side = call.side /\ call'.resting = call.resting
    BY <1>1, <1>2, <1>4, <1>7 DEF CallType, Sweeping
  <1>10. \A x \in Side : Occupied(x)' = Occupied(x)
    BY <1>7 DEF Occupied
  <1>11. BitsType' /\ Cached' /\ NeverCrossed'
    BY <1>4, <1>7, <1>10 DEF BitsType, Cached, NeverCrossed, Side
  <1>12. Sweep(opp, b)'
    <2>1. opposite' = opposite /\ best' = best /\ price_bits' = price_bits
      BY <1>7, <1>9 DEF opposite
    <2> QED BY <1>2, <1>8, <1>9, <1>10, <2>1 DEF Sweep
  <1>13. IncomingUnknown' /\ call'.qty < QTY_MOD
    BY <1>1, <1>7, <1>9, BookAssumption DEF IndInv, IncomingUnknown, Sweeping
  <1> QED BY <1>8, <1>9, <1>11, <1>12, <1>13, ToSweep

\* A trade that fills the resting order.
LEMMA TradeFillCorrect ==
  ASSUME IndInv, TradeFill
  PROVE  IndInv'
PROOF
  <1>1. Sweeping
    BY DEF TradeFill
  <1>2. PICK opp \in Side, b \in Ticks :
           /\ Sweep(opp, b)
           /\ 1 \in 1 .. Len(queue[opp][b]) /\ call.resting = queue[opp][b][1]
           /\ call.resting \in Slots
           /\ pool[call.resting].quantity \in Nat /\ 0 < pool[call.resting].quantity
           /\ call.qty \in Nat /\ 0 < call.qty
    BY <1>1, SweptOrder
  <1>3. PICK s \in Slots : s = call.resting
    BY <1>2
  <1>4. /\ BookType /\ BitsType /\ Structure /\ Cached /\ MapSound /\ NeverCrossed
        /\ call \in CallType
    BY FromInvariant
  <1>5. PICK id \in Ids : id = pool[s].id
    BY <1>4 DEF BookType, OrderType
  <1>6. opp = opposite /\ b = best[opposite] /\ b = best[opp]
    BY <1>2 DEF Sweep
  <1> DEFINE left == call.qty - pool[s].quantity
  <1>7. TradeQty(pool[s]) = pool[s].quantity /\ left \in Nat /\ left <= call.qty
    <2> DEFINE a == pool[s].quantity
               c == call.qty
    <2>1. a \in Nat /\ 0 < a /\ c \in Nat /\ 0 < c
      BY <1>2, <1>3
    <2>2. TradeQty(pool[s]) = (IF a < c THEN a ELSE c) /\ a = TradeQty(pool[s])
      BY <1>3 DEF TradeFill, TradeQty
    <2> HIDE DEF a, c
    <2>3. TradeQty(pool[s]) = a /\ c - a \in Nat /\ c - a <= c
      BY <2>1, <2>2
    <2> QED BY <2>3 DEF a, c
  <1>8. /\ Detach(s, opp, b, id)
        /\ call' = [call EXCEPT !.qty = left, !.resting = pool[s].next]
        /\ price_bits' = price_bits /\ best' = best
    BY <1>3, <1>4, <1>5, <1>6, <1>7 DEF TradeFill
  <1>9. s = queue[opp][b][1] /\ 1 \in 1 .. Len(queue[opp][b])
    BY <1>2, <1>3
  <1>10. BookType' /\ Structure'
    BY <1>4, <1>8, <1>9, DetachStructure
  <1>11. /\ MapSound' /\ order_map'[id] = nullptr
         /\ \A i \in Ids \ {id} : order_map'[i] = order_map[i]
    BY <1>4, <1>5, <1>8, <1>9, DetachMap
  <1>12. /\ b \in Occupied(opp)
         /\ Occupied(opp)' = IF levels'[opp][b].total_quantity = 0
                             THEN Occupied(opp) \ {b} ELSE Occupied(opp)
         /\ \A x \in Side \ {opp} : Occupied(x)' = Occupied(x)
    BY <1>4, <1>8, <1>9, DetachOccupied
  <1>13. BitsType' /\ Cached'
    BY <1>4, <1>8 DEF BitsType, Cached
  <1>14. NeverCrossed'
    <2>1. \A x \in Side : Occupied(x)' \subseteq Occupied(x)
      BY <1>12
    <2> QED BY <1>4, <2>1 DEF NeverCrossed, Side
  <1>15. pool[s].next \in Pointer /\ levels'[opp][b].head = pool[s].next
    <2>1. pool[s].next \in Pointer
      BY <1>4 DEF BookType, OrderType
    <2>2. pool[s].prev = nullptr
      <3>1. LevelSound(opp, b)
        BY <1>4 DEF Structure
      <3> QED BY <1>4, <1>9, <3>1, Neighbours
    <2>3. levels'[opp][b] = LevelWithout(levels[opp][b], s)
      BY <1>4, <1>8 DEF Detach, BookType
    <2> QED BY <2>1, <2>2, <2>3 DEF LevelWithout
  <1> HIDE DEF left
  <1>16. /\ call' \in CallType /\ call'.pc = "sweep" /\ call'.qty = left /\ call'.id = call.id
         /\ call'.side = call.side /\ call'.resting = pool[s].next
    BY <1>1, <1>4, <1>7, <1>8, <1>15 DEF CallType, Sweeping
  <1>17. Sweep(opp, b)'
    <2>1. opposite' = opposite
      BY <1>16 DEF opposite
    <2>2. /\ Occupied(opp)' \subseteq Members(price_bits'[opp])
          /\ Members(price_bits'[opp]) \subseteq Occupied(opp)' \cup {b}
          /\ \A x \in Side \ {opp} : Members(price_bits'[x]) = Occupied(x)'
      BY <1>2, <1>8, <1>12 DEF Sweep
    <2> QED BY <1>6, <1>8, <1>15, <1>16, <2>1, <2>2 DEF Sweep
  <1>18. IncomingUnknown' /\ call'.qty < QTY_MOD
    <2>1. call.id \in Ids /\ call.qty < QTY_MOD /\ call.pc = "sweep"
      BY <1>1, <1>4 DEF CallType, IndInv, Sweeping
    <2>2. ~Redelivery => order_map[call.id] = nullptr
      BY <2>1 DEF IndInv, IncomingUnknown
    <2>3. IncomingUnknown'
      BY <1>11, <1>16, <2>1, <2>2 DEF IncomingUnknown
    <2>4. left < QTY_MOD
      BY <1>2, <1>7, <2>1, BookAssumption
    <2> QED BY <1>16, <2>3, <2>4
  <1> QED BY <1>10, <1>11, <1>13, <1>14, <1>16, <1>17, <1>18, ToSweep

\* add_order, when it adds to the book: the best price it caches is the new
\* extreme, and the price is short of the other side because nothing matched.
LEMMA RestCorrect ==
  ASSUME IndInv, Rest
  PROVE  IndInv'
PROOF
  <1>1. call.pc = "match" /\ ~Matching /\ call.qty # 0 /\ call' = NoCall
    BY DEF Rest
  <1>2. Exact /\ call \in CallType
    BY <1>1, FromInvariant
  <1>3. PICK side \in Side : side = call.side
    BY <1>2 DEF CallType
  <1>4. PICK p \in Ticks : p = call.price
    BY <1>2 DEF CallType
  <1>5. /\ BookType' /\ Structure' /\ MapSound'
        /\ Occupied(side)' = Occupied(side) \cup {p}
        /\ \A x \in Side \ {side} : Occupied(x)' = Occupied(x)
    BY <1>2, <1>3, <1>4, RestStructure DEF Exact, IndInv
  <1> DEFINE bm == price_bits[side]
             level == levels[side][p]
             better == IF side = "B" THEN p > best["B"] ELSE p < best["S"]
  <1>6. /\ price_bits' = IF level.total_quantity = 0
                         THEN [price_bits EXCEPT ![side] = set(bm, p)] ELSE price_bits
        /\ best' = IF better THEN [best EXCEPT ![side] = p] ELSE best
    BY <1>3, <1>4 DEF Rest
  <1>7. /\ bm \in BitSetType /\ Summarised(bm) /\ Members(bm) = Occupied(side)
        /\ price_bits \in [Side -> BitSetType] /\ best \in [Side -> Ticks \cup {UINT32_MAX}]
        /\ \A x \in Side : Summarised(price_bits[x])
    BY <1>2 DEF Exact, BitsType, Cached
  <1>8. level.total_quantity # 0 => p \in Members(bm)
    BY <1>2, <1>7, Levels DEF Exact, Occupied
  <1>9. /\ price_bits'[side] \in BitSetType /\ Summarised(price_bits'[side])
        /\ Members(price_bits'[side]) = Members(bm) \cup {p}
        /\ \A x \in Side \ {side} : price_bits'[x] = price_bits[x]
        /\ price_bits' \in [Side -> BitSetType]
    <2>1. /\ set(bm, p) \in BitSetType /\ Summarised(set(bm, p))
          /\ Members(set(bm, p)) = Members(bm) \cup {p}
      BY <1>7, SetCorrect
    <2>2. CASE level.total_quantity = 0
      <3>1. price_bits' = [price_bits EXCEPT ![side] = set(bm, p)]
        BY <1>6, <2>2
      <3>2. price_bits'[side] = set(bm, p) /\ \A x \in Side \ {side} : price_bits'[x] = price_bits[x]
        BY <1>7, <3>1
      <3>3. price_bits' \in [Side -> BitSetType]
        BY <1>7, <2>1, <3>1
      <3> QED BY <2>1, <3>2, <3>3
    <2>3. CASE level.total_quantity # 0
      BY <1>6, <1>7, <1>8, <2>3
    <2> QED BY <2>2, <2>3
  <1>10. \A x \in Side : Members(price_bits'[x]) = Occupied(x)'
    BY <1>2, <1>5, <1>7, <1>9 DEF Exact
  <1>11. /\ best'[side] = IF better THEN p ELSE best[side]
         /\ \A x \in Side \ {side} : best'[x] = best[x]
         /\ best' \in [Side -> Ticks \cup {UINT32_MAX}]
    BY <1>6, <1>7
  <1>12. "B" \in Side /\ "S" \in Side /\ Side = {"B", "S"}
    BY DEF Side
  <1>13. Cached
    BY <1>2 DEF Exact
  <1>14. /\ \A r \in Members(bm) : r \in Nat
         /\ \A r \in Members(price_bits["B"]) : r <= best["B"] /\ r \in Nat
         /\ \A r \in Members(price_bits["S"]) : best["S"] <= r /\ r \in Nat
         /\ p \in Nat /\ best["B"] \in Nat /\ best["S"] \in Nat
    <2>1. \A x \in Side : Members(price_bits[x]) \subseteq Nat
      BY Constants DEF Members
    <2>2. best["B"] \in Nat /\ best["S"] \in Nat /\ p \in Nat
      BY <1>7, <1>12, Constants, TicksAssumption
    <2>3. \A r \in Members(price_bits["B"]) : r <= best["B"]
      BY <1>7, <1>12, <1>13, ScanCorrect DEF Cached
    <2>4. \A r \in Members(price_bits["S"]) : best["S"] <= r
      BY <1>7, <1>12, <1>13, ScanCorrect DEF Cached
    <2> QED BY <1>12, <2>1, <2>2, <2>3, <2>4
  <1>15. ASSUME side = "B" PROVE Cached' /\ NeverCrossed'
    <2>1. best'["B"] = get_highest(price_bits'["B"])
      <3> DEFINE hi == get_highest(price_bits'["B"])
                 old == best["B"]
                 M == Members(bm)
      <3>1. hi \in M \cup {p} /\ \A r \in M \cup {p} : r <= hi
        BY <1>9, <1>15, ScanCorrect
      <3>2. (M = {} => old = 0) /\ (M # {} => old \in M)
        BY <1>7, <1>13, <1>15, ScanCorrect DEF Cached
      <3>3. M \in SUBSET Nat /\ p \in Nat /\ old \in Nat /\ \A r \in M : r <= old
        BY <1>14, <1>15
      <3>4. best'["B"] = IF p > old THEN p ELSE old
        BY <1>11, <1>15
      <3> HIDE DEF hi, old, M
      <3>5. hi = IF p > old THEN p ELSE old
        BY <3>1, <3>2, <3>3, NewHighest
      <3> QED BY <3>4, <3>5 DEF hi
    <2>2. Cached'
      BY <1>7, <1>9, <1>11, <1>12, <1>13, <1>15, <2>1 DEF Cached
    <2>3. NeverCrossed'
      <3>1. p < best["S"]
        BY <1>1, <1>2, <1>3, <1>4, <1>14, <1>15 DEF Matching, IsMatch, CallType
      <3>2. \A a \in Occupied("S") : p < a
        <4>1. \A a \in Occupied("S") : best["S"] <= a /\ a \in Nat
          BY <1>2, <1>12, <1>14 DEF Exact
        <4> QED BY <1>14, <3>1, <4>1
      <3>3. Occupied("S")' = Occupied("S") /\ Occupied("B")' = Occupied("B") \cup {p}
        BY <1>5, <1>12, <1>15
      <3> QED BY <1>2, <3>2, <3>3 DEF Exact, NeverCrossed
    <2> QED BY <2>2, <2>3
  <1>16. ASSUME side = "S" PROVE Cached' /\ NeverCrossed'
    <2>1. best'["S"] = get_lowest(price_bits'["S"])
      <3> DEFINE lo == get_lowest(price_bits'["S"])
                 old == best["S"]
                 M == Members(bm)
      <3>1. lo \in M \cup {p} /\ \A r \in M \cup {p} : lo <= r
        BY <1>9, <1>16, ScanCorrect
      <3>2. (M = {} => old = UINT32_MAX) /\ (M # {} => old \in M)
        BY <1>7, <1>13, <1>16, ScanCorrect DEF Cached
      <3>3. M \in SUBSET Nat /\ p \in Nat /\ old \in Nat /\ (\A r \in M : old <= r)
            /\ UINT32_MAX \in Nat /\ p < UINT32_MAX
        BY <1>14, <1>16, Constants, TicksAssumption
      <3>4. best'["S"] = IF p < old THEN p ELSE old
        BY <1>11, <1>16
      <3> HIDE DEF lo, old, M
      <3>5. lo = IF p < old THEN p ELSE old
        BY <3>1, <3>2, <3>3, NewLowest
      <3> QED BY <3>4, <3>5 DEF lo
    <2>2. Cached'
      BY <1>7, <1>9, <1>11, <1>12, <1>13, <1>16, <2>1 DEF Cached
    <2>3. NeverCrossed'
      <3>1. best["B"] < p
        BY <1>1, <1>2, <1>3, <1>4, <1>14, <1>16 DEF Matching, IsMatch, CallType
      <3>2. \A b \in Occupied("B") : b < p
        <4>1. \A b \in Occupied("B") : b <= best["B"] /\ b \in Nat
          BY <1>2, <1>12, <1>14 DEF Exact
        <4> QED BY <1>14, <3>1, <4>1
      <3>3. Occupied("B")' = Occupied("B") /\ Occupied("S")' = Occupied("S") \cup {p}
        BY <1>5, <1>12, <1>16
      <3> QED BY <1>2, <3>2, <3>3 DEF Exact, NeverCrossed
    <2> QED BY <2>2, <2>3
  <1>17. Cached' /\ NeverCrossed'
    BY <1>12, <1>15, <1>16
  <1>18. Exact'
    BY <1>5, <1>9, <1>10, <1>11, <1>17 DEF Exact, BitsType
  <1>19. call' \in CallType /\ call'.pc = "idle" /\ call'.qty < QTY_MOD
    BY <1>1, Constants, BookAssumption DEF NoCall, CallType, Side, Pointer
  <1>20. IncomingUnknown'
    BY <1>19 DEF IncomingUnknown
  <1> QED BY <1>18, <1>19, <1>20, ToInvariant

\* Nothing happens.
LEMMA StutterCorrect ==
  ASSUME IndInv, UNCHANGED vars
  PROVE  IndInv'
PROOF
  <1>1. UNCHANGED book /\ call' = call
    BY DEF vars, book
  <1>2. CASE call.pc # "sweep"
    <2>1. Exact' /\ call \in CallType
      BY <1>1, <1>2, FromInvariant, ExactSame
    <2>2. IncomingUnknown' /\ call'.qty < QTY_MOD
      BY <1>1 DEF book, IndInv, IncomingUnknown
    <2> QED BY <1>1, <1>2, <2>1, <2>2, ToInvariant
  <1>3. CASE call.pc = "sweep"
    <2>1. PICK opp \in Side, b \in Ticks : Sweep(opp, b)
      BY <1>3, FromSweep DEF Sweep
    <2>2. /\ BookType /\ BitsType /\ Structure /\ Cached /\ MapSound /\ NeverCrossed
          /\ call \in CallType
      BY FromInvariant
    <2>3. /\ pool' = pool /\ free_list' = free_list /\ levels' = levels /\ queue' = queue
          /\ order_map' = order_map /\ price_bits' = price_bits /\ best' = best
      BY <1>1 DEF book
    <2>4. Structure' /\ \A x \in Side : Occupied(x)' = Occupied(x)
      BY <2>2, <2>3, StructureSame
    <2>5. MapSound'
      BY <2>2, <2>3, MapSame
    <2>6. BookType' /\ BitsType' /\ Cached' /\ NeverCrossed'
      BY <2>2, <2>3, <2>4 DEF BookType, BitsType, Cached, NeverCrossed, Side
    <2>7. Sweep(opp, b)'
      <3>1. opposite' = opposite
        BY <1>1 DEF opposite
      <3> QED BY <1>1, <2>1, <2>3, <2>4, <3>1 DEF Sweep
    <2>8. IncomingUnknown' /\ call'.qty < QTY_MOD
      BY <1>1 DEF book, IndInv, IncomingUnknown
    <2> QED BY <1>1, <1>3, <2>2, <2>4, <2>5, <2>6, <2>7, <2>8, ToSweep
  <1> QED BY <1>2, <1>3
-------------------------------------------------------------------------------
\* Every call and every step of match_order keeps the invariant.
LEMMA StepCorrect ==
  ASSUME QuantitiesFit, IndInv, [Next]_vars
  PROVE  IndInv'
PROOF
  <1>1. ASSUME NEW id \in Ids, CancelOrder(id) PROVE IndInv'
    BY <1>1, CancelCorrect DEF CancelOrder
  <1>2. ASSUME NEW id \in Ids, NEW price \in Prices, NEW qty \in Quantities, NEW side \in Side,
               AddOrder(id, price, qty, side)
        PROVE  IndInv'
    BY <1>2, AddOrderCorrect
  <1>3. ASSUME NEW id \in Ids, NEW price \in Prices, NEW qty \in Quantities,
               ModifyReplace(id, price, qty)
        PROVE  IndInv'
    BY <1>3, ModifyReplaceCorrect
  <1>4. ASSUME NEW id \in Ids, NEW price \in Prices, NEW qty \in Quantities,
               ModifyToZero(id, price, qty)
        PROVE  IndInv'
    BY <1>4, CancelCorrect DEF ModifyToZero
  <1>5. ASSUME NEW id \in Ids, NEW price \in Prices, NEW qty \in Quantities,
               ModifyInPlace(id, price, qty)
        PROVE  IndInv'
    BY <1>5, ModifyInPlaceCorrect
  <1>6. CASE StartSweep
    BY <1>6, StartSweepCorrect
  <1>7. CASE TradePart
    BY <1>7, TradePartCorrect
  <1>8. CASE TradeFill
    BY <1>8, TradeFillCorrect
  <1>9. CASE EndSweep
    BY <1>9, EndSweepCorrect
  <1>10. CASE Return
    BY <1>10, ReturnCorrect
  <1>11. CASE Rest
    BY <1>11, RestCorrect
  <1>12. CASE UNCHANGED vars
    BY <1>12, StutterCorrect
  <1> QED BY <1>1, <1>2, <1>3, <1>4, <1>5, <1>6, <1>7, <1>8, <1>9, <1>10, <1>11, <1>12
          DEF Next, Calls, Match

\* The ids that a step of match_order can make known: the incoming order's.
LEMMA MatchKnownIds ==
  ASSUME IndInv, Match
  PROVE  /\ call.pc # "idle"
         /\ \A id \in Ids : order_map'[id] # nullptr => order_map[id] # nullptr \/ id = call.id
         /\ call'.pc # "idle" => call'.id = call.id
PROOF
  <1>1. order_map \in [Ids -> Pointer] /\ call \in CallType
    BY FromInvariant DEF BookType
  <1>2. CASE StartSweep \/ EndSweep \/ TradePart
    BY <1>1, <1>2 DEF StartSweep, EndSweep, TradePart, Sweeping, book, CallType
  <1>3. CASE TradeFill
    BY <1>1, <1>3 DEF TradeFill, Sweeping, Detach, Forget, CallType
  <1>4. CASE Return
    BY <1>4 DEF Return, NoCall, book
  <1>5. CASE Rest
    BY <1>1, <1>5 DEF Rest, NoCall
  <1> QED BY <1>2, <1>3, <1>4, <1>5 DEF Match

\* cancel_order's work makes its id unknown and no other id known.
LEMMA RemoveKnownIds ==
  ASSUME IndInv, NEW id \in Ids, Remove(id)
  PROVE  /\ order_map'[id] = nullptr
         /\ \A i \in Ids : order_map'[i] # nullptr => order_map[i] # nullptr
PROOF
  <1>1. order_map \in [Ids -> Pointer]
    BY FromInvariant DEF BookType
  <1> QED BY <1>1 DEF Remove, Detach, Forget

\* The invariant holds after every step of every sequence of calls.
THEOREM BookInductive == QuantitiesFit => (Spec => []IndInv)
PROOF
  <1> SUFFICES ASSUME QuantitiesFit PROVE Spec => []IndInv
    OBVIOUS
  <1>1. Init => IndInv
    BY InitCorrect
  <1>2. IndInv /\ [Next]_vars => IndInv'
    BY StepCorrect
  <1> QED BY <1>1, <1>2, PTL DEF Spec

\* Type correctness of the book: no level total becomes negative, no pointer
\* leaves the pool, no price leaves the arrays (OrderBook.h:86-236).
THEOREM BookTypeCorrect == QuantitiesFit => (Spec => []TypeOK)
PROOF
  <1>1. IndInv => TypeOK
    BY DEF IndInv
  <1> QED BY <1>1, BookInductive, PTL

\* No order leaks and none is freed twice: every slot of the pool is free or at
\* one place of one level (OrderBook.h:160, 218).
THEOREM PoolNeverLeaks == QuantitiesFit => (Spec => []PoolPartitioned)
PROOF
  <1>1. IndInv => PoolPartitioned
    BY DEF IndInv, Structure
  <1> QED BY <1>1, BookInductive, PTL

\* The links of every level follow the order of arrival.
THEOREM LinksCorrect == QuantitiesFit => (Spec => []LinksFollowArrival)
PROOF
  <1>1. IndInv => LinksFollowArrival
    BY DEF IndInv, Structure, LevelSound, LinksFollowArrival
  <1> QED BY <1>1, BookInductive, PTL

\* total_quantity is the sum of what the orders of the level still want.
THEOREM TotalsCorrect == QuantitiesFit => (Spec => []TotalsExact)
PROOF
  <1>1. IndInv => TotalsExact
    <2> SUFFICES ASSUME IndInv, NEW side \in Side, NEW p \in Ticks
                 PROVE  levels[side][p].total_quantity = SumOfQuantities(queue[side][p])
      BY DEF TotalsExact
    <2>1. /\ queue[side][p] \in Seq(Slots)
          /\ SumOf(Len(queue[side][p]), [i \in 1 .. Len(queue[side][p]) |->
                     pool[queue[side][p][i]].quantity], levels[side][p].total_quantity)
      BY DEF IndInv, TypeOK, Structure, LevelSound, QuantitiesOf
    <2> QED BY <2>1, SumUnique
  <1> QED BY <1>1, BookInductive, PTL

\* Outside a sweep the bitmaps and the cached best prices are exact.
THEOREM BestCorrect == QuantitiesFit => (Spec => []BestExact)
PROOF
  <1>1. IndInv => BestExact
    BY DEF IndInv, BitsSound, BestExact
  <1> QED BY <1>1, BookInductive, PTL

\* order_map never dangles, and finds every resting order unless ids repeat.
THEOREM MapCorrect == QuantitiesFit => (Spec => []MapSound)
PROOF
  <1>1. IndInv => MapSound
    BY DEF IndInv
  <1> QED BY <1>1, BookInductive, PTL

\* No call leaves a bid that reaches an ask.
THEOREM BookUncrossed == QuantitiesFit => (Spec => []Uncrossed)
PROOF
  <1>1. IndInv => Uncrossed
    BY DEF IndInv, NeverCrossed, Uncrossed
  <1> QED BY <1>1, BookInductive, PTL
-------------------------------------------------------------------------------
\* One level as the limit order book sees it.
Waiting(P, orders) ==
  [i \in 1 .. Len(orders) |-> [id |-> P[orders[i]].id, qty |-> P[orders[i]].quantity]]

\* While its caller's order has no id that the book holds, the pool has a slot
\* for it: there are as many slots as ids (OrderBook.h:98-101).
LEMMA AlwaysRoom ==
  ASSUME IndInv, ~Redelivery, call.pc # "idle"
  PROVE  free_list # <<>>
PROOF
  <1> SUFFICES ASSUME free_list = <<>> PROVE FALSE
    OBVIOUS
  <1>1. BookType /\ Structure /\ MapSound /\ call \in CallType
    BY FromInvariant
  <1>2. Entries(free_list) = {}
    BY DEF Entries
  <1>3. ASSUME NEW s \in Slots PROVE pool[s].id \in Ids \ {call.id} /\ order_map[pool[s].id] = s
    <2>1. PICK side \in Side, p \in Ticks : s \in Listed(side, p)
      BY <1>1, <1>2 DEF Structure, PoolPartitioned
    <2>2. order_map[pool[s].id] = s
      BY <1>1, <2>1 DEF MapSound
    <2>3. pool[s].id \in Ids
      BY <1>1 DEF BookType, OrderType
    <2>4. order_map[call.id] = nullptr /\ s # nullptr
      BY Constants DEF IndInv, IncomingUnknown
    <2> QED BY <2>2, <2>3, <2>4
  <1> DEFINE f == [s \in Slots |-> pool[s].id]
             T == Ids \ {call.id}
  <1>4. f \in Injection(Slots, T)
    <2>1. f \in [Slots -> T]
      BY <1>3
    <2>2. \A s, t \in Slots : f[s] = f[t] => s = t
      BY <1>3
    <2> QED BY <2>1, <2>2 DEF Injection, IsInjective
  <1>5. call.id \in Ids
    BY <1>1 DEF CallType
  <1>6. IsFiniteSet(Ids) /\ Cardinality(Ids) = MAX_ORDERS /\ Cardinality(Slots) = MAX_ORDERS
    <2>1. MAX_ORDERS \in Nat /\ MAX_ORDERS # 0
      BY BookAssumption
    <2>2. /\ IsFiniteSet(0 .. MAX_ORDERS - 1)
          /\ Cardinality(0 .. MAX_ORDERS - 1) = IF 0 > MAX_ORDERS - 1 THEN 0 ELSE (MAX_ORDERS - 1) - 0 + 1
      BY <2>1, FS_Interval
    <2>3. Cardinality(1 .. MAX_ORDERS) = IF 1 > MAX_ORDERS THEN 0 ELSE MAX_ORDERS - 1 + 1
      BY <2>1, FS_Interval
    <2> QED BY <2>1, <2>2, <2>3 DEF Ids, Slots
  <1>7. IsFiniteSet(T) /\ Cardinality(T) = MAX_ORDERS - 1
    BY <1>5, <1>6, FS_RemoveElement
  <1> HIDE DEF f, T
  <1>8. Cardinality(Slots) <= Cardinality(T)
    BY <1>4, <1>7, FS_Injection
  <1> QED BY <1>6, <1>7, <1>8, BookAssumption

\* The rest of an incoming order can be stored whenever there is one.
RoomForIncoming == call.pc # "idle" => free_list # <<>>

\* Without a repeated id add_order never finds the pool empty, so no order is dropped
\* there without a trace (OrderBook.h:98).
THEOREM PoolSuffices == QuantitiesFit /\ ~Redelivery => (Spec => []RoomForIncoming)
PROOF
  <1> SUFFICES ASSUME QuantitiesFit, ~Redelivery PROVE Spec => []RoomForIncoming
    OBVIOUS
  <1>1. IndInv => RoomForIncoming
    BY AlwaysRoom DEF RoomForIncoming
  <1>2. Spec => []IndInv
    BY BookInductive
  <1> QED BY <1>1, <1>2, PTL

\* A step that changes one level as the limit order book sees it.
LEMMA OneLevel ==
  ASSUME NEW side \in Side, NEW p \in Ticks, NEW X,
         Waiting(pool', queue'[side][p]) = X,
         \A x \in Side, r \in Ticks : x # side \/ r # p =>
           Waiting(pool', queue'[x][r]) = Waiting(pool, queue[x][r])
  PROVE  Resting' = [Resting EXCEPT ![side][p] = X]
PROOF
  <1>1. Resting = [x \in Side |-> [r \in Ticks |-> Waiting(pool, queue[x][r])]]
    BY DEF Resting, Waiting
  <1>2. Resting' = [x \in Side |-> [r \in Ticks |-> Waiting(pool', queue'[x][r])]]
    BY DEF Resting, Waiting
  <1> QED BY <1>1, <1>2

\* The levels of the limit order book.
LEMMA RestingLevel ==
  ASSUME NEW side \in Side, NEW p \in Ticks
  PROVE  Resting[side][p] = Waiting(pool, queue[side][p])
  BY DEF Resting, Waiting

\* The levels that the limit order book sees are those that hold orders.
LEMMA AbstractLevels ==
  ASSUME BookType, NEW side \in Side
  PROVE  Abstract!Levels(side) = Occupied(side)
PROOF
  <1>1. ASSUME NEW p \in Ticks
        PROVE  Resting[side][p] # <<>> <=> queue[side][p] # <<>>
    <2>1. queue[side][p] \in Seq(Slots)
      BY DEF BookType
    <2>2. Resting[side][p] = Waiting(pool, queue[side][p])
      BY RestingLevel
    <2>3. Len(Resting[side][p]) = Len(queue[side][p])
      BY <2>1, <2>2 DEF Waiting
    <2> QED BY <2>1, <2>2, <2>3 DEF Waiting
  <1> QED BY <1>1 DEF Abstract!Levels, Occupied

\* An order that leaves its level: the others keep their order and quantities.
LEMMA DetachWaiting ==
  ASSUME BookType, Structure, NEW side \in Side, NEW p \in Ticks,
         NEW k \in 1 .. Len(queue[side][p]), NEW s, s = queue[side][p][k],
         NEW id \in Ids, Detach(s, side, p, id)
  PROVE  Resting' = [Resting EXCEPT ![side][p] = Abstract!Without(@, k)]
PROOF
  <1> DEFINE q == queue[side][p]
             n == Len(q)
             new == queue'[side][p]
  <1>1. /\ s \in Slots /\ new = Without(q, s)
        /\ \A x \in Side, r \in Ticks : x # side \/ r # p => queue'[x][r] = queue[x][r]
        /\ \A x \in Side, r \in Ticks : /\ Entries(queue'[x][r]) \subseteq Listed(x, r)
                                        /\ s \notin Entries(queue'[x][r])
    BY DetachEffect
  <1>2. /\ q \in Seq(Slots) /\ n \in Nat /\ NoRepeats(q) /\ k \in 1 .. n
        /\ \A x \in Side, r \in Ticks : queue[x][r] \in Seq(Slots)
    BY DEF BookType, Structure, LevelSound
  <1>3. /\ new \in Seq(Slots) /\ Len(new) = n - 1
        /\ \A i \in 1 .. n - 1 : new[i] = IF i < k THEN q[i] ELSE q[i + 1]
    <2>1. /\ new = Without(q, q[k]) /\ k \in 1 .. Len(q)
          /\ q \in Seq(Slots) /\ NoRepeats(q)
      BY <1>1, <1>2
    <2>2. /\ new \in Seq(Slots) /\ Len(new) = Len(q) - 1
          /\ \A i \in 1 .. Len(q) - 1 : new[i] = IF i < k THEN q[i] ELSE q[i + 1]
      <3> HIDE DEF new, q
      <3> QED BY <2>1, WithoutCorrect
    <2> QED BY <2>2
  <1>4. \A t \in Slots \ {s} : pool'[t].id = pool[t].id /\ pool'[t].quantity = pool[t].quantity
    <2>1. pool' = Unlinked(s)
      BY DEF Detach
    <2> QED BY <1>1, <2>1, UnlinkedCorrect
  <1>5. ASSUME NEW x \in Side, NEW r \in Ticks, x # side \/ r # p
        PROVE  Waiting(pool', queue'[x][r]) = Waiting(pool, queue[x][r])
    <2>1. queue'[x][r] = queue[x][r] /\ queue[x][r] \in Seq(Slots)
      BY <1>1, <1>2, <1>5
    <2>2. \A i \in 1 .. Len(queue[x][r]) : queue[x][r][i] \in Slots \ {s}
      BY <1>1, <2>1 DEF Entries
    <2> QED BY <1>4, <2>1, <2>2 DEF Waiting
  <1>6. Waiting(pool', new) = Abstract!Without(Waiting(pool, q), k)
    <2>1. \A i \in 1 .. n - 1 : new[i] \in Slots \ {s}
      <3>1. s \notin Entries(new)
        BY <1>1
      <3> QED BY <1>3, <3>1 DEF Entries
    <2>2. \A i \in 1 .. n - 1 : pool'[new[i]].id = pool[new[i]].id
                                /\ pool'[new[i]].quantity = pool[new[i]].quantity
      BY <1>4, <2>1
    <2>3. Waiting(pool', new) = [i \in 1 .. n - 1 |->
             [id |-> pool[new[i]].id, qty |-> pool[new[i]].quantity]]
      BY <1>3, <2>2 DEF Waiting
    <2>4. /\ Len(Waiting(pool, q)) = n
          /\ \A i \in 1 .. n : Waiting(pool, q)[i] = [id |-> pool[q[i]].id, qty |-> pool[q[i]].quantity]
      BY <1>2 DEF Waiting
    <2>5. Abstract!Without(Waiting(pool, q), k) =
            [i \in 1 .. n - 1 |-> IF i < k THEN Waiting(pool, q)[i] ELSE Waiting(pool, q)[i + 1]]
      BY <2>4 DEF Abstract!Without
    <2>6. ASSUME NEW i \in 1 .. n - 1
          PROVE  [id |-> pool[new[i]].id, qty |-> pool[new[i]].quantity] =
                 IF i < k THEN Waiting(pool, q)[i] ELSE Waiting(pool, q)[i + 1]
      <3> HIDE DEF n, new
      <3>1. i \in 1 .. n /\ i + 1 \in 1 .. n
        BY <1>2
      <3> QED BY <1>3, <2>4, <3>1
    <2> QED BY <2>3, <2>5, <2>6
  <1>7. Resting[side][p] = Waiting(pool, q)
    BY RestingLevel
  <1> DEFINE X == Abstract!Without(Resting[side][p], k)
  <1>8. Waiting(pool', queue'[side][p]) = X
    BY <1>6, <1>7
  <1> HIDE DEF X
  <1>9. Resting' = [Resting EXCEPT ![side][p] = X]
    BY <1>5, <1>8, OneLevel
  <1> QED BY <1>9 DEF X

\* An order that loses quantity and keeps its place.
LEMMA ReduceWaiting ==
  ASSUME BookType, Structure, NEW side \in Side, NEW p \in Ticks,
         NEW k \in 1 .. Len(queue[side][p]), NEW s, s = queue[side][p][k],
         NEW v, pool' = [pool EXCEPT ![s].quantity = v], queue' = queue
  PROVE  /\ Waiting(pool', queue[side][p]) = [Waiting(pool, queue[side][p]) EXCEPT ![k].qty = v]
         /\ \A x \in Side, r \in Ticks : x # side \/ r # p =>
              Waiting(pool', queue'[x][r]) = Waiting(pool, queue[x][r])
PROOF
  <1> DEFINE q == queue[side][p]
             n == Len(q)
  <1>1. /\ q \in Seq(Slots) /\ n \in Nat /\ NoRepeats(q) /\ k \in 1 .. n
        /\ \A x \in Side, r \in Ticks : queue[x][r] \in Seq(Slots)
    BY DEF BookType, Structure, LevelSound
  <1>2. s \in Slots /\ pool \in [Slots -> OrderType] /\ s \in Listed(side, p)
    BY <1>1 DEF BookType, Listed, Entries
  <1>3. /\ \A t \in Slots \ {s} : pool'[t] = pool[t]
        /\ pool'[s].id = pool[s].id /\ pool'[s].quantity = v
    BY <1>2 DEF OrderType
  <1>4. ASSUME NEW x \in Side, NEW r \in Ticks, x # side \/ r # p
        PROVE  Waiting(pool', queue'[x][r]) = Waiting(pool, queue[x][r])
    <2>1. s \notin Listed(x, r)
      BY <1>2, <1>4 DEF Structure, PoolPartitioned
    <2>2. \A i \in 1 .. Len(queue[x][r]) : queue[x][r][i] \in Slots \ {s}
      BY <1>1, <2>1 DEF Listed, Entries
    <2> QED BY <1>3, <2>2 DEF Waiting
  <1>5. ASSUME NEW i \in 1 .. n
        PROVE  [id |-> pool'[q[i]].id, qty |-> pool'[q[i]].quantity] =
               IF i = k THEN [id |-> pool[q[i]].id, qty |-> v]
                        ELSE [id |-> pool[q[i]].id, qty |-> pool[q[i]].quantity]
    <2>1. CASE i = k
      BY <1>3, <2>1
    <2>2. CASE i # k
      <3>1. q[i] \in Slots \ {s}
        BY <1>1, <2>2 DEF NoRepeats
      <3> QED BY <1>3, <2>2, <3>1
    <2> QED BY <2>1, <2>2
  <1>6. Waiting(pool', q) = [i \in 1 .. n |-> IF i = k THEN [id |-> pool[q[i]].id, qty |-> v]
                        ELSE [id |-> pool[q[i]].id, qty |-> pool[q[i]].quantity]]
    BY <1>5 DEF Waiting
  <1>7. [Waiting(pool, q) EXCEPT ![k].qty = v] =
          [i \in 1 .. n |-> IF i = k THEN [id |-> pool[q[i]].id, qty |-> v]
                        ELSE [id |-> pool[q[i]].id, qty |-> pool[q[i]].quantity]]
    <2> DEFINE w == Waiting(pool, q)
    <2>1. /\ w = [i \in 1 .. n |-> w[i]]
          /\ \A i \in 1 .. n : w[i] = [id |-> pool[q[i]].id, qty |-> pool[q[i]].quantity]
      BY DEF Waiting
    <2>2. [w[k] EXCEPT !.qty = v] = [id |-> pool[q[k]].id, qty |-> v]
      <3>1. w[k] = [id |-> pool[q[k]].id, qty |-> pool[q[k]].quantity]
        BY <1>1, <2>1
      <3> HIDE DEF w, q
      <3> QED BY <3>1
    <2> HIDE DEF w, n, q
    <2>3. [w EXCEPT ![k] = [w[k] EXCEPT !.qty = v]] =
            [i \in 1 .. n |-> IF i = k THEN [id |-> pool[q[i]].id, qty |-> v]
                        ELSE [id |-> pool[q[i]].id, qty |-> pool[q[i]].quantity]]
      BY <1>1, <2>1, <2>2
    <2> QED BY <2>3 DEF w, n, q
  <1> QED BY <1>4, <1>6, <1>7

\* The incoming order as the limit order book sees it.
Taker == [id |-> call.id, side |-> call.side, price |-> call.price, qty |-> call.qty]

\* A level is swept only because the incoming order reaches it (OrderBook.h:192-200).
SweepMatches == call.pc = "sweep" => IsMatch

\* The best price of a side bounds the levels that hold orders.
LEMMA BestBounds ==
  ASSUME IndInv
  PROVE  /\ \A p \in Occupied("B") : p <= best["B"]
         /\ \A p \in Occupied("S") : best["S"] <= p
PROOF
  <1>1. BitsType /\ Cached
    BY FromInvariant
  <1>2. ASSUME NEW side \in Side PROVE Occupied(side) \subseteq Members(price_bits[side])
    BY DEF IndInv, BitsSound
  <1>3. price_bits["B"] \in BitSetType /\ price_bits["S"] \in BitSetType
    BY <1>1 DEF BitsType, Side
  <1>4. \A p \in Members(price_bits["B"]) : p <= best["B"]
    BY <1>1, <1>3, ScanCorrect DEF Cached, Side
  <1>5. \A p \in Members(price_bits["S"]) : best["S"] <= p
    BY <1>1, <1>3, ScanCorrect DEF Cached, Side
  <1> QED BY <1>2, <1>4, <1>5 DEF Side

\* What the incoming order can trade with, in terms of the book.
LEMMA AbstractCrossed ==
  ASSUME IndInv
  PROVE  /\ opposite \in Side /\ Abstract!Other(Taker.side) = opposite
         /\ Abstract!Crossed(Taker) = {p \in Occupied(opposite) :
              IF call.side = "B" THEN p <= call.price ELSE p >= call.price}
PROOF
  <1>1. BookType /\ call \in CallType
    BY FromInvariant
  <1>2. opposite \in Side /\ Abstract!Other(Taker.side) = opposite
    BY <1>1 DEF CallType, Side, opposite, Opposite, Taker, Abstract!Other
  <1>3. Abstract!Levels(opposite) = Occupied(opposite)
    BY <1>1, <1>2, AbstractLevels
  <1> QED BY <1>2, <1>3 DEF Abstract!Crossed, Taker

\* An order that matches nothing crosses no level.
LEMMA NothingCrossed ==
  ASSUME IndInv, ~IsMatch
  PROVE  Abstract!Crossed(Taker) = {}
PROOF
  <1>1. BitsType /\ call \in CallType
    BY FromInvariant
  <1>2. /\ call.price \in Nat /\ best["B"] \in Nat /\ best["S"] \in Nat
        /\ \A x \in Side : \A p \in Occupied(x) : p \in Nat
    <2>1. \A p \in Ticks \cup {UINT32_MAX} : p \in Nat
      BY Constants, TicksAssumption
    <2>2. call.price \in Ticks /\ best["B"] \in Ticks \cup {UINT32_MAX}
          /\ best["S"] \in Ticks \cup {UINT32_MAX}
      BY <1>1 DEF CallType, BitsType, Side
    <2> QED BY <2>1, <2>2 DEF Occupied
  <1>3. CASE call.side = "B"
    <2>1. call.price < best["S"] /\ opposite = "S"
      BY <1>2, <1>3 DEF IsMatch, opposite, Opposite
    <2> QED BY <1>2, <1>3, <2>1, BestBounds, AbstractCrossed
  <1>4. CASE call.side = "S"
    <2>1. call.price > best["B"] /\ opposite = "B"
      BY <1>2, <1>4 DEF IsMatch, opposite, Opposite
    <2> QED BY <1>2, <1>4, <2>1, BestBounds, AbstractCrossed
  <1> QED BY <1>1, <1>3, <1>4 DEF CallType, Side

\* The level that is swept is the first that the incoming order may trade with.
LEMMA SweptIsBest ==
  ASSUME IndInv, IsMatch, best[opposite] \in Occupied(opposite)
  PROVE  /\ Abstract!Crossed(Taker) # {}
         /\ Abstract!Best(Taker) = best[opposite]
PROOF
  <1> DEFINE b == best[opposite]
             C == Abstract!Crossed(Taker)
  <1>1. call \in CallType
    BY FromInvariant
  <1>2. /\ call.price \in Nat /\ b \in Nat
        /\ \A p \in C : p \in Nat
        /\ C = {p \in Occupied(opposite) :
              IF call.side = "B" THEN p <= call.price ELSE p >= call.price}
    <2>1. \A p \in Ticks : p \in Nat
      BY Constants
    <2> QED BY <1>1, <2>1, AbstractCrossed DEF Occupied, CallType
  <1>3. b \in C /\ \A p \in C : IF call.side = "B" THEN b <= p ELSE p <= b
    <2>1. CASE call.side = "B"
      <3>1. b <= call.price /\ opposite = "S"
        BY <1>2, <2>1 DEF IsMatch, opposite, Opposite
      <3> QED BY <1>2, <2>1, <3>1, BestBounds
    <2>2. CASE call.side = "S"
      <3>1. b >= call.price /\ opposite = "B"
        BY <1>2, <2>2 DEF IsMatch, opposite, Opposite
      <3> QED BY <1>2, <2>2, <3>1, BestBounds
    <2> QED BY <1>1, <2>1, <2>2 DEF CallType, Side
  <1>4. Taker.side = call.side
    BY DEF Taker
  <1>5. Abstract!Best(Taker) = CHOOSE p \in C : \A r \in C : IF call.side = "B" THEN p <= r ELSE r <= p
    BY <1>4 DEF Abstract!Best
  <1> HIDE DEF b, C
  <1>6. \A p \in C : (\A r \in C : IF call.side = "B" THEN p <= r ELSE r <= p) => p = b
    BY <1>2, <1>3
  <1> QED BY <1>3, <1>5, <1>6 DEF b, C
-------------------------------------------------------------------------------
\* The levels and the incoming order while the book and the call stay the same.
LEMMA RestingSame ==
  ASSUME UNCHANGED <<pool, queue>>
  PROVE  Resting' = Resting
  BY DEF Resting

\* An order that waits has a place in order_map.
LEMMA WaitingKnown ==
  ASSUME IndInv, ~Redelivery, NEW id \in Ids, order_map[id] = nullptr
  PROVE  ~Abstract!IsResting(id)
PROOF
  <1>1. BookType /\ MapSound
    BY FromInvariant
  <1> SUFFICES ASSUME NEW side \in Side, NEW p \in Ticks,
                      NEW i \in 1 .. Len(Resting[side][p]), Resting[side][p][i].id = id
               PROVE  FALSE
    BY DEF Abstract!IsResting, Abstract!Side, Side
  <1> DEFINE q == queue[side][p]
  <1>2. q \in Seq(Slots) /\ Resting[side][p] = Waiting(pool, q)
    BY <1>1, RestingLevel DEF BookType
  <1>3. i \in 1 .. Len(q) /\ pool[q[i]].id = id
    BY <1>2 DEF Waiting
  <1>4. q[i] \in Listed(side, p) /\ q[i] \in Slots
    BY <1>2, <1>3 DEF Listed, Entries
  <1>5. order_map[id] = q[i]
    BY <1>1, <1>3, <1>4 DEF MapSound
  <1> QED BY <1>4, <1>5, Constants

\* add_order starts: an order is submitted.
LEMMA AddOrderStep ==
  ASSUME IndInv, ~Redelivery, NEW id \in Ids, NEW price \in Prices, NEW qty \in Quantities,
         NEW side \in Side, AddOrder(id, price, qty, side)
  PROVE  Abstract!Next
PROOF
  <1> DEFINE o == [id |-> id, side |-> side, price |-> price, qty |-> qty]
  <1>1. call.pc = "idle" /\ order_map[id] = nullptr /\ UNCHANGED <<pool, queue>>
    BY DEF AddOrder, book
  <1>2. call'.pc = "match" /\ call'.id = id /\ call'.side = side /\ call'.price = price
        /\ call'.qty = qty
    BY DEF AddOrder, StartMatch
  <1>3. Incoming = <<>> /\ Incoming' = <<o>>
    BY <1>1, <1>2 DEF Incoming
  <1>4. ~Abstract!IsResting(o.id) /\ Resting' = Resting
    BY <1>1, WaitingKnown, RestingSame
  <1>5. Abstract!Submit(o)
    BY <1>3, <1>4 DEF Abstract!Submit
  <1>6. o \in [id : Ids, side : Abstract!Side, price : Prices, qty : Quantities]
    BY DEF Abstract!Side, Side
  <1> HIDE DEF o
  <1> QED BY <1>5, <1>6 DEF Abstract!Next

\* cancel_order's work takes one order out of its level.
LEMMA RemoveStep ==
  ASSUME IndInv, NEW id \in Ids, order_map[id] # nullptr, Remove(id)
  PROVE  \E side \in Side, p \in Ticks : \E k \in 1 .. Len(Resting[side][p]) :
           /\ Resting[side][p][k] = [id |-> id, qty |-> pool[order_map[id]].quantity]
           /\ pool[order_map[id]].side = side /\ pool[order_map[id]].price = p
           /\ Resting' = [Resting EXCEPT ![side][p] = Abstract!Without(@, k)]
PROOF
  <1> DEFINE s == order_map[id]
  <1>1. BookType /\ Structure /\ MapSound
    BY FromInvariant
  <1>2. PICK side \in Side, p \in Ticks : \E k \in 1 .. Len(queue[side][p]) :
          s = queue[side][p][k] /\ pool[s].side = side /\ pool[s].price = p /\ pool[s].id = id
    BY <1>1, Found
  <1>3. PICK k \in 1 .. Len(queue[side][p]) :
          s = queue[side][p][k] /\ pool[s].side = side /\ pool[s].price = p /\ pool[s].id = id
    BY <1>2
  <1>4. Detach(s, side, p, id)
    BY <1>3 DEF Remove
  <1>5. Resting' = [Resting EXCEPT ![side][p] = Abstract!Without(@, k)]
    <2> HIDE DEF s
    <2> QED BY <1>1, <1>3, <1>4, DetachWaiting
  <1>6. queue[side][p] \in Seq(Slots) /\ Resting[side][p] = Waiting(pool, queue[side][p])
    BY <1>1, RestingLevel DEF BookType
  <1>7. /\ k \in 1 .. Len(Resting[side][p])
        /\ Resting[side][p][k] = [id |-> id, qty |-> pool[s].quantity]
    BY <1>3, <1>6 DEF Waiting
  <1> QED BY <1>3, <1>5, <1>7

\* cancel_order, and modify_order to zero: an order is cancelled.
LEMMA CancelStep ==
  ASSUME IndInv, NEW id \in Ids, call.pc = "idle", order_map[id] # nullptr, Remove(id),
         UNCHANGED call
  PROVE  Abstract!Next
PROOF
  <1>1. Incoming = <<>> /\ Incoming' = Incoming
    BY DEF Incoming
  <1>2. PICK side \in Side, p \in Ticks : \E k \in 1 .. Len(Resting[side][p]) :
           /\ Resting[side][p][k] = [id |-> id, qty |-> pool[order_map[id]].quantity]
           /\ pool[order_map[id]].side = side /\ pool[order_map[id]].price = p
           /\ Resting' = [Resting EXCEPT ![side][p] = Abstract!Without(@, k)]
    BY RemoveStep
  <1>3. PICK k \in 1 .. Len(Resting[side][p]) : Abstract!Cancel(side, p, k)
    BY <1>1, <1>2 DEF Abstract!Cancel
  <1> QED BY <1>3 DEF Abstract!Next, Abstract!Side, Side

\* modify_order, when it cancels and adds: an order is replaced.
LEMMA ModifyReplaceStep ==
  ASSUME IndInv, NEW id \in Ids, NEW price \in Prices, NEW qty \in Quantities,
         ModifyReplace(id, price, qty)
  PROVE  Abstract!Next
PROOF
  <1> DEFINE o == pool[order_map[id]]
  <1>1. /\ call.pc = "idle" /\ order_map[id] # nullptr /\ Remove(id)
        /\ price # o.price \/ qty > o.quantity
    BY DEF ModifyReplace, Replaces
  <1>2. /\ call'.pc = "match" /\ call'.id = id /\ call'.side = o.side /\ call'.price = price
        /\ call'.qty = qty
    BY DEF ModifyReplace, StartMatch
  <1>3. Incoming = <<>>
        /\ Incoming' = <<[id |-> id, side |-> o.side, price |-> price, qty |-> qty]>>
    BY <1>1, <1>2 DEF Incoming
  <1>4. PICK side \in Side, p \in Ticks : \E k \in 1 .. Len(Resting[side][p]) :
           /\ Resting[side][p][k] = [id |-> id, qty |-> o.quantity]
           /\ o.side = side /\ o.price = p
           /\ Resting' = [Resting EXCEPT ![side][p] = Abstract!Without(@, k)]
    BY <1>1, RemoveStep
  <1>5. PICK k \in 1 .. Len(Resting[side][p]) :
           /\ Resting[side][p][k] = [id |-> id, qty |-> o.quantity]
           /\ o.side = side /\ o.price = p
           /\ Resting' = [Resting EXCEPT ![side][p] = Abstract!Without(@, k)]
    BY <1>4
  <1> HIDE DEF o
  <1>6. Resting[side][p][k].id = id /\ Resting[side][p][k].qty = o.quantity
    BY <1>5
  <1>7. Abstract!Replace(side, p, k, price, qty)
    BY <1>1, <1>3, <1>5, <1>6 DEF Abstract!Replace
  <1> QED BY <1>7 DEF Abstract!Next, Abstract!Side, Side

\* modify_order, when it only lowers the quantity: an order is reduced.
LEMMA ModifyInPlaceStep ==
  ASSUME IndInv, NEW id \in Ids, NEW price \in Prices, NEW qty \in Quantities,
         ModifyInPlace(id, price, qty)
  PROVE  Abstract!Next
PROOF
  <1> DEFINE s == order_map[id]
  <1>1. /\ call.pc = "idle" /\ s # nullptr
        /\ price = pool[s].price /\ ~(qty > pool[s].quantity) /\ qty # 0
        /\ pool' = [pool EXCEPT ![s].quantity = qty] /\ UNCHANGED <<call, queue>>
    BY DEF ModifyInPlace, Replaces
  <1>2. BookType /\ Structure /\ MapSound
    BY FromInvariant
  <1>3. PICK side \in Side, p \in Ticks : \E k \in 1 .. Len(queue[side][p]) : s = queue[side][p][k]
    BY <1>1, <1>2, Found
  <1>4. PICK k \in 1 .. Len(queue[side][p]) : s = queue[side][p][k]
    BY <1>3
  <1>5. Incoming = <<>> /\ Incoming' = Incoming
    BY <1>1 DEF Incoming
  <1> DEFINE w == Waiting(pool, queue[side][p])
  <1>6. /\ Waiting(pool', queue[side][p]) = [w EXCEPT ![k].qty = qty]
        /\ \A x \in Side, r \in Ticks : x # side \/ r # p =>
             Waiting(pool', queue'[x][r]) = Waiting(pool, queue[x][r])
    <2> HIDE DEF s
    <2> QED BY <1>1, <1>2, <1>4, ReduceWaiting
  <1>7. queue[side][p] \in Seq(Slots) /\ Resting[side][p] = w /\ queue' = queue
    BY <1>1, <1>2, RestingLevel DEF BookType
  <1>8. k \in 1 .. Len(Resting[side][p]) /\ Resting[side][p][k].qty = pool[s].quantity
    BY <1>4, <1>7 DEF Waiting
  <1>9. 0 < qty /\ qty <= pool[s].quantity
    <2>1. s \in Slots
      BY <1>4, <1>7
    <2>2. pool[s].quantity \in Nat
      BY <1>2, <2>1, BookAssumption DEF BookType, OrderType
    <2> QED BY <1>1, <2>2, BookAssumption
  <1>10. Resting' = [Resting EXCEPT ![side][p] = [w EXCEPT ![k].qty = qty]]
    <2> DEFINE X == [w EXCEPT ![k].qty = qty]
    <2>1. Waiting(pool', queue'[side][p]) = X
      BY <1>6, <1>7
    <2> HIDE DEF X
    <2>2. Resting' = [Resting EXCEPT ![side][p] = X]
      BY <1>6, <2>1, OneLevel
    <2> QED BY <2>2 DEF X
  <1>11. Resting' = [Resting EXCEPT ![side][p][k].qty = qty]
    <2> HIDE DEF w
    <2> QED BY <1>7, <1>10
  <1>12. Abstract!Reduce(side, p, k, qty)
    BY <1>5, <1>8, <1>9, <1>11 DEF Abstract!Reduce
  <1> QED BY <1>8, <1>12 DEF Abstract!Next, Abstract!Side, Side

\* During a sweep, the first order of the swept level is the one to trade with.
LEMMA SweptFirst ==
  ASSUME IndInv, SweepMatches, Sweeping, NEW opp \in Side, NEW b \in Ticks, Sweep(opp, b),
         1 \in 1 .. Len(queue[opp][b]), call.resting = queue[opp][b][1]
  PROVE  /\ Incoming = <<Taker>> /\ Abstract!Other(Taker.side) = opp
         /\ Abstract!Crossed(Taker) # {} /\ Abstract!Best(Taker) = b
         /\ Resting[opp][b] = Waiting(pool, queue[opp][b])
         /\ queue[opp][b] \in Seq(Slots)
         /\ Resting[opp][b][1] = [id |-> pool[call.resting].id, qty |-> pool[call.resting].quantity]
PROOF
  <1>1. BookType /\ IsMatch /\ opp = opposite /\ b = best[opposite]
    BY FromInvariant DEF SweepMatches, Sweeping, Sweep
  <1>2. queue[opp][b] \in Seq(Slots) /\ Resting[opp][b] = Waiting(pool, queue[opp][b])
    BY <1>1, RestingLevel DEF BookType
  <1>3. b \in Occupied(opp)
    BY <1>2 DEF Occupied
  <1>4. Abstract!Crossed(Taker) # {} /\ Abstract!Best(Taker) = b
    BY <1>1, <1>3, SweptIsBest
  <1>5. Abstract!Other(Taker.side) = opp
    BY <1>1, AbstractCrossed
  <1>6. Incoming = <<Taker>>
    BY DEF Incoming, Taker, Sweeping
  <1>7. Resting[opp][b][1] = [id |-> pool[call.resting].id, qty |-> pool[call.resting].quantity]
    BY <1>2 DEF Waiting
  <1> QED BY <1>2, <1>4, <1>5, <1>6, <1>7

\* A trade with an order that is left with some quantity.
LEMMA TradePartStep ==
  ASSUME IndInv, SweepMatches, TradePart
  PROVE  Abstract!Next
PROOF
  <1>1. Sweeping
    BY DEF TradePart
  <1>2. PICK opp \in Side, b \in Ticks :
           /\ Sweep(opp, b)
           /\ 1 \in 1 .. Len(queue[opp][b]) /\ call.resting = queue[opp][b][1]
           /\ call.resting \in Slots
           /\ pool[call.resting].quantity \in Nat /\ 0 < pool[call.resting].quantity
           /\ call.qty \in Nat /\ 0 < call.qty
    BY <1>1, SweptOrder
  <1> DEFINE s == call.resting
             w == Waiting(pool, queue[opp][b])
             t == TradeQty(pool[s])
             v == pool[s].quantity - t
  <1>3. /\ Incoming = <<Taker>> /\ Abstract!Other(Taker.side) = opp
        /\ Abstract!Crossed(Taker) # {} /\ Abstract!Best(Taker) = b
        /\ Resting[opp][b] = w /\ queue[opp][b] \in Seq(Slots)
        /\ w[1] = [id |-> pool[s].id, qty |-> pool[s].quantity]
    <2> HIDE DEF w
    <2>1. Resting[opp][b] = w
      BY <1>1, <1>2, SweptFirst DEF w
    <2> QED BY <1>1, <1>2, <2>1, SweptFirst
  <1>4. BookType /\ Structure /\ call \in CallType
    BY FromInvariant
  <1>5. /\ pool' = [pool EXCEPT ![s].quantity = v] /\ queue' = queue
        /\ call' = [call EXCEPT !.qty = @ - t] /\ pool[s].quantity # t
    BY <1>4 DEF TradePart, BookType
  <1>6. t = (IF w[1].qty < Taker.qty THEN w[1].qty ELSE Taker.qty) /\ w[1].qty = pool[s].quantity
    BY <1>3 DEF TradeQty, Taker
  <1> HIDE DEF t, s
  <1>7. Incoming' = <<[Taker EXCEPT !.qty = @ - t]>>
    <2>1. call'.pc = "sweep" /\ call'.id = call.id /\ call'.side = call.side
          /\ call'.price = call.price /\ call'.qty = call.qty - t
      BY <1>1, <1>4, <1>5 DEF CallType, Sweeping
    <2> QED BY <2>1 DEF Incoming, Taker
  <1>8. Resting' = [Resting EXCEPT ![opp][b] = [w EXCEPT ![1].qty = @ - t]]
    <2> DEFINE X == [w EXCEPT ![1].qty = v]
    <2>1. /\ Waiting(pool', queue[opp][b]) = X
          /\ \A x \in Side, r \in Ticks : x # opp \/ r # b =>
               Waiting(pool', queue'[x][r]) = Waiting(pool, queue[x][r])
      <3>1. s = queue[opp][b][1]
        BY <1>2 DEF s
      <3> HIDE DEF v
      <3> QED BY <1>2, <1>4, <1>5, <3>1, ReduceWaiting
    <2>2. X = [w EXCEPT ![1].qty = @ - t]
      <3> HIDE DEF w
      <3> QED BY <1>6
    <2>3. Waiting(pool', queue'[opp][b]) = X
      BY <1>5, <2>1
    <2> HIDE DEF X
    <2>4. Resting' = [Resting EXCEPT ![opp][b] = X]
      BY <2>1, <2>3, OneLevel
    <2> QED BY <2>2, <2>4
  <1>9. Taker.qty > 0
    BY <1>2 DEF Taker
  <1> HIDE DEF w
  <1>10. Abstract!Trade
    BY <1>3, <1>5, <1>6, <1>7, <1>8, <1>9 DEF Abstract!Trade
  <1> QED BY <1>10 DEF Abstract!Next

\* A trade that fills the order it is with.
LEMMA TradeFillStep ==
  ASSUME IndInv, SweepMatches, TradeFill
  PROVE  Abstract!Next
PROOF
  <1>1. Sweeping
    BY DEF TradeFill
  <1>2. PICK opp \in Side, b \in Ticks :
           /\ Sweep(opp, b)
           /\ 1 \in 1 .. Len(queue[opp][b]) /\ call.resting = queue[opp][b][1]
           /\ call.resting \in Slots
           /\ pool[call.resting].quantity \in Nat /\ 0 < pool[call.resting].quantity
           /\ call.qty \in Nat /\ 0 < call.qty
    BY <1>1, SweptOrder
  <1> DEFINE s == call.resting
             w == Waiting(pool, queue[opp][b])
             t == TradeQty(pool[s])
  <1>3. /\ Incoming = <<Taker>> /\ Abstract!Other(Taker.side) = opp
        /\ Abstract!Crossed(Taker) # {} /\ Abstract!Best(Taker) = b
        /\ Resting[opp][b] = w /\ queue[opp][b] \in Seq(Slots)
        /\ w[1] = [id |-> pool[s].id, qty |-> pool[s].quantity]
    <2> HIDE DEF w
    <2>1. Resting[opp][b] = w
      BY <1>1, <1>2, SweptFirst DEF w
    <2> QED BY <1>1, <1>2, <2>1, SweptFirst
  <1>4. BookType /\ Structure /\ call \in CallType
    BY FromInvariant
  <1>5. /\ Detach(s, opp, b, pool[s].id) /\ pool[s].id \in Ids
        /\ call' = [call EXCEPT !.qty = @ - t, !.resting = pool[s].next] /\ pool[s].quantity = t
    BY <1>2, <1>4 DEF TradeFill, BookType, OrderType, Sweep
  <1>6. t = (IF w[1].qty < Taker.qty THEN w[1].qty ELSE Taker.qty) /\ w[1].qty = pool[s].quantity
    BY <1>3 DEF TradeQty, Taker
  <1> HIDE DEF t, s
  <1>7. Incoming' = <<[Taker EXCEPT !.qty = @ - t]>>
    <2>1. call'.pc = "sweep" /\ call'.id = call.id /\ call'.side = call.side
          /\ call'.price = call.price /\ call'.qty = call.qty - t
      BY <1>1, <1>4, <1>5 DEF CallType, Sweeping
    <2> QED BY <2>1 DEF Incoming, Taker
  <1>8. Resting' = [Resting EXCEPT ![opp][b] = Abstract!Without(@, 1)]
    <2>1. s = queue[opp][b][1]
      BY <1>2 DEF s
    <2> QED BY <1>2, <1>4, <1>5, <2>1, DetachWaiting
  <1>9. Abstract!Without(w, 1) = Tail(w)
    <2>1. w \in Seq([id : Ids, qty : Nat]) /\ Len(w) \in Nat /\ Len(w) >= 1
      <3>1. \A x \in Slots : pool[x].id \in Ids /\ pool[x].quantity \in Nat
        BY <1>4, BookAssumption DEF BookType, OrderType
      <3> QED BY <1>2, <1>3, <3>1 DEF Waiting
    <2>2. Abstract!Without(w, 1) = [j \in 1 .. Len(w) - 1 |-> w[j + 1]]
      BY <2>1 DEF Abstract!Without
    <2>3. Tail(w) = [j \in 1 .. Len(w) - 1 |-> w[j + 1]]
      <3> HIDE DEF w
      <3>1. w # <<>>
        BY <2>1
      <3>2. Tail(w) \in Seq([id : Ids, qty : Nat]) /\ Len(Tail(w)) = Len(w) - 1
        BY <2>1, <3>1
      <3>3. \A j \in 1 .. Len(w) - 1 : Tail(w)[j] = w[j + 1]
        BY <2>1, <3>1
      <3>4. Tail(w) = [j \in 1 .. Len(w) - 1 |-> Tail(w)[j]]
        BY <3>2, LenProperties
      <3> QED BY <3>3, <3>4
    <2> QED BY <2>2, <2>3
  <1>10. Taker.qty > 0
    BY <1>2 DEF Taker
  <1> HIDE DEF w
  <1>11. Resting' = [Resting EXCEPT ![opp][b] = Tail(w)]
    BY <1>3, <1>8, <1>9
  <1>12. Abstract!Trade
    BY <1>3, <1>5, <1>6, <1>7, <1>10, <1>11 DEF Abstract!Trade
  <1> QED BY <1>12 DEF Abstract!Next

\* A call that returns with nothing to add: the incoming order settles.
LEMMA ReturnStep ==
  ASSUME IndInv, ~Redelivery, Return
  PROVE  Abstract!Next
PROOF
  <1>1. call.pc = "match" /\ call.qty = 0 /\ UNCHANGED <<pool, queue>> /\ call'.pc = "idle"
    BY AlwaysRoom DEF Return, book, NoCall
  <1>2. Incoming = <<Taker>> /\ Incoming' = <<>> /\ Taker.qty = 0 /\ Resting' = Resting
    BY <1>1, RestingSame DEF Incoming, Taker
  <1>3. Abstract!Settle
    BY <1>2 DEF Abstract!Settle
  <1> QED BY <1>3 DEF Abstract!Next

\* The end of add_order: the rest of the incoming order joins its level.
LEMMA RestStep ==
  ASSUME IndInv, Rest
  PROVE  Abstract!Next
PROOF
  <1> DEFINE s == free_list[Len(free_list)]
             side == call.side
             p == call.price
             q == queue[side][p]
             o == [id |-> call.id, qty |-> call.qty]
  <1>1. BookType /\ Structure /\ call \in CallType /\ call.qty < QTY_MOD
    BY FromInvariant DEF IndInv
  <1>2. /\ call.pc = "match" /\ ~Matching /\ call.qty # 0 /\ free_list # <<>>
        /\ queue' = [queue EXCEPT ![side][p] = Append(@, s)] /\ call'.pc = "idle"
    BY DEF Rest, NoCall
  <1>3. side \in Side /\ p \in Ticks /\ call.qty \in Nat
    BY <1>1 DEF CallType
  <1>4. s \in Slots /\ s \in Entries(free_list)
    <2>1. free_list \in Seq(Slots) /\ NoRepeats(free_list)
      BY <1>1 DEF BookType, Structure, PoolPartitioned
    <2> QED BY <1>2, <2>1, FrontCorrect
  <1>5. \A x \in Side, r \in Ticks : s \notin Listed(x, r) /\ queue[x][r] \in Seq(Slots)
    BY <1>1, <1>4 DEF Structure, PoolPartitioned, BookType
  <1>6. /\ pool'[s].id = call.id /\ pool'[s].quantity = call.qty
        /\ \A t \in Slots \ {s} : pool'[t].id = pool[t].id /\ pool'[t].quantity = pool[t].quantity
    <2>1. call.qty % QTY_MOD = call.qty
      BY <1>1, <1>3, BookAssumption
    <2>2. \A t \in Slots : pool[t] \in OrderType
      BY <1>1 DEF BookType
    <2>3. pool'[s].id = call.id /\ pool'[s].quantity = call.qty
      BY <1>4, <2>1 DEF Rest
    <2>4. \A t \in Slots \ {s} : pool'[t].id = pool[t].id /\ pool'[t].quantity = pool[t].quantity
      BY <2>2 DEF Rest, OrderType
    <2> QED BY <2>3, <2>4
  <1>7. ASSUME NEW x \in Side, NEW r \in Ticks
        PROVE  /\ \A i \in 1 .. Len(queue[x][r]) : queue[x][r][i] \in Slots \ {s}
               /\ Waiting(pool', queue[x][r]) = Waiting(pool, queue[x][r])
    <2>1. \A i \in 1 .. Len(queue[x][r]) : queue[x][r][i] \in Slots \ {s}
      BY <1>5, <1>7 DEF Listed, Entries
    <2> QED BY <1>6, <2>1 DEF Waiting
  <1>8. /\ \A x \in Side, r \in Ticks : x # side \/ r # p => queue'[x][r] = queue[x][r]
        /\ queue'[side][p] = Append(q, s)
    BY <1>1, <1>2, <1>3 DEF BookType
  <1> HIDE DEF s
  <1>9. Waiting(pool', Append(q, s)) = Append(Waiting(pool, q), o)
    <2> DEFINE n == Len(q)
               w == Waiting(pool, q)
    <2>1. q \in Seq(Slots) /\ n \in Nat
      BY <1>3, <1>5
    <2>2. /\ Len(Append(q, s)) = n + 1 /\ Append(q, s)[n + 1] = s
          /\ \A i \in 1 .. n : Append(q, s)[i] = q[i]
      BY <1>4, <2>1
    <2>3. Waiting(pool', q) = w
      BY <1>3, <1>7
    <2>4. w \in Seq([id : Ids, qty : Nat]) /\ Len(w) = n /\ o \in [id : Ids, qty : Nat]
      <3>1. \A x \in Slots : pool[x].id \in Ids /\ pool[x].quantity \in Nat
        BY <1>1, BookAssumption DEF BookType, OrderType
      <3>2. call.id \in Ids
        BY <1>1 DEF CallType
      <3> QED BY <1>3, <2>1, <3>1, <3>2 DEF Waiting
    <2>5. Append(w, o) = [i \in 1 .. n + 1 |-> IF i = n + 1 THEN o ELSE w[i]]
      <3> HIDE DEF w, o, n
      <3>1. Append(w, o) \in Seq([id : Ids, qty : Nat]) /\ Len(Append(w, o)) = n + 1
        BY <2>4
      <3>2. \A i \in 1 .. n + 1 : Append(w, o)[i] = IF i = n + 1 THEN o ELSE w[i]
        BY <2>1, <2>4
      <3>3. Append(w, o) = [i \in 1 .. n + 1 |-> Append(w, o)[i]]
        BY <3>1, LenProperties
      <3> QED BY <3>2, <3>3
    <2>6. ASSUME NEW i \in 1 .. n + 1
          PROVE  [id |-> pool'[Append(q, s)[i]].id, qty |-> pool'[Append(q, s)[i]].quantity] =
                 IF i = n + 1 THEN o ELSE w[i]
      <3>1. CASE i = n + 1
        BY <1>6, <2>2, <3>1
      <3>2. CASE i # n + 1
        <4>1. i \in 1 .. n
          BY <2>1, <3>2
        <4>2. w[i] = [id |-> pool'[q[i]].id, qty |-> pool'[q[i]].quantity]
          BY <2>3, <4>1 DEF Waiting
        <4> QED BY <2>2, <3>2, <4>1, <4>2
      <3> QED BY <3>1, <3>2
    <2>7. Waiting(pool', Append(q, s)) = [i \in 1 .. n + 1 |->
             [id |-> pool'[Append(q, s)[i]].id, qty |-> pool'[Append(q, s)[i]].quantity]]
      BY <2>2 DEF Waiting
    <2> QED BY <2>5, <2>6, <2>7
  <1>10. Resting' = [Resting EXCEPT ![side][p] = Append(@, o)]
    <2> DEFINE X == Append(Waiting(pool, q), o)
    <2>1. Waiting(pool', queue'[side][p]) = X
      BY <1>8, <1>9
    <2>2. \A x \in Side, r \in Ticks : x # side \/ r # p =>
            Waiting(pool', queue'[x][r]) = Waiting(pool, queue[x][r])
      BY <1>7, <1>8
    <2> HIDE DEF X
    <2>3. Resting' = [Resting EXCEPT ![side][p] = X]
      BY <1>3, <2>1, <2>2, OneLevel
    <2>4. Resting[side][p] = Waiting(pool, q)
      BY <1>3, RestingLevel
    <2> QED BY <2>3, <2>4 DEF X
  <1>11. /\ Incoming = <<Taker>> /\ Incoming' = <<>> /\ Taker.qty # 0 /\ Taker.side = side
         /\ Taker.price = p /\ o = [id |-> Taker.id, qty |-> Taker.qty]
    BY <1>2 DEF Incoming, Taker
  <1>12. Abstract!Crossed(Taker) = {}
    BY <1>2, <1>3, NothingCrossed DEF Matching
  <1> HIDE DEF o, side, p
  <1>13. Abstract!Settle
    BY <1>10, <1>11, <1>12 DEF Abstract!Settle
  <1> QED BY <1>13 DEF Abstract!Next

\* What begins and ends the sweep of a level changes nothing that the limit
\* order book sees.
LEMMA SweepStutter ==
  ASSUME IndInv, StartSweep \/ EndSweep \/ UNCHANGED vars
  PROVE  UNCHANGED Abstract!vars
PROOF
  <1>1. call \in CallType
    BY FromInvariant
  <1>2. UNCHANGED <<pool, queue>>
    BY DEF StartSweep, EndSweep, vars, book
  <1>3. Incoming' = Incoming
    <2>1. \/ call.pc # "idle" /\ call'.pc # "idle"
          \/ call' = call
      BY <1>1 DEF StartSweep, EndSweep, vars, CallType
    <2>2. call'.id = call.id /\ call'.side = call.side /\ call'.price = call.price
          /\ call'.qty = call.qty
      BY <1>1 DEF StartSweep, EndSweep, vars, CallType
    <2> QED BY <2>1, <2>2 DEF Incoming
  <1> QED BY <1>2, <1>3, RestingSame DEF Abstract!vars

\* The price of the incoming order reaches the level while it is swept: nothing
\* in a sweep changes the two prices that were compared.
LEMMA SweepMatchesKept ==
  ASSUME IndInv, SweepMatches, [Next]_vars
  PROVE  SweepMatches'
PROOF
  <1>1. call \in CallType
    BY FromInvariant
  <1>2. ASSUME UNCHANGED best, call'.side = call.side, call'.price = call.price, IsMatch
        PROVE  SweepMatches'
    BY <1>2 DEF SweepMatches, IsMatch
  <1>3. CASE Calls
    <2>1. ASSUME NEW id \in Ids, NEW price \in Prices, NEW qty \in Quantities, NEW side \in Side,
                 AddOrder(id, price, qty, side) \/ ModifyReplace(id, price, qty)
          PROVE  call'.pc = "match"
      BY <2>1 DEF AddOrder, ModifyReplace, StartMatch
    <2>2. ASSUME NEW id \in Ids, CancelOrder(id)
          PROVE  call'.pc = "idle"
      BY <2>2 DEF CancelOrder
    <2>3. ASSUME NEW id \in Ids, NEW price \in Prices, NEW qty \in Quantities,
                 ModifyToZero(id, price, qty) \/ ModifyInPlace(id, price, qty)
          PROVE  call'.pc = "idle"
      BY <2>3 DEF ModifyToZero, ModifyInPlace
    <2>4. "B" \in Side
      BY DEF Side
    <2>5. call'.pc # "sweep"
      BY <1>3, <2>1, <2>2, <2>3, <2>4 DEF Calls
    <2> QED BY <2>5 DEF SweepMatches
  <1>4. CASE StartSweep
    BY <1>1, <1>2, <1>4 DEF StartSweep, Matching, book, CallType
  <1>5. CASE TradePart
    BY <1>1, <1>2, <1>5 DEF TradePart, Sweeping, SweepMatches, CallType
  <1>6. CASE TradeFill
    BY <1>1, <1>2, <1>6 DEF TradeFill, Sweeping, SweepMatches, CallType
  <1>7. CASE EndSweep \/ Return \/ Rest
    <2>1. CASE EndSweep
      BY <1>1, <2>1 DEF EndSweep, SweepMatches, CallType
    <2>2. CASE Return \/ Rest
      BY <2>2 DEF Return, Rest, NoCall, SweepMatches
    <2> QED BY <1>7, <2>1, <2>2
  <1>8. CASE UNCHANGED vars
    BY <1>8 DEF vars, SweepMatches, IsMatch
  <1> QED BY <1>3, <1>4, <1>5, <1>6, <1>7, <1>8 DEF Next, Match

\* Every step of the book is a step of the limit order book or hidden from it.
LEMMA StepRefines ==
  ASSUME QuantitiesFit, ~Redelivery, IndInv, SweepMatches, [Next]_vars
  PROVE  [Abstract!Next]_Abstract!vars
PROOF
  <1>1. ASSUME NEW id \in Ids, NEW price \in Prices, NEW qty \in Quantities, NEW side \in Side,
               AddOrder(id, price, qty, side)
        PROVE  Abstract!Next
    BY <1>1, AddOrderStep
  <1>2. ASSUME NEW id \in Ids, NEW price \in Prices, NEW qty \in Quantities,
               ModifyReplace(id, price, qty) \/ ModifyToZero(id, price, qty)
               \/ ModifyInPlace(id, price, qty)
        PROVE  Abstract!Next
    <2>1. CASE ModifyReplace(id, price, qty)
      BY <2>1, ModifyReplaceStep
    <2>2. CASE ModifyToZero(id, price, qty)
      BY <2>2, CancelStep DEF ModifyToZero
    <2>3. CASE ModifyInPlace(id, price, qty)
      BY <2>3, ModifyInPlaceStep
    <2> QED BY <1>2, <2>1, <2>2, <2>3
  <1>3. ASSUME NEW id \in Ids, CancelOrder(id) PROVE Abstract!Next
    BY <1>3, CancelStep DEF CancelOrder
  <1>4. CASE Calls
    BY <1>1, <1>2, <1>3, <1>4 DEF Calls
  <1>5. CASE TradePart \/ TradeFill
    BY <1>5, TradePartStep, TradeFillStep
  <1>6. CASE Return \/ Rest
    BY <1>6, ReturnStep, RestStep
  <1>7. CASE StartSweep \/ EndSweep \/ UNCHANGED vars
    BY <1>7, SweepStutter
  <1> QED BY <1>4, <1>5, <1>6, <1>7 DEF Next, Match

\* The order book of OrderBook.h is a limit order book with price-time priority:
\* whatever the calls, levels, links, bitmaps and caches do what LimitOrderBook
\* says, provided that quantities fit an order and no Add repeats a resting id.
THEOREM BookRefinement ==
  QuantitiesFit /\ ~Redelivery => (Spec => ImplementsLimitOrderBook)
PROOF
  <1> SUFFICES ASSUME QuantitiesFit, ~Redelivery PROVE Spec => ImplementsLimitOrderBook
    OBVIOUS
  <1>1. Init => Abstract!Init /\ SweepMatches
    <2> SUFFICES ASSUME Init PROVE Abstract!Init /\ SweepMatches
      OBVIOUS
    <2>1. call.pc = "idle" /\ queue = [side \in Side |-> [p \in Ticks |-> <<>>]]
      BY DEF Init, NoCall
    <2>2. Incoming = <<>> /\ SweepMatches
      BY <2>1 DEF Incoming, SweepMatches
    <2>3. ASSUME NEW side \in Side, NEW p \in Ticks PROVE Waiting(pool, queue[side][p]) = <<>>
      BY <2>1 DEF Waiting
    <2>4. Resting = [side \in Side |-> [p \in Ticks |-> <<>>]]
      BY <2>3 DEF Resting, Waiting
    <2> QED BY <2>2, <2>4 DEF Abstract!Init, Abstract!Side, Side
  <1>2. IndInv /\ SweepMatches /\ [Next]_vars => SweepMatches'
    BY SweepMatchesKept
  <1>3. IndInv /\ SweepMatches /\ [Next]_vars => [Abstract!Next]_Abstract!vars
    BY StepRefines
  <1>4. Spec => []IndInv
    BY BookInductive
  <1> QED BY <1>1, <1>2, <1>3, <1>4, PTL DEF Spec, ImplementsLimitOrderBook, Abstract!Spec
-------------------------------------------------------------------------------
\* match_order comes to an end.

\* A message's price, which the run book_zero_price shows must not be 0.
Priced == call.pc # "idle" => call.price \in Prices

LEMMA PricedKept ==
  ASSUME IndInv, Priced, [Next]_vars
  PROVE  Priced'
PROOF
  <1>1. call \in CallType
    BY FromInvariant
  <1>2. CASE Match
    <2>1. call.pc # "idle" /\ (call'.pc = "idle" \/ call'.price = call.price)
      <3>1. CASE StartSweep \/ EndSweep
        BY <1>1, <3>1 DEF StartSweep, EndSweep, CallType
      <3>2. CASE TradePart \/ TradeFill
        BY <1>1, <3>2 DEF TradePart, TradeFill, Sweeping, CallType
      <3>3. CASE Return \/ Rest
        BY <3>3 DEF Return, Rest, NoCall
      <3> QED BY <1>2, <3>1, <3>2, <3>3 DEF Match
    <2> QED BY <2>1 DEF Priced
  <1>3. CASE Calls
    <2>1. ASSUME NEW id \in Ids, NEW price \in Prices, NEW qty \in Quantities, NEW side,
                 StartMatch(id, price, qty, side)
          PROVE  Priced'
      BY <2>1 DEF StartMatch, Priced
    <2>2. ASSUME NEW id \in Ids, NEW price \in Prices, NEW qty \in Quantities, NEW side \in Side,
                 AddOrder(id, price, qty, side)
          PROVE  Priced'
      BY <2>1, <2>2 DEF AddOrder
    <2>3. ASSUME NEW id \in Ids, NEW price \in Prices, NEW qty \in Quantities,
                 ModifyReplace(id, price, qty)
          PROVE  Priced'
      BY <2>1, <2>3 DEF ModifyReplace
    <2>4. ASSUME call' = call PROVE Priced'
      BY <2>4 DEF Priced
    <2> QED BY <1>3, <2>2, <2>3, <2>4 DEF Calls, CancelOrder, ModifyToZero, ModifyInPlace
  <1>4. CASE UNCHANGED vars
    BY <1>4 DEF vars, Priced
  <1> QED BY <1>2, <1>3, <1>4 DEF Next

\* A list of different slots is no longer than the pool.
LEMMA FreeFits ==
  ASSUME NEW list \in Seq(Slots), NoRepeats(list)
  PROVE  Len(list) \in 0 .. MAX_ORDERS
PROOF
  <1> DEFINE n == Len(list)
  <1>1. n \in Nat /\ list \in [1 .. n -> Slots]
    OBVIOUS
  <1>2. list \in Injection(1 .. n, Slots)
    BY <1>1 DEF Injection, IsInjective, NoRepeats
  <1>3. IsFiniteSet(Slots) /\ Cardinality(Slots) = MAX_ORDERS /\ Cardinality(1 .. n) = n
    <2>1. MAX_ORDERS \in Int /\ MAX_ORDERS >= 1 /\ 1 \in Int /\ n \in Int
      BY <1>1, BookAssumption
    <2> HIDE DEF n
    <2>2. IsFiniteSet(1 .. MAX_ORDERS)
          /\ Cardinality(1 .. MAX_ORDERS) = IF 1 > MAX_ORDERS THEN 0 ELSE MAX_ORDERS - 1 + 1
      BY <2>1, FS_Interval
    <2>3. Cardinality(1 .. n) = IF 1 > n THEN 0 ELSE n - 1 + 1
      BY <2>1, FS_Interval
    <2> QED BY <1>1, <2>1, <2>2, <2>3 DEF Slots
  <1> HIDE DEF n
  <1>4. Cardinality(1 .. n) <= Cardinality(Slots)
    BY <1>2, <1>3, FS_Injection
  <1> QED BY <1>1, <1>3, <1>4, BookAssumption DEF n

\* The level that a round of the outer loop begins with holds an order.
LEMMA SweptLevelOccupied ==
  ASSUME IndInv, Priced, 0 \notin Prices, call.pc = "match", IsMatch
  PROVE  /\ opposite \in Side /\ best[opposite] \in Ticks
         /\ levels[opposite][best[opposite]].head # nullptr
PROOF
  <1>1. Exact /\ call \in CallType /\ call.price \in Prices
    BY FromInvariant DEF Priced
  <1>2. call.side \in Side /\ call.price \in Nat /\ call.price # 0 /\ call.price < UINT32_MAX
    BY <1>1, Constants DEF CallType
  <1>3. ASSUME NEW side \in Side
        PROVE  /\ price_bits[side] \in BitSetType /\ Summarised(price_bits[side])
               /\ Members(price_bits[side]) = Occupied(side)
    BY <1>1 DEF Exact, BitsType, Cached
  <1>4. UINT32_MAX \in Nat
    BY TicksAssumption
  <1>5. opposite \in Side /\ best[opposite] \in Occupied(opposite)
    <2>1. CASE call.side = "B"
      <3>1. opposite = "S" /\ "S" \in Side /\ call.price >= best["S"]
        BY <2>1 DEF opposite, Opposite, IsMatch, Side
      <3>2. best["S"] = get_lowest(price_bits["S"])
        BY <1>1 DEF Exact, Cached
      <3>3. Members(price_bits["S"]) # {}
        <4> SUFFICES ASSUME Members(price_bits["S"]) = {} PROVE FALSE
          OBVIOUS
        <4>1. best["S"] = UINT32_MAX
          BY <1>3, <3>1, <3>2, ScanCorrect
        <4> QED BY <1>2, <1>4, <3>1, <4>1
      <3>4. best["S"] \in Members(price_bits["S"])
        BY <1>3, <3>1, <3>2, <3>3, ScanCorrect
      <3> QED BY <1>3, <3>1, <3>4
    <2>2. CASE call.side # "B"
      <3>1. opposite = "B" /\ "B" \in Side /\ call.price <= best["B"]
        BY <1>2, <2>2 DEF opposite, Opposite, IsMatch, Side
      <3>2. best["B"] = get_highest(price_bits["B"])
        BY <1>1 DEF Exact, Cached
      <3>3. Members(price_bits["B"]) # {}
        <4> SUFFICES ASSUME Members(price_bits["B"]) = {} PROVE FALSE
          OBVIOUS
        <4>1. best["B"] = 0
          BY <1>3, <3>1, <3>2, ScanCorrect
        <4> QED BY <1>2, <3>1, <4>1
      <3>4. best["B"] \in Members(price_bits["B"])
        BY <1>3, <3>1, <3>2, <3>3, ScanCorrect
      <3> QED BY <1>3, <3>1, <3>4
    <2> QED BY <2>1, <2>2
  <1>6. PICK opp \in Side, b \in Ticks : opp = opposite /\ b = best[opposite] /\ queue[opp][b] # <<>>
    BY <1>5 DEF Occupied
  <1>7. LevelSound(opp, b) /\ queue[opp][b] \in Seq(Slots)
    BY <1>1 DEF Exact, Structure, BookType
  <1>8. queue[opp][b][1] \in Slots
    BY <1>6, <1>7, EmptyList
  <1>9. levels[opp][b].head = queue[opp][b][1]
    BY <1>6, <1>7 DEF LevelSound, Linked
  <1> QED BY <1>5, <1>6, <1>8, <1>9, Constants

\* Every step of match_order and of what follows it lowers the measure.
LEMMA MatchProgresses ==
  ASSUME QuantitiesFit, IndInv, Priced, 0 \notin Prices, Match
  PROVE  Measure' < Measure /\ Measure' >= 0
PROOF
  <1> DEFINE u == MAX_ORDERS - Len(free_list)
             v == MAX_ORDERS - Len(free_list')
             g == IF call.qty > 0 THEN 1 ELSE 0
             h == IF call'.qty > 0 THEN 1 ELSE 0
  <1>1. IndInv'
    BY StepCorrect DEF Next
  <1>2. Len(free_list) \in 0 .. MAX_ORDERS /\ Len(free_list') \in 0 .. MAX_ORDERS
    <2>1. free_list \in Seq(Slots) /\ NoRepeats(free_list)
      BY DEF IndInv, TypeOK, Structure, PoolPartitioned
    <2>2. free_list' \in Seq(Slots) /\ NoRepeats(free_list')
      BY <1>1 DEF IndInv, TypeOK, Structure, PoolPartitioned, NoRepeats
    <2> QED BY <2>1, <2>2, FreeFits
  <1>3. u \in Nat /\ v \in Nat /\ g \in {0, 1} /\ h \in {0, 1}
    BY <1>2, BookAssumption
  <1>4. Remaining = u + g /\ Remaining' = v + h
    BY DEF Remaining
  <1>5. call \in CallType
    BY FromInvariant
  <1> HIDE DEF u, v, g, h
  <1>6. CASE StartSweep
    <2>1. /\ call.pc = "match" /\ call.qty > 0 /\ IsMatch /\ free_list' = free_list
          /\ call' = [call EXCEPT !.pc = "sweep", !.resting = levels[opposite][best[opposite]].head]
      BY <1>6 DEF StartSweep, Matching, book
    <2>2. levels[opposite][best[opposite]].head # nullptr
      BY <2>1, SweptLevelOccupied
    <2>3. call'.pc = "sweep" /\ call'.qty = call.qty /\ call'.resting # nullptr
      BY <1>5, <2>1, <2>2 DEF CallType
    <2>4. Sweeping' /\ v = u /\ h = g
      BY <2>1, <2>3 DEF Sweeping, u, v, g, h
    <2>5. Measure = 3 * (u + g) + 1 /\ Measure' = 3 * (u + g) + 0
      BY <1>4, <2>1, <2>3, <2>4 DEF Measure
    <2> QED BY <1>3, <2>5
  <1>7. CASE TradePart \/ TradeFill
    <2>1. Sweeping /\ call.pc = "sweep" /\ call.qty > 0
      BY <1>7 DEF TradePart, TradeFill, Sweeping
    <2>2. Measure = 3 * (u + g) + 0 /\ g = 1
      BY <1>4, <2>1 DEF Measure, g
    <2>3. call'.pc = "sweep"
      BY <1>5, <1>7, <2>1 DEF TradePart, TradeFill, CallType
    <2>4. Measure' <= 3 * (v + h) + 2 /\ Measure' >= 0
      <3>1. Measure' = 3 * (v + h) + (IF Sweeping' THEN 0 ELSE 2)
        BY <1>4, <2>3 DEF Measure
      <3> QED BY <1>3, <3>1
    <2>5. v + h < u + g
      <3>1. CASE TradeFill
        <4>1. free_list' = Append(free_list, call.resting)
          BY <3>1 DEF TradeFill, Detach, Deallocate
        <4>2. free_list \in Seq(Slots)
          BY FromInvariant DEF BookType
        <4>3. call.resting \in Slots
          BY <2>1, SweptOrder
        <4>4. Len(free_list') = Len(free_list) + 1
          BY <4>1, <4>2, <4>3
        <4>5. v = u - 1
          BY <1>2, <4>4, BookAssumption DEF u, v
        <4> QED BY <1>3, <2>2, <4>5
      <3>2. CASE TradePart
        <4> DEFINE o == pool[call.resting].quantity
                   c == call.qty
        <4>1. o \in Nat /\ c \in Nat
          BY <2>1, SweptOrder
        <4>2. TradeQty(pool[call.resting]) = (IF o < c THEN o ELSE c) /\ o # TradeQty(pool[call.resting])
          BY <3>2 DEF TradePart, TradeQty
        <4>3. call'.qty = c - TradeQty(pool[call.resting])
          BY <1>5, <3>2 DEF TradePart, CallType
        <4> HIDE DEF o, c
        <4>4. call'.qty = 0
          BY <4>1, <4>2, <4>3
        <4>5. h = 0 /\ v = u
          BY <3>2, <4>4 DEF h, u, v, TradePart
        <4> QED BY <1>3, <2>2, <4>5
      <3> QED BY <1>7, <3>1, <3>2
    <2>6. Measure' \in Int
      <3>1. Measure' = 3 * (v + h) + (IF Sweeping' THEN 0 ELSE 2)
        BY <1>4, <2>3 DEF Measure
      <3> QED BY <1>3, <3>1
    <2> QED BY <1>3, <2>2, <2>4, <2>5, <2>6
  <1>8. CASE EndSweep
    <2>1. /\ call.pc = "sweep" /\ ~Sweeping /\ call'.pc = "match" /\ call'.qty = call.qty
          /\ free_list' = free_list
      BY <1>5, <1>8 DEF EndSweep, CallType
    <2>2. v = u /\ h = g
      BY <2>1 DEF u, v, g, h
    <2>3. Measure = 3 * (u + g) + 2 /\ Measure' = 3 * (u + g) + 1
      BY <1>4, <2>1, <2>2 DEF Measure
    <2> QED BY <1>3, <2>3
  <1>9. CASE Return \/ Rest
    <2>1. call.pc = "match" /\ call'.pc = "idle"
      BY <1>9 DEF Return, Rest, NoCall
    <2>2. Measure = 3 * (u + g) + 1 /\ Measure' = 0
      BY <1>4, <2>1 DEF Measure
    <2> QED BY <1>3, <2>2
  <1> QED BY <1>6, <1>7, <1>8, <1>9 DEF Match

\* Every round of match_order's loops lowers a natural number, so that no call runs for
\* ever, provided that no message carries the price 0.
THEOREM MatchingEnds == QuantitiesFit /\ 0 \notin Prices => (Spec => RoundsProgress)
PROOF
  <1> SUFFICES ASSUME QuantitiesFit, 0 \notin Prices PROVE Spec => RoundsProgress
    OBVIOUS
  <1>1. Init => Priced
    BY DEF Init, NoCall, Priced
  <1>2. IndInv /\ Priced /\ [Next]_vars => Priced'
    BY PricedKept
  <1>3. IndInv /\ Priced /\ [Next]_vars =>
          [call.pc # "idle" => Measure' < Measure /\ Measure' >= 0]_vars
    <2> SUFFICES ASSUME IndInv, Priced, Next, call.pc # "idle"
                 PROVE  Measure' < Measure /\ Measure' >= 0
      OBVIOUS
    <2>1. ~Calls
      BY DEF Calls, AddOrder, CancelOrder, ModifyReplace, ModifyToZero, ModifyInPlace
    <2> QED BY <2>1, MatchProgresses DEF Next
  <1>4. Spec => []IndInv
    BY BookInductive
  <1> QED BY <1>1, <1>2, <1>3, <1>4, PTL DEF Spec, RoundsProgress
-------------------------------------------------------------------------------
\* What a repeated id cannot harm.

\* No order with this id rests in the book.
Unlisted(id) == \A side \in Side, p \in Ticks : \A s \in Listed(side, p) : pool[s].id # id

\* An incoming order whose id was never repeated has no namesake in the book, so that
\* order_map does not lose one when the order rests.
IncomingAlone == call.pc # "idle" /\ call.id \notin repeated => Unlisted(call.id)

Confined == HarmConfined /\ IncomingAlone

\* A step after which the same orders, or fewer, rest under the same ids, and
\* order_map has changed for none of the ids that were never repeated.
LEMMA ConfinedShrink ==
  ASSUME HarmConfined, repeated \subseteq repeated',
         \A x \in Side, r \in Ticks : \A t \in Entries(queue'[x][r]) :
           /\ t \in Listed(x, r)
           /\ pool'[t].id = pool[t].id
           /\ pool[t].id \notin repeated => order_map'[pool[t].id] = order_map[pool[t].id]
  PROVE  HarmConfined' /\ \A id : Unlisted(id) => Unlisted(id)'
PROOF
  <1>1. HarmConfined'
    <2> SUFFICES ASSUME NEW x \in Side, NEW r \in Ticks, NEW t \in Entries(queue'[x][r]),
                        pool'[t].id \notin repeated'
                 PROVE  order_map'[pool'[t].id] = t
      BY Zenon DEF HarmConfined, Listed
    <2>1. t \in Listed(x, r) /\ pool'[t].id = pool[t].id /\ pool[t].id \notin repeated
      OBVIOUS
    <2>2. order_map[pool[t].id] = t
      BY <2>1 DEF HarmConfined
    <2> QED BY <2>1, <2>2
  <1>2. ASSUME NEW id, Unlisted(id)
        PROVE  Unlisted(id)'
    <2> SUFFICES ASSUME NEW x \in Side, NEW r \in Ticks, NEW t \in Entries(queue'[x][r])
                 PROVE  pool'[t].id # id
      BY Zenon DEF Unlisted, Listed
    <2> QED BY <1>2 DEF Unlisted
  <1> QED BY <1>1, <1>2

\* A step that leaves the lists, the ids and order_map as they are.
LEMMA ConfinedSame ==
  ASSUME HarmConfined, repeated \subseteq repeated', queue' = queue, order_map' = order_map,
         \A x \in Side, r \in Ticks : \A t \in Listed(x, r) : pool'[t].id = pool[t].id
  PROVE  HarmConfined' /\ \A id : Unlisted(id) => Unlisted(id)'
PROOF
  <1>1. \A x \in Side, r \in Ticks : \A t \in Entries(queue'[x][r]) :
          /\ t \in Listed(x, r)
          /\ pool'[t].id = pool[t].id
          /\ pool[t].id \notin repeated => order_map'[pool[t].id] = order_map[pool[t].id]
    BY DEF Listed
  <1> QED BY <1>1, ConfinedShrink

\* Detach() of an order makes order_map forget no other order, unless its id was repeated.
LEMMA ConfinedDetach ==
  ASSUME BookType, Structure, HarmConfined, NEW side \in Side, NEW p \in Ticks,
         NEW k \in 1 .. Len(queue[side][p]), NEW s, s = queue[side][p][k],
         NEW id \in Ids, id = pool[s].id, Detach(s, side, p, id), repeated \subseteq repeated'
  PROVE  HarmConfined' /\ \A i : Unlisted(i) => Unlisted(i)'
PROOF
  <1>1. /\ s \in Slots /\ s \in Listed(side, p)
        /\ \A x \in Side, r \in Ticks : /\ Entries(queue'[x][r]) \subseteq Listed(x, r)
                                        /\ s \notin Entries(queue'[x][r])
    BY DetachEffect
  <1>2. \A i \in Ids \ {id} : order_map'[i] = order_map[i]
    BY DEF Detach, Forget, BookType
  <1>3. pool' = Unlinked(s)
    BY DEF Detach
  <1>4. \A t \in Slots \ {s} : pool'[t].id = pool[t].id /\ pool[t].id \in Ids
    <2>1. \A t \in Slots \ {s} : pool'[t].id = pool[t].id
      BY <1>1, <1>3, UnlinkedKeepsIds
    <2> QED BY <2>1 DEF BookType, OrderType
  <1>5. ASSUME NEW x \in Side, NEW r \in Ticks, NEW t \in Entries(queue'[x][r])
        PROVE  /\ t \in Listed(x, r)
               /\ pool'[t].id = pool[t].id
               /\ pool[t].id \notin repeated => order_map'[pool[t].id] = order_map[pool[t].id]
    <2>1. t \in Listed(x, r) /\ t # s
      BY <1>1
    <2>2. t \in Slots
      BY <2>1, EntriesIn DEF BookType, Listed
    <2>3. ASSUME pool[t].id \notin repeated PROVE pool[t].id # id
      <3>1. order_map[pool[t].id] = t
        BY <2>1, <2>3 DEF HarmConfined
      <3>2. pool[s].id \notin repeated => order_map[pool[s].id] = s
        BY <1>1 DEF HarmConfined
      <3> QED BY <2>1, <2>3, <3>1, <3>2
    <2> QED BY <1>2, <1>4, <2>1, <2>2, <2>3
  <1> QED BY <1>5, ConfinedShrink

\* cancel_order's work.
LEMMA ConfinedRemove ==
  ASSUME IndInv, HarmConfined, NEW id \in Ids, order_map[id] # nullptr, Remove(id),
         repeated \subseteq repeated'
  PROVE  HarmConfined'
PROOF
  <1>1. BookType /\ Structure /\ MapSound
    BY FromInvariant
  <1>2. PICK side \in Side, p \in Ticks : \E k \in 1 .. Len(queue[side][p]) :
          /\ order_map[id] = queue[side][p][k]
          /\ pool[order_map[id]].side = side /\ pool[order_map[id]].price = p
          /\ pool[order_map[id]].id = id
    BY <1>1, Found
  <1>3. PICK k \in 1 .. Len(queue[side][p]) : order_map[id] = queue[side][p][k]
    BY <1>2
  <1>4. Detach(order_map[id], side, p, id)
    BY <1>2 DEF Remove
  <1> QED BY <1>1, <1>2, <1>3, <1>4, ConfinedDetach

\* The calls.
LEMMA ConfinedCall ==
  ASSUME QuantitiesFit, IndInv, Confined, Calls, RepeatNext
  PROVE  Confined'
PROOF
  <1>1. repeated \subseteq repeated' /\ repeated' = IF Repeats THEN repeated \cup {call'.id} ELSE repeated
    BY DEF RepeatNext
  <1>2. HarmConfined /\ BookType /\ call \in CallType /\ IndInv'
    BY FromInvariant, StepCorrect DEF Confined, RepeatNext
  <1>3. BookType'
    BY <1>2 DEF IndInv, TypeOK, BookType
  <1>4. ASSUME NEW id \in Ids, NEW price, NEW qty, NEW side, StartMatch(id, price, qty, side),
               call.pc = "idle", HarmConfined'
        PROVE  Confined'
    <2>1. call'.pc = "match" /\ call'.id = id
      BY <1>4 DEF StartMatch
    <2>2. id \notin repeated' => order_map'[id] = nullptr
      BY <1>1, <1>4, <2>1 DEF Repeats
    <2>3. id \notin repeated' => Unlisted(id)'
      <3> SUFFICES ASSUME id \notin repeated' PROVE Unlisted(id)'
        OBVIOUS
      <3>1. order_map'[id] = nullptr
        BY <2>2
      <3>2. \A x \in Side, r \in Ticks : \A t \in Entries(queue'[x][r]) : t \in Slots
        BY <1>3, EntriesIn DEF BookType
      <3> SUFFICES ASSUME NEW x \in Side, NEW r \in Ticks, NEW t \in Entries(queue'[x][r]),
                          pool'[t].id = id
                   PROVE  FALSE
        BY Zenon DEF Unlisted, Listed
      <3>3. order_map'[pool'[t].id] = t
        BY <1>4, Zenon DEF HarmConfined, Listed
      <3> QED BY <3>1, <3>2, <3>3, Constants
    <2> QED BY <1>4, <2>1, <2>3 DEF Confined, IncomingAlone, Unlisted
  <1>5. ASSUME call' = call, call.pc = "idle", HarmConfined'
        PROVE  Confined'
    BY <1>5 DEF Confined, IncomingAlone
  <1>6. ASSUME NEW id \in Ids, NEW price \in Prices, NEW qty \in Quantities, NEW side \in Side,
               AddOrder(id, price, qty, side)
        PROVE  Confined'
    <2>1. HarmConfined'
      BY <1>1, <1>2, <1>6, ConfinedSame DEF AddOrder, book
    <2> QED BY <1>4, <1>6, <2>1 DEF AddOrder
  <1>7. ASSUME NEW id \in Ids, NEW price \in Prices, NEW qty \in Quantities,
               ModifyReplace(id, price, qty)
        PROVE  Confined'
    <2>1. HarmConfined'
      BY <1>1, <1>2, <1>7, ConfinedRemove DEF ModifyReplace
    <2> QED BY <1>4, <1>7, <2>1 DEF ModifyReplace
  <1>8. ASSUME NEW id \in Ids, NEW price \in Prices, NEW qty \in Quantities,
               ModifyToZero(id, price, qty)
        PROVE  Confined'
    <2>1. HarmConfined'
      BY <1>1, <1>2, <1>8, ConfinedRemove DEF ModifyToZero
    <2> QED BY <1>5, <1>8, <2>1 DEF ModifyToZero
  <1>9. ASSUME NEW id \in Ids, CancelOrder(id)
        PROVE  Confined'
    <2>1. HarmConfined'
      BY <1>1, <1>2, <1>9, ConfinedRemove DEF CancelOrder
    <2> QED BY <1>5, <1>9, <2>1 DEF CancelOrder
  <1>10. ASSUME NEW id \in Ids, NEW price \in Prices, NEW qty \in Quantities,
                ModifyInPlace(id, price, qty)
         PROVE  Confined'
    <2>1. /\ pool' = [pool EXCEPT ![order_map[id]].quantity = qty]
          /\ queue' = queue /\ order_map' = order_map /\ call' = call /\ call.pc = "idle"
      BY <1>10 DEF ModifyInPlace
    <2>2. \A x \in Side, r \in Ticks : \A t \in Listed(x, r) : t \in Slots
      BY <1>2, EntriesIn DEF BookType, Listed
    <2>3. \A t \in Slots : pool'[t].id = pool[t].id
      BY <1>2, <2>1 DEF BookType, OrderType
    <2>4. HarmConfined'
      BY <1>1, <1>2, <2>1, <2>2, <2>3, ConfinedSame
    <2> QED BY <1>5, <2>1, <2>4
  <1> QED BY <1>6, <1>7, <1>8, <1>9, <1>10 DEF Calls

\* The rest of an order joins the book.  If its id was never repeated, the order is
\* the only one with it.
LEMMA ConfinedRest ==
  ASSUME IndInv, Confined, Rest, repeated \subseteq repeated'
  PROVE  Confined'
PROOF
  <1>1. BookType /\ Structure /\ call \in CallType /\ HarmConfined /\ IncomingAlone
    BY FromInvariant DEF Confined
  <1>2. PICK side \in Side, p \in Ticks : side = call.side /\ p = call.price
    BY <1>1 DEF CallType
  <1>3. PICK s : s = free_list[Len(free_list)]
    OBVIOUS
  <1>4. s \in Slots /\ s \in Entries(free_list)
    <2>1. free_list \in Seq(Slots) /\ NoRepeats(free_list) /\ free_list # <<>>
      BY <1>1 DEF BookType, Structure, PoolPartitioned, Rest
    <2> QED BY <1>3, <2>1, FrontCorrect
  <1>5. \A x \in Side, r \in Ticks : s \notin Listed(x, r) /\ Listed(x, r) \subseteq Slots
    <2>1. \A x \in Side, r \in Ticks : s \notin Listed(x, r)
      BY <1>1, <1>4 DEF Structure, PoolPartitioned
    <2>2. \A x \in Side, r \in Ticks : Listed(x, r) \subseteq Slots
      BY <1>1, EntriesIn DEF BookType, Listed
    <2> QED BY <2>1, <2>2
  <1>6. /\ queue' = [queue EXCEPT ![side][p] = Append(queue[side][p], s)]
        /\ order_map' = [order_map EXCEPT ![call.id] = s]
        /\ call'.pc = "idle" /\ call.pc # "idle" /\ call.id \in Ids
    BY <1>1, <1>2, <1>3 DEF Rest, NoCall, CallType
  <1>7. /\ pool'[s].id = call.id
        /\ \A t \in Slots \ {s} : pool'[t].id = pool[t].id /\ pool[t].id \in Ids
    <2>1. pool' = [t \in Slots |->
           IF t = s
           THEN [id |-> call.id, price |-> call.price, side |-> call.side,
                 quantity |-> call.qty % QTY_MOD, next |-> pool[s].next,
                 prev |-> IF levels[call.side][call.price].head = nullptr
                          THEN pool[s].prev ELSE levels[call.side][call.price].tail]
           ELSE [pool[t] EXCEPT !.next =
                   IF levels[call.side][call.price].head # nullptr
                      /\ t = levels[call.side][call.price].tail THEN s ELSE @]]
      BY <1>3 DEF Rest
    <2>2. pool'[s].id = call.id
      BY <1>4, <2>1
    <2>3. ASSUME NEW t \in Slots \ {s} PROVE pool'[t].id = pool[t].id /\ pool[t].id \in Ids
      <3>1. pool[t] \in OrderType
        BY <1>1 DEF BookType
      <3>2. pool'[t] = [pool[t] EXCEPT !.next =
                   IF levels[call.side][call.price].head # nullptr
                      /\ t = levels[call.side][call.price].tail THEN s ELSE @]
        BY <2>1
      <3> QED BY <3>1, <3>2 DEF OrderType
    <2> QED BY <2>2, <2>3
  <1>8. order_map'[call.id] = s /\ \A i \in Ids \ {call.id} : order_map'[i] = order_map[i]
    BY <1>1, <1>6 DEF BookType
  <1>9. \A x \in Side, r \in Ticks : Entries(queue'[x][r]) \subseteq Listed(x, r) \cup {s}
    <2>1. queue[side][p] \in Seq(Slots) /\ NoRepeats(queue[side][p])
      BY <1>1 DEF BookType, Structure, LevelSound
    <2>2. queue'[side][p] = Append(queue[side][p], s)
          /\ \A x \in Side, r \in Ticks : x # side \/ r # p => queue'[x][r] = queue[x][r]
      BY <1>1, <1>6 DEF BookType
    <2>3. Entries(queue'[side][p]) = Entries(queue[side][p]) \cup {s}
      <3> DEFINE q == queue[side][p]
                 more == queue'[side][p]
      <3>1. q \in Seq(Slots) /\ NoRepeats(q) /\ s \notin Entries(q) /\ more = Append(q, s)
        BY <1>5, <2>1, <2>2 DEF Listed
      <3>2. /\ more \in Seq(Slots) /\ Len(more) = Len(q) + 1
            /\ \A i \in 1 .. Len(q) : more[i] = q[i]
            /\ more[Len(q) + 1] = s
            /\ Entries(more) = Entries(q) \cup {s}
            /\ NoRepeats(more)
        <4> HIDE DEF q
        <4>1. s \in Slots
          BY <1>4
        <4> QED BY <3>1, <4>1, AppendCorrect
      <3> QED BY <3>2
    <2> QED BY <2>2, <2>3 DEF Listed
  <1>10. ASSUME NEW x \in Side, NEW r \in Ticks, NEW t \in Entries(queue'[x][r]),
                pool'[t].id \notin repeated'
         PROVE  order_map'[pool'[t].id] = t
    <2>1. CASE t = s
      BY <1>7, <1>8, <2>1
    <2>2. CASE t # s
      <3>1. t \in Listed(x, r) /\ t \in Slots \ {s}
        BY <1>5, <1>9, <2>2
      <3>2. pool'[t].id = pool[t].id /\ pool[t].id \notin repeated /\ pool[t].id \in Ids
        BY <1>7, <1>10, <3>1
      <3>3. pool[t].id # call.id
        BY <1>1, <1>6, <3>1, <3>2 DEF IncomingAlone, Unlisted
      <3>4. order_map[pool[t].id] = t
        BY <1>1, <3>1, <3>2 DEF HarmConfined
      <3> QED BY <1>8, <3>2, <3>3, <3>4
    <2> QED BY <2>1, <2>2
  <1>11. HarmConfined'
    BY <1>10, Zenon DEF HarmConfined, Listed
  <1> QED BY <1>6, <1>11 DEF Confined, IncomingAlone

\* The steps of match_order and of what follows it.
LEMMA ConfinedMatch ==
  ASSUME IndInv, Confined, Match, repeated \subseteq repeated'
  PROVE  Confined'
PROOF
  <1>1. BookType /\ Structure /\ MapSound /\ call \in CallType /\ HarmConfined /\ IncomingAlone
    BY FromInvariant DEF Confined
  <1>2. call.pc # "idle" /\ (call'.pc # "idle" => call'.id = call.id)
    BY MatchKnownIds
  <1>3. ASSUME HarmConfined', \A id : Unlisted(id) => Unlisted(id)'
        PROVE  Confined'
    <2>1. call'.pc # "idle" /\ call'.id \notin repeated' => Unlisted(call.id)'
      BY <1>1, <1>2, <1>3 DEF IncomingAlone
    <2>2. call'.pc # "idle" /\ call'.id \notin repeated' =>
            \A x \in Side, r \in Ticks : \A t \in Entries(queue'[x][r]) : pool'[t].id # call'.id
      BY <1>2, <2>1 DEF Unlisted, Listed
    <2> QED BY <1>3, <2>2, Zenon DEF Confined, IncomingAlone, Unlisted, Listed
  <1>4. CASE StartSweep \/ EndSweep \/ Return
    <2>1. queue' = queue /\ order_map' = order_map /\ pool' = pool
      BY <1>4 DEF StartSweep, EndSweep, Return, book
    <2> QED BY <1>1, <1>3, <2>1, ConfinedSame
  <1>5. CASE TradePart
    <2>1. /\ pool' = [pool EXCEPT ![call.resting].quantity = @ - TradeQty(pool[call.resting])]
          /\ queue' = queue /\ order_map' = order_map
      BY <1>5 DEF TradePart
    <2>2. \A x \in Side, r \in Ticks : \A t \in Listed(x, r) : t \in Slots
      BY <1>1, EntriesIn DEF BookType, Listed
    <2>3. \A t \in Slots : pool'[t].id = pool[t].id
      BY <1>1, <2>1 DEF BookType, OrderType
    <2> QED BY <1>1, <1>3, <2>1, <2>2, <2>3, ConfinedSame
  <1>6. CASE TradeFill
    <2>1. Sweeping
      BY <1>6 DEF TradeFill
    <2>2. PICK opp \in Side, b \in Ticks :
             /\ Sweep(opp, b)
             /\ 1 \in 1 .. Len(queue[opp][b]) /\ call.resting = queue[opp][b][1]
             /\ call.resting \in Slots
      BY <2>1, SweptOrder
    <2>3. PICK s \in Slots : s = call.resting
      BY <2>2
    <2>4. PICK id \in Ids : id = pool[s].id
      BY <1>1 DEF BookType, OrderType
    <2>5. Detach(s, opp, b, id)
      BY <1>6, <2>2, <2>3, <2>4 DEF TradeFill, Sweep
    <2>6. s = queue[opp][b][1] /\ 1 \in 1 .. Len(queue[opp][b])
      BY <2>2, <2>3
    <2> QED BY <1>1, <1>3, <2>4, <2>5, <2>6, ConfinedDetach
  <1>7. CASE Rest
    BY <1>7, ConfinedRest
  <1> QED BY <1>4, <1>5, <1>6, <1>7 DEF Match

\* Whatever ids are repeated, and whatever becomes of their orders, order_map finds
\* every resting order whose id was never repeated.
THEOREM RepeatsConfined == QuantitiesFit => (RepeatSpec => []HarmConfined)
PROOF
  <1> SUFFICES ASSUME QuantitiesFit PROVE RepeatSpec => []HarmConfined
    OBVIOUS
  <1>1. Init => Confined
    BY DEF Init, Confined, HarmConfined, IncomingAlone, NoCall, Listed, Entries
  <1>2. IndInv /\ Confined /\ [RepeatNext]_<<vars, repeated>> => Confined'
    <2> SUFFICES ASSUME IndInv, Confined, [RepeatNext]_<<vars, repeated>> PROVE Confined'
      OBVIOUS
    <2>1. CASE RepeatNext
      <3>1. repeated \subseteq repeated'
        BY <2>1 DEF RepeatNext
      <3> QED BY <2>1, <3>1, ConfinedCall, ConfinedMatch DEF RepeatNext, Next
    <2>2. CASE UNCHANGED <<vars, repeated>>
      <3>1. queue' = queue /\ order_map' = order_map /\ pool' = pool /\ call' = call
            /\ repeated' = repeated
        BY <2>2 DEF vars
      <3> QED BY <3>1, Zenon DEF Confined, HarmConfined, IncomingAlone, Unlisted, Listed
    <2> QED BY <2>1, <2>2
  <1>3. [RepeatNext]_<<vars, repeated>> => [Next]_vars
    BY DEF RepeatNext
  <1>4. Spec => []IndInv
    BY BookInductive
  <1>5. Confined => HarmConfined
    BY DEF Confined
  <1> QED BY <1>1, <1>2, <1>3, <1>4, <1>5, PTL DEF RepeatSpec, Spec
===============================================================================
