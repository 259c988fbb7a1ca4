------------------------------ MODULE OrderBook ------------------------------
(***************************************************************************)
(* include/OrderBook.h: the limit order book of the matching engine.       *)
(* Orders live in a pool; each price level is a doubly linked list of them *)
(* with its total quantity; a bitmap per side names the levels in use, the *)
(* best prices are cached, and order_map finds an order by its id.         *)
(*                                                                         *)
(* One thread owns the book.  A call that matches is taken in steps, one   *)
(* per resting order it trades with, so that the loops are visible.        *)
(* Pointers are pool indices, nullptr is 0.  An id is an index of          *)
(* _order_map: ids and prices outside the arrays are not inputs here.      *)
(***************************************************************************)
EXTENDS PriceBitSet, Sequences

CONSTANTS MAX_ORDERS,   \* size of the pool and of _order_map
          QTY_MOD,      \* number of values of Order::quantity (2^31)
          Prices,       \* the prices that messages carry
          Quantities,   \* the quantities that messages carry
          Redelivery    \* whether an Add may repeat the id of a resting order

ASSUME BookAssumption ==
  /\ MAX_ORDERS \in Nat \ {0}
  /\ QTY_MOD \in Nat \ {0}
  /\ Prices \subseteq Ticks
  /\ Quantities \subseteq Nat
  /\ Redelivery \in BOOLEAN

VARIABLES pool,         \* OrderPool::_pool
          free_list,    \* OrderPool::_free_list, its back last
          levels,       \* _bids and _asks
          order_map,    \* _order_map
          price_bits,   \* _bid_bits and _ask_bits
          best,         \* _best_bid and _best_ask
          call,         \* the locals of the call in progress
          queue         \* history: the orders at each level, first come first

vars == <<pool, free_list, levels, order_map, price_bits, best, call, queue>>

Side == {"B", "S"}
Opposite(side) == IF side = "B" THEN "S" ELSE "B"
Ids == 0 .. MAX_ORDERS - 1
nullptr == 0
Slots == 1 .. MAX_ORDERS
Pointer == Slots \cup {nullptr}

OrderType == [id : Ids, prev : Pointer, next : Pointer, price : Ticks,
              quantity : 0 .. QTY_MOD - 1, side : Side]
LevelType == [head : Pointer, tail : Pointer, total_quantity : Nat]
CallType == [pc : {"idle", "match", "sweep"}, id : Ids, price : Ticks, qty : Nat,
             side : Side, resting : Pointer]

\* A slot of the pool nobody uses.  Nothing reads the fields of a free slot
\* other than prev and next before add_order has assigned them, so the model
\* forgets what a deallocated order leaves in them.
FreeOrder == [id |-> 0, prev |-> nullptr, next |-> nullptr, price |-> 0,
              quantity |-> 0, side |-> "S"]
EmptyLevel == [head |-> nullptr, tail |-> nullptr, total_quantity |-> 0]
NoCall == [pc |-> "idle", id |-> 0, price |-> 0, qty |-> 0, side |-> "S", resting |-> nullptr]

Init ==
  /\ pool = [s \in Slots |-> FreeOrder]
  /\ free_list = [i \in 1 .. MAX_ORDERS |-> i]
  /\ levels = [side \in Side |-> [p \in Ticks |-> EmptyLevel]]
  /\ order_map = [id \in Ids |-> nullptr]
  /\ price_bits = [side \in Side |-> NoBits]
  /\ best = [side \in Side |-> IF side = "B" THEN 0 ELSE UINT32_MAX]
  /\ call = NoCall
  /\ queue = [side \in Side |-> [p \in Ticks |-> <<>>]]
-------------------------------------------------------------------------------
\* The pieces that the calls share.  A definition named X_... is a slip that the
\* definition X after it could contain: the properties must tell them apart.

Deallocate_Forgotten(list, s) == list
Deallocate(list, s) == Append(list, s)

Forget_Skipped(map, id) == map
Forget(map, id) == [map EXCEPT ![id] = nullptr]

\* The pool after an order has been unlinked from its neighbours and deallocated.
Unlinked_StaleLinks(s) ==
  [t \in Slots |->
    IF t = s THEN [FreeOrder EXCEPT !.next = pool[s].next]
    ELSE [pool[t] EXCEPT !.next = IF t = pool[s].prev THEN pool[s].next ELSE @,
                         !.prev = IF t = pool[s].next THEN pool[s].prev ELSE @]]
Unlinked(s) ==
  [t \in Slots |->
    IF t = s THEN FreeOrder
    ELSE [pool[t] EXCEPT !.next = IF t = pool[s].prev THEN pool[s].next ELSE @,
                         !.prev = IF t = pool[s].next THEN pool[s].prev ELSE @]]

\* The level after the order s has left it, with what it still held.
LevelWithout(level, s) ==
  [head |-> IF pool[s].prev = nullptr THEN pool[s].next ELSE level.head,
   tail |-> IF pool[s].next = nullptr THEN pool[s].prev ELSE level.tail,
   total_quantity |-> level.total_quantity - pool[s].quantity]

\* The history without the order s.
Position(orders, s) == CHOOSE i \in 1 .. Len(orders) : orders[i] = s
Without(orders, s) ==
  [i \in 1 .. Len(orders) - 1 |->
    IF i < Position(orders, s) THEN orders[i] ELSE orders[i + 1]]

\* The order s of a level is unlinked, forgotten and deallocated.
Detach(s, side, price, id) ==
  /\ levels' = [levels EXCEPT ![side][price] = LevelWithout(levels[side][price], s)]
  /\ queue' = [queue EXCEPT ![side][price] = Without(queue[side][price], s)]
  /\ order_map' = Forget(order_map, id)
  /\ pool' = Unlinked(s)
  /\ free_list' = Deallocate(free_list, s)

Refresh_KeepsBest(side, price, total_quantity) ==
  /\ price_bits' = IF total_quantity = 0
                   THEN [price_bits EXCEPT ![side] = clear(@, price)]
                   ELSE price_bits
  /\ best' = best

\* A level that has no quantity left loses its bit, and both best prices are
\* looked up again.
Refresh(side, price, total_quantity) ==
  /\ price_bits' = IF total_quantity = 0
                   THEN [price_bits EXCEPT ![side] = clear(@, price)]
                   ELSE price_bits
  /\ best' = IF total_quantity = 0
             THEN [x \in Side |-> IF x = "B" THEN get_highest(price_bits'["B"])
                                             ELSE get_lowest(price_bits'["S"])]
             ELSE best

\* The body of cancel_order for a known id.
Remove(id) ==
  LET s == order_map[id]
      side == pool[s].side
      price == pool[s].price
  IN  /\ Detach(s, side, price, id)
      /\ Refresh(side, price, levels'[side][price].total_quantity)

\* add_order and modify_order go on with match_order.
StartMatch(id, price, qty, side) ==
  call' = [pc |-> "match", id |-> id, price |-> price, qty |-> qty, side |-> side,
           resting |-> nullptr]

book == <<pool, free_list, levels, order_map, price_bits, best, queue>>
-------------------------------------------------------------------------------
\* The calls.  cancel_order and modify_order of an id that order_map does not
\* know return at once: a stuttering step.

AddOrder(id, price, qty, side) ==
  /\ call.pc = "idle"
  /\ Redelivery \/ order_map[id] = nullptr
  /\ StartMatch(id, price, qty, side)
  /\ UNCHANGED book

CancelOrder(id) ==
  /\ call.pc = "idle" /\ order_map[id] # nullptr
  /\ Remove(id)
  /\ UNCHANGED call

Replaces_OrEqual(o, new_price, new_qty) == new_price # o.price \/ new_qty >= o.quantity
Replaces(o, new_price, new_qty) == new_price # o.price \/ new_qty > o.quantity

ModifyReplace(id, new_price, new_qty) ==
  /\ call.pc = "idle" /\ order_map[id] # nullptr
  /\ Replaces(pool[order_map[id]], new_price, new_qty)
  /\ Remove(id)
  /\ StartMatch(id, new_price, new_qty, pool[order_map[id]].side)

ModifyToZero(id, new_price, new_qty) ==
  /\ call.pc = "idle" /\ order_map[id] # nullptr
  /\ ~Replaces(pool[order_map[id]], new_price, new_qty) /\ new_qty = 0
  /\ Remove(id)
  /\ UNCHANGED call

QtyReduction_Remaining(o, new_qty) == new_qty
QtyReduction(o, new_qty) == o.quantity - new_qty

ModifyInPlace(id, new_price, new_qty) ==
  LET s == order_map[id]
      o == pool[s]
  IN  /\ call.pc = "idle" /\ s # nullptr
      /\ ~Replaces(o, new_price, new_qty) /\ new_qty # 0
      /\ pool' = [pool EXCEPT ![s].quantity = new_qty]
      /\ levels' = [levels EXCEPT ![o.side][o.price].total_quantity =
                      @ - QtyReduction(o, new_qty)]
      /\ UNCHANGED <<free_list, order_map, price_bits, best, call, queue>>
-------------------------------------------------------------------------------
\* match_order, and what add_order does with its result.

IsMatch_Strict == IF call.side = "B" THEN call.price > best["S"] ELSE call.price < best["B"]
IsMatch == IF call.side = "B" THEN call.price >= best["S"] ELSE call.price <= best["B"]
Matching == call.qty > 0 /\ IsMatch
opposite == Opposite(call.side)

StartSweep ==
  /\ call.pc = "match" /\ Matching
  /\ call' = [call EXCEPT !.pc = "sweep", !.resting = levels[opposite][best[opposite]].head]
  /\ UNCHANGED book

Sweeping == call.pc = "sweep" /\ call.resting # nullptr /\ call.qty > 0

TradeQty_Resting(o) == o.quantity
TradeQty(o) == IF o.quantity < call.qty THEN o.quantity ELSE call.qty

\* The resting order outlasts the incoming one.
TradePart ==
  LET s == call.resting
      trade_qty == TradeQty(pool[s])
  IN  /\ Sweeping /\ pool[s].quantity # trade_qty
      /\ pool' = [pool EXCEPT ![s].quantity = @ - trade_qty]
      /\ levels' = [levels EXCEPT ![opposite][best[opposite]].total_quantity = @ - trade_qty]
      /\ call' = [call EXCEPT !.qty = @ - trade_qty]
      /\ UNCHANGED <<free_list, order_map, price_bits, best, queue>>

\* The resting order is filled and leaves the book.
TradeFill_ForgetsNext ==
  LET s == call.resting
      next == IF pool[s].next = nullptr THEN s ELSE pool[s].next
  IN  /\ Sweeping /\ pool[s].quantity = TradeQty(pool[s])
      /\ Detach(s, opposite, best[opposite], pool[next].id)
      /\ call' = [call EXCEPT !.qty = @ - pool[s].quantity, !.resting = pool[s].next]
      /\ UNCHANGED <<price_bits, best>>
TradeFill ==
  LET s == call.resting
      trade_qty == TradeQty(pool[s])
  IN  /\ Sweeping /\ pool[s].quantity = trade_qty
      /\ Detach(s, opposite, best[opposite], pool[s].id)
      /\ call' = [call EXCEPT !.qty = @ - trade_qty, !.resting = pool[s].next]
      /\ UNCHANGED <<price_bits, best>>

EndSweep ==
  /\ call.pc = "sweep" /\ ~Sweeping
  /\ Refresh(opposite, best[opposite], levels[opposite][best[opposite]].total_quantity)
  /\ call' = [call EXCEPT !.pc = "match", !.resting = nullptr]
  /\ UNCHANGED <<pool, free_list, levels, order_map, queue>>

\* Nothing is left of the order, or there is no room for what is left of it.
Return ==
  /\ call.pc = "match" /\ ~Matching
  /\ call.qty = 0 \/ free_list = <<>>
  /\ call' = NoCall
  /\ UNCHANGED book

\* The rest of the order joins the end of its level.
Rest ==
  LET s == free_list[Len(free_list)]
      level == levels[call.side][call.price]
      better == IF call.side = "B" THEN call.price > best["B"] ELSE call.price < best["S"]
  IN  /\ call.pc = "match" /\ ~Matching
      /\ call.qty # 0 /\ free_list # <<>>
      /\ free_list' = SubSeq(free_list, 1, Len(free_list) - 1)
      /\ pool' = [t \in Slots |->
           IF t = s
           THEN [id |-> call.id, price |-> call.price, side |-> call.side,
                 quantity |-> call.qty % QTY_MOD, next |-> pool[s].next,
                 prev |-> IF level.head = nullptr THEN pool[s].prev ELSE level.tail]
           ELSE [pool[t] EXCEPT !.next =
                   IF level.head # nullptr /\ t = level.tail THEN s ELSE @]]
      /\ order_map' = [order_map EXCEPT ![call.id] = s]
      /\ price_bits' = IF level.total_quantity = 0
                       THEN [price_bits EXCEPT ![call.side] = set(@, call.price)]
                       ELSE price_bits
      /\ levels' = [levels EXCEPT ![call.side][call.price] =
           [head |-> IF level.head = nullptr THEN s ELSE level.head, tail |-> s,
            total_quantity |-> level.total_quantity + call.qty]]
      /\ best' = IF better THEN [best EXCEPT ![call.side] = call.price] ELSE best
      /\ queue' = [queue EXCEPT ![call.side][call.price] = Append(@, s)]
      /\ call' = NoCall
-------------------------------------------------------------------------------
Calls == \E id \in Ids :
           \/ \E price \in Prices, qty \in Quantities :
                \/ \E side \in Side : AddOrder(id, price, qty, side)
                \/ ModifyReplace(id, price, qty)
                \/ ModifyToZero(id, price, qty)
                \/ ModifyInPlace(id, price, qty)
           \/ CancelOrder(id)

Match == StartSweep \/ TradePart \/ TradeFill \/ EndSweep \/ Return \/ Rest

Next == Calls \/ Match

Spec == Init /\ [][Next]_vars

\* Nothing in match_order blocks, so a call that can go on does.
FairSpec == Spec /\ WF_vars(Match)
-------------------------------------------------------------------------------
\* Type invariant of the book and of the locals of its calls.
TypeOK ==
  /\ pool \in [Slots -> OrderType]
  /\ free_list \in Seq(Slots)
  /\ levels \in [Side -> [Ticks -> LevelType]]
  /\ order_map \in [Ids -> Pointer]
  /\ price_bits \in [Side -> BitSetType]
  /\ best \in [Side -> Ticks \cup {UINT32_MAX}]
  /\ call \in CallType
  /\ queue \in [Side -> [Ticks -> Seq(Slots)]]

Entries(orders) == {orders[i] : i \in 1 .. Len(orders)}
Listed(side, p) == Entries(queue[side][p])
NoRepeats(orders) == \A i, j \in 1 .. Len(orders) : orders[i] = orders[j] => i = j

\* Every slot of the pool is either free or at one place of one level: no call
\* leaks an order or frees one twice, on any path through cancel, replace and
\* fill (OrderBook.h:160, 218).
PoolPartitioned ==
  /\ NoRepeats(free_list)
  /\ \A side \in Side, p \in Ticks :
       /\ NoRepeats(queue[side][p])
       /\ Listed(side, p) \cap Entries(free_list) = {}
       /\ \A x \in Side, r \in Ticks :
            (x # side \/ r # p) => Listed(side, p) \cap Listed(x, r) = {}
  /\ \A s \in Slots : s \in Entries(free_list) \/ \E side \in Side, p \in Ticks : s \in Listed(side, p)

\* The links of a level, followed either way, pass through its orders in the
\* order they arrived (OrderBook.h:117-123, 145-149, 211-215).
Linked(side, p) ==
  LET q == queue[side][p]
      level == levels[side][p]
  IN  /\ level.head = IF q = <<>> THEN nullptr ELSE q[1]
      /\ level.tail = IF q = <<>> THEN nullptr ELSE q[Len(q)]
      /\ \A i \in 1 .. Len(q) :
           /\ pool[q[i]].prev = IF i = 1 THEN nullptr ELSE q[i - 1]
           /\ pool[q[i]].next = IF i = Len(q) THEN nullptr ELSE q[i + 1]
           /\ pool[q[i]].side = side /\ pool[q[i]].price = p
LinksFollowArrival == \A side \in Side, p \in Ticks : Linked(side, p)

\* total_quantity is the sum of the quantities at the level (OrderBook.h:115,
\* 143, 185, 206), on which every test for an empty level relies.
SumOfQuantities(orders) ==
  LET sum[i \in 0 .. Len(orders)] ==
        IF i = 0 THEN 0 ELSE sum[i - 1] + pool[orders[i]].quantity
  IN  sum[Len(orders)]
TotalsExact == \A side \in Side, p \in Ticks :
                 levels[side][p].total_quantity = SumOfQuantities(queue[side][p])

\* Outside the sweep of a level, the bitmaps name the levels that hold orders
\* and the cached best prices are their extremes, or the sentinels.
Occupied(side) == {p \in Ticks : queue[side][p] # <<>>}
BestExact ==
  call.pc # "sweep" =>
    /\ \A side \in Side : Members(price_bits[side]) = Occupied(side)
    /\ best["B"] = get_highest(price_bits["B"])
    /\ best["S"] = get_lowest(price_bits["S"])

\* order_map never points to a free slot or to another order, and every resting
\* order can be found unless an Add has reused its id.
MapSound ==
  /\ \A id \in Ids : order_map[id] # nullptr =>
       /\ \E side \in Side, p \in Ticks : order_map[id] \in Listed(side, p)
       /\ pool[order_map[id]].id = id
  /\ ~Redelivery => \A side \in Side, p \in Ticks : \A s \in Listed(side, p) :
       order_map[pool[s].id] = s

\* Between calls no bid reaches an ask: match_order stops only when the prices no
\* longer cross (OrderBook.h:192), whatever levels and orders it swept.
Uncrossed == call.pc = "idle" => \A b \in Occupied("B"), a \in Occupied("S") : b < a

\* The book is a limit order book with price-time priority.
Resting == [side \in Side |-> [p \in Ticks |->
             [i \in 1 .. Len(queue[side][p]) |->
               [id |-> pool[queue[side][p][i]].id, qty |-> pool[queue[side][p][i]].quantity]]]]
Incoming == IF call.pc = "idle" THEN <<>>
            ELSE <<[id |-> call.id, side |-> call.side, price |-> call.price, qty |-> call.qty]>>
Abstract == INSTANCE LimitOrderBook WITH resting <- Resting, incoming <- Incoming
ImplementsLimitOrderBook == Abstract!Spec

\* Every call returns: each round of match_order's loops (OrderBook.h:191, 201)
\* makes progress.
EveryCallReturns == call.pc # "idle" ~> call.pc = "idle"

\* Why it does: what is left to trade with, and for, never grows during a call, and is
\* less after every round of the inner loop (OrderBook.h:201-221); a round of the
\* outer loop (line 191) sweeps a level that holds an order.
Remaining == (MAX_ORDERS - Len(free_list)) + (IF call.qty > 0 THEN 1 ELSE 0)
Measure == CASE call.pc = "idle" -> 0
             [] call.pc = "match" -> 3 * Remaining + 1
             [] call.pc = "sweep" -> 3 * Remaining + (IF Sweeping THEN 0 ELSE 2)
RoundsProgress == [][call.pc # "idle" => Measure' < Measure /\ Measure' >= 0]_vars

\* A side without orders reports that it has no best price (as after the cancels
\* of tests/test_orderbook.cpp:26-30).
EmptySideReported ==
  call.pc = "idle" => /\ Occupied("B") = {} => best["B"] = 0
                      /\ Occupied("S") = {} => best["S"] = UINT32_MAX
===============================================================================
