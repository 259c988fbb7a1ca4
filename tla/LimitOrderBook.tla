---------------------------- MODULE LimitOrderBook ----------------------------
(***************************************************************************)
(* What the order book promises: continuous matching with price-time       *)
(* priority.  Orders wait at their price, first come first.  An incoming   *)
(* order trades with the head of the best opposite level while prices      *)
(* cross, and what is left of it waits at the end of its own level.  A     *)
(* modify that only lowers the quantity keeps the order's place; any other *)
(* one is a cancel and a new order.                                        *)
(***************************************************************************)
EXTENDS Integers, Sequences

CONSTANTS Ids, Ticks, Prices, Quantities

VARIABLES resting,    \* resting[side][price]: the orders waiting there, oldest first
          incoming    \* the order being matched, if any

vars == <<resting, incoming>>

Side == {"B", "S"}
Other(side) == IF side = "B" THEN "S" ELSE "B"

Levels(side) == {p \in Ticks : resting[side][p] # <<>>}
IsResting(id) == \E side \in Side, p \in Ticks :
                   \E i \in 1 .. Len(resting[side][p]) : resting[side][p][i].id = id

\* The price levels that the order o can trade with, and the one it trades with first.
Crossed(o) == {p \in Levels(Other(o.side)) : IF o.side = "B" THEN p <= o.price ELSE p >= o.price}
Best(o) == CHOOSE p \in Crossed(o) :
             \A q \in Crossed(o) : IF o.side = "B" THEN p <= q ELSE q <= p

\* A level without the order at its place i: the others keep their order.
Without(level, i) == [j \in 1 .. Len(level) - 1 |-> IF j < i THEN level[j] ELSE level[j + 1]]

Init == /\ resting = [side \in Side |-> [p \in Ticks |-> <<>>]]
        /\ incoming = <<>>

Submit(o) == /\ incoming = <<>> /\ ~IsResting(o.id)
             /\ incoming' = <<o>>
             /\ UNCHANGED resting

Cancel(side, p, i) == /\ incoming = <<>>
                      /\ resting' = [resting EXCEPT ![side][p] = Without(@, i)]
                      /\ UNCHANGED incoming

\* The order i of a level loses some of its quantity, not its place.
Reduce(side, p, i, qty) ==
  /\ incoming = <<>>
  /\ 0 < qty /\ qty <= resting[side][p][i].qty
  /\ resting' = [resting EXCEPT ![side][p][i].qty = qty]
  /\ UNCHANGED incoming

Replace(side, p, i, price, qty) ==
  LET o == resting[side][p][i]
  IN  /\ incoming = <<>>
      /\ price # p \/ qty > o.qty
      /\ resting' = [resting EXCEPT ![side][p] = Without(@, i)]
      /\ incoming' = <<[id |-> o.id, side |-> side, price |-> price, qty |-> qty]>>

Trade ==
  LET o == incoming[1]
      p == Best(o)
      q == resting[Other(o.side)][p]
      traded == IF q[1].qty < o.qty THEN q[1].qty ELSE o.qty
  IN  /\ incoming # <<>> /\ o.qty > 0 /\ Crossed(o) # {}
      /\ resting' = [resting EXCEPT ![Other(o.side)][p] =
           IF q[1].qty = traded THEN Tail(q) ELSE [q EXCEPT ![1].qty = @ - traded]]
      /\ incoming' = <<[o EXCEPT !.qty = @ - traded]>>

Settle ==
  LET o == incoming[1]
  IN  /\ incoming # <<>> /\ (o.qty = 0 \/ Crossed(o) = {})
      /\ resting' = IF o.qty = 0 THEN resting
                    ELSE [resting EXCEPT ![o.side][o.price] =
                            Append(@, [id |-> o.id, qty |-> o.qty])]
      /\ incoming' = <<>>

Next ==
  \/ \E o \in [id : Ids, side : Side, price : Prices, qty : Quantities] : Submit(o)
  \/ \E side \in Side, p \in Ticks :
       \E i \in 1 .. Len(resting[side][p]) :
         \/ Cancel(side, p, i)
         \/ \E qty \in Quantities :
              \/ Reduce(side, p, i, qty)
              \/ \E price \in Prices : Replace(side, p, i, price, qty)
  \/ Trade
  \/ Settle

Spec == Init /\ [][Next]_vars
===============================================================================
