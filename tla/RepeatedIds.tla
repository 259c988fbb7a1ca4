----------------------------- MODULE RepeatedIds -----------------------------
(***************************************************************************)
(* The order book with a history of the ids that an Add has repeated while *)
(* order_map knew them, as after a duplicated datagram: how far the harm   *)
(* of that reaches.                                                        *)
(***************************************************************************)
EXTENDS OrderBook

VARIABLE repeated   \* history: the ids that an Add has repeated

\* A call begins to match an order whose id order_map still knows.  (modify_order has
\* cancelled its order by then.)
Repeats == call.pc = "idle" /\ call'.pc = "match" /\ order_map'[call'.id] # nullptr

RepeatNext ==
  /\ Next
  /\ repeated' = IF Repeats THEN repeated \cup {call'.id} ELSE repeated

RepeatSpec == Init /\ repeated = {} /\ [][RepeatNext]_<<vars, repeated>>

\* Fairness as in OrderBook.
FairRepeatSpec == RepeatSpec /\ WF_vars(Match)
-------------------------------------------------------------------------------
\* A repeated id harms only its own orders: _order_map (OrderBook.h:107, 159, 217) finds
\* every resting order whose id was never repeated, so that it can be cancelled and
\* modified, whatever orders with repeated ids were filled, cancelled or dropped meanwhile.
HarmConfined ==
  \A side \in Side, p \in Ticks : \A s \in Listed(side, p) :
    pool[s].id \notin repeated => order_map[pool[s].id] = s
===============================================================================
