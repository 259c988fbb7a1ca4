---------------------------- MODULE MCMarketHandler ----------------------------
(***************************************************************************)
(* MarketHandler for TLC: two orders that can meet at one price, and every *)
(* kind of message about the first of them.                                *)
(***************************************************************************)
EXTENDS MarketHandler

Message(type, id, price, quantity, is_buy) ==
  [type |-> type, order_id |-> id, price |-> price, quantity |-> quantity, is_buy |-> is_buy]

MCMessages == {Message("A", 0, 1, 2, "B"), Message("A", 1, 1, 1, "S"),
               Message("X", 0, 0, 0, "-"), Message("M", 0, 1, 1, "-"),
               Message("?", 0, 0, 0, "-")}
================================================================================
