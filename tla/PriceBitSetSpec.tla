--------------------------- MODULE PriceBitSetSpec ---------------------------
(***************************************************************************)
(* A PriceBitSet object under any sequence of set() and clear() calls, with *)
(* the set of prices it stands for kept beside it.  OrderBook calls set()  *)
(* for a level that gets its first order and clear() for one that has lost *)
(* its last, but nothing here depends on that: both may repeat.            *)
(***************************************************************************)
EXTENDS PriceBitSet

VARIABLES bits,     \* _l0, _l1, _l2
          prices    \* history: the prices set and not cleared since

vars == <<bits, prices>>

Init == bits = NoBits /\ prices = {}

SetPrice(p) == bits' = set(bits, p) /\ prices' = prices \cup {p}
ClearPrice(p) == bits' = clear(bits, p) /\ prices' = prices \ {p}

Next == \E p \in Ticks : SetPrice(p) \/ ClearPrice(p)

Spec == Init /\ [][Next]_vars
-------------------------------------------------------------------------------
\* Type invariant: no call writes outside the arrays (PriceBitSet.h:29-34).
TypeOK == bits \in BitSetType /\ prices \subseteq Ticks

\* clear() propagates a word that becomes zero, and only that, up the levels
\* (PriceBitSet.h:43-48), so that the scans of get_highest() and get_lowest()
\* never meet a zero word below a one bit, nor miss a word that is not zero.
Hierarchy == Summarised(bits)

\* get_highest() and get_lowest() (PriceBitSet.h:51-69) answer the extreme
\* prices of the set that the calls made so far describe, and their sentinels
\* exactly when it has none.
ExtremesExact ==
  /\ get_highest(bits) = IF prices = {} THEN 0
                         ELSE CHOOSE p \in prices : \A q \in prices : q <= p
  /\ get_lowest(bits) = IF prices = {} THEN UINT32_MAX
                        ELSE CHOOSE p \in prices : \A q \in prices : p <= q
===============================================================================
