-------------------------- MODULE PriceBitSetProofs --------------------------
(***************************************************************************)
(* The bitmap is exact after any sequence of set() and clear() calls.      *)
(***************************************************************************)
EXTENDS PriceBitSetSpec, PriceBitSetLemmas

\* The inductive invariant of the machine: the bitmap is a hierarchy and its
\* lowest level is the set of prices that the calls describe.
IndInv == TypeOK /\ Hierarchy /\ Members(bits) = prices

\* Every call keeps the arrays in bounds, the hierarchy intact and the set exact.
THEOREM BitmapInductive == Spec => []IndInv
PROOF
  <1>1. Init => IndInv
    BY NoBitsCorrect DEF Init, IndInv, TypeOK, Hierarchy
  <1>2. IndInv /\ [Next]_vars => IndInv'
    <2> SUFFICES ASSUME IndInv, [Next]_vars PROVE IndInv'
      OBVIOUS
    <2> USE DEF IndInv, TypeOK, Hierarchy
    <2>1. ASSUME NEW p \in Ticks, SetPrice(p) PROVE IndInv'
      BY <2>1, SetCorrect DEF SetPrice
    <2>2. ASSUME NEW p \in Ticks, ClearPrice(p) PROVE IndInv'
      BY <2>2, ClearCorrect DEF ClearPrice
    <2>3. CASE UNCHANGED vars
      BY <2>3 DEF vars
    <2> QED BY <2>1, <2>2, <2>3 DEF Next
  <1> QED BY <1>1, <1>2, PTL DEF Spec

\* Type correctness: no call reads or writes outside the arrays.
THEOREM BitmapTypeCorrect == Spec => []TypeOK
  BY BitmapInductive, PTL DEF IndInv

\* The upper levels summarise the lower ones, always.
THEOREM HierarchyKept == Spec => []Hierarchy
  BY BitmapInductive, PTL DEF IndInv

\* get_highest() and get_lowest() are exact after any sequence of calls.
THEOREM ExtremesCorrect == Spec => []ExtremesExact
PROOF
  <1>1. IndInv => ExtremesExact
    <2> SUFFICES ASSUME IndInv PROVE ExtremesExact
      OBVIOUS
    <2>1. /\ bits \in BitSetType /\ Summarised(bits) /\ Members(bits) = prices
          /\ \A q \in prices : q \in Nat
      BY DEF IndInv, TypeOK, Hierarchy, Ticks
    <2>2. CASE prices = {}
      BY <2>1, <2>2, ScanCorrect DEF ExtremesExact
    <2>3. CASE prices # {}
      <3> DEFINE hi == get_highest(bits)
                 lo == get_lowest(bits)
      <3>1. /\ hi \in prices /\ \A q \in prices : q <= hi
            /\ lo \in prices /\ \A q \in prices : lo <= q
        BY <2>1, <2>3, ScanCorrect
      <3> HIDE DEF hi, lo
      <3>2. (CHOOSE p \in prices : \A q \in prices : q <= p) = hi
        BY <2>1, <3>1
      <3>3. (CHOOSE p \in prices : \A q \in prices : p <= q) = lo
        BY <2>1, <3>1
      <3> QED BY <2>3, <3>2, <3>3 DEF ExtremesExact, hi, lo
    <2> QED BY <2>2, <2>3
  <1> QED BY BitmapInductive, <1>1, PTL
===============================================================================
