----------------------------- MODULE PriceBitSet -----------------------------
(***************************************************************************)
(* include/PriceBitSet.h: the set of the prices that have resting orders,  *)
(* as a three-level bitmap.  A machine word is the set of its one bits, of *)
(* which there are RADIX (64 in the code).  The operators return the       *)
(* bitmap a call leaves behind, or the price it answers.                   *)
(***************************************************************************)
EXTENDS Integers

CONSTANTS RADIX,        \* bits per word: 64
          MAX_TICKS,    \* the template parameter: prices are 0 .. MAX_TICKS - 1
          UINT32_MAX    \* the answer of get_lowest() on the empty set

\* One word of _l2 has a bit for each word of _l1 that is in use, so that three
\* levels hold RADIX^3 prices: OrderBook's 262144 is exactly 64^3.
ASSUME TicksAssumption ==
  /\ RADIX \in Nat \ {0, 1}
  /\ MAX_TICKS \in Nat \ {0}
  /\ MAX_TICKS <= RADIX * (RADIX * RADIX)
  /\ UINT32_MAX \in Nat /\ UINT32_MAX >= MAX_TICKS

Ticks == 0 .. MAX_TICKS - 1
Bit == 0 .. RADIX - 1
L0_SIZE == (MAX_TICKS \div RADIX) + 1
L1_SIZE == (L0_SIZE \div RADIX) + 1

BitSetType == [l0 : [0 .. L0_SIZE - 1 -> SUBSET Bit],
               l1 : [0 .. L1_SIZE - 1 -> SUBSET Bit],
               l2 : SUBSET Bit]

NoBits == [l0 |-> [i \in 0 .. L0_SIZE - 1 |-> {}],
           l1 |-> [i \in 0 .. L1_SIZE - 1 |-> {}],
           l2 |-> {}]

\* 63 - countl_zero and countr_zero, with their answers for a word of zeros.
HighBit(word) ==
  IF word = {} THEN -1 ELSE CHOOSE b \in word : \A c \in word : c <= b
LowBit(word) ==
  IF word = {} THEN RADIX ELSE CHOOSE b \in word : \A c \in word : b <= c

\* A definition named X_... is a slip that the definition X after it could
\* contain: the properties must tell them apart.

set_OneDivision(bits, price) ==
  LET l0_index == price \div RADIX
      l1_index == l0_index \div RADIX
  IN  [l0 |-> [bits.l0 EXCEPT ![l0_index] = @ \cup {price % RADIX}],
       l1 |-> [bits.l1 EXCEPT ![l1_index] = @ \cup {l0_index % RADIX}],
       l2 |-> bits.l2 \cup {l0_index}]

set(bits, price) ==
  LET l0_index == price \div RADIX
      l1_index == l0_index \div RADIX
  IN  [l0 |-> [bits.l0 EXCEPT ![l0_index] = @ \cup {price % RADIX}],
       l1 |-> [bits.l1 EXCEPT ![l1_index] = @ \cup {l0_index % RADIX}],
       l2 |-> bits.l2 \cup {l1_index}]

clear_Always(bits, price) ==
  LET l0_index == price \div RADIX
      l1_index == l0_index \div RADIX
      word1 == bits.l1[l1_index] \ {l0_index % RADIX}
  IN  [l0 |-> [bits.l0 EXCEPT ![l0_index] = @ \ {price % RADIX}],
       l1 |-> [bits.l1 EXCEPT ![l1_index] = word1],
       l2 |-> IF word1 = {} THEN bits.l2 \ {l1_index} ELSE bits.l2]

clear(bits, price) ==
  LET l0_index == price \div RADIX
      l1_index == l0_index \div RADIX
      word0 == bits.l0[l0_index] \ {price % RADIX}
      word1 == IF word0 = {} THEN bits.l1[l1_index] \ {l0_index % RADIX}
                             ELSE bits.l1[l1_index]
  IN  [l0 |-> [bits.l0 EXCEPT ![l0_index] = word0],
       l1 |-> [bits.l1 EXCEPT ![l1_index] = word1],
       l2 |-> IF word0 = {} /\ word1 = {} THEN bits.l2 \ {l1_index} ELSE bits.l2]

get_highest_MixedScan(bits) ==
  IF bits.l2 = {} THEN 0
  ELSE LET l2_bit == HighBit(bits.l2)
           l0_idx == l2_bit * RADIX + HighBit(bits.l1[l2_bit])
       IN  l0_idx * RADIX + LowBit(bits.l0[l0_idx])

get_highest(bits) ==
  IF bits.l2 = {} THEN 0
  ELSE LET l2_bit == HighBit(bits.l2)
           l0_idx == l2_bit * RADIX + HighBit(bits.l1[l2_bit])
       IN  l0_idx * RADIX + HighBit(bits.l0[l0_idx])

get_lowest(bits) ==
  IF bits.l2 = {} THEN UINT32_MAX
  ELSE LET l2_bit == LowBit(bits.l2)
           l0_idx == l2_bit * RADIX + LowBit(bits.l1[l2_bit])
       IN  l0_idx * RADIX + LowBit(bits.l0[l0_idx])
-------------------------------------------------------------------------------
\* The prices a bitmap holds are the bits of its lowest level.
Members(bits) == {p \in Ticks : p % RADIX \in bits.l0[p \div RADIX]}

\* The upper levels summarise the lower ones: a bit of a word is set exactly
\* when the word below it is not zero, and no bit stands for a missing word or
\* for a price past the end.
Summarised(bits) ==
  /\ \A i \in 0 .. L0_SIZE - 1 : \A b \in bits.l0[i] : i * RADIX + b \in Ticks
  /\ \A j \in 0 .. L1_SIZE - 1 : \A b \in Bit :
       b \in bits.l1[j] <=> /\ j * RADIX + b \in 0 .. L0_SIZE - 1
                            /\ bits.l0[j * RADIX + b] # {}
  /\ \A b \in Bit : b \in bits.l2 <=> b \in 0 .. L1_SIZE - 1 /\ bits.l1[b] # {}
===============================================================================
