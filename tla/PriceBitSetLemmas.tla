-------------------------- MODULE PriceBitSetLemmas --------------------------
(***************************************************************************)
(* What each PriceBitSet operation does, for every word size and number of *)
(* ticks, from the hierarchy: it says that a scan can follow the highest   *)
(* (lowest) one bit of each level without ever looking back.               *)
(***************************************************************************)
EXTENDS PriceBitSet, ArithmeticLemmas

\* The word and the bit of an index, and the index they stand for.
Word(n) == n \div RADIX
Off(n) == n % RADIX
At(i, b) == i * RADIX + b

\* What 63 - countl_zero and countr_zero return for a word that is not zero.
LEMMA BitScan ==
  ASSUME NEW word \in SUBSET Bit, word # {}
  PROVE  /\ HighBit(word) \in word /\ \A c \in word : c <= HighBit(word)
         /\ LowBit(word) \in word /\ \A c \in word : LowBit(word) <= c
PROOF
  <1>1. word \in SUBSET Nat /\ RADIX - 1 \in Nat /\ \A y \in word : y <= RADIX - 1
    BY TicksAssumption DEF Bit
  <1>2. \E x \in word : \A y \in word : y <= x
    BY <1>1, GreatestNatural
  <1>3. \E x \in word : \A y \in word : x <= y
    BY <1>1, LeastNatural
  <1> QED BY <1>2, <1>3 DEF HighBit, LowBit

\* An index is its word and its bit.
LEMMA WordOff ==
  ASSUME NEW n \in Nat
  PROVE  Word(n) \in Nat /\ Off(n) \in Bit /\ n = At(Word(n), Off(n))
PROOF
  <1>1. RADIX \in Nat \ {0} /\ n \in Int
    BY TicksAssumption
  <1>2. n % RADIX \in 0 .. RADIX - 1 /\ n \div RADIX \in Int
        /\ n = RADIX * (n \div RADIX) + (n % RADIX)
    BY <1>1, DivMod
  <1> DEFINE q == n \div RADIX
             r == n % RADIX
  <1>3. q \in Int /\ r \in 0 .. RADIX - 1 /\ n = RADIX * q + r
    BY <1>2
  <1> HIDE DEF q, r
  <1>4. q >= 0
    <2> SUFFICES ASSUME q <= -1 PROVE FALSE
      BY <1>3
    <2>1. RADIX * q <= RADIX * (-1)
      BY <1>1, <1>3
    <2> QED BY <1>1, <1>3, <2>1
  <1> QED BY <1>1, <1>3, <1>4 DEF Word, Off, At, Bit, q, r

\* And determines them.
LEMMA AtWord ==
  ASSUME NEW i \in Nat, NEW b \in Bit
  PROVE  At(i, b) \in Nat /\ Word(At(i, b)) = i /\ Off(At(i, b)) = b
PROOF
  <1>1. RADIX \in Nat \ {0} /\ i \in Int /\ b \in 0 .. RADIX - 1
    BY TicksAssumption DEF Bit
  <1>2. (RADIX * i + b) % RADIX = b /\ (RADIX * i + b) \div RADIX = i
    BY <1>1, DivModUnique, Zenon
  <1>3. RADIX * i + b = i * RADIX + b /\ i * RADIX + b \in Nat
    BY <1>1
  <1> QED BY <1>2, <1>3 DEF Word, Off, At

\* Indices are ordered like their words, and within a word like their bits.
LEMMA AtOrder ==
  ASSUME NEW i \in Nat, NEW b \in Bit, NEW j \in Nat, NEW c \in Bit,
         i < j \/ (i = j /\ b <= c)
  PROVE  At(i, b) <= At(j, c)
PROOF
  <1>1. RADIX \in Nat \ {0} /\ b \in 0 .. RADIX - 1 /\ c \in 0 .. RADIX - 1
    BY TicksAssumption DEF Bit
  <1>2. CASE i < j
    <2>1. (i + 1) * RADIX <= j * RADIX
      BY <1>1, <1>2
    <2>2. (i + 1) * RADIX = i * RADIX + RADIX
      BY <1>1
    <2> QED BY <1>1, <2>1, <2>2 DEF At
  <1>3. CASE i = j /\ b <= c
    BY <1>1, <1>3 DEF At
  <1> QED BY <1>2, <1>3

\* A bound on an index bounds its word.
LEMMA WordBound ==
  ASSUME NEW n \in Nat, NEW k \in Nat, n < k * RADIX
  PROVE  Word(n) < k
PROOF
  <1>1. RADIX \in Nat \ {0} /\ Word(n) \in Nat /\ Off(n) \in 0 .. RADIX - 1
        /\ n = Word(n) * RADIX + Off(n)
    BY WordOff, TicksAssumption DEF Bit, At
  <1> SUFFICES ASSUME k <= Word(n) PROVE FALSE
    BY <1>1
  <1>2. k * RADIX <= Word(n) * RADIX
    BY <1>1
  <1> QED BY <1>1, <1>2

LEMMA WordMonotone ==
  ASSUME NEW a \in Nat, NEW b \in Nat, a <= b
  PROVE  Word(a) <= Word(b)
PROOF
  <1>1. RADIX \in Nat \ {0} /\ Word(b) \in Nat /\ Off(b) \in 0 .. RADIX - 1
        /\ b = Word(b) * RADIX + Off(b) /\ Word(a) \in Nat
    BY WordOff, TicksAssumption DEF Bit, At
  <1>2. (Word(b) + 1) * RADIX = Word(b) * RADIX + RADIX
    BY <1>1
  <1>3. a < (Word(b) + 1) * RADIX /\ Word(b) + 1 \in Nat
    BY <1>1, <1>2
  <1>4. Word(a) < Word(b) + 1
    BY <1>3, WordBound
  <1> QED BY <1>1, <1>4

\* set() and clear() stay inside the arrays and inside the word _l2.
LEMMA Indices ==
  ASSUME NEW p \in Ticks
  PROVE  /\ p \in Nat
         /\ Word(p) \in 0 .. L0_SIZE - 1 /\ Off(p) \in Bit /\ p = At(Word(p), Off(p))
         /\ Word(Word(p)) \in 0 .. L1_SIZE - 1 /\ Word(Word(p)) \in Bit
         /\ Off(Word(p)) \in Bit /\ Word(p) = At(Word(Word(p)), Off(Word(p)))
         /\ Word(p) \in Nat
PROOF
  <1>1. p \in Nat /\ MAX_TICKS \in Nat /\ p <= MAX_TICKS /\ p < MAX_TICKS
    BY TicksAssumption DEF Ticks
  <1>2. Word(p) \in Nat /\ Word(MAX_TICKS) \in Nat /\ Word(p) <= Word(MAX_TICKS)
    BY <1>1, WordOff, WordMonotone
  <1>3. L0_SIZE = Word(MAX_TICKS) + 1
    BY DEF L0_SIZE, Word
  <1>4. Word(p) \in 0 .. L0_SIZE - 1 /\ L0_SIZE \in Nat /\ Word(p) <= L0_SIZE
    BY <1>2, <1>3
  <1>5. L1_SIZE = Word(L0_SIZE) + 1
    BY DEF L1_SIZE, Word
  <1>6. /\ Word(Word(p)) \in Nat /\ Word(L0_SIZE) \in Nat
        /\ Word(Word(p)) <= Word(L0_SIZE)
    BY <1>2, <1>4, WordOff, WordMonotone
  <1>7. Word(Word(p)) \in 0 .. L1_SIZE - 1
    BY <1>5, <1>6
  <1>8. Word(Word(p)) < RADIX
    <2>1. RADIX \in Nat /\ RADIX * RADIX \in Nat
      BY TicksAssumption
    <2>2. p < (RADIX * RADIX) * RADIX
      <3>1. RADIX * (RADIX * RADIX) = (RADIX * RADIX) * RADIX
        BY <2>1
      <3> QED BY <1>1, <2>1, <3>1, TicksAssumption
    <2>3. Word(p) < RADIX * RADIX
      BY <1>1, <2>1, <2>2, WordBound
    <2> QED BY <1>2, <2>1, <2>3, WordBound
  <1> QED BY <1>1, <1>2, <1>4, <1>6, <1>7, <1>8, WordOff, TicksAssumption DEF Bit

\* The hierarchy in terms of At.
LEMMA SummarisedAt ==
  ASSUME NEW bm
  PROVE  Summarised(bm) <=>
           /\ \A i \in 0 .. L0_SIZE - 1 : \A b \in bm.l0[i] : At(i, b) \in Ticks
           /\ \A j \in 0 .. L1_SIZE - 1 : \A b \in Bit :
                b \in bm.l1[j] <=> At(j, b) \in 0 .. L0_SIZE - 1 /\ bm.l0[At(j, b)] # {}
           /\ \A b \in Bit : b \in bm.l2 <=> b \in 0 .. L1_SIZE - 1 /\ bm.l1[b] # {}
  BY DEF Summarised, At

\* set() keeps the hierarchy and adds its argument.
LEMMA SetCorrect ==
  ASSUME NEW bm \in BitSetType, Summarised(bm), NEW p \in Ticks
  PROVE  /\ set(bm, p) \in BitSetType /\ Summarised(set(bm, p))
         /\ Members(set(bm, p)) = Members(bm) \cup {p}
PROOF
  <1> DEFINE w == Word(p)
             ww == Word(w)
             new == set(bm, p)
  <1>1. /\ p \in Nat /\ w \in Nat /\ w \in 0 .. L0_SIZE - 1 /\ Off(p) \in Bit
        /\ p = At(w, Off(p)) /\ ww \in 0 .. L1_SIZE - 1 /\ ww \in Bit
        /\ Off(w) \in Bit /\ w = At(ww, Off(w))
    BY Indices
  <1>2. new = [l0 |-> [bm.l0 EXCEPT ![w] = @ \cup {Off(p)}],
               l1 |-> [bm.l1 EXCEPT ![ww] = @ \cup {Off(w)}],
               l2 |-> bm.l2 \cup {ww}]
    BY DEF set, Word, Off
  <1>3. /\ bm.l0 \in [0 .. L0_SIZE - 1 -> SUBSET Bit]
        /\ bm.l1 \in [0 .. L1_SIZE - 1 -> SUBSET Bit]
        /\ bm.l2 \in SUBSET Bit
    BY DEF BitSetType
  <1> HIDE DEF w, ww, new
  <1>4. new.l0 = [bm.l0 EXCEPT ![w] = @ \cup {Off(p)}]
        /\ new.l1 = [bm.l1 EXCEPT ![ww] = @ \cup {Off(w)}]
        /\ new.l2 = bm.l2 \cup {ww}
    BY <1>2
  <1>words. /\ \A i \in 0 .. L0_SIZE - 1 :
                 new.l0[i] = IF i = w THEN bm.l0[i] \cup {Off(p)} ELSE bm.l0[i]
            /\ \A j \in 0 .. L1_SIZE - 1 :
                 new.l1[j] = IF j = ww THEN bm.l1[j] \cup {Off(w)} ELSE bm.l1[j]
    BY <1>1, <1>3, <1>4
  <1>5. new \in BitSetType
    <2> DEFINE word0 == bm.l0[w] \cup {Off(p)}
               word1 == bm.l1[ww] \cup {Off(w)}
    <2>words. word0 \in SUBSET Bit /\ word1 \in SUBSET Bit
      BY <1>1, <1>3
    <2>levels. new.l0 = [bm.l0 EXCEPT ![w] = word0] /\ new.l1 = [bm.l1 EXCEPT ![ww] = word1]
      BY <1>4
    <2> HIDE DEF word0, word1
    <2>1. new.l0 \in [0 .. L0_SIZE - 1 -> SUBSET Bit]
      BY <1>3, <2>words, <2>levels
    <2>2. new.l1 \in [0 .. L1_SIZE - 1 -> SUBSET Bit]
      BY <1>3, <2>words, <2>levels
    <2>3. new.l2 \in SUBSET Bit
      BY <1>1, <1>3, <1>4
    <2> QED BY <1>2, <1>4, <2>1, <2>2, <2>3 DEF BitSetType
  <1>6. Summarised(new)
    <2>1. ASSUME NEW i \in 0 .. L0_SIZE - 1, NEW b \in new.l0[i] PROVE At(i, b) \in Ticks
      <3>1. b \in bm.l0[i] \/ (i = w /\ b = Off(p))
        BY <1>words, <2>1
      <3> QED BY <1>1, <3>1, SummarisedAt
    <2>2. ASSUME NEW j \in 0 .. L1_SIZE - 1, NEW b \in Bit
          PROVE  b \in new.l1[j] <=> At(j, b) \in 0 .. L0_SIZE - 1 /\ new.l0[At(j, b)] # {}
      <3>1. At(j, b) = w <=> (j = ww /\ b = Off(w))
        BY <1>1, AtWord DEF ww
      <3>2. b \in new.l1[j] <=> b \in bm.l1[j] \/ At(j, b) = w
        BY <1>1, <1>words, <3>1
      <3>3. ASSUME At(j, b) \in 0 .. L0_SIZE - 1
            PROVE  new.l0[At(j, b)] # {} <=> bm.l0[At(j, b)] # {} \/ At(j, b) = w
        BY <1>1, <1>words, <3>3
      <3> QED BY <1>1, <3>2, <3>3, SummarisedAt
    <2>3. ASSUME NEW b \in Bit
          PROVE  b \in new.l2 <=> b \in 0 .. L1_SIZE - 1 /\ new.l1[b] # {}
      <3>1. ASSUME b \in 0 .. L1_SIZE - 1
            PROVE  new.l1[b] # {} <=> bm.l1[b] # {} \/ b = ww
        BY <1>1, <1>words, <3>1
      <3> QED BY <1>1, <1>4, <3>1, SummarisedAt
    <2> QED BY <2>1, <2>2, <2>3, SummarisedAt
  <1>7. Members(new) = Members(bm) \cup {p}
    <2>1. ASSUME NEW q \in Ticks
          PROVE  Off(q) \in new.l0[Word(q)] <=> Off(q) \in bm.l0[Word(q)] \/ q = p
      <3>1. q \in Nat /\ Word(q) \in 0 .. L0_SIZE - 1 /\ q = At(Word(q), Off(q))
        BY Indices
      <3>2. q = p <=> Word(q) = w /\ Off(q) = Off(p)
        BY <1>1, <3>1 DEF w
      <3>3. new.l0[Word(q)] = IF Word(q) = w THEN bm.l0[Word(q)] \cup {Off(p)} ELSE bm.l0[Word(q)]
        BY <1>1, <1>words, <3>1
      <3> QED BY <3>2, <3>3
    <2> QED BY <2>1 DEF Members, Word, Off
  <1> QED BY <1>5, <1>6, <1>7 DEF new

\* clear() keeps the hierarchy and removes its argument.
LEMMA ClearCorrect ==
  ASSUME NEW bm \in BitSetType, Summarised(bm), NEW p \in Ticks
  PROVE  /\ clear(bm, p) \in BitSetType /\ Summarised(clear(bm, p))
         /\ Members(clear(bm, p)) = Members(bm) \ {p}
PROOF
  <1> DEFINE w == Word(p)
             ww == Word(w)
             word0 == bm.l0[w] \ {Off(p)}
             word1 == IF word0 = {} THEN bm.l1[ww] \ {Off(w)} ELSE bm.l1[ww]
             new == clear(bm, p)
  <1>1. /\ p \in Nat /\ w \in Nat /\ w \in 0 .. L0_SIZE - 1 /\ Off(p) \in Bit
        /\ p = At(w, Off(p)) /\ ww \in 0 .. L1_SIZE - 1 /\ ww \in Bit
        /\ Off(w) \in Bit /\ w = At(ww, Off(w))
    BY Indices
  <1>2. new = [l0 |-> [bm.l0 EXCEPT ![w] = word0],
               l1 |-> [bm.l1 EXCEPT ![ww] = word1],
               l2 |-> IF word0 = {} /\ word1 = {} THEN bm.l2 \ {ww} ELSE bm.l2]
    BY DEF clear, Word, Off
  <1>3. /\ bm.l0 \in [0 .. L0_SIZE - 1 -> SUBSET Bit]
        /\ bm.l1 \in [0 .. L1_SIZE - 1 -> SUBSET Bit]
        /\ bm.l2 \in SUBSET Bit
    BY DEF BitSetType
  <1>4. /\ word0 \in SUBSET Bit /\ word1 \in SUBSET Bit
        /\ word0 = bm.l0[w] \ {Off(p)}
        /\ word1 = IF word0 = {} THEN bm.l1[ww] \ {Off(w)} ELSE bm.l1[ww]
    BY <1>1, <1>3
  <1> HIDE DEF w, ww, new, word0, word1
  <1>5. /\ new.l0 = [bm.l0 EXCEPT ![w] = word0]
        /\ new.l1 = [bm.l1 EXCEPT ![ww] = word1]
        /\ new.l2 = IF word0 = {} /\ word1 = {} THEN bm.l2 \ {ww} ELSE bm.l2
    BY <1>2
  <1>6. /\ new.l0 \in [0 .. L0_SIZE - 1 -> SUBSET Bit]
        /\ new.l1 \in [0 .. L1_SIZE - 1 -> SUBSET Bit]
        /\ new.l2 \in SUBSET Bit
    BY <1>3, <1>4, <1>5
  <1>7. new \in BitSetType
    BY <1>2, <1>5, <1>6 DEF BitSetType
  <1>8. /\ \A i \in 0 .. L0_SIZE - 1 : new.l0[i] = IF i = w THEN word0 ELSE bm.l0[i]
        /\ \A j \in 0 .. L1_SIZE - 1 : new.l1[j] = IF j = ww THEN word1 ELSE bm.l1[j]
    BY <1>1, <1>3, <1>5
  <1>9. Summarised(new)
    <2>1. ASSUME NEW i \in 0 .. L0_SIZE - 1, NEW b \in new.l0[i] PROVE At(i, b) \in Ticks
      <3>1. b \in bm.l0[i]
        BY <1>4, <1>8
      <3> QED BY <3>1, SummarisedAt
    <2>2. ASSUME NEW j \in 0 .. L1_SIZE - 1, NEW b \in Bit
          PROVE  b \in new.l1[j] <=> At(j, b) \in 0 .. L0_SIZE - 1 /\ new.l0[At(j, b)] # {}
      <3>1. At(j, b) = w <=> (j = ww /\ b = Off(w))
        BY <1>1, AtWord DEF ww
      <3>2. b \in new.l1[j] <=> b \in bm.l1[j] /\ ~(At(j, b) = w /\ word0 = {})
        BY <1>4, <1>8, <3>1
      <3>3. ASSUME At(j, b) \in 0 .. L0_SIZE - 1
            PROVE  new.l0[At(j, b)] # {} <=>
                     bm.l0[At(j, b)] # {} /\ ~(At(j, b) = w /\ word0 = {})
        BY <1>4, <1>8, <3>3
      <3> QED BY <3>2, <3>3, SummarisedAt
    <2>3. ASSUME NEW b \in Bit
          PROVE  b \in new.l2 <=> b \in 0 .. L1_SIZE - 1 /\ new.l1[b] # {}
      <3>1. CASE b = ww
        <4>1. b \in new.l2 <=> b \in bm.l2 /\ ~(word0 = {} /\ word1 = {})
          BY <1>5, <3>1
        <4>2. new.l1[b] = word1 /\ b \in 0 .. L1_SIZE - 1
          BY <1>1, <1>8, <3>1
        <4>3. b \in bm.l2 <=> bm.l1[b] # {}
          BY <4>2, SummarisedAt
        <4>4. word1 # {} => bm.l1[b] # {}
          BY <1>4, <3>1
        <4>5. word0 # {} => word1 = bm.l1[b]
          BY <1>4, <3>1
        <4> QED BY <4>1, <4>2, <4>3, <4>4, <4>5
      <3>2. CASE b # ww
        <4>1. b \in new.l2 <=> b \in bm.l2
          BY <1>5, <3>2
        <4>2. b \in 0 .. L1_SIZE - 1 => new.l1[b] = bm.l1[b]
          BY <1>8, <3>2
        <4> QED BY <4>1, <4>2, SummarisedAt
      <3> QED BY <3>1, <3>2
    <2> QED BY <2>1, <2>2, <2>3, SummarisedAt
  <1>10. Members(new) = Members(bm) \ {p}
    <2>1. ASSUME NEW q \in Ticks
          PROVE  Off(q) \in new.l0[Word(q)] <=> Off(q) \in bm.l0[Word(q)] /\ q # p
      <3>1. q \in Nat /\ Word(q) \in 0 .. L0_SIZE - 1 /\ q = At(Word(q), Off(q))
        BY Indices
      <3>2. q = p <=> Word(q) = w /\ Off(q) = Off(p)
        BY <1>1, <3>1 DEF w
      <3>3. new.l0[Word(q)] = IF Word(q) = w THEN word0 ELSE bm.l0[Word(q)]
        BY <1>8, <3>1
      <3> QED BY <1>4, <3>2, <3>3
    <2> QED BY <2>1 DEF Members, Word, Off
  <1> QED BY <1>7, <1>9, <1>10 DEF new

\* The scan: below a one bit there is always a word to scan, the price it leads
\* to is set, and no price that is set lies beyond it.
LEMMA ScanCorrect ==
  ASSUME NEW bm \in BitSetType, Summarised(bm)
  PROVE  /\ Members(bm) = {} => get_highest(bm) = 0 /\ get_lowest(bm) = UINT32_MAX
         /\ Members(bm) # {} =>
              /\ get_highest(bm) \in Members(bm)
              /\ \A q \in Members(bm) : q <= get_highest(bm)
              /\ get_lowest(bm) \in Members(bm)
              /\ \A q \in Members(bm) : get_lowest(bm) <= q
PROOF
  <1>1. /\ bm.l0 \in [0 .. L0_SIZE - 1 -> SUBSET Bit]
        /\ bm.l1 \in [0 .. L1_SIZE - 1 -> SUBSET Bit]
        /\ bm.l2 \in SUBSET Bit
    BY DEF BitSetType
  <1>2. ASSUME NEW q \in Members(bm)
        PROVE  /\ q \in Ticks /\ Word(q) \in Nat /\ Word(Word(q)) \in Nat
               /\ Off(q) \in bm.l0[Word(q)] /\ Word(q) \in 0 .. L0_SIZE - 1
               /\ Off(Word(q)) \in bm.l1[Word(Word(q))] /\ Off(Word(q)) \in Bit
               /\ Word(Word(q)) \in 0 .. L1_SIZE - 1
               /\ Word(Word(q)) \in bm.l2
               /\ q = At(Word(q), Off(q)) /\ Off(q) \in Bit
               /\ Word(q) = At(Word(Word(q)), Off(Word(q)))
    <2>1. q \in Ticks /\ Off(q) \in bm.l0[Word(q)]
      BY DEF Members, Word, Off
    <2>2. /\ Word(q) \in 0 .. L0_SIZE - 1 /\ Word(Word(q)) \in 0 .. L1_SIZE - 1
          /\ Word(Word(q)) \in Bit /\ Off(Word(q)) \in Bit /\ Off(q) \in Bit
          /\ q = At(Word(q), Off(q)) /\ Word(q) = At(Word(Word(q)), Off(Word(q)))
          /\ Word(q) \in Nat /\ Word(Word(q)) \in Nat
      BY <2>1, Indices
    <2>3. Off(Word(q)) \in bm.l1[Word(Word(q))]
      BY <2>1, <2>2, SummarisedAt
    <2>4. Word(Word(q)) \in bm.l2
      BY <2>2, <2>3, SummarisedAt
    <2> QED BY <2>1, <2>2, <2>3, <2>4
  <1>3. ASSUME NEW i \in 0 .. L0_SIZE - 1, NEW b \in bm.l0[i] PROVE At(i, b) \in Members(bm)
    <2>1. i \in Nat /\ b \in Bit /\ At(i, b) \in Ticks
      <3>1. bm.l0[i] \in SUBSET Bit
        BY <1>1
      <3>2. At(i, b) \in Ticks
        BY <1>3, SummarisedAt
      <3> QED BY <1>3, <3>1, <3>2
    <2>2. Word(At(i, b)) = i /\ Off(At(i, b)) = b
      BY <2>1, AtWord
    <2> QED BY <1>3, <2>1, <2>2 DEF Members, Word, Off
  <1>4. \* what a scan reaches from a bit of each level
        ASSUME NEW c \in bm.l2
        PROVE  /\ c \in 0 .. L1_SIZE - 1 /\ bm.l1[c] \in SUBSET Bit /\ bm.l1[c] # {}
               /\ \A d \in bm.l1[c] : /\ At(c, d) \in 0 .. L0_SIZE - 1
                                      /\ bm.l0[At(c, d)] \in SUBSET Bit
                                      /\ bm.l0[At(c, d)] # {}
    BY <1>1, <1>4, SummarisedAt
  <1>5. ASSUME bm.l2 = {} PROVE Members(bm) = {}
    BY <1>2, <1>5
  <1>6. ASSUME bm.l2 # {}
        PROVE  /\ get_highest(bm) \in Members(bm)
               /\ \A q \in Members(bm) : q <= get_highest(bm)
    <2> DEFINE c == HighBit(bm.l2)
               d == HighBit(bm.l1[c])
               e == HighBit(bm.l0[At(c, d)])
    <2>1. get_highest(bm) = At(At(c, d), e)
      BY <1>6 DEF get_highest, At
    <2>2. c \in bm.l2 /\ \A x \in bm.l2 : x <= c
      BY <1>1, <1>6, BitScan
    <2>3. d \in bm.l1[c] /\ \A x \in bm.l1[c] : x <= d
      BY <1>4, <2>2, BitScan
    <2>4. e \in bm.l0[At(c, d)] /\ \A x \in bm.l0[At(c, d)] : x <= e
      BY <1>4, <2>2, <2>3, BitScan
    <2>5. /\ c \in Nat /\ d \in Bit /\ e \in Bit
          /\ At(c, d) \in Nat /\ At(c, d) \in 0 .. L0_SIZE - 1
      BY <1>1, <1>4, <2>2, <2>3, <2>4
    <2>6. At(At(c, d), e) \in Members(bm)
      BY <1>3, <2>4, <2>5
    <2> HIDE DEF c, d, e
    <2>7. ASSUME NEW q \in Members(bm) PROVE q <= At(At(c, d), e)
      <3>1. /\ Word(q) \in Nat /\ Word(Word(q)) \in Nat /\ Off(q) \in Bit /\ Off(Word(q)) \in Bit
            /\ q = At(Word(q), Off(q)) /\ Word(q) = At(Word(Word(q)), Off(Word(q)))
        BY <1>2
      <3>2. Word(Word(q)) < c \/ (Word(Word(q)) = c /\ Off(Word(q)) <= d)
        BY <1>2, <2>2, <2>3, <2>5, <3>1
      <3>3. Word(q) <= At(c, d)
        BY <2>5, <3>1, <3>2, AtOrder
      <3>4. Word(q) < At(c, d) \/ (Word(q) = At(c, d) /\ Off(q) <= e)
        BY <1>2, <2>4, <2>5, <3>1, <3>3
      <3> QED BY <2>5, <3>1, <3>4, AtOrder
    <2> QED BY <2>1, <2>6, <2>7
  <1>7. ASSUME bm.l2 # {}
        PROVE  /\ get_lowest(bm) \in Members(bm)
               /\ \A q \in Members(bm) : get_lowest(bm) <= q
    <2> DEFINE c == LowBit(bm.l2)
               d == LowBit(bm.l1[c])
               e == LowBit(bm.l0[At(c, d)])
    <2>1. get_lowest(bm) = At(At(c, d), e)
      BY <1>7 DEF get_lowest, At
    <2>2. c \in bm.l2 /\ \A x \in bm.l2 : c <= x
      BY <1>1, <1>7, BitScan
    <2>3. d \in bm.l1[c] /\ \A x \in bm.l1[c] : d <= x
      BY <1>4, <2>2, BitScan
    <2>4. e \in bm.l0[At(c, d)] /\ \A x \in bm.l0[At(c, d)] : e <= x
      BY <1>4, <2>2, <2>3, BitScan
    <2>5. /\ c \in Nat /\ d \in Bit /\ e \in Bit
          /\ At(c, d) \in Nat /\ At(c, d) \in 0 .. L0_SIZE - 1
      BY <1>1, <1>4, <2>2, <2>3, <2>4
    <2>6. At(At(c, d), e) \in Members(bm)
      BY <1>3, <2>4, <2>5
    <2> HIDE DEF c, d, e
    <2>7. ASSUME NEW q \in Members(bm) PROVE At(At(c, d), e) <= q
      <3>1. /\ Word(q) \in Nat /\ Word(Word(q)) \in Nat /\ Off(q) \in Bit /\ Off(Word(q)) \in Bit
            /\ q = At(Word(q), Off(q)) /\ Word(q) = At(Word(Word(q)), Off(Word(q)))
        BY <1>2
      <3>2. c < Word(Word(q)) \/ (Word(Word(q)) = c /\ d <= Off(Word(q)))
        BY <1>2, <2>2, <2>3, <2>5, <3>1
      <3>3. At(c, d) <= Word(q)
        BY <2>5, <3>1, <3>2, AtOrder
      <3>4. At(c, d) < Word(q) \/ (Word(q) = At(c, d) /\ e <= Off(q))
        BY <1>2, <2>4, <2>5, <3>1, <3>3
      <3> QED BY <2>5, <3>1, <3>4, AtOrder
    <2> QED BY <2>1, <2>6, <2>7
  <1>8. bm.l2 = {} => get_highest(bm) = 0 /\ get_lowest(bm) = UINT32_MAX
    BY DEF get_highest, get_lowest
  <1> QED BY <1>5, <1>6, <1>7, <1>8

\* The empty bitmap.
LEMMA NoBitsCorrect ==
  NoBits \in BitSetType /\ Summarised(NoBits) /\ Members(NoBits) = {}
PROOF
  <1>1. NoBits \in BitSetType
    BY DEF NoBits, BitSetType
  <1>2. Summarised(NoBits)
    BY SummarisedAt DEF NoBits
  <1>3. \A p \in Ticks : NoBits.l0[Word(p)] = {}
    BY Indices DEF NoBits
  <1> QED BY <1>1, <1>2, <1>3 DEF Members, Word
===============================================================================
