--------------------------- MODULE ArithmeticLemmas ---------------------------
(***************************************************************************)
(* Facts about numbers that the proofs share: division and remainder by a  *)
(* symbolic divisor (ring indices, wrapping cursors, bitmap words), least  *)
(* and greatest elements (scans, best prices), and running sums (the total *)
(* quantity of a level).                                                   *)
(***************************************************************************)
EXTENDS Integers, WellFoundedInduction, TLAPS

\* Quotient and remainder recompose their dividend.
LEMMA DivMod ==
  ASSUME NEW C \in Nat \ {0}, NEW a \in Int
  PROVE  /\ a % C \in 0 .. C - 1
         /\ a \div C \in Int
         /\ a = C * (a \div C) + (a % C)
  OBVIOUS

\* They are the only such pair.
LEMMA DivModUnique ==
  ASSUME NEW C \in Nat \ {0}, NEW q \in Int, NEW r \in 0 .. C - 1
  PROVE  /\ (C * q + r) % C = r
         /\ (C * q + r) \div C = q
  OBVIOUS

\* A number below the modulus is its own remainder.
LEMMA ModSmall ==
  ASSUME NEW C \in Nat \ {0}, NEW a \in 0 .. C - 1
  PROVE  a % C = a
  OBVIOUS

\* Adding commutes with wrapping: what a wrapping counter computes.
LEMMA ModShift ==
  ASSUME NEW C \in Nat \ {0}, NEW a \in Int, NEW d \in Int
  PROVE  ((a % C) + d) % C = (a + d) % C
PROOF
  <1> DEFINE p == a \div C
             s == a % C
             q == (a + d) \div C
             r == (a + d) % C
  <1>1. p \in Int /\ s \in 0 .. C - 1 /\ a = C * p + s
    BY DivMod
  <1>2. q \in Int /\ r \in 0 .. C - 1 /\ a + d = C * q + r
    <2>1. a + d \in Int
      OBVIOUS
    <2> QED BY <2>1, DivMod
  <1> HIDE DEF p, s, q, r
  <1>3. s + d = C * (q - p) + r
    BY <1>1, <1>2
  <1>4. (C * (q - p) + r) % C = r
    BY <1>1, <1>2, DivModUnique
  <1> QED BY <1>3, <1>4 DEF s, r

\* The distance of two wrapped counters is their distance, wrapped.
LEMMA ModDistance ==
  ASSUME NEW C \in Nat \ {0}, NEW a \in Int, NEW b \in Int
  PROVE  ((a % C) - (b % C)) % C = (a - b) % C
PROOF
  <1> DEFINE p == b \div C
             s == b % C
             q == (a - s) \div C
             r == (a - s) % C
  <1>1. p \in Int /\ s \in 0 .. C - 1 /\ b = C * p + s
    BY DivMod
  <1>2. ((a % C) - s) % C = r
    <2>1. s \in Int /\ -s \in Int
      BY <1>1
    <2>2. ((a % C) + (-s)) % C = (a + (-s)) % C
      BY <2>1, ModShift
    <2>3. a % C \in Int
      BY DivMod
    <2> QED BY <2>1, <2>2, <2>3
  <1>3. q \in Int /\ r \in 0 .. C - 1 /\ a - s = C * q + r
    <2>1. a - s \in Int
      BY <1>1
    <2> QED BY <2>1, DivMod
  <1> HIDE DEF p, s, q, r
  <1>4. a - b = C * (q - p) + r
    BY <1>1, <1>3
  <1>5. (C * (q - p) + r) % C = r
    BY <1>1, <1>3, DivModUnique
  <1> QED BY <1>2, <1>4, <1>5 DEF s

\* Fewer than C apart, two numbers with one remainder are equal: distinct
\* positions of a window no longer than the ring have distinct slots.
LEMMA ModInjective ==
  ASSUME NEW C \in Nat \ {0}, NEW a \in Int, NEW b \in Int,
         a <= b, b < a + C, a % C = b % C
  PROVE  a = b
PROOF
  <1>1. (b - a) % C = 0
    <2>1. ((b % C) - (a % C)) % C = (b - a) % C
      BY ModDistance
    <2>2. a % C \in 0 .. C - 1
      BY DivMod
    <2>3. 0 % C = 0
      BY ModSmall
    <2> QED BY <2>1, <2>2, <2>3
  <1>2. (b - a) % C = b - a
    BY ModSmall
  <1> QED BY <1>1, <1>2

\* Reducing modulo a multiple of C first does not change the remainder by C.
LEMMA ModOfMultiple ==
  ASSUME NEW C \in Nat \ {0}, NEW k \in Nat \ {0}, NEW a \in Int,
         NEW M \in Nat \ {0}, M = k * C
  PROVE  (a % M) % C = a % C
PROOF
  <1>1. M \in Nat \ {0}
    OBVIOUS
  <1> DEFINE p == a \div M
             s == a % M
             q == s \div C
             r == s % C
  <1>2. p \in Int /\ s \in 0 .. M - 1 /\ a = M * p + s
    BY <1>1, DivMod
  <1>3. q \in Int /\ r \in 0 .. C - 1 /\ s = C * q + r
    <2>1. s \in Int
      BY <1>1, <1>2
    <2> QED BY <2>1, DivMod
  <1> HIDE DEF p, s, q, r
  <1>4. a = C * (k * p + q) + r
    <2>1. M * p = C * (k * p)
      BY <1>2
    <2>2. k * p \in Int
      BY <1>2
    <2>3. C * (k * p + q) = C * (k * p) + C * q
      BY <1>3, <2>2
    <2>4. C * (k * p) \in Int /\ C * q \in Int
      BY <2>2, <1>3
    <2> QED BY <1>2, <1>3, <2>1, <2>3, <2>4
  <1>5. k * p + q \in Int
    BY <1>2, <1>3
  <1>6. (C * (k * p + q) + r) % C = r
    BY <1>3, <1>5, DivModUnique
  <1> QED BY <1>4, <1>6 DEF r, s
-------------------------------------------------------------------------------
\* A set of naturals that is not empty has a least element.
LEMMA LeastNatural ==
  ASSUME NEW S \in SUBSET Nat, S # {}
  PROVE  \E x \in S : \A y \in S : x <= y
PROOF
  <1>1. PICK x \in S : \A y \in S : ~ (<<y, x>> \in OpToRel(<, Nat))
    BY NatLessThanWellFounded, WFMin
  <1>2. \A y \in S : ~(y < x)
    BY <1>1 DEF OpToRel
  <1> QED BY <1>2

\* A bounded one also has a greatest element.
LEMMA GreatestNatural ==
  ASSUME NEW S \in SUBSET Nat, S # {}, NEW m \in Nat, \A y \in S : y <= m
  PROVE  \E x \in S : \A y \in S : y <= x
PROOF
  <1> DEFINE T == {n \in Nat : m - n \in S}
  <1>1. T \in SUBSET Nat /\ T # {}
    <2>1. PICK y \in S : TRUE
      OBVIOUS
    <2>2. m - y \in Nat /\ m - (m - y) = y
      BY <2>1
    <2> QED BY <2>1, <2>2
  <1>2. PICK n \in T : \A k \in T : n <= k
    <2> HIDE DEF T
    <2> QED BY <1>1, LeastNatural
  <1>3. m - n \in S /\ n \in Nat
    BY <1>2
  <1>4. ASSUME NEW y \in S PROVE y <= m - n
    <2>1. m - y \in Nat /\ m - (m - y) = y
      OBVIOUS
    <2>2. m - y \in T
      BY <2>1
    <2>3. n <= m - y
      BY <1>2, <2>2
    <2> QED BY <1>3, <2>1, <2>3
  <1> QED BY <1>3, <1>4

\* The greatest element after one more: what add_order caches as the best bid.
LEMMA NewHighest ==
  ASSUME NEW M \in SUBSET Nat, NEW p \in Nat, NEW old \in Nat, NEW hi,
         hi \in M \cup {p}, \A r \in M \cup {p} : r <= hi,
         M = {} => old = 0, M # {} => old \in M, \A r \in M : r <= old
  PROVE  hi = IF p > old THEN p ELSE old
PROOF
  <1>1. hi \in Nat /\ p <= hi
    OBVIOUS
  <1>2. hi = p \/ hi <= old
    OBVIOUS
  <1>3. M # {} => old <= hi
    OBVIOUS
  <1>4. M = {} => hi = p /\ old = 0
    OBVIOUS
  <1> QED BY <1>1, <1>2, <1>3, <1>4

\* The least one: the best ask.
LEMMA NewLowest ==
  ASSUME NEW M \in SUBSET Nat, NEW p \in Nat, NEW old \in Nat, NEW lo, NEW top \in Nat,
         lo \in M \cup {p}, \A r \in M \cup {p} : lo <= r, p < top,
         M = {} => old = top, M # {} => old \in M, \A r \in M : old <= r
  PROVE  lo = IF p < old THEN p ELSE old
PROOF
  <1>1. lo \in Nat /\ lo <= p
    OBVIOUS
  <1>2. lo = p \/ old <= lo
    OBVIOUS
  <1>3. M # {} => lo <= old
    OBVIOUS
  <1>4. M = {} => lo = p /\ old = top
    OBVIOUS
  <1> QED BY <1>1, <1>2, <1>3, <1>4
-------------------------------------------------------------------------------
\* t is the sum of the n positive quantities d[1] .. d[n]: acc is the running
\* sum, which grows with every quantity.
RunningSum(acc, n, d) ==
  /\ acc \in [0 .. n -> Nat]
  /\ acc[0] = 0
  /\ \A i \in 1 .. n : acc[i] = acc[i - 1] + d[i]
  /\ \A i, j \in 0 .. n : i < j => acc[i] < acc[j]
SumOf(n, d, t) == \E acc : RunningSum(acc, n, d) /\ t = acc[n]

\* The arithmetic of running sums: what lies below a removed or reduced term is
\* less than what lies above it.
LEMMA GapKept ==
  ASSUME NEW a \in Nat, NEW b \in Nat, NEW c \in Nat, NEW x \in Nat, NEW y \in Nat,
         a <= b, c = b + x
  PROVE  /\ c < y => a < y - x
         /\ \A v \in Nat : c <= y /\ 0 < v /\ v <= x => a < y - (x - v)
  OBVIOUS

\* Two sums less the same term.
LEMMA Shifted ==
  ASSUME NEW a \in Nat, NEW b \in Nat, NEW x \in Int
  PROVE  /\ a < b => a - x < b - x
         /\ \A y \in Nat : b = a + y => b - x = (a - x) + y
  OBVIOUS

\* A running sum at two places.
LEMMA SumOrder ==
  ASSUME NEW n \in Nat, NEW d \in [1 .. n -> Nat], NEW acc, RunningSum(acc, n, d),
         NEW i \in 0 .. n, NEW j \in 0 .. n
  PROVE  /\ acc[i] \in Nat /\ acc[j] \in Nat
         /\ i < j => acc[i] < acc[j]
         /\ i <= j => acc[i] <= acc[j]
PROOF
  <1>1. acc[i] \in Nat /\ acc[j] \in Nat /\ (i < j => acc[i] < acc[j])
    BY DEF RunningSum
  <1> QED BY <1>1

\* A running sum takes its term at each place.
LEMMA SumStep ==
  ASSUME NEW n \in Nat, NEW d \in [1 .. n -> Nat], NEW acc, RunningSum(acc, n, d),
         NEW i \in 1 .. n
  PROVE  acc[i] = acc[i - 1] + d[i] /\ d[i] \in Nat /\ i - 1 \in 0 .. n /\ i \in 0 .. n
  BY DEF RunningSum

\* Nothing sums up to zero.
LEMMA SumNone ==
  ASSUME NEW d
  PROVE  SumOf(0, d, 0)
PROOF
  <1> DEFINE acc == [i \in 0 .. 0 |-> 0]
  <1>1. RunningSum(acc, 0, d)
    BY DEF RunningSum
  <1> QED BY <1>1 DEF SumOf

\* A sum is zero only if it has no terms, and no term exceeds it.
LEMMA SumBounds ==
  ASSUME NEW n \in Nat, NEW d \in [1 .. n -> Nat], NEW t, SumOf(n, d, t)
  PROVE  /\ t \in Nat /\ (t = 0 <=> n = 0)
         /\ \A k \in 1 .. n : 0 < d[k] /\ d[k] <= t
PROOF
  <1>1. PICK acc : RunningSum(acc, n, d) /\ t = acc[n]
    BY DEF SumOf
  <1>2. t \in Nat /\ (n # 0 => acc[0] < acc[n]) /\ acc[0] = 0
    BY <1>1 DEF RunningSum
  <1>3. ASSUME NEW k \in 1 .. n PROVE 0 < d[k] /\ d[k] <= t
    <2>1. /\ acc[k] = acc[k - 1] + d[k] /\ acc[k - 1] < acc[k]
          /\ k = n \/ acc[k] < acc[n]
          /\ acc[k] \in Nat /\ acc[k - 1] \in Nat /\ acc[n] \in Nat /\ d[k] \in Nat
      BY <1>1, <1>3 DEF RunningSum
    <2> QED BY <1>1, <2>1
  <1> QED BY <1>1, <1>2, <1>3

\* The same terms have the same sum.
LEMMA SumSame ==
  ASSUME NEW n \in Nat, NEW d, NEW e, NEW t, SumOf(n, d, t),
         \A i \in 1 .. n : e[i] = d[i]
  PROVE  SumOf(n, e, t)
  BY DEF SumOf, RunningSum

\* One more term.
LEMMA SumAppend ==
  ASSUME NEW n \in Nat, NEW d \in [1 .. n -> Nat], NEW t, SumOf(n, d, t),
         NEW e \in [1 .. n + 1 -> Nat], \A i \in 1 .. n : e[i] = d[i], 0 < e[n + 1]
  PROVE  SumOf(n + 1, e, t + e[n + 1])
PROOF
  <1>1. PICK acc : RunningSum(acc, n, d) /\ t = acc[n]
    BY DEF SumOf
  <1> DEFINE new == [i \in 0 .. n + 1 |-> IF i = n + 1 THEN t + e[n + 1] ELSE acc[i]]
  <1>2. /\ \A i \in 0 .. n : new[i] = acc[i] /\ acc[i] \in Nat /\ acc[i] <= t
        /\ new[n + 1] = t + e[n + 1]
    <2>1. ASSUME NEW i \in 0 .. n PROVE new[i] = acc[i] /\ acc[i] \in Nat /\ acc[i] <= t
      BY <1>1, <2>1, SumOrder
    <2>2. new[n + 1] = t + e[n + 1]
      OBVIOUS
    <2> QED BY <2>1, <2>2
  <1>3. t \in Nat /\ e[n + 1] \in Nat
    BY <1>1 DEF RunningSum
  <1>4. new \in [0 .. n + 1 -> Nat] /\ new[0] = 0
    BY <1>1, <1>2, <1>3 DEF RunningSum
  <1> HIDE DEF new
  <1>5. ASSUME NEW i \in 1 .. n + 1 PROVE new[i] = new[i - 1] + e[i]
    <2>1. CASE i = n + 1
      BY <1>1, <1>2, <2>1
    <2>2. CASE i \in 1 .. n
      <3>1. acc[i] = acc[i - 1] + d[i] /\ i - 1 \in 0 .. n /\ i \in 0 .. n
        BY <1>1, <2>2, SumStep
      <3> QED BY <1>2, <2>2, <3>1
    <2> QED BY <2>1, <2>2
  <1>6. ASSUME NEW i \in 0 .. n + 1, NEW j \in 0 .. n + 1, i < j PROVE new[i] < new[j]
    <2>1. CASE j = n + 1
      BY <1>2, <1>3, <1>6, <2>1
    <2>2. CASE j \in 0 .. n
      <3>1. i \in 0 .. n
        BY <1>6, <2>2
      <3>2. acc[i] < acc[j]
        BY <1>1, <1>6, <2>2, <3>1, SumOrder
      <3> QED BY <1>2, <2>2, <3>1, <3>2
    <2> QED BY <2>1, <2>2
  <1>7. RunningSum(new, n + 1, e)
    BY <1>4, <1>5, <1>6 DEF RunningSum
  <1> QED BY <1>2, <1>7 DEF SumOf

\* One term less.
LEMMA SumRemove ==
  ASSUME NEW n \in Nat, NEW d \in [1 .. n -> Nat], NEW t, SumOf(n, d, t),
         NEW k \in 1 .. n, NEW e,
         \A i \in 1 .. n - 1 : e[i] = IF i < k THEN d[i] ELSE d[i + 1]
  PROVE  SumOf(n - 1, e, t - d[k])
PROOF
  <1>1. PICK acc : RunningSum(acc, n, d) /\ t = acc[n]
    BY DEF SumOf
  <1> DEFINE new == [i \in 0 .. n - 1 |-> IF i < k THEN acc[i] ELSE acc[i + 1] - d[k]]
  <1>2. /\ \A i \in 0 .. n : acc[i] \in Nat
        /\ acc[k] = acc[k - 1] + d[k] /\ d[k] \in Nat
        /\ \A i \in 0 .. n - 1 : new[i] = IF i < k THEN acc[i] ELSE acc[i + 1] - d[k]
    BY <1>1 DEF RunningSum
  <1>3. new \in [0 .. n - 1 -> Nat] /\ new[0] = 0
    <2>1. ASSUME NEW i \in 0 .. n - 1, ~(i < k) PROVE acc[i + 1] - d[k] \in Nat
      <3>1. k \in 0 .. n /\ i + 1 \in 0 .. n /\ k <= i + 1 /\ k - 1 \in 0 .. n
        BY <2>1
      <3>2. acc[k] <= acc[i + 1]
        BY <1>1, <3>1, SumOrder
      <3> QED BY <1>2, <3>1, <3>2
    <2> QED BY <1>1, <1>2, <2>1 DEF RunningSum
  <1> HIDE DEF new
  <1>4. ASSUME NEW i \in 1 .. n - 1 PROVE new[i] = new[i - 1] + e[i]
    <2>1. acc[i] = acc[i - 1] + d[i] /\ d[i] \in Nat /\ i - 1 \in 0 .. n /\ i \in 0 .. n
      <3>1. i \in 1 .. n
        BY <1>4
      <3> QED BY <1>1, <3>1, SumStep
    <2>2. i + 1 \in 1 .. n /\ (i + 1) - 1 = i /\ (i - 1) + 1 = i /\ i - 1 \in 0 .. n - 1
          /\ i \in 0 .. n - 1
      BY <1>4
    <2>3. acc[i + 1] = acc[i] + d[i + 1] /\ d[i + 1] \in Nat /\ i + 1 \in 0 .. n
      <3> DEFINE m == i + 1
      <3>1. acc[m] = acc[m - 1] + d[m] /\ d[m] \in Nat /\ m \in 0 .. n
        <4> HIDE DEF m
        <4>1. m \in 1 .. n
          BY <2>2 DEF m
        <4> QED BY <1>1, <4>1, SumStep
      <3> QED BY <2>2, <3>1
    <2>4. /\ new[i] = IF i < k THEN acc[i] ELSE acc[i + 1] - d[k]
          /\ new[i - 1] = IF i - 1 < k THEN acc[i - 1] ELSE acc[i] - d[k]
      BY <1>2, <2>2
    <2>5. acc[i] \in Nat /\ acc[i - 1] \in Nat /\ acc[i + 1] \in Nat
      BY <1>2, <2>1, <2>3
    <2>6. CASE i < k
      BY <2>1, <2>4, <2>6
    <2>7. CASE i = k
      BY <1>2, <2>1, <2>3, <2>4, <2>5, <2>7, SMTT(30)
    <2>8. CASE i > k
      <3>1. /\ new[i] = acc[i + 1] - d[k] /\ new[i - 1] = acc[i] - d[k] /\ e[i] = d[i + 1]
            /\ d[k] \in Int
        BY <1>2, <2>4, <2>8
      <3>2. acc[i + 1] - d[k] = (acc[i] - d[k]) + d[i + 1]
        BY <2>3, <2>5, <3>1, Shifted
      <3> QED BY <3>1, <3>2
    <2> QED BY <2>6, <2>7, <2>8
  <1>5. ASSUME NEW i \in 0 .. n - 1, NEW j \in 0 .. n - 1, i < j PROVE new[i] < new[j]
    <2>1. /\ i \in 0 .. n /\ j \in 0 .. n /\ i + 1 \in 0 .. n /\ j + 1 \in 0 .. n
          /\ k \in 0 .. n /\ k - 1 \in 0 .. n /\ i + 1 < j + 1
      BY <1>5
    <2>2. /\ new[i] = IF i < k THEN acc[i] ELSE acc[i + 1] - d[k]
          /\ new[j] = IF j < k THEN acc[j] ELSE acc[j + 1] - d[k]
          /\ acc[i] \in Nat /\ acc[j] \in Nat /\ acc[i + 1] \in Nat /\ acc[j + 1] \in Nat
          /\ acc[k] \in Nat /\ acc[k - 1] \in Nat
      BY <1>2, <2>1
    <2>3. CASE j < k
      <3>1. acc[i] < acc[j]
        BY <1>1, <1>5, <2>1, SumOrder
      <3> QED BY <1>5, <2>2, <2>3, <3>1
    <2>4. CASE i >= k
      <3>1. acc[i + 1] < acc[j + 1]
        BY <1>1, <2>1, SumOrder
      <3>2. new[i] = acc[i + 1] - d[k] /\ new[j] = acc[j + 1] - d[k] /\ d[k] \in Int
        BY <1>2, <1>5, <2>2, <2>4
      <3>3. acc[i + 1] - d[k] < acc[j + 1] - d[k]
        BY <2>2, <3>1, <3>2, Shifted
      <3> QED BY <3>2, <3>3
    <2>5. CASE i < k /\ j >= k
      <3>1. acc[i] <= acc[k - 1]
        BY <1>1, <2>1, <2>5, SumOrder
      <3>2. acc[k] < acc[j + 1]
        BY <1>1, <2>1, <2>5, SumOrder
      <3>3. new[i] = acc[i] /\ new[j] = acc[j + 1] - d[k]
        BY <2>2, <2>5
      <3>4. acc[k] = acc[k - 1] + d[k] /\ d[k] \in Nat /\ acc[k] \in Nat /\ acc[k - 1] \in Nat
        BY <1>2, <2>2
      <3>5. acc[i] \in Nat /\ acc[j] \in Nat /\ acc[j + 1] \in Nat
        BY <2>2
      <3>6. acc[i] < acc[j + 1] - d[k]
        BY <3>1, <3>2, <3>4, <3>5, GapKept
      <3> QED BY <3>3, <3>6
    <2> QED BY <2>3, <2>4, <2>5
  <1>6. RunningSum(new, n - 1, e)
    BY <1>3, <1>4, <1>5 DEF RunningSum
  <1>7. new[n - 1] = t - d[k]
    BY <1>1, <1>2
  <1> QED BY <1>6, <1>7 DEF SumOf

\* One smaller term.
LEMMA SumReduce ==
  ASSUME NEW n \in Nat, NEW d \in [1 .. n -> Nat], NEW t, SumOf(n, d, t),
         NEW k \in 1 .. n, NEW v \in Nat, 0 < v, v <= d[k], NEW e,
         \A i \in 1 .. n : e[i] = IF i = k THEN v ELSE d[i]
  PROVE  SumOf(n, e, t - (d[k] - v))
PROOF
  <1>1. PICK acc : RunningSum(acc, n, d) /\ t = acc[n]
    BY DEF SumOf
  <1> DEFINE new == [i \in 0 .. n |-> IF i < k THEN acc[i] ELSE acc[i] - (d[k] - v)]
  <1>2. /\ \A i \in 0 .. n : acc[i] \in Nat
        /\ acc[k] = acc[k - 1] + d[k] /\ d[k] \in Nat
        /\ \A i \in 0 .. n : new[i] = IF i < k THEN acc[i] ELSE acc[i] - (d[k] - v)
    BY <1>1 DEF RunningSum
  <1>3. new \in [0 .. n -> Nat] /\ new[0] = 0
    <2>1. ASSUME NEW i \in 0 .. n, ~(i < k) PROVE acc[i] - (d[k] - v) \in Nat
      <3>1. k \in 0 .. n /\ k <= i /\ k - 1 \in 0 .. n
        BY <2>1
      <3>2. acc[k] <= acc[i]
        BY <1>1, <3>1, SumOrder
      <3> QED BY <1>2, <3>1, <3>2
    <2>2. ASSUME NEW i \in 0 .. n PROVE new[i] \in Nat
      BY <1>2, <2>1
    <2>3. acc[0] = 0 /\ new[0] = acc[0]
      BY <1>1, <1>2 DEF RunningSum
    <2> QED BY <2>2, <2>3
  <1> HIDE DEF new
  <1>4. ASSUME NEW i \in 1 .. n PROVE new[i] = new[i - 1] + e[i]
    <2>1. acc[i] = acc[i - 1] + d[i] /\ d[i] \in Nat
      BY <1>1, <1>4 DEF RunningSum
    <2>2. CASE i < k
      BY <1>2, <2>1, <2>2
    <2>3. CASE i = k
      BY <1>2, <2>1, <2>3
    <2>4. CASE i > k
      BY <1>2, <2>1, <2>4
    <2> QED BY <2>2, <2>3, <2>4
  <1>5. ASSUME NEW i \in 0 .. n, NEW j \in 0 .. n, i < j PROVE new[i] < new[j]
    <2>1. k \in 0 .. n /\ k - 1 \in 0 .. n
      OBVIOUS
    <2>2. /\ new[i] = IF i < k THEN acc[i] ELSE acc[i] - (d[k] - v)
          /\ new[j] = IF j < k THEN acc[j] ELSE acc[j] - (d[k] - v)
          /\ acc[i] \in Nat /\ acc[j] \in Nat /\ acc[k] \in Nat /\ acc[k - 1] \in Nat
      BY <1>2, <2>1
    <2>3. acc[i] < acc[j]
      BY <1>1, <1>5, SumOrder
    <2>4. CASE j < k
      BY <1>5, <2>2, <2>3, <2>4
    <2>6. CASE i >= k
      <3>1. /\ new[i] = acc[i] - (d[k] - v) /\ new[j] = acc[j] - (d[k] - v)
            /\ d[k] - v \in Int
        BY <1>2, <1>5, <2>2, <2>6
      <3>2. acc[i] - (d[k] - v) < acc[j] - (d[k] - v)
        BY <2>2, <2>3, <3>1, Shifted
      <3> QED BY <3>1, <3>2
    <2>5. CASE i < k /\ j >= k
      <3>1. acc[i] <= acc[k - 1]
        BY <1>1, <2>1, <2>5, SumOrder
      <3>2. acc[k] <= acc[j]
        BY <1>1, <2>1, <2>5, SumOrder
      <3>3. new[i] = acc[i] /\ new[j] = acc[j] - (d[k] - v)
        BY <2>2, <2>5
      <3>4. acc[k] = acc[k - 1] + d[k] /\ d[k] \in Nat /\ acc[k] \in Nat /\ acc[k - 1] \in Nat
        BY <1>2, <2>2
      <3>5. acc[i] \in Nat /\ acc[j] \in Nat
        BY <2>2
      <3>6. acc[i] < acc[j] - (d[k] - v)
        BY <3>1, <3>2, <3>4, <3>5, GapKept
      <3> QED BY <3>3, <3>6
    <2> QED BY <2>4, <2>5, <2>6
  <1>6. RunningSum(new, n, e)
    BY <1>3, <1>4, <1>5 DEF RunningSum
  <1>7. new[n] = t - (d[k] - v)
    BY <1>1, <1>2
  <1> QED BY <1>6, <1>7 DEF SumOf
===============================================================================
