-------------------------- MODULE LatencyReportProofs --------------------------
(***************************************************************************)
(* The latency report gives true quantiles, for every size of the array of *)
(* samples, any latencies and any number of messages.                      *)
(*                                                                         *)
(* A sorted arrangement of the samples exists (they are inserted one by    *)
(* one), so what is read at an index m of it has at most m samples below   *)
(* it and at least m + 1 that are not above it; the three indices stay     *)
(* within the samples and cut the count at their fractions.                *)
(***************************************************************************)
EXTENDS MCLatencyReport, ArithmeticLemmas, FiniteSetTheorems

\* The order o sorts the first k of the samples d.
SortsPrefix(o, k, d) ==
  /\ o \in [1 .. k -> 1 .. k]
  /\ \A x \in 1 .. k : \E i \in 1 .. k : o[i] = x
  /\ \A i, j \in 1 .. k : i < j => o[i] # o[j] /\ d[o[i]] <= d[o[j]]

\* One more sample is inserted before the first that is above it.
LEMMA Insertion ==
  ASSUME NEW n \in Nat, NEW d \in [1 .. n -> Nat], NEW k \in 1 .. n,
         NEW o, SortsPrefix(o, k - 1, d)
  PROVE  \E q : SortsPrefix(q, k, d)
PROOF
  <1> DEFINE S == {i \in 1 .. k : i = k \/ d[k] < d[o[i]]}
  <1>0. /\ o \in [1 .. k - 1 -> 1 .. k - 1]
        /\ \A x \in 1 .. k - 1 : \E i \in 1 .. k - 1 : o[i] = x
        /\ \A i, j \in 1 .. k - 1 : i < j => o[i] # o[j] /\ d[o[i]] <= d[o[j]]
    BY DEF SortsPrefix
  <1>a. \A i \in 1 .. k - 1 : o[i] \in 1 .. k - 1 /\ o[i] \in 1 .. n /\ d[o[i]] \in Nat
    <2> TAKE i \in 1 .. k - 1
    <2>1. o[i] \in 1 .. k - 1
      BY <1>0
    <2> QED BY <2>1
  <1>1. PICK m \in S : \A y \in S : m <= y
    <2>1. S \in SUBSET Nat /\ k \in S
      OBVIOUS
    <2> QED BY <2>1, LeastNatural
  <1>2. m \in 1 .. k /\ (m = k \/ d[k] < d[o[m]])
    BY <1>1
  <1>3. \A i \in 1 .. k - 1 : i < m => d[o[i]] <= d[k]
    <2> SUFFICES ASSUME NEW i \in 1 .. k - 1, i < m PROVE d[o[i]] <= d[k]
      OBVIOUS
    <2>1. i \notin S /\ i \in 1 .. k /\ i # k
      BY <1>1
    <2>2. d[o[i]] \in Nat /\ d[k] \in Nat
      BY <1>a
    <2> QED BY <2>1, <2>2
  <1>4. \A i \in 1 .. k - 1 : m <= i => d[k] <= d[o[i]]
    <2> SUFFICES ASSUME NEW i \in 1 .. k - 1, m <= i PROVE d[k] <= d[o[i]]
      OBVIOUS
    <2>1. m \in 1 .. k - 1 /\ d[k] < d[o[m]]
      BY <1>2
    <2>2. d[o[i]] \in Nat /\ d[o[m]] \in Nat /\ d[k] \in Nat
      BY <1>a, <2>1
    <2>3. m = i \/ m < i
      BY <2>1
    <2>4. m < i => d[o[m]] <= d[o[i]]
      BY <1>0, <2>1
    <2> QED BY <2>1, <2>2, <2>3, <2>4
  <1> DEFINE q == [i \in 1 .. k |-> IF i < m THEN o[i] ELSE IF i = m THEN k ELSE o[i - 1]]
  <1> HIDE DEF S
  <1>5. \A i \in 1 .. k : /\ i < m => i \in 1 .. k - 1 /\ q[i] = o[i]
                          /\ i = m => q[i] = k
                          /\ i > m => i - 1 \in 1 .. k - 1 /\ m <= i - 1 /\ q[i] = o[i - 1]
    BY <1>2
  <1>6. q \in [1 .. k -> 1 .. k]
    <2>1. \A i \in 1 .. k : q[i] \in 1 .. k
      <3> HIDE DEF q
      <3> TAKE i \in 1 .. k
      <3>1. \A x \in 1 .. k - 1 : o[x] \in 1 .. k
        BY <1>a
      <3>2. i < m \/ i = m \/ i > m
        BY <1>2
      <3> QED BY <1>5, <3>1, <3>2
    <2> QED BY <2>1
  <1> HIDE DEF q
  <1>7. \A x \in 1 .. k : \E i \in 1 .. k : q[i] = x
    <2> TAKE x \in 1 .. k
    <2>1. CASE x = k
      BY <1>2, <1>5, <2>1
    <2>2. CASE x \in 1 .. k - 1
      <3>1. PICK i \in 1 .. k - 1 : o[i] = x
        BY <1>0, <2>2
      <3>2. CASE i < m
        BY <1>5, <3>1, <3>2
      <3>3. CASE m <= i
        <4>1. i + 1 \in 1 .. k /\ i + 1 > m /\ (i + 1) - 1 = i
          BY <1>2, <3>3
        <4> QED BY <1>5, <3>1, <4>1
      <3> QED BY <1>2, <3>2, <3>3
    <2> QED BY <2>1, <2>2
  <1>8. \A i, j \in 1 .. k : i < j => q[i] # q[j] /\ d[q[i]] <= d[q[j]]
    <2> SUFFICES ASSUME NEW i \in 1 .. k, NEW j \in 1 .. k, i < j
                 PROVE  q[i] # q[j] /\ d[q[i]] <= d[q[j]]
      OBVIOUS
    <2>0. \A x \in 1 .. k - 1 : o[x] \in 1 .. k - 1 /\ o[x] # k
      BY <1>0
    <2>1. CASE j < m
      <3>1. i \in 1 .. k - 1 /\ j \in 1 .. k - 1 /\ q[i] = o[i] /\ q[j] = o[j]
        BY <1>2, <1>5, <2>1
      <3> QED BY <1>0, <3>1
    <2>2. CASE j = m
      BY <1>2, <1>3, <1>5, <2>0, <2>2
    <2>3. CASE j > m /\ i = m
      BY <1>2, <1>4, <1>5, <2>0, <2>3
    <2>4. CASE j > m /\ i < m
      <3>1. i \in 1 .. k - 1 /\ j - 1 \in 1 .. k - 1 /\ i < j - 1 /\ q[i] = o[i] /\ q[j] = o[j - 1]
        BY <1>2, <1>5, <2>4
      <3> QED BY <1>0, <3>1
    <2>5. CASE j > m /\ i > m
      <3>1. i - 1 \in 1 .. k - 1 /\ j - 1 \in 1 .. k - 1 /\ i - 1 < j - 1
            /\ q[i] = o[i - 1] /\ q[j] = o[j - 1]
        BY <1>2, <1>5, <2>5
      <3> QED BY <1>0, <3>1
    <2> QED BY <1>2, <2>1, <2>2, <2>3, <2>4, <2>5
  <1> QED BY <1>6, <1>7, <1>8 DEF SortsPrefix

\* Every sequence of samples can be sorted.
LEMMA SortExists ==
  ASSUME NEW n \in Nat, NEW d \in [1 .. n -> Nat]
  PROVE  \E o : SortsPrefix(o, n, d)
PROOF
  <1> DEFINE S == {k \in 0 .. n : ~ \E o : SortsPrefix(o, k, d)}
  <1> SUFFICES ASSUME S # {} PROVE FALSE
    OBVIOUS
  <1>1. PICK k \in S : \A y \in S : k <= y
    <2>1. S \in SUBSET Nat
      OBVIOUS
    <2> HIDE DEF S
    <2> QED BY <2>1, LeastNatural
  <1>2. k # 0
    <2>1. SortsPrefix([i \in 1 .. 0 |-> i], 0, d)
      BY DEF SortsPrefix
    <2> QED BY <1>1, <2>1
  <1>3. k - 1 \in 0 .. n /\ k - 1 \notin S /\ k \in 1 .. n
    BY <1>1, <1>2
  <1>4. PICK o : SortsPrefix(o, k - 1, d)
    BY <1>3
  <1>5. \E q : SortsPrefix(q, k, d)
    BY <1>3, <1>4, Insertion
  <1> QED BY <1>1, <1>5

\* What Sorted returns.
LEMMA SortedSorts ==
  ASSUME NEW samples \in Seq(Nat)
  PROVE  \E o : /\ SortsPrefix(o, Len(samples), samples)
                /\ Sorted(samples) = [i \in 1 .. Len(samples) |-> samples[o[i]]]
PROOF
  <1> DEFINE n == Len(samples)
             o == CHOOSE x \in [1 .. n -> 1 .. n] : Sorts(x, samples)
  <1>1. n \in Nat /\ samples \in [1 .. n -> Nat]
    OBVIOUS
  <1>2. PICK q : SortsPrefix(q, n, samples)
    BY <1>1, SortExists
  <1>3. q \in [1 .. n -> 1 .. n] /\ Sorts(q, samples)
    BY <1>2 DEF SortsPrefix, Sorts
  <1>4. o \in [1 .. n -> 1 .. n] /\ Sorts(o, samples)
    BY <1>3
  <1>5. SortsPrefix(o, n, samples)
    BY <1>4 DEF SortsPrefix, Sorts
  <1>6. Sorted(samples) = [i \in 1 .. n |-> samples[o[i]]]
    BY DEF Sorted
  <1> HIDE DEF o
  <1> QED BY <1>5, <1>6
--------------------------------------------------------------------------------
\* At most m samples are below the one at place m + 1 of the sorted ones, and at least
\* m + 1 are not above it.
LEMMA RankOfPlace ==
  ASSUME cycle_deltas \in Seq(Nat), NEW o, SortsPrefix(o, Len(cycle_deltas), cycle_deltas),
         NEW m \in Nat, m < Len(cycle_deltas)
  PROVE  /\ Cardinality(Below(cycle_deltas[o[m + 1]])) \in 0 .. m
         /\ Cardinality(UpTo(cycle_deltas[o[m + 1]])) \in Nat
         /\ Cardinality(UpTo(cycle_deltas[o[m + 1]])) >= m + 1
PROOF
  <1> DEFINE n == Len(cycle_deltas)
             d == cycle_deltas
             v == d[o[m + 1]]
  <1>0. /\ o \in [1 .. n -> 1 .. n]
        /\ \A x \in 1 .. n : \E i \in 1 .. n : o[i] = x
        /\ \A i, j \in 1 .. n : i < j => o[i] # o[j] /\ d[o[i]] <= d[o[j]]
        /\ n \in Nat /\ d \in [1 .. n -> Nat] /\ m + 1 \in 1 .. n
    <2>1. n \in Nat /\ d \in [1 .. n -> Nat]
      OBVIOUS
    <2>2. m + 1 \in 1 .. n
      BY <2>1
    <2>3. SortsPrefix(o, n, d)
      OBVIOUS
    <2> HIDE DEF n, d
    <2> QED BY <2>1, <2>2, <2>3 DEF SortsPrefix
  <1>1. \A i \in 1 .. n : o[i] \in 1 .. n /\ d[o[i]] \in Nat
    <2> TAKE i \in 1 .. n
    <2>1. o[i] \in 1 .. n
      BY <1>0
    <2> QED BY <1>0, <2>1
  <1> HIDE DEF n, d
  <1>2. Below(v) = {i \in 1 .. n : d[i] < v} /\ UpTo(v) = {i \in 1 .. n : d[i] <= v}
    BY DEF Below, UpTo, n, d
  <1>3. /\ IsFiniteSet(1 .. m) /\ Cardinality(1 .. m) = m
        /\ IsFiniteSet(1 .. m + 1) /\ Cardinality(1 .. m + 1) = m + 1
        /\ IsFiniteSet(1 .. n)
    <2>1. 1 \in Int /\ m \in Int /\ m + 1 \in Int /\ n \in Int
      BY <1>0
    <2>2. IsFiniteSet(1 .. m) /\ Cardinality(1 .. m) = IF 1 > m THEN 0 ELSE m - 1 + 1
      BY <2>1, FS_Interval
    <2>3. IsFiniteSet(1 .. m + 1) /\ Cardinality(1 .. m + 1) = IF 1 > m + 1 THEN 0 ELSE m + 1 - 1 + 1
      BY <2>1, FS_Interval
    <2>4. IsFiniteSet(1 .. n)
      BY <2>1, FS_Interval
    <2> QED BY <2>2, <2>3, <2>4
  <1>4. \A x \in 1 .. n : d[x] < v => \E i \in 1 .. m : o[i] = x
    <2> SUFFICES ASSUME NEW x \in 1 .. n, d[x] < v PROVE \E i \in 1 .. m : o[i] = x
      OBVIOUS
    <2>1. PICK i \in 1 .. n : o[i] = x
      BY <1>0
    <2>2. ~(i = m + 1) /\ ~(m + 1 < i)
      <3>1. d[o[i]] \in Nat /\ v \in Nat
        BY <1>0, <1>1
      <3>2. m + 1 < i => v <= d[o[i]]
        BY <1>0
      <3> QED BY <2>1, <3>1, <3>2
    <2>3. i \in 1 .. m
      BY <1>0, <2>2
    <2> QED BY <2>1, <2>3
  <1>5. \A i \in 1 .. m + 1 : o[i] \in 1 .. n /\ d[o[i]] <= v
    <2> TAKE i \in 1 .. m + 1
    <2>1. i \in 1 .. n /\ (i = m + 1 \/ i < m + 1)
      BY <1>0
    <2>2. d[o[i]] \in Nat /\ v \in Nat
      BY <1>0, <1>1, <2>1
    <2>3. i < m + 1 => d[o[i]] <= v
      BY <1>0, <2>1
    <2> QED BY <1>1, <2>1, <2>2, <2>3
  <1> HIDE DEF v
  <1>6. IsFiniteSet(Below(v)) /\ Cardinality(Below(v)) <= m
    <2> DEFINE B == Below(v)
               g == [x \in B |-> CHOOSE i \in 1 .. m : o[i] = x]
    <2>1. \A x \in B : g[x] \in 1 .. m /\ o[g[x]] = x
      BY <1>2, <1>4
    <2>2. g \in [B -> 1 .. m]
      BY <2>1
    <2> HIDE DEF g, B
    <2>3. \A x, y \in B : g[x] = g[y] => x = y
      BY <2>1
    <2>4. g \in Injection(B, 1 .. m)
      BY <2>2, <2>3 DEF Injection, IsInjective
    <2>5. IsFiniteSet(B) /\ Cardinality(B) <= Cardinality(1 .. m)
      BY <1>3, <2>4, FS_Injection
    <2> QED BY <1>3, <2>5 DEF B
  <1>7. IsFiniteSet(UpTo(v)) /\ m + 1 <= Cardinality(UpTo(v))
    <2> DEFINE U == UpTo(v)
               g == [i \in 1 .. m + 1 |-> o[i]]
    <2>1. IsFiniteSet(U)
      <3>1. U \in SUBSET (1 .. n)
        BY <1>2
      <3> QED BY <1>3, <3>1, FS_Subset
    <2>2. g \in [1 .. m + 1 -> U]
      BY <1>2, <1>5
    <2>3. \A x, y \in 1 .. m + 1 : g[x] = g[y] => x = y
      <3> SUFFICES ASSUME NEW x \in 1 .. m + 1, NEW y \in 1 .. m + 1, g[x] = g[y] PROVE x = y
        OBVIOUS
      <3>1. x \in 1 .. n /\ y \in 1 .. n /\ o[x] = o[y]
        BY <1>0
      <3>2. ~(x < y) /\ ~(y < x)
        BY <1>0, <3>1
      <3> QED BY <3>2
    <2> HIDE DEF g, U
    <2>4. g \in Injection(1 .. m + 1, U)
      BY <2>2, <2>3 DEF Injection, IsInjective
    <2>5. Cardinality(1 .. m + 1) <= Cardinality(U)
      BY <2>1, <2>4, FS_Injection
    <2> QED BY <1>3, <2>1, <2>5 DEF U
  <1>8. Cardinality(Below(v)) \in Nat /\ Cardinality(UpTo(v)) \in Nat
    BY <1>6, <1>7, FS_CardinalityType
  <1> QED BY <1>6, <1>7, <1>8 DEF v, d

\* A product grows with its factors.
LEMMA ProductMonotone ==
  ASSUME NEW c \in Nat, NEW a \in Int, NEW b \in Int, a <= b
  PROVE  c * a <= c * b
  OBVIOUS

\* Where the integer quotient cuts n at the fraction num / den.
LEMMA CutAt ==
  ASSUME NEW n \in Nat \ {0}, NEW num \in Nat, NEW den \in Nat \ {0}, num < den,
         NEW m, m = (n * num) \div den
  PROVE  /\ m \in Nat /\ m < n
         /\ den * m <= num * n
         /\ den * (m + 1) > num * n
PROOF
  <1> DEFINE a == n * num
             r == a % den
  <1>1. a \in Nat /\ a = num * n
    OBVIOUS
  <1> HIDE DEF a
  <1>2. r \in 0 .. den - 1 /\ m \in Int /\ a = den * m + r
    BY <1>1, DivMod DEF a
  <1> HIDE DEF r
  <1>3. den * m \in Int /\ den * (m + 1) = den * m + den /\ num * n \in Nat
    BY <1>2
  <1>4. den * m <= num * n /\ den * (m + 1) > num * n
    BY <1>1, <1>2, <1>3
  <1>5. m \in Nat
    <2> SUFFICES ASSUME m + 1 <= 0 PROVE FALSE
      BY <1>2
    <2>1. den * (m + 1) <= den * 0
      BY <1>2, ProductMonotone
    <2> QED BY <1>3, <1>4, <2>1
  <1>6. m < n
    <2> SUFFICES ASSUME n <= m PROVE FALSE
      BY <1>5
    <2>1. den * n <= den * m
      BY <1>5, ProductMonotone
    <2>2. n * (num + 1) <= n * den
      BY ProductMonotone
    <2>3. n * (num + 1) = num * n + n /\ n * den = den * n
      OBVIOUS
    <2> QED BY <1>3, <1>4, <2>1, <2>2, <2>3
  <1> QED BY <1>4, <1>5, <1>6

\* The indices of the report.
LEMMA IndexOrder ==
  ASSUME NEW n \in Nat \ {0}
  PROVE  /\ MedianIndex(n) \in Nat /\ MedianIndex(n) < n
         /\ 2 * MedianIndex(n) <= n /\ 2 * (MedianIndex(n) + 1) > n
         /\ P99Index(n) \in Nat /\ P99Index(n) < n
         /\ P99_DEN * P99Index(n) <= P99_NUM * n /\ P99_DEN * (P99Index(n) + 1) > P99_NUM * n
         /\ MedianIndex(n) <= P99Index(n)
         /\ P99Index(n) <= MaxIndex(n)
PROOF
  <1> DEFINE a == MedianIndex(n)
             b == P99Index(n)
  <1>1. a \in Nat /\ a < n /\ 2 * a <= n /\ 2 * (a + 1) > n
    BY DEF MedianIndex
  <1>2. /\ b \in Nat /\ b < n
        /\ P99_DEN * b <= P99_NUM * n /\ P99_DEN * (b + 1) > P99_NUM * n
    <2>1. P99_NUM \in Nat /\ P99_DEN \in Nat \ {0} /\ P99_NUM < P99_DEN
      BY ReportAssumption
    <2>2. b = (n * P99_NUM) \div P99_DEN
      BY DEF P99Index
    <2> QED BY <2>1, <2>2, CutAt
  <1> HIDE DEF a, b
  <1>3. a <= b
    <2> SUFFICES ASSUME b + 1 <= a PROVE FALSE
      BY <1>1, <1>2
    <2>0. P99_NUM \in Nat /\ P99_DEN \in Nat /\ P99_DEN <= 2 * P99_NUM
      BY ReportAssumption
    <2>1. P99_DEN * (b + 1) <= P99_DEN * a
      BY <1>1, <1>2, <2>0, ProductMonotone
    <2>2. a * P99_DEN <= a * (2 * P99_NUM)
      BY <1>1, <2>0, ProductMonotone
    <2>3. P99_NUM * (2 * a) <= P99_NUM * n
      BY <1>1, <2>0, ProductMonotone
    <2>4. a * P99_DEN = P99_DEN * a /\ a * (2 * P99_NUM) = P99_NUM * (2 * a)
      BY <1>1, <2>0
    <2>5. P99_DEN * (b + 1) \in Int /\ P99_DEN * a \in Int /\ P99_NUM * (2 * a) \in Int /\ P99_NUM * n \in Int
      BY <1>1, <1>2, <2>0
    <2> QED BY <1>2, <2>1, <2>2, <2>3, <2>4, <2>5
  <1>4. b <= MaxIndex(n)
    BY <1>2 DEF MaxIndex
  <1> QED BY <1>1, <1>2, <1>3, <1>4 DEF a, b
--------------------------------------------------------------------------------
\* The samples are the first messages; while nothing is reported, more may come.
SamplesSound ==
  /\ cycle_deltas \in Seq(Nat) /\ messages_processed \in Nat
  /\ Len(cycle_deltas) = IF messages_processed < MAX_SAMPLES THEN messages_processed ELSE MAX_SAMPLES

ReportSound ==
  report # NoReport =>
    /\ IsQuantile(report.median, 1, 2)
    /\ IsQuantile(report.p99, P99_NUM, P99_DEN)
    /\ \A i \in 1 .. Len(cycle_deltas) : cycle_deltas[i] <= report.max
    /\ report.median <= report.p99 /\ report.p99 <= report.max

IndInv == /\ SamplesSound
          /\ ReportSound
          /\ ~ended => report = NoReport

\* The step that reports.
LEMMA ReportStep ==
  ASSUME SamplesSound, Report
  PROVE  ReportSound'
PROOF
  <1> DEFINE n == Len(cycle_deltas)
             d == cycle_deltas
  <1>0. d' = d /\ n' = n /\ n \in Nat /\ d \in Seq(Nat)
    BY DEF Report, SamplesSound
  <1>1. CASE n = 0
    BY <1>1 DEF Report, ReportSound
  <1>2. CASE n # 0
    <2> DEFINE a == MedianIndex(n)
               b == P99Index(n)
               c == MaxIndex(n)
    <2>1. PICK o : /\ SortsPrefix(o, n, d)
                   /\ Sorted(d) = [i \in 1 .. n |-> d[o[i]]]
      BY <1>0, SortedSorts
    <2>2. /\ a \in Nat /\ a < n /\ 2 * a <= n /\ 2 * (a + 1) > n
          /\ b \in Nat /\ b < n /\ P99_DEN * b <= P99_NUM * n /\ P99_DEN * (b + 1) > P99_NUM * n
          /\ a <= b /\ b <= c /\ c + 1 = n /\ c \in Nat
      <3>1. n \in Nat \ {0}
        BY <1>0, <1>2
      <3>2. c + 1 = n /\ c \in Nat
        BY <3>1 DEF MaxIndex
      <3> HIDE DEF n
      <3> QED BY <3>1, <3>2, IndexOrder
    <2> DEFINE v(i) == d[o[i + 1]]
    <2>3. report' = [median |-> v(a), p99 |-> v(b), max |-> v(c)]
      <3>1. a + 1 \in 1 .. n /\ b + 1 \in 1 .. n /\ c + 1 \in 1 .. n
        BY <2>2
      <3>2. report' = [median |-> Sorted(d)[a + 1], p99 |-> Sorted(d)[b + 1], max |-> Sorted(d)[c + 1]]
        BY <1>2 DEF Report
      <3> HIDE DEF a, b, c
      <3> QED BY <2>1, <3>1, <3>2
    <2>4. /\ report'.median = v(a) /\ report'.p99 = v(b) /\ report'.max = v(c)
      BY <2>3
    <2>5. \A i \in Nat, num \in Nat, den \in Nat :
            i < n /\ den * i <= num * n /\ den * (i + 1) > num * n => IsQuantile(v(i), num, den)
      <3> SUFFICES ASSUME NEW i \in Nat, NEW num \in Nat, NEW den \in Nat,
                          i < n, den * i <= num * n, den * (i + 1) > num * n
                   PROVE  IsQuantile(v(i), num, den)
        OBVIOUS
      <3> DEFINE x == Cardinality(Below(v(i)))
                 y == Cardinality(UpTo(v(i)))
      <3>1. x \in 0 .. i /\ y \in Nat /\ i + 1 <= y
        BY <1>0, <2>1, RankOfPlace
      <3> HIDE DEF x, y
      <3>2. den * x <= den * i /\ den * (i + 1) <= den * y
        BY <3>1, ProductMonotone
      <3>3. den * x \in Int /\ den * i \in Int /\ den * (i + 1) \in Int /\ den * y \in Int /\ num * n \in Int
        BY <1>0, <3>1
      <3>4. den * x <= num * n /\ den * y > num * n
        BY <3>2, <3>3
      <3> QED BY <3>4 DEF IsQuantile, x, y
    <2>6. IsQuantile(v(a), 1, 2) /\ IsQuantile(v(b), P99_NUM, P99_DEN)
      <3>1. IsQuantile(v(a), 1, 2)
        BY <1>0, <2>2, <2>5
      <3>2. P99_NUM \in Nat /\ P99_DEN \in Nat
        BY ReportAssumption
      <3> QED BY <2>2, <2>5, <3>1, <3>2
    <2>7. \A i, j \in 1 .. n : i <= j => d[o[i]] <= d[o[j]]
      <3> SUFFICES ASSUME NEW i \in 1 .. n, NEW j \in 1 .. n, i <= j PROVE d[o[i]] <= d[o[j]]
        OBVIOUS
      <3>1. i = j \/ i < j
        OBVIOUS
      <3>2. o[i] \in 1 .. n /\ d[o[i]] \in Nat
        <4>1. o[i] \in 1 .. n
          BY <2>1 DEF SortsPrefix
        <4> QED BY <1>0, <4>1
      <3> QED BY <2>1, <3>1, <3>2 DEF SortsPrefix
    <2>8. v(a) <= v(b) /\ v(b) <= v(c)
      <3>1. /\ a + 1 \in 1 .. n /\ b + 1 \in 1 .. n /\ c + 1 \in 1 .. n
            /\ a + 1 <= b + 1 /\ b + 1 <= c + 1
        BY <2>2
      <3> HIDE DEF a, b, c
      <3> QED BY <2>7, <3>1
    <2>9. \A i \in 1 .. n : d[i] <= v(c)
      <3> TAKE i \in 1 .. n
      <3>1. PICK k \in 1 .. n : o[k] = i
        BY <2>1 DEF SortsPrefix
      <3>2. c + 1 \in 1 .. n /\ k <= c + 1
        BY <2>2
      <3> HIDE DEF c
      <3> QED BY <2>7, <3>1, <3>2
    <2>10. \A x, num, den : IsQuantile(x, num, den) =>
             /\ den * Cardinality({i \in 1 .. Len(cycle_deltas') : cycle_deltas'[i] < x})
                  <= num * Len(cycle_deltas')
             /\ den * Cardinality({i \in 1 .. Len(cycle_deltas') : cycle_deltas'[i] <= x})
                  > num * Len(cycle_deltas')
      BY <1>0 DEF IsQuantile, Below, UpTo
    <2> QED BY <1>0, <2>4, <2>6, <2>8, <2>9, <2>10 DEF ReportSound, IsQuantile, Below, UpTo
  <1> QED BY <1>1, <1>2

\* The report gives true quantiles of the samples, whatever their number and values.
THEOREM ReportQuantiles == Spec => []QuantilesExact
PROOF
  <1>1. MCInit => IndInv
    BY ReportAssumption DEF MCInit, Init, IndInv, SamplesSound, ReportSound
  <1>2. IndInv /\ [Next]_<<vars, ended>> => IndInv'
    <2> SUFFICES ASSUME IndInv, [Next]_<<vars, ended>> PROVE IndInv'
      OBVIOUS
    <2>1. CASE /\ ~ended /\ messages_processed < MaxMessages
               /\ \E delta \in Latencies : Record(delta)
               /\ UNCHANGED ended
      <3>1. PICK delta \in Latencies : Record(delta)
        BY <2>1
      <3>2. report = NoReport /\ report' = NoReport
        BY <2>1, <3>1 DEF IndInv, Record
      <3>3. delta \in Nat /\ MAX_SAMPLES \in Nat
        BY ReportAssumption
      <3>4. SamplesSound'
        BY <3>1, <3>3 DEF IndInv, SamplesSound, Record
      <3> QED BY <3>2, <3>4 DEF IndInv, ReportSound
    <2>2. CASE ~ended /\ Report /\ ended' = TRUE
      <3>1. SamplesSound'
        BY <2>2 DEF IndInv, SamplesSound, Report
      <3>2. ReportSound'
        BY <2>2, ReportStep DEF IndInv
      <3> QED BY <2>2, <3>1, <3>2 DEF IndInv
    <2>3. CASE UNCHANGED <<vars, ended>>
      BY <2>3 DEF IndInv, SamplesSound, ReportSound, IsQuantile, Below, UpTo, vars
    <2> QED BY <2>1, <2>2, <2>3 DEF Next
  <1>3. IndInv => QuantilesExact
    BY DEF IndInv, SamplesSound, ReportSound, QuantilesExact
  <1> QED BY <1>1, <1>2, <1>3, PTL DEF Spec
================================================================================
