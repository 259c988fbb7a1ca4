----------------------------- MODULE LatencyReport -----------------------------
(***************************************************************************)
(* The latency samples that run_matching_engine (src/main.cpp) takes after *)
(* every message, and the report it makes of them when it stops.           *)
(* A latency is the difference of two time stamps: any number of cycles.   *)
(***************************************************************************)
EXTENDS Integers, Sequences, FiniteSets

CONSTANTS MAX_SAMPLES,        \* room in cycle_deltas (10^6)
          P99_NUM, P99_DEN,   \* the factor 0.99
          Latencies,          \* differences that a sample may have
          NoReport

ASSUME ReportAssumption ==
  /\ MAX_SAMPLES \in Nat \ {0}
  /\ P99_NUM \in Nat /\ P99_DEN \in Nat /\ P99_NUM < P99_DEN /\ P99_DEN <= 2 * P99_NUM
  /\ Latencies \subseteq Nat

VARIABLES cycle_deltas,        \* the samples taken: sample_count is its length
          messages_processed,
          report               \* what was printed

vars == <<cycle_deltas, messages_processed, report>>

Init == cycle_deltas = <<>> /\ messages_processed = 0 /\ report = NoReport

\* After each message.
Record(delta) ==
  /\ cycle_deltas' = IF Len(cycle_deltas) < MAX_SAMPLES
                     THEN Append(cycle_deltas, delta) ELSE cycle_deltas
  /\ messages_processed' = messages_processed + 1
  /\ UNCHANGED report

\* What std::sort promises: the samples, rearranged so that none is below an earlier one.
Sorts(order, samples) ==
  LET places == 1 .. Len(samples)
  IN  /\ \A x \in places : \E i \in places : order[i] = x
      /\ \A i, j \in places : i < j => order[i] # order[j] /\ samples[order[i]] <= samples[order[j]]
Sorted_Skipped(samples) == samples
Sorted(samples) ==
  LET places == 1 .. Len(samples)
      order == CHOOSE o \in [places -> places] : Sorts(o, samples)
  IN  [i \in places |-> samples[order[i]]]

\* The indices into the sorted samples, which start at 0.  The product of doubles,
\* cut to an integer, is the integer quotient for every count up to 10^6.
MedianIndex(count) == count \div 2
P99Index(count) == (count * P99_NUM) \div P99_DEN
MaxIndex(count) == count - 1

Report ==
  LET count == Len(cycle_deltas)
      sorted == Sorted(cycle_deltas)
  IN  /\ report' = IF count = 0 THEN NoReport
                   ELSE [median |-> sorted[MedianIndex(count) + 1],
                         p99 |-> sorted[P99Index(count) + 1],
                         max |-> sorted[MaxIndex(count) + 1]]
      /\ UNCHANGED <<cycle_deltas, messages_processed>>

\* What a quantile is: fewer than or just the fraction num / den of the samples are
\* below it, and more than that fraction are not above it.
Below(v) == {i \in 1 .. Len(cycle_deltas) : cycle_deltas[i] < v}
UpTo(v) == {i \in 1 .. Len(cycle_deltas) : cycle_deltas[i] <= v}
IsQuantile(v, num, den) ==
  /\ den * Cardinality(Below(v)) <= num * Len(cycle_deltas)
  /\ den * Cardinality(UpTo(v)) > num * Len(cycle_deltas)

\* The report (main.cpp:99-105) gives true quantiles of the samples, for every
\* number of them from one to MAX_SAMPLES, and says nothing when there is none.  The
\* samples are the first messages, as many as there is room for.
QuantilesExact ==
  /\ Len(cycle_deltas) = IF messages_processed < MAX_SAMPLES THEN messages_processed ELSE MAX_SAMPLES
  /\ report # NoReport =>
       /\ IsQuantile(report.median, 1, 2)
       /\ IsQuantile(report.p99, P99_NUM, P99_DEN)
       /\ \A i \in 1 .. Len(cycle_deltas) : cycle_deltas[i] <= report.max
       /\ report.median <= report.p99 /\ report.p99 <= report.max
================================================================================
