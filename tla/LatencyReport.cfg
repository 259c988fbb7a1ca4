\* More messages than samples, enough samples for the three indices to differ.
CONSTANTS
  MAX_SAMPLES = 5
  MaxMessages = 6
  P99_NUM = 3
  P99_DEN = 4
  Latencies = {0, 1, 5}
  NoReport = NoReport
SPECIFICATION Spec
INVARIANT QuantilesExact
