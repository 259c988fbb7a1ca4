CONSTANTS
  Capacity = 1
  Junk = Junk
  NoData = NoData
  SocketBuffer = 1
  PAYLOAD = 56
  RADIX = 2
  MAX_TICKS = 4
  UINT32_MAX = 9
  MAX_ORDERS = 2
  QTY_MOD = 8
  Prices = {1}
  Quantities = {0, 1, 2}
  MAX_SAMPLES = 1
  P99_NUM = 99
  P99_DEN = 100
  Latencies = {1}
  NoReport = NoReport
  Messages <- MCMessages
  MaxSent = 2
  MaxFaults = 0
SPECIFICATION FairSpec
PROPERTIES ShutdownCompletes AcceptedProcessed
