SPECIFICATION Spec
CONSTANTS
  Datagrams = {d1, d2}
  NoData = NoData
  SocketBuffer = 3
  Signals = {SIGINT, SIGTERM}
  PipeSize = 2
SYMMETRY Symmetry
INVARIANT TypeOK
INVARIANT WorkCounted
INVARIANT QueueWellFormed
INVARIANT NoLostWakeup
PROPERTY ImplementsNetworkLoop
