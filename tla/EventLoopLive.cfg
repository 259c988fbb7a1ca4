SPECIFICATION FairSpec
CONSTANTS
  Datagrams = {d1, d2}
  NoData = NoData
  SocketBuffer = 2
  Signals = {SIGINT, SIGTERM}
  PipeSize = 2
PROPERTY SignalStops
PROPERTY DatagramHandled
