CONSTANTS
  Capacity = 2
  CursorMod = 4
  MaxPushes = 7
  Values = {v1}
  Junk = junk
SPECIFICATION FairSpec
PROPERTY EveryPushDelivered
