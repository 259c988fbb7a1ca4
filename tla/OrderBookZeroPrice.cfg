CONSTANTS
  RADIX = 2
  MAX_TICKS = 4
  UINT32_MAX = 9
  MAX_ORDERS = 2
  QTY_MOD = 8
  Prices = {0, 1}
  Quantities = {0, 1, 2}
  Redelivery = FALSE
SPECIFICATION FairSpec
PROPERTY EveryCallReturns
