CONSTANTS
  RADIX = 2
  MAX_TICKS = 4
  UINT32_MAX = 9
  MAX_ORDERS = 3
  QTY_MOD = 8
  Prices = {1, 2}
  Quantities = {0, 1, 2}
  Redelivery = FALSE
SPECIFICATION Spec
INVARIANTS TypeOK PoolPartitioned LinksFollowArrival TotalsExact BestExact MapSound Uncrossed
PROPERTY ImplementsLimitOrderBook
