CONSTANTS
  RADIX = 2
  MAX_TICKS = 4
  UINT32_MAX = 9
  MAX_ORDERS = 2
  QTY_MOD = 2
  Prices = {1, 2}
  Quantities = {1, 2}
  Redelivery = FALSE
SPECIFICATION Spec
INVARIANT EmptySideReported
