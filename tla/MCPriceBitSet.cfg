\* RADIX^3 ticks: as in the code, every bit of every level is in use.
CONSTANTS
  RADIX = 2
  MAX_TICKS = 8
  UINT32_MAX = 99
SPECIFICATION Spec
INVARIANTS TypeOK Hierarchy ExtremesExact
