\* Capacity 2, cursors that wrap at 4, 7 pushes: the ring is filled three times over
\* and the cursors wrap.
CONSTANTS
  Capacity = 2
  CursorMod = 4
  MaxPushes = 7
  Values = {v1, v2}
  Junk = junk
SPECIFICATION Spec
INVARIANTS TypeOK NoDataRace ObjectLifetimes
PROPERTIES ImplementsBoundedQueue ImplementsSharedRing
