CONSTANTS
  Key = {k1, k2, k3, k4}
  Entry = {e1, e2}
  Size <- MCSize
SPECIFICATION Spec
INVARIANTS
  TypeOK
  QueueMatchesMap
  CapacityBound
  KeepsMostRecent
