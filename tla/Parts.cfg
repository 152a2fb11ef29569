SPECIFICATION PartsSpec
CONSTANTS
  InitialBackoff = 3
  MaxBackoff = 20
  BackoffReset = 30
  Groups = {g1, g2, g3}
  SizeBound = 4
  NodesBound = 8
  Nodes = {n1, n2}
  SameTime = FALSE
  MaxResults = 4
  a = a
  b = b
  own = own
  shared = shared
  Pods = {a, b}
  Claims = {own, shared}
  Refs <- MCRefs
  Owned <- MCOwned
  Untouched = Untouched
  Deleted = Deleted
  Absent = Absent
  MaxReserved = 2
  MaxForks = 1
CONSTRAINT ClockBound
INVARIANTS
  PartsInvariant
  LoopInvariants
  Balanced
  ReservedByPlaced
  NeverPanics
PROPERTIES
  AllAllocated
  BackoffIsServed
  ReportedExactlyOnce
  LowerLevelsKept
\* The balancing loop ends, the number of results is bounded, and a pod with a
\* missing claim cannot be placed.
CHECK_DEADLOCK FALSE
