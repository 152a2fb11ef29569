SPECIFICATION SnapshotsSpec
CONSTANTS
  Keys = {k1, k2}
  Values = {v1, v2}
  Untouched = Untouched
  Deleted = Deleted
  NoValue = NoValue
  Uncached = Uncached
  MaxPatchForks = 2
  n1 = n1
  n2 = n2
  a = a
  Nodes <- MCNodes
  Pods <- MCPods
  UsesClaim <- MCPods
  HasAffinity <- MCPods
  Absent = Absent
  NotBuilt = NotBuilt
  MaxForks = 1
INVARIANTS
  LevelsConsistent
  CacheCorrect
  CachesFresh
PROPERTIES
  PatchesImplementMap
  StoreImplementsBasic
