SPECIFICATION Spec
CONSTANTS
  a1 = a1
  a2 = a2
  b1 = b1
  p1 = p1
  p2 = p2
  atomicA = atomicA
  atomicB = atomicB
  plain = plain
  Nodes <- MCNodes
  Groups <- MCGroups
  GroupOf <- MCGroupOf
  AtomicGroups <- MCAtomicGroups
  MaxScaleDownParallelism = 3
  MaxDrainParallelism = 2
  MaxInProgress = 3
SYMMETRY Symmetry
CHECK_DEADLOCK FALSE
INVARIANTS
  BatchIsReachable
