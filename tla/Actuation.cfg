SPECIFICATION Spec
CONSTANTS
  a1 = a1
  a2 = a2
  a3 = a3
  b1 = b1
  b2 = b2
  b3 = b3
  atomic = atomic
  plain = plain
  Nodes <- MCNodes
  Groups <- MCGroups
  GroupOf <- MCGroupOf
  AtomicGroups <- MCAtomicGroups
  MaxScaleDownParallelism = 2
  MaxDrainParallelism = 1
  Unregistered <- MCUnregistered
  DeleteInterval = TRUE
  ForceGroups <- MCForceGroups
  TaintApiFails = TRUE
SYMMETRY Symmetry
INVARIANTS
  TypeOK
  NoDeletionLost
  TaintedWhileDeleting
  AtomicGroupWhole
  TrackerConsistent
  IndividualParallelism
