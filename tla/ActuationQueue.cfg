SPECIFICATION Spec
CONSTANTS
  a1 = a1
  a2 = a2
  a3 = a3
  b1 = b1
  b2 = b2
  b3 = b3
  atomic = atomic
  plain = plain
  Nodes <- AloneNodes
  Groups <- AloneGroups
  GroupOf <- AloneGroupOf
  AtomicGroups <- MCAtomicGroups
  MaxScaleDownParallelism = 2
  MaxDrainParallelism = 2
  Unregistered <- AloneUnregistered
  DeleteInterval = TRUE
  ForceGroups <- NoForceGroups
  TaintApiFails = FALSE
INVARIANTS
  QueueIsCompletedOrRolledBack
