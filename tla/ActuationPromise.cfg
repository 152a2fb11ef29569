SPECIFICATION FairSpec
CONSTANTS
  a1 = a1
  a2 = a2
  a3 = a3
  b1 = b1
  b2 = b2
  b3 = b3
  atomic = atomic
  plain = plain
  Nodes <- WideNodes
  Groups <- MCGroups
  GroupOf <- WideGroupOf
  AtomicGroups <- MCAtomicGroups
  MaxScaleDownParallelism = 4
  MaxDrainParallelism = 3
  Unregistered <- WideUnregistered
  DeleteInterval = FALSE
  ForceGroups <- NoForceGroups
  TaintApiFails = TRUE
PROPERTIES
  PromiseKept
  IndividualDeletionEnds
