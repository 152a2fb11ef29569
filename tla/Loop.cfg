SPECIFICATION LoopSpec
CONSTANTS
  a1 = a1
  a2 = a2
  b1 = b1
  b2 = b2
  atomic = atomic
  plain = plain
  Nodes <- MCNodes
  Groups <- MCGroups
  GroupOf <- MCGroupOf
  AtomicGroups <- MCAtomicGroups
  MaxScaleDownParallelism = 3
  MaxDrainParallelism = 2
  Unregistered <- MCUnregistered
  DeleteInterval = FALSE
  ForceGroups <- MCForceGroups
  TaintApiFails = FALSE
  MinSize <- MCMinSize
  MaxCrashes = 1
INVARIANTS
  LoopInvariant
  MinSizeKept
PROPERTIES
  NodeStartedOnce
  TaintResolved
  LoopPromiseKept
