SPECIFICATION FairSpec
CONSTANTS
  p1 = p1
  p2 = p2
  p3 = p3
  PodNames = {p1, p2, p3}
  Controllers <- MCControllers
  MinReplicas = 1
  DeferredTimeout = 1
  InProgressTimeout = 2
  MaxRecommendations = 1
INVARIANTS
  UpdaterInvariant
PROPERTIES
  AllUpdated
