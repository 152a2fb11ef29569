SPECIFICATION Spec
CONSTANTS
  Instances = {i1, i2}
  MinSize = 0
  MaxSize = 2
  StartupTime = 1
  CloudFails = TRUE
  Preemption = FALSE
  BackgroundRefresh = TRUE
  ListingFails = TRUE
  InitialBackoff = 1
  MaxBackoff = 1
  BackoffReset = 1
  MaxNodeProvisionTime = 1
  OkTotalUnreadyCount = 0
  MaxTotalUnreadyPercentage = 45
  MaxScaleUps = 1
SYMMETRY Symmetry
INVARIANTS
  RegistryInvariant
