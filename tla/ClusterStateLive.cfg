SPECIFICATION FairSpec
CONSTANTS
  Instances = {i1}
  MinSize = 0
  MaxSize = 2
  StartupTime = 1
  CloudFails = TRUE
  Preemption = TRUE
  BackgroundRefresh = TRUE
  ListingFails = FALSE
  InitialBackoff = 1
  MaxBackoff = 1
  BackoffReset = 1
  MaxNodeProvisionTime = 1
  OkTotalUnreadyCount = 2
  MaxTotalUnreadyPercentage = 45
  MaxScaleUps = 1
PROPERTIES
  UnregisteredRemoved
  FailedDeleted
  RequestResolved
  SizeIsFixed
