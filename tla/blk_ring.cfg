SPECIFICATION FairSpec
CONSTANTS
  Vcpu = {v1, v2}
  Size = 2
  IdxMod = 4
  NReq = 4
  NSector = 2
  MaxResets = 1
  IoFails = TRUE
  Asks <- SomeAsks
INVARIANT ChainsConserved
PROPERTY ImplementsDisk
PROPERTY PublishedIsCollected
\* The guest makes NReq requests and may then be idle for ever.
CHECK_DEADLOCK FALSE
