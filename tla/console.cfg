SPECIFICATION FairSpec
CONSTANTS
  Vcpu = {v1, v2}
  Size = 1
  Chains <- SomeChains
  MaxChains = 2
  LineLen = 2
  MaxTyped = 2
  MaxUart = 1
  MaxLogs = 1
  MaxResets = 1
INVARIANT TypeOK
INVARIANT InputWhole
INVARIANT OutputWhole
PROPERTY NothingWaits
PROPERTY RxIsJoined
\* The guest may be idle for ever, and so is the machine once destroyed.
CHECK_DEADLOCK FALSE
