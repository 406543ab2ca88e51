SPECIFICATION Spec
CONSTANTS
  Vcpu = {v1, v2}
  Size = 1
  Chains <- SomeChains
  MaxChains = 2
  LineLen = 2
  MaxTyped = 0
  MaxUart = 0
  MaxLogs = 1
  MaxResets = 0
INVARIANT GuestLinesWhole
CHECK_DEADLOCK FALSE
