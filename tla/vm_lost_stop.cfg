SPECIFICATION FairSpec
CONSTANTS
  NCpu = 1
  MaxOn = 0
  MaxStarts = 1
  HvFails = FALSE
  MayOff = FALSE
  Disciplined = TRUE
PROPERTY StopHonoured
\* A secondary nobody started keeps the destructor waiting for ever (run
\* vm_parked_cpu), so the system may stop.
CHECK_DEADLOCK FALSE
