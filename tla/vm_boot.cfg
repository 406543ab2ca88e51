SPECIFICATION FairSpec
CONSTANTS
  NCpu = 3
  MaxOn = 3
  MaxStarts = 1
  HvFails = TRUE
  MayOff = TRUE
  Disciplined = TRUE
INVARIANT TypeOK
INVARIANT BootPairMatches
INVARIANT BootNeedsCpuOn
INVARIANT EndedMeansQuiet
PROPERTY ImplementsService
PROPERTY StopEnds
PROPERTY CpuOnReachesThread
\* A secondary nobody started keeps the destructor waiting for ever (run
\* vm_parked_cpu), so the system may stop.
CHECK_DEADLOCK FALSE
