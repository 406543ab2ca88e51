SPECIFICATION FairSpec
CONSTANTS
  Vcpu = {v1, v2}
  Size = 2
  MaxFrames = 3
  Large = {2}
  MaxTx = 2
  MaxResets = 1
INVARIANT TypeOK
PROPERTY ImplementsFifo
PROPERTY KickEnds
PROPERTY DeliveredIsCollected
PROPERTY FlushIsJoined
\* The guest may be idle for ever, and so is the destroyed device.
CHECK_DEADLOCK FALSE
