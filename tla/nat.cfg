SPECIFICATION Spec
CONSTANTS
  OutKey = {0}
  EportMod = 1
  MaxConn = 2
  MaxId = 2
  MaxSent = 1
  MaxRead = 0
  MaxAttempts = 2
INVARIANT EntriesAreServed
INVARIANT AcceptedIsWritten
\* Nobody need connect, so everything may be idle for ever.
CHECK_DEADLOCK FALSE
