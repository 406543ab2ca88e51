SPECIFICATION FairSpec
CONSTANTS
  OutKey = {0}
  EportMod = 1
  MaxConn = 2
  MaxId = 1
  MaxSent = 0
  MaxRead = 1
  MaxAttempts = 1
INVARIANT SequenceTiled
PROPERTY InboundSettles
PROPERTY StoppedReaderEnds
\* Nobody need connect, so everything may be idle for ever.
CHECK_DEADLOCK FALSE
