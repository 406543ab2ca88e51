SPECIFICATION FairSpec
CONSTANTS
  Parts = 3
  Cap = 4
  Size = 2
  MaxReports = 4
  MaxResets = 1
INVARIANT TypeOK
INVARIANT LatestReportWins
PROPERTY ImplementsFifo
PROPERTY PendingIsDelivered
\* The application sends MaxReports reports and the guest may be idle.
CHECK_DEADLOCK FALSE
