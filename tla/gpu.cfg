SPECIFICATION FairSpec
CONSTANTS
  Vcpu = {v1, v2}
  Res = {1, 2}
  Width = 2
  Height = 2
  Memory = {0, 1, 2, 3}
  Pages <- SomeLists
  Rects <- SomeRects
  Ring = 2
  MaxCmds = 6
  MaxDraws = 1
  MaxResets = 1
INVARIANT TypeOK
INVARIANT LegalNeverRefused
PROPERTY ImplementsDisplay
PROPERTY EverythingIsServed
\* The driver issues MaxCmds commands and may then be idle for ever.
CHECK_DEADLOCK FALSE
