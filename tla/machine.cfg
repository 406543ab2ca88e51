SPECIFICATION Spec
CONSTANTS
  Proc = {"a", "b", "c"}
  Machine <- Machines4
  None = None
  Home <- Homes
  Config <- Configs
INVARIANT TypeOK
INVARIANT RamIsPrivate
INVARIANT BuiltStaysWhole
INVARIANT NothingDangles
INVARIANT GoneLeavesNothing
INVARIANT NodesAgree
\* The machines may all have been built and destroyed.
CHECK_DEADLOCK FALSE
