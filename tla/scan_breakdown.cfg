SPECIFICATION Spec
CONSTANTS
  top = top
  nested = nested
  deep = deep
  leaf = leaf
  Node <- Nodes
  Top = top
  Inside <- Holds
  KindsOf <- Small
  Depths <- Two
  FileCounts <- TwoOrThree
INVARIANT BreakdownIsScanFailed
CHECK_DEADLOCK FALSE
