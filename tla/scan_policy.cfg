SPECIFICATION Spec
CONSTANTS
  top = top
  nested = nested
  deep = deep
  leaf = leaf
  Node <- Nodes
  Top = top
  Inside <- Holds
  KindsOf <- Mixed
  Depths <- OneOrTwo
  FileCounts <- TwoOrThree
INVARIANT VerdictIsExact
CHECK_DEADLOCK FALSE
