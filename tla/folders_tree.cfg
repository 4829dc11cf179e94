SPECIFICATION Spec
CONSTANTS
  User = {u1, u2}
  Folder = {d1, d2}
  File = {f1}
  Request = {r1, r2}
  Root = Root
  Unknown = Unknown
  Faults <- AllFaults
  MaxFaults = 1
SYMMETRY Symmetry
INVARIANTS
  TypeOK
  OrphansNeedOverlap
  LeftoversNeedOverlap
  ArchiveHoldsPublicTree
PROPERTY ImplementsTree
CHECK_DEADLOCK FALSE
