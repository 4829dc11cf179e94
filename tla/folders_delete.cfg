SPECIFICATION Spec
CONSTANTS
  User = {u1}
  Folder = {d1, d2}
  File = {f1}
  Request = {r1}
  Root = Root
  Unknown = Unknown
  Faults <- NoFaults
  MaxFaults = 0
INVARIANT DeleteRemovesEverything
CHECK_DEADLOCK FALSE
