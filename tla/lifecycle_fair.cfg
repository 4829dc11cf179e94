SPECIFICATION FairSpec
CONSTANTS
  File = {f1}
  Worker = {w1, w2}
  Faults <- AllFaults
  MaxFaults = 2
  MaxClaims = 3
INVARIANT OrphansNeedFault
PROPERTIES
  EveryFileIsDecided
  DeletedLeavesNoObject
CHECK_DEADLOCK FALSE
