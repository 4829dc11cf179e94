SPECIFICATION DownloadsSpec
CONSTANTS
  File = {f1}
  Worker = {w1, w2}
  Faults <- AllFaults
  MaxFaults = 3
  MaxClaims = 3
  Visitor = {v1}
SYMMETRY WorkerSymmetry
INVARIANTS
  TypeOK
  ApprovedIsServable
  AcknowledgedKeepsQuarantine
PROPERTIES
  ImplementsContract
  DownloadSucceeds
CHECK_DEADLOCK FALSE
