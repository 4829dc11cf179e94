SPECIFICATION FairSpec
CONSTANTS
  alice = alice
  a1 = a1
  a2 = a2
  a3 = a3
  big = big
  Nobody = Nobody
  User <- Alone
  Upload <- AliceUploads
  Owner <- AliceOwners
  Size <- AliceSizes
  MaxSize = 3
  Limit <- AliceLimit
  Faults <- AllFaults
  MaxFaults = 2
INVARIANTS
  TypeOK
  QuotaHolds
  LeakNeedsFault
PROPERTIES
  ImplementsLedger
  EveryRequestEnds
CHECK_DEADLOCK FALSE
