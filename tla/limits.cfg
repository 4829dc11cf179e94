SPECIFICATION Spec
CONSTANTS
  Plan = {basic, pro}
  Unknown = Unknown
  MaxList = 2
  Configured <- Numbers
  Mebibyte = 2
  Overhead = 2
  MaxInt = 15
  Bytes <- Amounts
INVARIANTS
  TypeOK
  LimitsAreBest
  AdmissionIsExact
  BodyLimitSuffices
CHECK_DEADLOCK FALSE
