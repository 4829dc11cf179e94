SPECIFICATION FairSpec
CONSTANTS
  Server = {s1, s2}
  Name = {ann, ben}
  OldId = {p1, p2}
  NewId = {x1, x2, x3, x4}
  Catalog = {basic, pro}
  DefaultPlan = basic
  Retired = gone
  None = None
  MaxStops = 1
INVARIANTS
  TypeOK
  NothingLost
  ProfilesHaveAccounts
  ServedAccountsUsable
PROPERTY StartupSucceeds
CHECK_DEADLOCK FALSE
