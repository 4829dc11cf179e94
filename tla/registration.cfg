SPECIFICATION Spec
CONSTANTS
  k1 = k1
  k2 = k2
  k3 = k3
  ann = ann
  ben = ben
  home = home
  work = work
  Key <- Keys
  BadKey = BadKey
  Name = {ann, ben}
  Email = {home, work}
  NameOf <- Names
  EmailOf <- Emails
  Confirm = {c1, c2, c3}
  Faults <- AllFaults
  MaxFaults = 2
SYMMETRY ConfirmSymmetry
INVARIANTS
  TypeOK
  IdentityUnique
  ConsumedOnce
  CloudFollowsAuth
PROPERTY ImplementsRegistry
CHECK_DEADLOCK FALSE
