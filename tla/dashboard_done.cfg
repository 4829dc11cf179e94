SPECIFICATION Spec
INVARIANT DoneIsDone
CONSTANTS
  Pick = {f1, f2}
  Row = {r1}
  MaxLost = 1
  MaxWorkers = 2
  Pages <- SmallPage
CHECK_DEADLOCK FALSE
