SPECIFICATION FairSpec
INVARIANTS TypeOK OneCopy PageAgrees
PROPERTIES NothingForgotten BatchEnds DecisionIsShown MeterCatchesUp
CONSTANTS
  Pick = {f1, f2, f3}
  Row = {r1}
  MaxLost = 1
  MaxWorkers = 2
  Pages <- Parts
CHECK_DEADLOCK FALSE
