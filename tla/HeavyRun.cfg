SPECIFICATION MCSpec
CONSTANTS
  p1 = p1
  p2 = p2
  k1 = k1
  Procs = {p1, p2}
  Readers = {k1}
  Staged = 2
  Orders <- MCOrders
  StageOrders <- MCStageOrders
  Touchable <- MCTouchable
  MaxPapers = 1
  Plans <- MCPlans
INVARIANTS
  ReadsAreCompleted
  OneHeavyWorker
  ApprovedLineage
  
PROPERTY RunsEnd
CHECK_DEADLOCK FALSE
