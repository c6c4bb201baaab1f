SPECIFICATION Spec
CONSTANTS
  None = None
  p1 = p1  p2 = p2
  Commands = {p1, p2}
  Budgets <- MCBudgets
SYMMETRY Symmetry
INVARIANTS
  OneIdentity
  ClosureIsOneMoment
PROPERTIES
  UndisturbedOpens
CHECK_DEADLOCK FALSE
