\* Two companies and two shells; with and without guidance by the next action; three filings of one company; four filings to be found.
SPECIFICATION MCSpec
CONSTANTS
  a = a  b = b  p1 = p1  p2 = p2  None = None
  Cohort <- TwoCompanies
  Filings <- TwoAndOne
  Source <- OneInSource
  Procs = {p1, p2}
  Guides = {TRUE, FALSE}
  MaxFaults <- TwoIfGuided
  Submittable <- MCSubmittable
  Newest = 1  Years = 1  AsOfs = {3}
  MaxFiled = 4  MaxFixes = 1  MaxCommands = 2
  Filed <- FiledCases  MaxFilings = 3  CoreNames = {"Revenue"}
INVARIANTS
  ReadyIsWhatWasBuilt IdentityIsEvidenced PlanIsComplete
PROPERTIES
  AdviceConverges AppendKeepsReports
CHECK_DEADLOCK FALSE
