SPECIFICATION LiveSpec
CONSTANTS
  Corpora <- MCCorpora
  Intakes <- MCIntakes
  Outputs = {1, 2, 3}
  Additive = {"sales"}
  MaxFaults = 1
  MaxApproved = 1
  MaxCode = 2
INVARIANTS ReusedIsRebuilt
 
CHECK_DEADLOCK FALSE
