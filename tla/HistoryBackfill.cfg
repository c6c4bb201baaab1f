\* A second quarter filed after the third.
SPECIFICATION Spec
CONSTANTS
  Corpora <- LateCorpora
  Intakes <- MCIntakes
  Outputs = {1, 2}
  Additive = {"sales"}
  MaxFaults = 0
  MaxApproved = 1
  MaxCode = 1
INVARIANT ReusedIsRebuilt
CHECK_DEADLOCK FALSE
