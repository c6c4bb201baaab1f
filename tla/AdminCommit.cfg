\* A run, a resume-reviewed and an operator; two crashes or failing file operations;
\* edits of a registration while no commit is pending; every written intent is resolved.
SPECIFICATION FairSpec
CONSTANTS
  Runs = {r1}
  Resumes = {s1}
  Operators = {op}
  Edits = {e1}
  Editable = {"companies.csv"}
  Initial = Initial  Absent = Absent  NoIntent = NoIntent
  EditWhilePending = FALSE
  FollowAdvice = FALSE
  MaxFaults = 2
INVARIANTS
  PointerImpliesRegistration StoppedLeavesPrior
  PartialCommitIsRecoverable
PROPERTIES
  EditsNotOverwritten AtomicRegistration PendingCommitResolves
CHECK_DEADLOCK FALSE
