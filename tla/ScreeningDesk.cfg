\* Two processes, two publications and one path; two tabs and two records.
SPECIFICATION MCSpec
CONSTANTS
  Processes = {p1, p2}
  Publications = {jan, feb}
  Contents = {c1, c2}
  Paths = {x}
  NoContext = NoContext
  NoFile = NoFile
  NoPreview = NoPreview
  NoAnswer = NoAnswer
  MaxRevisions = 3
  MaxRuns = 2
  MaxRows = 5
  a = a  b = b  c1 = c1  r1 = r1  r2 = r2  None = None
  Tabs = {a, b}
  Records = {r1, r2}
  MaxLog = 3
  MaxRequest <- OneEach
  MaxAttempts <- TwoOfA
  MaxDialogs <- OneEach
CONSTRAINT Focus
SYMMETRY Symmetry
INVARIANTS
  ReadsInPartsAreHonest
  HandsOutTheRegisteredRun
  ViewIsHonest
  OncePerConfirmation
PROPERTIES
  ResultsAreTheirConditions
  ConfirmedAsShown
CHECK_DEADLOCK FALSE
