SPECIFICATION MCSpec
CONSTANTS
  Cutoff = 900
  CalendarDays = 91
  Spine <- Spine5
  Regular <- RegularFacts
  Edits <- RegularEdits
  MaxEdits = 2
  Conditions <- Screened
  Standard = {"sales", "buyback"}
  CashOnly = {"buyback"}
  Declared = {"sales", "custom"}
  FirstFacts <- FirstRelease
  Following <- NextReleases
  MaxReleases = 2
  ReviewedHistories <- ParentHistories
  Evidences <- AllEvidence
  Ledgers <- AllDecisions
  Sightings = {1, 2}
  ReviewedStarts <- FirstDocuments
  MaxExchanges = 3
  FirstReports <- CompanyYears
  ReportsAfter <- YearsAfter
  MaxChanges = 2
  Span <- Span3
  Windows <- YearWindows
  Screens <- YearScreens
  Universe = {"c1", "c2"}
  FirstInputs <- UniverseInputs
  MayAssess <- UniverseAssessments
  InputsAfter <- UniverseChanges
  MaxReplaced = 2
INVARIANT ReaderAcceptsProducer
INVARIANT ComputedOverOneScope
INVARIANT ViewsAgree
INVARIANT FourthQuartersAgree
INVARIANT ReviewedIsExact
 
CHECK_DEADLOCK FALSE
