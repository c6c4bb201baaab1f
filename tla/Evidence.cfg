SPECIFICATION MCSpec
CONSTANTS
  c1 = c1  c2 = c2  f1 = f1  f2 = f2  d1 = d1
  None = None
  Companies = {c1, c2}
  Order <- MCOrder
  Planned <- MCPlanned
  FirstPackage <- MCFirst
  Packages <- MCPackages
  Readings <- MCReadings
  Budgets <- MCBudgets
  Destinations = {d1}
  Targets <- TwoAnalyses
  Archives = 3
  Relations <- ThreeArchives
  MaxReplaced = 2
  MaxUpgrades = 1
  Payload <- MCPayload
  Observations <- MCObservations
  Inventories <- MCInventories
  Universes <- MCUniverses
  MaxCached = 4
  Described <- MCDescribed
  DescriptionPlans <- MCPlans
  Texts <- MCTexts
  Days = 3
  MaxTouched = 2
  Tokens <- MCTokens
  MaxTokens = 6
INVARIANTS
  QualityIsProven
  VisibleIsApproved
  CompanyDataIsHonest
CHECK_DEADLOCK FALSE
