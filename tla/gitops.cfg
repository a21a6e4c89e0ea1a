SPECIFICATION ProbingSpec
CONSTANTS
  r1 = r1
  r2 = r2
  Run <- MCRuns
  Tenant <- MCTenant
  App <- MCApps
  Ours <- MCOurs
  Tag <- MCTags
  MaxMemory = 1
  MaxCommits = 4
  LookupCap = 2
  AutoMerge = TRUE
  Faults <- MCFaults
INVARIANTS
  UnovertakenRollbackGoesBack
  AppsOwnFileIsPatched
PROPERTIES
  MergeIsItsFix
SYMMETRY MCSymmetry
