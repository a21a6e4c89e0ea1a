SPECIFICATION CallbackSpec
CONSTANTS
  p1 = p1
  p2 = p2
  e1 = e1
  e2 = e2
  e3 = e3
  s1 = s1
  s2 = s2
  Press <- MCPress
  Src <- MCSrc
  Entry <- MCEntry
  MaxIssue = 2
  PageSize = 1
  MaxPage = 2
  Faults <- FaultKind
INVARIANTS
  ScoutInv
  OneIssuePerSource
  KnownIssueFound
  LinksTellTheTruth
SYMMETRY MCSymmetry
