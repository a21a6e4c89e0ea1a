SPECIFICATION ProcessSpec
CONSTANTS
  u1 = u1
  u2 = u2
  u3 = u3
  Update <- MCUpdates
  MaxInFlight = 2
  MaxElapsed = 60
  Delays <- MCExtremes
INVARIANTS
  StoreInitKeepsItsBudget
  NoneVanishes
  EarlySendsComplete
  ShutdownInTime
  AttemptsUncut
PROPERTY NoAddBesideWait
SYMMETRY MCSymmetry
CHECK_DEADLOCK FALSE
