SPECIFICATION NotifierSpec
CONSTANTS
  MaxTicket = 1
  Workload <- MCWorkload
  AlertName <- MCAlertName
  Source <- MCSource
  Fp <- MCFp
  MaxAge = 0
  FlapCooldown = TRUE
  MaxConcurrent = 1
  MaxPR = 1
  AutoMerge = TRUE
  DryRun = FALSE
  AdvisoryKey <- MCNoAdvisory
  Faults <- MCFaults
  Request <- MCTwoRequests
  ChatFaults <- MCChatFaults
INVARIANTS
  AppliedMeansMerged
  OrphanPRIsEscalated
  EveryRunIsAnnounced
  AnnouncedOnce
PROPERTY SuppressionStands
