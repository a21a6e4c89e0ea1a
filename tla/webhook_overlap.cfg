SPECIFICATION AlertSpec
CONSTANTS
  MaxTicket = 2
  Workload <- MCWorkload
  AlertName <- MCOneAlertName
  Source <- MCSource
  Fp <- MCFp
  MaxAge = 0
  FlapCooldown = FALSE
  MaxConcurrent = 1
  MaxPR = 1
  AutoMerge = FALSE
  DryRun = FALSE
  AdvisoryKey <- MCAllKeys
  Faults <- MCWebhookFaults
  Handler <- MCHandler
  Group <- MCTwoGroups
  KeyOf <- MCSharedKey
  Critical <- MCNone
  Ignored <- MCNone
  MaxFires = 2
CONSTRAINT MCPaused
INVARIANT TwinsBounded
PROPERTIES
  NextOccurrenceSpared
  HandledAlertIsTracked
