SPECIFICATION AlertSpec
CONSTANTS
  MaxTicket = 2
  Workload <- MCWorkload
  AlertName <- MCAlertName
  Source <- MCSource
  Fp <- MCFp
  MaxAge = 0
  FlapCooldown = TRUE
  MaxConcurrent = 1
  MaxPR = 1
  AutoMerge = FALSE
  DryRun = FALSE
  AdvisoryKey <- MCAllKeys
  Faults <- MCNoFaults
  Handler <- MCOneHandler
  Group <- MCOneGroupOfTwo
  KeyOf <- MCOwnKeys
  Critical <- MCOneAlertName
  Ignored <- MCNone
  MaxFires = 2
INVARIANT AcknowledgedFiringHasATicket
