SPECIFICATION PollerSpec
CONSTANTS
  MaxTicket = 1
  Workload <- MCWorkload
  AlertName <- MCBlank
  Source <- MCSource
  Fp <- MCNone
  MaxAge = 2
  FlapCooldown = TRUE
  MaxConcurrent = 1
  MaxPR = 1
  AutoMerge = FALSE
  DryRun = FALSE
  AdvisoryKey <- MCAllKeys
  Faults <- MCFaults
  Handler <- MCNone
  Group <- MCNone
  KeyOf <- MCNoKey
  Critical <- MCNone
  Ignored <- MCNone
  MaxFires = 0
  Argo <- MCArgo
  Elsewhere = FALSE
  Delivery <- MCDelivery
  Workflow <- MCCI
INVARIANTS
  SeenDegradedStaysOpen
PROPERTIES
  FailingWorkflowStaysOpen
