SPECIFICATION PipelineSpec
CONSTANTS
  MaxTicket = 1
  Workload <- MCWorkload
  AlertName <- MCAlertName
  Source <- MCSource
  Fp <- MCFp
  MaxAge = 0
  FlapCooldown = FALSE
  MaxConcurrent = 1
  MaxPR = 1
  AutoMerge = TRUE
  DryRun = FALSE
  AdvisoryKey <- MCNoAdvisory
  Faults <- MCNoFaults
PROPERTY ResolutionStands
