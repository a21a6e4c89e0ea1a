SPECIFICATION PipelineSpec
CONSTANTS
  MaxTicket = 3
  Workload <- MCWorkload
  AlertName <- MCAlertName
  Source <- MCSource
  Fp <- MCFp
  MaxAge = 0
  FlapCooldown = TRUE
  MaxConcurrent = 2
  MaxPR = 1
  AutoMerge = TRUE
  DryRun = FALSE
  AdvisoryKey <- MCNoAdvisory
  Faults <- MCFaults
VIEW MCView
CONSTRAINTS
  MCPauseMatters
  MCThirdIsPlain
INVARIANTS
  PipelineInv
  FinishedRunIsDecided
  MergeOnlyOnRecord
  PRNeverForgotten
  PROvershootBounded
PROPERTIES
  NoReopenAfterReload
  TicketsLiveAsPromised
