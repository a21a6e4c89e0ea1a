SPECIFICATION FairPollerSpec
CONSTANTS
  MaxTicket = 1
  Workload <- MCWorkload
  AlertName <- MCAlertName
  Source <- MCAlertManager
  Fp <- MCFp
  MaxAge = 2
  FlapCooldown = FALSE
  MaxConcurrent = 1
  MaxPR = 1
  AutoMerge = FALSE
  DryRun = FALSE
  AdvisoryKey <- MCAllKeys
  Faults <- MCCrash
  Handler <- MCOneHandler
  Group <- MCOneGroup
  KeyOf <- MCKeyOf
  Critical <- MCNone
  Ignored <- MCIgnored
  MaxFires = 1
  Argo <- MCNone
  Elsewhere = TRUE
  Delivery <- MCNone
  Workflow <- MCNone
PROPERTIES
  RunsUndisturbed
  PipelineSpec
  QuietAgentClosesTickets
