SPECIFICATION PatchesSpec
CONSTANT
  Form <- MCForms
INVARIANTS
  PatchesTypeOK
  RollbackIsTheChartTag
  ProbeFixIsTheProbes
  LimitsAreBumped
CHECK_DEADLOCK FALSE
