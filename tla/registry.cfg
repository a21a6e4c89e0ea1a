SPECIFICATION FairRegistry
CONSTANTS
  c1 = c1
  c2 = c2
  c3 = c3
  own = own
  e1 = e1
  Caller <- MCCallers
  Name <- MCOwn
  Builtin <- MCOwn
  Endpoint <- MCOneEndpoint
  Calls <- MCCalls
INVARIANTS
  SequentialCallsAgree
PROPERTY EveryCallEnds
