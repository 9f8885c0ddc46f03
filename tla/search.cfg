SPECIFICATION FairSpec
CONSTANTS
  a = a
  b = b
  c = c
  d = d
  e = e
  Disabled = Disabled
  Fault = Fault
  NumActions = 2
  States <- Five
  Inputs <- AllInputs
INVARIANTS SearchInv TraceIsShortestEvidence
PROPERTIES ImplementsContract Terminates
CHECK_DEADLOCK FALSE
