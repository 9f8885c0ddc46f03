SPECIFICATION TSpec
CONSTANTS
  a = a
  b = b
  c = c
  Disabled = Disabled
  Fault = Fault
  NumActions = 2
  States <- Three
  Inputs <- AllInputs
  Formulas <- MCFormulas
  Height <- MCHeight
  Asked <- MCAsked
INVARIANTS GraphIsReachableGraph TruthSetIsMeaning TemporalVerdictLocated BoundedAlwaysCoversDepth
CHECK_DEADLOCK FALSE
