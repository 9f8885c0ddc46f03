SPECIFICATION FairSpec
CONSTANTS
  a = a
  b = b
  c = c
  d = d
  Disabled = Disabled
  Fault = Fault
  States = {a, b, c, d}
  NumActions = 2
  NumIds = 2
  Inputs <- AllInputs
INVARIANTS DivergenceIsShortest NothingMeansAgreement
PROPERTY Compares
CHECK_DEADLOCK FALSE
