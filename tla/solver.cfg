SPECIFICATION FairSpec
CONSTANTS
  a = a
  b = b
  c = c
  Disabled = Disabled
  Fault = Fault
  States = {a, b, c}
  NumActions = 2
  Inputs <- AllInputs
  SolverHorizon = 3
  MockHorizon = 3
  Replies <- AnyReply
INVARIANTS HorizonDecided SatDecides FailIsReplayable
PROPERTY Answered
CHECK_DEADLOCK FALSE
