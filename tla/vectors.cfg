SPECIFICATION AnySpec
CONSTANTS
  a = a
  b = b
  c = c
  d = d
  Disabled = Disabled
  Fault = Fault
  NumActions = 2
  SampleSize = 2
  FallbackSize = 1
  States <- Four
  Inputs <- AllInputs
  MachineRequests <- MCRequests
  RunnerInputs <- MCRunnerInputs
  Capacity = 2
  Observations = {"x1", "x2"}
INVARIANTS VectorsHold MinimizedStillFails MachineExact AnswerIsWhole
PROPERTY DrainingIsHeard
CHECK_DEADLOCK FALSE
