SPECIFICATION TFairSpec
CONSTANTS
  a = a
  b = b
  c = c
  Disabled = Disabled
  Fault = Fault
  NumActions = 2
  States <- Three
  Inputs <- CyclicInputs
  Formulas <- MCFormulas
  Height <- MCHeight
  Asked <- OnlyEventually
PROPERTIES TTerminates
CHECK_DEADLOCK FALSE
