SPECIFICATION Spec
CONSTANTS
  None = None
  NoFile = NoFile
  DefaultPath = DefaultPath
  Broken = Broken
  NoBinary = NoBinary
  Registries <- AllRegistries
  Scenarios <- OneFailure
INVARIANT AnswersAreResults
CHECK_DEADLOCK FALSE
