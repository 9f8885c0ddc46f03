SPECIFICATION FairSpec
CONSTANTS
  None = None
  NoFile = NoFile
  DefaultPath = DefaultPath
  Broken = Broken
  NoBinary = NoBinary
  Registries <- AllRegistries
  Scenarios <- AllScenarios
INVARIANTS OneAnswerPerRequest LogsAreHeard WorstChildDecides SuiteMeansPass DriftIsHonest SurfacesAgree
PROPERTIES OnlyNamedFilesChange Settles
CHECK_DEADLOCK FALSE
