SPECIFICATION FairSpec
CONSTANTS
  MaxKills = 1
  MaxEdits = 1
  Projects <- MCProjects
  Edits <- MCEdits
INVARIANTS NothingOverwritten LaidOutProjectsWork
PROPERTY OnboardingEnds
CHECK_DEADLOCK FALSE
