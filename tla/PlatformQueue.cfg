SPECIFICATION Spec
CONSTANTS
  RunCount = 3
  Runs <- MCRuns
  Kinds = {"push", "manual", "job", "sweep"}
  Touches <- MCTouches
  Targets <- MCTargets
  Asked <- MCAsked
  MaxIncidents = 1
CHECK_DEADLOCK FALSE
INVARIANTS
  PatientExclusive
PROPERTIES
  SentInOrder
  DoneIsLive
  OnlyRerunsGoBack
  EveryRunEnds
