SPECIFICATION Spec
CONSTANTS
  RunCount = 3
  Runs <- MCRuns
  Kinds = {"push"}
  Touches <- MCTouches
  Targets <- MCTargets
  Asked <- MCAsked
  MaxIncidents = 0
CHECK_DEADLOCK FALSE
PROPERTY Converges
