SPECIFICATION SafeSpec
CONSTANTS
  RunCount = 2
  Runs <- MCRuns
  Kinds = {"push", "job"}
  Touches <- MCTouches
  Targets <- MCTargets
  Asked <- MCAsked
  MaxIncidents = 1
CHECK_DEADLOCK FALSE
INVARIANT HubExclusive
