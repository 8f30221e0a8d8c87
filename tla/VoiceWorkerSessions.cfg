SPECIFICATION SafeSpec
CONSTANTS
  TaskCount = 4
  Tasks <- MCTasks
  Sessions = {s1, s2}
  Ops = {"start"}
  AgentResults = {"empty"}
  MaxActive = 1
  StartWindow = 4
  ListWindow = 1
  MaxStops = 0
  None = none
SYMMETRY MCSymmetry
CHECK_DEADLOCK FALSE
INVARIANTS
  CapacityOvershoot
