SPECIFICATION Spec
CONSTANTS
  TaskCount = 2
  Tasks <- MCTasks
  Sessions = {s1}
  Ops = {"start", "status"}
  AgentResults = {"empty"}
  MaxActive = 1
  StartWindow = 2
  ListWindow = 1
  MaxStops = 1
  None = none
PROPERTY RefusalEnds
