SPECIFICATION Spec
CONSTANTS
  TaskCount = 2
  Tasks <- MCTasks
  Sessions = {s1}
  Ops = {"start", "status", "latest", "list"}
  AgentResults = {"empty", "clean", "protected"}
  MaxActive = 1
  StartWindow = 2
  ListWindow = 1
  MaxStops = 2
  None = none
INVARIANTS
  LedgerBalances
  RunningIsHeld
  
  OutcomeTruthful
  AgentsAccountedFor
PROPERTIES
  QueuedTaskEnds
  RoomReturns
  ImplementsLedger
