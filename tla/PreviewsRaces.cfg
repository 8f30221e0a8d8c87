SPECIFICATION Spec
CONSTANTS
  PushCount = 2
  Pushes <- MCPushes
  Previews = {p1}
  MaxPreviews = 1
  Faulty = {"up", "down", "github"}
  MaxEvents = 4
  Sweeper = sweeper
  None = none
INVARIANTS
  EnvUsable
PROPERTIES
  ClosedIsCleared
  OldIsRemoved
