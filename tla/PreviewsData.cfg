SPECIFICATION Spec
CONSTANTS
  PushCount = 1
  Pushes <- MCPushes
  Previews = {p1}
  MaxPreviews = 1
  Faulty = {}
  MaxEvents = 2
  Sweeper = sweeper
  None = none
PROPERTY NoDataLeftBehind
