SPECIFICATION SafeSpec
CONSTANTS
  PushCount = 2
  Pushes <- MCPushes
  Previews = {p1, p2}
  MaxPreviews = 1
  Faulty = {}
  MaxEvents = 4
  Sweeper = sweeper
  None = none
INVARIANT OvershootNeedsOverlap
