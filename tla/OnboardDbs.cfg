SPECIFICATION Spec
CONSTANTS
  Apps = {a1}
  Runs = {r1, r2, r3}
  HandMade = {h1, h2}
  None = none
  LocalTrust = FALSE
  MaxTroubles = 2
SYMMETRY MCSymmetry
CHECK_DEADLOCK FALSE
INVARIANTS
  NoLostPassword
  GoodStaysGood
  RerunHeals
