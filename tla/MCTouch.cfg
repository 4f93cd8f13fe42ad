CONSTANTS
  Double = 2
  Long = 4
  Late = 2
  Thumbs = {f1, f2}
  Vectors = {front, reserved}
  Reserved = reserved
  NoVector = none
  MaxInputs = 6
  Fingers = {1, 2}
  PadCount = 2
  Full = 1
  Reach = 0
  MaxEvents = 5
  MaxWidgets = 2
  MaxMoves = 7
  Views = {v1, v2}
  Joysticks = {j0, j1}
  Top = 2
  MaxSteps = 6
  Pages = {p1, p2}
  Nothing = nothing
  MaxActs = 4
SPECIFICATION TouchSpec
CHECK_DEADLOCK FALSE
INVARIANTS  ShieldHolds WidgetsFollow ShowsAxis ShownIsCurrent
PROPERTIES PressActsOnce PadsHold
