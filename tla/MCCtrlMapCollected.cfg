CONSTANTS
  light = light
  shield = shield
  limiter = limiter
  empty = empty
  Controls <- MCControls
  Values <- MCValues
  Empty = empty
  Steep = 1
SPECIFICATION Spec
PROPERTY ImplementsStates
