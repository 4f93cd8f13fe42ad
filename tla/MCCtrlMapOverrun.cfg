CONSTANTS
  light = light
  shield = shield
  limiter = limiter
  empty = empty
  Controls <- MCThree
  Values <- MCValues
  Empty = empty
  Steep = 1
SPECIFICATION Spec
INVARIANT RealIndices
