CONSTANTS
  gc = gc
  kb = kb
  none = none
  Tags <- MCTags
  Anonymous = none
  Intervals <- MCIntervals
  Repeats <- MCRepeats
  MaxRun = 1
  MaxUnits = 3
  light = light
  shield = shield
  limiter = limiter
  Controls <- MCControls
  Values <- MCValues
  Empty = empty
  Steep = 1
SPECIFICATION ServicesSpec
INVARIANTS TagsHold Punctual MapHolds
PROPERTIES RunsAsAsked NoneStarves
