CONSTANTS
  a = a
  b = b
  s1 = s1
  s2 = s2
  s3 = s3
  hit = hit
  rep = rep
  rem = rem
  mem = mem
  Pages <- MCPages
  Controls <- MCControls
  Class <- MCClass
  GroupIds <- MCGroupIds
  Used <- MCUsed
  Simple <- MCSimple
  Count <- MCCount
  MaxQueue = 2
  MaxTimers = 1
SYMMETRY PageSymmetry
SPECIFICATION Spec
INVARIANTS StatesAgree OneOfGroup NoGhostRepeats RepeatsGoOn
