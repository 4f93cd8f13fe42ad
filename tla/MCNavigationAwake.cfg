CONSTANTS
  Page <- MCPage
  Path <- MCPath
  Lead <- MCLead
  ScreenOf <- MCScreenOf
  MaxActs = 3
SPECIFICATION Spec
CHECK_DEADLOCK FALSE
INVARIANT OnlyShownRuns
