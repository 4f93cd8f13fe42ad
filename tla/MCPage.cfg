CONSTANTS
  Page <- MCPage
  Path <- MCPath
  Lead <- MCLead
  ScreenOf <- MCScreenOf
  MaxActs = 3
  EditedPage = {"p", "q"}
  Area = {"x", "y", "z"}
  Out = "out"
  Static = {"v", "w", "o", "u"}
  Fresh = {"c"}
  HomePage <- MCHomePage
  HomeArea <- MCHomeArea
  MaxEdits = 5
  CtrlView = {"v", "w"}
  Value = {"d", "a", "b"}
  Default = "d"
  Grid = {"5x5", "3x3"}
  Text = {"plain", "big", "rem"}
  Rem = {"rem"}
  Declared <- MCDeclared
  Name = {"n", "m"}
  Controls = 2
  BatchSize = 1
  MaxChanges = 7
SPECIFICATION PageSpec
CHECK_DEADLOCK FALSE
INVARIANTS NavigationAgrees EditsHold ModesFollow WindowsHold
PROPERTIES WalksSettle ControlsReturn StaysInherited
