CONSTANTS
  Buttons <- MCButtons
  DeviceOf <- MCDeviceOf
  Commands <- MCCommands
  KeyLimit = 2
  LowJoystick <- MCLow
  MaxDangling = 2
  QueueSize = 2
  Positions <- MCPositions
  Center = 0
  Widgets <- MCWidgets
SPECIFICATION UserSpec
INVARIANTS KeyboardShowsDangling AxesHeld
PROPERTY TaskGoesOn
