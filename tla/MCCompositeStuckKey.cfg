CONSTANTS
  Buttons <- MCButtons
  DeviceOf <- MCDeviceOf
  Commands <- MCTwoDevices
  KeyLimit = 2
  LowJoystick <- MCLow
  MaxDangling = 1
  QueueSize = 1
  Positions <- MCPositions
  Center = 0
  Widgets <- MCNoWidgets
SPECIFICATION Spec
INVARIANT HostShowsDangling
