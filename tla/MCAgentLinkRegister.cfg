SPECIFICATION Spec
CONSTANTS
  MaxDials = 2
  MaxMessages = 3
  MaxCommands = 0
  SendBuffer = 1
  RecvBuffer = 1
INVARIANT RegistersFirst
CHECK_DEADLOCK FALSE
