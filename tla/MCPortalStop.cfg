SPECIFICATION Spec
CONSTANTS
  b1 = b1  b2 = b2  p1 = p1  p2 = p2  tty = tty
  None = None
  Sessions = {s1}
  Bridges = {b1, b2}
  Stops = {r1}
  Ports = {p1, p2}
  Services = {p1}
  BridgePort <- MCBridgePort
  SerialPort <- MCSerialPort
  NullReadable = FALSE
INVARIANT ActiveSessionStoppable
CHECK_DEADLOCK FALSE
