SPECIFICATION Spec
CONSTANTS
  d1 = d1
  NoConn = NoConn
  Devices = {d1}
  Conns = {a1, a2}
  DeviceOf <- MCDeviceOf
  Commands = {m1}
  SendBuffer = 1
INVARIANT SendReturns
CHECK_DEADLOCK FALSE
