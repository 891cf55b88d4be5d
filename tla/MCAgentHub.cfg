SPECIFICATION Spec
CONSTANTS
  d1 = d1
  NoConn = NoConn
  Devices = {d1}
  Conns = {a1, a2}
  DeviceOf <- MCDeviceOf
  Commands = {m1, m2}
  SendBuffer = 1
INVARIANTS
  TypeOK
  RegistryExact
  OnlineWhileRegistered
  CommandStream
PROPERTIES
  ConnectionReclaimed
  ImplementsChannel
CHECK_DEADLOCK FALSE
