SPECIFICATION Spec
CONSTANTS
  NoAddress = NoAddress
  Hosts <- MCHosts
  InterfaceLists <- MCInterfaceLists
  LocalIPOverride = NoAddress
  PreferredInterface <- NoPreference
  BridgePorts = {502}
  SendBuffer = 1
  MaxScans = 2
  MaxConns = 2
  MaxFailures = 1
INVARIANTS
  TypeOK
  AnswerMatchesDate
  RowWhole
  ProfileOnce
  EnumerationSound
PROPERTIES
  ReportsInOrder
  ScanAnswered
CHECK_DEADLOCK FALSE
