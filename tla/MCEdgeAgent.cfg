SPECIFICATION Spec
CONSTANTS
  s1 = s1  s2 = s2  b1 = b1
  startS1 = startS1  startS2 = startS2  stopS1 = stopS1
  startB1 = startB1  stopB1 = stopB1
  ping = ping  sync = sync  other = other
  None = None
  Sessions = {s1, s2}
  Bridges = {b1}
  Commands = {startS1, startS2, stopS1, startB1, stopB1, ping, sync, other}
  KindOf <- MCKindOf
  SubjectOf <- MCSubjectOf
  MaxConcurrentSessions = 1
  RecvBuffer = 1
  SendBuffer = 1
  MaxSent = 3
INVARIANTS
  TypeOK
  TimersMatchSessions
  ProcessesTracked
  AckTruthful
PROPERTIES
  SessionsEnd
  CommandsAnswered
CHECK_DEADLOCK FALSE
