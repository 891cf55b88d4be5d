SPECIFICATION PathSpec
CONSTANTS
  MaxDials = 2
  MaxMessages = 2
  MaxCommands = 2
  SendBuffer = 1
  RecvBuffer = 1
  ChannelCapacity = 1
INVARIANTS
  TypeOK
  OutboundOrder
  InboundOnce
  HandledInOrder
PROPERTIES
  LossNoticed
  ReadersReclaimed
CHECK_DEADLOCK FALSE
