SPECIFICATION Spec
CONSTANT Conns = {c1}
INVARIANT RemoteStopRequested
CHECK_DEADLOCK FALSE
