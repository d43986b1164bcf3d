SPECIFICATION FairSpec
CONSTANTS
  b1 = b1
  b2 = b2
  Buffers <- MCBuffers
  Suspend = suspend
  NoEvent = noEvent
  Faults = {}
  MaxOutstanding = 2
  ControlOps = {"setObserver"}
PROPERTY EOSPosted
CHECK_DEADLOCK FALSE
