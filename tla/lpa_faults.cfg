SPECIFICATION Spec
CONSTANTS
  b1 = b1
  b2 = b2
  Buffers <- MCBuffers
  Suspend = suspend
  NoEvent = noEvent
  Faults = {"ioctl", "interrupt", "ion", "spurious"}
  MaxOutstanding = 2
  ControlOps = {"start", "flush", "close"}
SYMMETRY Symmetry
INVARIANT SessionInv
CHECK_DEADLOCK FALSE
