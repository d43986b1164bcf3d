SPECIFICATION Spec
CONSTANTS
  b1 = b1
  b2 = b2
  Buffers <- MCBuffers
  Suspend = suspend
  NoEvent = noEvent
  Faults = {}
  MaxOutstanding = 2
  ControlOps <- AllControlOps
SYMMETRY Symmetry
INVARIANTS
  TypeOK
  BufferConservation
  AnnouncedBufferIsThere
  TeardownQuiescent
  NoBufferSharedWithDriver
PROPERTIES
  ImplementsExchange
  EOSOnceAtStreamEnd
CHECK_DEADLOCK FALSE
