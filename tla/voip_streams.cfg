SPECIFICATION Spec
CONSTANTS
  i1 = i1
  Inputs <- OneInput
  MaxFds = 2
  MaxOpens = 2
  DriverFails = TRUE
  ControlOps <- AllControlOps
INVARIANTS
  VoipTypeOK
  VoipLockOwnership
  SharedDescriptorOpen
CHECK_DEADLOCK FALSE
