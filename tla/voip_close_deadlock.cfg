SPECIFICATION Spec
CONSTANTS
  i1 = i1
  Inputs <- OneInput
  MaxFds = 2
  MaxOpens = 1
  DriverFails = FALSE
  ControlOps <- AllControlOps
INVARIANT SetMicMuteWithoutLock
CHECK_DEADLOCK FALSE
