SPECIFICATION FairSpec
CONSTANTS
  i1 = i1
  Inputs <- OneInput
  MaxFds = 1
  MaxOpens = 1
  DriverFails = FALSE
  ControlOps <- StreamOps
PROPERTY CallsReturn
