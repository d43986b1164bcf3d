SPECIFICATION Spec
CONSTANTS
  Endpoints <- MCEndpoints
  OutRoutes <- MCOutRoutes
  LPARoutes <- MCLPARoutes
  InDevices <- MCInDevices
  Modes = {"MODE_NORMAL", "MODE_IN_CALL"}
  TtyModes = {"TTY_FULL"}
  Analog = FALSE
  Calibrations <- MCCalibrations
  MaxCalls = 5
  MaxFaults = 1
  Faults = {"snd", "pin", "pcm"}
  BtRegs <- MCBtRegs
  FmRegs <- MCFmRegs
INVARIANTS
  RoutingTypeOK
  CachedRouteIsCurrent
  MicMuteReachesDriver
  PinsNeverShared
  PinsFollowRoute
  
  
CHECK_DEADLOCK FALSE
