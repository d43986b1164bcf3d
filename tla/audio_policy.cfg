SPECIFICATION Spec
CONSTANTS
  Connectable = {"WIRED_HEADSET", "SCO_HEADSET", "FM", "A2DP"}
  Streams = {"MUSIC", "RING", "SYSTEM", "VOICE_CALL"}
  PhoneStates = {"NORMAL", "RINGTONE", "IN_CALL"}
  MediaConfigs = {"NONE", "SPEAKER", "NO_BT_A2DP", "BT_SCO"}
  CommConfigs = {"NONE", "SPEAKER", "BT_SCO"}
  RecordConfigs = {"BT_SCO"}
  Sources = {"MIC", "FM_RX"}
  DirectRequests <- MCDirectRequests
  MaxRefs = 1
  MaxCalls = 5
INVARIANTS
  PolicyTypeOK
  ForceUseRemembered
  FmModeMatchesConnection
  TracksCounted
  CacheIsFresh
  InputFollowsPolicy
  NothingStaysMuted
  RoutesReachHardware
PROPERTIES
  RoutesFollowPolicy
CHECK_DEADLOCK FALSE
