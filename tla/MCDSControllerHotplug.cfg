SPECIFICATION Spec
CONSTANTS
  HdcpThreads <- OneHdcp
  VideoPorts <- TwoPorts
  InProcess = TRUE
  SYS = "iarmCall"
  AudioPorts <- NoAudio
  AutoPorts = {}
  MaxSysMode = 0
  MaxClient = 0
  MaxPlug = 2
  MaxHdcp = 1
  MaxStops = 1
INVARIANTS NoLostWakeup AuthGetsResolution
CHECK_DEADLOCK FALSE
