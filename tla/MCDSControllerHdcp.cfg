SPECIFICATION Spec
CONSTANTS
  HdcpThreads <- TwoHdcp
  VideoPorts <- HdmiOnly
  InProcess = FALSE
  SYS = "iarmCall"
  AudioPorts <- NoAudio
  AutoPorts = {}
  MaxSysMode = 0
  MaxClient = 0
  MaxPlug = 1
  MaxHdcp = 3
  MaxStops = 0
INVARIANTS BlueMeansUnauthenticated
CHECK_DEADLOCK FALSE
