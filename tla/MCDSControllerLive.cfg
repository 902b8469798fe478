SPECIFICATION FairSpec
CONSTANTS
  HdcpThreads <- OneHdcp
  VideoPorts <- HdmiOnly
  InProcess = FALSE
  SYS = "iarmCall"
  AudioPorts <- OneAudio
  AutoPorts = {}
  MaxSysMode = 1
  MaxClient = 0
  MaxPlug = 1
  MaxHdcp = 0
  MaxStops = 1
PROPERTIES  DestructorReturns
CHECK_DEADLOCK FALSE
