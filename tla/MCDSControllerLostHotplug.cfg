SPECIFICATION Spec
CONSTANTS
  HdcpThreads <- OneHdcp
  VideoPorts <- HdmiOnly
  InProcess = FALSE
  SYS = "iarmCall"
  AudioPorts <- NoAudio
  AutoPorts = {}
  MaxSysMode = 0
  MaxClient = 0
  MaxPlug = 2
  MaxHdcp = 0
  MaxStops = 0
INVARIANT HotplugIsTaken
CHECK_DEADLOCK FALSE
