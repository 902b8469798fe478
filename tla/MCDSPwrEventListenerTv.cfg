SPECIFICATION Spec
CONSTANTS
  Tv = TRUE
  VideoPorts <- OneVideo
  AudioPorts <- NoAudio
  BootEnabled <- HdmiBoot
  Modes <- TwoModes
  MaxRetries = 2
  MaxModes = 2
  MaxFailures = 3
INVARIANTS PortsFollowLastEvent PatternFollowsLastEvent
CHECK_DEADLOCK FALSE
