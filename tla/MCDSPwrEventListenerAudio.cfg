SPECIFICATION Spec
CONSTANTS
  Tv = FALSE
  VideoPorts <- OneVideo
  AudioPorts <- OneAudio
  BootEnabled <- AllBoot
  Modes <- TwoModes
  MaxRetries = 1
  MaxModes = 2
  MaxFailures = 0
INVARIANT OnEnablesAudio
CHECK_DEADLOCK FALSE
