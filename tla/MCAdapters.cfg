SPECIFICATION AdaptersSpec
CONSTANTS
  Callers <- MCCallers
  SYS = "iarmCall"
  AudioPorts <- MCAudioPorts
  AutoPorts <- MCAutoPorts
  MaxSysMode = 3
  MaxClient = 1
  MaxInCalls = 4
  MaxInRestarts = 2
  MaxBrightness = 2
  MaxFpInits = 2
  MaxFpCalls = 3
  MaxFpRestarts = 2
  TV = TRUE
  MaxVdCalls = 3
  MaxVdRestarts = 1
  Displays = {"A", "B"}
  MaxDpPlugs = 3
  MaxDpCalls = 2
  MaxDpRestarts = 1
  MaxHoCalls = 2
  MaxHoFaults = 1
  VdCallers = {c1, c2}
  DpCallers = {c1, c2}
  HoCallers = {c1, c2}
  Ports = {"p0", "p1"}
  NoPort = "none"
  CiCallers = {c1, c2}
  MaxCalls = 4
  MaxFaults = 2
  MaxRestarts = 2
SYMMETRY Symmetry
INVARIANTS
  
  EdidBitsAreLatest
  RestartGivesBack
  PreChangeIsClosed
  CachedEdidIsPlugged
  
  ClosedAndSaved
  
  ServiceMatchesAdapter
  OnePortOpen
PROPERTIES
  OnShowsSavedBrightness
CHECK_DEADLOCK FALSE
