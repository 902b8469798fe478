SPECIFICATION SettingsSpec
CONSTANTS
  Callers = {c1, c2}
  DefaultResolution = "1080p"
  MaxCalls = 3
  MaxPlugs = 1
  MaxRestarts = 1
  SettingCallers = {c1, c2}
  Values = {v1, v2}
  Profiles = {movie, music}
  MaxSetCalls = 3
  MaxSetRestarts = 1
SYMMETRY Symmetry
INVARIANTS
  ResolutionsAgree
  PairIsCompatible
  
  
  

  
CHECK_DEADLOCK FALSE
