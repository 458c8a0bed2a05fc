SPECIFICATION FairSpec
CONSTANTS
  HOLD = 1
  WINDOW = 1
  STARTUP = 1
  SETTLE = 2
  MAX_ATTEMPTS = 8
  TARGET_MW = 4
  MIN_MW = 2
  MAX_MW = 5
  PT_SETTLE = 2
  BAD_READING_MAX = 2
  MIN_COOLING = 1
  MaxOverheats = 1
  Readings <- MCReadings
  Configs <- MCConfigs
  Settings <- MCSettings
INVARIANTS
  TypeOK
  StoppedIsOff
  RegulatorFloor
  SettingsNeverRaised
  PoliciesCompose
PROPERTIES
  ThermalSettles
