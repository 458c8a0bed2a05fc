SPECIFICATION MCSpec
CONSTANTS
  Kind = "V1"
  QUEUE_SIZE = 2
  SLOTS = 2
  EN2_SPACE = 5
  Exhausts = FALSE
  MaxJobs = 3
  MaxSettings = 2
  MaxExtranonces = 1
  MaxCycles = 1
INVARIANTS TypeOK 
PROPERTIES JobsNeverGoBack WorkNotRepeated CleanJobReachesChip
CHECK_DEADLOCK FALSE
