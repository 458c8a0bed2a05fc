SPECIFICATION FairSpec
CONSTANTS
  EVENT_QUEUE = 8
  MAX_RETRY_ATTEMPTS = 2
  SETUP_REPLIES = 1
  TaskSlots = {a, b}
  Configs <- V1Fallback
  MaxChanges = 4
  NULL = NULL
INVARIANTS TypeOK SessionInStep
PROPERTIES PausesOnlyForPoolInUse MiningResumes
CHECK_DEADLOCK FALSE
