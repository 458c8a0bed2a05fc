SPECIFICATION HotSpec
CONSTANTS
  QUEUE_SIZE = 2  MAX_RETRY_ATTEMPTS = 2
  Configs <- SameChannel  Conns = {"c1", "c2", "c3"}  MaxSwitches = 3  PromptLoop = TRUE  NULL = "none"
  Jobs = {"j1", "j2"}  MAX_REQUEST_IDS = 8  MAX_ACTIVE_JOB_IDS = 2
  V1Budgets <- Sessions  V1Backlog = 2
  SV2_PENDING_JOBS_SIZE = 2  SV2_SUBMIT_TIMING_SLOTS = 2  V2Budgets <- Offers  V2Backlog = 3
  STEP = 2  RESET = 8  LOWEST = 7  Settings = {3, 11}  Attempts <- AttemptsOf  ChipPlans <- Links
  Voltages = {10, 12}  VOUT_MIN = 8  VOUT_MAX = 13  GRACE = 2  VcorePlans <- Rails
  FULL = 10  STARTUP = 7  IDLE = 3  MAX_TEMP = 4  TARGET = 3  KP = 2  KI = 1  KD = 3
  FanPlans <- Airs
  SHORT = 1  LONG = 2  WAKE = 2  TIMEOUT = 3  DisplayPlans <- Watches
  ENOUGH = 2  TestPlans <- HotTrials
  CRITICAL_STREAK_TO_RESTART = 3  MaxFailures = 1  MaxBoots = 2  MaxEpisodes = 1
INVARIANTS MonitorGoesFirst
CHECK_DEADLOCK FALSE
