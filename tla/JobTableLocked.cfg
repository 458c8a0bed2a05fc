SPECIFICATION Spec
CONSTANTS
  MAX_ASIC_JOBS = 16
  Chips <- LockedDrivers
  CLEAN_STRIDE = 4
  MaxJobs = 5
  MaxCleans = 2
  UartDepth = 2
  NULL = NULL
INVARIANTS TypeOK SafeDeref TableOwnsJobs ResultsOfTheirJob
