CONSTANTS
  PARAMS = 1
  QUEUE_SIZE = 1
  WIDTH = 3
  SUBSCRIPTION_TIMEOUT = 1
  Intervals = {1}
  MaxCommands = 2
  MaxChanges = 1
  MaxDrops = 1
  MaxLag = 1
SPECIFICATION Spec
PROPERTIES ExpiresInTime
CHECK_DEADLOCK FALSE
