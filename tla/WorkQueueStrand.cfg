SPECIFICATION FairSpec
CONSTANTS
  QUEUE_SIZE = 2
  Items = {i1, i2, i3}
  Enqueuers = {stratum}
  Consumers = {create_jobs}
  Cleaners = {}
  NULL = NULL
PROPERTY NotificationIsPushed
