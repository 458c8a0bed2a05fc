SPECIFICATION FairSpec
CONSTANTS
  QUEUE_SIZE = 2
  Items = {i1, i2, i3, i4, i5}
  Enqueuers = {old_task, new_task}
  Consumers = {create_jobs}
  Cleaners = {coordinator}
  NULL = NULL
INVARIANTS TypeOK Ownership NoLostWakeup NotAllWaitForRoom
PROPERTIES FifoSpec QueuedWorkLeaves
