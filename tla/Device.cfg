SPECIFICATION Spec
INVARIANTS TypeOK StorageKept FollowersServed UpdatesAreSafe
PROPERTIES ServicesFinish
CHECK_DEADLOCK FALSE
