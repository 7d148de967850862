SPECIFICATION FairSpec
CONSTANTS
  MaxRenders = 3  Events = 2  Retries = 1
CHECK_DEADLOCK FALSE
INVARIANTS TypeOK HandlesComplete
PROPERTIES DoneIsHeard SubscribedAtLast
