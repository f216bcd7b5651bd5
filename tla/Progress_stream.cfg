SPECIFICATION FairSpec
CONSTANTS
  Watchers = {w1, w2}
  Cap = 1
  QueueSize = 2
  Chunks = 3
INVARIANTS TypeOK CapHolds ToldIsSettled
PROPERTIES BarNeverGoesBack SubscribedLearnsEnd
CHECK_DEADLOCK FALSE
