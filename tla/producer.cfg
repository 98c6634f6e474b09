\* One side of the producer server with queues of one message.
CONSTANTS
  c1 = c1
  t1 = t1
  Clients = {c1, c2}
  Threads = {t1, t2}
  None = None
  Stray = Stray
  DefAlloc = 1
  QMax = 1
  MaxMishaps = 1
SPECIFICATION MCSpec
INVARIANTS
  SemaphoreAccounting
  NoClientLost
  WaitHasMover
  CycleNeedsTwo
PROPERTIES
  FirstIsAnswered
CHECK_DEADLOCK FALSE
