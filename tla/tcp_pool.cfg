\* Safety of the TCP pool, with a restart and a failed pthread_create.
CONSTANTS
  Clients = {c1, c2, c3}
  Threads = {t1, t2, t3, t4}
  Fds = {f1, f2, f3}
  None = None
  DefAlloc = 2
  QMax = 2
  Return = "poll"
  MaxExits = 1
  MaxCreateFails = 1
SPECIFICATION Spec
SYMMETRY Symmetry
INVARIANTS
  TypeOK
  SemaphoreAccounting
  OneHolder
  PoolFitsDemand
  TallyExact
PROPERTIES
  GrowOnlyWhenAllBusy
  ImplementsService
