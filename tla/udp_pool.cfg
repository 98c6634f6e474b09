\* The UDP pool with one mishap of any kind and one failed pthread_create.
CONSTANTS
  Clients = {c1, c2}
  Threads = {t1, t2}
  None = None
  Stranger = Stranger
  DefAlloc = 1
  QMax = 1
  Return = "poll"
  MaxMishaps = 1
  MaxCreateFails = 1
SPECIFICATION FairSpec
INVARIANTS
  TypeOK
  SemaphoreAccounting
  OneHolder
  SessionsSeparate
PROPERTIES
  GrowOnlyWhenAllBusy
  HelloAnswered
  ImplementsService
