\* The comment at classic_server.c:9 on clients_q.
CONSTANTS
  Clients = {c1, c2, c3}
  Threads = {t1, t2, t3}
  None = None
  Garbage = Garbage
  DefAlloc = 2
  InitThreads = 2
  MaxSlots = 4
SPECIFICATION Spec
SYMMETRY Symmetry
INVARIANT
  PendingIsQueued
