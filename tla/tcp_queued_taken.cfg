\* The comment at multiproto_server.c:723 on a queued descriptor.
CONSTANTS
  Clients = {c1, c2}
  Threads = {t1, t2}
  Fds = {f1, f2}
  None = None
  DefAlloc = 1
  QMax = 2
  Return = "poll"
  MaxExits = 0
  MaxCreateFails = 0
SPECIFICATION FairSpec
PROPERTY
  QueuedIsTaken
