\* One main thread between a TCP pool and a UDP pool.
CONSTANTS
  TcpClients = {c1, c2}
  UdpClients = {d1}
  TcpThreads = {t1, t2}
  UdpThreads = {u1}
  Fds = {f1, f2}
  None = None
  Stranger = Stranger
  DefAlloc = 1
  QMax = 1
  MaxTcpFails = 1
  MaxUdpFails = 0
SPECIFICATION FairSpec
INVARIANTS
  ReportedIsPending
PROPERTIES
  DispatchDecides
  SpeakersServed
  UdpNotStarved
