-------------------------- MODULE MultiprotoServer --------------------------
(***************************************************************************)
(* multiproto_server() as a whole (homework16): one main thread between    *)
(* two pools.  A round of its loop polls both sockets, then does all of    *)
(* the TCP side - accept, wait for or make room in the pool, mq_send - and *)
(* only then the UDP side, from what poll() said before.  The pools share  *)
(* nothing else, so whatever holds main in one holds up the other.         *)
(*                                                                         *)
(* The two sides are TcpPool and UdpPool over a common program counter of  *)
(* main; their own Poll steps are replaced by the one here.  Calls of      *)
(* pthread_create may fail; ends of the process and other failed calls are *)
(* left to the modules of the two sides.                                   *)
(***************************************************************************)
EXTENDS Integers, Sequences, FiniteSets

CONSTANTS
  TcpClients, UdpClients, TcpThreads, UdpThreads, Fds, None, Stranger,
  DefAlloc, QMax,
  MaxTcpFails,     \* bounds: how many pthread_create calls may fail, for the
  MaxUdpFails      \* TCP pool and for the UDP pool

ASSUME ConstantsAssumption ==
  /\ IsFiniteSet(TcpClients) /\ IsFiniteSet(TcpThreads) /\ IsFiniteSet(Fds)
  /\ IsFiniteSet(UdpClients) /\ IsFiniteSet(UdpThreads)
  /\ None \notin TcpClients \cup Fds /\ {None, Stranger} \cap UdpClients = {}
  /\ DefAlloc \in Nat \ {0} /\ QMax \in Nat \ {0}
  /\ MaxTcpFails \in Nat /\ MaxUdpFails \in Nat
  /\ DefAlloc <= Cardinality(TcpThreads) /\ DefAlloc <= Cardinality(UdpThreads)

VARIABLES
  main,            \* program counter of the main thread
  revents,         \* what poll() has reported and main has not come to yet
  tfd, tcount, tpc, twfd, tqueue, tfree, tbusy, tserved, file, conn, spoke, exits, failed,
  cancelled,
  uendp, ucount, upc, uwendp, uqueue, ufree, ubusy, userved, inbox, box, st, peer, mishaps,
  ufailed, open

tcpVars == <<tfd, tcount, tpc, twfd, tqueue, tfree, tbusy, tserved, file, conn, spoke,
             exits, failed, cancelled>>
udpVars == <<uendp, ucount, upc, uwendp, uqueue, ufree, ubusy, userved, inbox, box, st,
             peer, mishaps, ufailed, open>>
vars == <<main, revents, tcpVars, udpVars>>

Tcp == INSTANCE TcpPool WITH
  Clients <- TcpClients, Threads <- TcpThreads, Return <- "udp_turn",
  MaxExits <- 0, MaxCreateFails <- MaxTcpFails,
  mfd <- tfd, threads_count <- tcount, pc <- tpc, wfd <- twfd, queue <- tqueue,
  free <- tfree, busy <- tbusy, served <- tserved

Udp == INSTANCE UdpPool WITH
  Clients <- UdpClients, Threads <- UdpThreads, Return <- "poll", MaxMishaps <- 0,
  MaxCreateFails <- MaxUdpFails,
  mendp <- uendp, threads_count <- ucount, pc <- upc, endp <- uwendp, queue <- uqueue,
  free <- ufree, busy <- ubusy, served <- userved, failed <- ufailed

-----------------------------------------------------------------------------
Init == main = "poll" /\ revents = {} /\ Tcp!PoolInit /\ Udp!PoolInit

(* poll() over the listening sockets of both protocols.                    *)
Ready == {p \in {"tcp", "udp"} : IF p = "tcp" THEN Tcp!Pending # {} ELSE inbox # {}}

(* Main takes ret > 0 for both sockets being readable.                     *)
PollAny ==
  /\ main = "poll" /\ Ready # {}
  /\ revents' = {"udp"} /\ main' = "tcp_accept"
  /\ UNCHANGED <<tcpVars, udpVars>>

Poll ==
  /\ main = "poll" /\ Ready # {}
  /\ revents' = IF "tcp" \in Ready THEN Ready \ {"tcp"} ELSE {}
  /\ main' = IF "tcp" \in Ready THEN "tcp_accept" ELSE "udp_recv"
  /\ UNCHANGED <<tcpVars, udpVars>>

PollNothing == main = "poll" /\ Ready = {} /\ UNCHANGED vars

(* Main is done with the TCP side of this round.                           *)
UdpTurn ==
  /\ main = "udp_turn"
  /\ main' = IF "udp" \in revents THEN "udp_recv" ELSE "poll"
  /\ revents' = {}
  /\ UNCHANGED <<tcpVars, udpVars>>

TcpMain ==
  /\ \/ Tcp!CheckFree \/ Tcp!CheckBusy \/ Tcp!Send
     \/ \E c \in TcpClients, f \in Fds : Tcp!Accept(c, f)
     \/ \E S \in SUBSET TcpThreads : Tcp!Grow(S)
  /\ UNCHANGED <<revents, udpVars>>

UdpMain ==
  /\ \/ Udp!CheckFree \/ Udp!CheckBusy \/ Udp!Send
     \/ \E c \in UdpClients : Udp!Receive(c)
     \/ \E S \in SUBSET UdpThreads : Udp!Grow(S)
  /\ UNCHANGED <<revents, tcpVars>>

Main == Poll \/ TcpMain \/ UdpTurn \/ UdpMain

TcpThread(w) == Tcp!Thread(w) /\ UNCHANGED <<revents, udpVars>>
UdpThread(w) == Udp!Thread(w) /\ UNCHANGED <<revents, tcpVars>>
TcpClient(c) == Tcp!Client(c) /\ UNCHANGED <<revents, udpVars>>
UdpClient(c) == (Udp!Hello(c) \/ Udp!Reply(c)) /\ UNCHANGED <<revents, tcpVars>>

Next ==
  \/ Main \/ PollNothing
  \/ \E w \in TcpThreads : TcpThread(w)
  \/ \E w \in UdpThreads : UdpThread(w)
  \/ \E c \in TcpClients : TcpClient(c)
  \/ \E c \in UdpClients : UdpClient(c)

Spec == Init /\ [][Next]_vars

(* The scheduler is fair to all threads, and a UDP client sends once it    *)
(* has been greeted; nothing is said of when TCP clients speak.            *)
FairSpec ==
  /\ Spec /\ WF_vars(Main)
  /\ \A w \in TcpThreads : WF_vars(TcpThread(w))
  /\ \A w \in UdpThreads : WF_vars(UdpThread(w))
  /\ \A c \in UdpClients : WF_vars(Udp!Reply(c) /\ UNCHANGED <<revents, tcpVars>>)

-----------------------------------------------------------------------------
(* Properties.                                                             *)

(* main's program counter is in one side at a time, and a socket poll()    *)
(* reported readable still is when main gets to it, so that accept and     *)
(* recvfrom never block main.                                              *)
ReportedIsPending ==
  /\ main = "tcp_accept" => Tcp!Pending # {}
  /\ main = "udp_recv" \/ "udp" \in revents => inbox # {}

(* Both pools keep their accounts while main works for the other.          *)
BothAccounts == Tcp!SemaphoreAccounting /\ Udp!SemaphoreAccounting

(* With silent clients too, main gets out of the wait loop of the TCP      *)
(* side: the counters it looks at while threads are between them settle.   *)
(* Only threads that could not be created keep it there.                   *)
DispatchDecides == main = "tcp_free" ~> main = "tcp_send" \/ failed > 0

TcpClientsSpeak == \A c \in TcpClients : [](conn[c] = "backlog" => <>(c \in spoke))
ThreadMissing == failed + ufailed > 0

(* If the TCP clients speak, every one that connects is served, whatever   *)
(* main does for UDP clients in between.                                   *)
SpeakersServed ==
  TcpClientsSpeak =>
    \A c \in TcpClients : conn[c] = "backlog" ~> conn[c] = "served" \/ ThreadMissing

(* If the TCP clients speak, each UDP client is answered: the waits of     *)
(* main inside the TCP side, which hold up the UDP side, all come to an    *)
(* end.                                                                    *)
UdpNotStarved ==
  TcpClientsSpeak =>
    \A c \in UdpClients : st[c] = "waiting" ~> st[c] = "answered" \/ ThreadMissing

=============================================================================
