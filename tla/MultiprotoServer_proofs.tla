---------------------- MODULE MultiprotoServer_proofs ----------------------
(***************************************************************************)
(* Proofs about the server as a whole: seen from one side, everything main *)
(* does for the other side is a stay at poll(), so the composition         *)
(* implements each pool, and what is proved of the pools holds in it.      *)
(***************************************************************************)
EXTENDS MultiprotoServer, TLAPS

TcpMainAt == {"tcp_accept", "tcp_free", "tcp_busy", "tcp_grow", "tcp_send"}
UdpMainAt == {"udp_recv", "udp_free", "udp_busy", "udp_grow", "udp_send"}

(* Each side's view of main: "poll" stands for all that is not its own.    *)
TcpView == IF main \in TcpMainAt THEN main ELSE "poll"
UdpView == IF main \in UdpMainAt THEN main ELSE "poll"

TcpSide == INSTANCE TcpPool_proofs WITH
  main <- TcpView, Return <- "poll",
  Clients <- TcpClients, Threads <- TcpThreads, MaxExits <- 0, MaxCreateFails <- MaxTcpFails,
  mfd <- tfd, threads_count <- tcount, pc <- tpc, wfd <- twfd, queue <- tqueue,
  free <- tfree, busy <- tbusy, served <- tserved

UdpSide == INSTANCE UdpPool_proofs WITH
  main <- UdpView, Return <- "poll",
  Clients <- UdpClients, Threads <- UdpThreads, MaxMishaps <- 0, MaxCreateFails <- MaxUdpFails,
  mendp <- uendp, threads_count <- ucount, pc <- upc, endp <- uwendp, queue <- uqueue,
  free <- ufree, busy <- ubusy, served <- userved, failed <- ufailed

(* The constants of the two sides are as the proofs about them assume.     *)
LEMMA TcpConstants == TcpSide!ConstantsAssumption
  <1>1. \A S : TcpSide!Cardinality(S) = Cardinality(S)
    BY DEF TcpSide!Cardinality, Cardinality
  <1>2. \A S : TcpSide!IsFiniteSet(S) = IsFiniteSet(S)
    BY DEF TcpSide!IsFiniteSet, IsFiniteSet
  <1> QED
    BY <1>1, <1>2, ConstantsAssumption

LEMMA UdpConstants == UdpSide!ConstantsAssumption
  <1>1. \A S : UdpSide!Cardinality(S) = Cardinality(S)
    BY DEF UdpSide!Cardinality, Cardinality
  <1>2. \A S : UdpSide!IsFiniteSet(S) = IsFiniteSet(S)
    BY DEF UdpSide!IsFiniteSet, IsFiniteSet
  <1> QED
    BY <1>1, <1>2, ConstantsAssumption

-----------------------------------------------------------------------------
(* The TCP side.                                                           *)

LEMMA TcpMainStep ==
  ASSUME TcpMain
  PROVE  TcpSide!Main
  <1> USE DEF TcpView, TcpMainAt, TcpSide!Main, Tcp!pool, Tcp!kernel, TcpSide!pool, TcpSide!kernel
  <1>1. CASE Tcp!CheckFree
    BY <1>1 DEF Tcp!CheckFree, TcpSide!CheckFree
  <1>2. CASE Tcp!CheckBusy
    BY <1>2 DEF Tcp!CheckBusy, TcpSide!CheckBusy
  <1>3. CASE Tcp!Send
    BY <1>3 DEF Tcp!Send, TcpSide!Send
  <1>4. ASSUME NEW c \in TcpClients, NEW f \in Fds, Tcp!Accept(c, f)
        PROVE  TcpSide!Accept(c, f)
    BY <1>4 DEF Tcp!Accept, TcpSide!Accept, Tcp!Pending, TcpSide!Pending
  <1>5. ASSUME NEW S \in SUBSET TcpThreads, Tcp!Grow(S)
        PROVE  TcpSide!Grow(S)
    <2>1. \A R : TcpSide!Cardinality(R) = Tcp!Cardinality(R)
      BY DEF TcpSide!Cardinality, Tcp!Cardinality
    <2> QED
      BY <1>5, <2>1 DEF Tcp!Grow, TcpSide!Grow, Tcp!CreateThreads, TcpSide!CreateThreads,
         Tcp!At, TcpSide!At
  <1> QED
    BY <1>1, <1>2, <1>3, <1>4, <1>5 DEF TcpMain

LEMMA TcpThreadStep ==
  ASSUME NEW w \in TcpThreads, TcpThread(w)
  PROVE  TcpSide!Thread(w)
  <1> USE DEF TcpView, TcpSide!Thread, Tcp!Goto, TcpSide!Goto, Tcp!pool, Tcp!kernel,
              TcpSide!pool, TcpSide!kernel
  <1>0. w \notin cancelled
    BY DEF TcpThread, Tcp!Thread
  <1> USE <1>0
  <1>1. CASE Tcp!Ready(w)
    BY <1>1 DEF Tcp!Ready, TcpSide!Ready
  <1>2. CASE Tcp!Take(w)
    BY <1>2 DEF Tcp!Take, TcpSide!Take
  <1>3. CASE Tcp!LeaveFree(w)
    BY <1>3 DEF Tcp!LeaveFree, TcpSide!LeaveFree
  <1>4. CASE Tcp!JoinBusy(w)
    BY <1>4 DEF Tcp!JoinBusy, TcpSide!JoinBusy
  <1>5. CASE Tcp!Recv(w)
    BY <1>5 DEF Tcp!Recv, TcpSide!Recv
  <1>6. CASE Tcp!Close(w)
    BY <1>6 DEF Tcp!Close, TcpSide!Close
  <1>7. CASE Tcp!LeaveBusy(w)
    BY <1>7 DEF Tcp!LeaveBusy, TcpSide!LeaveBusy
  <1>8. CASE Tcp!JoinFree(w)
    BY <1>8 DEF Tcp!JoinFree, TcpSide!JoinFree
  <1>9. CASE Tcp!Count(w)
    BY <1>9 DEF Tcp!Count, TcpSide!Count
  <1> QED
    BY <1>1, <1>2, <1>3, <1>4, <1>5, <1>6, <1>7, <1>8, <1>9 DEF TcpThread, Tcp!Thread

(* Seen from its TCP side the server is the pool that TcpPool describes,   *)
(* whatever main and the UDP threads do in between.                        *)
THEOREM TcpSideImplementsPool == Spec => TcpSide!Spec
  <1>1. Init => TcpSide!Init
    <2>1. \A R : TcpSide!Cardinality(R) = Tcp!Cardinality(R)
      BY DEF TcpSide!Cardinality, Tcp!Cardinality
    <2> QED
      BY <2>1 DEF Init, Tcp!PoolInit, TcpSide!PoolInit, TcpSide!Init, Tcp!Fresh, TcpSide!Fresh,
         TcpView, TcpMainAt
  <1>2. ASSUME [Next]_vars
        PROVE  [TcpSide!Next]_(TcpSide!vars)
    <2> DEFINE Stay == UNCHANGED TcpView /\ UNCHANGED tcpVars
    <2>1. SUFFICES TcpSide!Next \/ Stay
      BY DEF TcpSide!vars, TcpSide!pool, TcpSide!kernel, tcpVars
    <2> USE DEF TcpView, TcpMainAt
    <2>2. CASE Poll
      <3>1. CASE "tcp" \in Ready
        <4>1. TcpSide!Pending # {}
          BY <3>1 DEF Ready, Tcp!Pending, TcpSide!Pending
        <4>2. TcpSide!Poll
          BY <2>2, <3>1, <4>1 DEF Poll, TcpSide!Poll, tcpVars, TcpSide!pool, TcpSide!kernel
        <4> QED
          BY <4>2 DEF TcpSide!Next, TcpSide!Main
      <3>2. CASE "tcp" \notin Ready
        BY <2>2, <3>2 DEF Poll
      <3> QED
        BY <3>1, <3>2
    <2>3. CASE TcpMain
      BY <2>3, TcpMainStep DEF TcpSide!Next
    <2>4. CASE UdpTurn
      BY <2>4 DEF UdpTurn
    <2>5. CASE UdpMain
      BY <2>5 DEF UdpMain, Udp!CheckFree, Udp!CheckBusy, Udp!Send, Udp!Receive, Udp!Grow
    <2>6. CASE PollNothing \/ UNCHANGED vars
      BY <2>6 DEF PollNothing, vars
    <2>7. ASSUME NEW w \in TcpThreads, TcpThread(w)
          PROVE  TcpSide!Next
      BY <2>7, TcpThreadStep DEF TcpSide!Next
    <2>8. ASSUME NEW w \in UdpThreads, UdpThread(w)
          PROVE  Stay
      BY <2>8 DEF UdpThread, Udp!Thread, Udp!Ready, Udp!Take, Udp!Greet, Udp!LeaveFree,
         Udp!JoinBusy, Udp!Recv, Udp!Answer, Udp!LeaveBusy, Udp!JoinFree, Udp!Count
    <2>9. ASSUME NEW c \in TcpClients, TcpClient(c)
          PROVE  TcpSide!Next
      <3>1. TcpSide!Client(c)
        BY <2>9 DEF TcpClient, Tcp!Client, TcpSide!Client, Tcp!Connect, TcpSide!Connect,
           Tcp!Speak, TcpSide!Speak, Tcp!pool, TcpSide!pool
      <3> QED
        BY <3>1 DEF TcpSide!Next
    <2>10. ASSUME NEW c \in UdpClients, UdpClient(c)
           PROVE  Stay
      BY <2>10 DEF UdpClient, Udp!Hello, Udp!Reply
    <2> QED
      BY <1>2, <2>2, <2>3, <2>4, <2>5, <2>6, <2>7, <2>8, <2>9, <2>10 DEF Next, Main
  <1> QED
    BY <1>1, <1>2, PTL DEF Spec, TcpSide!Spec

-----------------------------------------------------------------------------
(* What poll() reports stays so until main gets to it.                     *)

(* Main keeps a report of the UDP socket through the TCP side only.        *)
Reports ==
  /\ ReportedIsPending
  /\ main \in {"poll"} \cup UdpMainAt => revents = {}

(* A connection waits in the backlog until main accepts it: what a thread  *)
(* closes is a connection that main has accepted.                          *)
LEMMA BacklogStays ==
  ASSUME NEW w \in TcpThreads, TcpThread(w), TcpSide!Inv, TcpSide!OneHolder, TcpSide!TableExact
  PROVE  \A c \in TcpClients : conn[c] = "backlog" => conn'[c] = "backlog"
  <1>1. CASE Tcp!Close(w)
    <2>1. TcpSide!Close(w)
      BY <1>1, TcpThreadStep DEF Tcp!Close, TcpSide!Close, Tcp!Goto, TcpSide!Goto, TcpView
    <2>2. exits = 0
      BY DEF TcpSide!Inv, TcpSide!TypeOK
    <2>3. /\ conn[file[twfd[w]]] = "open"
          /\ \A d \in TcpClients \ {file[twfd[w]]} : conn'[d] = conn[d]
      BY <2>1, <2>2, TcpConstants, TcpSide!CloseServes DEF TcpSide!OneHolder
    <2> QED
      BY <2>3
  <1>2. CASE ~Tcp!Close(w)
    BY <1>2 DEF TcpThread, Tcp!Thread, Tcp!Ready, Tcp!Take, Tcp!LeaveFree, Tcp!JoinBusy,
       Tcp!Recv, Tcp!LeaveBusy, Tcp!JoinFree, Tcp!Count, Tcp!kernel
  <1> QED
    BY <1>1, <1>2

(* accept() and recvfrom() never block main: between the report of poll()  *)
(* and the call only clients touch the sockets, and they only add to them. *)
LEMMA ReportsHold == Spec => []Reports
  <1>1. Init => Reports
    BY DEF Init, Reports, ReportedIsPending, UdpMainAt
  <1>2. ASSUME TcpSide!Inv, TcpSide!OneHolder, TcpSide!TableExact, Reports, [Next]_vars
        PROVE  Reports'
    <2> USE <1>2 DEF Reports, ReportedIsPending, UdpMainAt
    <2>0. ASSUME UNCHANGED <<main, revents, inbox>>,
                 \A c \in TcpClients : conn[c] = "backlog" => conn'[c] = "backlog"
          PROVE  Reports'
      BY <2>0 DEF Tcp!Pending
    <2>1. CASE Poll
      <3>1. "tcp" \in Ready => Tcp!Pending # {}
        BY DEF Ready
      <3>2. "udp" \in Ready => inbox # {}
        BY DEF Ready
      <3>3. Ready \subseteq {"tcp", "udp"}
        BY DEF Ready
      <3>4. Tcp!Pending' = Tcp!Pending /\ inbox' = inbox
        BY <2>1 DEF Poll, tcpVars, udpVars, Tcp!Pending
      <3> QED
        BY <2>1, <3>1, <3>2, <3>3, <3>4 DEF Poll
    <2>2. CASE TcpMain
      BY <2>2 DEF TcpMain, udpVars, Tcp!CheckFree, Tcp!CheckBusy, Tcp!Send, Tcp!Accept, Tcp!Grow
    <2>3. CASE UdpTurn
      BY <2>3 DEF UdpTurn, udpVars
    <2>4. CASE UdpMain
      BY <2>4 DEF UdpMain, Udp!CheckFree, Udp!CheckBusy, Udp!Send, Udp!Receive, Udp!Grow, Udp!net
    <2>5. CASE PollNothing \/ UNCHANGED vars
      BY <2>0, <2>5 DEF PollNothing, vars, tcpVars, udpVars
    <2>6. ASSUME NEW w \in TcpThreads, TcpThread(w)
          PROVE  Reports'
      <3>1. UNCHANGED <<main, revents, inbox>>
        BY <2>6 DEF TcpThread, udpVars, Tcp!Thread, Tcp!Ready, Tcp!Take, Tcp!LeaveFree,
           Tcp!JoinBusy, Tcp!Recv, Tcp!Close, Tcp!LeaveBusy, Tcp!JoinFree, Tcp!Count
      <3> QED
        BY <2>0, <2>6, <3>1, BacklogStays
    <2>7. ASSUME NEW w \in UdpThreads, UdpThread(w)
          PROVE  Reports'
      BY <2>0, <2>7 DEF UdpThread, tcpVars, Udp!Thread, Udp!Ready, Udp!Take, Udp!Greet,
         Udp!LeaveFree, Udp!JoinBusy, Udp!Recv, Udp!Answer, Udp!LeaveBusy, Udp!JoinFree,
         Udp!Count, Udp!net
    <2>8. ASSUME NEW c \in TcpClients, TcpClient(c)
          PROVE  Reports'
      <3>1. conn \in [TcpClients -> {"away", "backlog", "open", "served", "lost"}]
        BY DEF TcpSide!Inv, TcpSide!TypeOK
      <3> QED
        BY <2>0, <2>8, <3>1 DEF TcpClient, udpVars, Tcp!Client, Tcp!Connect, Tcp!Speak
    <2>9. ASSUME NEW c \in UdpClients, UdpClient(c)
          PROVE  Reports'
      BY <2>9 DEF UdpClient, tcpVars, Udp!Hello, Udp!Reply, Tcp!Pending
    <2> QED
      BY <2>1, <2>2, <2>3, <2>4, <2>5, <2>6, <2>7, <2>8, <2>9 DEF Next, Main
  <1>3. Spec => [](TcpSide!Inv /\ TcpSide!OneHolder /\ TcpSide!TableExact)
    BY TcpSideImplementsPool, TcpConstants, TcpSide!InvHolds, TcpSide!OneHolderHolds,
       TcpSide!TableHolds, PTL
  <1> QED
    BY <1>1, <1>2, <1>3, PTL DEF Spec

(* A socket that poll() reported is readable when main comes to it.        *)
THEOREM ReportsArePending == Spec => []ReportedIsPending
  <1>1. Reports => ReportedIsPending
    BY DEF Reports
  <1> QED
    BY <1>1, ReportsHold, PTL

-----------------------------------------------------------------------------
(* The UDP side.                                                           *)

LEMMA UdpMainStep ==
  ASSUME UdpMain
  PROVE  UdpSide!Main
  <1> USE DEF UdpView, UdpMainAt, UdpSide!Main, Udp!server, Udp!net, UdpSide!server, UdpSide!net
  <1>1. CASE Udp!CheckFree
    BY <1>1 DEF Udp!CheckFree, UdpSide!CheckFree
  <1>2. CASE Udp!CheckBusy
    BY <1>2 DEF Udp!CheckBusy, UdpSide!CheckBusy
  <1>3. CASE Udp!Send
    BY <1>3 DEF Udp!Send, UdpSide!Send
  <1>4. ASSUME NEW c \in UdpClients, Udp!Receive(c)
        PROVE  UdpSide!Receive(c)
    BY <1>4 DEF Udp!Receive, UdpSide!Receive
  <1>5. ASSUME NEW S \in SUBSET UdpThreads, Udp!Grow(S)
        PROVE  UdpSide!Grow(S)
    <2>1. \A R : UdpSide!Cardinality(R) = Udp!Cardinality(R)
      BY DEF UdpSide!Cardinality, Udp!Cardinality
    <2> QED
      BY <1>5, <2>1 DEF Udp!Grow, UdpSide!Grow, Udp!CreateThreads, UdpSide!CreateThreads,
         Udp!At, UdpSide!At
  <1> QED
    BY <1>1, <1>2, <1>3, <1>4, <1>5 DEF UdpMain

LEMMA UdpThreadStep ==
  ASSUME NEW w \in UdpThreads, UdpThread(w)
  PROVE  UdpSide!Thread(w)
  <1> USE DEF UdpView, UdpSide!Thread, Udp!Goto, UdpSide!Goto, Udp!server, Udp!net,
              UdpSide!server, UdpSide!net
  <1>1. CASE Udp!Ready(w)
    BY <1>1 DEF Udp!Ready, UdpSide!Ready
  <1>2. CASE Udp!Take(w)
    BY <1>2 DEF Udp!Take, UdpSide!Take
  <1>3. CASE Udp!Greet(w)
    BY <1>3 DEF Udp!Greet, UdpSide!Greet, Udp!Deliver, UdpSide!Deliver
  <1>4. CASE Udp!LeaveFree(w)
    BY <1>4 DEF Udp!LeaveFree, UdpSide!LeaveFree
  <1>5. CASE Udp!JoinBusy(w)
    BY <1>5 DEF Udp!JoinBusy, UdpSide!JoinBusy
  <1>6. CASE Udp!Recv(w)
    BY <1>6 DEF Udp!Recv, UdpSide!Recv
  <1>7. CASE Udp!Answer(w)
    BY <1>7 DEF Udp!Answer, UdpSide!Answer, Udp!Deliver, UdpSide!Deliver
  <1>8. CASE Udp!LeaveBusy(w)
    BY <1>8 DEF Udp!LeaveBusy, UdpSide!LeaveBusy
  <1>9. CASE Udp!JoinFree(w)
    BY <1>9 DEF Udp!JoinFree, UdpSide!JoinFree
  <1>10. CASE Udp!Count(w)
    BY <1>10 DEF Udp!Count, UdpSide!Count
  <1> QED
    BY <1>1, <1>2, <1>3, <1>4, <1>5, <1>6, <1>7, <1>8, <1>9, <1>10 DEF UdpThread, Udp!Thread

(* Seen from its UDP side the server is the pool that UdpPool describes,   *)
(* with nothing going wrong: main reads the socket only when the report of *)
(* poll() that brought it there still holds.                               *)
THEOREM UdpSideImplementsPool == Spec => UdpSide!Spec
  <1>1. Init => UdpSide!Init
    <2>1. \A R : UdpSide!Cardinality(R) = Udp!Cardinality(R)
      BY DEF UdpSide!Cardinality, Udp!Cardinality
    <2> QED
      BY <2>1 DEF Init, Udp!PoolInit, UdpSide!PoolInit, UdpSide!Init, UdpView, UdpMainAt
  <1>2. ASSUME Reports, [Next]_vars
        PROVE  [UdpSide!Next]_(UdpSide!vars)
    <2> DEFINE Stay == UNCHANGED UdpView /\ UNCHANGED udpVars
    <2>1. SUFFICES UdpSide!Next \/ Stay
      BY DEF UdpSide!vars, UdpSide!server, UdpSide!net, udpVars
    <2> USE DEF UdpView, UdpMainAt
    <2>2. ASSUME inbox # {}, main \notin UdpMainAt, main' = "udp_recv", UNCHANGED udpVars
          PROVE  UdpSide!Next
      <3>1. UdpSide!Poll
        BY <2>2 DEF UdpSide!Poll, UdpSide!server, UdpSide!net, udpVars
      <3> QED
        BY <3>1 DEF UdpSide!Next, UdpSide!Main
    <2>3. CASE Poll
      <3>1. main = "poll" /\ UNCHANGED udpVars /\ Ready # {}
            /\ main' = IF "tcp" \in Ready THEN "tcp_accept" ELSE "udp_recv"
        BY <2>3 DEF Poll
      <3>2. "tcp" \notin Ready => inbox # {}
        BY <3>1 DEF Ready
      <3> QED
        BY <2>2, <3>1, <3>2
    <2>4. CASE UdpTurn
      <3>1. "udp" \in revents => inbox # {}
        BY <1>2 DEF Reports, ReportedIsPending
      <3> QED
        BY <2>2, <2>4, <3>1 DEF UdpTurn
    <2>5. CASE TcpMain
      BY <2>5 DEF TcpMain, Tcp!CheckFree, Tcp!CheckBusy, Tcp!Send, Tcp!Accept, Tcp!Grow
    <2>6. CASE UdpMain
      BY <2>6, UdpMainStep DEF UdpSide!Next
    <2>7. CASE PollNothing \/ UNCHANGED vars
      BY <2>7 DEF PollNothing, vars
    <2>8. ASSUME NEW w \in UdpThreads, UdpThread(w)
          PROVE  UdpSide!Next
      BY <2>8, UdpThreadStep DEF UdpSide!Next
    <2>9. ASSUME NEW w \in TcpThreads, TcpThread(w)
          PROVE  Stay
      BY <2>9 DEF TcpThread, Tcp!Thread, Tcp!Ready, Tcp!Take, Tcp!LeaveFree,
         Tcp!JoinBusy, Tcp!Recv, Tcp!Close, Tcp!LeaveBusy, Tcp!JoinFree, Tcp!Count
    <2>10. ASSUME NEW c \in UdpClients, UdpClient(c)
           PROVE  UdpSide!Next
      <3>1. UdpSide!Hello(c) \/ UdpSide!Reply(c)
        BY <2>10 DEF UdpClient, Udp!Hello, UdpSide!Hello, Udp!Reply, UdpSide!Reply,
           Udp!server, UdpSide!server
      <3> QED
        BY <3>1 DEF UdpSide!Next
    <2>11. ASSUME NEW c \in TcpClients, TcpClient(c)
           PROVE  Stay
      BY <2>11 DEF TcpClient, Tcp!Client, Tcp!Connect, Tcp!Speak
    <2> QED
      BY <1>2, <2>3, <2>4, <2>5, <2>6, <2>7, <2>8, <2>9, <2>10, <2>11 DEF Next, Main
  <1> QED
    BY <1>1, <1>2, ReportsHold, PTL DEF Spec, UdpSide!Spec

-----------------------------------------------------------------------------
(* What the pools promise, the server keeps.                               *)

(* Both pairs of semaphores are exact, for pools of any size.              *)
THEOREM BothAccountsHold == Spec => []BothAccounts
  <1>1. TcpSide!SemaphoreAccounting => Tcp!SemaphoreAccounting
    <2>1. \A R : TcpSide!Cardinality(R) = Tcp!Cardinality(R)
      BY DEF TcpSide!Cardinality, Tcp!Cardinality
    <2> QED
      BY <2>1 DEF TcpSide!SemaphoreAccounting, Tcp!SemaphoreAccounting, TcpView, TcpMainAt,
         TcpSide!At, Tcp!At, TcpSide!FreeAt, Tcp!FreeAt, TcpSide!BusyAt, Tcp!BusyAt
  <1>2. UdpSide!SemaphoreAccounting => Udp!SemaphoreAccounting
    <2>1. \A R : UdpSide!Cardinality(R) = Udp!Cardinality(R)
      BY DEF UdpSide!Cardinality, Udp!Cardinality
    <2> QED
      BY <2>1 DEF UdpSide!SemaphoreAccounting, Udp!SemaphoreAccounting, UdpView, UdpMainAt,
         UdpSide!At, Udp!At, UdpSide!FreeAt, Udp!FreeAt, UdpSide!BusyAt, Udp!BusyAt
  <1> QED
    BY <1>1, <1>2, TcpSideImplementsPool, UdpSideImplementsPool, TcpConstants, UdpConstants,
       TcpSide!SemaphoresExact, UdpSide!SemaphoresExact, PTL DEF BothAccounts

(* One thread reads the semaphores of two pools in turn, and in between    *)
(* both pools move.  It creates threads for a protocol only when all of    *)
(* that protocol are busy.                                                 *)
THEOREM DecisionsJustified ==
  Spec => TcpSide!GrowOnlyWhenAllBusy /\ UdpSide!GrowOnlyWhenAllBusy
  BY TcpSideImplementsPool, UdpSideImplementsPool, TcpConstants, UdpConstants,
     TcpSide!GrowthJustified, UdpSide!GrowthJustified, PTL

(* While no thread of a pool is free and fewer are busy than main has      *)
(* counted, some thread of that pool is between two semaphores, about to   *)
(* change what main reads - unless pthread_create has failed as often as   *)
(* there are threads missing: then main waits for nobody, and the other    *)
(* protocol with it.                                                       *)
Between == {"start", "tobusy", "refree"}
WaitsExplained ==
  /\ tfree = 0 /\ tbusy + failed < tcount => \E w \in TcpThreads : tpc[w] \in Between
  /\ ufree = 0 /\ ubusy + ufailed < ucount => \E w \in UdpThreads : upc[w] \in Between

LEMMA NothingCancelled == Spec => [](cancelled = {})
  <1>1. Init => cancelled = {}
    BY DEF Init, Tcp!PoolInit
  <1>2. cancelled = {} /\ [Next]_vars => (cancelled = {})'
    BY DEF Next, vars, tcpVars, Main, PollNothing, Poll, UdpTurn, TcpMain, UdpMain, TcpThread,
       UdpThread, TcpClient, UdpClient, Tcp!CheckFree, Tcp!CheckBusy, Tcp!Send, Tcp!Accept,
       Tcp!Grow, Tcp!Thread, Tcp!Ready, Tcp!Take, Tcp!LeaveFree, Tcp!JoinBusy, Tcp!Recv,
       Tcp!Close, Tcp!LeaveBusy, Tcp!JoinFree, Tcp!Count, Tcp!Client, Tcp!Connect, Tcp!Speak
  <1> QED
    BY <1>1, <1>2, PTL DEF Spec

THEOREM WaitsAreExplained == Spec => []WaitsExplained
  <1>1. ASSUME TcpSide!WaitHasMover, UdpSide!WaitHasMover, cancelled = {}
        PROVE  WaitsExplained
    <2>1. TcpView # "down" /\ UdpView # "down"
      BY DEF TcpView, TcpMainAt, UdpView, UdpMainAt
    <2> QED
      BY <1>1, <2>1 DEF WaitsExplained, Between, TcpSide!WaitHasMover, UdpSide!WaitHasMover,
         TcpSide!At, UdpSide!At, TcpSide!MovingAt, UdpSide!MovingAt
  <1> QED
    BY <1>1, NothingCancelled, TcpSideImplementsPool, UdpSideImplementsPool, TcpConstants,
       UdpConstants, TcpSide!WaitsHaveMovers, UdpSide!WaitsHaveMovers, PTL

(* Each accepted descriptor has one holder, the tally of TCP clients is    *)
(* exact, and no client of either pool is served by two threads or taken   *)
(* for another, in the server as in the pools alone.                       *)
THEOREM ServerKeepsSessions ==
  Spec => [](/\ TcpSide!EachClientOneHolder /\ TcpSide!TallyExact
             /\ UdpSide!OneHolder /\ UdpSide!SessionsSeparate)
  <1>1. TcpSide!Inv /\ TcpSide!OneHolder => TcpSide!EachClientOneHolder
    BY DEF TcpSide!Inv, TcpSide!TypeOK, TcpSide!OneHolder
  <1> QED
    BY <1>1, TcpSideImplementsPool, UdpSideImplementsPool, TcpConstants, UdpConstants,
       TcpSide!InvHolds, TcpSide!OneHolderHolds, TcpSide!TallyIsExact,
       UdpSide!OneHolderHolds, UdpSide!SessionsSeparateHolds, PTL

(* To its TCP and its UDP clients alike the server is the abstract         *)
(* service, though one main thread does the work of both and may wait for  *)
(* one side while clients of the other come: each is taken once, finished  *)
(* once, never lost, and counted only when finished.                       *)
THEOREM ServerImplementsService ==
  Spec => TcpSide!ImplementsService /\ UdpSide!ImplementsService
  BY TcpSideImplementsPool, UdpSideImplementsPool, TcpConstants, UdpConstants,
     TcpSide!PoolImplementsService, UdpSide!PoolImplementsService, PTL

=============================================================================
