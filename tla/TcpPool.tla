------------------------------ MODULE TcpPool ------------------------------
(***************************************************************************)
(* The TCP side of multiproto_server() (homework16): the main thread       *)
(* accepts connections and hands their descriptors to a pool of processing *)
(* threads over a bounded POSIX message queue.  Main never looks at the    *)
(* threads: it decides whether to hand a descriptor over, to wait or to    *)
(* create more threads from the values of two semaphores, read at two      *)
(* different moments, which the threads move one step at a time.           *)
(*                                                                         *)
(* The semaphores and the queue are named kernel objects: they outlive the *)
(* process, because shutdown_server() calls unlink() on their names and    *)
(* not sem_unlink() or mq_unlink().  A restart resets the semaphores and   *)
(* keeps what the queue holds.                                             *)
(***************************************************************************)
EXTENDS Integers, Sequences, FiniteSets

CONSTANTS
  Clients,         \* connections that clients make, one each
  Threads,         \* identities of threads the process can create
  Fds,             \* descriptor numbers the kernel gives to accepted sockets
  None,            \* no connection, no descriptor
  DefAlloc,        \* SERVER_DEF_ALLOC: threads created at start and per growth
  QMax,            \* SERVER_Q_MAXMSG: capacity of the queue
  Return,          \* where main goes after handing a client over
  MaxExits,        \* bound: how many times the process may end
  MaxCreateFails   \* bound: how many pthread_create calls may fail

ASSUME ConstantsAssumption ==
  /\ IsFiniteSet(Clients) /\ IsFiniteSet(Threads) /\ IsFiniteSet(Fds)
  /\ None \notin Clients /\ None \notin Fds
  /\ DefAlloc \in Nat \ {0} /\ QMax \in Nat \ {0}
  /\ DefAlloc <= Cardinality(Threads)
  /\ MaxExits \in Nat /\ MaxCreateFails \in Nat
  /\ Return \notin {"down", "tcp_accept", "tcp_free", "tcp_busy", "tcp_grow", "tcp_send"}

VARIABLES
  main,            \* program counter of the main thread
  mfd,             \* main's client_fd
  threads_count,   \* tcp_threads_count
  pc,              \* program counter of each processing thread
  wfd,             \* each thread's fd
  queue,           \* tcp_fds_q
  free,            \* free_tcp_threads_sem
  busy,            \* busy_tcp_threads_sem
  served,          \* served_tcp_clients
  file,            \* the process's descriptor table: Fds to connections
  conn,            \* where each connection stands
  spoke,           \* connections with something to read: data, or the end
  exits,           \* how many times the process has ended
  failed,          \* how many pthread_create calls have failed
  cancelled        \* threads cancelled by an exit() that one of them called

pool == <<threads_count, pc, wfd, free, busy, served>>
kernel == <<queue, file, conn, spoke>>
vars == <<main, mfd, pool, kernel, exits, failed, cancelled>>

(***************************************************************************)
(* A thread's program counter names the call it makes next:                *)
(*   none    not created            recv     recv(fd)                      *)
(*   start   sem_post(free)         close    close(fd)                     *)
(*   idle    mq_receive             unbusy   sem_wait(busy)                *)
(*   taken   sem_wait(free)         refree   sem_post(free)                *)
(*   tobusy  sem_post(busy)         count    sem_post(served)              *)
(***************************************************************************)
FreeAt == {"idle", "taken", "count"}       \* counted by free_tcp_threads_sem
BusyAt == {"recv", "close", "unbusy"}      \* counted by busy_tcp_threads_sem
HoldAt == {"taken", "tobusy", "recv", "close"}  \* owns the connection in fd
PCs == FreeAt \cup BusyAt \cup {"none", "start", "tobusy", "refree"}

At(P) == {w \in Threads : pc[w] \in P}
Goto(w, from, to) == pc[w] = from /\ pc' = [pc EXCEPT ![w] = to]

-----------------------------------------------------------------------------
(* The process starts: of DefAlloc pthread_create calls those for threads S *)
(* succeed; no descriptor is open.                                         *)
Fresh(S) ==
  /\ pc = [w \in Threads |-> IF w \in S THEN "start" ELSE "none"]
  /\ wfd = [w \in Threads |-> None]
  /\ threads_count = DefAlloc
  /\ free = 0 /\ busy = 0 /\ served = 0
  /\ file = [f \in Fds |-> None]

PoolInit ==
  /\ \E S \in SUBSET Threads :
       /\ Cardinality(S) <= DefAlloc /\ Fresh(S)
       /\ failed = DefAlloc - Cardinality(S) /\ failed <= MaxCreateFails
  /\ mfd = None
  /\ queue = <<>>
  /\ conn = [c \in Clients |-> "away"] /\ spoke = {}
  /\ exits = 0 /\ cancelled = {}

Init == main = "poll" /\ PoolInit

(* Threads S are created by a loop of DefAlloc pthread_create calls whose  *)
(* results are not looked at: those that fail leave no thread behind.      *)
CreateThreads(S) ==
  /\ S \subseteq At({"none"}) /\ Cardinality(S) <= DefAlloc
  /\ failed' = failed + (DefAlloc - Cardinality(S)) /\ failed' <= MaxCreateFails
  /\ pc' = [w \in Threads |-> IF w \in S THEN "start" ELSE pc[w]]

-----------------------------------------------------------------------------
(* Clients.                                                                *)

(* Nobody listens when there is no process, nor after a thread's exit().    *)
Connect(c) ==
  /\ main # "down" /\ cancelled = {} /\ conn[c] = "away"
  /\ conn' = [conn EXCEPT ![c] = "backlog"]
  /\ UNCHANGED <<main, mfd, pool, queue, file, spoke, exits, failed, cancelled>>

(* The client sends its message, or hangs up.                              *)
Speak(c) ==
  /\ conn[c] \in {"backlog", "open"} /\ c \notin spoke
  /\ spoke' = spoke \cup {c}
  /\ UNCHANGED <<main, mfd, pool, queue, file, conn, exits, failed, cancelled>>

-----------------------------------------------------------------------------
(* The main thread.                                                        *)

Pending == {c \in Clients : conn[c] = "backlog"}

Poll ==
  /\ main = "poll" /\ Pending # {}
  /\ main' = "tcp_accept"
  /\ UNCHANGED <<mfd, pool, kernel, exits, failed, cancelled>>

Accept(c, f) ==
  /\ main = "tcp_accept" /\ c \in Pending /\ file[f] = None
  /\ file' = [file EXCEPT ![f] = c]
  /\ conn' = [conn EXCEPT ![c] = "open"]
  /\ mfd' = f
  /\ main' = "tcp_free"
  /\ UNCHANGED <<pool, queue, spoke, exits, failed, cancelled>>

CheckFree ==
  /\ main = "tcp_free"
  /\ main' = IF free = 0 THEN "tcp_busy" ELSE "tcp_send"
  /\ UNCHANGED <<mfd, pool, kernel, exits, failed, cancelled>>

(* Main takes one busy thread too few for a full pool.                     *)
CheckBusyEarly ==
  /\ main = "tcp_busy"
  /\ main' = IF busy >= threads_count - 1 THEN "tcp_grow" ELSE "tcp_free"
  /\ UNCHANGED <<mfd, pool, kernel, exits, failed, cancelled>>

(* Main hands the descriptor over without a look at a free thread.         *)
CheckBusyNever ==
  /\ main = "tcp_busy"
  /\ main' = "tcp_free"
  /\ UNCHANGED <<mfd, pool, kernel, exits, failed, cancelled>>

(* Not every thread is busy: usleep and start again from the free ones.    *)
CheckBusy ==
  /\ main = "tcp_busy"
  /\ main' = IF busy = threads_count THEN "tcp_grow" ELSE "tcp_free"
  /\ UNCHANGED <<mfd, pool, kernel, exits, failed, cancelled>>

Grow(S) ==
  /\ main = "tcp_grow"
  /\ CreateThreads(S)
  /\ threads_count' = threads_count + DefAlloc
  /\ main' = "tcp_send"
  /\ UNCHANGED <<mfd, wfd, free, busy, served, kernel, exits, cancelled>>

(* The queue takes a message more than its capacity.                       *)
SendOverfull ==
  /\ main = "tcp_send" /\ Len(queue) <= QMax
  /\ queue' = Append(queue, mfd)
  /\ mfd' = None /\ main' = Return
  /\ UNCHANGED <<pool, file, conn, spoke, exits, failed, cancelled>>

(* mq_send blocks while the queue is full.                                 *)
Send ==
  /\ main = "tcp_send" /\ Len(queue) < QMax
  /\ queue' = Append(queue, mfd)
  /\ mfd' = None /\ main' = Return
  /\ UNCHANGED <<pool, file, conn, spoke, exits, failed, cancelled>>

-----------------------------------------------------------------------------
(* A processing thread.                                                    *)

Ready(w) ==
  /\ Goto(w, "start", "idle")
  /\ free' = free + 1
  /\ UNCHANGED <<main, mfd, threads_count, wfd, busy, served, kernel, exits, failed, cancelled>>

(* The thread reads the message and leaves it in the queue.                *)
TakePeek(w) ==
  /\ Goto(w, "idle", "taken") /\ queue # <<>>
  /\ wfd' = [wfd EXCEPT ![w] = Head(queue)]
  /\ UNCHANGED <<main, mfd, threads_count, free, busy, served, kernel, exits, failed, cancelled>>

Take(w) ==
  /\ Goto(w, "idle", "taken") /\ queue # <<>>
  /\ wfd' = [wfd EXCEPT ![w] = Head(queue)]
  /\ queue' = Tail(queue)
  /\ UNCHANGED <<main, mfd, threads_count, free, busy, served, file, conn, spoke, exits, failed, cancelled>>

LeaveFree(w) ==
  /\ Goto(w, "taken", "tobusy") /\ free > 0
  /\ free' = free - 1
  /\ UNCHANGED <<main, mfd, threads_count, wfd, busy, served, kernel, exits, failed, cancelled>>

JoinBusy(w) ==
  /\ Goto(w, "tobusy", "recv")
  /\ busy' = busy + 1
  /\ UNCHANGED <<main, mfd, threads_count, wfd, free, served, kernel, exits, failed, cancelled>>

(* recv blocks on an open connection until there is something to read; on  *)
(* a number that is not open it fails, and the thread goes on.             *)
Recv(w) ==
  /\ Goto(w, "recv", "close")
  /\ file[wfd[w]] \in spoke \cup {None}
  /\ UNCHANGED <<main, mfd, threads_count, wfd, free, busy, served, kernel, exits, failed, cancelled>>

Close(w) ==
  /\ Goto(w, "close", "unbusy")
  /\ file' = [file EXCEPT ![wfd[w]] = None]
  /\ conn' = [c \in Clients |-> IF c = file[wfd[w]] THEN "served" ELSE conn[c]]
  /\ wfd' = [wfd EXCEPT ![w] = None]
  /\ UNCHANGED <<main, mfd, threads_count, free, busy, served, queue, spoke, exits, failed, cancelled>>

(* The thread goes back to the free ones and still counts as busy.         *)
LeaveBusyForgotten(w) ==
  /\ Goto(w, "unbusy", "refree") /\ busy > 0
  /\ UNCHANGED <<main, mfd, threads_count, wfd, busy, free, served, kernel, exits, failed, cancelled>>

LeaveBusy(w) ==
  /\ Goto(w, "unbusy", "refree") /\ busy > 0
  /\ busy' = busy - 1
  /\ UNCHANGED <<main, mfd, threads_count, wfd, free, served, kernel, exits, failed, cancelled>>

(* The thread never counts as free again.                                  *)
JoinFreeForgotten(w) ==
  /\ Goto(w, "refree", "count")
  /\ UNCHANGED <<main, mfd, threads_count, wfd, free, busy, served, kernel, exits, failed, cancelled>>

JoinFree(w) ==
  /\ Goto(w, "refree", "count")
  /\ free' = free + 1
  /\ UNCHANGED <<main, mfd, threads_count, wfd, busy, served, kernel, exits, failed, cancelled>>

(* The client is counted twice.                                            *)
CountTwice(w) ==
  /\ Goto(w, "count", "idle")
  /\ served' = served + 2
  /\ UNCHANGED <<main, mfd, threads_count, wfd, free, busy, kernel, exits, failed, cancelled>>

Count(w) ==
  /\ Goto(w, "count", "idle")
  /\ served' = served + 1
  /\ UNCHANGED <<main, mfd, threads_count, wfd, free, busy, kernel, exits, failed, cancelled>>

-----------------------------------------------------------------------------
(* recv fails with ECONNRESET in thread w, and w calls exit().  The handler *)
(* closes the listening sockets and then cancels the threads in the order  *)
(* of the array; their cancellation is asynchronous, so that the call ends *)
(* when it comes to w itself.  Threads S have been cancelled by then.  The *)
(* rest of the handler, and of exit(), never runs: the process lives on    *)
(* with main, with the threads that come after w, with every descriptor,   *)
(* and with the semaphores as the cancelled threads left them.             *)
ThreadExit(w, S) ==
  /\ pc[w] = "recv" /\ file[wfd[w]] \in spoke
  /\ exits < MaxExits /\ cancelled = {}
  /\ w \in S /\ S \subseteq At(PCs \ {"none"})
  /\ cancelled' = S
  /\ conn' = [c \in Clients |-> IF conn[c] = "backlog" THEN "lost" ELSE conn[c]]
  /\ UNCHANGED <<main, mfd, pool, queue, file, spoke, exits, failed>>

(* The end of the process: SIGINT; accept() failing in main, as it does on *)
(* a socket that a thread's exit() has closed; exit() called by a second   *)
(* thread, which finds no handler left to run.  Threads and descriptors    *)
(* go, and the connections with them.  The named objects stay.             *)
Exit ==
  /\ main # "down" /\ exits < MaxExits
  /\ main' = "down" /\ mfd' = None /\ exits' = exits + 1 /\ cancelled' = {}
  /\ pc' = [w \in Threads |-> "none"]
  /\ wfd' = [w \in Threads |-> None]
  /\ file' = [f \in Fds |-> None]
  /\ conn' = [c \in Clients |-> IF conn[c] \in {"backlog", "open"} THEN "lost" ELSE conn[c]]
  /\ UNCHANGED <<threads_count, free, busy, served, queue, spoke, failed>>

(* The new process finds the semaphores where the old one left them.       *)
RestartAsIs(S) ==
  /\ main = "down"
  /\ CreateThreads(S)
  /\ threads_count' = DefAlloc
  /\ main' = "poll"
  /\ UNCHANGED <<mfd, wfd, free, busy, served, kernel, exits, cancelled>>

(* multiproto_server() starts again: the semaphores are set to 0, the queue*)
(* is opened with whatever it holds.                                       *)
Restart(S) ==
  /\ main = "down"
  /\ CreateThreads(S)
  /\ threads_count' = DefAlloc
  /\ free' = 0 /\ busy' = 0 /\ served' = 0
  /\ main' = "poll"
  /\ UNCHANGED <<mfd, wfd, kernel, exits, cancelled>>

-----------------------------------------------------------------------------
Main ==
  \/ Poll \/ CheckFree \/ CheckBusy \/ Send
  \/ \E c \in Clients, f \in Fds : Accept(c, f)
  \/ \E S \in SUBSET Threads : Grow(S)

Thread(w) ==
  /\ w \notin cancelled
  /\ \/ Ready(w) \/ Take(w) \/ LeaveFree(w) \/ JoinBusy(w) \/ Recv(w)
     \/ Close(w) \/ LeaveBusy(w) \/ JoinFree(w) \/ Count(w)

Client(c) == Connect(c) \/ Speak(c)

(* poll() with a timeout of 0 returns nothing and is called again.         *)
PollNothing == main = "poll" /\ Pending = {} /\ UNCHANGED vars

Next ==
  \/ Main \/ PollNothing \/ Exit
  \/ \E S \in SUBSET Threads : Restart(S)
  \/ \E w \in Threads : Thread(w) \/ \E S \in SUBSET Threads : ThreadExit(w, S)
  \/ \E c \in Clients : Client(c)

Spec == Init /\ [][Next]_vars

(* The scheduler runs the main thread and every processing thread; nothing *)
(* is said of clients, which may connect and stay silent.                  *)
FairSpec == Spec /\ WF_vars(Main) /\ \A w \in Threads : WF_vars(Thread(w))

-----------------------------------------------------------------------------
(* Properties.                                                             *)

MainAt == {"tcp_accept", "tcp_free", "tcp_busy", "tcp_grow", "tcp_send"}

(* Every variable keeps its type; in particular the queue never holds more *)
(* than SERVER_Q_MAXMSG descriptors.                                       *)
TypeOK ==
  /\ main \in MainAt \cup {"poll", "down", Return}
  /\ mfd \in Fds \cup {None}
  /\ threads_count \in Nat
  /\ pc \in [Threads -> PCs]
  /\ wfd \in [Threads -> Fds \cup {None}]
  /\ queue \in Seq(Fds) /\ Len(queue) <= QMax
  /\ free \in Nat /\ busy \in Nat /\ served \in Nat
  /\ file \in [Fds -> Clients \cup {None}]
  /\ conn \in [Clients -> {"away", "backlog", "open", "served", "lost"}]
  /\ spoke \subseteq Clients
  /\ exits \in 0..MaxExits /\ failed \in 0..MaxCreateFails
  /\ cancelled \subseteq Threads

(* While the process runs, the two semaphores say exactly how many threads *)
(* stand between a post and the next wait on them, through every           *)
(* interleaving, growth, failed pthread_create, restart, and exit() called *)
(* by a thread, which leaves the cancelled ones counted where they stood.  *)
(* Main's decisions rest on this, and it is why no sem_wait blocks.        *)
SemaphoreAccounting ==
  main # "down" => /\ free = Cardinality(At(FreeAt))
                   /\ busy = Cardinality(At(BusyAt))

QueueDistinct ==
  \A i, j \in DOMAIN queue : queue[i] = queue[j] => i = j
ThreadsDistinct ==
  \A w, v \in At(HoldAt) : wfd[w] = wfd[v] => w = v
QueueOrThread ==
  \A w \in At(HoldAt), i \in DOMAIN queue : queue[i] # wfd[w]
MainAlone ==
  /\ \A w \in At(HoldAt) : wfd[w] # mfd
  /\ \A i \in DOMAIN queue : queue[i] # mfd
HeldIsOpen ==
  /\ \A w \in At(HoldAt) : wfd[w] \in Fds /\ file[wfd[w]] # None
  /\ \A i \in DOMAIN queue : file[queue[i]] # None
  /\ mfd # None => file[mfd] # None

(* "one of those will receive a message and proceed to client              *)
(* communication": a descriptor is with main, in the queue or with one     *)
(* thread, never with two, and is open while anyone has it.                *)
EachClientOneHolder ==
  QueueDistinct /\ ThreadsDistinct /\ QueueOrThread /\ MainAlone /\ HeldIsOpen

(* EachClientOneHolder as long as no process has left its queue behind.    *)
OneHolder == exits = 0 => EachClientOneHolder

(* Main creates threads only when each thread it has is with a client, or  *)
(* was when it was cancelled, though main has read the two semaphores at   *)
(* two different moments.                                                  *)
GrowOnlyWhenAllBusy ==
  [][ main = "tcp_busy" /\ main' = "tcp_grow" => At(PCs \ {"none"}) \subseteq At(BusyAt) ]_vars

(* The pool grows with the demand: the threads beyond a batch of DefAlloc  *)
(* are fewer than the clients that have come.                              *)
PoolFitsDemand ==
  exits = 0 /\ threads_count > DefAlloc =>
    threads_count - DefAlloc < Cardinality({c \in Clients : conn[c] # "away"})

(* The tally shutdown_server() prints: each client whose socket was closed *)
(* is counted once, or is about to be by a thread on its way back.         *)
TallyExact ==
  exits = 0 =>
    served + Cardinality(At({"unbusy", "refree", "count"}))
      = Cardinality({c \in Clients : conn[c] = "served"})

Queued(c) == \E i \in DOMAIN queue : file[queue[i]] = c
Held(c) == \E w \in At(HoldAt) : file[wfd[w]] = c

(* What the comment at the mq_send says of a queued descriptor: one of the *)
(* processing servers will receive it.                                     *)
QueuedIsTaken == \A c \in Clients : Queued(c) ~> ~Queued(c)

(* The pool does what ClientService promises, over ends of the process and *)
(* the descriptors they leave in the queue: each connection is taken by a  *)
(* thread once, and tcp_served_clients never runs ahead of the connections *)
(* the server is done with.                                                *)
Status == [c \in Clients |->
  CASE conn[c] \in {"away", "served", "lost"} -> conn[c]
    [] OTHER -> IF Held(c) THEN "serving" ELSE "waiting"]
Door == IF main = "down" THEN "gone" ELSE IF cancelled = {} THEN "open" ELSE "closed"
Service == INSTANCE ClientService WITH
             Lossy <- FALSE, status <- Status, tally <- served, door <- Door
ImplementsService == Service!Spec

=============================================================================
