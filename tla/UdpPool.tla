------------------------------ MODULE UdpPool ------------------------------
(***************************************************************************)
(* The UDP side of multiproto_server() (homework16).  The main thread      *)
(* reads a client's first datagram from the listening socket and hands the *)
(* client's endpoint to a pool of processing threads.  Each thread has a   *)
(* socket of its own: it greets the client from it, so that the client     *)
(* learns where to send, waits there for one datagram, and answers if it   *)
(* came from the client it has been given.                                 *)
(*                                                                         *)
(* Nothing is retransmitted and nothing times out.  What may go wrong is   *)
(* counted in mishaps: a sendto or recvfrom that fails, a datagram that is *)
(* dropped because a receive buffer is full, a datagram from somewhere     *)
(* else, the end of the process or exit() called by a thread of the TCP    *)
(* side; and in failed: a pthread_create that fails.                       *)
(***************************************************************************)
EXTENDS Integers, Sequences, FiniteSets

CONSTANTS
  Clients,         \* clients, each with an endpoint of its own
  Threads,         \* identities of threads the process can create
  None,            \* no client
  Stranger,        \* the endpoint of a stray datagram
  DefAlloc,        \* SERVER_DEF_ALLOC
  QMax,            \* SERVER_Q_MAXMSG
  Return,          \* where main goes after handing a client over
  MaxMishaps,      \* bound: how many things may go wrong
  MaxCreateFails   \* bound: how many pthread_create calls may fail

ASSUME ConstantsAssumption ==
  /\ IsFiniteSet(Clients) /\ IsFiniteSet(Threads)
  /\ {None, Stranger} \cap Clients = {}
  /\ DefAlloc \in Nat \ {0} /\ QMax \in Nat \ {0}
  /\ DefAlloc <= Cardinality(Threads)
  /\ MaxMishaps \in Nat /\ MaxCreateFails \in Nat
  /\ Return \notin {"down", "udp_recv", "udp_free", "udp_busy", "udp_grow", "udp_send"}

VARIABLES
  main,            \* program counter of the main thread
  mendp,           \* main's client_endp
  threads_count,   \* udp_threads_count
  pc,              \* program counter of each processing thread
  endp,            \* each thread's endp
  queue,           \* udp_endpoints_q
  free,            \* free_udp_threads_sem
  busy,            \* busy_udp_threads_sem
  served,          \* served_udp_clients
  inbox,           \* clients whose datagram waits at the listening socket
  box,             \* per thread: who sent the datagrams at its socket
  st,              \* where each client stands
  peer,            \* the thread each client was greeted by
  mishaps,         \* how many things have gone wrong
  failed,          \* how many pthread_create calls have failed
  open             \* is the listening socket open?

server == <<mendp, threads_count, endp, free, busy, served>>
net == <<inbox, box, st, peer>>
vars == <<main, server, pc, queue, net, mishaps, failed, open>>

(***************************************************************************)
(* A thread's program counter names the call it makes next:                *)
(*   none    not created            recv     recvfrom(fd)                  *)
(*   start   sem_post(free)         answer   sendto(endp), the answer      *)
(*   idle    mq_receive             unbusy   sem_wait(busy)                *)
(*   greet   sendto(endp)           refree   sem_post(free)                *)
(*   taken   sem_wait(free)         count    sem_post(served)              *)
(*   tobusy  sem_post(busy)         dead     returned                      *)
(***************************************************************************)
FreeAt == {"idle", "greet", "taken", "count"}
BusyAt == {"recv", "answer", "unbusy"}
HoldAt == {"greet", "taken", "tobusy", "recv", "answer"}
PCs == FreeAt \cup BusyAt \cup {"none", "start", "tobusy", "refree", "dead"}

At(P) == {w \in Threads : pc[w] \in P}
Goto(w, from, to) == pc[w] = from /\ pc' = [pc EXCEPT ![w] = to]
Mishap == mishaps < MaxMishaps /\ mishaps' = mishaps + 1

-----------------------------------------------------------------------------
PoolInit ==
  /\ \E S \in SUBSET Threads :
       /\ Cardinality(S) <= DefAlloc
       /\ failed = DefAlloc - Cardinality(S) /\ failed <= MaxCreateFails
       /\ pc = [w \in Threads |-> IF w \in S THEN "start" ELSE "none"]
  /\ threads_count = DefAlloc /\ mendp = None
  /\ endp = [w \in Threads |-> None]
  /\ free = 0 /\ busy = 0 /\ served = 0
  /\ queue = <<>> /\ inbox = {}
  /\ box = [w \in Threads |-> <<>>]
  /\ st = [c \in Clients |-> "away"]
  /\ peer = [c \in Clients |-> None]
  /\ mishaps = 0 /\ open = TRUE

Init == main = "poll" /\ PoolInit

(* Of DefAlloc pthread_create calls, whose results are not looked at, those *)
(* for threads S succeed.                                                  *)
CreateThreads(S) ==
  /\ S \subseteq At({"none"}) /\ Cardinality(S) <= DefAlloc
  /\ failed' = failed + (DefAlloc - Cardinality(S)) /\ failed' <= MaxCreateFails
  /\ pc' = [w \in Threads |-> IF w \in S THEN "start" ELSE pc[w]]

-----------------------------------------------------------------------------
(* Clients: udp_client() of multiproto_client.c.                           *)

(* What is sent to a server that has closed its socket is lost.            *)
Hello(c) ==
  /\ main # "down" /\ st[c] = "away"
  /\ st' = [st EXCEPT ![c] = "waiting"]
  /\ inbox' = IF open THEN inbox \cup {c} ELSE inbox
  /\ UNCHANGED <<main, server, pc, queue, box, peer, mishaps, failed, open>>

(* The greeted client takes the sender's endpoint and writes to it.        *)
Reply(c) ==
  /\ st[c] = "greeted"
  /\ st' = [st EXCEPT ![c] = "replied"]
  /\ box' = [box EXCEPT ![peer[c]] = Append(@, c)]
  /\ UNCHANGED <<main, server, pc, queue, inbox, peer, mishaps, failed, open>>

(* A datagram from thread w reaches client c: the first is the greeting,   *)
(* the second is the answer, which must come from the same endpoint.       *)
Deliver(c, w) ==
  CASE st[c] = "waiting" -> /\ st' = [st EXCEPT ![c] = "greeted"]
                            /\ peer' = [peer EXCEPT ![c] = w]
    [] st[c] = "replied" -> /\ st' = [st EXCEPT ![c] = IF peer[c] = w THEN "answered" ELSE "rejected"]
                            /\ UNCHANGED peer
    [] OTHER -> UNCHANGED <<st, peer>>

-----------------------------------------------------------------------------
(* The main thread.                                                        *)

Poll ==
  /\ main = "poll" /\ inbox # {}
  /\ main' = "udp_recv"
  /\ UNCHANGED <<server, pc, queue, net, mishaps, failed, open>>

Receive(c) ==
  /\ main = "udp_recv" /\ c \in inbox
  /\ inbox' = inbox \ {c}
  /\ mendp' = c
  /\ main' = "udp_free"
  /\ UNCHANGED <<threads_count, endp, free, busy, served, pc, queue, box, st, peer, mishaps, failed, open>>

CheckFree ==
  /\ main = "udp_free"
  /\ main' = IF free = 0 THEN "udp_busy" ELSE "udp_send"
  /\ UNCHANGED <<server, pc, queue, net, mishaps, failed, open>>

(* Main creates threads when one thread is not busy yet.                   *)
CheckBusyEarly ==
  /\ main = "udp_busy"
  /\ main' = IF busy >= threads_count - 1 THEN "udp_grow" ELSE "udp_free"
  /\ UNCHANGED <<server, pc, queue, net, mishaps, failed, open>>

CheckBusy ==
  /\ main = "udp_busy"
  /\ main' = IF busy = threads_count THEN "udp_grow" ELSE "udp_free"
  /\ UNCHANGED <<server, pc, queue, net, mishaps, failed, open>>

Grow(S) ==
  /\ main = "udp_grow"
  /\ CreateThreads(S)
  /\ threads_count' = threads_count + DefAlloc
  /\ main' = "udp_send"
  /\ UNCHANGED <<mendp, endp, free, busy, served, queue, net, mishaps, open>>

SendOverfull ==
  /\ main = "udp_send" /\ Len(queue) <= QMax
  /\ queue' = Append(queue, mendp)
  /\ mendp' = None /\ main' = Return
  /\ UNCHANGED <<threads_count, endp, free, busy, served, pc, net, mishaps, failed, open>>

Send ==
  /\ main = "udp_send" /\ Len(queue) < QMax
  /\ queue' = Append(queue, mendp)
  /\ mendp' = None /\ main' = Return
  /\ UNCHANGED <<threads_count, endp, free, busy, served, pc, net, mishaps, failed, open>>

-----------------------------------------------------------------------------
(* A processing thread.                                                    *)

Ready(w) ==
  /\ Goto(w, "start", "idle")
  /\ free' = free + 1
  /\ UNCHANGED <<main, mendp, threads_count, endp, busy, served, queue, net, mishaps, failed, open>>

TakePeek(w) ==
  /\ Goto(w, "idle", "greet") /\ queue # <<>>
  /\ endp' = [endp EXCEPT ![w] = Head(queue)]
  /\ UNCHANGED <<main, mendp, threads_count, free, busy, served, queue, net, mishaps, failed, open>>

Take(w) ==
  /\ Goto(w, "idle", "greet") /\ queue # <<>>
  /\ endp' = [endp EXCEPT ![w] = Head(queue)]
  /\ queue' = Tail(queue)
  /\ UNCHANGED <<main, mendp, threads_count, free, busy, served, net, mishaps, failed, open>>

Greet(w) ==
  /\ Goto(w, "greet", "taken")
  /\ Deliver(endp[w], w)
  /\ UNCHANGED <<main, server, queue, inbox, box, mishaps, failed, open>>

(* sendto fails: the thread returns, still counted as free.                *)
GreetFails(w) ==
  /\ Goto(w, "greet", "dead") /\ Mishap
  /\ UNCHANGED <<main, server, queue, net, failed, open>>

LeaveFree(w) ==
  /\ Goto(w, "taken", "tobusy") /\ free > 0
  /\ free' = free - 1
  /\ UNCHANGED <<main, mendp, threads_count, endp, busy, served, queue, net, mishaps, failed, open>>

JoinBusy(w) ==
  /\ Goto(w, "tobusy", "recv")
  /\ busy' = busy + 1
  /\ UNCHANGED <<main, mendp, threads_count, endp, free, served, queue, net, mishaps, failed, open>>

(* The thread gives up on the client when nothing has come yet.            *)
RecvGivesUp(w) ==
  /\ pc[w] = "recv"
  /\ IF box[w] = <<>>
       THEN pc' = [pc EXCEPT ![w] = "unbusy"] /\ UNCHANGED box
       ELSE /\ pc' = [pc EXCEPT ![w] = IF Head(box[w]) = endp[w] THEN "answer" ELSE "unbusy"]
            /\ box' = [box EXCEPT ![w] = Tail(@)]
  /\ UNCHANGED <<main, server, queue, inbox, st, peer, mishaps, failed, open>>

(* "Incorrect endpoint": a datagram from anyone else ends the session.     *)
Recv(w) ==
  /\ pc[w] = "recv" /\ box[w] # <<>>
  /\ pc' = [pc EXCEPT ![w] = IF Head(box[w]) = endp[w] THEN "answer" ELSE "unbusy"]
  /\ box' = [box EXCEPT ![w] = Tail(@)]
  /\ UNCHANGED <<main, server, queue, inbox, st, peer, mishaps, failed, open>>

(* recvfrom fails: the session is over, and counted.                       *)
RecvFails(w) ==
  /\ Goto(w, "recv", "unbusy") /\ Mishap
  /\ UNCHANGED <<main, server, queue, net, failed, open>>

Answer(w) ==
  /\ Goto(w, "answer", "unbusy")
  /\ Deliver(endp[w], w)
  /\ UNCHANGED <<main, server, queue, inbox, box, mishaps, failed, open>>

AnswerFails(w) ==
  /\ Goto(w, "answer", "unbusy") /\ Mishap
  /\ UNCHANGED <<main, server, queue, net, failed, open>>

LeaveBusy(w) ==
  /\ Goto(w, "unbusy", "refree") /\ busy > 0
  /\ busy' = busy - 1
  /\ UNCHANGED <<main, mendp, threads_count, endp, free, served, queue, net, mishaps, failed, open>>

(* The thread never counts as free again.                                  *)
JoinFreeForgotten(w) ==
  /\ Goto(w, "refree", "count")
  /\ UNCHANGED <<main, server, queue, net, mishaps, failed, open>>

JoinFree(w) ==
  /\ Goto(w, "refree", "count")
  /\ free' = free + 1
  /\ UNCHANGED <<main, mendp, threads_count, endp, busy, served, queue, net, mishaps, failed, open>>

Count(w) ==
  /\ Goto(w, "count", "idle")
  /\ served' = served + 1
  /\ UNCHANGED <<main, mendp, threads_count, endp, free, busy, queue, net, mishaps, failed, open>>

-----------------------------------------------------------------------------
(* What may go wrong around the server.                                    *)

(* A client's datagram finds the receive buffer full and is dropped.       *)
HelloLost(c) ==
  /\ main # "down" /\ st[c] = "away" /\ Mishap
  /\ st' = [st EXCEPT ![c] = "waiting"]
  /\ UNCHANGED <<main, server, pc, queue, inbox, box, peer, failed, open>>

ReplyLost(c) ==
  /\ st[c] = "greeted" /\ Mishap
  /\ st' = [st EXCEPT ![c] = "replied"]
  /\ UNCHANGED <<main, server, pc, queue, inbox, box, peer, failed, open>>

Stray(w) ==
  /\ Mishap /\ pc[w] \notin {"none", "start", "dead"}
  /\ box' = [box EXCEPT ![w] = Append(@, Stranger)]
  /\ UNCHANGED <<main, server, pc, queue, inbox, st, peer, failed, open>>

(* A thread of the TCP side calls exit() (TcpPool's ThreadExit): the       *)
(* handler closes this side's listening socket too, with what waits there, *)
(* and dies before it comes to this side's threads.                        *)
Shut ==
  /\ main # "down" /\ open /\ Mishap
  /\ open' = FALSE /\ inbox' = {}
  /\ UNCHANGED <<main, server, pc, queue, box, st, peer, failed>>

(* The process ends, as it does when main reads a closed socket: its       *)
(* threads and sockets go, the named objects stay.  Clients that wait for  *)
(* a greeting go on waiting; the others wait for a thread that is gone.    *)
Exit ==
  /\ main # "down" /\ (IF open THEN Mishap ELSE UNCHANGED mishaps)
  /\ open' = TRUE
  /\ main' = "down" /\ mendp' = None
  /\ pc' = [w \in Threads |-> "none"]
  /\ endp' = [w \in Threads |-> None]
  /\ inbox' = {} /\ box' = [w \in Threads |-> <<>>]
  /\ st' = [c \in Clients |-> IF st[c] \in {"greeted", "replied"} THEN "stranded" ELSE st[c]]
  /\ UNCHANGED <<threads_count, free, busy, served, queue, peer, failed>>

Restart(S) ==
  /\ main = "down"
  /\ CreateThreads(S)
  /\ threads_count' = DefAlloc
  /\ free' = 0 /\ busy' = 0 /\ served' = 0
  /\ main' = "poll"
  /\ UNCHANGED <<mendp, endp, queue, net, mishaps, open>>

-----------------------------------------------------------------------------
Main ==
  \/ Poll \/ CheckFree \/ CheckBusy \/ Send
  \/ \E c \in Clients : Receive(c)
  \/ \E S \in SUBSET Threads : Grow(S)

Thread(w) ==
  \/ Ready(w) \/ Take(w) \/ Greet(w) \/ LeaveFree(w) \/ JoinBusy(w) \/ Recv(w)
  \/ Answer(w) \/ LeaveBusy(w) \/ JoinFree(w) \/ Count(w)

PollNothing == main = "poll" /\ inbox = {} /\ UNCHANGED vars

Next ==
  \/ Main \/ PollNothing \/ Shut \/ Exit
  \/ \E S \in SUBSET Threads : Restart(S)
  \/ \E w \in Threads :
       Thread(w) \/ GreetFails(w) \/ RecvFails(w) \/ AnswerFails(w) \/ Stray(w)
  \/ \E c \in Clients : Hello(c) \/ Reply(c) \/ HelloLost(c) \/ ReplyLost(c)

Spec == Init /\ [][Next]_vars

(* The scheduler runs the server's threads, and udp_client() goes on to    *)
(* sendto as soon as it has been greeted.                                  *)
FairSpec ==
  /\ Spec /\ WF_vars(Main)
  /\ \A w \in Threads : WF_vars(Thread(w))
  /\ \A c \in Clients : WF_vars(Reply(c))

-----------------------------------------------------------------------------
(* Properties.                                                             *)

(* Every variable keeps its type; the queue keeps to SERVER_Q_MAXMSG.      *)
TypeOK ==
  /\ main \in {"poll", "down", "udp_recv", "udp_free", "udp_busy", "udp_grow", "udp_send", Return}
  /\ mendp \in Clients \cup {None}
  /\ threads_count \in Nat
  /\ pc \in [Threads -> PCs]
  /\ endp \in [Threads -> Clients \cup {None}]
  /\ queue \in Seq(Clients) /\ Len(queue) <= QMax
  /\ free \in Nat /\ busy \in Nat /\ served \in Nat
  /\ inbox \subseteq Clients
  /\ box \in [Threads -> Seq(Clients \cup {Stranger})]
  /\ st \in [Clients -> {"away", "waiting", "greeted", "replied", "answered", "rejected", "stranded"}]
  /\ peer \in [Clients -> Threads \cup {None}]
  /\ mishaps \in 0..MaxMishaps /\ failed \in 0..MaxCreateFails /\ open \in BOOLEAN

(* The semaphores count the threads between a post and the next wait, and  *)
(* the threads that returned when their first sendto failed, which nobody  *)
(* takes off the free ones.                                                *)
SemaphoreAccounting ==
  main # "down" => /\ free = Cardinality(At(FreeAt \cup {"dead"}))
                   /\ busy = Cardinality(At(BusyAt))

(* An endpoint is at the listening socket, with main, in the queue or with *)
(* one thread, and a client that has been answered is with none that still *)
(* has something to do for it: nobody is greeted or answered twice.        *)
OneHolder ==
  /\ \A i, j \in DOMAIN queue : queue[i] = queue[j] => i = j
  /\ \A w, v \in At(HoldAt) : endp[w] = endp[v] => w = v
  /\ \A w \in At(HoldAt), i \in DOMAIN queue : endp[w] # queue[i]
  /\ \A c \in inbox \cup {mendp} :
       /\ \A w \in At(HoldAt) : endp[w] # c
       /\ \A i \in DOMAIN queue : queue[i] # c
  /\ mendp \notin inbox

(* The check of the sender's endpoint has nothing to reject as long as no  *)
(* datagram comes from elsewhere: what waits at a thread's socket is the   *)
(* reply of the client the thread is with, though the socket is used for   *)
(* client after client.  A client's own check never fails at all.          *)
SessionsSeparate ==
  /\ mishaps = 0 => \A w \in Threads :
       box[w] # <<>> => box[w] = <<endp[w]>> /\ pc[w] \in {"taken", "tobusy", "recv"}
  /\ \A c \in Clients : st[c] # "rejected"

(* Main creates threads only when each one it has is with a client.        *)
GrowOnlyWhenAllBusy ==
  [][ main = "udp_busy" /\ main' = "udp_grow" => At(PCs \ {"none"}) \subseteq At(BusyAt) ]_vars

(* A client that says hello gets its answer unless something goes wrong.   *)
HelloAnswered ==
  \A c \in Clients : st[c] = "waiting" ~> st[c] = "answered" \/ mishaps + failed > 0

(* The pool does what ClientService promises, over anything that may go    *)
(* wrong: each client is taken by a thread once, whoever is not answered   *)
(* stays lost, and udp_served_clients never runs ahead of the clients the  *)
(* server is done with.  If nothing goes wrong, no client is lost.         *)
Held(c) == \E w \in At(HoldAt) : endp[w] = c
Queued(c) == \E i \in DOMAIN queue : queue[i] = c
Waits(c) == c \in inbox \/ c = mendp \/ Queued(c)
Status == [c \in Clients |->
  CASE st[c] = "away" -> "away"
    [] st[c] = "answered" -> "served"
    [] st[c] \notin {"away", "answered"} ->
         IF Held(c) THEN "serving"
         ELSE IF Waits(c) THEN "waiting" ELSE "lost"]
Door == IF main = "down" THEN "gone" ELSE IF open THEN "open" ELSE "closed"
Service == INSTANCE ClientService WITH
             Lossy <- MaxMishaps > 0, status <- Status, tally <- served, door <- Door
ImplementsService == Service!Spec

=============================================================================
