--------------------------- MODULE ProducerServer ---------------------------
(***************************************************************************)
(* producer_server() of homework16.  Main accepts a client and gives it to *)
(* a listener thread, which keeps every client it was ever given in an     *)
(* array that it polls, and puts those that have something to read into a  *)
(* queue of clients.  Processing threads take a client from there, answer  *)
(* it once and put it into a queue of acknowledgements for the listener.   *)
(*                                                                         *)
(* The server has this machinery twice, for TCP and for UDP; the two       *)
(* copies share only main, which serves them in turn (MultiprotoServer).   *)
(* A behaviour of this module is one process and one of the two copies;    *)
(* proto says which.  No descriptor of a client is ever closed, so its     *)
(* number is named by the client.  The queues outlive a process, with what *)
(* is in them: a number found there is that of a client to come, or Stray. *)
(* Excluded: a number or port left by an earlier process that this process *)
(* gives to a client of the other copy or to a socket or queue of its own, *)
(* and the loss of datagrams.                                              *)
(***************************************************************************)
EXTENDS Integers, Sequences, FiniteSets

CONSTANTS
  Clients,         \* clients that come, one connection or endpoint each
  Threads,         \* identities of processing threads
  None,            \* no client
  Stray,           \* a number that no client gets
  DefAlloc,        \* SERVER_DEF_ALLOC: threads created at start and per growth
  QMax,            \* SERVER_Q_MAXMSG: capacity of each queue
  MaxMishaps       \* bound: messages left by an earlier process, clients that end,
                   \* and calls of pthread_create that fail, in all

ASSUME ConstantsAssumption ==
  /\ IsFiniteSet(Clients) /\ IsFiniteSet(Threads)
  /\ None \notin Clients \cup {Stray} /\ Stray \notin Clients
  /\ DefAlloc \in 1..Cardinality(Threads) /\ QMax \in Nat \ {0}
  /\ MaxMishaps \in Nat

VARIABLES
  proto,           \* which of the two copies this is: "tcp" or "udp"
  left,            \* what an earlier process left in the queues
  created,         \* the queues of clients and acknowledgements exist
  failed,          \* calls of pthread_create that left no processing thread
  cancelled,       \* threads a thread's exit() has cancelled
  main,            \* program counter of the main thread
  hand,            \* main's client_fd or client_endp
  threads_count,   \* tcp_threads_count, udp_threads_count
  free, busy,      \* free_*_threads_sem, busy_*_threads_sem
  served,          \* served_*_clients
  listener,        \* program counter of the listener: start, poll, round, gone
  pfds,            \* the numbers it watches, from entry 2 of its array on
  reported,        \* entries whose revents it has still to look at in this round
  pc,              \* program counter of each processing thread
  wfd,             \* its fd
  fds_q,           \* tcp_fds_q, udp_endpoints_q
  clients_q,       \* *_clients_q
  ack_q,           \* *_ack_clients_q
  pending,         \* clients waiting at the listening socket
  conn,            \* the peer: away, open, ended, aborted, reset, refused
  phase,           \* where each client is in its code
  unread           \* clients whose message waits at the server

sems == <<threads_count, free, busy, served>>
listening == <<listener, pfds, reported>>
working == <<pc, wfd>>
queues == <<fds_q, clients_q, ack_q>>
peers == <<conn, phase, unread>>
setup == <<proto, left, created, failed, cancelled>>
vars == <<setup, main, hand, sems, listening, working, queues, pending, peers>>

(***************************************************************************)
(* A thread's program counter names the call it makes next:                *)
(*   none    not created            send    send(fd)                       *)
(*   start   mq_open, sem_post(free) ack    mq_send to the listener        *)
(*   idle    mq_receive             unbusy  sem_wait(busy)                 *)
(*   taken   sem_wait(free)         refree  sem_post(free)                 *)
(*   tobusy  sem_post(busy)         recv    recv(fd)                       *)
(***************************************************************************)
FreeAt == {"idle", "taken"}                       \* counted as free
BusyAt == {"recv", "send", "ack", "unbusy"}       \* counted as busy
PCs == FreeAt \cup BusyAt \cup {"none", "start", "tobusy", "refree"}

At(P) == {w \in Threads : pc[w] \in P}
Goto(w, from, to) == pc[w] = from /\ pc' = [pc EXCEPT ![w] = to]
Created == At(PCs \ {"none"})
Up == main # "down"
Door == cancelled = {}                            \* the listening sockets are open

(* Entries of the listener's array.                                        *)
InQ == 0
AckQ == 1
Entry(i) == i + 1

Occurrences(c, s) == Cardinality({i \in DOMAIN s : s[i] = c})
When(e, C) == IF C THEN {e} ELSE {}
Gone == {c \in Clients : conn[c] \notin {"away", "open"}}
Numbers == Clients \cup {Stray}
Leftovers(X) == UNION {[1..n -> X] : n \in 0..QMax}
Mishaps == Cardinality(Gone) + failed + Len(left.fds) + Len(left.others)

-----------------------------------------------------------------------------
(* The semaphores are 0 whatever an earlier process left in them.  Its     *)
(* queues may exist and are not emptied.  An endpoint in them is that of a *)
(* client that still waits for an answer to its first datagram.  Which     *)
(* numbers are left in the queue of acknowledgements makes no difference.  *)
(* Main has created the first threads and the listener, or has not         *)
(* noticed that it could not.                                              *)
Init ==
  /\ proto \in {"tcp", "udp"} /\ created \in BOOLEAN
  /\ fds_q \in Leftovers(IF proto = "tcp" THEN Numbers ELSE Clients)
  /\ clients_q \in Leftovers(Numbers) /\ ack_q \in Leftovers({Stray})
  /\ ~created => clients_q = <<>> /\ ack_q = <<>>
  /\ proto = "udp" => \A c \in Clients : Occurrences(c, fds_q) <= 1
  /\ left = [fds |-> fds_q, others |-> clients_q \o ack_q]
  /\ main = "poll" /\ hand = None
  /\ threads_count = DefAlloc /\ free = 0 /\ busy = 0 /\ served = 0
  /\ listener \in {"start", "gone"} /\ pfds = <<>> /\ reported = {}
  /\ \E S \in SUBSET Threads :
       /\ Cardinality(S) <= DefAlloc
       /\ failed = DefAlloc - Cardinality(S)
       /\ pc = [w \in Threads |-> IF w \in S THEN "start" ELSE "none"]
  /\ wfd = [w \in Threads |-> None] /\ cancelled = {}
  /\ LET earlier(c) == proto = "udp" /\ Occurrences(c, left.fds) > 0 IN
       /\ conn = [c \in Clients |-> IF earlier(c) THEN "open" ELSE "away"]
       /\ phase = [c \in Clients |-> IF earlier(c) THEN "hello" ELSE "away"]
  /\ pending = {} /\ unread = {} /\ Mishaps <= MaxMishaps

-----------------------------------------------------------------------------
(* Clients (multiproto_client, in the mode it is built in).                *)

(* connect(), or the empty datagram that asks for an endpoint to talk to.  *)
Connect(c) ==
  /\ Up /\ Door /\ conn[c] = "away"
  /\ conn' = [conn EXCEPT ![c] = "open"]
  /\ phase' = [phase EXCEPT ![c] = IF proto = "tcp" THEN "silent" ELSE "hello"]
  /\ pending' = pending \cup {c}
  /\ UNCHANGED <<setup, main, hand, sems, listening, working, queues, unread>>

Speak(c) ==
  /\ Up /\ conn[c] = "open" /\ phase[c] \in {"silent", "early"}
  /\ phase' = [phase EXCEPT ![c] = "waiting"]
  /\ unread' = unread \cup {c}
  /\ UNCHANGED <<setup, main, hand, sems, listening, working, queues, pending, conn>>

(* The client's process ends, after the client has read what was sent to   *)
(* it or not: closing a TCP socket that holds data resets the connection.  *)
HangUp(c) ==
  /\ Up /\ conn[c] = "open"
  /\ Mishaps < MaxMishaps
  /\ \E how \in {"ended"} \cup When("aborted", proto = "tcp" /\ phase[c] \in {"answered", "early"}) :
       conn' = [conn EXCEPT ![c] = how]
  /\ UNCHANGED <<setup, main, hand, sems, listening, working, queues, pending, phase, unread>>

-----------------------------------------------------------------------------
(* The main thread.                                                        *)

Poll ==
  /\ main = "poll" /\ pending # {} /\ Door
  /\ main' = "take"
  /\ UNCHANGED <<setup, hand, sems, listening, working, queues, pending, peers>>

(* accept(), or recvfrom() for the endpoint.                               *)
Accept(c) ==
  /\ main = "take" /\ c \in pending /\ Door
  /\ pending' = pending \ {c} /\ hand' = c
  /\ main' = "free"
  /\ UNCHANGED <<setup, sems, listening, working, queues, peers>>

CheckFree ==
  /\ main = "free"
  /\ main' = IF free = 0 THEN "busy" ELSE "send"
  /\ UNCHANGED <<setup, hand, sems, listening, working, queues, pending, peers>>

CheckBusy ==
  /\ main = "busy"
  /\ main' = IF busy = threads_count THEN "grow" ELSE "free"
  /\ UNCHANGED <<setup, hand, sems, listening, working, queues, pending, peers>>

(* The results of pthread_create are not looked at.                        *)
Grow(S) ==
  /\ main = "grow"
  /\ S \subseteq At({"none"}) /\ Cardinality(S) <= DefAlloc
  /\ LET lost == DefAlloc - Cardinality(S) IN
       failed' = failed + lost /\ (lost = 0 \/ Mishaps + lost <= MaxMishaps)
  /\ pc' = [w \in Threads |-> IF w \in S THEN "start" ELSE pc[w]]
  /\ threads_count' = threads_count + DefAlloc
  /\ main' = "send"
  /\ UNCHANGED <<proto, left, created, cancelled, hand, free, busy, served, listening, wfd,
                 queues, pending, peers>>

(* A full queue is not waited for.                                         *)
GiveDropping ==
  /\ main = "send"
  /\ fds_q' = IF Len(fds_q) < QMax THEN Append(fds_q, hand) ELSE fds_q
  /\ hand' = None /\ main' = "poll"
  /\ UNCHANGED <<setup, sems, listening, working, clients_q, ack_q, pending, peers>>

(* mq_send to the listener blocks while its queue is full.                 *)
GiveToListener ==
  /\ main = "send" /\ Len(fds_q) < QMax
  /\ fds_q' = Append(fds_q, hand)
  /\ hand' = None /\ main' = "poll"
  /\ UNCHANGED <<setup, sems, listening, working, clients_q, ack_q, pending, peers>>

(* The process ends: its threads and its memory go, the named objects stay.*)
End ==
  /\ Up /\ main' = "down"
  /\ hand' = None
  /\ listener' = "gone" /\ pfds' = <<>> /\ reported' = {}
  /\ pc' = [w \in Threads |-> "none"] /\ cancelled' = {}
  /\ wfd' = [w \in Threads |-> None]
  /\ UNCHANGED <<proto, left, created, failed, sems, queues, pending, peers>>

(* SIGINT; and where a thread has called exit() before: accept() failing   *)
(* in main on the socket that was closed, a second thread's exit(), which  *)
(* finds no handler left to run, or the use of what the handler has freed. *)
Interrupt == End

-----------------------------------------------------------------------------
(* The listener thread.                                                    *)

Stay(r) == reported' = r /\ listener' = IF r = {} THEN "poll" ELSE "round"

(* n is an open descriptor of this process: main accepted the connection,  *)
(* or the listener has made the socket for the endpoint.                   *)
Open(n) ==
  /\ n \in Clients /\ conn[n] # "away" /\ n \notin pending
  /\ proto = "udp" => n # hand /\ \A i \in DOMAIN fds_q : fds_q[i] # n

(* The end of a TCP connection can be read for ever; of a UDP client only  *)
(* a datagram can.                                                         *)
Readable(n) ==
  Open(n) /\ (n \in unread \/ (proto = "tcp" /\ conn[n] \in {"ended", "aborted", "reset"}))

Listen ==
  /\ Up /\ listener = "start"
  /\ listener' = "poll"
  /\ created' = TRUE
  /\ UNCHANGED <<proto, left, failed, cancelled, main, hand, sems, pfds, reported, working, queues, pending, peers>>

Ready == {Entry(i) : i \in {j \in DOMAIN pfds : Readable(pfds[j])}}

(* poll() with the size of the array before its last growth.               *)
ListenerPollOldSize ==
  /\ Up /\ listener = "poll"
  /\ reported' = When(InQ, fds_q # <<>>) \cup When(AckQ, ack_q # <<>>)
       \cup (Ready \ {Entry(Len(pfds))})
  /\ reported' # {} /\ listener' = "round"
  /\ UNCHANGED <<setup, main, hand, sems, pfds, working, queues, pending, peers>>

(* For a number that is not open poll() reports POLLNVAL, which is not     *)
(* looked at.                                                              *)
ListenerPoll ==
  /\ Up /\ listener = "poll"
  /\ reported' = When(InQ, fds_q # <<>>) \cup When(AckQ, ack_q # <<>>)
       \cup Ready
  /\ reported' # {} /\ listener' = "round"
  /\ UNCHANGED <<setup, main, hand, sems, pfds, working, queues, pending, peers>>

(* The revents of a new element are what the heap held: the loop over the  *)
(* clients, later in the same round, may find POLLIN in it.                *)
Adopt(garbage) ==
  /\ Up /\ InQ \in reported
  /\ pfds' = Append(pfds, Head(fds_q)) /\ fds_q' = Tail(fds_q)
  /\ served' = served + 1
  /\ Stay((reported \ {InQ}) \cup When(Entry(Len(pfds) + 1), garbage))

AdoptFd(garbage) ==
  /\ proto = "tcp" /\ Adopt(garbage)
  /\ UNCHANGED <<setup, main, hand, threads_count, free, busy, working, clients_q, ack_q,
                 pending, peers>>

(* For an endpoint the listener makes a socket and greets the client from  *)
(* it.  The greeting arrives; a client that has gone answers with an ICMP  *)
(* error.                                                                  *)
AdoptEndpoint(garbage) ==
  /\ proto = "udp" /\ Adopt(garbage)
  /\ LET c == Head(fds_q) IN
       /\ conn' = [conn EXCEPT ![c] = IF @ = "ended" THEN "refused" ELSE @]
       /\ phase' = [phase EXCEPT ![c] = IF conn[c] = "open" THEN "silent" ELSE @]
  /\ UNCHANGED <<setup, main, hand, threads_count, free, busy, working, clients_q, ack_q,
                 pending, unread>>

(* The greeting cannot be sent: the listener returns, with its client.     *)
GreetingFails ==
  /\ Up /\ proto = "udp" /\ InQ \in reported
  /\ fds_q' = Tail(fds_q) /\ served' = served + 1
  /\ listener' = "gone" /\ reported' = {}
  /\ UNCHANGED <<setup, main, hand, threads_count, free, busy, pfds, working, clients_q, ack_q,
                 pending, peers>>

(* The listener clears the event and leaves the message where it is.       *)
AcknowledgeUnread ==
  /\ Up /\ InQ \notin reported /\ AckQ \in reported
  /\ Stay(reported \ {AckQ})
  /\ UNCHANGED <<setup, main, hand, sems, pfds, working, queues, pending, peers>>

(* One acknowledgement a round.  It asks for POLLIN on the client's entry, *)
(* where it has never been taken away.                                     *)
Acknowledge ==
  /\ Up /\ InQ \notin reported /\ AckQ \in reported
  /\ ack_q' = Tail(ack_q)
  /\ Stay(reported \ {AckQ})
  /\ UNCHANGED <<setup, main, hand, sems, pfds, working, fds_q, clients_q, pending, peers>>

(* The entries in their order; mq_send blocks while the queue is full.     *)
Pass(i) ==
  /\ Up /\ listener = "round" /\ reported \cap {InQ, AckQ} = {}
  /\ Entry(i) \in reported /\ \A j \in 1..(i - 1) : Entry(j) \notin reported
  /\ Len(clients_q) < QMax
  /\ clients_q' = Append(clients_q, pfds[i])
  /\ Stay(reported \ {Entry(i)})
  /\ UNCHANGED <<setup, main, hand, sems, pfds, working, fds_q, ack_q, pending, peers>>

-----------------------------------------------------------------------------
(* A processing thread.                                                    *)

Start(w) ==
  /\ Up /\ created /\ Goto(w, "start", "idle")
  /\ free' = free + 1
  /\ UNCHANGED <<setup, main, hand, threads_count, busy, served, listening, wfd, queues,
                 pending, peers>>

(* The loop around the mq_open of a TCP thread exits at the first failure; *)
(* a UDP thread goes round.  Cancellation is deferred here: the handler    *)
(* cancels every thread and the listeners and frees what they used, before *)
(* the thread, cancelled too, ends at the next printf.  Main is left.      *)
StartFails(w) ==
  /\ Up /\ proto = "tcp" /\ pc[w] = "start" /\ ~created /\ Door
  /\ cancelled' = Created
  /\ listener' = "gone" /\ pfds' = <<>> /\ reported' = {}
  /\ UNCHANGED <<proto, left, created, failed, main, hand, sems, working, queues, pending, peers>>

Take(w) ==
  /\ Up /\ Goto(w, "idle", "taken") /\ clients_q # <<>>
  /\ wfd' = [wfd EXCEPT ![w] = Head(clients_q)]
  /\ clients_q' = Tail(clients_q)
  /\ UNCHANGED <<setup, main, hand, sems, listening, fds_q, ack_q, pending, peers>>

LeaveFree(w) ==
  /\ Up /\ Goto(w, "taken", "tobusy") /\ free > 0
  /\ free' = free - 1
  /\ UNCHANGED <<setup, main, hand, threads_count, busy, served, listening, wfd, queues,
                 pending, peers>>

JoinBusy(w) ==
  /\ Up /\ Goto(w, "tobusy", "recv")
  /\ busy' = busy + 1
  /\ UNCHANGED <<setup, main, hand, threads_count, free, served, listening, wfd, queues,
                 pending, peers>>

(* recv blocks while there is neither data, nor an end, nor an error to    *)
(* report.  After all but ECONNRESET the thread goes on.                   *)
Recv(w) ==
  LET c == wfd[w] IN
  /\ Up /\ Goto(w, "recv", "send") /\ Open(c)
  /\ Readable(c) \/ conn[c] = "refused"
  /\ conn[c] # "aborted"
  /\ unread' = unread \ {c}
  /\ conn' = [conn EXCEPT ![c] = IF @ = "refused" THEN "ended" ELSE @]
  /\ UNCHANGED <<setup, main, hand, sems, listening, wfd, queues, pending, phase>>

(* A TCP client that has gone resets the connection, a UDP client's host   *)
(* reports the error to the next call.  After a recv that failed, what is  *)
(* sent to a client that has said nothing is what the buffer held.         *)
Send(w) ==
  LET c == wfd[w] IN
  /\ Up /\ Goto(w, "send", "ack") /\ Open(c)
  /\ conn[c] \notin {"aborted", "reset"}
  /\ conn' = [conn EXCEPT ![c] =
       CASE @ = "open" -> "open"
         [] @ = "ended" -> IF proto = "tcp" THEN "reset" ELSE "refused"
         [] @ = "refused" -> "ended"]
  /\ phase' = [phase EXCEPT ![c] =
       CASE conn[c] = "open" /\ @ = "waiting" -> "answered"
         [] conn[c] = "open" /\ @ = "silent" -> "early"
         [] OTHER -> @]
  /\ UNCHANGED <<setup, main, hand, sems, listening, wfd, queues, pending, unread>>

(* On a number that is not an open socket recv and send fail at once.      *)
BadNumber(w) ==
  /\ Up /\ ~Open(wfd[w])
  /\ Goto(w, "recv", "send") \/ Goto(w, "send", "ack")
  /\ UNCHANGED <<setup, main, hand, sems, listening, wfd, queues, pending, peers>>

(* A write to a connection that was reset: SIGPIPE.                        *)
Killed(w) ==
  /\ pc[w] = "send" /\ Open(wfd[w]) /\ conn[wfd[w]] = "reset"
  /\ End

(* ECONNRESET, and exit().  The handler closes the listening sockets and   *)
(* then cancels the threads in the order of the array; they are cancelled  *)
(* asynchronously, so that the call ends when it comes to w itself.        *)
(* Threads S have been cancelled by then; the listener and main live on.   *)
ThreadExit(w, S) ==
  /\ Up /\ pc[w] \in {"recv", "send"} /\ Door
  /\ Open(wfd[w]) /\ conn[wfd[w]] = "aborted"
  /\ w \in S /\ S \subseteq Created
  /\ cancelled' = S
  /\ conn' = [conn EXCEPT ![wfd[w]] = "reset"]
  /\ UNCHANGED <<proto, left, created, failed, main, hand, sems, listening, working, queues,
                 pending, phase, unread>>

(* mq_send blocks while the queue is full.                                 *)
SendAck(w) ==
  /\ Up /\ Goto(w, "ack", "unbusy") /\ Len(ack_q) < QMax
  /\ ack_q' = Append(ack_q, wfd[w])
  /\ wfd' = [wfd EXCEPT ![w] = None]
  /\ UNCHANGED <<setup, main, hand, sems, listening, fds_q, clients_q, pending, peers>>

LeaveBusy(w) ==
  /\ Up /\ Goto(w, "unbusy", "refree") /\ busy > 0
  /\ busy' = busy - 1
  /\ UNCHANGED <<setup, main, hand, threads_count, free, served, listening, wfd, queues,
                 pending, peers>>

(* The thread never counts as free again.                                  *)
JoinFreeForgotten(w) ==
  /\ Up /\ Goto(w, "refree", "idle")
  /\ UNCHANGED <<setup, main, hand, sems, listening, wfd, queues, pending, peers>>

JoinFree(w) ==
  /\ Up /\ Goto(w, "refree", "idle")
  /\ free' = free + 1
  /\ UNCHANGED <<setup, main, hand, threads_count, busy, served, listening, wfd, queues,
                 pending, peers>>

-----------------------------------------------------------------------------
Main ==
  \/ Poll \/ CheckFree \/ CheckBusy \/ GiveToListener
  \/ \E c \in Clients : Accept(c)
  \/ \E S \in SUBSET Threads : Grow(S)

Listener ==
  \/ Listen \/ ListenerPoll \/ Acknowledge \/ GreetingFails
  \/ \E g \in BOOLEAN : AdoptFd(g) \/ AdoptEndpoint(g)
  \/ \E i \in DOMAIN pfds : Pass(i)

Thread(w) ==
  /\ w \notin cancelled
  /\ \/ Start(w) \/ StartFails(w) \/ Take(w) \/ LeaveFree(w) \/ JoinBusy(w) \/ Recv(w)
     \/ Send(w) \/ BadNumber(w) \/ Killed(w) \/ SendAck(w) \/ LeaveBusy(w) \/ JoinFree(w)
     \/ \E S \in SUBSET Threads : ThreadExit(w, S)

Client(c) == Connect(c) \/ Speak(c) \/ HangUp(c)

Next ==
  \/ Main \/ Listener \/ Interrupt
  \/ \E w \in Threads : Thread(w)
  \/ \E c \in Clients : Client(c)

(* The scheduler runs main, the listener and every thread; a client that   *)
(* has come and stays says its message.                                    *)
Fairness ==
  /\ WF_vars(Main) /\ WF_vars(Listener)
  /\ \A w \in Threads : WF_vars(Thread(w))
  /\ \A c \in Clients : WF_vars(Speak(c))

Spec == Init /\ [][Next]_vars
FairSpec == Spec /\ Fairness

-----------------------------------------------------------------------------
(* Properties.                                                             *)

(* While the process runs, the two semaphores main decides from say how    *)
(* many threads stand between a post and the next wait on them, through    *)
(* growth and whatever threads are blocked in.                             *)
SemaphoreAccounting ==
  Up => free = Cardinality(At(FreeAt)) /\ busy = Cardinality(At(BusyAt))

(* A client that came is in one place only - the listening socket, main's  *)
(* hand, main's queue or the listener's array - until the listener dies,   *)
(* and served_*_clients counts what the listener was given.  Only what an  *)
(* earlier process left in main's queue adds to that: a number that is     *)
(* now a new client's gives the client a second place.                     *)
CameHere(c) == conn[c] # "away" /\ (proto = "udp" => Occurrences(c, left.fds) = 0)
NoClientLost ==
  listener # "gone" =>
    /\ \A c \in Clients :
         Cardinality({c} \cap pending) + Cardinality({c} \cap {hand})
           + Occurrences(c, fds_q) + Occurrences(c, pfds)
         = Occurrences(c, left.fds) + IF CameHere(c) THEN 1 ELSE 0
    /\ served = Len(pfds)

(* Main goes round its two reads while no thread is free and not all are   *)
(* busy, and not for nothing: some thread is between two semaphores or has *)
(* still to report that it exists, unless a pthread_create has failed (the *)
(* thread it counts never comes) or an exit() has cancelled threads.       *)
MovingAt == {"start", "tobusy", "refree"}
WaitHasMover ==
  main = "busy" /\ Door /\ free = 0 /\ busy + failed < threads_count => At(MovingAt) # {}

(* The listener waits for room in the queue of clients, every thread for   *)
(* room in the queue of acknowledgements, which the listener alone empties.*)
Cycle ==
  /\ listener = "round" /\ reported # {} /\ reported \cap {InQ, AckQ} = {}
  /\ Len(clients_q) = QMax /\ Len(ack_q) = QMax
  /\ Created # {} /\ Created = At({"ack"})

(* One entry of the listener's array cannot bring that about, however      *)
(* often it is queued for one message and whatever an earlier process left *)
(* in the queues: the listener takes an acknowledgement in every round.    *)
CycleNeedsTwo == Up /\ Cycle => Len(pfds) > 1

Alone(c) == \A d \in Clients \ {c} : conn[d] = "away"

(* A client that comes alone, stays and speaks is answered when every      *)
(* thread was created: neither the copies of it that the listener queues   *)
(* for one message nor what an earlier process left in the queues stops    *)
(* what its answer needs.  Datagrams are not lost.                         *)
FirstIsAnswered ==
  \A c \in Clients :
    [](Alone(c) /\ Up /\ listener # "gone" /\ failed = 0)
      => (conn[c] = "open" ~> phase[c] = "answered" \/ conn[c] # "open")

=============================================================================
