--------------------------- MODULE ClassicServer ---------------------------
(***************************************************************************)
(* classic_server() (homework16).  Main writes the descriptor of each      *)
(* accepted client into the first free entry of the array clients_q and    *)
(* posts clients_counter; a thread that gets past the semaphore looks for  *)
(* an entry that holds a descriptor and whose mutex it can take.           *)
(*                                                                         *)
(* clients_counter and served_clients are opened under one name            *)
(* (SERVER_SERVED_TCP_CLIENTS_SEM_NAME), so they are one semaphore: sem.   *)
(*                                                                         *)
(* A thread that has found nothing clears and unlocks the entry after the  *)
(* last.  That lies outside the array: the write is not seen there, but    *)
(* the heap may have been damaged, and the process end in realloc, which   *)
(* is one of the ways to Exit.  Growth of the array is one step here: the  *)
(* moments in which threads see alloc_clients, the moved array and its new *)
(* entries one after another are left out.                                 *)
(***************************************************************************)
EXTENDS Integers, FiniteSets

CONSTANTS
  Clients,         \* connections, each with a descriptor of its own
  Threads,         \* identities of threads the process can create
  None,            \* client_fd = NULL
  Garbage,         \* what an entry never initialised holds, if not NULL
  DefAlloc,        \* SERVER_DEF_ALLOC: entries at start, entries and threads per growth
  InitThreads,     \* alloc_threads at start (SERVER_DEF_ALLOC * 10)
  MaxSlots         \* bound: entries the array may grow to

ASSUME ConstantsAssumption ==
  /\ IsFiniteSet(Clients) /\ IsFiniteSet(Threads)
  /\ {None, Garbage} \cap Clients = {} /\ None # Garbage
  /\ DefAlloc \in Nat \ {0} /\ InitThreads \in Nat \ {0}
  /\ InitThreads <= Cardinality(Threads)
  /\ MaxSlots \in Nat /\ DefAlloc <= MaxSlots

VARIABLES
  main,            \* program counter of main
  mfd,             \* main's client_fd
  mindex,          \* main's index
  alloc_clients,   \* entries of clients_q
  alloc_threads,   \* elements of tid
  fd,              \* client_fd of each entry
  locked,          \* entries whose client_mutex is held
  sem,             \* clients_counter and served_clients
  busy,            \* busy_threads
  pc,              \* program counter of each thread
  index,           \* each thread's index
  cfd,             \* each thread's client_fd
  conn,            \* where each connection stands
  spoke            \* connections with something to read

own == <<mfd, mindex>>
slots == <<alloc_clients, fd, locked>>
thr == <<pc, index, cfd>>
vars == <<main, own, alloc_threads, slots, sem, busy, thr, conn, spoke>>

Entries == 0 .. alloc_clients - 1

(***************************************************************************)
(* A thread's program counter names what it does next:                     *)
(*   none   not created               serve  send, recv                    *)
(*   wait   sem_wait(clients_counter) tally  sem_post(served_clients)      *)
(*   mark   sem_post(busy_threads)    close  close(client_fd)              *)
(*   scan   look at entry index       clear  client_fd of the entry = NULL *)
(*   try    trylock of entry index    unlock unlock of the entry's mutex   *)
(*   read   client_fd of the entry    unbusy sem_trywait(busy_threads)     *)
(***************************************************************************)
HoldAt == {"serve", "tally", "close"}
BusyAt == {"scan", "try", "read", "clear", "unlock", "unbusy"} \cup HoldAt
PCs == BusyAt \cup {"none", "wait", "mark"}

At(P) == {w \in Threads : pc[w] \in P}
Goto(w, from, to) == main # "down" /\ pc[w] = from /\ pc' = [pc EXCEPT ![w] = to]

-----------------------------------------------------------------------------
Init ==
  /\ main = "accept" /\ mfd = None /\ mindex = 0
  /\ alloc_clients = DefAlloc /\ alloc_threads = InitThreads
  /\ fd = [i \in 0 .. MaxSlots - 1 |-> None] /\ locked = {}
  /\ sem = 0 /\ busy = 0
  /\ \E S \in SUBSET Threads :
       /\ Cardinality(S) <= InitThreads
       /\ pc = [w \in Threads |-> IF w \in S THEN "wait" ELSE "none"]
  /\ index = [w \in Threads |-> 0] /\ cfd = [w \in Threads |-> None]
  /\ conn = [c \in Clients |-> "away"] /\ spoke = {}

Connect(c) ==
  /\ main # "down" /\ conn[c] = "away"
  /\ conn' = [conn EXCEPT ![c] = "backlog"]
  /\ UNCHANGED <<main, own, alloc_threads, slots, sem, busy, thr, spoke>>

(* The client sends, or hangs up.                                          *)
Speak(c) ==
  /\ conn[c] \in {"backlog", "open"} /\ c \notin spoke
  /\ spoke' = spoke \cup {c}
  /\ UNCHANGED <<main, own, alloc_threads, slots, sem, busy, thr, conn>>

-----------------------------------------------------------------------------
(* Main.                                                                   *)

Accept(c) ==
  /\ main = "accept" /\ conn[c] = "backlog"
  /\ conn' = [conn EXCEPT ![c] = "open"]
  /\ mfd' = c /\ mindex' = 0 /\ main' = "store"
  /\ UNCHANGED <<alloc_threads, slots, sem, busy, thr, spoke>>

IsFree(i) == fd[i] = None

(* Main looks at the entries one by one, while threads clear them.         *)
Pass ==
  /\ main = "store" /\ mindex \in Entries /\ ~ IsFree(mindex)
  /\ mindex' = mindex + 1
  /\ UNCHANGED <<main, mfd, alloc_threads, slots, sem, busy, thr, conn, spoke>>

(* The descriptor goes over the entry, free or not.                        *)
StoreAnywhere ==
  /\ main = "store" /\ mindex \in Entries
  /\ fd' = [fd EXCEPT ![mindex] = mfd]
  /\ main' = "threads"
  /\ UNCHANGED <<own, alloc_clients, alloc_threads, locked, sem, busy, thr, conn, spoke>>

(* The client goes into the first entry that main finds free.              *)
Store ==
  /\ main = "store" /\ mindex \in Entries /\ IsFree(mindex)
  /\ fd' = [fd EXCEPT ![mindex] = mfd]
  /\ main' = "threads"
  /\ UNCHANGED <<own, alloc_clients, alloc_threads, locked, sem, busy, thr, conn, spoke>>

(* Main has passed every entry, though one may be free by now.  The array  *)
(* grows, and the entries initialised are 1 to DefAlloc, not the new ones; *)
(* the client is stored nowhere.                                           *)
GrowSlots ==
  /\ main = "store" /\ mindex \notin Entries
  /\ alloc_clients + DefAlloc <= MaxSlots
  /\ alloc_clients' = alloc_clients + DefAlloc
  /\ main' = "threads"
  /\ LET reset == 1 .. DefAlloc
         fresh == (alloc_clients .. alloc_clients + DefAlloc - 1) \ reset
     IN \E G, L \in SUBSET fresh :
          /\ fd' = [i \in DOMAIN fd |->
                     IF i \in G THEN Garbage ELSE IF i \in reset \cup fresh THEN None ELSE fd[i]]
          /\ locked' = (locked \ reset) \cup L
  /\ UNCHANGED <<own, alloc_threads, sem, busy, thr, conn, spoke>>

(* More than alloc_threads - DefAlloc threads busy: DefAlloc calls of      *)
(* pthread_create, of which some may fail unnoticed.                       *)
GrowThreads(S) ==
  /\ main = "threads"
  /\ IF busy > alloc_threads - DefAlloc
       THEN /\ S \subseteq At({"none"}) /\ Cardinality(S) <= DefAlloc
            /\ alloc_threads' = alloc_threads + DefAlloc
            /\ pc' = [w \in Threads |-> IF w \in S THEN "wait" ELSE pc[w]]
       ELSE S = {} /\ UNCHANGED <<alloc_threads, pc>>
  /\ main' = "post"
  /\ UNCHANGED <<own, slots, sem, busy, index, cfd, conn, spoke>>

Post ==
  /\ main = "post"
  /\ sem' = sem + 1 /\ mfd' = None /\ main' = "accept"
  /\ UNCHANGED <<mindex, alloc_threads, slots, busy, thr, conn, spoke>>

(* The process ends and takes its memory and its connections with it.      *)
Exit ==
  /\ main # "down" /\ main' = "down" /\ mfd' = None /\ mindex' = 0
  /\ alloc_clients' = DefAlloc /\ alloc_threads' = InitThreads
  /\ fd' = [i \in DOMAIN fd |-> None] /\ locked' = {}
  /\ pc' = [w \in Threads |-> "none"]
  /\ index' = [w \in Threads |-> 0] /\ cfd' = [w \in Threads |-> None]
  /\ conn' = [c \in Clients |-> IF conn[c] \in {"backlog", "open"} THEN "lost" ELSE conn[c]]
  /\ UNCHANGED <<sem, busy, spoke>>

(* The next process takes the semaphores as they are.                      *)
RestartAsIs(S) ==
  /\ main = "down" /\ main' = "accept"
  /\ Cardinality(S) <= InitThreads
  /\ pc' = [w \in Threads |-> IF w \in S THEN "wait" ELSE "none"]
  /\ UNCHANGED <<own, alloc_threads, slots, sem, busy, index, cfd, conn, spoke>>

(* The semaphores are named: the next process finds and resets them.       *)
Restart(S) ==
  /\ main = "down" /\ main' = "accept"
  /\ sem' = 0 /\ busy' = 0
  /\ Cardinality(S) <= InitThreads
  /\ pc' = [w \in Threads |-> IF w \in S THEN "wait" ELSE "none"]
  /\ UNCHANGED <<own, alloc_threads, slots, index, cfd, conn, spoke>>

-----------------------------------------------------------------------------
(* A thread.                                                               *)

Wake(w) ==
  /\ Goto(w, "wait", "mark") /\ sem > 0
  /\ sem' = sem - 1
  /\ UNCHANGED <<main, own, alloc_threads, slots, busy, index, cfd, conn, spoke>>

Mark(w) ==
  /\ Goto(w, "mark", "scan")
  /\ busy' = busy + 1
  /\ index' = [index EXCEPT ![w] = 0]
  /\ UNCHANGED <<main, own, alloc_threads, slots, sem, cfd, conn, spoke>>

(* The loop over the entries takes one too many.                           *)
LookTooFar(w) ==
  /\ main # "down" /\ pc[w] = "scan"
  /\ IF index[w] > alloc_clients
       THEN pc' = [pc EXCEPT ![w] = "clear"] /\ UNCHANGED index
       ELSE IF fd[index[w]] = None
       THEN index' = [index EXCEPT ![w] = @ + 1] /\ UNCHANGED pc
       ELSE pc' = [pc EXCEPT ![w] = "try"] /\ UNCHANGED index
  /\ UNCHANGED <<main, own, alloc_threads, slots, sem, busy, cfd, conn, spoke>>

Look(w) ==
  /\ main # "down" /\ pc[w] = "scan"
  /\ \/ /\ index[w] \notin Entries
        /\ pc' = [pc EXCEPT ![w] = "clear"] /\ UNCHANGED index
     \/ /\ index[w] \in Entries /\ fd[index[w]] = None
        /\ index' = [index EXCEPT ![w] = @ + 1] /\ UNCHANGED pc
     \/ /\ index[w] \in Entries /\ fd[index[w]] # None
        /\ pc' = [pc EXCEPT ![w] = "try"] /\ UNCHANGED index
  /\ UNCHANGED <<main, own, alloc_threads, slots, sem, busy, cfd, conn, spoke>>

Skip(w) ==
  /\ Goto(w, "try", "scan") /\ index[w] \in locked
  /\ index' = [index EXCEPT ![w] = @ + 1]
  /\ UNCHANGED <<main, own, alloc_threads, slots, sem, busy, cfd, conn, spoke>>

(* The result of the trylock is not looked at.                             *)
LockAnyway(w) ==
  /\ Goto(w, "try", "read")
  /\ locked' = locked \cup {index[w]}
  /\ UNCHANGED <<main, own, alloc_threads, alloc_clients, fd, sem, busy, index, cfd, conn, spoke>>

Lock(w) ==
  /\ Goto(w, "try", "read") /\ index[w] \notin locked
  /\ locked' = locked \cup {index[w]}
  /\ UNCHANGED <<main, own, alloc_threads, alloc_clients, fd, sem, busy, index, cfd, conn, spoke>>

(* The entry may have been cleared since line 88: then there is nothing to *)
(* serve.                                                                  *)
Read(w) ==
  /\ Goto(w, "read", IF fd[index[w]] = None THEN "clear" ELSE "serve")
  /\ cfd' = [cfd EXCEPT ![w] = fd[index[w]]]
  /\ UNCHANGED <<main, own, alloc_threads, slots, sem, busy, index, conn, spoke>>

(* send and recv: a client that has spoken is counted; send fails on what  *)
(* is no descriptor, recv on a connection that was reset.                  *)
Serve(w) ==
  /\ \/ Goto(w, "serve", "tally") /\ cfd[w] \in spoke
     \/ Goto(w, "serve", "close") /\ cfd[w] \in spoke \cup {Garbage}
  /\ UNCHANGED <<main, own, alloc_threads, slots, sem, busy, index, cfd, conn, spoke>>

Tally(w) ==
  /\ Goto(w, "tally", "close")
  /\ sem' = sem + 1
  /\ UNCHANGED <<main, own, alloc_threads, slots, busy, index, cfd, conn, spoke>>

Close(w) ==
  /\ Goto(w, "close", "clear")
  /\ conn' = [c \in Clients |-> IF c = cfd[w] THEN "closed" ELSE conn[c]]
  /\ cfd' = [cfd EXCEPT ![w] = None]
  /\ UNCHANGED <<main, own, alloc_threads, slots, sem, busy, index, spoke>>

(* A thread that has found no entry clears the one after the last.         *)
Clear(w) ==
  /\ Goto(w, "clear", "unlock")
  /\ fd' = [i \in DOMAIN fd |-> IF i = index[w] /\ i \in Entries THEN None ELSE fd[i]]
  /\ UNCHANGED <<main, own, alloc_clients, alloc_threads, locked, sem, busy, index, cfd, conn, spoke>>

Unlock(w) ==
  /\ Goto(w, "unlock", "unbusy")
  /\ locked' = locked \ {index[w]}
  /\ UNCHANGED <<main, own, alloc_clients, alloc_threads, fd, sem, busy, index, cfd, conn, spoke>>

(* sem_trywait(busy_threads): would leave a count of 0 alone.              *)
Unbusy(w) ==
  /\ Goto(w, "unbusy", "wait")
  /\ busy' = IF busy > 0 THEN busy - 1 ELSE 0
  /\ UNCHANGED <<main, own, alloc_threads, slots, sem, index, cfd, conn, spoke>>

Thread(w) ==
  \/ Wake(w) \/ Mark(w) \/ Look(w) \/ Skip(w) \/ Lock(w) \/ Read(w) \/ Serve(w)
  \/ Tally(w) \/ Close(w) \/ Clear(w) \/ Unlock(w) \/ Unbusy(w)

Next ==
  \/ Pass \/ Store \/ GrowSlots \/ Post \/ Exit
  \/ \E S \in SUBSET Threads : GrowThreads(S) \/ Restart(S)
  \/ \E c \in Clients : Connect(c) \/ Speak(c) \/ Accept(c)
  \/ \E w \in Threads : Thread(w)

Spec == Init /\ [][Next]_vars

-----------------------------------------------------------------------------
(* Properties.                                                             *)

(* Every variable keeps its type; main and the threads only index entries  *)
(* of the array and the one after.                                         *)
TypeOK ==
  /\ main \in {"accept", "store", "threads", "post", "down"}
  /\ mfd \in Clients \cup {None} /\ mindex \in 0 .. alloc_clients
  /\ alloc_clients \in DefAlloc .. MaxSlots /\ alloc_threads \in Nat
  /\ fd \in [0 .. MaxSlots - 1 -> Clients \cup {None, Garbage}]
  /\ locked \subseteq Entries
  /\ sem \in Nat /\ busy \in Nat
  /\ pc \in [Threads -> PCs] /\ index \in [Threads -> 0 .. alloc_clients]
  /\ cfd \in [Threads -> Clients \cup {None, Garbage}]
  /\ conn \in [Clients -> {"away", "backlog", "open", "closed", "lost"}]
  /\ spoke \subseteq Clients

(* No descriptor is in the hands of two threads, though threads come past  *)
(* the semaphore that nobody called and clear entries they never took, as  *)
(* long as the array has not grown.  Growth unlocks entries that are being *)
(* served; their threads then unlock entries that others have taken since. *)
OneThreadPerClient ==
  alloc_clients = DefAlloc =>
    \A w, v \in At(HoldAt) : cfd[w] = cfd[v] => w = v

(* A thread that serves a client holds the mutex of the entry, and nobody  *)
(* changes it, as long as the array has not grown.                         *)
ServedUnderLock ==
  alloc_clients = DefAlloc =>
    \A w \in At(HoldAt) : index[w] \in locked /\ fd[index[w]] = cfd[w]

(* busy_threads is the number of threads between its post and its trywait, *)
(* the ones that nobody called included: what growth of tid is decided on. *)
BusyExact == main # "down" => busy = Cardinality(At(BusyAt))

(* "clients_q - queue of pending clients": an accepted client is with main *)
(* or in clients_q until a thread has taken it and closed its descriptor,  *)
(* at least as long as the array has not grown.                            *)
PendingIsQueued ==
  alloc_clients = DefAlloc =>
    \A c \in Clients : conn[c] = "open" =>
      \/ mfd = c \/ \E i \in Entries : fd[i] = c
      \/ \E w \in At(HoldAt) : cfd[w] = c

=============================================================================
