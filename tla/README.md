# Formal models of the Eltex Embedded C homeworks

TLA+ modules for the concurrent programs of this repository, the TLC
configurations that check them on small instances, and proofs for every value of
the constants. Paths below are relative to the repository's `src/`.

## 1. The system

The repository is a course: 26 homework directories, each a program (or a few)
of its own. What makes them worth modelling is in the ones where threads,
processes or clients share something. The components, the state each keeps and
how they interact:

| component | state | operations | interacts through |
|---|---|---|---|
| **Multiprotocol server, TCP pool** (`homework16.../multiproto_server.c`) | `tcp_threads_count`, three named semaphores (free, busy, served), a POSIX queue of descriptors, the descriptor table | accept, wait for a free thread, grow the pool, `mq_send`; per thread: `mq_receive`, `recv`, `close`, semaphore steps; exit, restart | semaphore values that main reads one after another; the bounded queue; kernel names that outlive the process |
| **Multiprotocol server, UDP pool** (same file) | the same, and one socket per thread | `recvfrom`, hand-over, growth; per thread: greet from its own socket, wait for the reply, check the endpoint, answer | the same, and datagrams that nobody retransmits |
| **Multiprotocol server, main loop** (same file) | `revents` | `poll` over both sockets, TCP branch, then UDP branch | one thread for both pools |
| **Classic server** (`classic_server.c`, clients: `client.c`) | `clients_q` (an array of descriptor and mutex), two semaphore pointers with one name, a count of busy threads | accept and store, grow array, grow threads, post; per thread: wake, scan, trylock, serve, clear, unlock | the array, written by main without the mutexes |
| **Producer server** (`producer_server.c`) | listener threads with `pollfd` arrays, queues of clients and of acknowledgements | listen, queue ready clients, serve, acknowledge | bounded queues in both directions, which outlive the process |
| **TCP and UDP clients** (`multiproto_client.c`) | one socket per thread | connect/send/receive, hello/reply | sockets |
| **Serial server** (`serial_server.c`) | one client at a time | | |
| **Shared-memory chat** (`homework13.../server.c`, `client.c`) | login segment with four semaphores, per user a segment and four semaphores, `users_count`, `active_users` | login, message, disconnect, shutdown; client: log in, send, leave, a handler thread | shared memory and semaphores, waits of one second |
| **Message-queue chat** (`homework12.../server.c`, `client.c`) | a login queue shared by all, two queues per user | as above, and names, user lists | priorities as message types, `O_NONBLOCK`, `mq_notify` |
| **IPC tasks** (`homework09`, `12`, `13` `functions.c`) | one pipe, FIFO, queue or segment between parent and child | one exchange | ordering of creation and use |
| **Socket tasks** (`homework15`) | client and server processes | bounded connect retries, bind with unlink | start-up order |
| **Life simulation** (`homework08`) | stocks with a mutex each | loader, customers | mutexes, trylock |
| **Thread counter** (`homework07`) | one counter | ten threads increment | nothing: no lock by default |
| **Command interpreter** (`homework09`, third task) | `cmds`, `redir_cmd`, one pipe | fork, redirect, exec, wait, close | the pipe, and children that fail to exec |
| **Character device** (`homework24`), **procfs, sysfs** (`homework25`, `26`) | a message buffer | read, write | rwlock on one side only |
| **Signals** (`homework14`), **processes** (`homework06`) | | | |
| **Editor, file manager** (`homework10`, `11`), **exercises** (`homework01`-`05`), **raw sockets** (`homework17`-`19`), **builds** (`homework20`-`23`) | | sequential | |

### What is hard in it, and what "correct" means

* **Multiprotocol server.** Main never looks at the threads: it decides from two
  semaphores, read at two moments, that the threads move one call at a time.
  Correct means: those counts always agree with where the threads are; the pool
  grows only if it has to; each accepted client is with one holder; main always
  gets to a decision; neither side starves the other. Named objects survive a
  crash because the code unlinks paths and not names.
* **Classic server.** Threads are woken by the count of served clients as well
  as by that of new ones. Correct means: in spite of phantom wake-ups, no
  descriptor in two hands, none lost, an exact busy count.
* **Shared-memory chat.** One buffer per direction and user, acknowledgements
  with a timeout, a login segment shared by all clients, clients that die. Correct
  means: ids not mixed up, nothing overwritten before it is read, acknowledgements
  matched with commands, nobody waiting for ever.
* **Producer server.** Three queues between main, listener and threads, two of them
  in opposite directions between the same two parties. A client that is readable
  stays readable until some thread reads it, and is queued in every round of the
  listener. Correct means: a client is never lost on its way, main waits for
  somebody, no client alone can block everybody, and who comes alone and speaks is
  answered, whatever an earlier process left in the queues.
* **Message-queue chat.** Both directions of login in one queue; notifications
  that must be asked for again; a user list kept by appending. Correct means: as
  many answers as questions, the list has everybody who is there, no user becomes deaf.
* **Small programs.** Lost increments, start-up races, exchanges resumed by
  the next run with what an interrupted one left, a child that goes on as a second
  interpreter. Correct means: they come to an end, with the right result, and
  where they do not it is known from what.

`PROJECT.json` lists each hazard at its line with the properties aimed at it.

## 2. Modules

| module | models | how |
|---|---|---|
| `ClientService` | what a pool promises | a client arrives, is taken once, is served or (if `Lossy`) lost, for good; the tally never exceeds those; the process may end, which loses the clients it was with, and another may start |
| `TcpPool` | TCP branch of `multiproto_server`, `_tcp_server_thread`, `shutdown_server`, and the TCP client at its socket | one action per system call that others can see; `main` and `pc` name the next call; the module's comment has the table |
| `MCTcpPool` | | the symmetric sets |
| `UdpPool` | UDP branch, `_udp_server_thread`, the UDP client | the same, with `sendto` and `recvfrom` failures, drops and stray datagrams as actions counted by `mishaps` |
| `MultiprotoServer` | the main loop over both | INSTANCEs of both pools over one program counter of main; its `Poll` replaces theirs |
| `ClassicServer`, `MCClassicServer` | `classic_server`, its threads, `shutdown_server` | the entries as a function, `locked` as the mutexes held; main and the threads look at them one by one (`mindex`, `index`) |
| `ShmChat` | `third_task_server`, `shutdown_server` and `third_task_client`, `msg_handler` of homework13 | the four login semaphores and four functions of semaphores, one per user; `stc`, `cts`, `srv`, `usr` keep the code's names |
| `MCShmChat` | | the same with `c1` the first client to try to log in |
| `ProducerServer` | one side, TCP or UDP, of `producer_server`: main, `_*_listener`, `_*_server_thread`, and the client | `proto` says which side; `listener` and `pc` name the next call; `reported` is what the round over `pollfds` has still to look at; `left` is what an earlier process left in the queues |
| `MCProducerServer` | | the same up to renaming clients and threads, and one client only when something was left |
| `MqChat` | `third_task_server`, `shutdown_server`, `third_task_client`, `handle_msg`, `shutdown_client` of homework12 | the login queue as a count of requests and a sequence of answers; a user's queues as priorities in reading order; `handler` and `registered` for `mq_notify` |
| `SocketTasks` | the four tasks of homework15, and their next run | `addr` and `caddr` are the file system or the port; `host` and `peer` the two processes |
| `IpcTasks` | tasks 1 and 2 of homeworks 9, 12, 13 and 14, and their next run | one exchange, `means` says over what; `down`, `up` and `sem` count messages, posts or a semaphore |
| `Pipeline` | the interpreter of homework09 after parsing | a stack of interpreters, since a child that cannot exec becomes one, with the redirections made for it |
| `ThreadCounter` | homework07 | a load and a store per increment |
| `Lifesim` | homework08 | reading under a mutex and writing under it as two steps |
| `Programs` | the last six and `MqChat` side by side | `program` says which one a behaviour is; the others stand still |
| `Counting` | lemmas about how many members of a set have a value in a set, how often a value is in a queue, sums as sets of units, least elements | used by the proofs |
| `TcpPool_proofs`, `UdpPool_proofs`, `MultiprotoServer_proofs`, `ClassicServer_proofs`, `ProducerServer_proofs`, `Programs_proofs`, `ShmChat_proofs` | the theorems about the module named | section 5 |

A variable has the name of the variable, semaphore or queue it stands for, or
its comment says which. An action is one call of the code with all it changes; where
two calls of a thread touch nothing another one sees, they are one action.

A descriptor is a member of `Fds` that the kernel may give again after `close`;
this is why holders are compared by descriptor and not by client. A
message is the client that sent it, or a number. Growth of a pool is one action
because main makes all its calls without looking at anyone; `pthread_create`
results are not looked at by the code, so in all three servers with pools any number of
the calls may fail, at the start too; `failed` counts them.

The end of a process by a signal or by main is one action. `exit()` called by a
processing thread (`ThreadExit`, `StartFails`, `Shut`) is another matter: the handler closes
the listening sockets and cancels the threads in the order of their array,
the calling one among them, and with asynchronous cancellation the call ends there. `cancelled`
is the set of threads it came to; main and the rest live on, until main
reads the closed socket or somebody else calls `exit()` (`Exit`, `Interrupt`).

Definitions introduced by a comment such as "The descriptor goes over the first
entry, free or not." or "A mutation: ..." that no other definition uses are altered
copies of the action that follows: with one of them in its place the property
named in `PROJECT.json` ("mutants") fails, which shows that the property depends
on that code.

## 3. Runs

| run | instance | shows |
|---|---|---|
| `tcp_pool` | 3 clients, 4 threads (two batches of 2), 3 descriptors, queue of 2, one exit, of the process or by a thread, one failed `pthread_create`; symmetric | `TypeOK`, `SemaphoreAccounting`, `OneHolder`, `GrowOnlyWhenAllBusy`, `PoolFitsDemand`, `TallyExact`; the pool implements `ClientService`, over the exit and the restart |
| `tcp_queued_taken` | queue of 2 | *violated*: `QueuedIsTaken`, section 6 |
| `udp_pool` | 2 clients, 2 threads, one mishap of any kind, one failed `pthread_create` | accounts, one holder per endpoint, sessions that do not mix, growth only when all are busy, `HelloAnswered` if nothing goes wrong; the pool implements `ClientService`, whatever goes wrong |
| `multiproto` | 2 TCP clients, 1 UDP client, 2 + 1 threads (batches of 1), queues of 1, one failed `pthread_create` | what `poll` reported is still there when main reads it; main always leaves its wait loop (`DispatchDecides`); TCP clients that speak are all served (`SpeakersServed`) and do not starve UDP clients (`UdpNotStarved`) |
| `classic` | 3 clients, 3 threads, 2 entries growing to 4, restarts; symmetric | `TypeOK`, `OneThreadPerClient`, `BusyExact`, `ServedUnderLock` |
| `classic_pending` | same | *violated*: `PendingIsQueued`, section 6 |
| `shm_chat` | 2 clients, one message between them; kills, expired waits, shutdown at any point | `TypeOK`, `OwnId`, `CommandKept`, `AckLedger`, `SenderReleased` |
| `shm_chat_resent` | 1 client, 2 messages | *violated*: `ResentToEveryUser`, section 6 |
| `shm_chat_active` | 1 client | *violated*: `ActiveUsers`, section 6 |
| `producer` | 2 clients, 2 threads (batches of 1), queues of 1, one mishap: a message left by an earlier process, a hang-up or a failed `pthread_create`; TCP or UDP | `SemaphoreAccounting`, `NoClientLost`, `WaitHasMover`, `CycleNeedsTwo`, `FirstIsAnswered` |
| `programs`, chat | 2 clients, login queue of 1, user queues of 2, one talker, one SIGINT to anyone | `AnswerLedger`, `ListComplete`, `DeafOnlyByWindow` |
| `programs`, others | 3 runs of each socket task and exchange, 2 retries, queues of 2; 4 commands and a pipe of 2 with every input; 3 threads of 2 iterations; 2 customers, 2 stores, 3 deliveries | `Settles`, `InStep`, `CounterBounds`, `StockConserved` |
| `mq_list` | `MqChat` alone, 2 clients | *violated*: `ListNamesConnected`, section 6 |

**Bounds, and why they are enough.** TCP pool: three clients over batches of two
threads let one growth happen with clients waiting in a full queue, and the
descriptor of a served client be used again while another is held; a process ends
once, with descriptors left in its queue for the next. UDP pool: every hazard is a
consequence of one mishap, and two clients show it to the second. Both pools: liveness is checked
with batches of one, so that two clients already make the TCP pool grow. Classic server:
two entries, so that one can be cleared while the other is served, and a third
client that makes the array grow; growth beyond twice would repeat the same step.
Chat: two clients give every order of two logins, of a login and a message, of a
message and a departure; one message suffices for the properties that hold
because any further command goes through the same semaphores, and the violation
needs two; the clients are alike, and the first to try to log in is called `c1`. Producer server: queues of one make
both fill with two clients and two threads, which is the smallest cycle; a client is
queued twice with one, a thread of a second batch starts while the listener
runs; one number left in a queue can be the descriptor of the client that comes, and the client a
hang-up ends can be the first or the second. Clients and threads that differ in name
only are counted once: the first to come is `c1`, the first thread created `t1`. Message-queue chat: a login queue of one is full when two clients log in,
user queues of two are full after one unread list and one message, and priorities
are read out of order with two. Socket tasks and exchanges: the second run finds what the first
left, the third what a run left that began with leftovers; two attempts are one retry.
Interpreter: with four commands there are commands before, between and
after the two at the pipe, and three failures before the reader. Counter: two
iterations are the least for which the result can be below the number of
iterations of a thread; three threads for the third to overwrite both.
`MaxExits`, `MaxCreateFails`, `MaxMishaps`, `MaxSlots`, `MaxMsgs`,
`MaxInterrupts`, `Talkers`, `MaxRuns` and `MaxLoads` are bounds of the models; no other counter is capped: semaphores and tallies are
bounded by the number of clients and threads.

`CHECK_DEADLOCK FALSE` is given where programs end or may hang: the chats, whose
servers end with the last user, the producer server, which a client may end, and the
small programs.

**Fairness.** `WF` of main and of each thread: each is a thread of its own in a
loop of blocking or polling calls that the kernel schedules, and no fairness
is assumed between threads that compete for one queue beyond that. TCP clients
are never assumed to speak; the properties that need it say so in their premise
(`SpeakersServed`, `UdpNotStarved`), since a silent client is something the server
has to live with. UDP clients reply once greeted, as `udp_client` does without
waiting for anything. In the chat a timed wait ends either way, the client's two
threads run, and users are never assumed to type, log in or leave. In
the producer server main, listener, threads and the clients' message are fair, clients
are not assumed to come or to go, and no datagram is lost: a client that is not
greeted, or whose only message is dropped, waits for ever. In `Programs` each process of a socket
task and of an exchange is fair, and the interpreter and the counter are; being
interrupted or run again is not. Nothing is assumed, and nothing claimed,
about the liveness of the two chat programs of homework12 and of the life
simulation: its loader only tries each mutex, and customers at empty stores do not
sleep, so that no scheduler owes it a delivery.

## 4. What the runs say of the code

The semaphores of the multiprotocol server are exact in every interleaving: main's
two reads cannot make it grow a pool that has a free thread, though between them
any number of threads may move. `threads_count` may exceed the number of threads
after a failed `pthread_create`, and then main waits for a thread that does not
exist if all the others are busy; the liveness properties say so in their statements, and
`GrowOnlyWhenAllBusy` holds whatever failed.

When a thread calls `exit()`, the server that is left accepts nobody. The accounts still
say where the threads are, the cancelled ones where they stood, and nobody is
served twice; but main may wait for cancelled threads for ever, and nothing is claimed
of how long the rest lives. A UDP thread that returns after a failed greeting stays
counted as free, which the accounts include (`dead` in `SemaphoreAccounting`).

Without a restart each descriptor has one holder. After a restart the queue of the
previous process holds numbers that mean something else or nothing; `OneHolder`,
`TallyExact` and `PoolFitsDemand` are stated for the first process, the accounts
for all of them. What a stale number does is bounded all the same by
`ImplementsService`: a thread that takes one serves the connection that has the number
now, if there is one, or nobody; no client is served twice by it, no open
connection is without a holder, and what the thread counts afterwards is covered by a
client that was lost with the process before. The tally may count a client
that was lost, therefore, and never one that did not come.

The classic server survives its doubled semaphore as far as two threads never
serve one client while the array has not grown: the mutex protects a descriptor
once a thread has read it. Growth resets and unlocks entries whose clients are
being served; their threads unlock them again when they are done, by then under
another thread, and with four clients over two entries two threads come to serve
one. So `OneThreadPerClient` and `ServedUnderLock` are stated for the array before
it grows, `TypeOK` and `BusyExact` for all of a run. The server does
lose clients (section 6), and an index one past the array is written by every
thread that was woken for nothing.

In the chat, between two commands, the posts a user has not taken and the
acknowledgements nobody has waited for add up to exactly the number of logins
since the user's own (`AckLedger`): the surplus never goes away, and each wait
may end with it. If a login expires, `active_users` stays too high for ever and the
server does not end with its last user; ids may then be shared, so `OwnId`,
`CommandKept` and `AckLedger` are stated for runs without an expired login, and the
comment on `active_users` is right for those only (section 6).

The producer server loses no client on the way from `accept` to the listener, and its
counts are exact. Its queues outlive the process and are not emptied: a number left in
the listener's queue is watched like a client's, and if a new client gets that number for its
descriptor the client has a second place in the array (`NoClientLost` says how many places
there are). What it can lose is everything: a TCP client that closes
while it is served ends the process at the second answer (`Killed`). Main
waits for nobody only where threads were not created or were cancelled
(`WaitHasMover`). Listener and threads can
block each other for ever; it takes two entries in the array (`CycleNeedsTwo`), since the
listener takes one acknowledgement per round. A client alone is answered although it is
in the queue more than once, and whatever was left there.

In the message-queue chat each answer is for whoever takes it, and each is
there for one request, but for those the server takes out of the queue and finds no
room to put back; these are fewer than the clients beyond the queue's
capacity. Between the loops of the server the user list has everybody who is connected, in
order, except that in the place of user 1 there may be garbage (section 6). A user becomes deaf in one way, a message between the last
`mq_receive` and the `mq_notify` of `handle_msg`.

Of the tasks with leftovers, `Settles` says which recover. Two do not: the task with one
System V semaphore hangs for ever after a run interrupted between two
operations, because both sides wait for a 0 that nobody brings; and the second socket
task fails for ever after it has failed once, because its client
leaves a path that only a successful server removes. In the latter's normal start,
the client gives up at once if it is faster than the server (`ENOENT` is not
retried there). 
For the interpreter `Settles` says that it ends exactly on the inputs of the predicate `Ends` of
`Pipeline`. Each command that cannot be executed doubles how often the rest
is executed, and leaves the child with the command's redirections. Who reads the pipe to its end
must find every write end closed: there is a `|`, nothing failed up to it, and the pipe
has held the whole output. Without a `|` the first command has the empty pipe for its STDIN
(`redir_cmd` is -1), and hangs if it reads. If nobody reads, all that is written must fit
into the pipe: the redirected command's output in each interpreter or, if that command
failed, what the later commands write in its children, whose STDOUT is still
the pipe.

The counter can come out as low as 2, for any number of threads and iterations (section 5).

## 5. Proofs

Every safety property that a passing run checks is a theorem of its
specification, each for every value of the constants under the `ConstantsAssumption` of
its module (`ProgramsAssumption` for the small programs): finite sets of clients
and threads, model values that are not clients, sizes at least 1, and bounds of
the models that may be any number. The proofs share `Counting`:
a step that moves one thread between two program points changes the number of
threads at any set of points by what `MoveOne` says, so that for most actions a
count is a comparison of labels; sums (stock, increments) are the cardinality of a
set of units, of which a step adds or removes some (`UnitsChange` and its like);
`LeastOf` gives the least of a set of numbers, which is all the induction there is.

**TCP pool.** `TypeCorrect` and `SemaphoresExact` hold by one inductive
invariant, `Inv`: a restart sets the semaphores to 0, which is right only if the dead
process has no thread (`DownIsEmpty`); `TypeOK` needs that main has a
descriptor in hand while it decides (`MainHolds`). `GrowthJustified` needs that no thread
exists that `threads_count` misses (`NoExtraThreads`): then `busy =
threads_count` bounds the threads that exist by those at a busy point, and
the latter, being a subset, are all of them. The converse count
(`FewMissing`: `threads_count` misses only calls of `pthread_create` that failed) gives
`WaitsHaveMovers`, the safety half of `DispatchDecides`: while main reads that no thread is
free and fewer are busy than there are, some thread is between two semaphores, and
the steps that take it on (`Ready`, `JoinBusy`, `JoinFree`) wait for nothing. Each failed
call takes one from what the theorem promises, as in the code: main may then wait
for a thread that is with a silent client, or for none at all; and nothing is promised
once an `exit` has cancelled threads. `OneHolderHolds` is inductive
relative to `Inv`; `AcceptHolder`, `SendHolder`, `TakeHolder` and `CloseHolder`
treat the four actions that pass a descriptor on, `StayHolder` the rest.
`TallyIsExact` needs to know that open descriptors and their clients are
paired (`TableExact`), and `PoolFits` that open clients are as many as descriptors in
the queue and in hands (`OpenExact`): then the threads that main counts as busy have
a client each, and main has one more.

`PoolImplementsService` maps what the kernel and the pool have of a client to its
status in `ClientService` (`Status`): away; waiting, while its connection is in the
backlog, in main's hand or in the queue; serving, while a thread holds the
descriptor of its connection; served by `close`; lost with the process. Arrivals are
`connect`, starts `mq_receive` or `accept` (a thread with a stale number has a
client as soon as the kernel gives the number away again), reports `sem_post(served)`. Over
restarts it rests on three more invariants: `TableExact`, that descriptors
and open connections are paired, in each process; `NoneForgotten`, that an open
connection is with main, in the queue or with a thread, even if somebody else
may hold the same number and close it first; and `TallyCovered`, that what
has been counted in this process, the threads on their way to count, and all the numbers
in hands and in the queue are at most the clients ever accepted. The
last two give the guard of `Report`: the open connections, being covered by
numbers (`OpenInHands`, by the lemmas `ImageBound` and `CoverBound`), can be taken
off both sides.

**UDP pool.** The first three theorems are as for TCP, with the threads that
returned after a failed `sendto` counted as free for ever; `WaitsHaveMovers` is as for
TCP, failed calls of `pthread_create` included: a thread that returned makes `free`
positive, so that main does not wait for it. `OneHolderHolds` is over
restarts as well: a queue left behind holds each endpoint once, and whoever
is held has not been greeted except by its holder (`HeldAreWaiting`).
`SessionsSeparateHolds` needs `BoxOfSession`: a socket holds at most one reply, of
the client the thread is with, and a greeted client is with the thread that
greeted it. `PoolImplementsService` maps a client by who holds its endpoint
(`Status`), with `Lossy` only if `MaxMishaps > 0`. What may lose a client
(`Leaves`) is then a matter of single steps: that a datagram from elsewhere, or an answer
to a client that has not replied, is found at a socket needs a mishap first, by
`BoxOfSession`. Clients in the queue survive the process, in the model as in the code. Each step
moves at most one client and at most one thread past its client (`NextKinds`), so
that `TallyCovered`, the same as for TCP without the descriptors, is inductive.

**Main loop.** `TcpSideImplementsPool` and `UdpSideImplementsPool`: with main's
counter mapped to where it stands in one branch, and the other branch to `poll`, every
step of the server is a step or a stutter of each pool. The pools' theorems then
hold of the server (`BothAccountsHold`, `DecisionsJustified`, `ServerKeepsSessions`, and, as
refinements compose, `ServerImplementsService`) without being proved again.
`DecisionsJustified` is about growth only; what main's waits wait for is
`WaitsAreExplained`: while no thread of a pool is free and not all are busy, some thread
of it is between two semaphores, unless `pthread_create` has failed as often as
threads are missing. No thread ends the process here (`NothingCancelled`). For UDP this needs that what `poll` reported holds when main comes to
the socket after the TCP branch (`ReportsArePending`): nobody else reads the
listening sockets.

**Classic server.** `BusyIsExact` and `TypeCorrect` go together with `Inside`: a
thread inside an entry has one to look at, and `index` passes the last entry only at
the points where the code clears and unlocks. `ServedUnderLockHolds` and `OneThreadHolds`
rest on `Owned`, up to the growth of the array: the mutexes of the entries where
threads are past their trylock are held, by one thread each; serving threads have
the client of their entry; no client is in two entries, and what main is about to store is in none.
A phantom unlock does no harm because it is of the entry past the last one.

**Producer server.** `SemaphoresExact` as above, with the places main, listener and
threads can have a client (`MainHolds`, `ThreadsHold`, `ReportsTrue`). `threads_count` is the
number of threads and of calls that made none (`CountExact`), from which follow
`GrowthJustified`, as for the pools, and `WaitsHaveMovers`, as long as no call has
failed and no `exit` has cancelled threads; of the three steps only `Start` waits, for
the listener's queues.
`ClientsAreKept`: the occurrences of a client in the socket's backlog, main's hand,
the queue of descriptors and `pollfds` add up, from its arrival on, to 1 and as many
as its number had in the queue an earlier process left (`Placed`).
`OneClientBlocksNobody`: what is in flight is bounded by what the earlier process left
and the rounds made since, each of which takes an acknowledgement, if there is one,
before it queues the one entry (`OneInFlight`); for both queues to be full and every
thread to have a client, there must be one more.

**Small programs.** `StockIsConserved`: whoever has read a stock holds the mutex
and the stock is still what was read (`ReadUnderMutex`), the loader's `trylock`
included. `CounterIsBounded`: a stored value is at most the increments made
(`AtMostMade`); a thread that has stored once loads 1 at least afterwards, so the
last store is 2 at least (`AtLeastTwo`). `ExchangesInStep`: the order of one undisturbed
exchange, for each kind of means (`Orderly`).
`AnswersAccounted` needs that each user and each request is of a client that came
(`SlotsEnough`), so that an answer can only be lost with the queue full of others' answers.
`DeafByWindowOnly` needs that a number is in one place - a client, the server's
hand, the login queue - and once (`IdsOwn`), that notifications are the owner's
(`HandlersOwned`), and `Hears`: nothing is unread once a
handler is done, unless a message came in the window.
`ListIsComplete` needs `Lists`: at each point of the server's loop, how `index` relates
to the number of users, and that the list, read by somebody who puts user 1 for the
garbage of the first round (`Shown`), names the connected ones in order
(`Names`). `Shown` is a means of the proof only: the property itself allows garbage in
the entry of user 1. The list so read is defined by that description, `Listing` being the one
sequence that satisfies it. That there is one at most is proved by the least place where two
differ; that there is one, by what the code does: adding the last number to a list, or
taking one out of it, gives a list again, and no induction over the set is needed.

**Shared-memory chat.** `TypeCorrect` holds by `Base`: each number
was given for one request of a client that came (`Numbered`), who the
server sends to is connected (`Phases`), and `active_users` counts the connected users
and the logins that expired (`ActiveOrExpired`). Hence `ActiveUsersCounted`: what the
comment says of the count holds as long as no login has expired. `NumbersAreOwn` is about the login segment as one
token (`Token`): `usr_sem`, the client that holds it, the request, the answer, the
client that has it, its acknowledgement and the list after it add up to 1 at most,
wherever clients are killed, and an answer is for the client that
waits (`Awaited`). `CommandsAreKept`: a slot is quiet unless its owner waits
for its release or has left (`Commands`). `LedgerHolds` extends `AckLedger` to every phase of
the server (`Due`): while it posts the list of a login, those before the one it
is at have one more under way, and in a command the one it waits for has.

Only model-checked:

* Liveness under fairness, which is outside the provers' reach: `DispatchDecides`,
  `SpeakersServed`, `UdpNotStarved`, `HelloAnswered`, `FirstIsAnswered`,
  `SenderReleased`, `Settles`.
* The violations of section 6.

## 6. Where the code differs from its comments

* `multiproto_server.c:723`, on the queue: "one of those will receive a message
  and proceed to client communication". A thread takes its message before it
  leaves the free count, so main can queue a second client for a thread that is
  already taken; if the first client stays silent the second is never received
  (`tcp_queued_taken`).
* `classic_server.c:9`, "queue of pending clients": a thread that finds an entry
  cleared under its hands clears it again, and with it the client main has
  stored there meanwhile (`classic_pending`).
* homework13 `server.c:386`, "resend it to every connected user": the user list
  after a login is posted without waiting, its acknowledgement is taken for that of
  a message, and the next message overwrites the previous one (`shm_chat_resent`).
* homework13 `server.c:6`, "active_users - number of users, currently connected": a
  login whose client does not answer in time is counted and never taken off again
  (`shm_chat_active`).
* homework12 `server.c:231`, "Append 'users_list' with connected user": in the first round
  the index is not initialised, and the entry written for the first user is whatever
  it happens to be (`mq_list`).

One more disagreement has no run of its own: `multiproto_server.c:6` has the semaphores
"counting currently free threads", but a UDP thread whose greeting fails returns and
stays counted. `SemaphoreAccounting` of `UdpPool` states the count as it is, such
threads (`dead`) included.

## 7. Not modelled

* Failures of `socket`, `bind`, `listen`, `sem_open`, `mq_open` at start-up: the
  process ends before it serves anyone. The exception is what an earlier run can
  bring about (addresses in use, queues that exist or do not).
* Memory: what threads read in an array that `realloc` is moving
  (`classic_server.c:318`), and the homework13 and homework12 `users` arrays beyond
  their first ten users, whose new address is thrown away
  (homework13 `server.c:232`, homework12 `server.c:172`); the arrays that
  the interpreter parses into.
* Reads and writes of one shared-memory buffer are single steps: torn messages
  are not in `ShmChat`.
* The chat commands that clients have no code to send, and everything drawn on
  terminals. How many messages a slow user of homework12 loses: its queue drops
  them in the model as in the code (`server.c:286`), without a bound to state.
* The two sides of the producer server in one process: they share main, which treats
  them in turn as that of the multiprotocol server does.
* The loops of `multiproto_client.c` that create clients without end.
* The character device: its reader and writer meet over single bytes of one array,
  which is a question of memory and not of steps.
* Serial server, process tasks, editor and file manager, procfs and sysfs modules,
  exercises, raw sockets: sequential, or nothing shared beyond one buffer; builds:
  no programs.

## 8. Plan

The modules exist, and so do the proofs of the safety properties and refinements that the
runs check. What is left, most important first:

1. What survives an expired login in the shared-memory chat: which of the clauses
   of `Base` still tell users apart.
2. Both sides of the producer server over one main, as `MultiprotoServer` does, with the
   same two refinements.
3. An abstract specification of the chats (who is shown which message), which the one of
   homework13 would not implement (section 6).
