------------------------------- MODULE Programs -------------------------------
(***************************************************************************)
(* The programs of homeworks 7, 8, 9, 12, 13, 14 and 15, which share       *)
(* nothing: each behaviour is one of them, and the variables of the others *)
(* stay as they are.  What each does is in its own module.                 *)
(***************************************************************************)
EXTENDS Integers, Sequences, FiniteSets

CONSTANTS
  Clients, LoginMax, UserMax, Talkers, MaxInterrupts,        \* MqChat
  CONN_RETRIES, T2_MAX_MSGS, MaxRuns,                        \* SocketTasks, IpcTasks
  Commands, PIPE_BUF, Outputs,                               \* Pipeline
  Adders, Iterations,                                        \* ThreadCounter
  Customers, STORES_NUM, DEF_STORE_CAP, LOADER_INCREMENT, CUSTOMER_NEED, MaxLoads

ASSUME ProgramsAssumption ==
  /\ IsFiniteSet(Clients) /\ Talkers \subseteq Clients
  /\ {LoginMax, UserMax, CONN_RETRIES, T2_MAX_MSGS, MaxRuns, PIPE_BUF} \subseteq Nat \ {0}
  /\ {MaxInterrupts, MaxLoads, DEF_STORE_CAP} \subseteq Nat /\ Outputs \subseteq Nat
  /\ Commands \in Nat /\ Commands >= 2
  /\ IsFiniteSet(Adders) /\ Cardinality(Adders) >= 2 /\ Iterations \in Nat /\ Iterations >= 2
  /\ {STORES_NUM, LOADER_INCREMENT, CUSTOMER_NEED} \subseteq Nat \ {0}
  /\ IsFiniteSet(Customers) /\ "loader" \notin Customers

VARIABLES
  program,         \* which of them runs
  server, hand, index, users, users_list, requests, answers, lost, client, id, stc, cts,
  registered, handler, missed, interrupts,
  task, addr, caddr, host, peer, tries, to_peer, to_host, runs,
  means, parent, child, created, writers, down, up, sem, found, restarts,
  redir, found_cmd, output, reads, shells, running, written, pipe,
  mutexed, holder, global_var, register, left, joined,
  store, mutex, at, saw, need, loads, closed

chatVars == <<server, hand, index, users, users_list, requests, answers, lost, client, id,
              stc, cts, registered, handler, missed, interrupts>>
socketVars == <<task, addr, caddr, host, peer, tries, to_peer, to_host, runs>>
ipcVars == <<means, parent, child, created, writers, down, up, sem, found, restarts>>
pipelineVars == <<redir, found_cmd, output, reads, shells, running, written, pipe>>
counterVars == <<mutexed, holder, global_var, register, left, joined>>
lifesimVars == <<store, mutex, at, saw, need, loads, closed>>
vars == <<program, chatVars, socketVars, ipcVars, pipelineVars, counterVars, lifesimVars>>

Chat == INSTANCE MqChat
Socket == INSTANCE SocketTasks
Ipc == INSTANCE IpcTasks
Pipes == INSTANCE Pipeline
Counter == INSTANCE ThreadCounter
Life == INSTANCE Lifesim

-----------------------------------------------------------------------------
(* The inputs of a program that does not run are of no account.            *)
Init ==
  /\ program \in {"chat", "socket", "ipc", "pipeline", "counter", "lifesim"}
  /\ Chat!Init /\ Socket!SocketInit /\ Ipc!IpcInit /\ Pipes!PipelineInit
  /\ Counter!CounterInit /\ Life!LifesimInit
  /\ program # "socket" => task = 1
  /\ program # "ipc" => means = "pipes"
  /\ program # "pipeline" =>
       redir = 0 /\ reads = {} /\ found_cmd = [i \in 1..Commands |-> TRUE]
  /\ program # "counter" => ~mutexed

ChatStep ==
  /\ program = "chat" /\ Chat!Next
  /\ UNCHANGED <<program, socketVars, ipcVars, pipelineVars,
                 counterVars, lifesimVars>>

SocketStep(A) ==
  /\ program = "socket" /\ A
  /\ UNCHANGED <<program, chatVars, ipcVars, pipelineVars,
                 counterVars, lifesimVars>>

IpcStep(A) ==
  /\ program = "ipc" /\ A
  /\ UNCHANGED <<program, chatVars, socketVars, pipelineVars,
                 counterVars, lifesimVars>>

PipelineStep ==
  /\ program = "pipeline" /\ Pipes!PipelineNext
  /\ UNCHANGED <<program, chatVars, socketVars, ipcVars,
                 counterVars, lifesimVars>>

CounterStep ==
  /\ program = "counter" /\ Counter!CounterNext
  /\ UNCHANGED <<program, chatVars, socketVars, ipcVars,
                 pipelineVars, lifesimVars>>

LifesimStep ==
  /\ program = "lifesim" /\ Life!LifesimNext
  /\ UNCHANGED <<program, chatVars, socketVars, ipcVars,
                 pipelineVars, counterVars>>

Next ==
  \/ ChatStep \/ SocketStep(Socket!SocketNext) \/ IpcStep(Ipc!IpcNext)
  \/ PipelineStep \/ CounterStep \/ LifesimStep

(* Every process that can go on does, each on its own; nobody has to be    *)
(* interrupted, to run a program again, to quit or to talk.                *)
Spec ==
  /\ Init /\ [][Next]_vars
  /\ WF_vars(SocketStep(Socket!Client)) /\ WF_vars(SocketStep(Socket!Server))
  /\ WF_vars(IpcStep(Ipc!Parent)) /\ WF_vars(IpcStep(Ipc!Child)) /\ WF_vars(IpcStep(Ipc!Meet))
  /\ WF_vars(PipelineStep) /\ WF_vars(CounterStep)

-----------------------------------------------------------------------------
(* Properties.                                                             *)

(* Login to the chat: every client that waits has a request or an answer   *)
(* somewhere, but for the answers the server could not put back.           *)
AnswerLedger == Chat!AnswerLedger

(* The chat's user list has every connected user in his place, but for     *)
(* garbage in the place of the first one.                                  *)
ListComplete == Chat!ListComplete

(* A chat client stops hearing in one way only: by a message that comes    *)
(* before handle_msg asks for the next notification.                       *)
DeafOnlyByWindow == Chat!DeafOnlyByWindow

(* Where each of the programs of homeworks 9, 12, 13, 14 and 15 comes to   *)
(* rest.  The socket tasks: both sides done, or the client has given up    *)
(* and the server waits for it for ever.  The exchanges of homeworks 9 to  *)
(* 14 end, even after an interrupted run, except the one with a single     *)
(* semaphore.  The interpreter ends or hangs as its input decides.         *)
Settles ==
  <>[](CASE program = "socket" -> Socket!SocketSettled
         [] program = "ipc" -> Ipc!IpcSettled
         [] program = "pipeline" -> Pipes!PipelineSettled
         [] program = "counter" -> joined
         [] OTHER -> TRUE)

(* The exchanges keep their order: nobody reads what has not been written  *)
(* in this run, unless an interrupted run has left something to read.      *)
InStep == Ipc!InStep

(* What main prints: all the increments with the mutex; without it as few  *)
(* as 2, never more.                                                       *)
CounterBounds ==
  LET all == Cardinality(Adders) * Iterations IN
  joined => IF mutexed THEN global_var = all ELSE global_var \in 2..all

(* No purchase and no delivery is lost or counted twice: what is in the    *)
(* stores and what was bought add up to what there was and what was        *)
(* delivered.                                                              *)
InStores == UNION {{s} \X (1..store[s]) : s \in Life!Stores}
Bought == UNION {{c} \X (1..CUSTOMER_NEED - need[c]) : c \in Customers}
StockConserved ==
  Cardinality(InStores) + Cardinality(Bought)
    = STORES_NUM * DEF_STORE_CAP + loads * LOADER_INCREMENT

=============================================================================
