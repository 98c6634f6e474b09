------------------------------ MODULE IpcTasks ------------------------------
(***************************************************************************)
(* The two-process exchanges of homeworks 9, 12, 13 and 14.  A parent says *)
(* something to a child it has forked, the child answers, the parent waits *)
(* for it to end.  They differ in what carries the exchange:               *)
(*   pipes, fifos      homework09, first and second task                   *)
(*   sysvmsg, mqueue   homework12: message types 1 and 2; two queues       *)
(*   sysvsem, posixsem homework13: shared memory, under one semaphore that *)
(*                     both count with, or one for each direction          *)
(*   signal, sigwait   homework14: no answer                               *)
(* All but pipes, FIFOs and signals outlive their processes: a program     *)
(* interrupted half-way leaves them to its next run.                       *)
(***************************************************************************)
EXTENDS Integers

CONSTANTS
  T2_MAX_MSGS,     \* capacity of a queue of homework12
  MaxRuns          \* bound: runs of the program

VARIABLES
  means,           \* what carries the exchange
  parent, child,   \* program counters; of first_proc and second_proc for FIFOs
  created,         \* objects the parent makes and the child waits for
  writers,         \* who holds which pipe open for writing
  down, up,        \* messages, or the semaphores, to child and to parent
  sem,             \* the one semaphore of sysvsem
  found,           \* what the last run left in these
  restarts

ipcVars == <<means, parent, child, created, writers, down, up, sem, found, restarts>>
fixed == <<means, found, restarts>>

Signals == {"signal", "sigwait"}
Means == {"pipes", "fifos", "sysvmsg", "mqueue", "sysvsem", "posixsem"} \cup Signals
Lasting == {"sysvmsg", "mqueue", "sysvsem", "posixsem"}

(* Shared memory and semaphore; shared memory and two semaphores.          *)
Objects == IF means = "sysvsem" THEN 2 ELSE IF means = "posixsem" THEN 3 ELSE 0
Ends(m) == IF m = "pipes" THEN {"parent", "child"} \X {"down", "up"} ELSE {}

IpcInit ==
  /\ means \in Means
  /\ parent = "create" /\ child = "open" /\ created = 0 /\ writers = Ends(means)
  /\ down = 0 /\ up = 0 /\ sem = 0 /\ found = 0 /\ restarts = 0

Rerun ==
  /\ restarts < MaxRuns - 1 /\ restarts' = restarts + 1
  /\ parent' = "create" /\ child' = "open" /\ writers' = Ends(means)
  /\ IF means \in Lasting
       THEN found' = down + up + sem /\ UNCHANGED <<created, down, up, sem>>
       ELSE found' = 0 /\ created' = 0 /\ down' = 0 /\ up' = 0 /\ sem' = 0
  /\ UNCHANGED means

-----------------------------------------------------------------------------
(* The parent.                                                             *)

Create ==
  /\ parent = "create" /\ created < Objects
  /\ created' = created + 1
  /\ UNCHANGED <<fixed, parent, child, writers, down, up, sem>>

(* Everything is made; of the pipes the ends not used are closed.          *)
Created ==
  /\ parent = "create" /\ means # "fifos" /\ created >= Objects
  /\ parent' = "write" /\ writers' = writers \ {<<"parent", "up">>}
  /\ UNCHANGED <<fixed, child, created, down, up, sem>>

(* A pipe is closed after that, which is the end of file for the child.    *)
Write ==
  /\ parent = "write" /\ means \notin {"sysvsem"} \cup Signals
  /\ means = "mqueue" => down < T2_MAX_MSGS
  /\ down' = down + 1 /\ writers' = writers \ {<<"parent", "down">>}
  /\ parent' = IF means = "fifos" THEN "meet" ELSE "read"
  /\ UNCHANGED <<fixed, child, created, up, sem>>

(* semop() of {0, 0, 0} and {0, 1, 0}.                                     *)
Post ==
  /\ parent = "write" /\ means = "sysvsem" /\ sem = 0
  /\ sem' = 1 /\ parent' = "read"
  /\ UNCHANGED <<fixed, child, created, writers, down, up>>

(* Without a handler SIGUSR1 ends the child.                               *)
Kill ==
  /\ parent = "write" /\ means \in Signals
  /\ parent' = "wait"
  /\ IF child = "open" THEN child' = "killed" /\ down' = down
                       ELSE child' = child /\ down' = 1
  /\ UNCHANGED <<fixed, created, writers, up, sem>>

(* From pipes until the end of file.                                       *)
Read ==
  /\ parent = "read" /\ means # "sysvsem" /\ up > 0
  /\ ~\E w \in writers : w[2] = "up"
  /\ up' = up - 1 /\ parent' = "wait"
  /\ UNCHANGED <<fixed, child, created, writers, down, sem>>

(* semop() of {0, -2, 0}: what the child adds, not what the parent has.    *)
AwaitOne ==
  /\ parent = "read" /\ means = "sysvsem" /\ sem >= 1
  /\ sem' = sem - 1 /\ parent' = "wait"
  /\ UNCHANGED <<fixed, child, created, writers, down, up>>

Await ==
  /\ parent = "read" /\ means = "sysvsem" /\ sem >= 2
  /\ sem' = sem - 2 /\ parent' = "wait"
  /\ UNCHANGED <<fixed, child, created, writers, down, up>>

(* wait(), then everything is removed.                                     *)
Remove ==
  /\ parent = "wait" /\ child \in {"ended", "killed"}
  /\ parent' = "ended" /\ created' = 0 /\ down' = 0 /\ up' = 0 /\ sem' = 0
  /\ UNCHANGED <<fixed, child, writers>>

Parent == Create \/ Created \/ Write \/ Post \/ Kill \/ Read \/ Await \/ Remove

-----------------------------------------------------------------------------
(* The child.                                                              *)

(* Where it has no flag to create the objects with it asks until they are  *)
(* there.  A signal can come from here on: it is handled, or blocked.      *)
Open ==
  /\ child = "open" /\ means # "fifos" /\ created >= Objects
  /\ child' = "read" /\ writers' = writers \ {<<"child", "down">>}
  /\ UNCHANGED <<fixed, parent, created, down, up, sem>>

ChildRead ==
  /\ child = "read" /\ means # "sysvsem" /\ down > 0
  /\ ~\E w \in writers : w[2] = "down"
  /\ down' = down - 1
  /\ child' = CASE means \in Signals -> "ended"
                [] means = "fifos" -> "meet"
                [] OTHER -> "answer"
  /\ UNCHANGED <<fixed, parent, created, writers, up, sem>>

(* semop() of {0, -1, 0}.                                                  *)
ChildAwait ==
  /\ child = "read" /\ means = "sysvsem" /\ sem >= 1
  /\ sem' = sem - 1 /\ child' = "answer"
  /\ UNCHANGED <<fixed, parent, created, writers, down, up>>

Answer ==
  /\ child = "answer" /\ means # "sysvsem"
  /\ means = "mqueue" => up < T2_MAX_MSGS
  /\ up' = up + 1 /\ writers' = writers \ {<<"child", "up">>}
  /\ child' = "ended"
  /\ UNCHANGED <<fixed, parent, created, down, sem>>

(* semop() of {0, 0, 0} and {0, 2, 0}.                                     *)
ChildPost ==
  /\ child = "answer" /\ means = "sysvsem" /\ sem = 0
  /\ sem' = 2 /\ child' = "ended"
  /\ UNCHANGED <<fixed, parent, created, writers, down, up>>

Child == Open \/ ChildRead \/ ChildAwait \/ Answer \/ ChildPost

(* open() of a FIFO returns when both ends are open: the one to the second *)
(* process first, then the one back.                                       *)
Meet ==
  /\ means = "fifos"
  /\ \/ /\ parent = "create" /\ child = "open"
        /\ parent' = "write" /\ child' = "read"
     \/ /\ parent = "meet" /\ child = "meet"
        /\ parent' = "read" /\ child' = "answer"
  /\ UNCHANGED <<fixed, created, writers, down, up, sem>>

IpcNext == Parent \/ Child \/ Meet \/ Rerun

-----------------------------------------------------------------------------
(* Where a run comes to rest: at its end, but for the task with one        *)
(* semaphore that has found it other than 0.                               *)

Blocked == parent \in {"write", "read"} /\ child \in {"answer", "ended"}

IpcSettled ==
  IF means = "sysvsem" /\ found > 0 THEN Blocked
                                    ELSE parent = "ended" /\ child \in {"ended", "killed"}

(* In a run that has found nothing, the child has read what the parent has *)
(* written, and the parent what the child has answered.                    *)
InStep ==
  found = 0 =>
    /\ child \in {"meet", "answer", "ended"} => parent \notin {"create", "write"}
    /\ parent \in {"wait", "ended"} /\ means \notin Signals => child = "ended"

=============================================================================
