----------------------------- MODULE SocketTasks -----------------------------
(***************************************************************************)
(* The tasks of homework15.  Each forks a client and goes on as the server *)
(* of one exchange: over a local stream (1), local datagrams (2), TCP (3)  *)
(* or UDP (4).  Nothing makes the client wait for the server to be ready   *)
(* but a few retries of connect(), and the server waits without limit.     *)
(* Both can be interrupted and the program run again: what they leave in   *)
(* the file system, or the port, is what the next run finds.               *)
(***************************************************************************)
EXTENDS Integers

CONSTANTS
  CONN_RETRIES,    \* T1_CONN_RETRIES to T4_CONN_RETRIES
  MaxRuns          \* bound: runs of the program

VARIABLES
  task,            \* 1 to 4
  addr,            \* the server's address: none, stale, bound, listening
  caddr,           \* the client's, in task 2
  host, peer,      \* program counters of the server and of the client
  tries,           \* index of the client's loop
  to_peer, to_host, \* messages under way
  runs

socketVars == <<task, addr, caddr, host, peer, tries, to_peer, to_host, runs>>
local == <<task, runs>>

Local == task \in {1, 2}      \* AF_LOCAL
Stream == task \in {1, 3}     \* SOCK_STREAM

Fresh ==
  /\ host' = "bind" /\ peer' = IF task = 2 THEN "bind" ELSE "connect"
  /\ tries' = 0 /\ to_peer' = 0 /\ to_host' = 0

SocketInit ==
  /\ task \in 1..4 /\ addr = "none" /\ caddr = "none"
  /\ host = "bind" /\ peer = IF task = 2 THEN "bind" ELSE "connect"
  /\ tries = 0 /\ to_peer = 0 /\ to_host = 0 /\ runs = 1

(* SIGINT ends both; files stay, a TCP port stays taken for a while if     *)
(* there was a connection.                                                 *)
Again ==
  /\ runs < MaxRuns /\ runs' = runs + 1
  /\ \/ Local /\ addr' = IF addr = "none" THEN "none" ELSE "stale"
     \/ ~Local /\ addr' = "none"
     \/ task = 3 /\ (addr = "stale" \/ peer \in {"recv", "send", "ok"}) /\ addr' = "stale"
  /\ caddr' = IF caddr = "none" THEN "none" ELSE "stale"
  /\ Fresh
  /\ UNCHANGED task

-----------------------------------------------------------------------------
(* The client.                                                             *)

(* One more attempt, or exit.                                              *)
Retry ==
  IF tries + 1 < CONN_RETRIES THEN tries' = tries + 1 /\ peer' = peer
                              ELSE tries' = tries /\ peer' = "failed"

BindOwn ==
  /\ peer = "bind" /\ caddr = "none"
  /\ caddr' = "bound" /\ peer' = "connect" /\ tries' = 0
  /\ UNCHANGED <<local, addr, host, to_peer, to_host>>

BindOwnTaken ==
  /\ peer = "bind" /\ caddr # "none" /\ Retry
  /\ UNCHANGED <<local, addr, caddr, host, to_peer, to_host>>

(* A stream needs a listening server, a local datagram a bound one; UDP    *)
(* has nobody to ask.                                                      *)
Reachable == task = 4 \/ addr = IF Stream THEN "listening" ELSE "bound"

Connect ==
  /\ peer = "connect" /\ Reachable
  /\ peer' = IF Stream THEN "recv" ELSE "send"
  /\ UNCHANGED <<local, addr, caddr, host, tries, to_peer, to_host>>

(* ECONNREFUSED, or ENOENT where no file has the name: task 2 does not     *)
(* retry after that.                                                       *)
ConnectRefused ==
  /\ peer = "connect" /\ ~Reachable
  /\ IF task = 2 /\ addr = "none" THEN peer' = "failed" /\ tries' = tries ELSE Retry
  /\ UNCHANGED <<local, addr, caddr, host, to_peer, to_host>>

(* A UDP datagram to a port nobody has is refused: recv() says so.         *)
Send ==
  /\ peer = "send"
  /\ IF Stream \/ addr = "bound"
       THEN /\ to_host' = to_host + 1
            /\ peer' = IF Stream THEN "ok" ELSE "recv"
       ELSE to_host' = to_host /\ peer' = "failed"
  /\ UNCHANGED <<local, addr, caddr, host, tries, to_peer>>

Recv ==
  /\ peer = "recv" /\ to_peer > 0
  /\ to_peer' = to_peer - 1
  /\ peer' = IF Stream THEN "send" ELSE "ok"
  /\ UNCHANGED <<local, addr, caddr, host, tries, to_host>>

Client == BindOwn \/ BindOwnTaken \/ Connect \/ ConnectRefused \/ Send \/ Recv

-----------------------------------------------------------------------------
(* The server.                                                             *)

Bind ==
  /\ host = "bind" /\ addr = "none"
  /\ addr' = "bound" /\ host' = IF Stream THEN "listen" ELSE "recv"
  /\ UNCHANGED <<local, caddr, peer, tries, to_peer, to_host>>

(* EADDRINUSE: a local server removes the file and binds again.            *)
BindTakenExits ==
  /\ host = "bind" /\ addr = "stale"
  /\ host' = "failed"
  /\ UNCHANGED <<local, addr, caddr, peer, tries, to_peer, to_host>>

BindTaken ==
  /\ host = "bind" /\ addr = "stale"
  /\ IF Local THEN addr' = "none" /\ host' = host ELSE addr' = addr /\ host' = "failed"
  /\ UNCHANGED <<local, caddr, peer, tries, to_peer, to_host>>

Listen ==
  /\ host = "listen"
  /\ addr' = "listening" /\ host' = "accept"
  /\ UNCHANGED <<local, caddr, peer, tries, to_peer, to_host>>

(* A client that has connected is waiting for the server's message.        *)
Accept ==
  /\ host = "accept" /\ peer = "recv"
  /\ host' = "send"
  /\ UNCHANGED <<local, addr, caddr, peer, tries, to_peer, to_host>>

HostSend ==
  /\ host = "send"
  /\ to_peer' = to_peer + 1 /\ host' = IF Stream THEN "recv" ELSE "wait"
  /\ UNCHANGED <<local, addr, caddr, peer, tries, to_host>>

HostRecv ==
  /\ host = "recv" /\ to_host > 0
  /\ to_host' = to_host - 1 /\ host' = IF Stream THEN "wait" ELSE "send"
  /\ UNCHANGED <<local, addr, caddr, peer, tries, to_peer>>

(* wait() for the client, then the files are removed.                      *)
Clean ==
  /\ host = "wait" /\ peer \in {"ok", "failed"}
  /\ addr' = "none" /\ caddr' = "none" /\ host' = "ended"
  /\ UNCHANGED <<local, peer, tries, to_peer, to_host>>

Server == Bind \/ BindTaken \/ Listen \/ Accept \/ HostSend \/ HostRecv \/ Clean

SocketNext == Client \/ Server \/ Again

-----------------------------------------------------------------------------
(* Where a run can come to rest.                                           *)

Through == peer = "ok" /\ host = "ended"

(* The client has given up, the server is left waiting for it.             *)
Forlorn == peer = "failed" /\ host = IF Stream THEN "accept" ELSE "recv"

(* A run of task 2 that fails leaves its client's file, with which every   *)
(* later run fails.                                                        *)
SocketSettled ==
  \/ Through
  \/ Forlorn /\ (task = 2 => caddr # "none")
  \/ task = 3 /\ peer = "failed" /\ host = "failed"

=============================================================================
