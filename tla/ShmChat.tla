------------------------------ MODULE ShmChat ------------------------------
(***************************************************************************)
(* The chat of homework13 (third_task_server, third_task_client): one      *)
(* server and its clients over POSIX shared memory.                        *)
(*                                                                         *)
(* A client logs in through one shared segment with four semaphores        *)
(* (l...), guarded by usr_sem, and gets a segment and four semaphores of   *)
(* its own, named after its id.  Each direction of a segment holds one     *)
(* command: ctos is posted with cts_sem, and usr_sem says that the server  *)
(* has read a message; stoc is posted with stc_sem, and srv_sem is the     *)
(* acknowledgement the server waits for, T3_SERVER_TIMEOUT_SEC at most.    *)
(* After a login the server posts the user list to everyone and does not   *)
(* wait.                                                                   *)
(*                                                                         *)
(* Of the commands, T3_SET_USRNAME_COMM and T3_REQ_USRLIST_COMM are left   *)
(* out: the client has no code that sends them.                            *)
(***************************************************************************)
EXTENDS Integers, FiniteSets

CONSTANTS
  Clients,         \* client processes
  None,            \* no client, no command
  MaxMsgs          \* bound: messages the clients send together

ASSUME ConstantsAssumption ==
  IsFiniteSet(Clients) /\ None \notin Clients /\ MaxMsgs \in Nat

VARIABLES
  spc,             \* program counter of the server
  pos,             \* whom its main loop looks at: 0 the login, i user i
  sec,             \* sec_index: whom it is sending to, 0 when at the end
  mode,            \* what for: after a login, for a user, at shutdown
  out,             \* the command it is sending
  users_count, active_users,
  st,              \* per user: "free", "on", "off" (left), "expired" (id -1)
  name,            \* per user: login
  lusr, lcts, lstc, lsrv, lctos, lstoc,   \* login segment and semaphores
  stc, cts, srv, usr, stoc, ctos,         \* per user: segment and semaphores
  pc,              \* program counter of each client's main thread
  hand,            \* each client's msg_handler: "off", "idle", "got"
  uid,             \* each client's id
  said,            \* how many messages the clients have sent
  (* What the properties need, and no code keeps:                          *)
  owed,            \* <<user, message>> posted and not shown yet
  missed           \* users the server gave up waiting for

Users == 1 .. Cardinality(Clients)

serverVars == <<spc, pos, sec, mode, out, users_count, active_users, st, name, missed>>
loginVars == <<lusr, lcts, lstc, lsrv, lctos, lstoc>>
userVars == <<stc, cts, srv, usr, stoc, ctos>>
clientVars == <<pc, hand, uid, said>>
vars == <<serverVars, loginVars, userVars, clientVars, owed>>

(* Commands: T3_MSGSND_COMM, T3_UPD_USRLIST_COMM, T3_DISCONNECT_COMM, and  *)
(* what a new segment holds.                                               *)
Message == [comm : {"msg"}, num : 1 .. MaxMsgs]
List == [comm |-> "list"]
Bye == [comm |-> "bye"]
Zero == [comm |-> "zero"]
Command == Message \cup {List, Bye, Zero}

On == {u \in Users : st[u] = "on"}
(* The first of the users S from index i on, 0 if there is none.           *)
FirstOf(S, i) ==
  LET T == {u \in S : u >= i}
  IN  IF T = {} THEN 0 ELSE CHOOSE u \in T : \A v \in T : u <= v
NextUser(i) == FirstOf(On, i)

Init ==
  /\ spc = "scan" /\ pos = 0 /\ sec = 0 /\ mode = "user" /\ out = Zero
  /\ users_count = 0 /\ active_users = 0
  /\ st = [u \in Users |-> "free"] /\ name = [u \in Users |-> None] /\ missed = {}
  /\ lusr = 1 /\ lcts = 0 /\ lstc = 0 /\ lsrv = 0 /\ lctos = None /\ lstoc = 0
  /\ stc = [u \in Users |-> 0] /\ cts = [u \in Users |-> 0]
  /\ srv = [u \in Users |-> 0] /\ usr = [u \in Users |-> 0]
  /\ stoc = [u \in Users |-> Zero] /\ ctos = [u \in Users |-> Zero]
  /\ pc = [c \in Clients |-> "out"] /\ hand = [c \in Clients |-> "off"]
  /\ uid = [c \in Clients |-> 0] /\ said = 0
  /\ owed = {}

-----------------------------------------------------------------------------
(* The server: its loop over the login and the users.                      *)

(* A mutation: the loop over the users runs one too far.                   *)
SkipPast ==
  /\ spc = "scan"
  /\ IF pos = 0 THEN lcts = 0 ELSE pos <= users_count => st[pos] # "on" \/ cts[pos] = 0
  /\ pos' = IF pos > users_count THEN 0 ELSE pos + 1
  /\ UNCHANGED <<spc, sec, mode, out, users_count, active_users, st, name, missed,
                 loginVars, userVars, clientVars, owed>>

Skip ==
  /\ spc = "scan"
  /\ IF pos = 0 THEN lcts = 0 ELSE pos <= users_count => st[pos] # "on" \/ cts[pos] = 0
  /\ pos' = IF pos >= users_count THEN 0 ELSE pos + 1
  /\ UNCHANGED <<spc, sec, mode, out, users_count, active_users, st, name, missed,
                 loginVars, userVars, clientVars, owed>>

(* A client asks to be registered: it becomes the next user.               *)
Register ==
  /\ spc = "scan" /\ pos = 0 /\ lcts > 0
  /\ lcts' = lcts - 1
  /\ users_count' = users_count + 1 /\ active_users' = active_users + 1
  /\ st' = [st EXCEPT ![users_count'] = "on"]
  /\ name' = [name EXCEPT ![users_count'] = lctos]
  /\ lstoc' = users_count' /\ lstc' = lstc + 1
  /\ spc' = "logwait"
  /\ UNCHANGED <<pos, sec, mode, out, missed, lusr, lsrv, lctos, userVars, clientVars, owed>>

(* The client has its id: the user list goes to everyone, unwaited for.    *)
LoginDone ==
  /\ spc = "logwait" /\ lsrv > 0
  /\ lsrv' = lsrv - 1
  /\ spc' = "write" /\ sec' = NextUser(1) /\ mode' = "login" /\ out' = List
  /\ UNCHANGED <<pos, users_count, active_users, st, name, missed,
                 lusr, lcts, lstc, lctos, lstoc, userVars, clientVars, owed>>

(* The client did not answer in time: its user goes, active_users stays.   *)
LoginExpires ==
  /\ spc = "logwait" /\ lsrv = 0
  /\ st' = [st EXCEPT ![users_count] = "expired"]
  /\ lusr' = lusr + 1
  /\ spc' = "scan" /\ pos' = 1
  /\ UNCHANGED <<sec, mode, out, users_count, active_users, name, missed,
                 lcts, lstc, lsrv, lctos, lstoc, userVars, clientVars, owed>>

(* A mutation: the sender is not released.                                 *)
ResendUnreleased ==
  /\ spc = "scan" /\ pos \in On /\ cts[pos] > 0 /\ ctos[pos].comm = "msg"
  /\ cts' = [cts EXCEPT ![pos] = @ - 1]
  /\ spc' = "write" /\ sec' = NextUser(1) /\ mode' = "user" /\ out' = ctos[pos]
  /\ UNCHANGED <<pos, users_count, active_users, st, name, missed,
                 loginVars, stc, srv, usr, stoc, ctos, clientVars, owed>>

(* T3_MSGSND_COMM: release the sender, send the message to everyone.       *)
Resend ==
  /\ spc = "scan" /\ pos \in On /\ cts[pos] > 0 /\ ctos[pos].comm = "msg"
  /\ cts' = [cts EXCEPT ![pos] = @ - 1]
  /\ usr' = [usr EXCEPT ![pos] = @ + 1]
  /\ spc' = "write" /\ sec' = NextUser(1) /\ mode' = "user" /\ out' = ctos[pos]
  /\ UNCHANGED <<pos, users_count, active_users, st, name, missed,
                 loginVars, stc, srv, stoc, ctos, clientVars, owed>>

(* T3_DISCONNECT_COMM: the user goes; with the last one, the server too.   *)
Disconnect ==
  /\ spc = "scan" /\ pos \in On /\ cts[pos] > 0 /\ ctos[pos] = Bye
  /\ cts' = [cts EXCEPT ![pos] = @ - 1]
  /\ st' = [st EXCEPT ![pos] = "off"]
  /\ active_users' = active_users - 1
  /\ IF active_users' <= 0
       THEN spc' = "down" /\ UNCHANGED <<sec, mode, out>>
       ELSE /\ spc' = "write" /\ mode' = "user" /\ out' = List
            /\ sec' = FirstOf(On \ {pos}, 1)
  /\ missed' = missed \ {pos} /\ owed' = {o \in owed : o[1] # pos}
  /\ UNCHANGED <<pos, users_count, name, loginVars, stc, srv, usr, stoc, ctos,
                 clientVars>>

-----------------------------------------------------------------------------
(* The server: sending a command to every user.                            *)

Write ==
  /\ spc = "write" /\ sec # 0
  /\ stoc' = [stoc EXCEPT ![sec] = out]
  /\ spc' = "post"
  /\ UNCHANGED <<pos, sec, mode, out, users_count, active_users, st, name, missed,
                 loginVars, stc, cts, srv, usr, ctos, clientVars, owed>>

Post ==
  /\ spc = "post"
  /\ stc' = [stc EXCEPT ![sec] = @ + 1]
  /\ owed' = IF out.comm = "msg" THEN owed \cup {<<sec, out>>} ELSE owed
  /\ IF mode = "login"
       THEN spc' = "write" /\ sec' = NextUser(sec + 1)
       ELSE spc' = "wait" /\ UNCHANGED sec
  /\ UNCHANGED <<pos, mode, out, users_count, active_users, st, name, missed,
                 loginVars, cts, srv, usr, stoc, ctos, clientVars>>

(* At shutdown the user's objects go once it has answered, or has not.     *)
Onwards ==
  /\ spc' = "write" /\ sec' = NextUser(sec + 1)
  /\ st' = IF mode = "bye" THEN [st EXCEPT ![sec] = "off"] ELSE st

Acknowledged ==
  /\ spc = "wait" /\ srv[sec] > 0
  /\ srv' = [srv EXCEPT ![sec] = @ - 1]
  /\ Onwards
  /\ UNCHANGED <<pos, mode, out, users_count, active_users, name, missed,
                 loginVars, stc, cts, usr, stoc, ctos, clientVars, owed>>

GiveUp ==
  /\ spc = "wait" /\ srv[sec] = 0
  /\ missed' = IF mode = "bye" THEN missed ELSE missed \cup {sec}
  /\ Onwards
  /\ UNCHANGED <<pos, mode, out, users_count, active_users, name,
                 loginVars, userVars, clientVars, owed>>

(* Everyone has been sent the command; a login ends with sem_post(usr_sem).*)
SentToAll ==
  /\ spc = "write" /\ sec = 0
  /\ spc' = IF mode = "bye" THEN "down" ELSE "scan"
  /\ pos' = CASE mode = "login" -> 1
              [] mode = "user" -> IF pos >= users_count THEN 0 ELSE pos + 1
              [] OTHER -> pos
  /\ lusr' = IF mode = "login" THEN lusr + 1 ELSE lusr
  /\ mode' = IF mode = "bye" THEN mode ELSE "user"
  /\ out' = Zero
  /\ UNCHANGED <<sec, users_count, active_users, st, name, missed,
                 lcts, lstc, lsrv, lctos, lstoc, userVars, clientVars, owed>>

(* SIGINT: shutdown_server() sends T3_DISCONNECT_COMM to everyone.         *)
Shutdown ==
  /\ spc # "down" /\ mode # "bye"
  /\ mode' = "bye" /\ out' = Bye /\ spc' = "write"
  /\ sec' = IF active_users # 0 THEN NextUser(1) ELSE 0
  /\ missed' = {} /\ owed' = {}
  /\ UNCHANGED <<pos, users_count, active_users, st, name, loginVars, userVars, clientVars>>

-----------------------------------------------------------------------------
(* A client.                                                               *)

Goto(c, from, to) == pc[c] = from /\ pc' = [pc EXCEPT ![c] = to]

(* A mutation: the login segment is not locked.                            *)
EnterAtOnce(c) ==
  /\ Goto(c, "out", "ask")
  /\ UNCHANGED <<serverVars, loginVars, userVars, hand, uid, said, owed>>

Enter(c) ==
  /\ Goto(c, "out", "ask") /\ lusr > 0
  /\ lusr' = lusr - 1
  /\ UNCHANGED <<serverVars, lcts, lstc, lsrv, lctos, lstoc, userVars, hand, uid, said, owed>>

Ask(c) ==
  /\ Goto(c, "ask", "await")
  /\ lctos' = c /\ lcts' = lcts + 1
  /\ UNCHANGED <<serverVars, lusr, lstc, lsrv, lstoc, userVars, hand, uid, said, owed>>

(* The client takes the id that the segment holds now.                     *)
Await(c) ==
  /\ Goto(c, "await", "id") /\ lstc > 0
  /\ lstc' = lstc - 1
  /\ uid' = [uid EXCEPT ![c] = lstoc]
  /\ UNCHANGED <<serverVars, lusr, lcts, lsrv, lctos, lstoc, userVars, hand, said, owed>>

(* It opens the objects that the id names: if the server has deleted them, *)
(* it looks for them for ever.                                             *)
Open(c) ==
  /\ Goto(c, "id", "ack") /\ st[uid[c]] = "on"
  /\ UNCHANGED <<serverVars, loginVars, userVars, hand, uid, said, owed>>

Ack(c) ==
  /\ Goto(c, "ack", "chat")
  /\ lsrv' = lsrv + 1
  /\ hand' = [hand EXCEPT ![c] = "idle"]
  /\ UNCHANGED <<serverVars, lusr, lcts, lstc, lctos, lstoc, userVars, uid, said, owed>>

Say(c, cmd, to) ==
  /\ Goto(c, "chat", to)
  /\ ctos' = [ctos EXCEPT ![uid[c]] = cmd]
  /\ cts' = [cts EXCEPT ![uid[c]] = @ + 1]

Send(c) ==
  /\ said < MaxMsgs /\ said' = said + 1
  /\ Say(c, [comm |-> "msg", num |-> said'], "sent")
  /\ UNCHANGED <<serverVars, loginVars, stc, srv, usr, stoc, hand, uid, owed>>

(* A mutation: the client does not wait for the server to read.            *)
ReleasedAtOnce(c) ==
  /\ Goto(c, "sent", "chat")
  /\ UNCHANGED <<serverVars, loginVars, userVars, hand, uid, said, owed>>

Released(c) ==
  /\ Goto(c, "sent", "chat") /\ usr[uid[c]] > 0
  /\ usr' = [usr EXCEPT ![uid[c]] = @ - 1]
  /\ UNCHANGED <<serverVars, loginVars, stc, cts, srv, stoc, ctos, hand, uid, said, owed>>

(* F3: the client tells the server ...                                     *)
Leave(c) ==
  /\ Say(c, Bye, "left")
  /\ UNCHANGED <<serverVars, loginVars, stc, srv, usr, stoc, hand, uid, said, owed>>

End(c) ==
  /\ pc' = [pc EXCEPT ![c] = "dead"] /\ hand' = [hand EXCEPT ![c] = "off"]
  /\ uid' = [uid EXCEPT ![c] = 0]
  /\ UNCHANGED <<serverVars, loginVars, userVars, said, owed>>

(* ... and ends; SIGINT: the client ends and tells nobody.                 *)
Kill(c) == pc[c] \notin {"out", "dead"} /\ End(c)

Notice(c) ==
  /\ hand[c] = "idle" /\ stc[uid[c]] > 0
  /\ stc' = [stc EXCEPT ![uid[c]] = @ - 1]
  /\ hand' = [hand EXCEPT ![c] = "got"]
  /\ UNCHANGED <<serverVars, loginVars, cts, srv, usr, stoc, ctos, pc, uid, said, owed>>

(* A mutation: what is shown is not acknowledged.                          *)
ShowUnacknowledged(c) ==
  /\ hand[c] = "got" /\ stoc[uid[c]] # Bye
  /\ owed' = owed \ {<<uid[c], stoc[uid[c]]>>}
  /\ hand' = [hand EXCEPT ![c] = "idle"]
  /\ UNCHANGED <<serverVars, loginVars, stc, cts, srv, usr, stoc, ctos, pc, uid, said>>

(* msg_handler shows what stoc holds now and acknowledges it.              *)
Show(c) ==
  /\ hand[c] = "got" /\ stoc[uid[c]] # Bye
  /\ owed' = owed \ {<<uid[c], stoc[uid[c]]>>}
  /\ srv' = [srv EXCEPT ![uid[c]] = @ + 1]
  /\ hand' = [hand EXCEPT ![c] = "idle"]
  /\ UNCHANGED <<serverVars, loginVars, stc, cts, usr, stoc, ctos, pc, uid, said>>

(* T3_DISCONNECT_COMM ends the client.                                     *)
Dismissed(c) == hand[c] = "got" /\ stoc[uid[c]] = Bye /\ End(c)

-----------------------------------------------------------------------------
Server ==
  \/ Skip \/ Register \/ LoginDone \/ LoginExpires \/ Resend \/ Disconnect
  \/ Write \/ Post \/ Acknowledged \/ GiveUp \/ SentToAll

Handler(c) == Notice(c) \/ Show(c) \/ Dismissed(c)
Login(c) == Enter(c) \/ Ask(c) \/ Await(c) \/ Open(c) \/ Ack(c)
Client(c) == Login(c) \/ Send(c) \/ Released(c) \/ Leave(c)

Next ==
  \/ Server \/ Shutdown
  \/ \E c \in Clients : Client(c) \/ Handler(c) \/ Kill(c)

Spec == Init /\ [][Next]_vars

(* The kernel runs the server and the threads of the clients; a timed wait *)
(* ends, with its semaphore or without.  Users need not type.              *)
Fairness ==
  /\ WF_vars(Server)
  /\ \A c \in Clients : WF_vars(Released(c)) /\ WF_vars(Handler(c))

-----------------------------------------------------------------------------
(* Properties.                                                             *)

(* Every variable keeps its type.                                          *)
TypeOK ==
  /\ spc \in {"scan", "logwait", "write", "post", "wait", "down"}
  /\ pos \in 0 .. Cardinality(Clients) /\ sec \in Users \cup {0}
  /\ mode \in {"login", "user", "bye"} /\ out \in Command
  /\ users_count \in 0 .. Cardinality(Clients) /\ active_users \in Nat
  /\ st \in [Users -> {"free", "on", "off", "expired"}]
  /\ name \in [Users -> Clients \cup {None}] /\ missed \subseteq Users
  /\ {lusr, lcts, lstc, lsrv} \subseteq Nat
  /\ lctos \in Clients \cup {None} /\ lstoc \in Users \cup {0}
  /\ {stc, cts, srv, usr} \subseteq [Users -> Nat]
  /\ {stoc, ctos} \subseteq [Users -> Command]
  /\ pc \in [Clients -> {"out", "ask", "await", "id", "ack", "chat", "sent", "left", "dead"}]
  /\ hand \in [Clients -> {"off", "idle", "got"}]
  /\ uid \in [Clients -> Users \cup {0}] /\ said \in 0 .. MaxMsgs
  /\ owed \subseteq Users \X Message

NoneExpired == \A u \in Users : st[u] # "expired"

(* If no login has expired, the id a client reads is the one the server    *)
(* gave to it, so no two clients share a segment, and the server has       *)
(* written down who it is.                                                 *)
OwnId ==
  NoneExpired => \A c \in Clients : uid[c] # 0 => name[uid[c]] = c

(* If no login has expired, the server parses each command before the      *)
(* client can write the next one into the same buffer.                     *)
CommandKept ==
  NoneExpired => \A u \in Users :
    /\ cts[u] + usr[u] <= 1
    /\ \A c \in Clients : uid[c] = u /\ pc[c] = "chat" => cts[u] = 0

(* "active_users - number of users, currently connected": the number that  *)
(* decides when the server ends.                                           *)
ActiveUsers ==
  mode # "bye" => active_users = Cardinality(On)

(* Between two commands, what is under way from a user the server never    *)
(* gave up on - posts not taken, acknowledgements not waited for - is one  *)
(* for each login since the user's own, its own included, and not one more *)
(* or less: those user lists are posted and never waited for.  A wait may  *)
(* so end with the acknowledgement of an earlier command.                  *)
AckLedger ==
  spc = "scan" /\ NoneExpired /\ mode # "bye" =>
    \A c \in Clients : uid[c] \in On \ missed /\ pc[c] \in {"chat", "sent"} =>
      stc[uid[c]] + srv[uid[c]] + (IF hand[c] = "got" THEN 1 ELSE 0)
        = users_count - uid[c] + 1

(* "If user has sent a message -> resend it to every connected user": a    *)
(* user that has taken every post from the server has been shown every     *)
(* message it was sent.                                                    *)
ResentToEveryUser ==
  mode # "bye" => \A c \in Clients :
    LET u == uid[c] IN
    u \in On \ missed /\ hand[c] = "idle" /\ stc[u] = 0 =>
      \A m \in Message : <<u, m>> \notin owed

(* A client that has sent a message gets on, whoever is killed meanwhile.  *)
SenderReleased ==
  \A c \in Clients : pc[c] = "sent" ~> pc[c] # "sent" \/ ~ NoneExpired

=============================================================================
