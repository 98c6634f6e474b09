------------------------------- MODULE MqChat -------------------------------
(***************************************************************************)
(* The chat of homework12 over POSIX message queues.  Everybody logs in    *)
(* through one queue that both sides read and write: requests and the      *)
(* server's answers differ by their priority only, whoever takes a message *)
(* that is not for him puts it back, and an answer is for whoever takes it.*)
(* A user then has two queues of his own, from and to the server, read in  *)
(* the order of priorities.  The client reads his when a notification says *)
(* that a message has come to an empty queue, and then asks for the next   *)
(* notification.  The server polls: one login message, then one message of *)
(* every user in turn.                                                     *)
(*                                                                         *)
(* A user is his number: the slot of the array users, from 1.              *)
(***************************************************************************)
EXTENDS Integers, Sequences, FiniteSets

CONSTANTS
  Clients,         \* client programs, each started once
  LoginMax,        \* T3_LOGIN_Q_MAX_MSGS
  UserMax,         \* T3_USER_Q_MAX_MSGS
  Talkers,         \* bound: clients whose users say something, once
  MaxInterrupts    \* bound: SIGINTs to clients and server together

(* Priorities, which are the commands.                                     *)
USER == 1       MSGSND == 3       SET_USRNAME == 4
UPD_USRLIST == 5                  DISCONNECT == 7

VARIABLES
  server,          \* its program counter
  hand,            \* its own answer, taken from the login queue: 0 or a user
  index,           \* its loop variable, 0 before the first loop over users
  users,           \* by slot: is the user connected (id # -1)
  users_list,      \* the slots whose logins the list holds, 0 for garbage
  requests,        \* T3_USER_PRIO messages in the login queue
  answers,         \* T3_SERVER_PRIO messages in the login queue
  lost,            \* answers that found the login queue full
  client,          \* program counter of each client
  id,              \* user.id of each client
  stc, cts,        \* the queues of each user, as priorities in reading order
  registered,      \* users whose client waits for a notification
  handler,         \* handle_msg of each user: none, reading, rearm
  missed,          \* users to whom a message came while handle_msg rearmed
  interrupts       \* SIGINTs so far

login_q == <<requests, answers, lost>>
array == <<index, users, users_list>>
notify == <<registered, handler, missed>>
vars == <<server, hand, array, login_q, client, id, stc, cts, notify, interrupts>>

Slots == 1..Cardinality(Clients)
Connected(us) == {u \in DOMAIN us : us[u]}
Logged == requests + Len(answers)
Insert(q, p) ==
  SelectSeq(q, LAMBDA x : x >= p) \o <<p>> \o SelectSeq(q, LAMBDA x : x < p)
Offer(q, p) == IF Len(q) < UserMax THEN Insert(q, p) ELSE q

(* l names everybody of S, once, in the order of their numbers.            *)
Names(l, S) ==
  /\ l \in [1..Cardinality(S) -> S]
  /\ \A u \in S : \E i \in DOMAIN l : l[i] = u
  /\ \A i, j \in DOMAIN l : i < j => l[i] < l[j]

(* What the loop over the users leaves in the list.                        *)
Listing(us) ==
  LET C == Connected(us) IN CHOOSE l \in [1..Cardinality(C) -> C] : Names(l, C)

Init ==
  /\ server = "login" /\ hand = 0
  /\ index = 0 /\ users = <<>> /\ users_list = <<>>
  /\ requests = 0 /\ answers = <<>> /\ lost = 0
  /\ client = [c \in Clients |-> "off"] /\ id = [c \in Clients |-> 0]
  /\ stc = [u \in Slots |-> <<>>] /\ cts = [u \in Slots |-> <<>>]
  /\ registered = {} /\ handler = [u \in Slots |-> "none"] /\ missed = {}
  /\ interrupts = 0

(* mq_send without waiting to the users U: a full queue drops the message; *)
(* one that comes to an empty queue starts handle_msg where it is asked    *)
(* for.                                                                    *)
SendTo(U, p) ==
  LET woken == {u \in U \cap registered : stc[u] = <<>>} IN
  /\ stc' = [u \in Slots |-> IF u \in U THEN Offer(stc[u], p) ELSE stc[u]]
  /\ registered' = registered \ woken
  /\ handler' = [u \in Slots |-> IF u \in woken THEN "reading" ELSE handler[u]]
  /\ missed' = missed \cup {u \in U : handler[u] = "rearm"}

-----------------------------------------------------------------------------
(* The server: the login queue.                                            *)

NoLogin ==
  /\ server = "login" /\ Logged = 0
  /\ server' = "users" /\ index' = 1
  /\ UNCHANGED <<hand, users, users_list, login_q, client, id, stc, cts, notify, interrupts>>

TakeAnswer ==
  /\ server = "login" /\ answers # <<>>
  /\ hand' = Head(answers) /\ answers' = Tail(answers)
  /\ server' = "putback"
  /\ UNCHANGED <<array, requests, lost, client, id, stc, cts, notify, interrupts>>

(* The answer goes into the queue, or nowhere if it is full.               *)
Answer(u) ==
  IF Logged < LoginMax THEN answers' = Append(answers, u) /\ lost' = lost
                       ELSE answers' = answers /\ lost' = lost + 1

(* The server takes its own answer for handled.                            *)
PutBackForgotten ==
  /\ server = "putback"
  /\ hand' = 0 /\ server' = "users" /\ index' = 1
  /\ UNCHANGED <<users, users_list, login_q, client, id, stc, cts, notify, interrupts>>

PutBack ==
  /\ server = "putback"
  /\ Answer(hand)
  /\ hand' = 0 /\ server' = "users" /\ index' = 1
  /\ UNCHANGED <<users, users_list, requests, client, id, stc, cts, notify, interrupts>>

TakeRequest ==
  /\ server = "login" /\ answers = <<>> /\ requests > 0
  /\ requests' = requests - 1
  /\ server' = "register"
  /\ UNCHANGED <<hand, array, answers, lost, client, id, stc, cts, notify, interrupts>>

(* A new slot, its queues, and the answer.                                 *)
Register ==
  /\ server = "register"
  /\ users' = Append(users, TRUE)
  /\ Answer(Len(users) + 1)
  /\ server' = "list"
  /\ UNCHANGED <<hand, index, users_list, requests, client, id, stc, cts, notify, interrupts>>

(* The list is extended with users[index].login, index being what the last *)
(* loop left.  In the first round there was none: the server reads a login *)
(* from anywhere, or dies of it.                                           *)
ListNew ==
  /\ server = "list"
  /\ users_list' = Append(users_list, index)
  /\ SendTo(Connected(users), UPD_USRLIST)
  /\ server' = "users" /\ index' = 1
  /\ UNCHANGED <<hand, users, login_q, client, id, cts, interrupts>>

ListNewDies ==
  /\ server = "list" /\ index = 0
  /\ server' = "down"
  /\ UNCHANGED <<hand, array, login_q, client, id, stc, cts, notify, interrupts>>

-----------------------------------------------------------------------------
(* The server: one message of the user at index.                           *)

From(u, p) == server = "users" /\ index = u /\ users[u] /\ cts[u] # <<>> /\ Head(cts[u]) = p
Done(u) == index' = u + 1 /\ cts' = [cts EXCEPT ![u] = Tail(@)]

NothingFrom(u) ==
  /\ server = "users" /\ index = u /\ (users[u] => cts[u] = <<>>)
  /\ index' = u + 1
  /\ UNCHANGED <<server, hand, users, users_list, login_q, client, id, stc, cts, notify,
                 interrupts>>

Message(u) ==
  /\ From(u, USER) /\ Done(u)
  /\ SendTo(Connected(users), MSGSND)
  /\ UNCHANGED <<server, hand, users, users_list, login_q, client, id, interrupts>>

NewName(u) ==
  /\ From(u, SET_USRNAME) /\ Done(u)
  /\ users_list' = Listing(users)
  /\ SendTo(Connected(users), UPD_USRLIST)
  /\ UNCHANGED <<server, hand, users, login_q, client, id, interrupts>>

(* The queues of the user go.  With the last user the server goes too, and *)
(* removes the login queue.                                                *)
Leave(u) ==
  LET others == [users EXCEPT ![u] = FALSE] IN
  /\ From(u, DISCONNECT)
  /\ users' = others
  /\ IF Connected(others) = {}
       THEN /\ server' = "down"
            /\ UNCHANGED <<index, users_list, stc, cts, notify>>
       ELSE /\ Done(u)
            /\ users_list' = Listing(others)
            /\ SendTo(Connected(others), UPD_USRLIST)
            /\ server' = server
  /\ UNCHANGED <<hand, login_q, client, id, interrupts>>

(* The loop over the users has a variable of its own.                      *)
EndRoundOwnIndex ==
  /\ server = "users" /\ index > Len(users)
  /\ server' = "login" /\ index' = 1
  /\ UNCHANGED <<hand, users, users_list, login_q, client, id, stc, cts, notify, interrupts>>

EndRound ==
  /\ server = "users" /\ index > Len(users)
  /\ server' = "login"
  /\ UNCHANGED <<hand, array, login_q, client, id, stc, cts, notify, interrupts>>

(* SIGINT: everybody connected is told.                                    *)
Shutdown ==
  /\ server # "down" /\ interrupts < MaxInterrupts
  /\ interrupts' = interrupts + 1
  /\ SendTo(Connected(users), DISCONNECT)
  /\ server' = "down"
  /\ UNCHANGED <<hand, array, login_q, client, id, cts>>

-----------------------------------------------------------------------------
(* A client: login.                                                        *)

(* mq_send waits while the queue is full.                                  *)
Request(c) ==
  /\ client[c] = "off" /\ server # "down" /\ Logged < LoginMax
  /\ requests' = requests + 1
  /\ client' = [client EXCEPT ![c] = "waiting"]
  /\ UNCHANGED <<server, hand, array, answers, lost, id, stc, cts, notify, interrupts>>

ReceiveRequest(c) ==
  /\ client[c] = "waiting" /\ answers = <<>> /\ requests > 0
  /\ requests' = requests - 1
  /\ client' = [client EXCEPT ![c] = "holding"]
  /\ UNCHANGED <<server, hand, array, answers, lost, id, stc, cts, notify, interrupts>>

ReturnRequest(c) ==
  /\ client[c] = "holding" /\ Logged < LoginMax
  /\ requests' = requests + 1
  /\ client' = [client EXCEPT ![c] = "waiting"]
  /\ UNCHANGED <<server, hand, array, answers, lost, id, stc, cts, notify, interrupts>>

ReceiveAnswer(c) ==
  /\ client[c] = "waiting" /\ answers # <<>>
  /\ id' = [id EXCEPT ![c] = Head(answers)] /\ answers' = Tail(answers)
  /\ client' = [client EXCEPT ![c] = "open"]
  /\ UNCHANGED <<server, hand, array, requests, lost, stc, cts, notify, interrupts>>

(* The user's queues are there unless the server has gone.                 *)
Open(c) ==
  /\ client[c] = "open"
  /\ client' = [client EXCEPT ![c] = IF server = "down" THEN "gone" ELSE "notify"]
  /\ UNCHANGED <<server, hand, array, login_q, id, stc, cts, notify, interrupts>>

Notify(c) ==
  /\ client[c] = "notify"
  /\ registered' = registered \cup {id[c]}
  /\ client' = [client EXCEPT ![c] = "name"]
  /\ UNCHANGED <<server, hand, array, login_q, id, stc, cts, handler, missed, interrupts>>

ToServer(c, p) == cts' = [cts EXCEPT ![id[c]] = Offer(@, p)]

Name(c) ==
  /\ client[c] = "name"
  /\ ToServer(c, SET_USRNAME)
  /\ client' = [client EXCEPT ![c] = "drain"]
  /\ UNCHANGED <<server, hand, array, login_q, id, stc, notify, interrupts>>

-----------------------------------------------------------------------------
(* A client: its queue, its user, its end.                                 *)

Online == {"notify", "name", "drain", "talk", "said"}

(* shutdown_client(): the server is told if its queue has room.            *)
Exit(c) ==
  /\ client' = [client EXCEPT ![c] = "gone"]
  /\ ToServer(c, DISCONNECT)
  /\ registered' = registered \ {id[c]}
  /\ handler' = [handler EXCEPT ![id[c]] = "none"]
  /\ UNCHANGED <<server, hand, array, login_q, id, missed>>

(* The next message, by the main thread before its loop or by handle_msg.  *)
Read(c) ==
  /\ client[c] \in Online
  /\ client[c] = "drain" \/ handler[id[c]] = "reading"
  /\ stc[id[c]] # <<>>
  /\ stc' = [stc EXCEPT ![id[c]] = Tail(@)]
  /\ IF Head(stc[id[c]]) = DISCONNECT
       THEN Exit(c)
       ELSE UNCHANGED <<server, hand, array, login_q, client, id, cts, notify>>
  /\ UNCHANGED interrupts

Drained(c) ==
  /\ client[c] = "drain" /\ stc[id[c]] = <<>>
  /\ client' = [client EXCEPT ![c] = "talk"]
  /\ UNCHANGED <<server, hand, array, login_q, id, stc, cts, notify, interrupts>>

HandledAll(c) ==
  /\ client[c] \in Online /\ handler[id[c]] = "reading" /\ stc[id[c]] = <<>>
  /\ handler' = [handler EXCEPT ![id[c]] = "rearm"]
  /\ UNCHANGED <<server, hand, array, login_q, client, id, stc, cts, registered, missed,
                 interrupts>>

(* A notification is taken to be for good.                                 *)
RearmForgotten(c) ==
  /\ client[c] \in Online /\ handler[id[c]] = "rearm"
  /\ handler' = [handler EXCEPT ![id[c]] = "none"]
  /\ UNCHANGED <<server, hand, array, login_q, client, id, stc, cts, registered, missed,
                 interrupts>>

Rearm(c) ==
  /\ client[c] \in Online /\ handler[id[c]] = "rearm"
  /\ registered' = registered \cup {id[c]}
  /\ handler' = [handler EXCEPT ![id[c]] = "none"]
  /\ UNCHANGED <<server, hand, array, login_q, client, id, stc, cts, missed, interrupts>>

Say(c) ==
  /\ c \in Talkers /\ client[c] = "talk"
  /\ ToServer(c, USER)
  /\ client' = [client EXCEPT ![c] = "said"]
  /\ UNCHANGED <<server, hand, array, login_q, id, stc, notify, interrupts>>

(* F3.                                                                     *)
Quit(c) ==
  /\ client[c] \in {"talk", "said"} /\ Exit(c)
  /\ UNCHANGED <<stc, interrupts>>

(* SIGINT.  A client without queues of its own leaves its request, or the  *)
(* answer, in the login queue.                                             *)
Interrupt(c) ==
  /\ interrupts < MaxInterrupts /\ interrupts' = interrupts + 1
  /\ \/ client[c] \in {"notify", "name", "drain"} /\ Exit(c)
     \/ /\ client[c] \in {"waiting", "holding", "open"}
        /\ client' = [client EXCEPT ![c] = IF @ = "waiting" THEN "gaveup" ELSE "gone"]
        /\ UNCHANGED <<server, hand, array, login_q, id, cts, notify>>
  /\ UNCHANGED stc

-----------------------------------------------------------------------------
Server ==
  \/ NoLogin \/ TakeAnswer \/ PutBack \/ TakeRequest \/ Register \/ ListNew \/ ListNewDies
  \/ \E u \in DOMAIN users : NothingFrom(u) \/ Message(u) \/ NewName(u) \/ Leave(u)
  \/ EndRound \/ Shutdown

Client(c) ==
  \/ Request(c) \/ ReceiveRequest(c) \/ ReturnRequest(c) \/ ReceiveAnswer(c) \/ Open(c)
  \/ Notify(c) \/ Name(c) \/ Read(c) \/ Drained(c) \/ HandledAll(c) \/ Rearm(c)
  \/ Say(c) \/ Quit(c) \/ Interrupt(c)

Next == Server \/ \E c \in Clients : Client(c)

Spec == Init /\ [][Next]_vars

-----------------------------------------------------------------------------
(* Properties.                                                             *)

In(P) == {c \in Clients : client[c] \in P}

(* Each client that waits for a number, or gave up waiting, has a request  *)
(* or an answer in the login queue or in somebody's hand, but for answers  *)
(* the server could not send: fewer than the clients beyond the queue's    *)
(* capacity.                                                               *)
AnswerLedger ==
  server # "down" =>
    /\ Logged + Cardinality(In({"holding"})) + lost
         + (IF server \in {"putback", "register"} THEN 1 ELSE 0)
         = Cardinality(In({"waiting", "holding", "gaveup"}))
    /\ lost > 0 => lost <= Cardinality(Clients \ In({"off"})) - LoginMax

(* Between the loops the list has an entry for every connected user, in    *)
(* order, and in it the user's login, except that in the place of user 1,  *)
(* and of nobody else, there may be garbage.                               *)
ListComplete ==
  server \notin {"down", "list"} =>
    LET l == Listing(users) IN
    /\ DOMAIN users_list = DOMAIN l
    /\ \A i \in DOMAIN l : users_list[i] = l[i] \/ (l[i] = 1 /\ users_list[i] = 0)

(* "Append 'users_list' with connected user": between the loops the list   *)
(* has the logins of the connected users.                                  *)
ListNamesConnected ==
  server \notin {"down", "list"} => users_list = Listing(users)

(* A user in the client's main loop with a message that nobody reads or    *)
(* will be told of got one while handle_msg was between its last look into *)
(* the queue and its mq_notify; in no other way does he become deaf.       *)
DeafOnlyByWindow ==
  \A c \in In({"talk", "said"}) :
    stc[id[c]] # <<>> /\ handler[id[c]] = "none" => id[c] \in missed

=============================================================================
