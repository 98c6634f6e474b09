--------------------------- MODULE ShmChat_proofs ---------------------------
(***************************************************************************)
(* Proofs about the shared-memory chat of homework13, for every number of  *)
(* clients and messages: types, the count of active users, the numbers the *)
(* clients log in with, the commands they send, and the acknowledgements   *)
(* under way.                                                              *)
(***************************************************************************)
EXTENDS ShmChat, Counting

At(P) == {c \in Clients : pc[c] \in P}
B(x) == IF x THEN 1 ELSE 0

-----------------------------------------------------------------------------
(* The invariants.                                                         *)

(* A number was given for one request, and a request is of a client that   *)
(* came; the segment holds the last number.                                *)
Numbered ==
  /\ users_count + lcts <= Cardinality(Clients \ At({"out", "ask"}))
  /\ \A u \in Users : st[u] = "free" <=> u > users_count
  /\ lstoc = users_count
  /\ \A c \in Clients : uid[c] <= users_count

(* Where the server can be in what it is doing.                            *)
Phases ==
  /\ spc \in {"scan", "logwait"} => mode = "user"
  /\ spc = "logwait" => users_count > 0 /\ st[users_count] = "on"
  /\ mode = "login" => users_count > 0 /\ spc \in {"write", "post"}
  /\ spc \in {"post", "wait"} => sec # 0
  /\ spc \in {"write", "post", "wait"} /\ sec # 0 => sec \in On

(* As long as no login expires, there is one login at a time: usr_sem, the *)
(* request, the answer, the acknowledgement and the list after it are one  *)
(* token, which a killed client takes with it.                             *)
Token ==
  lusr + Cardinality(At({"ask"})) + lcts + lstc + Cardinality(At({"id", "ack"})) + lsrv
    + B(mode = "login") <= 1
Awaited ==
  /\ Cardinality(At({"await"})) <= lcts + lstc
  /\ \A c \in At({"await"}) : lctos = c /\ (lstc > 0 => name[users_count] = c)
Logged ==
  mode # "bye" =>
    /\ lstc > 0 \/ lsrv > 0 => spc = "logwait"
    /\ \A c \in At({"id", "ack"}) : spc = "logwait" /\ uid[c] = users_count
Logins ==
  NoneExpired => /\ Token /\ Awaited /\ Logged
                 /\ \A c \in Clients : uid[c] # 0 => name[uid[c]] = c

(* A command is on its way, or its release is, only from a client that     *)
(* waits for the release or has left.                                      *)
Quiet(u) == cts[u] = 0 /\ usr[u] = 0
Commands ==
  NoneExpired =>
    /\ \A u \in Users : cts[u] + usr[u] <= 1
    /\ \A c \in Clients : uid[c] # 0 /\ pc[c] \notin {"sent", "left"} => Quiet(uid[c])
    /\ \A u \in Users : u > users_count => Quiet(u)
    /\ lstc > 0 => users_count > 0 /\ Quiet(users_count) /\ \A c \in Clients : uid[c] # users_count

(* What is under way from user u, in every phase of the server.            *)
UnderWay(c) == stc[uid[c]] + srv[uid[c]] + B(hand[c] = "got")
Due(u) ==
  users_count - u +
    (IF spc = "logwait" THEN 0
     ELSE IF mode = "login" THEN B(sec = 0 \/ u < sec)
     ELSE 1 + B(spc = "wait" /\ u = sec))
Ledger ==
  NoneExpired /\ mode # "bye" /\ spc # "down" =>
    /\ \A c \in Clients :
         uid[c] \in On \ missed /\ pc[c] \in {"chat", "sent"} => UnderWay(c) = Due(uid[c])
    /\ \A u \in Users : u > users_count => stc[u] = 0 /\ srv[u] = 0
    /\ spc = "logwait" =>
         /\ stc[users_count] = 0 /\ srv[users_count] = 0
         /\ \A c \in Clients : uid[c] = users_count => hand[c] # "got"

Handlers == \A c \in Clients : pc[c] \notin {"chat", "sent", "left"} => hand[c] = "off"

-----------------------------------------------------------------------------
(* Types.                                                                  *)

(* TypeOK without its sets of variables.                                   *)
Typed ==
  /\ spc \in {"scan", "logwait", "write", "post", "wait", "down"}
  /\ pos \in 0 .. Cardinality(Clients) /\ sec \in Users \cup {0}
  /\ mode \in {"login", "user", "bye"} /\ out \in Command
  /\ users_count \in 0 .. Cardinality(Clients) /\ active_users \in Nat
  /\ st \in [Users -> {"free", "on", "off", "expired"}]
  /\ name \in [Users -> Clients \cup {None}] /\ missed \subseteq Users
  /\ lusr \in Nat /\ lcts \in Nat /\ lstc \in Nat /\ lsrv \in Nat
  /\ lctos \in Clients \cup {None} /\ lstoc \in Users \cup {0}
  /\ stc \in [Users -> Nat] /\ cts \in [Users -> Nat]
  /\ srv \in [Users -> Nat] /\ usr \in [Users -> Nat]
  /\ stoc \in [Users -> Command] /\ ctos \in [Users -> Command]
  /\ pc \in [Clients -> {"out", "ask", "await", "id", "ack", "chat", "sent", "left", "dead"}]
  /\ hand \in [Clients -> {"off", "idle", "got"}]
  /\ uid \in [Clients -> Users \cup {0}] /\ said \in 0 .. MaxMsgs
  /\ owed \subseteq Users \X Message

LEMMA TypedIs == (TypeOK <=> Typed) /\ (TypeOK' <=> Typed')
  BY DEF TypeOK, Typed

LEMMA Sizes ==
  /\ IsFiniteSet(Clients) /\ Cardinality(Clients) \in Nat /\ MaxMsgs \in Nat
  /\ Users = 1 .. Cardinality(Clients) /\ IsFiniteSet(Users) /\ 0 \notin Users
  /\ \A P : At(P) = Where(Clients, pc, P)
  <1>1. IsFiniteSet(Clients) /\ Cardinality(Clients) \in Nat
    BY ConstantsAssumption, FS_CardinalityType
  <1>2. IsFiniteSet(1 .. Cardinality(Clients))
    BY <1>1, UpTo
  <1> QED
    BY <1>1, <1>2, ConstantsAssumption DEF Users, At, Where

LEMMA FirstIs ==
  ASSUME NEW S, S \subseteq Users, NEW i \in Nat
  PROVE  /\ FirstOf(S, i) = 0 => \A u \in S : u < i
         /\ FirstOf(S, i) # 0 => /\ FirstOf(S, i) \in S /\ FirstOf(S, i) >= i
                                 /\ \A u \in S : u >= i => FirstOf(S, i) <= u
         /\ FirstOf(S, i) \in Users \cup {0}
  <1> DEFINE T == {u \in S : u >= i}
  <1>1. T \subseteq Nat /\ S \subseteq Nat /\ 0 \notin Users
    <2>1. PICK n \in Nat : Users = 1 .. n
      BY Sizes
    <2>2. Users \subseteq Nat
      BY <2>1
    <2> QED
      BY <2>2, Sizes
  <1>2. CASE T = {}
    <2>1. FirstOf(S, i) = 0
      BY <1>2 DEF FirstOf
    <2> QED
      BY <1>1, <1>2, <2>1
  <1>3. CASE T # {}
    <2>1. \E u \in T : \A v \in T : u <= v
      BY <1>1, <1>3, LeastOf
    <2>2. FirstOf(S, i) = CHOOSE u \in T : \A v \in T : u <= v
      BY <1>3 DEF FirstOf
    <2>3. FirstOf(S, i) \in T /\ \A v \in T : FirstOf(S, i) <= v
      BY <2>1, <2>2
    <2> QED
      BY <1>1, <2>3
  <1> QED
    BY <1>2, <1>3

(* Semaphores of users: posted, taken.                                     *)
LEMMA Posted ==
  ASSUME NEW f \in [Users -> Nat], NEW x
  PROVE  /\ [f EXCEPT ![x] = @ + 1] \in [Users -> Nat]
         /\ f[x] > 0 => [f EXCEPT ![x] = @ - 1] \in [Users -> Nat]
  <1>1. \A u \in Users : f[u] + 1 \in Nat /\ (f[u] > 0 => f[u] - 1 \in Nat)
    OBVIOUS
  <1>2. CASE x \in Users
    BY <1>1, <1>2
  <1>3. CASE x \notin Users
    BY <1>3
  <1> QED
    BY <1>2, <1>3

LEMMA InitTyped == Init => Typed
  <1> SUFFICES ASSUME Init PROVE Typed
    OBVIOUS
  <1>1. Zero \in Command /\ {} \subseteq Users \X Message
    BY DEF Command
  <1> QED
    BY <1>1, Sizes, ConstantsAssumption DEF Init, Typed

(* What the typing of a step needs of the numbers and phases.              *)
Ranges ==
  /\ users_count + lcts <= Cardinality(Clients)
  /\ spc = "scan" /\ (\E u \in Users : st[u] \in {"on", "expired"}) => active_users > 0
  /\ mode = "login" \/ spc = "logwait" => users_count > 0
  /\ spc \in {"post", "wait"} => sec # 0

LEMMA ServerTyped ==
  ASSUME Typed, Ranges, Server \/ Shutdown
  PROVE  Typed'
  <1> USE DEF Typed, loginVars, userVars, clientVars
  <1>1. /\ Cardinality(Clients) \in Nat /\ Users = 1 .. Cardinality(Clients) /\ 0 \notin Users
        /\ MaxMsgs \in Nat
    BY Sizes
  <1>2. /\ List \in Command /\ Bye \in Command /\ Zero \in Command
        /\ List.comm # "msg" /\ Bye.comm # "msg" /\ Zero.comm # "msg"
        /\ \A x \in Command : x.comm = "msg" => x \in Message
    BY DEF Command, List, Bye, Zero, Message
  <1>3. On \subseteq Users /\ \A i \in Nat : NextUser(i) \in Users \cup {0}
    BY FirstIs DEF On, NextUser
  <1>4. CASE Skip
    <2>1. pos' \in 0 .. Cardinality(Clients)
      <3>1. PICK n \in Nat : n = Cardinality(Clients) /\ pos \in 0 .. n /\ users_count \in 0 .. n
        BY <1>1
      <3>2. pos' = (IF pos >= users_count THEN 0 ELSE pos + 1)
        BY <1>4 DEF Skip
      <3>3. pos' \in 0 .. n
        BY <3>1, <3>2
      <3> QED
        BY <3>1, <3>3
    <2>2. UNCHANGED <<spc, sec, mode, out, users_count, active_users, st, name, missed, lusr, lcts,
                      lstc, lsrv, lctos, lstoc, stc, cts, srv, usr, stoc, ctos, pc, hand, uid, said,
                      owed>>
      BY <1>4 DEF Skip
    <2> QED
      BY <2>1, <2>2
  <1>5. CASE Register
    <2>1. lcts - 1 \in Nat /\ lstc + 1 \in Nat /\ active_users + 1 \in Nat
      BY <1>5 DEF Register
    <2>2. lcts > 0 /\ users_count + lcts <= Cardinality(Clients) /\ users_count \in Nat
      BY <1>1, <1>5 DEF Register, Ranges
    <2>3. users_count + 1 \in Users /\ users_count + 1 \in 0 .. Cardinality(Clients)
      <3>1. PICK n \in Nat : n = Cardinality(Clients)
        BY <1>1
      <3>2. users_count + 1 <= n
        BY <2>2, <3>1, <1>5 DEF Register
      <3> QED
        BY <1>1, <2>2, <3>1, <3>2
    <2> QED
      BY <1>5, <2>1, <2>3 DEF Register
  <1>6. CASE LoginDone
    BY <1>2, <1>3, <1>6 DEF LoginDone
  <1>7. CASE LoginExpires
    <2>1. 1 \in 0 .. Cardinality(Clients) /\ lusr + 1 \in Nat
      BY <1>1, <1>7 DEF LoginExpires, Ranges
    <2> QED
      BY <1>7, <2>1 DEF LoginExpires
  <1>8. CASE Resend
    <2>1. pos \in Users /\ ctos[pos] \in Command /\ NextUser(1) \in Users \cup {0}
      BY <1>3, <1>8 DEF Resend, On
    <2>2. cts' \in [Users -> Nat] /\ usr' \in [Users -> Nat]
      BY <1>8, <2>1 DEF Resend
    <2> QED
      BY <1>8, <2>1, <2>2 DEF Resend
  <1>9. CASE Disconnect
    <2>1. pos \in Users /\ st[pos] = "on" /\ spc = "scan"
      BY <1>9 DEF Disconnect, On
    <2>2. active_users - 1 \in Nat
      BY <2>1 DEF Ranges
    <2>3. cts' \in [Users -> Nat]
      BY <1>9, <2>1 DEF Disconnect
    <2>4. On \ {pos} \subseteq Users
      BY <1>3
    <2>5. FirstOf(On \ {pos}, 1) \in Users \cup {0}
      BY <2>4, FirstIs
    <2>6. /\ sec' \in Users \cup {0} /\ mode' \in {"login", "user", "bye"} /\ out' \in Command
          /\ spc' \in {"write", "down"}
      BY <1>2, <1>9, <2>5 DEF Disconnect
    <2> QED
      BY <1>9, <2>2, <2>3, <2>6 DEF Disconnect
  <1>10. CASE Write
    BY <1>10 DEF Write
  <1>11. CASE Post
    <2>1. sec \in Users /\ sec + 1 \in Nat
      BY <1>1, <1>11 DEF Post, Ranges
    <2>2. sec' \in Users \cup {0} /\ spc' \in {"write", "wait"}
      BY <1>3, <1>11, <2>1 DEF Post
    <2>3. owed' \subseteq Users \X Message
      BY <1>2, <1>11, <2>1 DEF Post
    <2>4. stc' \in [Users -> Nat]
      BY <1>11, <2>1 DEF Post
    <2> QED
      BY <1>11, <2>2, <2>3, <2>4 DEF Post
  <1>12. ASSUME Onwards, sec \in Users
         PROVE  /\ sec' \in Users \cup {0} /\ spc' = "write"
                /\ st' \in [Users -> {"free", "on", "off", "expired"}]
    <2>1. sec + 1 \in Nat
      BY <1>1, <1>12
    <2> QED
      BY <1>3, <1>12, <2>1 DEF Onwards
  <1>13. CASE Acknowledged
    <2>1. sec \in Users
      BY <1>13 DEF Acknowledged, Ranges
    <2>2. srv' \in [Users -> Nat]
      BY <1>13, <2>1 DEF Acknowledged
    <2> QED
      BY <1>12, <1>13, <2>1, <2>2 DEF Acknowledged
  <1>14. CASE GiveUp
    <2>1. sec \in Users
      BY <1>14 DEF GiveUp, Ranges
    <2> QED
      BY <1>12, <1>14, <2>1 DEF GiveUp
  <1>15. CASE SentToAll
    <2>1. pos' \in 0 .. Cardinality(Clients)
      <3>1. CASE mode = "login"
        BY <1>1, <1>15, <3>1 DEF SentToAll, Ranges
      <3>2. CASE mode = "user"
        BY <1>1, <1>15, <3>2 DEF SentToAll
      <3>3. CASE mode = "bye"
        BY <1>15, <3>3 DEF SentToAll
      <3> QED
        BY <3>1, <3>2, <3>3
    <2>2. lusr' \in Nat /\ mode' \in {"login", "user", "bye"} /\ spc' \in {"down", "scan"}
      BY <1>15 DEF SentToAll
    <2> QED
      BY <1>2, <1>15, <2>1, <2>2 DEF SentToAll
  <1>16. CASE Shutdown
    BY <1>2, <1>3, <1>16 DEF Shutdown
  <1> QED
    BY <1>4, <1>5, <1>6, <1>7, <1>8, <1>9, <1>10, <1>11, <1>13, <1>14, <1>15, <1>16 DEF Server

ClientStep(c) == Client(c) \/ Handler(c) \/ Kill(c)

LEMMA ClientTyped ==
  ASSUME Typed, NEW c \in Clients, ClientStep(c)
  PROVE  Typed'
  <1> USE DEF Typed, serverVars, loginVars, userVars
  <1>1. Bye \in Command /\ \A n \in 1 .. MaxMsgs : [comm |-> "msg", num |-> n] \in Command
    BY DEF Command, Message
  <1>2. CASE Enter(c)
    BY <1>2 DEF Enter, Goto
  <1>3. CASE Ask(c)
    BY <1>3 DEF Ask, Goto
  <1>4. CASE Await(c)
    BY <1>4 DEF Await, Goto
  <1>5. CASE Open(c)
    BY <1>5 DEF Open, Goto
  <1>6. CASE Ack(c)
    BY <1>6 DEF Ack, Goto
  <1>7. ASSUME NEW cmd \in Command, NEW to \in {"sent", "left"}, Say(c, cmd, to)
        PROVE  /\ pc' \in [Clients -> {"out", "ask", "await", "id", "ack", "chat", "sent",
                                       "left", "dead"}]
               /\ ctos' \in [Users -> Command] /\ cts' \in [Users -> Nat]
    <2>1. cts' \in [Users -> Nat]
      BY <1>7, Posted DEF Say
    <2> QED
      BY <1>7, <2>1 DEF Say, Goto
  <1>8. CASE Send(c)
    <2>1. said' \in 1 .. MaxMsgs /\ said' \in 0 .. MaxMsgs
      BY <1>8, Sizes DEF Send
    <2> QED
      BY <1>1, <1>7, <1>8, <2>1 DEF Send
  <1>9. CASE Released(c)
    <2>1. usr' \in [Users -> Nat]
      BY <1>9, Posted DEF Released
    <2> QED
      BY <1>9, <2>1 DEF Released, Goto
  <1>10. CASE Leave(c)
    BY <1>1, <1>7, <1>10 DEF Leave
  <1>11. CASE End(c)
    BY <1>11 DEF End
  <1>12. CASE Notice(c)
    <2>1. stc' \in [Users -> Nat]
      BY <1>12, Posted DEF Notice
    <2> QED
      BY <1>12, <2>1 DEF Notice
  <1>13. CASE Show(c)
    <2>1. srv' \in [Users -> Nat]
      BY <1>13, Posted DEF Show
    <2>2. owed' \subseteq owed
      BY <1>13 DEF Show
    <2> QED
      BY <1>13, <2>1, <2>2 DEF Show
  <1> QED
    BY <1>2, <1>3, <1>4, <1>5, <1>6, <1>8, <1>9, <1>10, <1>11, <1>12, <1>13
       DEF ClientStep, Client, Handler, Login, Dismissed, Kill

-----------------------------------------------------------------------------
(* Numbers, phases and the count of active users.                          *)

(* The count's invariant: an expired login is not counted down.            *)
ActiveOrExpired ==
  mode # "bye" =>
    active_users = Cardinality({u \in Users : st[u] \in {"on", "expired"}})

Base == Typed /\ Numbered /\ Phases /\ ActiveOrExpired

(* The clients that have come: they, or the server, have used their turn.  *)
Since == {"await", "id", "ack", "chat", "sent", "left", "dead"}
Active == {"on", "expired"}

LEMMA Counted ==
  /\ Typed => Clients \ At({"out", "ask"}) = Where(Clients, pc, Since)
  /\ Typed' => (Clients \ At({"out", "ask"}))' = Where(Clients, pc', Since)
  /\ {u \in Users : st[u] \in {"on", "expired"}} = Where(Users, st, Active)
  /\ {u \in Users : st'[u] \in {"on", "expired"}} = Where(Users, st', Active)
  BY DEF Typed, At, Where, Since, Active

LEMMA BaseRanges ==
  ASSUME Base
  PROVE  Ranges
  <1>1. Cardinality(Where(Clients, pc, Since)) <= Cardinality(Clients)
        /\ Cardinality(Where(Clients, pc, Since)) \in Nat
    <2>1. Where(Clients, pc, Since) \subseteq Clients
      BY DEF Where
    <2> QED
      BY <2>1, Sizes, FS_Subset, FS_CardinalityType
  <1>2. users_count + lcts <= Cardinality(Clients)
    <2>1. PICK m, n : m = Cardinality(Where(Clients, pc, Since)) /\ n = Cardinality(Clients)
      OBVIOUS
    <2>2. users_count \in 0 .. n /\ lcts \in Nat /\ n \in Nat
      BY <2>1, Sizes DEF Base, Typed
    <2>3. Clients \ At({"out", "ask"}) = Where(Clients, pc, Since)
      BY Counted DEF Base
    <2>4. users_count + lcts <= m
      BY <2>1, <2>3 DEF Base, Numbered
    <2>5. m \in Nat /\ m <= n
      BY <1>1, <2>1
    <2>6. users_count + lcts <= n
      BY <2>2, <2>4, <2>5
    <2> QED
      BY <2>1, <2>6
  <1>3. ASSUME spc = "scan", NEW u \in Users, st[u] \in {"on", "expired"}
        PROVE  active_users > 0
    <2>1. active_users = Cardinality(Where(Users, st, Active)) /\ active_users \in Nat
      BY <1>3, Counted DEF Base, Phases, ActiveOrExpired, Typed
    <2>2. Where(Users, st, Active) # {} /\ IsFiniteSet(Where(Users, st, Active))
      <3>1. IsFiniteSet(Users)
        BY Sizes
      <3>2. u \in Where(Users, st, Active)
        BY <1>3 DEF Where, Active
      <3> QED
        BY <3>1, <3>2, WhereFinite
    <2>3. active_users # 0
      BY <2>1, <2>2, FS_EmptySet
    <2> QED
      BY <2>1, <2>3
  <1> QED
    BY <1>2, <1>3 DEF Base, Phases, Ranges

LEMMA InitBase == Init => Base
  <1> SUFFICES ASSUME Init PROVE Base
    OBVIOUS
  <1>1. Typed
    BY InitTyped
  <1>2. /\ users_count = 0 /\ lcts = 0 /\ lstoc = 0 /\ active_users = 0 /\ spc = "scan"
        /\ mode = "user" /\ sec = 0 /\ st = [u \in Users |-> "free"]
        /\ uid = [c \in Clients |-> 0]
    BY DEF Init
  <1>3. Cardinality(Where(Clients, pc, Since)) \in Nat
    BY WhereFinite, Sizes
  <1>4. Users \subseteq Nat \ {0}
    <2>1. PICK n \in Nat : Users = 1 .. n
      BY Sizes
    <2> QED
      BY <2>1
  <1>5. Numbered
    <2>1. PICK m \in Nat : m = Cardinality(Clients \ At({"out", "ask"}))
      BY <1>1, <1>3, Counted
    <2>2. 0 + 0 <= m
      BY <2>1
    <2>3. \A u \in Users : st[u] = "free" <=> u > users_count
      BY <1>2, <1>4
    <2>4. \A c \in Clients : uid[c] <= users_count
      BY <1>2
    <2> QED
      BY <1>2, <2>1, <2>2, <2>3, <2>4 DEF Numbered
  <1>6. Where(Users, st, Active) = {}
    BY <1>2 DEF Where, Active
  <1>7. ActiveOrExpired
    BY <1>2, <1>6, Counted, FS_EmptySet DEF ActiveOrExpired
  <1>8. Phases
    BY <1>2 DEF Phases
  <1> QED
    BY <1>1, <1>5, <1>7, <1>8 DEF Base

LEMMA ServerBase ==
  ASSUME Base, Server \/ Shutdown
  PROVE  Base'
  <1> USE DEF loginVars, userVars, clientVars
  <1>1. Typed /\ Ranges /\ Typed'
    BY BaseRanges, ServerTyped DEF Base
  <1>2. UNCHANGED <<pc, uid>>
    BY DEF Server, Skip, Register, LoginDone, LoginExpires, Resend, Disconnect, Write, Post,
       Acknowledged, GiveUp, SentToAll, Shutdown
  <1>3. PICK n \in Nat : n = Cardinality(Clients) /\ Users = 1 .. n
    BY Sizes
  <1>4. /\ users_count \in Nat /\ lcts \in Nat /\ active_users \in Nat /\ Users \subseteq Nat \ {0}
        /\ st \in [Users -> {"free", "on", "off", "expired"}]
        /\ users_count \in 0 .. n
    <2>1. users_count \in 0 .. n
      BY <1>1, <1>3 DEF Typed
    <2>2. Users \subseteq Nat \ {0}
      BY <1>3
    <2> QED
      BY <1>1, <2>1, <2>2 DEF Typed
  <1>5. /\ users_count + lcts <= Cardinality(Clients \ At({"out", "ask"}))
        /\ \A u \in Users : st[u] = "free" <=> u > users_count
        /\ lstoc = users_count /\ \A c \in Clients : uid[c] <= users_count
        /\ \A c \in Clients : uid[c] \in Nat
    <2>1. \A c \in Clients : uid[c] \in Users \cup {0}
      BY <1>1 DEF Typed
    <2>2. Users \cup {0} \subseteq Nat
      BY <1>3
    <2>3. \A c \in Clients : uid[c] \in Nat
      BY <2>1, <2>2
    <2> QED
      BY <2>3 DEF Base, Numbered
  <1>6. /\ spc \in {"scan", "logwait"} => mode = "user"
        /\ spc = "logwait" => users_count > 0 /\ st[users_count] = "on"
        /\ mode = "login" => users_count > 0 /\ spc \in {"write", "post"}
        /\ spc \in {"post", "wait"} => sec # 0
        /\ spc \in {"write", "post", "wait"} /\ sec # 0 => sec \in On
        /\ mode # "bye" => active_users = Cardinality(Where(Users, st, Active))
    BY Counted DEF Base, Phases, ActiveOrExpired
  <1>7. ASSUME users_count' + lcts' = users_count + lcts, users_count' \in Nat,
               users_count' >= users_count, lstoc' = users_count',
               \A u \in Users : st'[u] = "free" <=> u > users_count'
        PROVE  Numbered'
    <2>1. (Clients \ At({"out", "ask"}))' = Clients \ At({"out", "ask"})
      BY <1>2 DEF At
    <2>2. \A c \in Clients : uid[c] <= users_count'
      BY <1>4, <1>5, <1>7
    <2> QED
      BY <1>2, <1>5, <1>7, <2>1, <2>2 DEF Numbered
  <1>8. ASSUME UNCHANGED <<users_count, lcts, lstoc, st>>
        PROVE  Numbered'
    BY <1>4, <1>5, <1>7, <1>8
  <1>9. ASSUME UNCHANGED <<st, active_users>>, mode' # "bye" => mode # "bye"
        PROVE  ActiveOrExpired'
    BY <1>6, <1>9, Counted DEF ActiveOrExpired
  <1>10. /\ On \subseteq Users /\ On' = {u \in Users : st'[u] = "on"}
         /\ \A i \in Nat : NextUser(i) = 0 \/ NextUser(i) \in On
         /\ \A i \in Nat : NextUser(i) # 0 => NextUser(i) >= i
    BY FirstIs DEF On, NextUser, Users
  <1>11. CASE Skip
    BY <1>1, <1>6, <1>8, <1>9, <1>10, <1>11 DEF Skip, Base, Phases, On
  <1>12. CASE Register
    <2>1. /\ users_count' = users_count + 1 /\ lcts' = lcts - 1 /\ lstoc' = users_count'
          /\ st' = [st EXCEPT ![users_count + 1] = "on"] /\ spc' = "logwait" /\ spc = "scan"
          /\ active_users' = active_users + 1 /\ UNCHANGED <<mode, sec>>
      BY <1>12 DEF Register
    <2>2. users_count + 1 \in Users /\ users_count + 1 \in Nat /\ users_count + 1 # 0
      BY <1>1, <1>3, <1>4, <2>1 DEF Typed
    <2>3. \A u \in Users : st'[u] = "free" <=> u > users_count'
      BY <1>4, <1>5, <2>1, <2>2
    <2>4. Numbered'
      BY <1>4, <1>7, <2>1, <2>2, <2>3
    <2>5. st[users_count + 1] = "free" /\ SameBut(Users, st, st', users_count + 1)
          /\ st'[users_count + 1] = "on"
      BY <1>4, <1>5, <2>1, <2>2 DEF SameBut
    <2>6. Cardinality(Where(Users, st', Active)) = Cardinality(Where(Users, st, Active)) + 1
      <3>1. PICK g : g = st'
        OBVIOUS
      <3>2. /\ SameBut(Users, st, g, users_count + 1) /\ st[users_count + 1] \notin Active
            /\ g[users_count + 1] \in Active
        BY <2>5, <3>1 DEF Active
      <3>3. Cardinality(Where(Users, g, Active)) = Cardinality(Where(Users, st, Active)) + 1
        BY <2>2, <3>2, Sizes, MoveOne
      <3> QED
        BY <3>1, <3>3
    <2>7. ActiveOrExpired'
      BY <1>6, <2>1, <2>6, Counted DEF ActiveOrExpired
    <2>8. Phases'
      <3>1. users_count' > 0 /\ st'[users_count'] = "on" /\ mode' = "user"
        BY <1>4, <1>6, <2>1, <2>5
      <3> QED
        BY <2>1, <3>1 DEF Phases
    <2> QED
      BY <1>1, <2>4, <2>7, <2>8 DEF Base
  <1>13. CASE LoginDone
    <2>1. Phases'
      BY <1>6, <1>10, <1>13 DEF LoginDone, Phases, On
    <2> QED
      BY <1>1, <1>6, <1>8, <1>9, <1>13, <2>1 DEF LoginDone, Base
  <1>14. ASSUME NEW u \in Users, NEW to \in {"off", "expired"}, st[u] = "on",
                st' = [st EXCEPT ![u] = to]
         PROVE  /\ \A v \in Users : st'[v] = "free" <=> v > users_count
                /\ to = "expired" => Cardinality(Where(Users, st', Active))
                                       = Cardinality(Where(Users, st, Active))
                /\ to = "off" => Cardinality(Where(Users, st', Active))
                                   = Cardinality(Where(Users, st, Active)) - 1
    <2>1. PICK g : g = st'
      OBVIOUS
    <2>2. SameBut(Users, st, g, u) /\ g[u] = to
      BY <1>4, <1>14, <2>1 DEF SameBut
    <2>3. st[u] \in Active /\ (to = "expired" => g[u] \in Active) /\ (to = "off" => g[u] \notin Active)
      BY <1>14, <2>2 DEF Active
    <2>4. /\ to = "expired" => Cardinality(Where(Users, g, Active))
                                 = Cardinality(Where(Users, st, Active))
          /\ to = "off" => Cardinality(Where(Users, g, Active))
                             = Cardinality(Where(Users, st, Active)) - 1
      BY <2>2, <2>3, Sizes, MoveOne
    <2>5. \A v \in Users : st'[v] = "free" <=> v > users_count
      BY <1>4, <1>5, <1>14
    <2> QED
      BY <2>1, <2>4, <2>5
  <1>15. CASE LoginExpires
    <2>1. /\ spc = "logwait" /\ spc' = "scan" /\ st' = [st EXCEPT ![users_count] = "expired"]
          /\ UNCHANGED <<users_count, lcts, lstoc, mode, active_users, sec>>
      BY <1>15 DEF LoginExpires
    <2>2. users_count \in Users /\ st[users_count] = "on"
      BY <1>3, <1>4, <1>6, <2>1
    <2>3. \A v \in Users : st'[v] = "free" <=> v > users_count
      BY <1>14, <2>1, <2>2
    <2>4. Cardinality(Where(Users, st', Active)) = Cardinality(Where(Users, st, Active))
      BY <1>14, <2>1, <2>2
    <2>5. Numbered'
      BY <1>4, <1>5, <1>7, <2>1, <2>3
    <2>6. ActiveOrExpired' /\ Phases'
      BY <1>6, <2>1, <2>4, Counted DEF ActiveOrExpired, Phases
    <2> QED
      BY <1>1, <2>5, <2>6 DEF Base
  <1>16. CASE Resend
    <2>1. Phases'
      BY <1>6, <1>10, <1>16 DEF Resend, Phases, On
    <2> QED
      BY <1>1, <1>6, <1>8, <1>9, <1>16, <2>1 DEF Resend, Base
  <1>17. CASE Disconnect
    <2>1. /\ spc = "scan" /\ pos \in Users /\ st[pos] = "on" /\ st' = [st EXCEPT ![pos] = "off"]
          /\ active_users' = active_users - 1 /\ UNCHANGED <<users_count, lcts, lstoc>>
          /\ \/ spc' = "down" /\ UNCHANGED <<sec, mode, out>>
             \/ spc' = "write" /\ mode' = "user" /\ sec' = FirstOf(On \ {pos}, 1)
      BY <1>17 DEF Disconnect, On
    <2>2. Cardinality(Where(Users, st', Active)) = Cardinality(Where(Users, st, Active)) - 1
      BY <1>14, <2>1
    <2>3. \A v \in Users : st'[v] = "free" <=> v > users_count
      BY <1>14, <2>1
    <2>4. Numbered'
      BY <1>4, <1>5, <1>7, <2>1, <2>3
    <2>5. ActiveOrExpired'
      BY <1>6, <2>1, <2>2, Counted DEF ActiveOrExpired
    <2>6. On \ {pos} \subseteq Users /\ On \ {pos} \subseteq On' /\ 1 \in Nat
      BY <1>4, <2>1 DEF On
    <2>7. FirstOf(On \ {pos}, 1) # 0 => FirstOf(On \ {pos}, 1) \in On \ {pos}
      BY <2>6, FirstIs
    <2>8. Phases'
      BY <1>6, <2>1, <2>6, <2>7 DEF Phases
    <2> QED
      BY <1>1, <2>4, <2>5, <2>8 DEF Base
  <1>18. CASE Write
    BY <1>1, <1>6, <1>8, <1>9, <1>10, <1>18 DEF Write, Base, Phases, On
  <1>19. CASE Post
    <2>1. spc = "post" /\ sec # 0 /\ sec \in On
      BY <1>6, <1>19 DEF Post
    <2>2. sec + 1 \in Nat
      BY <1>4, <1>10, <2>1
    <2>3. sec' = sec \/ sec' = 0 \/ sec' \in On
      BY <1>10, <1>19, <2>2 DEF Post
    <2>4. On' = On
      BY <1>19 DEF Post, On
    <2>5. Phases'
      BY <1>6, <1>19, <2>1, <2>3, <2>4 DEF Post, Phases
    <2> QED
      BY <1>1, <1>6, <1>8, <1>9, <1>19, <2>5 DEF Post, Base
  <1>20. CASE Acknowledged \/ GiveUp
    <2>1. /\ spc = "wait" /\ spc' = "write" /\ sec' = NextUser(sec + 1)
          /\ st' = (IF mode = "bye" THEN [st EXCEPT ![sec] = "off"] ELSE st)
          /\ UNCHANGED <<users_count, lcts, lstoc, mode, active_users>>
      BY <1>20 DEF Acknowledged, GiveUp, Onwards
    <2>2. sec \in Users /\ st[sec] = "on" /\ sec \in Nat
      BY <1>4, <1>6, <2>1 DEF On
    <2>3. sec' = 0 \/ (sec' \in On /\ sec' # sec)
      <3>1. sec + 1 \in Nat
        BY <2>2
      <3>2. sec' = 0 \/ (sec' \in On /\ sec' >= sec + 1)
        BY <1>10, <2>1, <3>1
      <3> QED
        BY <1>4, <1>10, <2>2, <3>2
    <2>4. Numbered'
      <3>1. CASE mode = "bye"
        <4>1. st' = [st EXCEPT ![sec] = "off"]
          BY <2>1, <3>1
        <4>2. \A v \in Users : st'[v] = "free" <=> v > users_count
          BY <1>14, <2>2, <4>1
        <4> QED
          BY <1>4, <1>5, <1>7, <2>1, <4>2
      <3>2. CASE mode # "bye"
        BY <1>8, <2>1, <3>2
      <3> QED
        BY <3>1, <3>2
    <2>5. ActiveOrExpired'
      <3>1. CASE mode = "bye"
        BY <2>1, <3>1 DEF ActiveOrExpired
      <3>2. CASE mode # "bye"
        BY <1>9, <2>1, <3>2
      <3> QED
        BY <3>1, <3>2
    <2>6. sec' # 0 => sec' \in On'
      BY <1>4, <2>1, <2>2, <2>3 DEF On
    <2>7. Phases'
      BY <1>6, <2>1, <2>6 DEF Phases
    <2> QED
      BY <1>1, <2>4, <2>5, <2>7 DEF Base
  <1>21. CASE SentToAll
    <2>1. /\ spc = "write" /\ UNCHANGED <<users_count, lcts, lstoc, st, active_users, sec>>
          /\ spc' = (IF mode = "bye" THEN "down" ELSE "scan")
          /\ mode' = (IF mode = "bye" THEN mode ELSE "user")
      BY <1>21 DEF SentToAll
    <2>2. Phases' /\ (mode' # "bye" => mode # "bye")
      BY <1>6, <2>1 DEF Phases
    <2> QED
      BY <1>1, <1>8, <1>9, <2>1, <2>2 DEF Base
  <1>22. CASE Shutdown
    <2>1. /\ mode' = "bye" /\ spc' = "write" /\ UNCHANGED <<users_count, lcts, lstoc, st, active_users>>
          /\ (sec' = NextUser(1) \/ sec' = 0)
      BY <1>22 DEF Shutdown
    <2>2. On' = On
      BY <2>1 DEF On
    <2>3. Phases'
      BY <1>10, <2>1, <2>2 DEF Phases
    <2>4. ActiveOrExpired'
      BY <2>1 DEF ActiveOrExpired
    <2> QED
      BY <1>1, <1>8, <2>1, <2>3, <2>4 DEF Base
  <1> QED
    BY <1>11, <1>12, <1>13, <1>15, <1>16, <1>17, <1>18, <1>19, <1>20, <1>21, <1>22 DEF Server

LEMMA ClientBase ==
  ASSUME Base, NEW c \in Clients, ClientStep(c)
  PROVE  Base'
  <1> USE DEF serverVars, loginVars, userVars
  <1>1. Typed /\ Typed'
    BY ClientTyped DEF Base
  <1>2. UNCHANGED serverVars /\ UNCHANGED lstoc
    BY DEF ClientStep, Client, Handler, Login, Kill, Enter, Ask, Await, Open, Ack, Send, Released,
       Leave, End, Notice, Show, Dismissed
  <1>3. ActiveOrExpired' /\ Phases'
    BY <1>2 DEF Base, ActiveOrExpired, Phases, On
  <1>4. PICK m, n : m = Cardinality(Where(Clients, pc, Since)) /\ n = Cardinality(Where(Clients, pc', Since))
    OBVIOUS
  <1>5. m \in Nat /\ n \in Nat /\ lcts \in Nat /\ users_count \in Nat /\ users_count + lcts <= m
    <2>1. m \in Nat /\ n \in Nat
      <3>1. PICK g : g = pc'
        OBVIOUS
      <3>2. Cardinality(Where(Clients, g, Since)) \in Nat /\ m \in Nat
        BY <1>4, WhereFinite, Sizes
      <3> QED
        BY <1>4, <3>1, <3>2
    <2>2. Clients \ At({"out", "ask"}) = Where(Clients, pc, Since)
      BY <1>1, Counted
    <2>3. users_count + lcts <= m
      BY <1>4, <2>2 DEF Base, Numbered
    <2>4. users_count \in Nat /\ lcts \in Nat
      BY <1>1, Sizes DEF Typed
    <2> QED
      BY <2>1, <2>3, <2>4
  <1>6. ASSUME users_count + lcts' <= n, \A d \in Clients : uid'[d] <= users_count
        PROVE  Numbered'
    <2>1. (Clients \ At({"out", "ask"}))' = Where(Clients, pc', Since)
      BY <1>1, Counted
    <2> QED
      BY <1>2, <1>4, <1>6, <2>1 DEF Base, Numbered
  <1>7. /\ \A d \in Clients : uid[d] <= users_count
        /\ pc \in [Clients -> {"out", "ask"} \cup Since] /\ uid \in [Clients -> Users \cup {0}]
    BY <1>1 DEF Base, Numbered, Typed, Since
  <1>8. ASSUME NEW to \in {"out", "ask"} \cup Since, pc' = [pc EXCEPT ![c] = to]
        PROVE  /\ (pc[c] \in Since <=> to \in Since) => n = m
               /\ pc[c] \notin Since /\ to \in Since => n = m + 1
    <2>1. PICK g : g = pc'
      OBVIOUS
    <2>2. SameBut(Clients, pc, g, c) /\ g[c] = to
      BY <1>7, <1>8, <2>1 DEF SameBut
    <2>3. /\ (pc[c] \in Since <=> to \in Since) =>
               Cardinality(Where(Clients, g, Since)) = Cardinality(Where(Clients, pc, Since))
          /\ pc[c] \notin Since /\ to \in Since =>
               Cardinality(Where(Clients, g, Since)) = Cardinality(Where(Clients, pc, Since)) + 1
      BY <2>2, Sizes, MoveOne
    <2> QED
      BY <1>4, <2>1, <2>3
  <1>9. CASE Ask(c)
    <2>1. /\ pc' = [pc EXCEPT ![c] = "await"] /\ pc[c] = "ask" /\ lcts' = lcts + 1 /\ uid' = uid
      BY <1>9 DEF Ask, Goto
    <2>2. n = m + 1
      BY <1>8, <2>1 DEF Since
    <2>3. users_count + lcts' <= n
      BY <1>5, <2>1, <2>2
    <2> QED
      BY <1>1, <1>3, <1>6, <1>7, <2>1, <2>3 DEF Base
  <1>10. ASSUME NEW to \in {"out", "ask"} \cup Since, pc' = [pc EXCEPT ![c] = to], lcts' = lcts,
                pc[c] \in Since => to \in Since, \A d \in Clients : uid'[d] <= users_count
         PROVE  Base'
    <2>1. n = m \/ n = m + 1
      BY <1>8, <1>10
    <2>2. users_count + lcts' <= n
      BY <1>5, <1>10, <2>1
    <2> QED
      BY <1>1, <1>3, <1>6, <1>10, <2>2 DEF Base
  <1>11. CASE Enter(c)
    BY <1>7, <1>10, <1>11 DEF Enter, Goto, Since
  <1>12. CASE Await(c)
    <2>1. /\ pc' = [pc EXCEPT ![c] = "id"] /\ lcts' = lcts /\ uid' = [uid EXCEPT ![c] = lstoc]
      BY <1>12 DEF Await, Goto
    <2>2. lstoc <= users_count
      BY <1>5 DEF Base, Numbered
    <2>3. \A d \in Clients : uid'[d] <= users_count
      BY <1>7, <2>1, <2>2
    <2> QED
      BY <1>10, <2>1, <2>3 DEF Since
  <1>13. CASE Open(c) \/ Ack(c) \/ Send(c) \/ Released(c) \/ Leave(c)
    <2>1. PICK to \in {"ack", "chat", "sent", "left"} : pc' = [pc EXCEPT ![c] = to]
      BY <1>13 DEF Open, Ack, Send, Released, Leave, Say, Goto
    <2>2. lcts' = lcts /\ uid' = uid
      BY <1>13 DEF Open, Ack, Send, Released, Leave, Say, Goto
    <2> QED
      BY <1>7, <1>10, <2>1, <2>2 DEF Since
  <1>14. CASE End(c)
    <2>1. /\ pc' = [pc EXCEPT ![c] = "dead"] /\ lcts' = lcts /\ uid' = [uid EXCEPT ![c] = 0]
      BY <1>14 DEF End
    <2>2. \A d \in Clients : uid'[d] <= users_count
      BY <1>5, <1>7, <2>1
    <2> QED
      BY <1>10, <2>1, <2>2 DEF Since
  <1>15. CASE Notice(c) \/ Show(c)
    <2>1. lcts' = lcts /\ uid' = uid /\ pc' = pc
      BY <1>15 DEF Notice, Show
    <2>2. n = m
      BY <1>4, <2>1
    <2> QED
      BY <1>1, <1>3, <1>5, <1>6, <1>7, <2>1, <2>2 DEF Base
  <1> QED
    BY <1>9, <1>11, <1>12, <1>13, <1>14, <1>15 DEF ClientStep, Client, Handler, Login, Dismissed, Kill

LEMMA StaysBase ==
  ASSUME Base, UNCHANGED vars
  PROVE  Base'
  BY DEF Base, Typed, Numbered, Phases, ActiveOrExpired, On, At, vars, serverVars, loginVars,
     userVars, clientVars

LEMMA NextBase ==
  ASSUME Base, [Next]_vars
  PROVE  Base'
  BY ServerBase, ClientBase, StaysBase DEF Next, ClientStep

(* Types: users are numbered from 1 to the number of clients at most, the  *)
(* loop and the sender never leave them, and active_users stays a count.   *)
THEOREM TypeCorrect == Spec => []TypeOK
  <1>1. Base => TypeOK
    BY TypedIs DEF Base
  <1> QED
    BY <1>1, InitBase, NextBase, PTL DEF Spec

(* As long as no login expires active_users is the number of the connected *)
(* users, until the server shuts down; an expired login is not counted     *)
(* down, and nothing else goes wrong with the count.                       *)
THEOREM ActiveUsersCounted == Spec => [](NoneExpired => ActiveUsers)
  <1>1. Base => (NoneExpired => ActiveUsers)
    <2> SUFFICES ASSUME Base, NoneExpired, mode # "bye"
                 PROVE  active_users = Cardinality(On)
      BY DEF ActiveUsers
    <2>1. {u \in Users : st[u] \in {"on", "expired"}} = On
      BY DEF NoneExpired, On
    <2> QED
      BY <2>1 DEF Base, ActiveOrExpired
  <1> QED
    BY <1>1, InitBase, NextBase, PTL DEF Spec

-----------------------------------------------------------------------------
(* The login's token, and the numbers.                                     *)

LEMMA PlacesAre ==
  /\ \A P : IsFiniteSet(At(P)) /\ Cardinality(At(P)) \in Nat
  /\ \A P : \A c \in At(P) : Cardinality(At(P)) > 0
  <1>1. \A P : IsFiniteSet(At(P)) /\ Cardinality(At(P)) \in Nat
    BY Sizes, WhereFinite
  <1>2. ASSUME NEW P, NEW c \in At(P)
        PROVE  Cardinality(At(P)) > 0
    <2>1. At(P) # {} /\ IsFiniteSet(At(P)) /\ Cardinality(At(P)) \in Nat
      BY <1>1, <1>2
    <2>2. Cardinality(At(P)) # 0
      BY <2>1, FS_EmptySet
    <2> QED
      BY <2>1, <2>2
  <1> QED
    BY <1>1, <1>2

LEMMA PlaceMoves ==
  ASSUME Typed, NEW c \in Clients, NEW to, pc' = [pc EXCEPT ![c] = to], NEW P
  PROVE  /\ pc[c] \notin P /\ to \in P => Cardinality(At(P))' = Cardinality(At(P)) + 1
         /\ pc[c] \in P /\ to \notin P => Cardinality(At(P))' = Cardinality(At(P)) - 1
         /\ (pc[c] \in P <=> to \in P) => Cardinality(At(P))' = Cardinality(At(P))
  <1>1. PICK g : g = pc'
    OBVIOUS
  <1>2. g[c] = to /\ SameBut(Clients, pc, g, c)
    BY <1>1 DEF Typed, SameBut
  <1>3. At(P) = Where(Clients, pc, P) /\ At(P)' = Where(Clients, g, P)
    BY <1>1 DEF At, Where
  <1>4. /\ pc[c] \notin P /\ g[c] \in P =>
             Cardinality(Where(Clients, g, P)) = Cardinality(Where(Clients, pc, P)) + 1
        /\ pc[c] \in P /\ g[c] \notin P =>
             Cardinality(Where(Clients, g, P)) = Cardinality(Where(Clients, pc, P)) - 1
        /\ (pc[c] \in P <=> g[c] \in P) =>
             Cardinality(Where(Clients, g, P)) = Cardinality(Where(Clients, pc, P))
    BY <1>2, Sizes, MoveOne
  <1> QED
    BY <1>2, <1>3, <1>4

(* An expired login is never forgotten.                                    *)
LEMMA ExpiredStays ==
  ASSUME Base, [Next]_vars, NoneExpired'
  PROVE  NoneExpired
  <1> SUFFICES ASSUME NEW u \in Users, st[u] = "expired"
               PROVE  FALSE
    BY DEF NoneExpired
  <1>1. st'[u] # "expired"
    BY DEF NoneExpired, Users
  <1>2. st \in [Users -> {"free", "on", "off", "expired"}] /\ Users' = Users
    BY DEF Base, Typed, Users
  <1>3. CASE Register
    <2>1. st' = [st EXCEPT ![users_count + 1] = "on"]
      BY <1>3 DEF Register
    <2>2. users_count + 1 \in Users => st[users_count + 1] = "free"
      <3>1. users_count \in Nat
        BY Sizes DEF Base, Typed
      <3> QED
        BY <3>1 DEF Base, Numbered
    <2> QED
      BY <1>1, <1>2, <2>1, <2>2
  <1>4. CASE LoginExpires
    BY <1>1, <1>2, <1>4 DEF LoginExpires
  <1>5. CASE Disconnect
    BY <1>1, <1>2, <1>5 DEF Disconnect, On
  <1>6. CASE Acknowledged \/ GiveUp
    BY <1>1, <1>2, <1>6 DEF Acknowledged, GiveUp, Onwards, On, Base, Phases
  <1>7. CASE UNCHANGED st
    BY <1>1, <1>7
  <1>8. ASSUME NEW c \in Clients, ClientStep(c)
        PROVE  UNCHANGED st
    BY <1>8 DEF ClientStep, Client, Handler, Login, Kill, Enter, Ask, Await, Open, Ack, Send,
       Released, Leave, End, Notice, Show, Dismissed, serverVars
  <1>9. CASE Skip \/ LoginDone \/ Resend \/ Write \/ Post \/ SentToAll \/ Shutdown \/ UNCHANGED vars
    BY <1>7, <1>9 DEF Skip, LoginDone, Resend, Write, Post, SentToAll, Shutdown, vars, serverVars
  <1> QED
    BY <1>3, <1>4, <1>5, <1>6, <1>7, <1>8, <1>9 DEF Next, Server, ClientStep

LEMMA ServerLogins ==
  ASSUME Base, Logins, Server \/ Shutdown, NoneExpired, NoneExpired'
  PROVE  Logins'
  <1> USE DEF loginVars, userVars, clientVars
  <1>1. UNCHANGED <<pc, uid>>
    BY DEF Server, Skip, Register, LoginDone, LoginExpires, Resend, Disconnect, Write, Post,
       Acknowledged, GiveUp, SentToAll, Shutdown
  <1>2. \A P : At(P)' = At(P)
    BY <1>1 DEF At
  <1>3. PICK a, k, w : a = Cardinality(At({"ask"})) /\ k = Cardinality(At({"id", "ack"}))
                       /\ w = Cardinality(At({"await"}))
    OBVIOUS
  <1>4. a \in Nat /\ k \in Nat /\ w \in Nat
    BY <1>3, PlacesAre
  <1>5. Typed /\ Typed' /\ Phases
    BY BaseRanges, ServerTyped DEF Base
  <1>6. /\ lusr \in Nat /\ lcts \in Nat /\ lstc \in Nat /\ lsrv \in Nat
        /\ lusr' \in Nat /\ lcts' \in Nat /\ lstc' \in Nat /\ lsrv' \in Nat
        /\ users_count \in Nat /\ \A c \in Clients : uid[c] \in Nat /\ uid[c] <= users_count
    <2>1. users_count \in Nat /\ Users \cup {0} \subseteq Nat
      <3>1. PICK n \in Nat : n = Cardinality(Clients) /\ Users = 1 .. n
        BY Sizes
      <3>2. users_count \in 0 .. n
        BY <1>5, <3>1 DEF Typed
      <3> QED
        BY <3>1, <3>2
    <2> QED
      BY <1>5, <2>1 DEF Typed, Base, Numbered
  <1>7. /\ lusr + a + lcts + lstc + k + lsrv + B(mode = "login") <= 1
        /\ w <= lcts + lstc
        /\ \A c \in At({"await"}) : lctos = c /\ (lstc > 0 => name[users_count] = c)
        /\ mode # "bye" =>
             /\ lstc > 0 \/ lsrv > 0 => spc = "logwait"
             /\ \A c \in At({"id", "ack"}) : spc = "logwait" /\ uid[c] = users_count
        /\ \A c \in Clients : uid[c] # 0 => name[uid[c]] = c
    BY <1>3 DEF Logins, Token, Awaited, Logged
  <1>8. ASSUME lusr' + a + lcts' + lstc' + k + lsrv' + B(mode' = "login") <= 1,
               lcts' + lstc' = lcts + lstc, lctos' = lctos,
               \A c \in At({"await"}) : lstc' > 0 => name'[users_count'] = c,
               mode' # "bye" =>
                 /\ lstc' > 0 \/ lsrv' > 0 => spc' = "logwait"
                 /\ \A c \in At({"id", "ack"}) : spc' = "logwait" /\ uid[c] = users_count',
               \A c \in Clients : uid[c] # 0 => name'[uid[c]] = name[uid[c]]
        PROVE  Logins'
    <2>1. Token'
      BY <1>2, <1>3, <1>8 DEF Token, B
    <2>2. Awaited'
      BY <1>2, <1>3, <1>7, <1>8 DEF Awaited
    <2>3. Logged'
      BY <1>1, <1>2, <1>8 DEF Logged
    <2>4. \A c \in Clients : uid'[c] # 0 => name'[uid'[c]] = c
      BY <1>1, <1>7, <1>8
    <2> QED
      BY <2>1, <2>2, <2>3, <2>4 DEF Logins
  \* A step while no login is in hand.
  <1>9. ASSUME UNCHANGED <<lusr, lcts, lstc, lsrv, lctos, name, users_count>>,
               mode' = "login" => mode = "login", spc # "logwait", mode' # "bye" => mode # "bye"
        PROVE  Logins'
    <2>1. B(mode' = "login") <= B(mode = "login") /\ B(mode' = "login") \in Nat
          /\ B(mode = "login") \in Nat
      BY <1>9 DEF B
    <2>2. lusr' + a + lcts' + lstc' + k + lsrv' + B(mode' = "login") <= 1
      BY <1>4, <1>6, <1>7, <1>9, <2>1
    <2> QED
      BY <1>7, <1>8, <1>9, <2>2
  <1>10. CASE Skip
    <2>1. UNCHANGED <<lusr, lcts, lstc, lsrv, lctos, name, users_count, mode, spc>>
      BY <1>10 DEF Skip
    <2> QED
      BY <1>7, <1>8, <2>1
  <1>11. CASE Register
    <2>1. /\ spc = "scan" /\ spc' = "logwait" /\ mode = "user" /\ mode' = mode
          /\ lcts > 0 /\ lcts' = lcts - 1 /\ lstc' = lstc + 1 /\ UNCHANGED <<lusr, lsrv, lctos>>
          /\ users_count' = users_count + 1 /\ name' = [name EXCEPT ![users_count + 1] = lctos]
      BY <1>5, <1>11 DEF Register, Phases
    <2>2. users_count' \in Users
      <3>1. PICK n \in Nat : n = Cardinality(Clients) /\ Users = 1 .. n
        BY Sizes
      <3>2. users_count' \in 0 .. n
        BY <1>5, <3>1 DEF Typed
      <3> QED
        BY <1>6, <2>1, <3>1, <3>2
    <2>3. name'[users_count'] = lctos
      BY <1>5, <2>1, <2>2 DEF Typed
    <2>4. \A c \in Clients : uid[c] # 0 => name'[uid[c]] = name[uid[c]]
      <3>1. \A c \in Clients : uid[c] # users_count + 1
        BY <1>6
      <3>2. \A c \in Clients : uid[c] # 0 => uid[c] \in Users
        BY <1>5 DEF Typed
      <3> QED
        BY <1>5, <2>1, <3>1, <3>2 DEF Typed
    <2>5. B(mode' = "login") = B(mode = "login") /\ B(mode = "login") \in Nat
      BY <2>1 DEF B
    <2>6. /\ lusr' + a + lcts' + lstc' + k + lsrv' + B(mode' = "login") <= 1
          /\ lcts' + lstc' = lcts + lstc
      BY <1>4, <1>6, <1>7, <2>1, <2>5
    <2> QED
      BY <1>7, <1>8, <2>1, <2>3, <2>4, <2>6
  <1>12. CASE LoginDone
    <2>1. /\ spc = "logwait" /\ mode = "user" /\ mode' = "login" /\ lsrv > 0 /\ lsrv' = lsrv - 1
          /\ UNCHANGED <<lusr, lcts, lstc, lctos, users_count, name>>
      BY <1>5, <1>12 DEF LoginDone, Phases
    <2>2. B(mode' = "login") = 1 /\ B(mode = "login") = 0
      BY <2>1 DEF B
    <2>3. /\ lusr' + a + lcts' + lstc' + k + lsrv' + B(mode' = "login") <= 1
          /\ lstc' = 0 /\ lsrv' = 0 /\ k = 0
      BY <1>4, <1>6, <1>7, <2>1, <2>2
    <2>4. At({"id", "ack"}) = {}
      <3> SUFFICES ASSUME NEW c \in At({"id", "ack"}) PROVE FALSE
        OBVIOUS
      <3>1. Cardinality(At({"id", "ack"})) > 0
        BY PlacesAre
      <3> QED
        BY <1>3, <2>3, <3>1
    <2> QED
      BY <1>7, <1>8, <2>1, <2>3, <2>4
  <1>13. CASE LoginExpires
    <2>1. users_count \in Users /\ st'[users_count] = "expired"
      <3>1. PICK n \in Nat : n = Cardinality(Clients) /\ Users = 1 .. n
        BY Sizes
      <3>2. users_count \in 0 .. n /\ users_count > 0
        BY <1>5, <1>13, <3>1 DEF Typed, Phases, LoginExpires
      <3>3. users_count \in Users
        BY <3>1, <3>2
      <3> QED
        BY <1>5, <1>13, <3>3 DEF LoginExpires, Typed
    <2> QED
      BY <2>1 DEF NoneExpired, Users
  <1>14. CASE Resend
    BY <1>5, <1>9, <1>14 DEF Resend, Phases
  <1>15. CASE Disconnect
    BY <1>5, <1>9, <1>15 DEF Disconnect, Phases
  <1>16. CASE Write \/ Post
    BY <1>9, <1>16 DEF Write, Post
  <1>17. CASE Acknowledged \/ GiveUp
    BY <1>9, <1>17 DEF Acknowledged, GiveUp, Onwards
  <1>18. CASE SentToAll
    <2>1. /\ spc = "write" /\ UNCHANGED <<lcts, lstc, lsrv, lctos, name, users_count>>
          /\ lusr' = (IF mode = "login" THEN lusr + 1 ELSE lusr)
          /\ mode' = (IF mode = "bye" THEN mode ELSE "user")
      BY <1>18 DEF SentToAll
    <2>2. B(mode' = "login") = 0 /\ lusr' = lusr + B(mode = "login") /\ B(mode = "login") \in Nat
      BY <1>6, <2>1 DEF B
    <2>3. lusr' + a + lcts' + lstc' + k + lsrv' + B(mode' = "login") <= 1
      BY <1>4, <1>6, <1>7, <2>1, <2>2
    <2>4. mode' # "bye" => mode # "bye"
      BY <2>1
    <2> QED
      BY <1>7, <1>8, <2>1, <2>3, <2>4
  <1>19. CASE Shutdown
    <2>1. mode' = "bye" /\ UNCHANGED <<lusr, lcts, lstc, lsrv, lctos, name, users_count>>
      BY <1>19 DEF Shutdown
    <2>2. B(mode' = "login") = 0 /\ B(mode = "login") \in Nat
      BY <2>1 DEF B
    <2>3. lusr' + a + lcts' + lstc' + k + lsrv' + B(mode' = "login") <= 1
      BY <1>4, <1>6, <1>7, <2>1, <2>2
    <2> QED
      BY <1>7, <1>8, <2>1, <2>3
  <1> QED
    BY <1>10, <1>11, <1>12, <1>13, <1>14, <1>15, <1>16, <1>17, <1>18, <1>19 DEF Server

LEMMA ClientLogins ==
  ASSUME Base, Logins, NoneExpired, NEW c \in Clients, ClientStep(c)
  PROVE  Logins'
  <1> USE DEF serverVars, loginVars, userVars
  <1>1. Typed /\ Typed' /\ lstoc = users_count
    BY ClientTyped DEF Base, Numbered
  <1>2. UNCHANGED serverVars
    BY DEF ClientStep, Client, Handler, Login, Kill, Enter, Ask, Await, Open, Ack, Send, Released,
       Leave, End, Notice, Show, Dismissed
  <1>3. PICK a, k, w : a = Cardinality(At({"ask"})) /\ k = Cardinality(At({"id", "ack"}))
                       /\ w = Cardinality(At({"await"}))
    OBVIOUS
  <1>4. PICK x, y, z : x = Cardinality(At({"ask"}))' /\ y = Cardinality(At({"id", "ack"}))'
                       /\ z = Cardinality(At({"await"}))'
    OBVIOUS
  <1>5. a \in Nat /\ k \in Nat /\ w \in Nat
    BY <1>3, PlacesAre
  <1>6. /\ lusr \in Nat /\ lcts \in Nat /\ lstc \in Nat /\ lsrv \in Nat
        /\ B(mode = "login") \in Nat /\ B(mode' = "login") = B(mode = "login")
    BY <1>1, <1>2 DEF Typed, B
  <1>7. /\ lusr + a + lcts + lstc + k + lsrv + B(mode = "login") <= 1
        /\ w <= lcts + lstc
        /\ \A d \in At({"await"}) : lctos = d /\ (lstc > 0 => name[users_count] = d)
        /\ mode # "bye" =>
             /\ lstc > 0 \/ lsrv > 0 => spc = "logwait"
             /\ \A d \in At({"id", "ack"}) : spc = "logwait" /\ uid[d] = users_count
        /\ \A d \in Clients : uid[d] # 0 => name[uid[d]] = d
    BY <1>3 DEF Logins, Token, Awaited, Logged
  <1>8. ASSUME NEW to, pc' = [pc EXCEPT ![c] = to]
        PROVE  /\ pc'[c] = to /\ \A d \in Clients : d # c => pc'[d] = pc[d]
               /\ \A P : \A d \in At(P)' : d # c => d \in At(P)
               /\ /\ pc[c] # "ask" /\ to = "ask" => x = a + 1
                  /\ pc[c] = "ask" /\ to # "ask" => x = a - 1
                  /\ pc[c] # "ask" /\ to # "ask" => x = a
               /\ /\ pc[c] \notin {"id", "ack"} /\ to \in {"id", "ack"} => y = k + 1
                  /\ pc[c] \in {"id", "ack"} /\ to \notin {"id", "ack"} => y = k - 1
                  /\ (pc[c] \in {"id", "ack"} <=> to \in {"id", "ack"}) => y = k
               /\ /\ pc[c] # "await" /\ to = "await" => z = w + 1
                  /\ pc[c] = "await" /\ to # "await" => z = w - 1
                  /\ pc[c] # "await" /\ to # "await" => z = w
    <2>1. pc'[c] = to /\ \A d \in Clients : d # c => pc'[d] = pc[d]
      BY <1>1, <1>8 DEF Typed
    <2>2. \A P : \A d \in At(P)' : d # c => d \in At(P)
      BY <2>1 DEF At
    <2>3. /\ pc[c] \notin {"ask"} /\ to \in {"ask"} => x = a + 1
          /\ pc[c] \in {"ask"} /\ to \notin {"ask"} => x = a - 1
          /\ (pc[c] \in {"ask"} <=> to \in {"ask"}) => x = a
      BY <1>1, <1>3, <1>4, <1>8, PlaceMoves
    <2>4. /\ pc[c] \notin {"id", "ack"} /\ to \in {"id", "ack"} => y = k + 1
          /\ pc[c] \in {"id", "ack"} /\ to \notin {"id", "ack"} => y = k - 1
          /\ (pc[c] \in {"id", "ack"} <=> to \in {"id", "ack"}) => y = k
      BY <1>1, <1>3, <1>4, <1>8, PlaceMoves
    <2>5. /\ pc[c] \notin {"await"} /\ to \in {"await"} => z = w + 1
          /\ pc[c] \in {"await"} /\ to \notin {"await"} => z = w - 1
          /\ (pc[c] \in {"await"} <=> to \in {"await"}) => z = w
      BY <1>1, <1>3, <1>4, <1>8, PlaceMoves
    <2> QED
      BY <2>1, <2>2, <2>3, <2>4, <2>5
  <1>9. ASSUME lusr' + x + lcts' + lstc' + y + lsrv' + B(mode = "login") <= 1,
               z <= lcts' + lstc',
               \A d \in At({"await"})' : lctos' = d /\ (lstc' > 0 => name[users_count] = d),
               mode # "bye" =>
                 /\ lstc' > 0 \/ lsrv' > 0 => spc = "logwait"
                 /\ \A d \in At({"id", "ack"})' : spc = "logwait" /\ uid'[d] = users_count,
               \A d \in Clients : uid'[d] # 0 => name[uid'[d]] = d
        PROVE  Logins'
    <2>1. Token'
      BY <1>2, <1>4, <1>9 DEF Token, B
    <2>2. Awaited'
      BY <1>2, <1>4, <1>9 DEF Awaited
    <2>3. Logged'
      BY <1>2, <1>9 DEF Logged
    <2> QED
      BY <1>2, <1>9, <2>1, <2>2, <2>3 DEF Logins
  <1>10. CASE Enter(c)
    <2>1. /\ pc[c] = "out" /\ pc' = [pc EXCEPT ![c] = "ask"] /\ lusr' = lusr - 1
          /\ UNCHANGED <<lcts, lstc, lsrv, lctos, uid>>
      BY <1>10 DEF Enter, Goto
    <2>2. x = a + 1 /\ y = k /\ z = w /\ (\A P : \A d \in At(P)' : d # c => d \in At(P))
          /\ pc'[c] = "ask"
      BY <1>8, <2>1
    <2>3. lusr' + x + lcts' + lstc' + y + lsrv' + B(mode = "login") <= 1
      BY <1>5, <1>6, <1>7, <2>1, <2>2
    <2>4. c \notin At({"await"})' /\ c \notin At({"id", "ack"})'
      BY <2>2 DEF At
    <2> QED
      BY <1>7, <1>9, <2>1, <2>2, <2>3, <2>4
  <1>11. CASE Ask(c)
    <2>1. /\ pc[c] = "ask" /\ pc' = [pc EXCEPT ![c] = "await"] /\ lctos' = c /\ lcts' = lcts + 1
          /\ UNCHANGED <<lusr, lstc, lsrv, uid>>
      BY <1>11 DEF Ask, Goto
    <2>2. x = a - 1 /\ y = k /\ z = w + 1 /\ (\A P : \A d \in At(P)' : d # c => d \in At(P))
          /\ pc'[c] = "await"
      <3>1. PICK to : to = "await" /\ pc' = [pc EXCEPT ![c] = to]
        BY <2>1
      <3>2. /\ pc[c] \notin {"id", "ack"} /\ to \notin {"ask"} /\ (to \in {"id", "ack"} <=> to = "id")
            /\ to = "id" \/ to = "await"
        BY <2>1, <3>1
      <3>3. x = a - 1
        BY <1>8, <2>1, <3>1, <3>2
      <3>4. y = k
        BY <1>8, <2>1, <3>1, <3>2
      <3>5. z = w + 1
        BY <1>8, <2>1, <3>1, <3>2
      <3> QED
        BY <1>8, <3>1, <3>3, <3>4, <3>5
    <2>3. a > 0
      <3>1. c \in At({"ask"})
        BY <2>1 DEF At
      <3>2. Cardinality(At({"ask"})) > 0
        BY <3>1, PlacesAre
      <3> QED
        BY <1>3, <3>2
    <2>4. /\ lusr' + x + lcts' + lstc' + y + lsrv' + B(mode = "login") <= 1
          /\ z <= lcts' + lstc' /\ lstc = 0 /\ lcts = 0 /\ w = 0
      BY <1>5, <1>6, <1>7, <2>1, <2>2, <2>3
    <2>5. \A d \in At({"await"})' : d = c
      <3> SUFFICES ASSUME NEW d \in At({"await"})', d # c PROVE FALSE
        OBVIOUS
      <3>1. d \in At({"await"})
        BY <2>2
      <3>2. Cardinality(At({"await"})) > 0
        BY <3>1, PlacesAre
      <3> QED
        BY <1>3, <2>4, <3>2
    <2>6. c \notin At({"id", "ack"})'
      BY <2>2 DEF At
    <2> QED
      BY <1>7, <1>9, <2>1, <2>2, <2>4, <2>5, <2>6
  <1>12. CASE Await(c)
    <2>1. /\ pc[c] = "await" /\ pc' = [pc EXCEPT ![c] = "id"] /\ lstc > 0 /\ lstc' = lstc - 1
          /\ uid' = [uid EXCEPT ![c] = users_count] /\ UNCHANGED <<lusr, lcts, lsrv, lctos>>
      BY <1>1, <1>12 DEF Await, Goto
    <2>2. x = a /\ y = k + 1 /\ z = w - 1 /\ (\A P : \A d \in At(P)' : d # c => d \in At(P))
          /\ pc'[c] = "id" /\ c \in At({"await"})
      <3>1. PICK to : to = "id" /\ pc' = [pc EXCEPT ![c] = to]
        BY <2>1
      <3>2. /\ pc[c] \notin {"id", "ack"} /\ to \notin {"ask"} /\ (to \in {"id", "ack"} <=> to = "id")
            /\ to = "id" \/ to = "await"
        BY <2>1, <3>1
      <3>3. x = a
        BY <1>8, <2>1, <3>1, <3>2
      <3>4. y = k + 1
        BY <1>8, <2>1, <3>1, <3>2
      <3>5. z = w - 1
        BY <1>8, <2>1, <3>1, <3>2
      <3>6. c \in At({"await"})
        BY <2>1 DEF At
      <3> QED
        BY <1>8, <3>1, <3>3, <3>4, <3>5, <3>6
    <2>3. /\ lusr' + x + lcts' + lstc' + y + lsrv' + B(mode = "login") <= 1
          /\ z <= lcts' + lstc' /\ k = 0 /\ lstc' = 0
      BY <1>5, <1>6, <1>7, <2>1, <2>2
    <2>4. At({"await"})' = {}
      <3> SUFFICES ASSUME NEW d \in At({"await"})' PROVE FALSE
        OBVIOUS
      <3>1. d # c
        BY <2>2 DEF At
      <3>2. d \in At({"await"})
        BY <2>2, <3>1
      <3> QED
        BY <1>7, <2>2, <3>1, <3>2
    <2>5. \A d \in At({"id", "ack"})' : d = c
      <3> SUFFICES ASSUME NEW d \in At({"id", "ack"})', d # c PROVE FALSE
        OBVIOUS
      <3>1. d \in At({"id", "ack"})
        BY <2>2
      <3>2. Cardinality(At({"id", "ack"})) > 0
        BY <3>1, PlacesAre
      <3> QED
        BY <1>3, <2>3, <3>2
    <2>6. uid'[c] = users_count /\ \A d \in Clients : d # c => uid'[d] = uid[d]
      BY <1>1, <2>1 DEF Typed
    <2>7. name[users_count] = c
      BY <1>7, <2>1, <2>2
    <2>8. \A d \in Clients : uid'[d] # 0 => name[uid'[d]] = d
      BY <1>7, <2>6, <2>7
    <2>9. mode # "bye" => /\ lstc' > 0 \/ lsrv' > 0 => spc = "logwait"
                          /\ \A d \in At({"id", "ack"})' : spc = "logwait" /\ uid'[d] = users_count
      BY <1>7, <2>1, <2>5, <2>6
    <2> QED
      BY <1>9, <2>3, <2>4, <2>8, <2>9
  <1>13. CASE Open(c)
    <2>1. /\ pc[c] = "id" /\ pc' = [pc EXCEPT ![c] = "ack"]
          /\ UNCHANGED <<lusr, lcts, lstc, lsrv, lctos, uid>>
      BY <1>13 DEF Open, Goto
    <2>2. x = a /\ y = k /\ z = w /\ (\A P : \A d \in At(P)' : d # c => d \in At(P))
          /\ pc'[c] = "ack" /\ c \in At({"id", "ack"})
      <3>1. PICK to : to = "ack" /\ pc' = [pc EXCEPT ![c] = to]
        BY <2>1
      <3>2. x = a /\ y = k /\ z = w
        BY <1>8, <2>1, <3>1
      <3>3. c \in At({"id", "ack"})
        BY <2>1 DEF At
      <3> QED
        BY <1>8, <3>1, <3>2, <3>3
    <2>3. c \notin At({"await"})'
      BY <2>2 DEF At
    <2> QED
      BY <1>7, <1>9, <2>1, <2>2, <2>3
  <1>14. CASE Ack(c)
    <2>1. /\ pc[c] = "ack" /\ pc' = [pc EXCEPT ![c] = "chat"] /\ lsrv' = lsrv + 1
          /\ UNCHANGED <<lusr, lcts, lstc, lctos, uid>>
      BY <1>14 DEF Ack, Goto
    <2>2. x = a /\ y = k - 1 /\ z = w /\ (\A P : \A d \in At(P)' : d # c => d \in At(P))
          /\ pc'[c] = "chat" /\ c \in At({"id", "ack"})
      <3>1. PICK to : to = "chat" /\ pc' = [pc EXCEPT ![c] = to]
        BY <2>1
      <3>2. pc[c] \in {"id", "ack"} /\ to \notin {"id", "ack"}
        BY <2>1, <3>1
      <3>3. y = k - 1
        BY <1>8, <3>1, <3>2
      <3>4. x = a /\ z = w
        BY <1>8, <2>1, <3>1
      <3>5. c \in At({"id", "ack"})
        BY <2>1 DEF At
      <3> QED
        BY <1>8, <3>1, <3>3, <3>4, <3>5
    <2>3. lusr' + x + lcts' + lstc' + y + lsrv' + B(mode = "login") <= 1
      BY <1>5, <1>6, <1>7, <2>1, <2>2
    <2>4. c \notin At({"await"})' /\ c \notin At({"id", "ack"})'
      BY <2>2 DEF At
    <2>5. mode # "bye" => spc = "logwait"
      BY <1>7, <2>2
    <2> QED
      BY <1>7, <1>9, <2>1, <2>2, <2>3, <2>4, <2>5
  \* Once logged in, or dead, it has no part in the login.
  <1>15. ASSUME NEW to \in {"chat", "sent", "left", "dead"}, pc' = [pc EXCEPT ![c] = to],
                UNCHANGED <<lusr, lcts, lstc, lsrv, lctos>>,
                uid' = uid \/ uid' = [uid EXCEPT ![c] = 0]
         PROVE  Logins'
    <2>1. (x = a \/ x = a - 1) /\ (y = k \/ y = k - 1) /\ (z = w \/ z = w - 1)
          /\ (\A P : \A d \in At(P)' : d # c => d \in At(P)) /\ pc'[c] = to
      BY <1>8, <1>15
    <2>2. /\ lusr' + x + lcts' + lstc' + y + lsrv' + B(mode = "login") <= 1
          /\ z <= lcts' + lstc'
      BY <1>5, <1>6, <1>7, <1>15, <2>1
    <2>3. c \notin At({"await"})' /\ c \notin At({"id", "ack"})'
      BY <2>1 DEF At
    <2>4. \A d \in Clients : (d # c => uid'[d] = uid[d]) /\ (uid'[c] = uid[c] \/ uid'[c] = 0)
      BY <1>1, <1>15 DEF Typed
    <2>5. \A d \in Clients : uid'[d] # 0 => name[uid'[d]] = d
      BY <1>7, <2>4
    <2>6. \A d \in At({"id", "ack"})' : d \in At({"id", "ack"}) /\ uid'[d] = uid[d]
      BY <2>1, <2>3, <2>4 DEF At
    <2>7. \A d \in At({"await"})' : d \in At({"await"})
      BY <2>1, <2>3
    <2> QED
      BY <1>7, <1>9, <1>15, <2>2, <2>5, <2>6, <2>7
  <1>16. CASE Send(c) \/ Released(c) \/ Leave(c)
    <2>1. PICK to \in {"sent", "chat", "left"} : pc' = [pc EXCEPT ![c] = to]
      BY <1>16 DEF Send, Released, Leave, Say, Goto
    <2>2. UNCHANGED <<lusr, lcts, lstc, lsrv, lctos, uid>>
      BY <1>16 DEF Send, Released, Leave, Say, Goto
    <2> QED
      BY <1>15, <2>1, <2>2
  <1>17. CASE End(c)
    BY <1>15, <1>17 DEF End
  <1>18. CASE Notice(c) \/ Show(c)
    <2>1. UNCHANGED <<lusr, lcts, lstc, lsrv, lctos, uid, pc>>
      BY <1>18 DEF Notice, Show
    <2>2. PICK to : to = pc[c] /\ pc' = [pc EXCEPT ![c] = to]
      BY <1>1, <2>1 DEF Typed
    <2>3. \A P : At(P)' = At(P)
      BY <2>1 DEF At
    <2>4. x = a /\ y = k /\ z = w
      BY <1>3, <1>4, <2>3
    <2> QED
      BY <1>7, <1>9, <2>1, <2>3, <2>4
  <1> QED
    BY <1>10, <1>11, <1>12, <1>13, <1>14, <1>16, <1>17, <1>18
       DEF ClientStep, Client, Handler, Login, Dismissed, Kill

LEMMA InitLogins == Init => Logins
  <1> SUFFICES ASSUME Init PROVE Logins
    OBVIOUS
  <1>1. At({"ask"}) = {} /\ At({"id", "ack"}) = {} /\ At({"await"}) = {}
    BY DEF Init, At
  <1>2. Token
    BY <1>1, FS_EmptySet DEF Init, Token, B
  <1>3. Awaited
    BY <1>1, FS_EmptySet DEF Init, Awaited
  <1> QED
    BY <1>1, <1>2, <1>3 DEF Init, Logins, Logged

LEMMA NextLogins ==
  ASSUME Base, Logins, [Next]_vars
  PROVE  Logins'
  <1>1. CASE ~ NoneExpired'
    BY <1>1 DEF Logins
  <1>2. CASE NoneExpired'
    <2>1. NoneExpired
      BY <1>2, ExpiredStays
    <2>2. CASE UNCHANGED vars
      <3>1. At({"ask"})' = At({"ask"}) /\ At({"id", "ack"})' = At({"id", "ack"})
            /\ At({"await"})' = At({"await"})
        BY <2>2 DEF At, vars, clientVars
      <3> QED
        BY <2>1, <2>2, <3>1 DEF Logins, Token, Awaited, Logged, vars, serverVars, loginVars,
           clientVars
    <2> QED
      BY <1>2, <2>1, <2>2, ServerLogins, ClientLogins DEF Next, ClientStep
  <1> QED
    BY <1>1, <1>2

(* As long as no login has expired, a client has the number the server     *)
(* wrote its name beside, so no two clients share a segment: the login     *)
(* segment is one token, and a killed client can only keep it.             *)
THEOREM NumbersAreOwn == Spec => []OwnId
  <1>1. Logins => OwnId
    BY DEF Logins, OwnId
  <1>2. Init => Base /\ Logins
    BY InitBase, InitLogins
  <1>3. Base /\ Logins /\ [Next]_vars => (Base /\ Logins)'
    BY NextBase, NextLogins
  <1> QED
    BY <1>1, <1>2, <1>3, PTL DEF Spec

-----------------------------------------------------------------------------
(* The commands of the clients.                                            *)

LEMMA InitCommands == Init => Commands
  <1> SUFFICES ASSUME Init PROVE Commands
    OBVIOUS
  <1>1. \A u \in Users : cts[u] = 0 /\ usr[u] = 0
    BY DEF Init
  <1>2. lstc = 0 /\ \A c \in Clients : uid[c] = 0
    BY DEF Init
  <1> QED
    BY <1>1, <1>2 DEF Commands, Quiet

(* A step that posts or takes in no slot but u.                            *)
LEMMA OneSlot ==
  ASSUME Base, Commands, NoneExpired, UNCHANGED <<users_count, lstc, uid>>,
         NEW u \in Users, u <= users_count, lstc > 0 => u # users_count,
         cts'[u] + usr'[u] <= 1,
         \A v \in Users : v # u => cts'[v] = cts[v] /\ usr'[v] = usr[v],
         \A c \in Clients : uid[c] # 0 /\ pc'[c] \notin {"sent", "left"} =>
           /\ uid[c] = u => cts'[u] = 0 /\ usr'[u] = 0
           /\ uid[c] # u => pc[c] \notin {"sent", "left"}
  PROVE  Commands'
  <1>1. Users' = Users
    BY DEF Users
  <1>2. \A v \in Users : cts'[v] + usr'[v] <= 1
    BY DEF Commands
  <1>3. \A c \in Clients : uid[c] # 0 => uid[c] \in Users
    BY DEF Base, Typed
  <1>4. \A c \in Clients : uid[c] # 0 /\ pc'[c] \notin {"sent", "left"} =>
          cts'[uid[c]] = 0 /\ usr'[uid[c]] = 0
    BY <1>3 DEF Commands, Quiet
  <1>5. users_count \in Nat /\ Users \subseteq Nat
    <2>1. PICK n \in Nat : Users = 1 .. n /\ n = Cardinality(Clients)
      BY Sizes
    <2> QED
      BY <2>1 DEF Base, Typed
  <1>6. \A v \in Users : v > users_count => cts'[v] = 0 /\ usr'[v] = 0
    <2>1. \A v \in Users : v > users_count => v # u
      BY <1>5
    <2> QED
      BY <2>1 DEF Commands, Quiet
  <1>7. users_count > 0 => users_count \in Users
    <2>1. PICK n \in Nat : Users = 1 .. n /\ n = Cardinality(Clients)
      BY Sizes
    <2> QED
      BY <2>1 DEF Base, Typed
  <1>8. lstc > 0 => /\ users_count > 0 /\ \A c \in Clients : uid[c] # users_count
                    /\ cts'[users_count] = 0 /\ usr'[users_count] = 0
    BY <1>7 DEF Commands, Quiet
  <1> QED
    BY <1>1, <1>2, <1>4, <1>6, <1>8 DEF Commands, Quiet

(* A step that touches no slot, and gives no client a number.              *)
LEMMA NoSlot ==
  ASSUME Commands, NoneExpired, UNCHANGED <<users_count, lstc, cts, usr>>,
         \A c \in Clients : uid'[c] = uid[c] \/ uid'[c] = 0,
         \A c \in Clients : uid'[c] # 0 /\ pc[c] \in {"sent", "left"} => pc'[c] = pc[c]
  PROVE  Commands'
  BY DEF Commands, Quiet, Users

LEMMA ServerCommands ==
  ASSUME Base, Commands, Server \/ Shutdown, NoneExpired, NoneExpired'
  PROVE  Commands'
  <1> USE DEF loginVars, userVars, clientVars
  <1>1. UNCHANGED <<pc, uid>>
    BY DEF Server, Skip, Register, LoginDone, LoginExpires, Resend, Disconnect, Write, Post,
       Acknowledged, GiveUp, SentToAll, Shutdown
  <1>2. Typed /\ Numbered
    BY DEF Base
  <1>3. PICK n \in Nat : n = Cardinality(Clients) /\ Users = 1 .. n
    BY Sizes
  <1>4. users_count \in 0 .. n /\ (\A u \in Users : st[u] = "on" => u <= users_count)
    BY <1>2, <1>3 DEF Typed, Numbered
  <1>5. CASE UNCHANGED <<users_count, lstc, cts, usr>>
    BY <1>1, <1>5, NoSlot
  <1>6. CASE Register
    <2>1. /\ users_count' = users_count + 1 /\ UNCHANGED <<cts, usr, uid, pc>>
          /\ users_count' \in 0 .. n
      BY <1>3, <1>6, BaseRanges, ServerTyped DEF Register, Typed, Base
    <2>2. users_count + 1 \in Users
      BY <1>3, <1>4, <2>1
    <2>3. \A u \in Users : u > users_count' => u > users_count
      BY <1>3, <1>4, <2>1
    <2>4. Quiet(users_count + 1)
      BY <1>4, <2>2 DEF Commands
    <2>5. \A c \in Clients : uid[c] # users_count + 1
      <3>1. \A c \in Clients : uid[c] <= users_count /\ uid[c] \in 0 .. n
        BY <1>2, <1>3 DEF Numbered, Typed
      <3> QED
        BY <1>4, <3>1
    <2>6. users_count + 1 > 0
      BY <1>4
    <2> QED
      BY <2>1, <2>3, <2>4, <2>5, <2>6 DEF Commands, Quiet, Users
  \* The command of user pos is read.
  <1>7. ASSUME pos \in On, cts[pos] > 0, UNCHANGED <<users_count, lstc>>,
               cts' = [cts EXCEPT ![pos] = @ - 1],
               usr' = usr \/ usr' = [usr EXCEPT ![pos] = @ + 1]
        PROVE  Commands'
    <2>1. pos \in Users /\ pos <= users_count /\ ~ Quiet(pos)
      BY <1>4, <1>7 DEF On, Quiet
    <2>2. cts'[pos] + usr'[pos] <= 1
      <3>1. PICK x \in Nat, y \in Nat : x = cts[pos] /\ y = usr[pos]
        BY <1>2, <2>1 DEF Typed
      <3>2. x + y <= 1
        BY <2>1, <3>1 DEF Commands
      <3>3. cts'[pos] = x - 1 /\ (usr'[pos] = y \/ usr'[pos] = y + 1)
        BY <1>2, <1>7, <2>1, <3>1 DEF Typed
      <3> QED
        BY <3>1, <3>2, <3>3
    <2>3. \A v \in Users : v # pos => cts'[v] = cts[v] /\ usr'[v] = usr[v]
      BY <1>2, <1>7 DEF Typed
    <2>4. lstc > 0 => pos # users_count
      BY <2>1 DEF Commands
    <2>5. \A c \in Clients : uid[c] # 0 /\ pc'[c] \notin {"sent", "left"} =>
            uid[c] # pos /\ pc[c] \notin {"sent", "left"}
      BY <1>1, <2>1 DEF Commands
    <2> QED
      BY <1>1, <1>7, <2>1, <2>2, <2>3, <2>4, <2>5, OneSlot
  <1>8. CASE Resend
    BY <1>7, <1>8 DEF Resend
  <1>9. CASE Disconnect
    BY <1>7, <1>9 DEF Disconnect
  <1> QED
    BY <1>5, <1>6, <1>8, <1>9
       DEF Server, Skip, LoginDone, LoginExpires, Write, Post, Acknowledged, GiveUp, SentToAll,
           Shutdown

LEMMA ClientCommands ==
  ASSUME Base, Logins, Commands, NoneExpired, NEW c \in Clients, ClientStep(c)
  PROVE  Commands'
  <1> USE DEF serverVars, loginVars, userVars
  <1>1. Typed /\ Numbered
    BY DEF Base
  <1>2. PICK n \in Nat : n = Cardinality(Clients) /\ Users = 1 .. n
    BY Sizes
  <1>3. UNCHANGED users_count /\ users_count \in 0 .. n
    BY <1>1, <1>2 DEF Typed, ClientStep, Client, Handler, Login, Kill, Enter, Ask, Await, Open, Ack,
       Send, Released, Leave, End, Notice, Show, Dismissed, Say
  <1>4. CASE Enter(c) \/ Ask(c) \/ Open(c) \/ Ack(c)
    <2>1. UNCHANGED <<lstc, cts, usr, uid>>
      BY <1>4 DEF Enter, Ask, Open, Ack
    <2>2. \A d \in Clients : pc[d] \in {"sent", "left"} => pc'[d] = pc[d]
      BY <1>1, <1>4 DEF Enter, Ask, Open, Ack, Goto, Typed
    <2> QED
      BY <1>3, <2>1, <2>2, NoSlot
  <1>5. CASE Await(c)
    <2>1. /\ lstc > 0 /\ lstc' = lstc - 1 /\ UNCHANGED <<cts, usr>>
          /\ uid' = [uid EXCEPT ![c] = users_count]
          /\ pc[c] = "await" /\ pc' = [pc EXCEPT ![c] = "id"]
      BY <1>1, <1>5 DEF Await, Goto, Numbered
    <2>2. ~ (lstc' > 0)
      <3>1. PICK a, k : a = Cardinality(At({"ask"})) /\ k = Cardinality(At({"id", "ack"}))
        OBVIOUS
      <3>2. a \in Nat /\ k \in Nat
        BY <3>1, PlacesAre
      <3>3. lusr + a + lcts + lstc + k + lsrv + B(mode = "login") <= 1
        BY <3>1 DEF Logins, Token
      <3>4. lusr \in Nat /\ lcts \in Nat /\ lstc \in Nat /\ lsrv \in Nat /\ B(mode = "login") \in Nat
        BY <1>1 DEF Typed, B
      <3> QED
        BY <2>1, <3>2, <3>3, <3>4
    <2>3. uid'[c] = users_count /\ \A d \in Clients : d # c => uid'[d] = uid[d] /\ pc'[d] = pc[d]
      BY <1>1, <2>1 DEF Typed
    <2>4. Quiet(users_count)
      BY <2>1 DEF Commands
    <2> QED
      BY <1>3, <2>1, <2>2, <2>3, <2>4 DEF Commands, Quiet, Users
  <1>6. ASSUME NEW cmd, NEW to \in {"sent", "left"}, Say(c, cmd, to), UNCHANGED <<lstc, usr, uid>>
        PROVE  Commands'
    <2>1. /\ pc[c] = "chat" /\ pc' = [pc EXCEPT ![c] = to]
          /\ cts' = [cts EXCEPT ![uid[c]] = @ + 1]
      BY <1>6 DEF Say, Goto
    <2>2. pc'[c] = to /\ \A d \in Clients : d # c => pc'[d] = pc[d]
      BY <1>1, <2>1 DEF Typed
    <2>3. CASE uid[c] = 0
      <3>1. cts' = cts
        BY <1>1, <2>1, <2>3, Sizes DEF Typed
      <3> QED
        BY <1>3, <1>6, <2>1, <2>2, <2>3, <3>1, NoSlot
    <2>4. CASE uid[c] # 0
      <3>1. uid[c] \in Users /\ uid[c] <= users_count
        BY <1>1, <2>4 DEF Typed, Numbered
      <3>2. Quiet(uid[c]) /\ (lstc > 0 => uid[c] # users_count)
        BY <2>1, <2>4 DEF Commands
      <3>3. cts'[uid[c]] = 1 /\ usr'[uid[c]] = 0
        BY <1>1, <1>6, <2>1, <3>1, <3>2 DEF Typed, Quiet
      <3>4. \A v \in Users : v # uid[c] => cts'[v] = cts[v] /\ usr'[v] = usr[v]
        BY <1>1, <1>6, <2>1 DEF Typed
      <3>5. \A d \in Clients : d # c /\ uid[d] # 0 => uid[d] # uid[c]
        BY <2>4 DEF Logins
      <3>6. \A d \in Clients : uid[d] # 0 /\ pc'[d] \notin {"sent", "left"} =>
              uid[d] # uid[c] /\ pc[d] \notin {"sent", "left"}
        BY <2>2, <3>5
      <3>7. cts'[uid[c]] + usr'[uid[c]] <= 1
        BY <3>3
      <3> QED
        BY <1>3, <1>6, <3>1, <3>2, <3>4, <3>6, <3>7, OneSlot
    <2> QED
      BY <2>3, <2>4
  <1>7. CASE Send(c)
    BY <1>6, <1>7 DEF Send
  <1>8. CASE Leave(c)
    BY <1>6, <1>8 DEF Leave
  <1>9. CASE Released(c)
    <2>1. /\ pc[c] = "sent" /\ pc' = [pc EXCEPT ![c] = "chat"] /\ usr[uid[c]] > 0
          /\ usr' = [usr EXCEPT ![uid[c]] = @ - 1] /\ UNCHANGED <<lstc, cts, uid>>
      BY <1>9 DEF Released, Goto
    <2>2. \A d \in Clients : d # c => pc'[d] = pc[d]
      BY <1>1, <2>1 DEF Typed
    <2>3. CASE uid[c] = 0
      <3>1. usr' = usr
        BY <1>1, <2>1, <2>3, Sizes DEF Typed
      <3> QED
        BY <1>3, <2>1, <2>2, <2>3, <3>1, NoSlot
    <2>4. CASE uid[c] # 0
      <3>1. uid[c] \in Users /\ uid[c] <= users_count
        BY <1>1, <2>4 DEF Typed, Numbered
      <3>2. lstc > 0 => uid[c] # users_count
        BY DEF Commands
      <3>3. cts'[uid[c]] = 0 /\ usr'[uid[c]] = 0
        <4>1. PICK x \in Nat, y \in Nat : x = cts[uid[c]] /\ y = usr[uid[c]]
          BY <1>1, <3>1 DEF Typed
        <4>2. x + y <= 1 /\ y > 0
          BY <2>1, <3>1, <4>1 DEF Commands
        <4>3. cts'[uid[c]] = x /\ usr'[uid[c]] = y - 1
          BY <1>1, <2>1, <3>1, <4>1 DEF Typed
        <4> QED
          BY <4>1, <4>2, <4>3
      <3>4. \A v \in Users : v # uid[c] => cts'[v] = cts[v] /\ usr'[v] = usr[v]
        BY <1>1, <2>1 DEF Typed
      <3>5. \A d \in Clients : d # c /\ uid[d] # 0 => uid[d] # uid[c]
        BY <2>4 DEF Logins
      <3>6. \A d \in Clients : uid[d] # uid[c] /\ pc'[d] \notin {"sent", "left"} =>
              pc[d] \notin {"sent", "left"}
        BY <2>2
      <3>7. cts'[uid[c]] + usr'[uid[c]] <= 1
        BY <3>3
      <3> QED
        BY <1>3, <2>1, <3>1, <3>2, <3>3, <3>4, <3>6, <3>7, OneSlot
    <2> QED
      BY <2>3, <2>4
  <1>10. CASE End(c)
    <2>1. /\ UNCHANGED <<lstc, cts, usr>> /\ pc' = [pc EXCEPT ![c] = "dead"]
          /\ uid' = [uid EXCEPT ![c] = 0]
      BY <1>10 DEF End
    <2>2. uid'[c] = 0 /\ \A d \in Clients : d # c => pc'[d] = pc[d] /\ uid'[d] = uid[d]
      BY <1>1, <2>1 DEF Typed
    <2> QED
      BY <1>3, <2>1, <2>2, NoSlot
  <1>11. CASE Notice(c) \/ Show(c)
    <2>1. UNCHANGED <<lstc, cts, usr, uid, pc>>
      BY <1>11 DEF Notice, Show
    <2> QED
      BY <1>3, <2>1, NoSlot
  <1> QED
    BY <1>4, <1>5, <1>7, <1>8, <1>9, <1>10, <1>11
       DEF ClientStep, Client, Handler, Login, Dismissed, Kill

LEMMA NextCommands ==
  ASSUME Base, Logins, Commands, [Next]_vars
  PROVE  Commands'
  <1>1. CASE ~ NoneExpired'
    BY <1>1 DEF Commands
  <1>2. CASE NoneExpired'
    <2>1. NoneExpired
      BY <1>2, ExpiredStays
    <2>2. CASE UNCHANGED vars
      BY <2>1, <2>2, NoSlot DEF vars, serverVars, loginVars, userVars, clientVars
    <2> QED
      BY <1>2, <2>1, <2>2, ServerCommands, ClientCommands DEF Next, ClientStep
  <1> QED
    BY <1>1, <1>2

(* As long as no login has expired, the server has parsed each command of  *)
(* a client before the client can write the next one into the same buffer: *)
(* there is at most one command, or its release, on the way.               *)
THEOREM CommandsAreKept == Spec => []CommandKept
  <1>1. Base /\ Commands => CommandKept
    BY DEF Base, Typed, Commands, CommandKept, Quiet, Users
  <1>2. Init => Base /\ Logins /\ Commands
    BY InitBase, InitLogins, InitCommands
  <1>3. Base /\ Logins /\ Commands /\ [Next]_vars => (Base /\ Logins /\ Commands)'
    BY NextBase, NextLogins, NextCommands
  <1> QED
    BY <1>1, <1>2, <1>3, PTL DEF Spec

-----------------------------------------------------------------------------
(* The acknowledgements under way.                                         *)

LEMMA InitLedger == Init => Handlers /\ Ledger
  BY DEF Init, Handlers, Ledger

LEMMA NextHandlers ==
  ASSUME Base, Handlers, [Next]_vars
  PROVE  Handlers'
  <1> USE DEF serverVars, loginVars, userVars, clientVars
  <1>1. Typed
    BY DEF Base
  <1>2. CASE UNCHANGED <<pc, hand>>
    BY <1>2 DEF Handlers
  <1>3. ASSUME NEW c \in Clients, NEW to, pc' = [pc EXCEPT ![c] = to],
               \/ pc[c] \notin {"chat", "sent", "left"} /\ hand' = hand
               \/ to \in {"chat", "sent", "left"} /\ \A d \in Clients : d # c => hand'[d] = hand[d]
               \/ hand' = [hand EXCEPT ![c] = "off"]
        PROVE  Handlers'
    <2>1. pc'[c] = to /\ \A d \in Clients : d # c => pc'[d] = pc[d]
      BY <1>1, <1>3 DEF Typed
    <2>2. \A d \in Clients : d # c => hand'[d] = hand[d]
      BY <1>1, <1>3 DEF Typed
    <2>3. to \notin {"chat", "sent", "left"} => hand'[c] = "off"
      BY <1>1, <1>3 DEF Typed, Handlers
    <2> QED
      BY <2>1, <2>2, <2>3 DEF Handlers
  <1>4. ASSUME NEW c \in Clients, Enter(c) \/ Ask(c) \/ Await(c) \/ Open(c)
        PROVE  Handlers'
    <2>1. PICK to : pc' = [pc EXCEPT ![c] = to]
      BY <1>4 DEF Enter, Ask, Await, Open, Goto
    <2>2. pc[c] \notin {"chat", "sent", "left"} /\ hand' = hand
      BY <1>4 DEF Enter, Ask, Await, Open, Goto
    <2> QED
      BY <1>3, <2>1, <2>2
  <1>5. ASSUME NEW c \in Clients, Ack(c) \/ Send(c) \/ Released(c) \/ Leave(c)
        PROVE  Handlers'
    <2>1. PICK to \in {"chat", "sent", "left"} : pc' = [pc EXCEPT ![c] = to]
      BY <1>5 DEF Ack, Send, Released, Leave, Say, Goto
    <2>2. hand' = hand \/ hand' = [hand EXCEPT ![c] = "idle"]
      BY <1>5 DEF Ack, Send, Released, Leave
    <2>3. \A d \in Clients : d # c => hand'[d] = hand[d]
      BY <1>1, <2>2 DEF Typed
    <2> QED
      BY <1>3, <2>1, <2>3
  <1>6. ASSUME NEW c \in Clients, End(c)
        PROVE  Handlers'
    <2>1. PICK to : pc' = [pc EXCEPT ![c] = to]
      BY <1>6 DEF End
    <2> QED
      BY <1>3, <1>6, <2>1 DEF End
  <1>7. ASSUME NEW c \in Clients, Notice(c) \/ Show(c)
        PROVE  Handlers'
    <2>1. hand[c] # "off" /\ pc' = pc /\ \A d \in Clients : d # c => hand'[d] = hand[d]
      BY <1>1, <1>7 DEF Notice, Show, Typed
    <2> QED
      BY <2>1 DEF Handlers
  <1> QED
    BY <1>2, <1>4, <1>5, <1>6, <1>7
       DEF Next, Server, Skip, Register, LoginDone, LoginExpires, Resend, Disconnect, Write, Post,
           Acknowledged, GiveUp, SentToAll, Shutdown, Client, Login, Handler, Dismissed, Kill, vars

LEMMA ServerLedger ==
  ASSUME Base, Ledger, Server \/ Shutdown, NoneExpired, NoneExpired', mode' # "bye", spc' # "down"
  PROVE  Ledger'
  <1> USE DEF loginVars, userVars, clientVars
  <1>1. UNCHANGED <<pc, uid, hand>>
    BY DEF Server, Skip, Register, LoginDone, LoginExpires, Resend, Disconnect, Write, Post,
       Acknowledged, GiveUp, SentToAll, Shutdown
  <1>2. Typed /\ Numbered /\ Phases
    BY DEF Base
  <1>3. PICK n \in Nat : n = Cardinality(Clients) /\ Users = 1 .. n
    BY Sizes
  <1>4. /\ users_count \in 0 .. n /\ sec \in 0 .. n /\ Users \subseteq Nat /\ 0 \notin Users
        /\ On \subseteq Users /\ \A u \in On : u <= users_count
    BY <1>2, <1>3 DEF Typed, Numbered, On
  <1>5. mode # "bye" /\ spc # "down"
    <2>1. CASE Skip \/ Register \/ LoginDone \/ LoginExpires \/ Resend \/ Disconnect
      BY <1>2, <2>1 DEF Skip, Register, LoginDone, LoginExpires, Resend, Disconnect, Phases
    <2>2. CASE Write \/ Post \/ Acknowledged \/ GiveUp
      BY <2>2 DEF Write, Post, Acknowledged, GiveUp
    <2>3. CASE SentToAll \/ Shutdown
      BY <2>3 DEF SentToAll, Shutdown
    <2> QED
      BY <2>1, <2>2, <2>3 DEF Server
  <1>6. /\ \A c \in Clients : uid[c] \in On \ missed /\ pc[c] \in {"chat", "sent"} =>
             stc[uid[c]] + srv[uid[c]] + B(hand[c] = "got") = Due(uid[c])
        /\ \A u \in Users : u > users_count => stc[u] = 0 /\ srv[u] = 0
        /\ spc = "logwait" =>
             /\ stc[users_count] = 0 /\ srv[users_count] = 0
             /\ \A c \in Clients : uid[c] = users_count => hand[c] # "got"
    BY <1>5 DEF Ledger, UnderWay
  <1>7. \A c \in Clients : B(hand[c] = "got") \in Nat
    BY DEF B
  \* A step that neither posts nor takes.
  <1>8. ASSUME UNCHANGED <<users_count, stc, srv>>, spc' # "logwait",
               NEW D, D = [u \in Users |-> Due(u)'], \A u \in On' \ missed' : D[u] = Due(u),
               On' \ missed' \subseteq On \ missed
        PROVE  Ledger'
    <2>1. \A c \in Clients : uid[c] \in On' \ missed' /\ pc[c] \in {"chat", "sent"} =>
             stc[uid[c]] + srv[uid[c]] + B(hand[c] = "got") = D[uid[c]]
      BY <1>6, <1>8
    <2>2. \A c \in Clients : uid[c] \in On' \ missed' => D[uid[c]] = Due(uid[c])'
      BY <1>1, <1>4, <1>8
    <2> QED
      BY <1>1, <1>6, <1>8, <2>1, <2>2 DEF Ledger, UnderWay, Users, B
  <1>9. PICK D : D = [u \in Users |-> Due(u)']
    OBVIOUS
  <1>10. \A u \in Users : D[u] = users_count' - u +
           (IF spc' = "logwait" THEN 0
            ELSE IF mode' = "login" THEN IF sec' = 0 \/ u < sec' THEN 1 ELSE 0
            ELSE 1 + IF spc' = "wait" /\ u = sec' THEN 1 ELSE 0)
    BY <1>9 DEF Due, B
  <1>11. \A u \in Users : Due(u) = users_count - u +
           (IF spc = "logwait" THEN 0
            ELSE IF mode = "login" THEN IF sec = 0 \/ u < sec THEN 1 ELSE 0
            ELSE 1 + IF spc = "wait" /\ u = sec THEN 1 ELSE 0)
    BY DEF Due, B
  <1>12. CASE Skip \/ Write \/ Resend
    <2>1. /\ UNCHANGED <<users_count, stc, srv, missed, st>> /\ spc \in {"scan", "write"}
          /\ spc' \in {"scan", "write", "post"}
          /\ \/ mode = "user" /\ mode' = "user"
             \/ UNCHANGED <<mode, sec>>
      BY <1>2, <1>12 DEF Skip, Write, Resend, Phases
    <2>2. On' = On
      BY <2>1 DEF On, Users
    <2>3. \A u \in On : D[u] = Due(u)
      BY <1>4, <1>10, <1>11, <2>1
    <2> QED
      BY <1>8, <1>9, <2>1, <2>2, <2>3
  <1>13. CASE Register
    <2>1. /\ users_count' = users_count + 1 /\ UNCHANGED <<stc, srv, missed>>
          /\ spc = "scan" /\ spc' = "logwait" /\ mode = "user"
          /\ st' = [st EXCEPT ![users_count + 1] = "on"] /\ users_count' \in 0 .. n
      BY <1>2, <1>3, <1>13, BaseRanges, ServerTyped DEF Register, Phases, Typed, Base
    <2>2. users_count + 1 \in Users /\ users_count + 1 > users_count
      BY <1>3, <1>4, <2>1
    <2>3. \A c \in Clients : uid[c] # users_count + 1
      <3>1. \A c \in Clients : uid[c] <= users_count /\ uid[c] \in 0 .. n
        BY <1>2, <1>3 DEF Numbered, Typed
      <3> QED
        BY <1>4, <3>1
    <2>4. On' = On \cup {users_count + 1}
      BY <1>2, <2>1, <2>2 DEF On, Users, Typed
    <2>5. \A u \in On : D[u] = Due(u)
      BY <1>4, <1>10, <1>11, <2>1
    <2>6. \A u \in Users : u > users_count' => u > users_count
      BY <1>4, <2>1
    <2>7. \A u \in Users : u > users_count' => stc[u] = 0 /\ srv[u] = 0
      BY <1>6, <2>6
    <2>8. stc[users_count + 1] = 0 /\ srv[users_count + 1] = 0
      BY <1>6, <2>2
    <2>9. \A c \in Clients : uid[c] \in On' \ missed' /\ pc[c] \in {"chat", "sent"} =>
             stc[uid[c]] + srv[uid[c]] + B(hand[c] = "got") = D[uid[c]]
      BY <1>6, <2>1, <2>3, <2>4, <2>5
    <2>10. \A c \in Clients : uid[c] \in On' \ missed' => D[uid[c]] = Due(uid[c])'
      BY <1>1, <1>4, <1>9, <2>2, <2>4
    <2> QED
      BY <1>1, <2>1, <2>3, <2>7, <2>8, <2>9, <2>10 DEF Ledger, UnderWay, Users, B
  <1>14. CASE LoginDone
    <2>1. /\ UNCHANGED <<users_count, stc, srv, missed, st>> /\ spc = "logwait" /\ spc' = "write"
          /\ mode' = "login" /\ sec' = FirstOf(On, 1)
      BY <1>14 DEF LoginDone, NextUser
    <2>2. \A u \in On : sec' # 0 /\ sec' <= u
      <3>1. /\ FirstOf(On, 1) = 0 => \A u \in On : u < 1
            /\ FirstOf(On, 1) # 0 => \A u \in On : u >= 1 => FirstOf(On, 1) <= u
        BY <1>4, FirstIs
      <3>2. \A u \in On : u >= 1
        BY <1>4
      <3> QED
        BY <1>4, <2>1, <3>1, <3>2
    <2>3. On' = On
      BY <2>1 DEF On, Users
    <2>4. sec' \in Nat
      <3>1. FirstOf(On, 1) \in Users \cup {0}
        BY <1>4, FirstIs
      <3>2. Users \cup {0} \subseteq Nat
        BY <1>4
      <3> QED
        BY <2>1, <3>1, <3>2
    <2>5. \A u \in On : D[u] = Due(u)
      BY <1>4, <1>10, <1>11, <2>1, <2>2, <2>4
    <2> QED
      BY <1>8, <1>9, <2>1, <2>3, <2>5
  <1>15. CASE LoginExpires
    <2>1. users_count \in Users /\ st'[users_count] = "expired"
      BY <1>2, <1>3, <1>15 DEF LoginExpires, Phases, Typed
    <2> QED
      BY <2>1 DEF NoneExpired, Users
  <1>16. CASE Disconnect
    <2>1. /\ UNCHANGED <<users_count, stc, srv>> /\ spc = "scan" /\ mode = "user" /\ spc' = "write"
          /\ mode' = "user" /\ st' = [st EXCEPT ![pos] = "off"] /\ missed' = missed \ {pos}
      BY <1>2, <1>16 DEF Disconnect, Phases
    <2>2. On' \ missed' \subseteq On \ missed
      BY <1>2, <2>1 DEF On, Users, Typed
    <2>3. \A u \in On : D[u] = Due(u)
      BY <1>4, <1>10, <1>11, <2>1
    <2> QED
      BY <1>8, <1>9, <2>1, <2>2, <2>3
  <1>17. CASE Post
    <2>1. /\ spc = "post" /\ sec \in On /\ stc' = [stc EXCEPT ![sec] = @ + 1]
          /\ UNCHANGED <<users_count, srv, missed, st, mode>> /\ spc' \in {"write", "wait"}
      BY <1>2, <1>17 DEF Post, Phases
    <2>2. On' = On /\ sec \in Nat
      BY <1>4, <2>1 DEF On, Users
    <2>3. stc'[sec] = stc[sec] + 1 /\ \A u \in Users : u # sec => stc'[u] = stc[u]
      BY <1>2, <1>4, <2>1 DEF Typed
    <2>4. \A u \in On : D[u] = Due(u) + (IF u = sec THEN 1 ELSE 0)
      <3>1. CASE mode = "login"
        <4>1. spc' = "write" /\ sec' = FirstOf(On, sec + 1)
          BY <1>17, <3>1 DEF Post, NextUser
        <4>2. /\ FirstOf(On, sec + 1) = 0 => \A u \in On : u < sec + 1
              /\ FirstOf(On, sec + 1) # 0 => /\ FirstOf(On, sec + 1) >= sec + 1
                                             /\ \A u \in On : u >= sec + 1 => FirstOf(On, sec + 1) <= u
              /\ FirstOf(On, sec + 1) \in Nat
          <5>1. sec + 1 \in Nat
            BY <2>2
          <5>2. FirstOf(On, sec + 1) \in Users \cup {0}
            BY <1>4, <5>1, FirstIs
          <5>3. FirstOf(On, sec + 1) \in Nat
            <6>1. Users \cup {0} \subseteq Nat
              BY <1>4
            <6> QED
              BY <5>2, <6>1
          <5> QED
            BY <1>4, <5>1, <5>3, FirstIs
        <4>3. \A u \in On : (sec' = 0 \/ u < sec') <=> u <= sec
          BY <1>4, <2>2, <4>1, <4>2
        <4>4. \A u \in On : (sec = 0 \/ u < sec) <=> u < sec
          BY <1>4, <2>1
        <4> QED
          BY <1>4, <1>10, <1>11, <2>1, <2>2, <3>1, <4>1, <4>3, <4>4
      <3>2. CASE mode # "login"
        BY <1>4, <1>10, <1>11, <1>17, <2>1, <3>2 DEF Post
      <3> QED
        BY <3>1, <3>2
    <2>5. ASSUME NEW c \in Clients, uid[c] \in On \ missed, pc[c] \in {"chat", "sent"}
          PROVE  stc'[uid[c]] + srv[uid[c]] + B(hand[c] = "got") = D[uid[c]]
      <3>1. PICK x \in Nat, y \in Nat, z \in Nat :
               x = stc[uid[c]] /\ y = srv[uid[c]] /\ z = B(hand[c] = "got")
        BY <1>2, <1>4, <1>7, <2>5 DEF Typed
      <3>2. x + y + z = Due(uid[c])
        BY <1>6, <2>5, <3>1
      <3>3. stc'[uid[c]] = x + (IF uid[c] = sec THEN 1 ELSE 0)
        <4>1. CASE uid[c] = sec
          BY <2>3, <3>1, <4>1
        <4>2. CASE uid[c] # sec
          <5>1. uid[c] \in Users
            BY <1>4, <2>5
          <5>2. stc'[uid[c]] = x
            BY <2>3, <3>1, <4>2, <5>1
          <5> QED
            BY <3>1, <4>2, <5>2
        <4> QED
          BY <4>1, <4>2
      <3>4. D[uid[c]] = x + y + z + (IF uid[c] = sec THEN 1 ELSE 0)
        BY <2>4, <2>5, <3>2
      <3> QED
        BY <3>1, <3>3, <3>4
    <2>6. \A u \in Users : u > users_count => stc'[u] = 0 /\ srv[u] = 0
      <3>1. \A u \in Users : u > users_count => u # sec
        BY <1>4, <2>1
      <3> QED
        BY <1>6, <2>3, <3>1
    <2>7. \A c \in Clients : uid[c] \in On' \ missed' => D[uid[c]] = Due(uid[c])'
      BY <1>1, <1>4, <1>9, <2>2
    <2> QED
      BY <1>1, <2>1, <2>2, <2>5, <2>6, <2>7 DEF Ledger, UnderWay, Users, B
  <1>18. CASE Acknowledged
    <2>1. /\ spc = "wait" /\ sec \in On /\ srv[sec] > 0 /\ srv' = [srv EXCEPT ![sec] = @ - 1]
          /\ UNCHANGED <<users_count, stc, missed, st, mode>> /\ spc' = "write" /\ mode = "user"
      BY <1>2, <1>5, <1>18 DEF Acknowledged, Onwards, Phases, Typed
    <2>2. On' = On /\ sec \in Nat
      BY <1>4, <2>1 DEF On, Users
    <2>3. srv'[sec] = srv[sec] - 1 /\ \A u \in Users : u # sec => srv'[u] = srv[u]
      BY <1>2, <1>4, <2>1 DEF Typed
    <2>4. \A u \in On : D[u] = Due(u) - (IF u = sec THEN 1 ELSE 0)
      BY <1>4, <1>10, <1>11, <2>1
    <2>5. ASSUME NEW c \in Clients, uid[c] \in On \ missed, pc[c] \in {"chat", "sent"}
          PROVE  stc[uid[c]] + srv'[uid[c]] + B(hand[c] = "got") = D[uid[c]]
      <3>1. PICK x \in Nat, y \in Nat, z \in Nat :
               x = stc[uid[c]] /\ y = srv[uid[c]] /\ z = B(hand[c] = "got")
        BY <1>2, <1>4, <1>7, <2>5 DEF Typed
      <3>2. x + y + z = Due(uid[c])
        BY <1>6, <2>5, <3>1
      <3>3. srv'[uid[c]] = y - (IF uid[c] = sec THEN 1 ELSE 0)
        <4>1. CASE uid[c] = sec
          BY <2>3, <3>1, <4>1
        <4>2. CASE uid[c] # sec
          <5>1. uid[c] \in Users
            BY <1>4, <2>5
          <5>2. srv'[uid[c]] = y
            BY <2>3, <3>1, <4>2, <5>1
          <5> QED
            BY <3>1, <4>2, <5>2
        <4> QED
          BY <4>1, <4>2
      <3>4. D[uid[c]] = x + y + z - (IF uid[c] = sec THEN 1 ELSE 0)
        BY <2>4, <2>5, <3>2
      <3> QED
        BY <3>1, <3>3, <3>4
    <2>6. \A u \in Users : u > users_count => stc[u] = 0 /\ srv'[u] = 0
      <3>1. \A u \in Users : u > users_count => u # sec
        BY <1>4, <2>1
      <3> QED
        BY <1>6, <2>3, <3>1
    <2>7. \A c \in Clients : uid[c] \in On' \ missed' => D[uid[c]] = Due(uid[c])'
      BY <1>1, <1>4, <1>9, <2>2
    <2> QED
      BY <1>1, <2>1, <2>2, <2>5, <2>6, <2>7 DEF Ledger, UnderWay, Users, B
  <1>19. CASE GiveUp
    <2>1. /\ spc = "wait" /\ missed' = missed \cup {sec} /\ UNCHANGED <<users_count, stc, srv, st, mode>>
          /\ spc' = "write" /\ mode = "user"
      BY <1>2, <1>5, <1>19 DEF GiveUp, Onwards, Phases, Typed
    <2>2. On' = On
      BY <2>1 DEF On, Users
    <2>3. \A u \in On' \ missed' : D[u] = Due(u)
      BY <1>4, <1>10, <1>11, <2>1, <2>2
    <2> QED
      BY <1>8, <1>9, <2>1, <2>2, <2>3
  <1>20. CASE SentToAll
    <2>1. /\ spc = "write" /\ sec = 0 /\ spc' = "scan" /\ mode' = "user" /\ mode \in {"login", "user"}
          /\ UNCHANGED <<users_count, stc, srv, st, missed>>
      BY <1>2, <1>5, <1>20 DEF SentToAll, Typed
    <2>2. On' = On
      BY <2>1 DEF On, Users
    <2>3. \A u \in On : D[u] = Due(u)
      BY <1>4, <1>10, <1>11, <2>1
    <2> QED
      BY <1>8, <1>9, <2>1, <2>2, <2>3
  <1>21. ~ Shutdown
    BY DEF Shutdown
  <1> QED
    BY <1>12, <1>13, <1>14, <1>15, <1>16, <1>17, <1>18, <1>19, <1>20, <1>21 DEF Server

LEMMA ClientLedger ==
  ASSUME Base, Logins, Handlers, Ledger, NoneExpired, mode # "bye", spc # "down",
         NEW c \in Clients, ClientStep(c)
  PROVE  Ledger'
  <1> USE DEF serverVars, loginVars, userVars
  <1>1. UNCHANGED serverVars
    BY DEF ClientStep, Client, Handler, Login, Kill, Enter, Ask, Await, Open, Ack, Send, Released,
       Leave, End, Notice, Show, Dismissed
  <1>2. Typed /\ Numbered /\ Phases
    BY DEF Base
  <1>3. PICK n \in Nat : n = Cardinality(Clients) /\ Users = 1 .. n
    BY Sizes
  <1>4. /\ users_count \in 0 .. n /\ Users \subseteq Nat /\ 0 \notin Users /\ On \subseteq Users
        /\ On' = On /\ Users' = Users
    <2>1. On' = On /\ Users' = Users
      BY <1>1 DEF On, Users
    <2>2. On \subseteq Users /\ Users \subseteq Nat /\ 0 \notin Users
      BY <1>3 DEF On
    <2> QED
      BY <1>2, <1>3, <2>1, <2>2 DEF Typed
  <1>5. /\ \A d \in Clients : uid[d] \in On \ missed /\ pc[d] \in {"chat", "sent"} =>
             UnderWay(d) = Due(uid[d])
        /\ \A u \in Users : u > users_count => stc[u] = 0 /\ srv[u] = 0
        /\ spc = "logwait" =>
             /\ stc[users_count] = 0 /\ srv[users_count] = 0
             /\ \A d \in Clients : uid[d] = users_count => hand[d] # "got"
    BY DEF Ledger
  <1>6. PICK D : D = [u \in Users |-> Due(u)]
    OBVIOUS
  <1>7. /\ \A d \in Clients : uid[d] \in On => Due(uid[d]) = D[uid[d]]
        /\ \A d \in Clients : uid'[d] \in On => Due(uid[d])' = D[uid'[d]]
    BY <1>1, <1>4, <1>6 DEF Due
  <1>8. ASSUME \A d \in Clients : uid'[d] \in On \ missed /\ pc'[d] \in {"chat", "sent"} =>
                 stc'[uid'[d]] + srv'[uid'[d]] + B(hand'[d] = "got") = D[uid'[d]],
               \A u \in Users : u > users_count => stc'[u] = 0 /\ srv'[u] = 0,
               spc = "logwait" =>
                 /\ stc'[users_count] = 0 /\ srv'[users_count] = 0
                 /\ \A d \in Clients : uid'[d] = users_count => hand'[d] # "got"
        PROVE  Ledger'
    <2>1. \A d \in Clients : uid'[d] \in On' \ missed' /\ pc'[d] \in {"chat", "sent"} =>
            stc'[uid'[d]] + srv'[uid'[d]] + B(hand'[d] = "got") = Due(uid[d])'
      BY <1>1, <1>4, <1>7, <1>8
    <2>2. \A d \in Clients : uid'[d] \in On' \ missed' /\ pc'[d] \in {"chat", "sent"} =>
            UnderWay(d)' = Due(uid[d])'
      BY <2>1 DEF UnderWay, B
    <2> QED
      BY <1>1, <1>4, <1>8, <2>2 DEF Ledger
  \* A step that neither posts nor takes, and begins no chat.
  <1>9. ASSUME UNCHANGED <<stc, srv>>,
               \A d \in Clients : uid'[d] \in On /\ pc'[d] \in {"chat", "sent"} =>
                 uid'[d] = uid[d] /\ pc[d] \in {"chat", "sent"},
               \A d \in Clients : hand'[d] = "got" => hand[d] = "got" /\ uid'[d] = uid[d],
               \A d \in Clients : uid'[d] \in On /\ pc'[d] \in {"chat", "sent"} => hand'[d] = hand[d]
        PROVE  Ledger'
    <2>1. \A d \in Clients : uid'[d] \in On \ missed /\ pc'[d] \in {"chat", "sent"} =>
            stc'[uid'[d]] + srv'[uid'[d]] + B(hand'[d] = "got") = D[uid'[d]]
      BY <1>5, <1>7, <1>9 DEF UnderWay
    <2>2. spc = "logwait" => \A d \in Clients : uid'[d] = users_count => hand'[d] # "got"
      BY <1>5, <1>9
    <2> QED
      BY <1>5, <1>8, <1>9, <2>1, <2>2
  <1>10. CASE Enter(c) \/ Ask(c) \/ Open(c)
    <2>1. UNCHANGED <<stc, srv, hand, uid>>
      BY <1>10 DEF Enter, Ask, Open
    <2>2. \A d \in Clients : pc'[d] \in {"chat", "sent"} => pc[d] \in {"chat", "sent"}
      BY <1>2, <1>10 DEF Enter, Ask, Open, Goto, Typed
    <2> QED
      BY <1>9, <2>1, <2>2
  <1>11. CASE Await(c)
    <2>1. /\ UNCHANGED <<stc, srv, hand>> /\ pc[c] = "await" /\ pc' = [pc EXCEPT ![c] = "id"]
          /\ uid' = [uid EXCEPT ![c] = lstoc]
      BY <1>11 DEF Await, Goto
    <2>2. hand[c] # "got" /\ pc'[c] = "id"
      BY <1>2, <2>1 DEF Handlers, Typed
    <2>3. \A d \in Clients : d # c => pc'[d] = pc[d] /\ uid'[d] = uid[d]
      BY <1>2, <2>1 DEF Typed
    <2> QED
      BY <1>9, <2>1, <2>2, <2>3
  <1>12. CASE Ack(c)
    <2>1. /\ UNCHANGED <<stc, srv, uid>> /\ pc[c] = "ack" /\ pc' = [pc EXCEPT ![c] = "chat"]
          /\ hand' = [hand EXCEPT ![c] = "idle"]
      BY <1>12 DEF Ack, Goto
    <2>2. spc = "logwait" /\ uid[c] = users_count
      BY <2>1 DEF Logins, Logged, At
    <2>3. stc[users_count] = 0 /\ srv[users_count] = 0
      BY <1>5, <2>2
    <2>4. hand'[c] = "idle" /\ \A d \in Clients : d # c => pc'[d] = pc[d] /\ hand'[d] = hand[d]
      BY <1>2, <2>1 DEF Typed
    <2>5. users_count \in Users => D[users_count] = 0
      BY <1>4, <1>6, <2>2 DEF Due
    <2>6. \A d \in Clients : uid'[d] \in On \ missed /\ pc'[d] \in {"chat", "sent"} =>
            stc'[uid'[d]] + srv'[uid'[d]] + B(hand'[d] = "got") = D[uid'[d]]
      <3> SUFFICES ASSUME NEW d \in Clients, uid'[d] \in On \ missed, pc'[d] \in {"chat", "sent"}
                   PROVE  stc'[uid'[d]] + srv'[uid'[d]] + B(hand'[d] = "got") = D[uid'[d]]
        OBVIOUS
      <3>1. CASE d = c
        <4>1. uid'[d] = users_count /\ users_count \in Users /\ B(hand'[d] = "got") = 0
          BY <1>4, <2>1, <2>2, <2>4, <3>1 DEF B
        <4>2. stc'[uid'[d]] = 0 /\ srv'[uid'[d]] = 0 /\ D[uid'[d]] = 0
          BY <2>1, <2>3, <2>5, <4>1
        <4> QED
          BY <4>1, <4>2
      <3>2. CASE d # c
        BY <1>5, <1>7, <2>1, <2>4, <3>2 DEF UnderWay
      <3> QED
        BY <3>1, <3>2
    <2>7. \A d \in Clients : uid'[d] = users_count => hand'[d] # "got"
      BY <1>5, <2>1, <2>2, <2>4
    <2> QED
      BY <1>5, <1>8, <2>1, <2>3, <2>6, <2>7
  <1>13. CASE Send(c) \/ Released(c) \/ Leave(c)
    <2>1. UNCHANGED <<stc, srv, hand, uid>>
      BY <1>13 DEF Send, Released, Leave
    <2>2. \A d \in Clients : pc'[d] \in {"chat", "sent"} => pc[d] \in {"chat", "sent"}
      BY <1>2, <1>13 DEF Send, Released, Leave, Say, Goto, Typed
    <2> QED
      BY <1>9, <2>1, <2>2
  <1>14. CASE End(c)
    <2>1. /\ UNCHANGED <<stc, srv>> /\ pc' = [pc EXCEPT ![c] = "dead"]
          /\ uid' = [uid EXCEPT ![c] = 0] /\ hand' = [hand EXCEPT ![c] = "off"]
      BY <1>14 DEF End
    <2>2. pc'[c] = "dead" /\ hand'[c] = "off"
      BY <1>2, <2>1 DEF Typed
    <2>3. \A d \in Clients : d # c => pc'[d] = pc[d] /\ uid'[d] = uid[d] /\ hand'[d] = hand[d]
      BY <1>2, <2>1 DEF Typed
    <2> QED
      BY <1>9, <2>1, <2>2, <2>3
  \* The handler takes a post, or acknowledges it: it does not do so in a
  \* login, and what is under way stays as it is.
  <1>15. ASSUME UNCHANGED <<uid, pc>>, \A d \in Clients : d # c => hand'[d] = hand[d],
                spc = "logwait" => uid[c] # users_count,
                \A u \in Users : u # uid[c] => stc'[u] = stc[u] /\ srv'[u] = srv[u],
                uid[c] \in Users => stc'[uid[c]] + srv'[uid[c]] + B(hand'[c] = "got") = UnderWay(c)
         PROVE  Ledger'
    <2>1. \A d \in Clients : d # c /\ uid[d] \in On => uid[d] # uid[c]
      BY <1>4 DEF Logins
    <2>2. \A d \in Clients : uid'[d] \in On \ missed /\ pc'[d] \in {"chat", "sent"} =>
            stc'[uid'[d]] + srv'[uid'[d]] + B(hand'[d] = "got") = D[uid'[d]]
      <3> SUFFICES ASSUME NEW d \in Clients, uid[d] \in On \ missed, pc[d] \in {"chat", "sent"}
                   PROVE  stc'[uid[d]] + srv'[uid[d]] + B(hand'[d] = "got") = D[uid[d]]
        BY <1>15
      <3>1. UnderWay(d) = D[uid[d]] /\ uid[d] \in Users
        BY <1>4, <1>5, <1>7
      <3>2. CASE d = c
        BY <1>15, <3>1, <3>2
      <3>3. CASE d # c
        BY <1>15, <2>1, <3>1, <3>3 DEF UnderWay
      <3> QED
        BY <3>2, <3>3
    <2>3. \A u \in Users : u > users_count => u # uid[c]
      <3>1. uid[c] <= users_count /\ uid[c] \in 0 .. n
        BY <1>2, <1>3 DEF Numbered, Typed
      <3> QED
        BY <1>4, <3>1
    <2>4. \A u \in Users : u > users_count => stc'[u] = 0 /\ srv'[u] = 0
      BY <1>5, <1>15, <2>3
    <2>5. spc = "logwait" =>
            /\ stc'[users_count] = 0 /\ srv'[users_count] = 0
            /\ \A d \in Clients : uid'[d] = users_count => hand'[d] # "got"
      <3>1. spc = "logwait" => users_count \in Users
        BY <1>3, <1>4, <1>2 DEF Phases
      <3> QED
        BY <1>5, <1>15, <3>1
    <2> QED
      BY <1>8, <2>2, <2>4, <2>5
  <1>16. CASE Notice(c)
    <2>1. /\ hand[c] = "idle" /\ hand' = [hand EXCEPT ![c] = "got"] /\ stc[uid[c]] > 0
          /\ stc' = [stc EXCEPT ![uid[c]] = @ - 1] /\ UNCHANGED <<srv, uid, pc>>
      BY <1>16 DEF Notice
    <2>2. hand'[c] = "got" /\ \A d \in Clients : d # c => hand'[d] = hand[d]
      BY <1>2, <2>1 DEF Typed
    <2>3. spc = "logwait" => uid[c] # users_count
      BY <1>5, <2>1
    <2>4. \A u \in Users : u # uid[c] => stc'[u] = stc[u] /\ srv'[u] = srv[u]
      BY <1>2, <2>1 DEF Typed
    <2>5. uid[c] \in Users => stc'[uid[c]] + srv'[uid[c]] + B(hand'[c] = "got") = UnderWay(c)
      <3> SUFFICES ASSUME uid[c] \in Users
                   PROVE  stc'[uid[c]] + srv'[uid[c]] + B(hand'[c] = "got") = UnderWay(c)
        OBVIOUS
      <3>1. PICK x \in Nat, y \in Nat : x = stc[uid[c]] /\ y = srv[uid[c]]
        BY <1>2 DEF Typed
      <3>2. stc'[uid[c]] = x - 1 /\ srv'[uid[c]] = y
        BY <1>2, <2>1, <3>1 DEF Typed
      <3>3. B(hand'[c] = "got") = 1 /\ B(hand[c] = "got") = 0
        BY <2>1, <2>2 DEF B
      <3> QED
        BY <3>1, <3>2, <3>3 DEF UnderWay
    <2> QED
      BY <1>15, <2>1, <2>2, <2>3, <2>4, <2>5
  <1>17. CASE Show(c)
    <2>1. /\ hand[c] = "got" /\ hand' = [hand EXCEPT ![c] = "idle"]
          /\ srv' = [srv EXCEPT ![uid[c]] = @ + 1] /\ UNCHANGED <<stc, uid, pc>>
      BY <1>17 DEF Show
    <2>2. hand'[c] = "idle" /\ \A d \in Clients : d # c => hand'[d] = hand[d]
      BY <1>2, <2>1 DEF Typed
    <2>3. spc = "logwait" => uid[c] # users_count
      BY <1>5, <2>1
    <2>4. \A u \in Users : u # uid[c] => stc'[u] = stc[u] /\ srv'[u] = srv[u]
      BY <1>2, <2>1 DEF Typed
    <2>5. uid[c] \in Users => stc'[uid[c]] + srv'[uid[c]] + B(hand'[c] = "got") = UnderWay(c)
      <3> SUFFICES ASSUME uid[c] \in Users
                   PROVE  stc'[uid[c]] + srv'[uid[c]] + B(hand'[c] = "got") = UnderWay(c)
        OBVIOUS
      <3>1. PICK x \in Nat, y \in Nat : x = stc[uid[c]] /\ y = srv[uid[c]]
        BY <1>2 DEF Typed
      <3>2. stc'[uid[c]] = x /\ srv'[uid[c]] = y + 1
        BY <1>2, <2>1, <3>1 DEF Typed
      <3>3. B(hand'[c] = "got") = 0 /\ B(hand[c] = "got") = 1
        BY <2>1, <2>2 DEF B
      <3> QED
        BY <3>1, <3>2, <3>3 DEF UnderWay
    <2> QED
      BY <1>15, <2>1, <2>2, <2>3, <2>4, <2>5
  <1> QED
    BY <1>10, <1>11, <1>12, <1>13, <1>14, <1>16, <1>17
       DEF ClientStep, Client, Handler, Login, Dismissed, Kill

LEMMA NextLedger ==
  ASSUME Base, Logins, Handlers, Ledger, [Next]_vars
  PROVE  Ledger'
  <1>1. CASE ~ (NoneExpired' /\ mode' # "bye" /\ spc' # "down")
    BY <1>1 DEF Ledger
  <1>2. CASE NoneExpired' /\ mode' # "bye" /\ spc' # "down"
    <2>1. NoneExpired
      BY <1>2, ExpiredStays
    <2>2. CASE UNCHANGED vars
      BY <1>2, <2>1, <2>2 DEF Ledger, UnderWay, Due, On, Users, vars, serverVars, loginVars,
         userVars, clientVars
    <2>3. ASSUME NEW c \in Clients, ClientStep(c)
          PROVE  Ledger'
      <3>1. mode # "bye" /\ spc # "down"
        BY <1>2, <2>3 DEF ClientStep, Client, Handler, Login, Kill, Enter, Ask, Await, Open, Ack,
           Send, Released, Leave, End, Notice, Show, Dismissed, serverVars
      <3> QED
        BY <2>1, <2>3, <3>1, ClientLedger
    <2> QED
      BY <1>2, <2>1, <2>2, <2>3, ServerLedger DEF Next, ClientStep
  <1> QED
    BY <1>1, <1>2

(* Between two commands, what is under way from a user the server never    *)
(* gave up on is one for each login since the user's own, its own          *)
(* included: the lists posted at a login are never waited for, so a wait   *)
(* can end with the acknowledgement of an earlier command.                 *)
THEOREM LedgerHolds == Spec => []AckLedger
  <1>1. Base /\ Ledger => AckLedger
    <2> SUFFICES ASSUME Base, Ledger, spc = "scan", NoneExpired, mode # "bye",
                        NEW c \in Clients, uid[c] \in On \ missed, pc[c] \in {"chat", "sent"}
                 PROVE  stc[uid[c]] + srv[uid[c]] + (IF hand[c] = "got" THEN 1 ELSE 0)
                          = users_count - uid[c] + 1
      BY DEF AckLedger
    <2>1. mode = "user" /\ UnderWay(c) = Due(uid[c])
      BY DEF Ledger, Base, Phases
    <2> QED
      BY <2>1 DEF UnderWay, Due, B
  <1>2. Init => Base /\ Logins /\ Handlers /\ Ledger
    BY InitBase, InitLogins, InitLedger
  <1>3. Base /\ Logins /\ Handlers /\ Ledger /\ [Next]_vars => (Base /\ Logins /\ Handlers /\ Ledger)'
    BY NextBase, NextLogins, NextHandlers, NextLedger
  <1> QED
    BY <1>1, <1>2, <1>3, PTL DEF Spec

=============================================================================
