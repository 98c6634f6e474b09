------------------------ MODULE ProducerServer_proofs -----------------------
(***************************************************************************)
(* Proofs about ProducerServer, for both copies, every number of clients   *)
(* and threads, any growth, any length of the queues, whatever an earlier  *)
(* process left in them, and any number of clients that hang up and of     *)
(* threads that could not be created.                                      *)
(***************************************************************************)
EXTENDS ProducerServer, Counting

(* The types.                                                              *)
Typed ==
  /\ proto \in {"tcp", "udp"} /\ created \in BOOLEAN
  /\ left.fds \in Seq(Numbers) /\ failed \in Nat /\ cancelled \subseteq Threads
  /\ main \in {"poll", "take", "free", "busy", "grow", "send", "down"}
  /\ hand \in Clients \cup {None}
  /\ threads_count \in Nat /\ free \in Nat /\ busy \in Nat /\ served \in Nat
  /\ listener \in {"start", "poll", "round", "gone"}
  /\ pfds \in Seq(Numbers) /\ reported \subseteq Nat
  /\ pc \in [Threads -> PCs] /\ wfd \in [Threads -> Numbers \cup {None}]
  /\ fds_q \in Seq(Numbers) /\ clients_q \in Seq(Numbers) /\ ack_q \in Seq(Numbers)
  /\ pending \subseteq Clients /\ unread \subseteq Clients
  /\ conn \in [Clients -> {"away", "open", "ended", "aborted", "reset", "refused"}]
  /\ phase \in [Clients -> {"away", "hello", "silent", "early", "waiting", "answered"}]

(* What the types need: main and the threads have a number where they use  *)
(* one, and an event that the listener has still to look at has a message. *)
HoldAt == {"taken", "tobusy", "recv", "send", "ack"}
MainHolds == main \in {"free", "busy", "grow", "send"} <=> hand # None
ThreadsHold == \A w \in Threads : wfd[w] # None <=> pc[w] \in HoldAt
ReportsTrue ==
  /\ InQ \in reported => fds_q # <<>>
  /\ AckQ \in reported => ack_q # <<>>
  /\ reported # {} => listener = "round"

(* Who waits to be accepted has come, and so has a UDP client that the     *)
(* earlier process left.                                                   *)
Came(c) == conn[c] # "away"
AllCame ==
  /\ \A c \in pending : Came(c)
  /\ proto = "udp" => \A c \in Clients : Occurrences(c, left.fds) # 0 => Came(c)

Inv == Typed /\ MainHolds /\ ThreadsHold /\ ReportsTrue /\ AllCame

(* A client that this process accepts has one place, besides those its     *)
(* number was given before.                                                *)
Places(c) ==
  Cardinality({c} \cap pending) + Cardinality({c} \cap {hand})
    + Occurrences(c, fds_q) + Occurrences(c, pfds)
Placed ==
  listener # "gone" =>
    /\ \A c \in Clients : Places(c) = Occurrences(c, left.fds) + IF CameHere(c) THEN 1 ELSE 0
    /\ served = Len(pfds)

(* How many numbers are under way between the listener's array and its     *)
(* acknowledgements, with those that were in the queues before.  While the *)
(* array has one entry, a round takes one acknowledgement, if there is one,*)
(* before it queues the entry.                                             *)
InFlight == Len(clients_q) + Cardinality(At(HoldAt)) + Len(ack_q)
QueuesFit == Len(clients_q) <= QMax /\ Len(ack_q) <= QMax
ReportsWatched == reported \subseteq {InQ, AckQ} \cup {Entry(i) : i \in DOMAIN pfds}
OneInFlight ==
  Len(pfds) <= 1 /\ listener # "gone" =>
    /\ InFlight <= QMax + QMax \/ InFlight <= QMax + Cardinality(Created) + 1
    /\ reported # {} /\ AckQ \notin reported =>
         InFlight <= QMax + QMax - 1 \/ InFlight <= QMax + Cardinality(Created)

CycleBounded == QueuesFit /\ ReportsWatched /\ (Up => OneInFlight)

-----------------------------------------------------------------------------
(* Typing.                                                                 *)

LEMMA LeftIsNat ==
  ASSUME NEW s \in Seq(Numbers)
  PROVE  \A c : Occurrences(c, s) \in Nat
  <1>1. \A c : Times(c, s) \in Nat
    BY TimesFinite
  <1>2. \A c : Occurrences(c, s) = Times(c, s)
    BY DEF Occurrences, Times
  <1> QED
    BY <1>1, <1>2

LEMMA InitInv == Init => Inv
  <1> SUFFICES ASSUME Init PROVE Inv
    OBVIOUS
  <1>1. fds_q \in Seq(Numbers) /\ clients_q \in Seq(Numbers) /\ ack_q \in Seq(Numbers)
    <2>1. \A X \in SUBSET Numbers : \A s \in Leftovers(X) : s \in Seq(Numbers)
      BY ConstantsAssumption DEF Leftovers
    <2> QED
      BY <2>1 DEF Init, Numbers
  <1>2. failed \in Nat
    <2>1. PICK S \in SUBSET Threads : Cardinality(S) <= DefAlloc /\ failed = DefAlloc - Cardinality(S)
      BY DEF Init
    <2>2. Cardinality(S) \in Nat
      BY ConstantsAssumption, FS_Subset, FS_CardinalityType
    <2> QED
      BY <2>1, <2>2, ConstantsAssumption
  <1>3. /\ pc \in [Threads -> PCs] /\ \A w \in Threads : pc[w] \in {"none", "start"}
        /\ wfd = [w \in Threads |-> None]
    BY DEF Init, PCs
  <1>4. /\ conn \in [Clients -> {"away", "open"}] /\ phase \in [Clients -> {"away", "hello"}]
        /\ proto = "udp" => \A c \in Clients : Occurrences(c, left.fds) > 0 => conn[c] = "open"
    BY DEF Init
  <1>6. left.fds = fds_q
    BY DEF Init
  <1>5. \A c \in Clients : Occurrences(c, left.fds) \in Nat
    BY <1>1, <1>6, LeftIsNat
  <1>7. Typed
    BY <1>1, <1>2, <1>3, <1>4, <1>6, ConstantsAssumption DEF Init, Typed
  <1>8. ThreadsHold
    BY <1>3 DEF ThreadsHold, HoldAt
  <1>9. AllCame
    BY <1>4, <1>5 DEF Init, AllCame, Came
  <1> QED
    BY <1>7, <1>8, <1>9 DEF Init, Inv, MainHolds, ReportsTrue

(* The process ends: nothing in it holds a client.                         *)
LEMMA EndInv ==
  ASSUME Inv, End
  PROVE  Inv'
  <1>1. Typed'
    BY ConstantsAssumption DEF End, Inv, Typed, PCs, sems, queues, peers
  <1>2. ThreadsHold'
    BY DEF End, ThreadsHold, HoldAt
  <1> QED
    BY <1>1, <1>2 DEF End, Inv, MainHolds, ReportsTrue, AllCame, Came, sems, queues, peers

(* Steps of main and of clients.                                           *)
LEMMA MainInv ==
  ASSUME Inv, Main
  PROVE  Inv'
  <1> USE ConstantsAssumption DEF Inv, Typed, MainHolds, ThreadsHold, ReportsTrue, AllCame, Came,
          setup, sems, listening, working, queues, peers
  <1>1. CASE Poll
    BY <1>1 DEF Poll
  <1>2. CASE CheckFree
    BY <1>2 DEF CheckFree
  <1>3. CASE CheckBusy
    BY <1>3 DEF CheckBusy
  <1>4. CASE GiveToListener
    <2>1. hand \in Numbers /\ fds_q' = Append(fds_q, hand)
      BY <1>4 DEF GiveToListener, Numbers
    <2>2. fds_q' \in Seq(Numbers) /\ fds_q' # <<>>
      BY <2>1, AppendStays
    <2> QED
      BY <1>4, <2>2 DEF GiveToListener
  <1>5. ASSUME NEW c \in Clients, Accept(c)
        PROVE  Inv'
    BY <1>5 DEF Accept
  <1>6. ASSUME NEW S \in SUBSET Threads, Grow(S)
        PROVE  Inv'
    <2>1. pc' \in [Threads -> PCs] /\ \A w \in Threads : pc'[w] \in HoldAt <=> pc[w] \in HoldAt
      BY <1>6 DEF Grow, At, PCs, HoldAt
    <2>2. failed' \in Nat
      <3>1. /\ Cardinality(S) <= DefAlloc /\ failed' = failed + (DefAlloc - Cardinality(S))
            /\ failed \in Nat
        BY <1>6 DEF Grow
      <3>2. Cardinality(S) \in Nat
        BY ConstantsAssumption, FS_Subset, FS_CardinalityType
      <3> QED
        BY <3>1, <3>2
    <2> QED
      BY <1>6, <2>1, <2>2 DEF Grow
  <1> QED
    BY <1>1, <1>2, <1>3, <1>4, <1>5, <1>6 DEF Main

LEMMA ClientInv ==
  ASSUME Inv, NEW c \in Clients, Client(c)
  PROVE  Inv'
  <1> USE DEF Inv, Typed, MainHolds, ThreadsHold, ReportsTrue, AllCame, Came,
          setup, sems, listening, working, queues, peers
  <1>1. CASE Connect(c)
    BY <1>1 DEF Connect
  <1>2. CASE Speak(c)
    BY <1>2 DEF Speak
  <1>3. CASE HangUp(c)
    <2>1. PICK how \in {"ended", "aborted"} : conn' = [conn EXCEPT ![c] = how]
      BY <1>3 DEF HangUp, When
    <2> QED
      BY <1>3, <2>1 DEF HangUp
  <1> QED
    BY <1>1, <1>2, <1>3 DEF Client

(* Steps of the listener.                                                  *)
LEMMA ListenerInv ==
  ASSUME Inv, Listener
  PROVE  Inv'
  <1> USE DEF Inv, Typed, MainHolds, ThreadsHold, ReportsTrue, AllCame, Came,
          setup, sems, listening, working, queues, peers
  <1>1. CASE Listen
    BY <1>1 DEF Listen
  <1>2. CASE ListenerPoll
    <2>1. reported' \subseteq Nat
      BY <1>2 DEF ListenerPoll, When, Ready, InQ, AckQ, Entry
    <2>2. (InQ \in reported' => fds_q # <<>>) /\ (AckQ \in reported' => ack_q # <<>>)
      BY <1>2 DEF ListenerPoll, When, Ready, InQ, AckQ, Entry
    <2> QED
      BY <1>2, <2>1, <2>2 DEF ListenerPoll
  <1>3. CASE Acknowledge
    <2>1. ack_q' \in Seq(Numbers)
      BY <1>3 DEF Acknowledge
    <2> QED
      BY <1>3, <2>1 DEF Acknowledge, Stay
  <1>4. CASE GreetingFails
    <2>1. fds_q' \in Seq(Numbers)
      BY <1>4 DEF GreetingFails
    <2> QED
      BY <1>4, <2>1 DEF GreetingFails
  <1>5. ASSUME NEW g \in BOOLEAN, AdoptFd(g) \/ AdoptEndpoint(g)
        PROVE  Inv'
    <2> DEFINE c == Head(fds_q)
    <2>1. /\ InQ \in reported /\ fds_q # <<>> /\ listener = "round"
          /\ pfds' = Append(pfds, c) /\ fds_q' = Tail(fds_q) /\ served' = served + 1
          /\ reported' = (reported \ {InQ}) \cup When(Entry(Len(pfds) + 1), g)
          /\ listener' = IF reported' = {} THEN "poll" ELSE "round"
          /\ UNCHANGED <<setup, main, hand, threads_count, free, busy, working, clients_q, ack_q,
                         pending, unread>>
      BY <1>5 DEF AdoptFd, AdoptEndpoint, Adopt, Stay
    <2>2. c \in Numbers
      BY <2>1
    <2> HIDE DEF c
    <2>3. pfds' \in Seq(Numbers) /\ fds_q' \in Seq(Numbers)
      BY <2>1, <2>2
    <2>4. Len(pfds) \in Nat
      OBVIOUS
    <2>6. /\ reported' \subseteq Nat /\ InQ \notin reported'
          /\ AckQ \in reported' => AckQ \in reported
      <3>1. Entry(Len(pfds) + 1) \in Nat \ {InQ, AckQ} /\ InQ # AckQ
        BY <2>4 DEF InQ, AckQ, Entry
      <3>2. reported' \subseteq (reported \ {InQ}) \cup {Entry(Len(pfds) + 1)}
        BY <2>1 DEF When
      <3> QED
        BY <3>1, <3>2
    <2>7. /\ conn' \in [Clients -> {"away", "open", "ended", "aborted", "reset", "refused"}]
          /\ phase' \in [Clients -> {"away", "hello", "silent", "early", "waiting", "answered"}]
          /\ \A d \in Clients : conn'[d] = "away" => conn[d] = "away"
      <3>1. CASE AdoptFd(g)
        BY <3>1 DEF AdoptFd
      <3>2. CASE AdoptEndpoint(g)
        BY <3>2 DEF AdoptEndpoint
      <3> QED
        BY <1>5, <3>1, <3>2
    <2>8. Typed'
      BY <2>1, <2>3, <2>6, <2>7
    <2>9. AllCame'
      BY <2>1, <2>7
    <2> QED
      BY <2>1, <2>6, <2>8, <2>9
  <1>6. ASSUME NEW i \in DOMAIN pfds, Pass(i)
        PROVE  Inv'
    <2>1. pfds[i] \in Numbers /\ clients_q' = Append(clients_q, pfds[i]) /\ clients_q' \in Seq(Numbers)
      BY <1>6 DEF Pass
    <2> QED
      BY <1>6, <2>1 DEF Pass, Stay
  <1> QED
    BY <1>1, <1>2, <1>3, <1>4, <1>5, <1>6 DEF Listener

(* A thread's step.                                                        *)
LEMMA ThreadInv ==
  ASSUME Inv, NEW w \in Threads, Thread(w)
  PROVE  Inv'
  <1> USE DEF Inv, Typed, MainHolds, ThreadsHold, ReportsTrue, AllCame, Came, PCs, FreeAt, BusyAt,
          HoldAt, Goto, setup, sems, listening, working, queues, peers
  <1>1. CASE Start(w)
    BY <1>1 DEF Start
  <1>2. CASE Killed(w)
    BY <1>2, EndInv DEF Killed
  <1>11. CASE StartFails(w)
    BY <1>11 DEF StartFails, Created, At
  <1>12. ASSUME NEW S \in SUBSET Threads, ThreadExit(w, S)
         PROVE  Inv'
    BY <1>12 DEF ThreadExit
  <1>13. CASE BadNumber(w)
    <2>1. CASE Goto(w, "recv", "send")
      BY <1>13, <2>1 DEF BadNumber
    <2>2. CASE Goto(w, "send", "ack")
      BY <1>13, <2>2 DEF BadNumber
    <2> QED
      BY <1>13, <2>1, <2>2 DEF BadNumber
  <1>3. CASE Take(w)
    <2>1. /\ Head(clients_q) \in Numbers
          /\ clients_q' = Tail(clients_q) /\ clients_q' \in Seq(Numbers)
      BY <1>3 DEF Take
    <2>2. None \notin Numbers
      BY ConstantsAssumption DEF Numbers
    <2> QED
      BY <1>3, <2>1, <2>2 DEF Take
  <1>4. CASE LeaveFree(w)
    BY <1>4 DEF LeaveFree
  <1>5. CASE JoinBusy(w)
    BY <1>5 DEF JoinBusy
  <1>6. CASE Recv(w)
    <2>1. wfd[w] \in Clients /\ conn[wfd[w]] # "away"
      BY <1>6 DEF Recv, Open
    <2>2. /\ conn' \in [Clients -> {"away", "open", "ended", "aborted", "reset", "refused"}]
          /\ \A d \in Clients : conn'[d] = "away" => conn[d] = "away"
      BY <1>6, <2>1 DEF Recv
    <2> QED
      BY <1>6, <2>2 DEF Recv
  <1>7. CASE Send(w)
    <2>1. wfd[w] \in Clients /\ conn[wfd[w]] \in {"open", "ended", "refused"}
      BY <1>7 DEF Send, Open
    <2>2. /\ conn' \in [Clients -> {"away", "open", "ended", "aborted", "reset", "refused"}]
          /\ \A d \in Clients : conn'[d] = "away" => conn[d] = "away"
      BY <1>7, <2>1 DEF Send
    <2>3. phase' \in [Clients -> {"away", "hello", "silent", "early", "waiting", "answered"}]
      BY <1>7, <2>1 DEF Send
    <2>4. Typed'
      BY <1>7, <2>2, <2>3 DEF Send
    <2>5. ThreadsHold' /\ MainHolds' /\ ReportsTrue'
      BY <1>7 DEF Send
    <2>6. AllCame'
      BY <1>7, <2>2 DEF Send
    <2> QED
      BY <2>4, <2>5, <2>6
  <1>8. CASE SendAck(w)
    <2>1. wfd[w] \in Numbers /\ ack_q' = Append(ack_q, wfd[w])
      BY <1>8 DEF SendAck
    <2>3. ack_q \in Seq(Numbers)
      OBVIOUS
    <2>2. ack_q' \in Seq(Numbers) /\ ack_q' # <<>>
      <3>1. \A e \in Numbers : Append(ack_q, e) \in Seq(Numbers) /\ Append(ack_q, e) # <<>>
        BY <2>3, AppendStays
      <3> QED
        BY <2>1, <3>1
    <2> QED
      BY <1>8, <2>2 DEF SendAck
  <1>9. CASE LeaveBusy(w)
    BY <1>9 DEF LeaveBusy
  <1>10. CASE JoinFree(w)
    BY <1>10 DEF JoinFree
  <1> QED
    BY <1>1, <1>2, <1>3, <1>4, <1>5, <1>6, <1>7, <1>8, <1>9, <1>10, <1>11, <1>12, <1>13 DEF Thread

LEMMA NextInv == Inv /\ [Next]_vars => Inv'
  <1> SUFFICES ASSUME Inv, [Next]_vars PROVE Inv'
    OBVIOUS
  <1>1. CASE Interrupt
    BY <1>1, EndInv DEF Interrupt
  <1>2. CASE UNCHANGED vars
    BY <1>2 DEF vars, Inv, Typed, MainHolds, ThreadsHold, ReportsTrue, AllCame, Came,
       setup, sems, listening, working, queues, peers
  <1> QED
    BY <1>1, <1>2, MainInv, ListenerInv, ThreadInv, ClientInv DEF Next

LEMMA InvHolds == Spec => []Inv
  BY InitInv, NextInv, PTL DEF Spec

-----------------------------------------------------------------------------
(* How many threads stand where.                                           *)

(* Moving one thread changes the number of threads at P by one at most.    *)
LEMMA MoveCounts ==
  ASSUME Typed, NEW w \in Threads, NEW to, pc' = [pc EXCEPT ![w] = to], NEW P
  PROVE  /\ pc[w] \notin P /\ to \in P => Cardinality(At(P))' = Cardinality(At(P)) + 1
         /\ pc[w] \in P /\ to \notin P => Cardinality(At(P))' = Cardinality(At(P)) - 1
         /\ (pc[w] \in P <=> to \in P) => Cardinality(At(P))' = Cardinality(At(P))
  <1>1. IsFiniteSet(Threads)
    BY ConstantsAssumption
  <1>2. PICK g : g = pc'
    OBVIOUS
  <1>3. g[w] = to /\ SameBut(Threads, pc, g, w)
    BY <1>2 DEF Typed, SameBut
  <1>4. At(P) = Where(Threads, pc, P) /\ At(P)' = Where(Threads, g, P)
    BY <1>2 DEF At, Where
  <1>5. /\ pc[w] \notin P /\ g[w] \in P =>
             Cardinality(Where(Threads, g, P)) = Cardinality(Where(Threads, pc, P)) + 1
        /\ pc[w] \in P /\ g[w] \notin P =>
             Cardinality(Where(Threads, g, P)) = Cardinality(Where(Threads, pc, P)) - 1
        /\ (pc[w] \in P <=> g[w] \in P) =>
             Cardinality(Where(Threads, g, P)) = Cardinality(Where(Threads, pc, P))
    BY <1>1, <1>3, MoveOne
  <1> QED
    BY <1>3, <1>4, <1>5

(* The number of threads at P is a number.                                 *)
LEMMA CountIsNat ==
  ASSUME NEW P
  PROVE  IsFiniteSet(At(P)) /\ Cardinality(At(P)) \in Nat
  <1>1. At(P) = Where(Threads, pc, P)
    BY DEF At, Where
  <1> QED
    BY <1>1, WhereFinite, ConstantsAssumption

(* Growth brings no thread to where a client is held or a semaphore was    *)
(* posted.                                                                 *)
LEMMA GrowKeeps ==
  ASSUME NEW S \in SUBSET Threads, Grow(S), NEW P, "start" \notin P, "none" \notin P
  PROVE  At(P)' = At(P)
  BY DEF Grow, At

(* A thread's exit() ends what it comes to before it ends itself, the      *)
(* listener among that or not.                                             *)
Exit ==
  /\ Up /\ UNCHANGED <<proto, left, created, failed, main, hand, sems, working, queues, pending>>
  /\ UNCHANGED listening \/ (listener' = "gone" /\ pfds' = <<>> /\ reported' = {})

(* A thread's step: it ends the process, or begins to, or moves itself.    *)
LEMMA ThreadMoves ==
  ASSUME NEW w \in Threads, Thread(w)
  PROVE  \/ End
         \/ Exit
         \/ /\ UNCHANGED <<setup, main, hand, listening, fds_q, pending, served, threads_count>>
            /\ pc[w] # "none" /\ \E to \in PCs \ {"none"} : Goto(w, pc[w], to)
            /\ Up
  <1>1. CASE Killed(w)
    BY <1>1 DEF Killed
  <1>2. CASE StartFails(w) \/ \E S \in SUBSET Threads : ThreadExit(w, S)
    BY <1>2 DEF StartFails, ThreadExit, Exit, listening
  <1>3. CASE Start(w) \/ Take(w) \/ LeaveFree(w) \/ JoinBusy(w) \/ Recv(w) \/ Send(w) \/ BadNumber(w)
               \/ SendAck(w) \/ LeaveBusy(w) \/ JoinFree(w)
    BY <1>3 DEF Start, Take, LeaveFree, JoinBusy, Recv, Send, BadNumber, SendAck, LeaveBusy,
       JoinFree, Goto, PCs, FreeAt, BusyAt, sems, queues
  <1> QED
    BY <1>1, <1>2, <1>3 DEF Thread

-----------------------------------------------------------------------------
(* The semaphores.                                                         *)

LEMMA ThreadAccounting ==
  ASSUME Inv, SemaphoreAccounting, NEW w \in Threads, Thread(w)
  PROVE  SemaphoreAccounting'
  <1>1. CASE End
    BY <1>1 DEF End, SemaphoreAccounting, Up
  <1>3. CASE Exit
    <2>1. UNCHANGED <<main, free, busy, pc>>
      BY <1>3 DEF Exit, sems, working
    <2> QED
      BY <2>1 DEF SemaphoreAccounting, Up, At
  <1>2. CASE ~End /\ ~Exit
    <2>1. Up /\ free = Cardinality(At(FreeAt)) /\ busy = Cardinality(At(BusyAt))
      BY <1>2, ThreadMoves DEF SemaphoreAccounting
    <2> SUFFICES free' = Cardinality(At(FreeAt))' /\ busy' = Cardinality(At(BusyAt))'
      BY DEF SemaphoreAccounting
    <2>m. \A to : pc' = [pc EXCEPT ![w] = to] =>
            /\ pc[w] \notin FreeAt /\ to \in FreeAt => Cardinality(At(FreeAt))' = free + 1
            /\ pc[w] \in FreeAt /\ to \notin FreeAt => Cardinality(At(FreeAt))' = free - 1
            /\ (pc[w] \in FreeAt <=> to \in FreeAt) => Cardinality(At(FreeAt))' = free
      BY <2>1, MoveCounts DEF Inv
    <2>n. \A to : pc' = [pc EXCEPT ![w] = to] =>
            /\ pc[w] \notin BusyAt /\ to \in BusyAt => Cardinality(At(BusyAt))' = busy + 1
            /\ pc[w] \in BusyAt /\ to \notin BusyAt => Cardinality(At(BusyAt))' = busy - 1
            /\ (pc[w] \in BusyAt <=> to \in BusyAt) => Cardinality(At(BusyAt))' = busy
      BY <2>1, MoveCounts DEF Inv
    <2>p. /\ {"idle", "taken"} \subseteq FreeAt
          /\ {"start", "tobusy", "recv", "send", "ack", "unbusy", "refree"} \cap FreeAt = {}
          /\ {"recv", "send", "ack", "unbusy"} \subseteq BusyAt
          /\ {"start", "idle", "taken", "tobusy", "refree"} \cap BusyAt = {}
      BY DEF FreeAt, BusyAt
    <2> USE <2>m, <2>n, <2>p DEF Goto, sems
    <2>2. CASE Start(w)
      BY <2>2 DEF Start
    <2>3. CASE Take(w)
      BY <2>3 DEF Take
    <2>4. CASE LeaveFree(w)
      BY <2>4 DEF LeaveFree
    <2>5. CASE JoinBusy(w)
      BY <2>5 DEF JoinBusy
    <2>6. CASE Recv(w)
      BY <2>6 DEF Recv
    <2>7. CASE Send(w)
      BY <2>7 DEF Send
    <2>8. CASE SendAck(w)
      BY <2>8 DEF SendAck
    <2>9. CASE LeaveBusy(w)
      BY <2>9 DEF LeaveBusy
    <2>10. CASE JoinFree(w)
      BY <2>10 DEF JoinFree
    <2>11. CASE BadNumber(w)
      BY <2>11 DEF BadNumber
    <2>12. ~Killed(w) /\ ~StartFails(w) /\ \A S \in SUBSET Threads : ~ThreadExit(w, S)
      BY <1>2 DEF Killed, StartFails, ThreadExit, Exit, listening
    <2> QED
      BY <2>2, <2>3, <2>4, <2>5, <2>6, <2>7, <2>8, <2>9, <2>10, <2>11, <2>12 DEF Thread
  <1> QED
    BY <1>1, <1>2, <1>3

LEMMA NextAccounting == Inv /\ SemaphoreAccounting /\ [Next]_vars => SemaphoreAccounting'
  <1> SUFFICES ASSUME Inv, SemaphoreAccounting, [Next]_vars PROVE SemaphoreAccounting'
    OBVIOUS
  <1>1. ASSUME UNCHANGED <<free, busy, pc>>, Up' => Up
        PROVE  SemaphoreAccounting'
    <2>1. At(FreeAt)' = At(FreeAt) /\ At(BusyAt)' = At(BusyAt)
      BY <1>1 DEF At
    <2> QED
      BY <1>1, <2>1 DEF SemaphoreAccounting
  <1>2. CASE Poll \/ CheckFree \/ CheckBusy \/ GiveToListener
    BY <1>1, <1>2 DEF Poll, CheckFree, CheckBusy, GiveToListener, sems, working, Up
  <1>3. ASSUME NEW c \in Clients, Accept(c) \/ Client(c)
        PROVE  SemaphoreAccounting'
    BY <1>1, <1>3 DEF Accept, Client, Connect, Speak, HangUp, sems, working, Up
  <1>4. ASSUME NEW S \in SUBSET Threads, Grow(S)
        PROVE  SemaphoreAccounting'
    <2>1. At(FreeAt)' = At(FreeAt) /\ At(BusyAt)' = At(BusyAt)
      <3>1. {"start", "none"} \cap FreeAt = {} /\ {"start", "none"} \cap BusyAt = {}
        BY DEF FreeAt, BusyAt
      <3> QED
        BY <1>4, <3>1, GrowKeeps
    <2> QED
      BY <1>4, <2>1 DEF Grow, SemaphoreAccounting, Up
  <1>5. CASE Listener
    BY <1>1, <1>5 DEF Listener, Listen, ListenerPoll, Acknowledge, GreetingFails, AdoptFd,
       AdoptEndpoint, Pass, sems, working, Up
  <1>6. CASE Interrupt
    BY <1>6 DEF Interrupt, End, SemaphoreAccounting, Up
  <1>7. CASE UNCHANGED vars
    BY <1>1, <1>7 DEF vars, sems, working, Up
  <1> QED
    BY <1>2, <1>3, <1>4, <1>5, <1>6, <1>7, ThreadAccounting DEF Next, Main

(* While the process runs, the two semaphores main decides from say how    *)
(* many threads stand between a post and the next wait on them.            *)
THEOREM SemaphoresExact == Spec => []SemaphoreAccounting
  <1>1. Init => SemaphoreAccounting
    <2> SUFFICES ASSUME Init PROVE SemaphoreAccounting
      OBVIOUS
    <2>1. At(FreeAt) = {} /\ At(BusyAt) = {}
      BY DEF Init, At, FreeAt, BusyAt
    <2> QED
      BY <2>1, FS_EmptySet DEF Init, SemaphoreAccounting
  <1> QED
    BY <1>1, NextAccounting, InvHolds, PTL DEF Spec

-----------------------------------------------------------------------------
(* What main decides from the semaphores.                                  *)

(* threads_count is the number of threads, and of calls that made none.    *)
CountExact == Up => threads_count = Cardinality(Created) + failed
GrowOnlyWhenAllBusy ==
  [][main = "busy" /\ main' = "grow" => Created \subseteq At(BusyAt)]_vars

LEMMA CountHolds == Spec => []CountExact
  <1>1. Init => CountExact
    <2> SUFFICES ASSUME Init PROVE CountExact
      OBVIOUS
    <2>1. PICK S \in SUBSET Threads :
            /\ Cardinality(S) <= DefAlloc /\ failed = DefAlloc - Cardinality(S)
            /\ pc = [w \in Threads |-> IF w \in S THEN "start" ELSE "none"]
      BY DEF Init
    <2>2. Created = S
      BY <2>1 DEF At, Created, PCs, FreeAt, BusyAt
    <2>3. Cardinality(S) \in Nat
      BY ConstantsAssumption, FS_Subset, FS_CardinalityType
    <2>4. threads_count = Cardinality(S) + failed
      BY <2>1, <2>3, ConstantsAssumption DEF Init
    <2> QED
      BY <2>2, <2>4 DEF CountExact
  <1>2. ASSUME Inv, CountExact, [Next]_vars
        PROVE  CountExact'
    <2> USE <1>2 DEF setup, sems, working, peers
    <2>1. ASSUME Created' = Created, UNCHANGED <<threads_count, failed>>, Up' => Up
          PROVE  CountExact'
      BY <2>1 DEF CountExact
    <2>2. CASE Poll \/ CheckFree \/ CheckBusy \/ GiveToListener \/ UNCHANGED vars
      BY <2>1, <2>2 DEF Poll, CheckFree, CheckBusy, GiveToListener, vars, Created, At, Up
    <2>3. ASSUME NEW c \in Clients, Accept(c) \/ Client(c)
          PROVE  CountExact'
      BY <2>1, <2>3 DEF Accept, Client, Connect, Speak, HangUp, Created, At, Up
    <2>4. CASE Listener
      BY <2>1, <2>4 DEF Listener, Listen, ListenerPoll, Acknowledge, GreetingFails, AdoptFd,
         AdoptEndpoint, Adopt, Pass, Created, At, Up
    <2>5. CASE Interrupt
      BY <2>5 DEF Interrupt, End, CountExact, Up
    <2>6. ASSUME NEW w \in Threads, Thread(w)
          PROVE  CountExact'
      <3>1. CASE End
        BY <3>1 DEF End, CountExact, Up
      <3>2. CASE Exit
        BY <2>1, <3>2 DEF Exit, Created, At, Up
      <3>3. CASE ~End /\ ~Exit
        <4>1. Up /\ UNCHANGED <<main, threads_count, failed>>
          BY <2>6, <3>3, ThreadMoves
        <4>2. PICK to \in PCs \ {"none"} : pc[w] # "none" /\ pc' = [pc EXCEPT ![w] = to]
          BY <2>6, <3>3, ThreadMoves DEF Goto
        <4>3. Created' = Created
          BY <4>2 DEF Created, At, Inv, Typed
        <4> QED
          BY <2>1, <4>1, <4>3 DEF Up
      <3> QED
        BY <3>1, <3>2, <3>3
    <2>7. ASSUME NEW S \in SUBSET Threads, Grow(S)
          PROVE  CountExact'
      <3>1. /\ IsFiniteSet(Threads) /\ \A s \in S : pc[s] = "none"
            /\ pc' = [w \in Threads |-> IF w \in S THEN "start" ELSE pc[w]]
            /\ threads_count' = threads_count + DefAlloc /\ Up
            /\ failed' = failed + (DefAlloc - Cardinality(S))
        BY <2>7, ConstantsAssumption DEF Grow, At, Up
      <3> DEFINE P == PCs \ {"none"}
      <3>2. "start" \in P /\ "none" \notin P
        BY DEF PCs
      <3>3. Created = Where(Threads, pc, P) /\ Created' = Where(Threads, pc', P)
        BY DEF Created, At, Where
      <3> HIDE DEF P
      <3>4. Cardinality(Where(Threads, [t \in Threads |-> IF t \in S THEN "start" ELSE pc[t]], P))
              = Cardinality(Where(Threads, pc, P)) + Cardinality(S)
        BY <3>1, <3>2, MoveMany
      <3>5. Cardinality(Created)' = Cardinality(Created) + Cardinality(S)
        BY <3>1, <3>3, <3>4
      <3>6. Cardinality(Created) \in Nat /\ Cardinality(S) \in Nat /\ threads_count \in Nat
            /\ failed \in Nat /\ DefAlloc \in Nat
        BY <1>2, CountIsNat, ConstantsAssumption, FS_Subset, FS_CardinalityType DEF Created, Inv, Typed
      <3>7. threads_count = Cardinality(Created) + failed
        BY <1>2, <3>1 DEF CountExact
      <3>8. threads_count' = Cardinality(Created)' + failed'
        BY <3>1, <3>5, <3>6, <3>7
      <3> QED
        BY <3>8 DEF CountExact
    <2> QED
      BY <2>2, <2>3, <2>4, <2>5, <2>6, <2>7 DEF Next, Main
  <1> QED
    BY <1>1, <1>2, InvHolds, PTL DEF Spec

(* Main goes round its two reads while no thread is free and not all are   *)
(* busy, and not for nothing: as long as every thread that threads_count   *)
(* counts was created, one of them is between two semaphores or has still  *)
(* to report that it exists.                                               *)
THEOREM WaitsHaveMovers == Spec => []WaitHasMover
  <1>1. ASSUME Inv, SemaphoreAccounting, CountExact
        PROVE  WaitHasMover
    <2> SUFFICES ASSUME main = "busy", free = 0, At(MovingAt) = {}
                 PROVE  ~(busy + failed < threads_count)
      BY DEF WaitHasMover
    <2>1. Cardinality(At(FreeAt)) = 0 /\ busy = Cardinality(At(BusyAt))
          /\ threads_count = Cardinality(Created) + failed
      BY <1>1 DEF SemaphoreAccounting, CountExact, Up
    <2>2. At(FreeAt) = {}
      BY <2>1, CountIsNat, FS_EmptySet
    <2>3. PCs \ {"none"} = (FreeAt \cup BusyAt) \cup MovingAt
      BY DEF PCs, MovingAt, FreeAt, BusyAt
    <2>4. Created = At(BusyAt)
      BY <2>2, <2>3 DEF At, Created
    <2>5. threads_count = busy + failed
      BY <2>1, <2>4
    <2>6. threads_count \in Nat
      BY <1>1 DEF Inv, Typed
    <2> QED
      BY <2>5, <2>6
  <1> QED
    BY <1>1, InvHolds, SemaphoresExact, CountHolds, PTL

(* When main decides to create threads, each thread that exists is busy,   *)
(* whatever calls of pthread_create failed before.                         *)
THEOREM GrowthJustified == Spec => GrowOnlyWhenAllBusy
  <1> DEFINE Step == main = "busy" /\ main' = "grow" => Created \subseteq At(BusyAt)
  <1>1. ASSUME Inv, SemaphoreAccounting, CountExact, [Next]_vars
        PROVE  [Step]_vars
    <2> SUFFICES ASSUME main = "busy", main' = "grow"
                 PROVE  Created \subseteq At(BusyAt)
      OBVIOUS
    <2>1. CheckBusy
      BY <1>1, ThreadMoves DEF Exit, Next, vars, Main, Poll, CheckFree, CheckBusy, GiveToListener,
         Accept, Grow, Listener, Listen, ListenerPoll, Acknowledge, GreetingFails, AdoptFd,
         AdoptEndpoint, Pass, Client, Connect, Speak, HangUp, Interrupt, End
    <2>2. busy = threads_count
      BY <2>1 DEF CheckBusy
    <2>3. Cardinality(At(BusyAt)) = Cardinality(Created) + failed /\ failed \in Nat
      BY <1>1, <2>2 DEF SemaphoreAccounting, CountExact, Up, Inv, Typed
    <2>4. IsFiniteSet(Created) /\ At(BusyAt) \subseteq Created
      BY CountIsNat DEF Created, At, PCs, FreeAt, BusyAt
    <2>5. Cardinality(At(BusyAt)) <= Cardinality(Created) /\ Cardinality(At(BusyAt)) \in Nat
          /\ Cardinality(Created) \in Nat
      BY <2>4, FS_Subset, FS_CardinalityType
    <2>6. Cardinality(At(BusyAt)) = Cardinality(Created)
      BY <2>3, <2>5
    <2> QED
      BY <2>4, <2>6, FS_Subset
  <1> QED
    BY <1>1, InvHolds, SemaphoresExact, CountHolds, PTL DEF Spec, GrowOnlyWhenAllBusy

-----------------------------------------------------------------------------
(* The places of a client.                                                 *)

LEMMA OneOrNone ==
  ASSUME NEW c, NEW S
  PROVE  Cardinality({c} \cap S) = IF c \in S THEN 1 ELSE 0
  <1>1. CASE c \in S
    <2>1. {c} \cap S = {c}
      BY <1>1
    <2> QED
      BY <1>1, <2>1, FS_Singleton
  <1>2. CASE c \notin S
    <2>1. {c} \cap S = {}
      BY <1>2
    <2> QED
      BY <1>2, <2>1, FS_EmptySet
  <1> QED
    BY <1>1, <1>2

(* The number of places, one by one.                                       *)
LEMMA PlacesAre ==
  ASSUME NEW c
  PROVE  /\ Places(c) = (IF c \in pending THEN 1 ELSE 0) + (IF c = hand THEN 1 ELSE 0)
                           + Times(c, fds_q) + Times(c, pfds)
         /\ Places(c)' = (IF c \in pending' THEN 1 ELSE 0) + (IF c = hand' THEN 1 ELSE 0)
                            + Times(c, fds_q') + Times(c, pfds')
  <1>1. \A P, h : /\ Cardinality({c} \cap P) = IF c \in P THEN 1 ELSE 0
                  /\ Cardinality({c} \cap {h}) = IF c = h THEN 1 ELSE 0
    BY OneOrNone
  <1>2. \A q : Occurrences(c, q) = Times(c, q)
    BY DEF Occurrences, Times
  <1> QED
    BY <1>1, <1>2 DEF Places

(* A client's connection changes, but whether it came does not.            *)
LEMMA CameSame ==
  ASSUME Inv, \/ \E c \in Clients : HangUp(c) \/ Speak(c)
              \/ \E g \in BOOLEAN : AdoptEndpoint(g)
              \/ \E w \in Threads : Recv(w) \/ Send(w) \/ \E S \in SUBSET Threads : ThreadExit(w, S)
  PROVE  \A d \in Clients : Came(d)' <=> Came(d)
  <1> USE DEF Came, Inv, Typed
  <1>1. ASSUME NEW c \in Clients, HangUp(c) \/ Speak(c)
        PROVE  \A d \in Clients : Came(d)' <=> Came(d)
    BY <1>1 DEF HangUp, Speak, When
  <1>2. ASSUME NEW g \in BOOLEAN, AdoptEndpoint(g)
        PROVE  \A d \in Clients : Came(d)' <=> Came(d)
    BY <1>2 DEF AdoptEndpoint
  <1>3. ASSUME NEW w \in Threads, Recv(w)
        PROVE  \A d \in Clients : Came(d)' <=> Came(d)
    BY <1>3 DEF Recv
  <1>4. ASSUME NEW w \in Threads, Send(w)
        PROVE  \A d \in Clients : Came(d)' <=> Came(d)
    <2>1. wfd[w] \in Clients /\ conn[wfd[w]] \in {"open", "ended", "refused"}
      BY <1>4 DEF Send, Open
    <2> QED
      BY <1>4, <2>1 DEF Send
  <1>5. ASSUME NEW w \in Threads, NEW S \in SUBSET Threads, ThreadExit(w, S)
        PROVE  \A d \in Clients : Came(d)' <=> Came(d)
    BY <1>5 DEF ThreadExit
  <1> QED
    BY <1>1, <1>2, <1>3, <1>4, <1>5

(* Which of the clients that came are counted besides what was left.       *)
LEMMA HereSame ==
  ASSUME UNCHANGED <<proto, left>>
  PROVE  /\ \A c : Occurrences(c, left.fds)' = Occurrences(c, left.fds)
         /\ \A c : (Came(c)' <=> Came(c)) => (CameHere(c)' <=> CameHere(c))
  BY DEF CameHere, Came, Occurrences

LEMMA NextPlaced == Inv /\ Placed /\ [Next]_vars => Placed'
  <1> SUFFICES ASSUME Inv, Placed, [Next]_vars PROVE Placed'
    OBVIOUS
  <1> USE DEF setup, sems, listening, working, queues, peers
  <1>1. ASSUME UNCHANGED <<proto, left, pending, hand, fds_q, pfds, served>>,
               listener = "gone" => listener' = "gone", \A d \in Clients : Came(d)' <=> Came(d)
        PROVE  Placed'
    BY <1>1, HereSame DEF Placed, Places
  <1>2. ASSUME UNCHANGED conn
        PROVE  \A d \in Clients : Came(d)' <=> Came(d)
    BY <1>2 DEF Came
  <1>3. ASSUME listener' = "gone"
        PROVE  Placed'
    BY <1>3 DEF Placed
  <1>4. CASE Poll \/ CheckFree \/ CheckBusy
    BY <1>1, <1>2, <1>4 DEF Poll, CheckFree, CheckBusy
  <1>5. CASE GiveToListener
    <2>1. /\ hand \in Numbers /\ fds_q \in Seq(Numbers) /\ fds_q' = Append(fds_q, hand)
          /\ hand' = None /\ UNCHANGED <<proto, left, pending, pfds, served, listener, conn>>
      BY <1>5 DEF GiveToListener, Inv, Typed, MainHolds, Numbers
    <2>2. \A d \in Clients : Places(d)' = Places(d)
      <3> SUFFICES ASSUME NEW d \in Clients PROVE Places(d)' = Places(d)
        OBVIOUS
      <3>1. /\ Times(d, Append(fds_q, hand)) = Times(d, fds_q) + IF hand = d THEN 1 ELSE 0
            /\ Times(d, fds_q) \in Nat /\ Times(d, pfds) \in Nat
        BY <2>1, TimesAppend, TimesFinite DEF Inv, Typed
      <3>2. Places(d) = (IF d \in pending THEN 1 ELSE 0) + (IF d = hand THEN 1 ELSE 0)
                          + Times(d, fds_q) + Times(d, pfds)
        BY PlacesAre
      <3>3. Places(d)' = (IF d \in pending' THEN 1 ELSE 0) + (IF d = hand' THEN 1 ELSE 0)
                           + Times(d, fds_q') + Times(d, pfds')
        BY PlacesAre
      <3>4. d # None
        BY ConstantsAssumption
      <3> QED
        BY <2>1, <3>1, <3>2, <3>3, <3>4
    <2> QED
      BY <2>1, <2>2, HereSame DEF Placed, Came
  <1>6. ASSUME NEW c \in Clients, Accept(c)
        PROVE  Placed'
    <2>1. /\ hand = None /\ hand' = c /\ c \in pending /\ pending' = pending \ {c}
          /\ UNCHANGED <<proto, left, fds_q, pfds, served, listener, conn>>
      BY <1>6 DEF Accept, Inv, MainHolds
    <2>2. \A d \in Clients : Places(d)' = Places(d)
      <3> SUFFICES ASSUME NEW d \in Clients PROVE Places(d)' = Places(d)
        OBVIOUS
      <3>2. Places(d) = (IF d \in pending THEN 1 ELSE 0) + (IF d = hand THEN 1 ELSE 0)
                          + Times(d, fds_q) + Times(d, pfds)
        BY PlacesAre
      <3>3. Places(d)' = (IF d \in pending' THEN 1 ELSE 0) + (IF d = hand' THEN 1 ELSE 0)
                           + Times(d, fds_q') + Times(d, pfds')
        BY PlacesAre
      <3>4. d # None
        BY ConstantsAssumption
      <3> QED
        BY <2>1, <3>2, <3>3, <3>4
    <2> QED
      BY <2>1, <2>2, HereSame DEF Placed, Came
  <1>7. ASSUME NEW S \in SUBSET Threads, Grow(S)
        PROVE  Placed'
    BY <1>1, <1>2, <1>7 DEF Grow
  <1>8. CASE Listen \/ ListenerPoll \/ Acknowledge
    <2>1. listener # "gone" /\ UNCHANGED <<proto, left, pending, hand, fds_q, pfds, served, conn>>
      BY <1>8 DEF Listen, ListenerPoll, Acknowledge, Inv, ReportsTrue
    <2> QED
      BY <1>1, <1>2, <2>1
  <1>9. CASE GreetingFails
    BY <1>3, <1>9 DEF GreetingFails
  <1>10. ASSUME NEW g \in BOOLEAN, AdoptFd(g) \/ AdoptEndpoint(g)
         PROVE  Placed'
    <2> DEFINE c == Head(fds_q)
    <2>1. /\ listener # "gone" /\ fds_q # <<>>
          /\ pfds' = Append(pfds, c) /\ fds_q' = Tail(fds_q) /\ served' = served + 1
          /\ UNCHANGED <<proto, left, pending, hand>>
      BY <1>10 DEF AdoptFd, AdoptEndpoint, Adopt, Inv, ReportsTrue
    <2>2. /\ fds_q \in Seq(Numbers) /\ pfds \in Seq(Numbers) /\ c \in Numbers
      BY <2>1 DEF Inv, Typed
    <2>3. \A d \in Clients : Came(d)' <=> Came(d)
      BY <1>2, <1>10, CameSame DEF AdoptFd
    <2> HIDE DEF c
    <2>4. \A d \in Clients : Places(d)' = Places(d)
      <3> SUFFICES ASSUME NEW d \in Clients PROVE Places(d)' = Places(d)
        OBVIOUS
      <3>1. Times(d, Tail(fds_q)) = Times(d, fds_q) - IF c = d THEN 1 ELSE 0
        BY <2>1, <2>2, TimesTail DEF c
      <3>2. Times(d, Append(pfds, c)) = Times(d, pfds) + IF c = d THEN 1 ELSE 0
        BY <2>2, TimesAppend
      <3>3. Times(d, fds_q) \in Nat /\ Times(d, pfds) \in Nat
        BY <2>2, TimesFinite
      <3>4. Places(d) = (IF d \in pending THEN 1 ELSE 0) + (IF d = hand THEN 1 ELSE 0)
                          + Times(d, fds_q) + Times(d, pfds)
        BY PlacesAre
      <3>5. Places(d)' = (IF d \in pending' THEN 1 ELSE 0) + (IF d = hand' THEN 1 ELSE 0)
                           + Times(d, fds_q') + Times(d, pfds')
        BY PlacesAre
      <3> QED
        BY <2>1, <3>1, <3>2, <3>3, <3>4, <3>5
    <2>5. served' = Len(pfds')
      <3>1. served = Len(pfds)
        BY <2>1 DEF Placed
      <3>2. Len(Append(pfds, c)) = Len(pfds) + 1
        BY <2>2
      <3> QED
        BY <2>1, <3>1, <3>2
    <2> QED
      BY <2>1, <2>3, <2>4, <2>5, HereSame DEF Placed
  <1>11. ASSUME NEW i \in DOMAIN pfds, Pass(i)
         PROVE  Placed'
    BY <1>1, <1>2, <1>11 DEF Pass
  <1>12. CASE Interrupt
    BY <1>3, <1>12 DEF Interrupt, End
  <1>13. ASSUME NEW c \in Clients, Connect(c)
         PROVE  Placed'
    <2>1. /\ ~Came(c) /\ pending' = pending \cup {c} /\ c \notin pending
          /\ UNCHANGED <<proto, left, hand, fds_q, pfds, served, listener>>
      BY <1>13 DEF Connect, Came, Inv, AllCame
    <2>2. Came(c)' /\ \A d \in Clients \ {c} : Came(d)' <=> Came(d)
      BY <1>13 DEF Connect, Came, Inv, Typed
    <2>4. proto = "udp" => Occurrences(c, left.fds) = 0
      BY <2>1 DEF Inv, AllCame
    <2>5. \A d \in Clients : /\ d # c => (CameHere(d)' <=> CameHere(d))
                             /\ Occurrences(d, left.fds)' = Occurrences(d, left.fds)
      BY <2>1, <2>2, HereSame
    <2>6. CameHere(c)' /\ ~CameHere(c)
      BY <2>1, <2>2, <2>4, HereSame DEF CameHere, Came
    <2>7. \A d \in Clients : Occurrences(d, left.fds) \in Nat
      BY LeftIsNat DEF Inv, Typed
    <2>3. \A d \in Clients : Places(d)' = Places(d) + IF d = c THEN 1 ELSE 0
      <3> SUFFICES ASSUME NEW d \in Clients
                   PROVE  Places(d)' = Places(d) + IF d = c THEN 1 ELSE 0
        OBVIOUS
      <3>1. Places(d) = (IF d \in pending THEN 1 ELSE 0) + (IF d = hand THEN 1 ELSE 0)
                          + Times(d, fds_q) + Times(d, pfds)
        BY PlacesAre
      <3>2. Places(d)' = (IF d \in pending' THEN 1 ELSE 0) + (IF d = hand' THEN 1 ELSE 0)
                           + Times(d, fds_q') + Times(d, pfds')
        BY PlacesAre
      <3>3. Times(d, fds_q) \in Nat /\ Times(d, pfds) \in Nat
        BY TimesFinite DEF Inv, Typed
      <3> QED
        BY <2>1, <3>1, <3>2, <3>3
    <2> QED
      BY <2>1, <2>3, <2>5, <2>6, <2>7 DEF Placed
  <1>14. ASSUME NEW c \in Clients, Speak(c) \/ HangUp(c)
         PROVE  Placed'
    <2>1. \A d \in Clients : Came(d)' <=> Came(d)
      BY <1>14, CameSame
    <2> QED
      BY <1>1, <1>14, <2>1 DEF Speak, HangUp
  <1>15. ASSUME NEW w \in Threads, Thread(w)
         PROVE  Placed'
    <2>1. CASE End \/ StartFails(w)
      BY <1>3, <2>1 DEF End, StartFails
    <2>2. ASSUME NEW S \in SUBSET Threads, ThreadExit(w, S)
          PROVE  Placed'
      <3>1. \A d \in Clients : Came(d)' <=> Came(d)
        BY <2>2, CameSame
      <3> QED
        BY <1>1, <2>2, <3>1 DEF ThreadExit
    <2>3. CASE Recv(w) \/ Send(w)
      <3>1. \A d \in Clients : Came(d)' <=> Came(d)
        BY <2>3, CameSame
      <3> QED
        BY <1>1, <2>3, <3>1 DEF Recv, Send
    <2>4. CASE Start(w) \/ Take(w) \/ LeaveFree(w) \/ JoinBusy(w) \/ BadNumber(w) \/ SendAck(w)
                 \/ LeaveBusy(w) \/ JoinFree(w)
      BY <1>1, <1>2, <2>4 DEF Start, Take, LeaveFree, JoinBusy, BadNumber, SendAck, LeaveBusy, JoinFree
    <2> QED
      BY <1>15, <2>1, <2>2, <2>3, <2>4 DEF Thread, Killed
  <1>16. CASE UNCHANGED vars
    BY <1>1, <1>2, <1>16 DEF vars
  <1> QED
    BY <1>4, <1>5, <1>6, <1>7, <1>8, <1>9, <1>10, <1>11, <1>12, <1>13, <1>14, <1>15, <1>16
       DEF Next, Main, Listener, Client

(* Until the listener dies, a client that came is in one place only, but   *)
(* for what an earlier process left of its number, and served_*_clients    *)
(* counts what the listener was given.                                     *)
THEOREM ClientsAreKept == Spec => []NoClientLost
  <1>1. Init => Placed
    <2> SUFFICES ASSUME Init PROVE Placed
      OBVIOUS
    <2>1. pending = {} /\ hand = None /\ pfds = <<>> /\ fds_q = left.fds /\ served = 0
      BY DEF Init
    <2>2. \A d \in Clients : Times(d, <<>>) = 0 /\ Times(d, fds_q) \in Nat
      <3> SUFFICES ASSUME NEW d \in Clients PROVE Times(d, <<>>) = 0 /\ Times(d, fds_q) \in Nat
        OBVIOUS
      <3>1. {i \in DOMAIN <<>> : <<>>[i] = d} = {}
        OBVIOUS
      <3>2. Times(d, fds_q) \in Nat
        BY InitInv, TimesFinite DEF Inv, Typed
      <3> QED
        BY <3>1, <3>2, FS_EmptySet DEF Times
    <2>3. \A d \in Clients : Places(d) = Occurrences(d, left.fds)
      <3> SUFFICES ASSUME NEW d \in Clients PROVE Places(d) = Occurrences(d, left.fds)
        OBVIOUS
      <3>1. Places(d) = (IF d \in pending THEN 1 ELSE 0) + (IF d = hand THEN 1 ELSE 0)
                          + Times(d, fds_q) + Times(d, pfds)
        BY PlacesAre
      <3>2. Places(d) = Times(d, fds_q)
        BY <2>1, <2>2, <3>1, ConstantsAssumption
      <3> QED
        BY <2>1, <3>2 DEF Times, Occurrences
    <2>4. \A d \in Clients : ~CameHere(d) /\ Occurrences(d, left.fds) \in Nat
      <3>1. \A d \in Clients : Occurrences(d, left.fds) = Times(d, fds_q)
        BY <2>1 DEF Times, Occurrences
      <3>2. \A d \in Clients : Occurrences(d, left.fds) \in Nat
        BY <2>2, <3>1
      <3>3. \A d \in Clients : conn[d] # "away" => proto = "udp" /\ Occurrences(d, left.fds) > 0
        BY DEF Init
      <3> QED
        BY <3>2, <3>3 DEF CameHere
    <2>5. \A d \in Clients : Places(d) = Occurrences(d, left.fds) + IF CameHere(d) THEN 1 ELSE 0
      BY <2>3, <2>4
    <2> QED
      BY <2>1, <2>5 DEF Placed
  <1>2. Placed => NoClientLost
    BY DEF Placed, NoClientLost, Places
  <1> QED
    BY <1>1, <1>2, NextPlaced, InvHolds, PTL DEF Spec

-----------------------------------------------------------------------------
(* One entry does not block the listener and all threads on each other.    *)

LEMMA FlightIsNat ==
  ASSUME Inv
  PROVE  /\ Len(clients_q) \in Nat /\ Len(ack_q) \in Nat /\ QMax \in Nat \ {0}
         /\ Cardinality(At(HoldAt)) \in Nat /\ Cardinality(Created) \in Nat
         /\ Cardinality(At(HoldAt)) <= Cardinality(Created)
  <1>1. HoldAt \subseteq PCs \ {"none"}
    BY DEF HoldAt, PCs, FreeAt, BusyAt
  <1>2. Cardinality(Where(Threads, pc, HoldAt)) <= Cardinality(Where(Threads, pc, PCs \ {"none"}))
    BY <1>1, WhereMonotone, ConstantsAssumption
  <1>3. At(HoldAt) = Where(Threads, pc, HoldAt) /\ Created = Where(Threads, pc, PCs \ {"none"})
    BY DEF At, Where, Created
  <1> QED
    BY <1>2, <1>3, CountIsNat, ConstantsAssumption DEF Inv, Typed, Created

(* Steps that move no client between the array and the acknowledgements.   *)
LEMMA FlightStays ==
  ASSUME Inv, CycleBounded, UNCHANGED <<pfds, reported, clients_q, ack_q>>, Up' => Up,
         listener = "gone" => listener' = "gone",
         At(HoldAt)' = At(HoldAt), Cardinality(Created)' >= Cardinality(Created),
         Cardinality(Created)' \in Nat
  PROVE  CycleBounded'
  <1>1. QueuesFit' /\ ReportsWatched'
    BY DEF CycleBounded, QueuesFit, ReportsWatched
  <1>2. ASSUME Up, OneInFlight
        PROVE  OneInFlight'
    <2>1. InFlight' = InFlight /\ InFlight \in Nat
      BY FlightIsNat DEF InFlight
    <2> QED
      BY <1>2, <2>1, FlightIsNat DEF OneInFlight
  <1> QED
    BY <1>1, <1>2 DEF CycleBounded

(* A thread's step: a client goes from a queue to the thread, or from the  *)
(* thread to a queue, or stays where it is.                                *)
LEMMA ThreadCycle ==
  ASSUME Inv, CycleBounded, NEW w \in Threads, Thread(w)
  PROVE  CycleBounded'
  <1>1. CASE End
    BY <1>1, ConstantsAssumption DEF End, CycleBounded, QueuesFit, ReportsWatched, Up, queues
  <1>3. CASE Exit
    <2>1. /\ UNCHANGED <<main, clients_q, ack_q, pc>> /\ Up
          /\ UNCHANGED listening \/ (listener' = "gone" /\ reported' = {})
      BY <1>3 DEF Exit, queues, working
    <2>2. At(HoldAt)' = At(HoldAt) /\ Created' = Created
      BY <2>1 DEF At, Created
    <2>3. CASE UNCHANGED listening
      BY <2>1, <2>2, <2>3, FlightIsNat, FlightStays DEF listening, Up
    <2>4. CASE listener' = "gone" /\ reported' = {}
      BY <2>1, <2>4 DEF CycleBounded, QueuesFit, ReportsWatched, OneInFlight
    <2> QED
      BY <2>1, <2>3, <2>4
  <1>2. CASE ~End /\ ~Exit
    <2>1. /\ Up /\ UNCHANGED <<main, listener, pfds, reported>>
          /\ pc[w] # "none" /\ \E to \in PCs \ {"none"} : pc' = [pc EXCEPT ![w] = to]
      BY <1>2, ThreadMoves DEF Goto, listening
    <2>2. pc[w] \in PCs \ {"none"}
      BY <2>1 DEF Inv, Typed
    <2>3. Cardinality(Created)' = Cardinality(Created)
      BY <2>1, <2>2, MoveCounts DEF Inv, Created
    <2>4. /\ Cardinality(Created) \in Nat /\ Cardinality(At(HoldAt)) \in Nat
          /\ Len(clients_q) \in Nat /\ Len(ack_q) \in Nat /\ QMax \in Nat
      BY FlightIsNat
    <2>5. QueuesFit /\ ReportsWatched /\ OneInFlight
      BY <2>1 DEF CycleBounded
    <2>m. \A to : pc' = [pc EXCEPT ![w] = to] =>
            /\ pc[w] \notin HoldAt /\ to \in HoldAt =>
                 Cardinality(At(HoldAt))' = Cardinality(At(HoldAt)) + 1
            /\ pc[w] \in HoldAt /\ to \notin HoldAt =>
                 Cardinality(At(HoldAt))' = Cardinality(At(HoldAt)) - 1
            /\ (pc[w] \in HoldAt <=> to \in HoldAt) =>
                 Cardinality(At(HoldAt))' = Cardinality(At(HoldAt))
      BY MoveCounts DEF Inv
    <2>n. /\ {"taken", "tobusy", "recv", "send", "ack"} \subseteq HoldAt
          /\ {"start", "idle", "unbusy", "refree"} \cap HoldAt = {}
      BY DEF HoldAt
    <2>6. ASSUME InFlight' = InFlight, QueuesFit'
          PROVE  CycleBounded'
      <3>2. OneInFlight'
        BY <2>1, <2>3, <2>5, <2>6 DEF OneInFlight
      <3>3. ReportsWatched'
        BY <2>1, <2>5 DEF ReportsWatched
      <3> QED
        BY <2>6, <3>2, <3>3 DEF CycleBounded
    <2>7. CASE Take(w)
      <3>1. Cardinality(At(HoldAt))' = Cardinality(At(HoldAt)) + 1 /\ UNCHANGED ack_q
        BY <2>7, <2>m, <2>n DEF Take, Goto
      <3>2. Len(clients_q') = Len(clients_q) - 1
        BY <2>7 DEF Take, Inv, Typed
      <3>3. InFlight' = InFlight /\ QueuesFit'
        BY <2>4, <2>5, <3>1, <3>2 DEF InFlight, QueuesFit
      <3> QED
        BY <2>6, <3>3
    <2>8. CASE SendAck(w)
      <3>1. Cardinality(At(HoldAt))' = Cardinality(At(HoldAt)) - 1 /\ UNCHANGED clients_q
        BY <2>8, <2>m, <2>n DEF SendAck, Goto
      <3>2. wfd[w] \in Numbers /\ ack_q \in Seq(Numbers)
        BY <2>8 DEF SendAck, Goto, Inv, Typed, ThreadsHold, HoldAt
      <3>3. Len(ack_q') = Len(ack_q) + 1 /\ Len(ack_q) < QMax
        BY <2>8, <3>2 DEF SendAck
      <3>4. InFlight' = InFlight /\ QueuesFit'
        BY <2>4, <2>5, <3>1, <3>3 DEF InFlight, QueuesFit
      <3> QED
        BY <2>6, <3>4
    <2>9. CASE Start(w) \/ LeaveFree(w) \/ JoinBusy(w) \/ Recv(w) \/ Send(w) \/ BadNumber(w)
               \/ LeaveBusy(w) \/ JoinFree(w)
      <3>1. Cardinality(At(HoldAt))' = Cardinality(At(HoldAt)) /\ UNCHANGED <<clients_q, ack_q>>
        BY <2>9, <2>m, <2>n DEF Start, LeaveFree, JoinBusy, Recv, Send, BadNumber, LeaveBusy, JoinFree,
           Goto, queues
      <3>2. InFlight' = InFlight /\ QueuesFit'
        BY <2>5, <3>1 DEF InFlight, QueuesFit
      <3> QED
        BY <2>6, <3>2
    <2>10. ~Killed(w) /\ ~StartFails(w) /\ \A S \in SUBSET Threads : ~ThreadExit(w, S)
      BY <1>2 DEF Killed, StartFails, ThreadExit, Exit, listening
    <2> QED
      BY <2>7, <2>8, <2>9, <2>10 DEF Thread
  <1> QED
    BY <1>1, <1>2, <1>3

(* The listener's round.                                                   *)
LEMMA ListenerCycle ==
  ASSUME Inv, CycleBounded, Listener
  PROVE  CycleBounded'
  <1> USE DEF setup, sems, working, queues, peers
  <1>1. /\ Up /\ Up' /\ OneInFlight /\ QueuesFit /\ ReportsWatched /\ UNCHANGED pc
        /\ At(HoldAt)' = At(HoldAt) /\ Created' = Created
    BY DEF Listener, Listen, ListenerPoll, Acknowledge, GreetingFails, AdoptFd, AdoptEndpoint,
       Adopt, Pass, CycleBounded, Up, At, Created
  <1>2. /\ Len(clients_q) \in Nat /\ Len(ack_q) \in Nat /\ QMax \in Nat \ {0}
        /\ Cardinality(At(HoldAt)) \in Nat /\ Cardinality(Created) \in Nat
        /\ Cardinality(At(HoldAt)) <= Cardinality(Created)
    BY FlightIsNat
  <1>3. pfds \in Seq(Numbers) /\ fds_q \in Seq(Numbers) /\ clients_q \in Seq(Numbers)
        /\ ack_q \in Seq(Numbers)
    BY DEF Inv, Typed
  <1>4. CASE Listen
    BY <1>1, <1>2, <1>4, FlightStays DEF Listen
  <1>5. CASE ListenerPoll
    <2>1. /\ UNCHANGED <<pfds, clients_q, ack_q>> /\ (AckQ \notin reported' => ack_q = <<>>)
          /\ reported' \subseteq {InQ, AckQ} \cup {Entry(i) : i \in DOMAIN pfds} /\ listener # "gone"
      BY <1>5 DEF ListenerPoll, When, Ready
    <2>2. InFlight' = InFlight
      BY <1>1, <2>1 DEF InFlight
    <2>3. ASSUME AckQ \notin reported'
          PROVE  InFlight <= QMax + Cardinality(Created)
      <3>1. Len(ack_q) = 0 /\ Len(clients_q) <= QMax
        BY <1>1, <2>1, <2>3 DEF QueuesFit
      <3> QED
        BY <1>2, <3>1 DEF InFlight
    <2>4. OneInFlight'
      BY <1>1, <2>1, <2>2, <2>3 DEF OneInFlight
    <2> QED
      BY <1>1, <2>1, <2>4 DEF CycleBounded, QueuesFit, ReportsWatched
  <1>6. CASE Acknowledge
    <2>1. /\ UNCHANGED <<pfds, clients_q>> /\ ack_q # <<>> /\ ack_q' = Tail(ack_q)
          /\ reported' = reported \ {AckQ} /\ listener # "gone"
      BY <1>6 DEF Acknowledge, Stay, Inv, ReportsTrue
    <2>2. Len(ack_q') = Len(ack_q) - 1 /\ Len(ack_q) > 0
      BY <1>3, <2>1
    <2>3. InFlight' = InFlight - 1 /\ InFlight \in Nat /\ InFlight > 0
      BY <1>1, <1>2, <2>1, <2>2 DEF InFlight
    <2>4. QueuesFit'
      BY <1>1, <1>2, <2>1, <2>2 DEF QueuesFit
    <2>5. OneInFlight'
      BY <1>1, <1>2, <2>1, <2>3 DEF OneInFlight
    <2> QED
      BY <1>1, <2>1, <2>4, <2>5 DEF CycleBounded, ReportsWatched
  <1>7. CASE GreetingFails
    <2>1. UNCHANGED <<pfds, clients_q, ack_q>> /\ reported' = {} /\ listener' = "gone"
      BY <1>7 DEF GreetingFails
    <2> QED
      BY <1>1, <2>1 DEF CycleBounded, QueuesFit, ReportsWatched, OneInFlight
  <1>8. ASSUME NEW g \in BOOLEAN, AdoptFd(g) \/ AdoptEndpoint(g)
        PROVE  CycleBounded'
    <2> DEFINE c == Head(fds_q)
    <2>1. /\ UNCHANGED <<clients_q, ack_q>> /\ fds_q # <<>> /\ pfds' = Append(pfds, c)
          /\ reported' = (reported \ {InQ}) \cup When(Entry(Len(pfds) + 1), g)
          /\ reported # {} /\ listener # "gone"
      BY <1>8 DEF AdoptFd, AdoptEndpoint, Adopt, Stay, Inv, ReportsTrue
    <2>2. c \in Numbers
      BY <1>3, <2>1
    <2> HIDE DEF c
    <2>3. /\ Len(pfds') = Len(pfds) + 1 /\ Len(pfds) \in Nat
          /\ DOMAIN pfds' = DOMAIN pfds \cup {Len(pfds) + 1}
      BY <1>3, <2>1, <2>2, QueueEnds, AppendStays
    <2>4. ReportsWatched'
      BY <1>1, <2>1, <2>3 DEF ReportsWatched, When
    <2>5. AckQ \notin reported' => AckQ \notin reported
      BY <2>1 DEF InQ, AckQ
    <2>6. OneInFlight'
      <3>1. InFlight' = InFlight
        BY <1>1, <2>1 DEF InFlight
      <3>2. Len(pfds') <= 1 => Len(pfds) <= 1
        BY <2>3
      <3> QED
        BY <1>1, <2>1, <2>5, <3>1, <3>2 DEF OneInFlight
    <2> QED
      BY <1>1, <2>1, <2>4, <2>6 DEF CycleBounded, QueuesFit
  <1>9. ASSUME NEW i \in DOMAIN pfds, Pass(i)
        PROVE  CycleBounded'
    <2>1. /\ UNCHANGED <<pfds, ack_q>> /\ clients_q' = Append(clients_q, pfds[i])
          /\ Len(clients_q) < QMax /\ Entry(i) \in reported /\ reported' = reported \ {Entry(i)}
          /\ AckQ \notin reported /\ InQ \notin reported /\ listener # "gone"
      BY <1>9 DEF Pass, Stay
    <2>2. Len(clients_q') = Len(clients_q) + 1
      BY <1>3, <2>1
    <2>7. Cardinality(At(HoldAt))' = Cardinality(At(HoldAt)) /\ Len(ack_q)' = Len(ack_q)
      BY <1>1, <2>1
    <2>3. InFlight' = InFlight + 1 /\ InFlight \in Nat
      BY <1>2, <2>2, <2>7 DEF InFlight
    <2>4. ASSUME Len(pfds) <= 1
          PROVE  /\ reported' = {}
                 /\ InFlight <= QMax + QMax - 1 \/ InFlight <= QMax + Cardinality(Created)
      <3>1. i = 1 /\ DOMAIN pfds = {1}
        <4>1. DOMAIN pfds = 1..Len(pfds) /\ Len(pfds) \in Nat
          BY <1>3
        <4>2. \A n \in Nat : n <= 1 /\ i \in 1..n => i = 1 /\ n = 1
          OBVIOUS
        <4>3. i = 1 /\ Len(pfds) = 1
          BY <1>9, <2>4, <4>1, <4>2
        <4> QED
          BY <4>1, <4>3
      <3>2. reported \subseteq {Entry(1)}
        BY <1>1, <2>1, <3>1 DEF ReportsWatched
      <3> QED
        BY <1>1, <2>1, <2>4, <3>1, <3>2 DEF OneInFlight
    <2>5. OneInFlight'
      BY <1>1, <1>2, <2>1, <2>3, <2>4 DEF OneInFlight
    <2>6. QueuesFit'
      BY <1>1, <1>2, <2>1, <2>2 DEF QueuesFit
    <2> QED
      BY <1>1, <2>1, <2>5, <2>6 DEF CycleBounded, ReportsWatched
  <1> QED
    BY <1>4, <1>5, <1>6, <1>7, <1>8, <1>9 DEF Listener

LEMMA NextCycle == Inv /\ CycleBounded /\ [Next]_vars => CycleBounded'
  <1> SUFFICES ASSUME Inv, CycleBounded, [Next]_vars PROVE CycleBounded'
    OBVIOUS
  <1> USE DEF setup, sems, listening, working, queues, peers
  <1>1. ASSUME UNCHANGED <<listener, pfds, reported, clients_q, ack_q, pc>>, Up' => Up
        PROVE  CycleBounded'
    <2>1. At(HoldAt)' = At(HoldAt) /\ Created' = Created
      BY <1>1 DEF At, Created
    <2> QED
      BY <1>1, <2>1, FlightIsNat, FlightStays
  <1>2. CASE Poll \/ CheckFree \/ CheckBusy \/ GiveToListener
    BY <1>1, <1>2 DEF Poll, CheckFree, CheckBusy, GiveToListener, Up
  <1>3. ASSUME NEW c \in Clients, Accept(c) \/ Client(c)
        PROVE  CycleBounded'
    BY <1>1, <1>3 DEF Accept, Client, Connect, Speak, HangUp, Up
  <1>4. ASSUME NEW S \in SUBSET Threads, Grow(S)
        PROVE  CycleBounded'
    <2>1. At(HoldAt)' = At(HoldAt)
      BY <1>4, GrowKeeps DEF HoldAt
    <2>2. PICK C : C = Created'
      OBVIOUS
    <2>3. Created \subseteq C /\ C \in SUBSET Threads
      BY <1>4, <2>2 DEF Grow, Created, At, PCs, FreeAt, BusyAt
    <2>4. IsFiniteSet(C) /\ Cardinality(C) \in Nat /\ Cardinality(C) >= Cardinality(Created)
      BY <2>3, ConstantsAssumption, FS_Subset, FS_CardinalityType
    <2>5. Cardinality(Created)' = Cardinality(C)
      BY <2>2
    <2> QED
      BY <1>4, <2>1, <2>4, <2>5, FlightStays DEF Grow, Up
  <1>5. CASE Interrupt
    BY <1>5 DEF Interrupt, End, CycleBounded, QueuesFit, ReportsWatched, Up
  <1>6. CASE UNCHANGED vars
    BY <1>1, <1>6 DEF vars, Up
  <1> QED
    BY <1>2, <1>3, <1>4, <1>5, <1>6, ThreadCycle, ListenerCycle DEF Next, Main

(* The listener, blocked on the queue of clients, and all threads, blocked *)
(* on the queue of acknowledgements, wait for each other only once the     *)
(* listener's array has two entries.                                       *)
THEOREM OneClientBlocksNobody == Spec => []CycleNeedsTwo
  <1>1. Init => CycleBounded
    <2> SUFFICES ASSUME Init PROVE CycleBounded
      OBVIOUS
    <2>1. At(HoldAt) = {}
      BY DEF Init, At, HoldAt
    <2>2. Cardinality(At(HoldAt)) = 0
      BY <2>1, FS_EmptySet
    <2>3. \A X, n : n \in 0..QMax => \A s \in [1..n -> X] : Len(s) = n
      BY ConstantsAssumption
    <2>4. \A X, s : s \in Leftovers(X) => Len(s) \in Nat /\ Len(s) <= QMax
      BY <2>3, ConstantsAssumption DEF Leftovers
    <2>5. /\ Len(clients_q) \in Nat /\ Len(clients_q) <= QMax
          /\ Len(ack_q) \in Nat /\ Len(ack_q) <= QMax
      BY <2>4 DEF Init
    <2>6. InFlight <= QMax + QMax
      BY <2>2, <2>5, ConstantsAssumption DEF InFlight
    <2> QED
      BY <2>5, <2>6 DEF Init, CycleBounded, QueuesFit, ReportsWatched, OneInFlight
  <1>2. Inv /\ CycleBounded => CycleNeedsTwo
    <2> SUFFICES ASSUME Inv, CycleBounded, Up, Cycle PROVE Len(pfds) > 1
      BY DEF CycleNeedsTwo
    <2>1. /\ Len(clients_q) \in Nat /\ Len(ack_q) \in Nat /\ QMax \in Nat \ {0}
          /\ Cardinality(At(HoldAt)) \in Nat /\ Cardinality(Created) \in Nat
          /\ Cardinality(At(HoldAt)) <= Cardinality(Created)
      BY FlightIsNat
    <2>2. /\ listener # "gone" /\ reported # {} /\ AckQ \notin reported
          /\ Len(clients_q) = QMax /\ Len(ack_q) = QMax
      BY DEF Cycle
    <2>3. At(HoldAt) = Created
      <3>1. At({"ack"}) \subseteq At(HoldAt) /\ At(HoldAt) \subseteq Created
        BY DEF At, HoldAt, Created, PCs, FreeAt, BusyAt
      <3> QED
        BY <3>1 DEF Cycle
    <2>4. InFlight = QMax + Cardinality(Created) + QMax
      BY <2>1, <2>2, <2>3 DEF InFlight
    <2>5. ~(Len(pfds) <= 1)
      BY <2>1, <2>2, <2>4 DEF CycleBounded, OneInFlight
    <2>6. Len(pfds) \in Nat
      BY DEF Inv, Typed
    <2> QED
      BY <2>5, <2>6
  <1> QED
    BY <1>1, <1>2, NextCycle, InvHolds, PTL DEF Spec

=============================================================================
