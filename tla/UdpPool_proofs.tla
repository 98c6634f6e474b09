--------------------------- MODULE UdpPool_proofs ---------------------------
(***************************************************************************)
(* Proofs about UdpPool, for every number of clients and threads, every    *)
(* queue capacity and batch size, and any number of failed calls, lost and *)
(* stray datagrams, ends and restarts of the process.                      *)
(***************************************************************************)
EXTENDS UdpPool, Counting

(* What TypeOK and SemaphoreAccounting need to be inductive: main has an   *)
(* endpoint while it is deciding where to send it, a process that has      *)
(* ended has no thread, no thread exists that threads_count misses, and    *)
(* the listening socket is closed only in a process where a thread has     *)
(* called exit().                                                          *)
MainHolds ==
  IF main \in {"udp_free", "udp_busy", "udp_grow", "udp_send"}
    THEN mendp \in Clients ELSE mendp = None
DownIsEmpty == main = "down" => open /\ \A w \in Threads : pc[w] = "none"
ClosedByMishap == ~open => mishaps # 0
Created == PCs \ {"none"}
NoExtraThreads == main # "down" => Cardinality(At(Created)) <= threads_count

Inv == /\ TypeOK /\ MainHolds /\ SemaphoreAccounting
       /\ DownIsEmpty /\ NoExtraThreads /\ ClosedByMishap

(* What OneHolder needs: a thread that holds an endpoint has one, and who  *)
(* is held anywhere has said hello and not been greeted yet, except by the *)
(* thread that holds it.                                                   *)
GreetedAt == {"taken", "tobusy", "recv", "answer"}
ThreadsHold == \A w \in At(HoldAt) : endp[w] \in Clients
HeldAreWaiting ==
  /\ \A c \in inbox : st[c] = "waiting"
  /\ mendp # None => st[mendp] = "waiting"
  /\ \A i \in DOMAIN queue : st[queue[i]] = "waiting"
  /\ \A w \in At({"greet"}) : st[endp[w]] = "waiting"
  /\ \A w \in At(GreetedAt) : st[endp[w]] \in {"greeted", "replied"} /\ peer[endp[w]] = w

(* What SessionsSeparate needs: as long as nothing has gone wrong, a reply *)
(* waits at a thread only if its client has replied, and a greeted client  *)
(* is with the thread it was greeted by.                                   *)
ReplyAt == {"taken", "tobusy", "recv"}
BoxOfSession ==
  mishaps = 0 =>
    /\ \A w \in Threads :
         box[w] # <<>> => /\ box[w] = <<endp[w]>> /\ pc[w] \in ReplyAt
                          /\ st[endp[w]] = "replied"
    /\ \A c \in Clients :
         st[c] = "greeted" => peer[c] \in At(ReplyAt) /\ endp[peer[c]] = c

NoneRejected == \A c \in Clients : st[c] # "rejected"
Holding == OneHolder /\ ThreadsHold /\ HeldAreWaiting /\ NoneRejected

(* Moving one thread changes the number of threads at P by one at most.    *)
LEMMA GotoCounts ==
  ASSUME TypeOK, NEW w \in Threads, NEW from, NEW to, Goto(w, from, to), NEW P
  PROVE  /\ pc' = [pc EXCEPT ![w] = to] /\ pc[w] = from
         /\ Cardinality(At(P)) \in Nat
         /\ from \notin P /\ to \in P => Cardinality(At(P))' = Cardinality(At(P)) + 1
         /\ from \in P /\ to \notin P => Cardinality(At(P))' = Cardinality(At(P)) - 1
         /\ (from \in P <=> to \in P) => Cardinality(At(P))' = Cardinality(At(P))
  <1>1. IsFiniteSet(Threads)
    BY ConstantsAssumption
  <1>2. /\ pc[w] = from /\ pc'[w] = to
        /\ SameBut(Threads, pc, pc', w)
    BY DEF TypeOK, Goto, SameBut
  <1>3. At(P) = Where(Threads, pc, P) /\ At(P)' = Where(Threads, pc', P)
    BY DEF At, Where
  <1>4. Cardinality(Where(Threads, pc, P)) \in Nat
    BY <1>1, WhereFinite
  <1>5. /\ pc[w] \notin P /\ pc'[w] \in P =>
             Cardinality(Where(Threads, pc', P)) = Cardinality(Where(Threads, pc, P)) + 1
        /\ pc[w] \in P /\ pc'[w] \notin P =>
             Cardinality(Where(Threads, pc', P)) = Cardinality(Where(Threads, pc, P)) - 1
        /\ (pc[w] \in P <=> pc'[w] \in P) =>
             Cardinality(Where(Threads, pc', P)) = Cardinality(Where(Threads, pc, P))
    BY <1>1, <1>2, MoveOne
  <1> QED
    BY <1>2, <1>3, <1>4, <1>5 DEF Goto

(* Creating threads adds as many to those that exist, and none to those    *)
(* the semaphores count: the threads announce themselves later.            *)
LEMMA CreateCounts ==
  ASSUME TypeOK, NEW S \in SUBSET Threads, CreateThreads(S)
  PROVE  /\ pc' \in [Threads -> PCs]
         /\ failed' \in 0..MaxCreateFails
         /\ Cardinality(S) \in 0..DefAlloc
         /\ Cardinality(At(FreeAt \cup {"dead"}))' = Cardinality(At(FreeAt \cup {"dead"}))
         /\ Cardinality(At(BusyAt))' = Cardinality(At(BusyAt))
         /\ Cardinality(At(Created)) \in Nat
         /\ Cardinality(At(Created))' = Cardinality(At(Created)) + Cardinality(S)
  <1>1. IsFiniteSet(Threads) /\ IsFiniteSet(S) /\ Cardinality(S) \in Nat /\ DefAlloc \in Nat
    BY ConstantsAssumption, FS_Subset, FS_CardinalityType
  <1>2. /\ \A s \in S : pc[s] = "none"
        /\ pc' = [t \in Threads |-> IF t \in S THEN "start" ELSE pc[t]]
    BY DEF CreateThreads, At
  <1>3. At(Created) = Where(Threads, pc, Created) /\ At(Created)' = Where(Threads, pc', Created)
    BY DEF At, Where
  <1>4. Cardinality(Where(Threads, [t \in Threads |-> IF t \in S THEN "start" ELSE pc[t]], Created))
          = Cardinality(Where(Threads, pc, Created)) + Cardinality(S)
    <2>1. "start" \in Created /\ "none" \notin Created
      BY DEF Created, PCs
    <2> QED
      BY <1>1, <1>2, <2>1, MoveMany
  <1>5. Cardinality(Where(Threads, pc, Created)) \in Nat
    BY <1>1, WhereFinite
  <1>6. pc' \in [Threads -> PCs]
    BY <1>2 DEF TypeOK, PCs
  <1>7. /\ At(FreeAt \cup {"dead"})' = At(FreeAt \cup {"dead"})
        /\ At(BusyAt)' = At(BusyAt)
    BY <1>2 DEF At, FreeAt, BusyAt
  <1>8. failed' \in 0..MaxCreateFails
    BY <1>1, ConstantsAssumption DEF CreateThreads, TypeOK
  <1>9. Cardinality(S) \in 0..DefAlloc
    BY <1>1 DEF CreateThreads
  <1> QED
    BY <1>2, <1>3, <1>4, <1>5, <1>6, <1>7, <1>8, <1>9

(* Initially there are DefAlloc threads at most and all counters are 0.     *)
LEMMA InitInv == Init => Inv
  <1> SUFFICES ASSUME Init PROVE Inv
    OBVIOUS
  <1>1. PICK S \in SUBSET Threads :
          /\ Cardinality(S) <= DefAlloc
          /\ failed = DefAlloc - Cardinality(S) /\ failed <= MaxCreateFails
          /\ pc = [w \in Threads |-> IF w \in S THEN "start" ELSE "none"]
    BY DEF Init, PoolInit
  <1>0. Cardinality(S) \in Nat /\ failed \in 0..MaxCreateFails
    <2>1. IsFiniteSet(S) /\ Cardinality(S) \in Nat
      BY ConstantsAssumption, FS_Subset, FS_CardinalityType
    <2> QED
      BY <1>1, <2>1, ConstantsAssumption
  <1>2. TypeOK /\ MainHolds /\ DownIsEmpty /\ ClosedByMishap
    BY <1>0, <1>1, ConstantsAssumption
       DEF Init, PoolInit, TypeOK, MainHolds, DownIsEmpty, ClosedByMishap, PCs, FreeAt, BusyAt
  <1>3. At(FreeAt \cup {"dead"}) = {} /\ At(BusyAt) = {} /\ At(Created) = S
    BY <1>1 DEF At, FreeAt, BusyAt, Created, PCs
  <1>4. free = 0 /\ busy = 0 /\ threads_count = DefAlloc /\ DefAlloc \in Nat
    BY ConstantsAssumption DEF Init, PoolInit
  <1>5. SemaphoreAccounting /\ NoExtraThreads
    BY <1>1, <1>3, <1>4, FS_EmptySet DEF SemaphoreAccounting, NoExtraThreads
  <1> QED
    BY <1>2, <1>5 DEF Inv

-----------------------------------------------------------------------------
(* Typing and the counts.                                                  *)

(* What a delivery leaves of the clients' types.                           *)
LEMMA DeliverTypes ==
  ASSUME TypeOK, NEW c, NEW w \in Threads, Deliver(c, w)
  PROVE  /\ st' \in [Clients -> {"away", "waiting", "greeted", "replied", "answered",
                                 "rejected", "stranded"}]
         /\ peer' \in [Clients -> Threads \cup {None}]
  BY DEF TypeOK, Deliver

(* Typing, per action.                                                     *)
LEMMA NextTypes ==
  ASSUME Inv, [Next]_vars
  PROVE  TypeOK' /\ MainHolds'
  <1> USE ConstantsAssumption DEF Inv, TypeOK, MainHolds, server, net
  <1>0. Mishap => mishaps' \in 0..MaxMishaps
    BY DEF Mishap
  <1>1. CASE Poll \/ CheckFree \/ CheckBusy
    BY <1>1 DEF Poll, CheckFree, CheckBusy
  <1>2. ASSUME NEW c \in Clients, Receive(c)
        PROVE  TypeOK' /\ MainHolds'
    BY <1>2 DEF Receive
  <1>3. ASSUME NEW S \in SUBSET Threads, Grow(S) \/ Restart(S)
        PROVE  TypeOK' /\ MainHolds'
    <2>1. pc' \in [Threads -> PCs] /\ failed' \in 0..MaxCreateFails
      BY <1>3, CreateCounts DEF Grow, Restart
    <2> QED
      BY <1>3, <2>1 DEF Grow, Restart
  <1>4. CASE Send
    <2>1. mendp \in Clients
      BY <1>4 DEF Send
    <2>2. queue' \in Seq(Clients) /\ Len(queue') <= QMax
      BY <1>4, <2>1 DEF Send
    <2> QED
      BY <1>4, <2>2 DEF Send
  <1>5. ASSUME NEW w \in Threads,
               Thread(w) \/ GreetFails(w) \/ RecvFails(w) \/ AnswerFails(w) \/ Stray(w)
        PROVE  TypeOK' /\ MainHolds'
    <2> USE <1>5 DEF Goto, PCs, FreeAt, BusyAt
    <2>1. CASE Ready(w)
      BY <2>1 DEF Ready
    <2>2. CASE Take(w)
      BY <2>2 DEF Take
    <2>3. CASE Greet(w)
      BY <2>3, DeliverTypes DEF Greet
    <2>4. CASE LeaveFree(w)
      BY <2>4 DEF LeaveFree
    <2>5. CASE JoinBusy(w)
      BY <2>5 DEF JoinBusy
    <2>6. CASE Recv(w)
      BY <2>6 DEF Recv
    <2>7. CASE Answer(w)
      BY <2>7, DeliverTypes DEF Answer
    <2>8. CASE LeaveBusy(w)
      BY <2>8 DEF LeaveBusy
    <2>9. CASE JoinFree(w)
      BY <2>9 DEF JoinFree
    <2>10. CASE Count(w)
      BY <2>10 DEF Count
    <2>11. CASE GreetFails(w) \/ RecvFails(w) \/ AnswerFails(w)
      BY <2>11, <1>0 DEF GreetFails, RecvFails, AnswerFails
    <2>12. CASE Stray(w)
      BY <2>12, <1>0 DEF Stray
    <2> QED
      BY <2>1, <2>2, <2>3, <2>4, <2>5, <2>6, <2>7, <2>8, <2>9, <2>10, <2>11, <2>12 DEF Thread
  <1>6. ASSUME NEW c \in Clients, Hello(c) \/ Reply(c) \/ HelloLost(c) \/ ReplyLost(c)
        PROVE  TypeOK' /\ MainHolds'
    <2>1. CASE Hello(c)
      BY <2>1 DEF Hello
    <2>2. CASE Reply(c)
      <3>1. ASSUME NEW w \in Threads
            PROVE  Append(box[w], c) \in Seq(Clients \cup {Stranger})
        OBVIOUS
      <3>2. box' \in [Threads -> Seq(Clients \cup {Stranger})]
        <4> HIDE DEF TypeOK
        <4>1. box \in [Threads -> Seq(Clients \cup {Stranger})]
          BY DEF TypeOK
        <4>2. box' = [box EXCEPT ![peer[c]] = Append(@, c)]
          BY <2>2 DEF Reply
        <4> QED
          BY <3>1, <4>1, <4>2
      <3> QED
        BY <2>2, <3>2 DEF Reply
    <2>3. CASE HelloLost(c) \/ ReplyLost(c)
      BY <2>3, <1>0 DEF HelloLost, ReplyLost
    <2> QED
      BY <1>6, <2>1, <2>2, <2>3
  <1>7. CASE Exit
    BY <1>7, <1>0 DEF Exit, PCs
  <1>8. CASE PollNothing \/ UNCHANGED vars
    BY <1>8 DEF PollNothing, vars
  <1>9. CASE Shut
    BY <1>9, <1>0 DEF Shut
  <1> QED
    BY <1>1, <1>2, <1>3, <1>4, <1>5, <1>6, <1>7, <1>8, <1>9 DEF Next, Main

(* What goes wrong is counted and not forgotten; the process that has a    *)
(* closed socket is one where something has.                               *)
LEMMA NextMishaps ==
  ASSUME Inv, [Next]_vars
  PROVE  ClosedByMishap' /\ (mishaps # 0 => mishaps' # 0)
  <1> USE DEF Inv, TypeOK, ClosedByMishap
  <1>1. /\ mishaps' = mishaps \/ Mishap
        /\ open' = open \/ open' = TRUE \/ Mishap
    BY DEF Next, vars, Main, Thread, Poll, CheckFree, CheckBusy, Send, Receive, Grow, Ready,
       Take, Greet, GreetFails, LeaveFree, JoinBusy, Recv, RecvFails, Answer, AnswerFails,
       LeaveBusy, JoinFree, Count, Stray, Hello, Reply, HelloLost, ReplyLost, PollNothing,
       Shut, Exit, Restart
  <1>2. Mishap => mishaps' # 0
    BY DEF Mishap
  <1> QED
    BY <1>1, <1>2

(* A thread's step moves the semaphores as its program counter says; a     *)
(* thread that returns stays where the free count has it.                  *)
LEMMA ThreadAccounting ==
  ASSUME Inv, NEW w \in Threads, Thread(w) \/ GreetFails(w) \/ RecvFails(w) \/ AnswerFails(w)
  PROVE  (SemaphoreAccounting /\ DownIsEmpty /\ NoExtraThreads)'
  <1> USE DEF Inv, PCs, FreeAt, BusyAt, Created, server
  <1>1. main # "down" /\ main' = main /\ threads_count' = threads_count
    BY DEF Thread, Ready, Take, Greet, GreetFails, LeaveFree, JoinBusy, Recv, RecvFails,
           Answer, AnswerFails, LeaveBusy, JoinFree, Count, Goto, DownIsEmpty
  <1>2. /\ free = Cardinality(At(FreeAt \cup {"dead"})) /\ busy = Cardinality(At(BusyAt))
        /\ free \in Nat /\ busy \in Nat /\ threads_count \in Nat
        /\ Cardinality(At(Created)) <= threads_count
    BY <1>1 DEF SemaphoreAccounting, NoExtraThreads, TypeOK
  <1> SUFFICES /\ free' = Cardinality(At(FreeAt \cup {"dead"}))'
               /\ busy' = Cardinality(At(BusyAt))'
               /\ Cardinality(At(Created))' = Cardinality(At(Created))
    BY <1>1, <1>2 DEF SemaphoreAccounting, DownIsEmpty, NoExtraThreads
  <1> USE <1>2, GotoCounts
  <1>3. CASE Ready(w)
    BY <1>3 DEF Ready
  <1>4. CASE Take(w)
    BY <1>4 DEF Take
  <1>5. CASE Greet(w) \/ GreetFails(w)
    BY <1>5 DEF Greet, GreetFails
  <1>6. CASE LeaveFree(w)
    BY <1>6 DEF LeaveFree
  <1>7. CASE JoinBusy(w)
    BY <1>7 DEF JoinBusy
  <1>8. CASE Recv(w) \/ RecvFails(w)
    <2>1. Goto(w, "recv", "answer") \/ Goto(w, "recv", "unbusy")
      BY <1>8 DEF Recv, RecvFails, Goto
    <2>2. UNCHANGED <<free, busy>>
      BY <1>8 DEF Recv, RecvFails
    <2> QED
      BY <2>1, <2>2
  <1>9. CASE Answer(w) \/ AnswerFails(w)
    BY <1>9 DEF Answer, AnswerFails
  <1>10. CASE LeaveBusy(w)
    BY <1>10 DEF LeaveBusy
  <1>11. CASE JoinFree(w)
    BY <1>11 DEF JoinFree
  <1>12. CASE Count(w)
    BY <1>12 DEF Count
  <1> QED
    BY <1>3, <1>4, <1>5, <1>6, <1>7, <1>8, <1>9, <1>10, <1>11, <1>12 DEF Thread

(* The counts, per action.                                                 *)
LEMMA NextAccounting ==
  ASSUME Inv, [Next]_vars
  PROVE  (SemaphoreAccounting /\ DownIsEmpty /\ NoExtraThreads)'
  <1> DEFINE Goal == (SemaphoreAccounting /\ DownIsEmpty /\ NoExtraThreads)'
  <1> USE DEF Inv, server, net
  <1>1. ASSUME UNCHANGED <<pc, free, busy, threads_count>>,
               (main' = main /\ open' = open) \/ (main' # "down" /\ main # "down")
        PROVE  Goal
    BY <1>1 DEF SemaphoreAccounting, DownIsEmpty, NoExtraThreads, At
  <1>2. CASE Poll \/ CheckFree \/ CheckBusy \/ Send
    BY <1>1, <1>2, ConstantsAssumption DEF Poll, CheckFree, CheckBusy, Send
  <1>3. ASSUME NEW c \in Clients,
               Receive(c) \/ Hello(c) \/ Reply(c) \/ HelloLost(c) \/ ReplyLost(c)
        PROVE  Goal
    BY <1>1, <1>3 DEF Receive, Hello, Reply, HelloLost, ReplyLost
  <1>4. ASSUME NEW S \in SUBSET Threads, Grow(S)
        PROVE  Goal
    <2>1. main # "down" /\ main' # "down" /\ DefAlloc \in Nat /\ CreateThreads(S)
          /\ UNCHANGED <<free, busy>> /\ threads_count' = threads_count + DefAlloc
      BY <1>4, ConstantsAssumption DEF Grow
    <2>2. /\ free' = Cardinality(At(FreeAt \cup {"dead"}))' /\ busy' = Cardinality(At(BusyAt))'
          /\ Cardinality(At(Created))' = Cardinality(At(Created)) + Cardinality(S)
          /\ Cardinality(At(Created)) <= threads_count /\ Cardinality(At(Created)) \in Nat
          /\ Cardinality(S) \in 0..DefAlloc
      BY <2>1, CreateCounts DEF SemaphoreAccounting, NoExtraThreads
    <2>3. Cardinality(At(Created))' <= threads_count'
      BY <2>1, <2>2 DEF TypeOK
    <2> QED
      BY <2>1, <2>2, <2>3 DEF SemaphoreAccounting, DownIsEmpty, NoExtraThreads
  <1>5. ASSUME NEW S \in SUBSET Threads, Restart(S)
        PROVE  Goal
    <2>1. main = "down" /\ main' = "poll"
          /\ threads_count' = DefAlloc /\ DefAlloc \in Nat
          /\ free' = 0 /\ busy' = 0 /\ CreateThreads(S)
      BY <1>5, ConstantsAssumption DEF Restart
    <2>2. At(FreeAt \cup {"dead"}) = {} /\ At(BusyAt) = {} /\ At(Created) = {}
      BY <2>1 DEF DownIsEmpty, At, FreeAt, BusyAt, Created
    <2>3. /\ Cardinality(At(FreeAt \cup {"dead"}))' = 0 /\ Cardinality(At(BusyAt))' = 0
          /\ Cardinality(At(Created))' = 0 + Cardinality(S) /\ Cardinality(S) \in 0..DefAlloc
      BY <2>1, <2>2, FS_EmptySet, CreateCounts
    <2> QED
      BY <2>1, <2>3 DEF SemaphoreAccounting, DownIsEmpty, NoExtraThreads
  <1>6. ASSUME NEW w \in Threads,
               Thread(w) \/ GreetFails(w) \/ RecvFails(w) \/ AnswerFails(w)
        PROVE  Goal
    BY <1>6, ThreadAccounting
  <1>7. ASSUME NEW w \in Threads, Stray(w)
        PROVE  Goal
    BY <1>1, <1>7 DEF Stray
  <1>8. CASE Exit
    BY <1>8 DEF Exit, SemaphoreAccounting, DownIsEmpty, NoExtraThreads
  <1>9. CASE PollNothing \/ UNCHANGED vars
    BY <1>1, <1>9 DEF PollNothing, vars
  <1>10. CASE Shut
    BY <1>1, <1>10 DEF Shut
  <1> QED
    BY <1>2, <1>3, <1>4, <1>5, <1>6, <1>7, <1>8, <1>9, <1>10 DEF Next, Main

(* Inv is inductive.                                                       *)
LEMMA InvHolds == Spec => []Inv
  <1>1. Inv /\ [Next]_vars => Inv'
    BY NextTypes, NextAccounting, NextMishaps DEF Inv
  <1> QED
    BY <1>1, InitInv, PTL DEF Spec

(* Every variable keeps its type: the queue never exceeds SERVER_Q_MAXMSG. *)
THEOREM TypeCorrect == Spec => []TypeOK
  <1>1. Inv => TypeOK
    BY DEF Inv
  <1> QED
    BY <1>1, InvHolds, PTL

(* The semaphores count the threads between a post and the next wait and,  *)
(* as free, the threads that have returned, whatever goes wrong.           *)
THEOREM SemaphoresExact == Spec => []SemaphoreAccounting
  <1>1. Inv => SemaphoreAccounting
    BY DEF Inv
  <1> QED
    BY <1>1, InvHolds, PTL

(* When main decides to create threads, each thread that exists is busy:   *)
(* not one of them has returned.                                           *)
THEOREM GrowthJustified == Spec => GrowOnlyWhenAllBusy
  <1> DEFINE Step == main = "udp_busy" /\ main' = "udp_grow"
                       => At(PCs \ {"none"}) \subseteq At(BusyAt)
  <1>1. ASSUME Inv, [Next]_vars
        PROVE  [Step]_vars
    <2> SUFFICES ASSUME main = "udp_busy", main' = "udp_grow"
                 PROVE  At(Created) \subseteq At(BusyAt)
      BY DEF Created
    <2>1. busy = threads_count
      BY <1>1 DEF Next, vars, Main, Thread, Poll, CheckFree, CheckBusy, Send, Receive, Grow,
         Ready, Take, Greet, GreetFails, LeaveFree, JoinBusy, Recv, RecvFails, Answer,
         AnswerFails, LeaveBusy, JoinFree, Count, Stray, Hello, Reply, HelloLost, ReplyLost,
         PollNothing, Shut, Exit, Restart, Goto
    <2>2. Cardinality(At(Created)) <= Cardinality(At(BusyAt))
      BY <1>1, <2>1 DEF Inv, SemaphoreAccounting, NoExtraThreads
    <2>3. At(BusyAt) = Where(Threads, pc, BusyAt) /\ At(Created) = Where(Threads, pc, Created)
      BY DEF At, Where
    <2>4. BusyAt \subseteq Created /\ IsFiniteSet(Threads)
      BY ConstantsAssumption DEF BusyAt, Created, PCs
    <2>5. /\ Cardinality(At(BusyAt)) <= Cardinality(At(Created))
          /\ Cardinality(At(BusyAt)) = Cardinality(At(Created)) => At(BusyAt) = At(Created)
      BY <2>3, <2>4, WhereMonotone
    <2>6. Cardinality(At(BusyAt)) \in Nat /\ Cardinality(At(Created)) \in Nat
      BY <2>3, <2>4, WhereFinite
    <2> QED
      BY <2>2, <2>5, <2>6
  <1> QED
    BY <1>1, InvHolds, PTL DEF Spec, GrowOnlyWhenAllBusy

(* No step of a thread is the end or the start of a process.               *)
LEMMA ThreadsRunUp ==
  ASSUME Inv, NEW w \in Threads, Thread(w) \/ GreetFails(w) \/ RecvFails(w) \/ AnswerFails(w)
  PROVE  main # "down" /\ main' = main /\ open' = open
  BY DEF Thread, Ready, Take, Greet, LeaveFree, JoinBusy, Recv, Answer, LeaveBusy, JoinFree,
         Count, GreetFails, RecvFails, AnswerFails, Goto, server, Inv, DownIsEmpty

(* Main goes round its two reads without end while no thread is free and   *)
(* not all are busy.  What it waits for is on its way: a thread that has   *)
(* left one semaphore and is about to post another, which nothing can      *)
(* stop - unless calls of pthread_create have failed, and main counts as   *)
(* many threads that there never were.  A thread that returns stays in the *)
(* free count, so that main does not wait for it.                          *)
MovingAt == {"start", "tobusy", "refree"}
FewMissing == main # "down" => threads_count <= Cardinality(At(Created)) + failed
WaitHasMover ==
  main # "down" /\ free = 0 /\ busy + failed < threads_count => At(MovingAt) # {}

LEMMA FewMissingHolds == Spec => []FewMissing
  <1>1. Init => FewMissing
    <2> SUFFICES ASSUME Init PROVE FewMissing
      OBVIOUS
    <2>1. PICK S \in SUBSET Threads :
            /\ failed = DefAlloc - Cardinality(S) /\ threads_count = DefAlloc
            /\ pc = [w \in Threads |-> IF w \in S THEN "start" ELSE "none"]
      BY DEF Init, PoolInit
    <2>2. At(Created) = S
      BY <2>1 DEF At, Created, PCs, FreeAt, BusyAt
    <2>3. Cardinality(S) \in Nat /\ DefAlloc \in Nat
      BY ConstantsAssumption, FS_Subset, FS_CardinalityType
    <2>4. DefAlloc <= Cardinality(S) + (DefAlloc - Cardinality(S))
      BY <2>3
    <2> QED
      BY <2>1, <2>2, <2>4 DEF FewMissing
  <1>2. ASSUME Inv, FewMissing, [Next]_vars
        PROVE  FewMissing'
    <2> USE <1>2 DEF server, net
    <2>1. ASSUME At(Created)' = At(Created), UNCHANGED <<threads_count, failed>>,
                 main' # "down" => main # "down"
          PROVE  FewMissing'
      BY <2>1 DEF FewMissing
    <2>2. CASE Poll \/ CheckFree \/ CheckBusy \/ Send \/ PollNothing \/ Shut \/ UNCHANGED vars
      BY <2>1, <2>2, ConstantsAssumption
         DEF Poll, CheckFree, CheckBusy, Send, PollNothing, Shut, vars, At
    <2>3. ASSUME NEW c \in Clients,
                 Receive(c) \/ Hello(c) \/ Reply(c) \/ HelloLost(c) \/ ReplyLost(c)
          PROVE  FewMissing'
      BY <2>1, <2>3 DEF Receive, Hello, Reply, HelloLost, ReplyLost, At
    <2>4. ASSUME NEW w \in Threads, Stray(w)
          PROVE  FewMissing'
      BY <2>1, <2>4 DEF Stray, At
    <2>5. ASSUME NEW w \in Threads,
                 Thread(w) \/ GreetFails(w) \/ RecvFails(w) \/ AnswerFails(w)
          PROVE  FewMissing'
      <3>1. At(Created)' = At(Created)
        BY <2>5 DEF Thread, Ready, Take, Greet, GreetFails, LeaveFree, JoinBusy, Recv,
           RecvFails, Answer, AnswerFails, LeaveBusy, JoinFree, Count, Goto, At, Created, PCs,
           FreeAt, BusyAt, Inv, TypeOK
      <3>2. UNCHANGED <<threads_count, failed>>
        BY <2>5 DEF Thread, Ready, Take, Greet, GreetFails, LeaveFree, JoinBusy, Recv,
           RecvFails, Answer, AnswerFails, LeaveBusy, JoinFree, Count
      <3> QED
        BY <2>1, <2>5, <3>1, <3>2, ThreadsRunUp
    <2>6. ASSUME NEW S \in SUBSET Threads, Grow(S) \/ Restart(S)
          PROVE  FewMissing'
      <3>1. CreateThreads(S) /\ main' # "down"
        BY <2>6, ConstantsAssumption DEF Grow, Restart
      <3>2. PICK n \in Nat, m \in Nat, k \in Nat, d \in Nat :
               /\ Cardinality(At(Created)) = n /\ Cardinality(S) = m /\ failed = k /\ DefAlloc = d
        BY <3>1, ConstantsAssumption, CreateCounts DEF Inv, TypeOK
      <3>3. Cardinality(At(Created))' = n + m /\ failed' = k + (d - m)
        BY <3>1, <3>2, CreateCounts DEF Inv, CreateThreads
      <3>4. CASE Grow(S)
        <4>1. PICK t \in Nat : threads_count = t
          BY DEF Inv, TypeOK
        <4>2. t <= n + k /\ threads_count' = t + d
          BY <3>2, <3>4, <4>1 DEF Grow, FewMissing
        <4>3. t + d <= (n + m) + (k + (d - m))
          BY <4>2
        <4> QED
          BY <3>3, <4>2, <4>3 DEF FewMissing
      <3>5. CASE Restart(S)
        <4>1. threads_count' = d
          BY <3>2, <3>5 DEF Restart
        <4>2. d <= (n + m) + (k + (d - m))
          OBVIOUS
        <4> QED
          BY <3>3, <4>1, <4>2 DEF FewMissing
      <3> QED
        BY <2>6, <3>4, <3>5
    <2>7. CASE Exit
      BY <2>7 DEF Exit, FewMissing
    <2> QED
      BY <2>2, <2>3, <2>4, <2>5, <2>6, <2>7 DEF Next, Main
  <1> QED
    BY <1>1, <1>2, InvHolds, PTL DEF Spec

(* Main's wait is never for nothing: while it reads that no thread is free *)
(* and that fewer are busy than there are, some thread is between two      *)
(* semaphores - unless pthread_create has failed as often as threads are   *)
(* missing.                                                                *)
THEOREM WaitsHaveMovers == Spec => []WaitHasMover
  <1>1. ASSUME Inv, FewMissing
        PROVE  WaitHasMover
    <2> SUFFICES ASSUME main # "down", free = 0, busy + failed < threads_count, At(MovingAt) = {}
                 PROVE  FALSE
      BY DEF WaitHasMover
    <2>1. Created = ((FreeAt \cup {"dead"}) \cup BusyAt) \cup MovingAt
      BY DEF Created, PCs, MovingAt, FreeAt, BusyAt
    <2>2. At(FreeAt \cup {"dead"}) = {}
      <3>1. /\ At(FreeAt \cup {"dead"}) = Where(Threads, pc, FreeAt \cup {"dead"})
            /\ IsFiniteSet(Threads)
        BY ConstantsAssumption DEF At, Where
      <3>2. Cardinality(At(FreeAt \cup {"dead"})) = 0
        BY <1>1 DEF Inv, SemaphoreAccounting
      <3> QED
        BY <3>1, <3>2, WhereFinite, FS_EmptySet
    <2>3. At(Created) = At(BusyAt)
      BY <2>1, <2>2 DEF At
    <2>4. threads_count <= busy + failed
      BY <1>1, <2>3 DEF Inv, SemaphoreAccounting, FewMissing
    <2> QED
      BY <1>1, <2>4 DEF Inv, TypeOK
  <1> QED
    BY <1>1, InvHolds, FewMissingHolds, PTL

-----------------------------------------------------------------------------
(* An endpoint moves from the socket to main, to the queue, to one thread. *)

(* Steps that hand nobody over, and leave no client greeted or forgotten.  *)
LEMMA StayHolding ==
  ASSUME Inv, Holding, UNCHANGED <<mendp, queue, inbox, endp, peer>>,
         At(HoldAt)' \subseteq At(HoldAt), At({"greet"})' \subseteq At({"greet"}),
         At(GreetedAt)' \subseteq At(GreetedAt),
         \A c \in Clients : st'[c] = st[c] \/ (st[c] = "greeted" /\ st'[c] = "replied")
  PROVE  Holding'
  <1> USE DEF Holding, Inv, TypeOK
  <1>1. OneHolder' /\ ThreadsHold'
    BY DEF OneHolder, ThreadsHold
  <1>2. \A w \in At({"greet"}) \cup At(GreetedAt) : w \in At(HoldAt) /\ endp[w] \in Clients
    BY DEF ThreadsHold, At, HoldAt, GreetedAt
  <1>3. HeldAreWaiting'
    BY <1>2 DEF HeldAreWaiting
  <1>4. NoneRejected'
    BY DEF NoneRejected
  <1> QED
    BY <1>1, <1>3, <1>4

(* recvfrom takes a client from the socket to main.                        *)
LEMMA ReceiveHolding ==
  ASSUME Inv, Holding, NEW c \in Clients, Receive(c)
  PROVE  Holding'
  <1> USE DEF Holding, Inv, TypeOK, Receive
  <1>1. At(HoldAt)' = At(HoldAt) /\ At({"greet"})' = At({"greet"}) /\ At(GreetedAt)' = At(GreetedAt)
    BY DEF At
  <1>2. OneHolder' /\ ThreadsHold'
    BY <1>1 DEF OneHolder, ThreadsHold
  <1>3. HeldAreWaiting' /\ NoneRejected'
    BY <1>1 DEF HeldAreWaiting, NoneRejected
  <1> QED
    BY <1>2, <1>3

(* mq_send moves main's client to the end of the queue.                    *)
LEMMA SendHolding ==
  ASSUME Inv, Holding, Send
  PROVE  Holding'
  <1>0. /\ mendp \in Clients /\ mendp' = None /\ None \notin Clients
        /\ queue \in Seq(Clients) /\ queue' = Append(queue, mendp)
        /\ UNCHANGED <<pc, endp, inbox, st, peer>> /\ inbox \subseteq Clients
    BY ConstantsAssumption DEF Send, Inv, MainHolds, TypeOK, net
  <1>1. /\ DOMAIN queue' = DOMAIN queue \cup {Len(queue) + 1}
        /\ queue'[Len(queue) + 1] = mendp
        /\ \A i \in DOMAIN queue : queue'[i] = queue[i] /\ queue[i] \in Clients
    BY <1>0, QueueEnds
  <1>2. At(HoldAt)' = At(HoldAt) /\ At({"greet"})' = At({"greet"}) /\ At(GreetedAt)' = At(GreetedAt)
    BY <1>0 DEF At
  <1> USE DEF Holding
  <1>3. OneHolder'
    BY <1>0, <1>1, <1>2 DEF OneHolder, ThreadsHold
  <1>4. ThreadsHold' /\ NoneRejected'
    BY <1>0, <1>2 DEF ThreadsHold, NoneRejected
  <1>5. HeldAreWaiting'
    BY <1>0, <1>1, <1>2 DEF HeldAreWaiting
  <1> QED
    BY <1>3, <1>4, <1>5

(* mq_receive moves the first client of the queue to one thread.           *)
LEMMA TakeHolding ==
  ASSUME Inv, Holding, NEW w \in Threads, Take(w)
  PROVE  Holding'
  <1>0. /\ queue \in Seq(Clients) /\ queue # <<>> /\ queue' = Tail(queue)
        /\ UNCHANGED <<mendp, inbox, st, peer>>
        /\ endp'[w] = queue[1] /\ 1 \in DOMAIN queue /\ queue[1] \in Clients
        /\ \A v \in Threads \ {w} : endp'[v] = endp[v]
    BY QueueEnds DEF Take, Inv, TypeOK, net
  <1>1. /\ At(HoldAt)' = At(HoldAt) \cup {w} /\ w \notin At(HoldAt)
        /\ At({"greet"})' = At({"greet"}) \cup {w}
        /\ At(GreetedAt)' = At(GreetedAt) /\ At(GreetedAt) \subseteq At(HoldAt)
        /\ At({"greet"}) \subseteq At(HoldAt)
    BY DEF Take, Goto, Inv, TypeOK, At, HoldAt, GreetedAt
  <1>2. \A i \in DOMAIN queue' : i + 1 \in DOMAIN queue /\ i + 1 # 1 /\ queue'[i] = queue[i + 1]
    BY <1>0, QueueEnds
  <1>3. \A i, j \in DOMAIN queue' : i + 1 = j + 1 => i = j
    BY <1>0, QueueEnds
  <1>4. \A v \in At(HoldAt) : v \in Threads /\ endp'[v] = endp[v] /\ v # w
    BY <1>0, <1>1 DEF At
  <1> USE DEF Holding
  <1>5. OneHolder'
    <2>1. \A i, j \in DOMAIN queue' : queue'[i] = queue'[j] => i = j
      BY <1>2, <1>3 DEF OneHolder
    <2>2. \A v, u \in At(HoldAt)' : endp'[v] = endp'[u] => v = u
      BY <1>0, <1>1, <1>4 DEF OneHolder
    <2>3. \A v \in At(HoldAt)', i \in DOMAIN queue' : endp'[v] # queue'[i]
      BY <1>0, <1>1, <1>2, <1>4 DEF OneHolder
    <2>4. \A c \in inbox \cup {mendp} :
            /\ \A v \in At(HoldAt)' : endp'[v] # c
            /\ \A i \in DOMAIN queue' : queue'[i] # c
      BY <1>0, <1>1, <1>2, <1>4 DEF OneHolder
    <2> QED
      BY <1>0, <2>1, <2>2, <2>3, <2>4 DEF OneHolder
  <1>6. ThreadsHold' /\ NoneRejected'
    BY <1>0, <1>1, <1>4 DEF ThreadsHold, NoneRejected
  <1>7. HeldAreWaiting'
    BY <1>0, <1>1, <1>2, <1>4 DEF HeldAreWaiting
  <1> QED
    BY <1>5, <1>6, <1>7

(* What a delivery to the client of thread w does: it greets a waiting one *)
(* or answers one that w has greeted.                                      *)
LEMMA DeliverHeld ==
  ASSUME Inv, Holding, NEW w \in At(HoldAt), Deliver(endp[w], w)
  PROVE  LET c == endp[w] IN
         /\ c \in Clients
         /\ st[c] = "waiting" => st'[c] = "greeted" /\ peer'[c] = w
         /\ st[c] # "waiting" => peer' = peer
         /\ st[c] = "replied" /\ peer[c] = w => st'[c] = "answered"
         /\ st[c] \notin {"waiting", "replied"} => st' = st
         /\ \A d \in Clients \ {c} : st'[d] = st[d] /\ peer'[d] = peer[d]
  BY DEF Inv, TypeOK, Holding, ThreadsHold, Deliver

(* The greeting and the answer go to the one client the thread holds.      *)
LEMMA DeliverHolding ==
  ASSUME Inv, Holding, NEW w \in Threads, Greet(w) \/ Answer(w)
  PROVE  Holding'
  <1> USE DEF Holding, Inv
  <1>0. /\ UNCHANGED <<mendp, queue, inbox, endp>> /\ Deliver(endp[w], w) /\ w \in At(HoldAt)
        /\ queue \in Seq(Clients) /\ inbox \subseteq Clients /\ mendp \in Clients \cup {None}
    BY DEF Greet, Answer, Goto, TypeOK, At, HoldAt, server
  <1>1. /\ At(HoldAt)' \subseteq At(HoldAt)
        /\ At({"greet"})' = At({"greet"}) \ {w}
        /\ At(GreetedAt)' \ {w} \subseteq At(GreetedAt)
        /\ At(GreetedAt) \cup At({"greet"}) \subseteq At(HoldAt)
    BY DEF Greet, Answer, Goto, TypeOK, At, HoldAt, GreetedAt
  <1>2. \A v \in At(HoldAt) \ {w} : endp[v] \in Clients \ {endp[w]}
    BY <1>0 DEF OneHolder, ThreadsHold
  <1>3. endp[w] \notin inbox \cup {mendp} /\ \A i \in DOMAIN queue : queue[i] \in Clients \ {endp[w]}
    BY <1>0 DEF OneHolder
  <1>4. OneHolder' /\ ThreadsHold'
    BY <1>0, <1>1 DEF OneHolder, ThreadsHold
  <1>5. /\ \A d \in Clients \ {endp[w]} : st'[d] = st[d] /\ peer'[d] = peer[d]
        /\ endp[w] \in Clients
    BY <1>0, DeliverHeld
  <1>6. CASE Greet(w)
    <2>1. st[endp[w]] = "waiting"
      BY <1>6 DEF Greet, Goto, At, HeldAreWaiting
    <2>2. st'[endp[w]] = "greeted" /\ peer'[endp[w]] = w
      BY <1>0, <2>1, DeliverHeld
    <2>3. HeldAreWaiting'
      BY <1>0, <1>1, <1>2, <1>3, <1>5, <2>2 DEF HeldAreWaiting
    <2>4. NoneRejected'
      BY <1>5, <2>2 DEF NoneRejected
    <2> QED
      BY <1>4, <2>3, <2>4
  <1>7. CASE Answer(w)
    <2>1. w \in At(GreetedAt) /\ w \notin At(GreetedAt)'
      BY <1>7 DEF Answer, Goto, TypeOK, At, GreetedAt
    <2>2. st[endp[w]] \in {"greeted", "replied"} /\ peer[endp[w]] = w
      BY <2>1 DEF HeldAreWaiting
    <2>3. st'[endp[w]] \in {"greeted", "answered"}
      BY <1>0, <2>2, DeliverHeld
    <2>4. HeldAreWaiting'
      BY <1>0, <1>1, <1>2, <1>3, <1>5, <2>1 DEF HeldAreWaiting
    <2>5. NoneRejected'
      BY <1>5, <2>3 DEF NoneRejected
    <2> QED
      BY <1>4, <2>4, <2>5
  <1> QED
    BY <1>6, <1>7

(* A client that says hello is held by nobody yet.                         *)
LEMMA HelloHolding ==
  ASSUME Inv, Holding, NEW c \in Clients, Hello(c) \/ HelloLost(c)
  PROVE  Holding'
  <1> USE DEF Holding, Inv
  <1>0. /\ st[c] = "away" /\ UNCHANGED <<mendp, queue, endp, pc, peer>>
        /\ inbox' \subseteq inbox \cup {c} /\ inbox \subseteq inbox'
        /\ st'[c] = "waiting" /\ \A d \in Clients \ {c} : st'[d] = st[d]
        /\ queue \in Seq(Clients) /\ inbox \subseteq Clients /\ mendp \in Clients \cup {None}
    BY DEF Hello, HelloLost, TypeOK, server
  <1>1. At(HoldAt)' = At(HoldAt) /\ At({"greet"})' = At({"greet"}) /\ At(GreetedAt)' = At(GreetedAt)
        /\ At(HoldAt) = At({"greet"}) \cup At(GreetedAt)
    BY <1>0 DEF At, HoldAt, GreetedAt
  <1>2. /\ \A w \in At(HoldAt) : endp[w] \in Clients \ {c}
        /\ \A i \in DOMAIN queue : queue[i] \in Clients \ {c}
        /\ mendp # c /\ c \notin inbox
    BY <1>0, <1>1, ConstantsAssumption DEF HeldAreWaiting, ThreadsHold
  <1>3. OneHolder' /\ ThreadsHold'
    BY <1>0, <1>1, <1>2 DEF OneHolder, ThreadsHold
  <1>4. HeldAreWaiting'
    BY <1>0, <1>1, <1>2 DEF HeldAreWaiting
  <1>5. NoneRejected'
    BY <1>0 DEF NoneRejected
  <1> QED
    BY <1>3, <1>4, <1>5

(* The end of the process leaves the clients in the queue.                 *)
LEMMA ExitHolding ==
  ASSUME Inv, Holding, Exit
  PROVE  Holding'
  <1>0. /\ inbox' = {} /\ mendp' = None /\ UNCHANGED queue /\ queue \in Seq(Clients)
        /\ None \notin Clients
        /\ \A c \in Clients : st'[c] = st[c] \/ (st[c] # "waiting" /\ st'[c] = "stranded")
    BY ConstantsAssumption DEF Exit, Inv, TypeOK
  <1>1. At(HoldAt)' = {} /\ At({"greet"})' = {} /\ At(GreetedAt)' = {}
    BY DEF Exit, At, HoldAt, GreetedAt
  <1>2. OneHolder' /\ ThreadsHold'
    BY <1>0, <1>1 DEF Holding, OneHolder, ThreadsHold
  <1>3. HeldAreWaiting' /\ NoneRejected'
    BY <1>0, <1>1 DEF Holding, HeldAreWaiting, NoneRejected
  <1> QED
    BY <1>2, <1>3 DEF Holding

(* A closed listening socket holds nobody.                                 *)
LEMMA ShutHolding ==
  ASSUME Inv, Holding, Shut
  PROVE  Holding'
  <1>1. /\ inbox' = {} /\ UNCHANGED <<mendp, queue, endp, st, peer>>
        /\ At(HoldAt)' = At(HoldAt) /\ At({"greet"})' = At({"greet"})
        /\ At(GreetedAt)' = At(GreetedAt)
    BY DEF Shut, server, At
  <1>2. OneHolder' /\ ThreadsHold'
    BY <1>1 DEF Holding, OneHolder, ThreadsHold
  <1>3. HeldAreWaiting' /\ NoneRejected'
    BY <1>1 DEF Holding, HeldAreWaiting, NoneRejected
  <1> QED
    BY <1>2, <1>3 DEF Holding

(* Inv and Holding are inductive together.                                 *)
LEMMA HoldingHolds == Spec => []Holding
  <1>1. Init => Holding
    <2> SUFFICES ASSUME Init PROVE Holding
      OBVIOUS
    <2>1. /\ At(HoldAt) = {} /\ At({"greet"}) = {} /\ At(GreetedAt) = {}
          /\ queue = <<>> /\ inbox = {} /\ mendp = None
          /\ st = [c \in Clients |-> "away"]
      BY DEF Init, PoolInit, At, HoldAt, GreetedAt
    <2> QED
      BY <2>1 DEF Holding, OneHolder, ThreadsHold, HeldAreWaiting, NoneRejected
  <1>2. ASSUME Inv, Holding, [Next]_vars
        PROVE  Holding'
    <2> USE <1>2 DEF server, net
    <2>1. CASE Poll \/ CheckFree \/ CheckBusy \/ PollNothing \/ UNCHANGED vars
      BY <2>1, StayHolding DEF Poll, CheckFree, CheckBusy, PollNothing, vars, At
    <2>2. CASE Send
      BY <2>2, SendHolding
    <2>3. ASSUME NEW c \in Clients, Receive(c)
          PROVE  Holding'
      BY <2>3, ReceiveHolding
    <2>4. ASSUME NEW S \in SUBSET Threads, Grow(S) \/ Restart(S)
          PROVE  Holding'
      <3>1. /\ At(HoldAt)' = At(HoldAt) /\ At({"greet"})' = At({"greet"})
            /\ At(GreetedAt)' = At(GreetedAt)
        BY <2>4 DEF Grow, Restart, CreateThreads, At, HoldAt, GreetedAt
      <3> QED
        BY <2>4, <3>1, StayHolding DEF Grow, Restart
    <2>5. ASSUME NEW w \in Threads,
                 \/ Ready(w) \/ LeaveFree(w) \/ JoinBusy(w) \/ Recv(w) \/ LeaveBusy(w)
                 \/ JoinFree(w) \/ Count(w) \/ GreetFails(w) \/ RecvFails(w) \/ AnswerFails(w)
                 \/ Stray(w)
          PROVE  Holding'
      <3>1. /\ At(HoldAt)' \subseteq At(HoldAt) /\ At({"greet"})' \subseteq At({"greet"})
            /\ At(GreetedAt)' \subseteq At(GreetedAt)
            /\ UNCHANGED <<mendp, queue, inbox, endp, peer, st>>
        BY <2>5 DEF Ready, LeaveFree, JoinBusy, Recv, LeaveBusy, JoinFree, Count, GreetFails,
           RecvFails, AnswerFails, Stray, Goto, At, HoldAt, GreetedAt, Inv, TypeOK
      <3> QED
        BY <3>1, StayHolding
    <2>6. ASSUME NEW w \in Threads, Take(w)
          PROVE  Holding'
      BY <2>6, TakeHolding
    <2>7. ASSUME NEW w \in Threads, Greet(w) \/ Answer(w)
          PROVE  Holding'
      BY <2>7, DeliverHolding
    <2>8. ASSUME NEW c \in Clients, Reply(c) \/ ReplyLost(c)
          PROVE  Holding'
      <3>1. /\ UNCHANGED <<pc, mendp, queue, inbox, endp, peer>>
            /\ \A d \in Clients : st'[d] = st[d] \/ (st[d] = "greeted" /\ st'[d] = "replied")
        BY <2>8 DEF Reply, ReplyLost, Inv, TypeOK
      <3> QED
        BY <3>1, StayHolding DEF At
    <2>9. ASSUME NEW c \in Clients, Hello(c) \/ HelloLost(c)
          PROVE  Holding'
      BY <2>9, HelloHolding
    <2>10. CASE Exit
      BY <2>10, ExitHolding
    <2>11. CASE Shut
      BY <2>11, ShutHolding
    <2> QED
      BY <2>1, <2>2, <2>3, <2>4, <2>5, <2>6, <2>7, <2>8, <2>9, <2>10, <2>11
         DEF Next, Main, Thread
  <1> QED
    BY <1>1, <1>2, InvHolds, PTL DEF Spec

(* Each client that has said hello has one holder at most, over any number *)
(* of processes: the queue one leaves behind is taken over, not doubled.   *)
THEOREM OneHolderHolds == Spec => []OneHolder
  <1>1. Holding => OneHolder
    BY DEF Holding
  <1> QED
    BY <1>1, HoldingHolds, PTL

-----------------------------------------------------------------------------
(* Sessions at one thread's socket.                                        *)

(* Init, and steps that leave sockets, sessions and threads that wait for  *)
(* a reply as they are.                                                    *)
LEMMA BoxStays ==
  ASSUME Inv, Holding, BoxOfSession, UNCHANGED <<box, st, peer>>, mishaps \in Nat,
         mishaps' = mishaps,
         At(ReplyAt)' = At(ReplyAt),
         \A w \in Threads : box[w] # <<>> \/ pc[w] \in ReplyAt => endp'[w] = endp[w]
  PROVE  BoxOfSession'
  BY DEF BoxOfSession, At

(* BoxOfSession is inductive.                                              *)
LEMMA BoxHolds == Spec => []BoxOfSession
  <1>1. Init => BoxOfSession
    BY DEF Init, PoolInit, BoxOfSession
  <1>2. ASSUME Inv, Holding, BoxOfSession, [Next]_vars
        PROVE  BoxOfSession'
    <2> SUFFICES ASSUME mishaps' = 0
                 PROVE  BoxOfSession'
      BY DEF BoxOfSession
    <2> USE <1>2 DEF server, net
    <2>0. mishaps = 0 /\ mishaps' = mishaps /\ ~Mishap /\ ~Exit
      <3>1. mishaps = 0
        BY NextMishaps
      <3>2. ~Mishap
        BY <3>1 DEF Mishap
      <3>3. ~Exit
        BY <3>1, <3>2 DEF Exit, Inv, ClosedByMishap
      <3> QED
        BY <3>1, <3>2, <3>3
    <2>1. CASE Poll \/ CheckFree \/ CheckBusy \/ Send \/ PollNothing \/ UNCHANGED vars
      BY <2>0, <2>1, BoxStays DEF Poll, CheckFree, CheckBusy, Send, PollNothing, vars, At
    <2>2. ASSUME NEW c \in Clients, Receive(c)
          PROVE  BoxOfSession'
      BY <2>0, <2>2, BoxStays DEF Receive, At
    <2>3. ASSUME NEW S \in SUBSET Threads, Grow(S) \/ Restart(S)
          PROVE  BoxOfSession'
      <3>1. At(ReplyAt)' = At(ReplyAt)
        BY <2>3 DEF Grow, Restart, CreateThreads, At, ReplyAt
      <3> QED
        BY <2>0, <2>3, <3>1, BoxStays DEF Grow, Restart
    <2>4. ASSUME NEW w \in Threads,
                 \/ Ready(w) \/ Take(w) \/ LeaveFree(w) \/ JoinBusy(w) \/ LeaveBusy(w)
                 \/ JoinFree(w) \/ Count(w)
          PROVE  BoxOfSession'
      <3>1. At(ReplyAt)' = At(ReplyAt) /\ UNCHANGED <<box, st, peer>>
        BY <2>4 DEF Ready, Take, LeaveFree, JoinBusy, LeaveBusy, JoinFree, Count, Goto, At,
           ReplyAt, Inv, TypeOK
      <3>2. ASSUME NEW v \in Threads, box[v] # <<>> \/ pc[v] \in ReplyAt
            PROVE  endp'[v] = endp[v]
        BY <2>0, <2>4, <3>2 DEF Ready, Take, LeaveFree, JoinBusy, LeaveBusy, JoinFree, Count,
           Goto, ReplyAt, Inv, TypeOK, BoxOfSession
      <3> QED
        BY <2>0, <3>1, <3>2, BoxStays
    <2>5. ASSUME NEW w \in Threads, Greet(w)
          PROVE  BoxOfSession'
      <3>1. /\ w \in At(HoldAt) /\ Deliver(endp[w], w) /\ pc[w] = "greet"
            /\ UNCHANGED <<box, endp>> /\ endp[w] \in Clients
            /\ st[endp[w]] = "waiting" /\ w \in Threads
        BY <2>5 DEF Greet, Goto, At, HoldAt, Holding, HeldAreWaiting, ThreadsHold
      <3>2. /\ st'[endp[w]] = "greeted" /\ peer'[endp[w]] = w
            /\ \A d \in Clients \ {endp[w]} : st'[d] = st[d] /\ peer'[d] = peer[d]
        BY <3>1, DeliverHeld
      <3>3. At(ReplyAt)' = At(ReplyAt) \cup {w} /\ box[w] = <<>>
            /\ \A v \in At(ReplyAt) : pc'[v] = pc[v] /\ endp[v] \in Clients /\ v \in Threads
        BY <2>0, <2>5, <3>1 DEF Greet, Goto, At, ReplyAt, HoldAt, Inv, TypeOK, Holding,
           ThreadsHold, BoxOfSession
      <3> QED
        BY <2>0, <3>1, <3>2, <3>3 DEF BoxOfSession, At
    <2>6. ASSUME NEW w \in Threads, Recv(w)
          PROVE  BoxOfSession'
      <3>1. /\ box[w] = <<endp[w]>> /\ st[endp[w]] = "replied" /\ pc[w] = "recv"
            /\ UNCHANGED <<endp, st, peer>>
        BY <2>0, <2>6 DEF Recv, BoxOfSession
      <3>2. /\ box'[w] = <<>> /\ \A v \in Threads \ {w} : box'[v] = box[v] /\ pc'[v] = pc[v]
            /\ At(ReplyAt)' = At(ReplyAt) \ {w}
        BY <2>6, <3>1 DEF Recv, Inv, TypeOK, At, ReplyAt
      <3> QED
        BY <2>0, <3>1, <3>2 DEF BoxOfSession, At
    <2>7. ASSUME NEW w \in Threads, Answer(w)
          PROVE  BoxOfSession'
      <3>1. /\ w \in At(HoldAt) /\ w \in At(GreetedAt) /\ Deliver(endp[w], w)
            /\ UNCHANGED <<box, endp>> /\ pc[w] = "answer"
        BY <2>7 DEF Answer, Goto, At, HoldAt, GreetedAt
      <3>2. endp[w] \in Clients /\ st[endp[w]] \in {"greeted", "replied"} /\ peer[endp[w]] = w
        BY <3>1 DEF Holding, HeldAreWaiting, ThreadsHold
      <3>3. st[endp[w]] = "replied"
        BY <2>0, <3>1, <3>2 DEF BoxOfSession, At, ReplyAt
      <3>4. /\ st'[endp[w]] = "answered" /\ peer' = peer
            /\ \A d \in Clients \ {endp[w]} : st'[d] = st[d]
        BY <3>1, <3>2, <3>3, DeliverHeld
      <3>5. At(ReplyAt)' = At(ReplyAt) /\ \A v \in At(ReplyAt) : pc'[v] = pc[v]
        BY <2>7, <3>1 DEF Answer, Goto, At, ReplyAt, Inv, TypeOK
      <3>6. \A v \in At(ReplyAt) : v \in Threads /\ endp[v] \in Clients \ {endp[w]}
        BY <3>1, <3>2 DEF Holding, OneHolder, ThreadsHold, At, ReplyAt, HoldAt
      <3> QED
        BY <2>0, <3>1, <3>2, <3>4, <3>5, <3>6 DEF BoxOfSession, At
    <2>8. ASSUME NEW c \in Clients, Hello(c)
          PROVE  BoxOfSession'
      <3>1. /\ UNCHANGED <<box, endp, pc, peer>> /\ st[c] = "away"
            /\ st'[c] = "waiting" /\ \A d \in Clients \ {c} : st'[d] = st[d]
        BY <2>8 DEF Hello, Inv, TypeOK
      <3>2. \A w \in At(ReplyAt) : w \in Threads /\ endp[w] \in Clients
        BY DEF Holding, ThreadsHold, At, ReplyAt, HoldAt
      <3> QED
        BY <2>0, <3>1, <3>2 DEF BoxOfSession, At
    <2>9. ASSUME NEW c \in Clients, Reply(c)
          PROVE  BoxOfSession'
      <3>1. /\ peer[c] \in Threads /\ pc[peer[c]] \in ReplyAt /\ endp[peer[c]] = c
            /\ st[c] = "greeted" /\ UNCHANGED <<endp, pc, peer>>
            /\ st'[c] = "replied" /\ \A d \in Clients \ {c} : st'[d] = st[d]
        BY <2>0, <2>9 DEF Reply, Inv, TypeOK, BoxOfSession, At
      <3>2. box[peer[c]] = <<>>
        BY <2>0, <3>1 DEF BoxOfSession
      <3>3. /\ box'[peer[c]] = <<c>>
            /\ \A v \in Threads \ {peer[c]} : box'[v] = box[v]
        BY <2>9, <3>1, <3>2 DEF Reply, Inv, TypeOK
      <3>4. \A w \in At(ReplyAt) : w \in Threads /\ endp[w] \in Clients
        BY DEF Holding, ThreadsHold, At, ReplyAt, HoldAt
      <3> QED
        BY <2>0, <3>1, <3>3, <3>4 DEF BoxOfSession, At
    <2> QED
      BY <2>0, <2>1, <2>2, <2>3, <2>4, <2>5, <2>6, <2>7, <2>8, <2>9
         DEF Next, Main, Thread, Shut, GreetFails, RecvFails, AnswerFails, Stray, HelloLost,
             ReplyLost
  <1> QED
    BY <1>1, <1>2, InvHolds, HoldingHolds, PTL DEF Spec

(* With BoxOfSession no thread ever finds another client's datagram.       *)
THEOREM SessionsSeparateHolds == Spec => []SessionsSeparate
  <1>1. BoxOfSession /\ Holding => SessionsSeparate
    BY DEF BoxOfSession, Holding, NoneRejected, SessionsSeparate, ReplyAt
  <1> QED
    BY <1>1, BoxHolds, HoldingHolds, PTL

-----------------------------------------------------------------------------
(* The refinement: the pool implements ClientService, over anything that   *)
(* may go wrong.                                                           *)

BackAt == {"unbusy", "refree", "count"}
Over == {"served", "lost"}

LEMMA StatusIs ==
  ASSUME NEW c \in Clients
  PROVE  /\ st[c] = "away" => Status[c] = "away"
         /\ st[c] = "answered" => Status[c] = "served"
         /\ st[c] \notin {"away", "answered"} =>
              Status[c] = IF Held(c) THEN "serving" ELSE IF Waits(c) THEN "waiting" ELSE "lost"
  BY DEF Status

LEMMA StatusNext ==
  ASSUME NEW c \in Clients
  PROVE  /\ st'[c] = "away" => Status'[c] = "away"
         /\ st'[c] = "answered" => Status'[c] = "served"
         /\ st'[c] \notin {"away", "answered"} =>
              Status'[c] = IF Held(c)' THEN "serving" ELSE IF Waits(c)' THEN "waiting" ELSE "lost"
  BY DEF Status

(* A client nothing happens to, other than a greeting or its reply.        *)
Calm(c) ==
  /\ st'[c] = "away" <=> st[c] = "away"
  /\ st'[c] = "answered" <=> st[c] = "answered"
  /\ Held(c)' <=> Held(c)
  /\ Waits(c)' <=> Waits(c)

LEMMA CalmKeeps ==
  ASSUME NEW c \in Clients, Calm(c)
  PROVE  Status'[c] = Status[c]
  BY StatusIs, StatusNext DEF Calm

LEMMA StatusSame ==
  ASSUME \A c \in Clients : Calm(c)
  PROVE  Status' = Status
  <1>1. \A c \in Clients : Status'[c] = Status[c]
    BY CalmKeeps
  <1> QED
    BY <1>1 DEF Status

(* A client whose status changes while all the others keep theirs.         *)
LEMMA StatusMoves ==
  ASSUME NEW c \in Clients, NEW to, Status'[c] = to, \A d \in Clients \ {c} : Calm(d)
  PROVE  Status' = [Status EXCEPT ![c] = to]
  <1>1. \A d \in Clients \ {c} : Status'[d] = Status[d]
    BY CalmKeeps
  <1>2. /\ Status = [d \in Clients |-> Status[d]]
        /\ Status' = [d \in Clients |-> Status'[d]]
    BY DEF Status
  <1> QED
    BY <1>1, <1>2

LEMMA CountsAreNumbers ==
  ASSUME NEW P
  PROVE  IsFiniteSet(At(P)) /\ Cardinality(At(P)) \in Nat
  <1>1. At(P) = Where(Threads, pc, P)
    BY DEF At, Where
  <1> QED
    BY <1>1, ConstantsAssumption, WhereFinite

(* Who is with main, in the queue or with a thread has said hello, and is  *)
(* in one of these places only.                                            *)
LEMMA Places ==
  ASSUME Inv, Holding, NEW c \in Clients
  PROVE  /\ Held(c) => st[c] \in {"waiting", "greeted", "replied"} /\ ~Waits(c)
         /\ Waits(c) => st[c] = "waiting"
  <1> USE DEF Holding
  <1>1. Waits(c) => st[c] = "waiting"
    BY ConstantsAssumption DEF Waits, Queued, HeldAreWaiting
  <1>2. ASSUME NEW w \in At(HoldAt), endp[w] = c
        PROVE  st[c] \in {"waiting", "greeted", "replied"} /\ ~Waits(c)
    <2>1. w \in At({"greet"}) \cup At(GreetedAt)
      BY <1>2 DEF At, HoldAt, GreetedAt
    <2>2. st[c] \in {"waiting", "greeted", "replied"}
      BY <1>2, <2>1 DEF HeldAreWaiting
    <2>3. ~Waits(c)
      BY <1>2 DEF OneHolder, Waits, Queued
    <2> QED
      BY <2>2, <2>3
  <1> QED
    BY <1>1, <1>2 DEF Held

(* Steps that leave every client where it is.                              *)
LEMMA NobodyMoves ==
  ASSUME UNCHANGED <<mendp, queue, inbox, endp>>, At(HoldAt)' = At(HoldAt),
         \A c \in Clients : /\ st'[c] = "away" <=> st[c] = "away"
                            /\ st'[c] = "answered" <=> st[c] = "answered"
  PROVE  Status' = Status
  <1>1. \A c \in Clients : Calm(c)
    BY DEF Calm, Held, Waits, Queued
  <1> QED
    BY <1>1, StatusSame

(* A thread is done with its client, one way or another.                   *)
LEMMA HolderDone ==
  ASSUME Inv, Holding, NEW w \in At(HoldAt), UNCHANGED <<mendp, queue, inbox, endp>>,
         At(HoldAt)' = At(HoldAt) \ {w}, \A d \in Clients \ {endp[w]} : st'[d] = st[d],
         st'[endp[w]] # "away", NEW to,
         to = IF st'[endp[w]] = "answered" THEN "served" ELSE "lost"
  PROVE  /\ endp[w] \in Clients /\ Status[endp[w]] = "serving"
         /\ Status' = [Status EXCEPT ![endp[w]] = to]
  <1> DEFINE c == endp[w]
  <1>1. c \in Clients /\ Held(c)
    BY DEF Holding, ThreadsHold, Held
  <1>2. \A v \in At(HoldAt) \ {w} : endp'[v] = endp[v] /\ endp[v] # c
    BY DEF Holding, OneHolder
  <1>3. ~Held(c)' /\ ~Waits(c)'
    <2>1. ~Waits(c)
      BY <1>1, Places
    <2> QED
      BY <1>2, <2>1 DEF Held, Waits, Queued
  <1>4. \A d \in Clients \ {c} : Calm(d)
    BY <1>2 DEF Calm, Held, Waits, Queued
  <1> HIDE DEF c
  <1>5. Status[c] = "serving"
    BY <1>1, Places, StatusIs
  <1>6. Status'[c] = to
    BY <1>1, <1>3, StatusNext DEF c
  <1> QED
    BY <1>1, <1>4, <1>5, <1>6, StatusMoves DEF c

(* What a step is to ClientService.                                        *)
Stay == Status' = Status /\ UNCHANGED <<served, Door>>
BackStays == Cardinality(At(BackAt))' = Cardinality(At(BackAt))
BackGrows == Cardinality(At(BackAt))' <= Cardinality(At(BackAt)) + 1
Comes == \E c \in Clients : Service!Arrive(c) \/ Service!Begin(c)
Leaves == \E c \in Clients : Service!Finish(c) \/ Service!Lose(c)

LEMMA DoorIs ==
  /\ (main # "down") <=> Service!Up
  /\ (main' = "down") <=> (Door' = "gone")
  /\ main # "down" /\ open => Door = "open"
  /\ UNCHANGED <<main, open>> => Door' = Door
  /\ main # "down" /\ main' # "down" /\ open' = open => Door' = Door
  BY DEF Door, Service!Up

(* Something has gone wrong, so something may.                             *)
LEMMA MishapsLose ==
  ASSUME Inv, Mishap \/ mishaps # 0
  PROVE  MaxMishaps > 0
  BY ConstantsAssumption DEF Inv, TypeOK, Mishap

(* recvfrom takes a client from the socket to main.                        *)
LEMMA ReceiveStays ==
  ASSUME Inv, NEW c \in Clients, Receive(c)
  PROVE  Stay /\ BackStays
  <1>1. /\ mendp = None /\ mendp' = c /\ c \in inbox /\ inbox' = inbox \ {c} /\ None \notin Clients
        /\ UNCHANGED <<queue, endp, pc, st, served, open>> /\ main # "down" /\ main' # "down"
    BY ConstantsAssumption DEF Receive, Inv, MainHolds
  <1>2. \A d \in Clients : Calm(d)
    BY <1>1 DEF Calm, Held, Waits, Queued, At
  <1> QED
    BY <1>1, <1>2, StatusSame, DoorIs DEF Stay, BackStays, At

(* mq_send moves main's client to the queue.                               *)
LEMMA SendStays ==
  ASSUME Inv, Send
  PROVE  Stay /\ BackStays
  <1>1. /\ mendp \in Clients /\ mendp' = None /\ None \notin Clients
        /\ queue \in Seq(Clients) /\ queue' = Append(queue, mendp)
        /\ UNCHANGED <<inbox, endp, pc, st, served, open>> /\ main # "down" /\ main' # "down"
    BY ConstantsAssumption DEF Send, Inv, MainHolds, TypeOK, net
  <1>2. /\ DOMAIN queue' = DOMAIN queue \cup {Len(queue) + 1}
        /\ queue'[Len(queue) + 1] = mendp
        /\ \A i \in DOMAIN queue : queue'[i] = queue[i]
    BY <1>1, QueueEnds
  <1>3. \A d \in Clients : Queued(d)' <=> Queued(d) \/ d = mendp
    BY <1>2 DEF Queued
  <1>4. \A d \in Clients : Calm(d)
    BY <1>1, <1>3 DEF Calm, Held, Waits, At
  <1> QED
    BY <1>1, <1>4, StatusSame, DoorIs DEF Stay, BackStays, At

(* mq_receive hands the first client of the queue to one thread.           *)
LEMMA TakeBegins ==
  ASSUME Inv, Holding, NEW w \in Threads, Take(w)
  PROVE  Comes /\ BackStays
  <1>0. queue \in Seq(Clients) /\ queue # <<>> /\ 1 \in DOMAIN queue /\ queue[1] \in Clients
    BY QueueEnds DEF Take, Inv, TypeOK
  <1> PICK c \in Clients : c = queue[1]
    BY <1>0
  <1>1. /\ queue' = Tail(queue)
        /\ UNCHANGED <<mendp, inbox, st, served, main, open>>
        /\ endp'[w] = c
        /\ \A v \in Threads \ {w} : endp'[v] = endp[v]
    BY <1>0, QueueEnds DEF Take, Inv, TypeOK, net
  <1>2. /\ At(HoldAt)' = At(HoldAt) \cup {w} /\ w \notin At(HoldAt)
        /\ At(HoldAt) \subseteq Threads
    BY DEF Take, Goto, Inv, TypeOK, At, HoldAt
  <1>3. BackStays
    BY GotoCounts DEF Take, Inv, BackAt, BackStays
  <1>4. main # "down"
    BY ThreadsRunUp DEF Thread
  <1>5. Waits(c) /\ ~Held(c) /\ st[c] = "waiting"
    <2>1. Waits(c)
      BY <1>0 DEF Waits, Queued
    <2> QED
      BY <2>1, Places
  <1>6. Held(c)'
    BY <1>1, <1>2 DEF Held
  <1>7. \A d \in Clients \ {c} : Calm(d)
    <2> SUFFICES ASSUME NEW d \in Clients \ {c} PROVE Calm(d)
      OBVIOUS
    <2>1. Held(d)' <=> Held(d)
      BY <1>1, <1>2 DEF Held
    <2>2. Queued(d) => Queued(d)'
      <3> SUFFICES ASSUME NEW i \in DOMAIN queue, queue[i] = d PROVE Queued(d)'
        BY DEF Queued
      <3>1. i - 1 \in DOMAIN queue' /\ queue'[i - 1] = queue[i]
        BY <1>0, <1>1
      <3> QED
        BY <3>1 DEF Queued
    <2>3. Queued(d)' => Queued(d)
      BY <1>0, <1>1, QueueEnds DEF Queued
    <2> QED
      BY <1>1, <2>1, <2>2, <2>3 DEF Calm, Waits
  <1>8. Status[c] = "waiting" /\ Status'[c] = "serving"
    BY <1>1, <1>5, <1>6, StatusIs, StatusNext
  <1>9. Status' = [Status EXCEPT ![c] = "serving"]
    BY <1>1, <1>7, <1>8, StatusMoves
  <1>10. Service!Begin(c)
    BY <1>1, <1>4, <1>8, <1>9, DoorIs DEF Service!Begin, Service!Move
  <1> QED
    BY <1>1, <1>3, <1>10 DEF Comes

(* sendto of the greeting changes what the client does next, not where it  *)
(* stands.                                                                 *)
LEMMA GreetStays ==
  ASSUME Inv, Holding, NEW w \in Threads, Greet(w)
  PROVE  Stay /\ BackStays
  <1>1. /\ w \in At(HoldAt) /\ Deliver(endp[w], w) /\ st[endp[w]] = "waiting"
        /\ UNCHANGED <<mendp, queue, inbox, endp, served, main, open>>
    BY DEF Greet, Goto, At, HoldAt, Holding, HeldAreWaiting, server
  <1>2. At(HoldAt)' = At(HoldAt)
    BY DEF Greet, Goto, Inv, TypeOK, At, HoldAt
  <1>3. BackStays
    BY GotoCounts DEF Greet, Inv, BackAt, BackStays
  <1>4. /\ st'[endp[w]] = "greeted" /\ endp[w] \in Clients
        /\ \A d \in Clients \ {endp[w]} : st'[d] = st[d]
    BY <1>1, DeliverHeld
  <1> QED
    BY <1>1, <1>2, <1>3, <1>4, NobodyMoves, DoorIs DEF Stay

(* A thread leaves its client unserved: a sendto or a recvfrom has failed, *)
(* or somebody else's datagram has come.                                   *)
LEMMA FailsLose ==
  ASSUME Inv, Holding, BoxOfSession, NEW w \in Threads,
         \/ GreetFails(w) \/ RecvFails(w) \/ AnswerFails(w)
         \/ (Recv(w) /\ Head(box[w]) # endp[w])
  PROVE  Leaves /\ BackGrows
  <1>1. /\ w \in At(HoldAt) /\ At(HoldAt)' = At(HoldAt) \ {w}
        /\ UNCHANGED <<mendp, queue, inbox, endp, st, served, main, open>>
    BY DEF GreetFails, RecvFails, AnswerFails, Recv, Goto, Inv, TypeOK, At, HoldAt, server, net
  <1>2. endp[w] \in Clients /\ st[endp[w]] \notin {"away", "answered"}
    <2>1. endp[w] \in Clients /\ Held(endp[w])
      BY <1>1 DEF Holding, ThreadsHold, Held
    <2> QED
      BY <2>1, Places
  <1>3. MaxMishaps > 0
    <2>1. CASE Recv(w) /\ Head(box[w]) # endp[w]
      <3>1. box[w] # <<>> /\ box[w] # <<endp[w]>>
        BY <2>1 DEF Recv
      <3> QED
        BY <3>1, MishapsLose DEF BoxOfSession
    <2>2. CASE GreetFails(w) \/ RecvFails(w) \/ AnswerFails(w)
      BY <2>2, MishapsLose DEF GreetFails, RecvFails, AnswerFails
    <2> QED
      BY <2>1, <2>2
  <1>4. Status[endp[w]] = "serving" /\ Status' = [Status EXCEPT ![endp[w]] = "lost"]
    BY <1>1, <1>2, HolderDone
  <1>5. main # "down"
    BY ThreadsRunUp DEF Thread
  <1>6. Service!Lose(endp[w])
    BY <1>1, <1>3, <1>4, <1>5, DoorIs DEF Service!Lose, Service!Move
  <1>7. Cardinality(At(BackAt)) \in Nat
    BY CountsAreNumbers
  <1>8. BackGrows
    <2>1. CASE GreetFails(w) \/ RecvFails(w) \/ AnswerFails(w)
      BY <1>7, <2>1, GotoCounts DEF GreetFails, RecvFails, AnswerFails, Inv, BackAt, BackGrows
    <2>2. CASE Recv(w) /\ Head(box[w]) # endp[w]
      <3>1. Goto(w, "recv", "unbusy")
        BY <2>2 DEF Recv, Goto
      <3> QED
        BY <1>7, <3>1, GotoCounts DEF Inv, BackAt, BackGrows
    <2> QED
      BY <2>1, <2>2
  <1> QED
    BY <1>2, <1>6, <1>8 DEF Leaves

(* sendto of the answer finishes a client that has replied.  One that has  *)
(* not, because the reply came from an earlier session, is lost.           *)
LEMMA AnswerFinishes ==
  ASSUME Inv, Holding, BoxOfSession, NEW w \in Threads, Answer(w)
  PROVE  Leaves /\ BackGrows
  <1>1. /\ w \in At(HoldAt) /\ w \in At(GreetedAt) /\ At(HoldAt)' = At(HoldAt) \ {w}
        /\ Deliver(endp[w], w) /\ pc[w] = "answer"
        /\ UNCHANGED <<mendp, queue, inbox, endp, served, main, open>>
    BY DEF Answer, Goto, Inv, TypeOK, At, HoldAt, GreetedAt, server
  <1>2. endp[w] \in Clients /\ st[endp[w]] \in {"greeted", "replied"} /\ peer[endp[w]] = w
    BY <1>1 DEF Holding, HeldAreWaiting, ThreadsHold
  <1>3. \A d \in Clients \ {endp[w]} : st'[d] = st[d]
    BY <1>1, DeliverHeld
  <1>4. main # "down"
    BY ThreadsRunUp DEF Thread
  <1>5. BackGrows
    <2>1. Cardinality(At(BackAt)) \in Nat
      BY CountsAreNumbers
    <2> QED
      BY <2>1, GotoCounts DEF Answer, Inv, BackAt, BackGrows
  <1>6. CASE st[endp[w]] = "replied"
    <2>1. st'[endp[w]] = "answered"
      BY <1>1, <1>2, <1>6, DeliverHeld
    <2>2. Status[endp[w]] = "serving" /\ Status' = [Status EXCEPT ![endp[w]] = "served"]
      BY <1>1, <1>3, <2>1, HolderDone
    <2>3. Service!Finish(endp[w])
      BY <1>1, <1>4, <2>2, DoorIs DEF Service!Finish, Service!Move
    <2> QED
      BY <1>2, <1>5, <2>3 DEF Leaves
  <1>7. CASE st[endp[w]] = "greeted"
    <2>1. st'[endp[w]] = "greeted"
      BY <1>1, <1>2, <1>7, DeliverHeld
    <2>2. Status[endp[w]] = "serving" /\ Status' = [Status EXCEPT ![endp[w]] = "lost"]
      BY <1>1, <1>3, <2>1, HolderDone
    <2>3. mishaps # 0
      BY <1>1, <1>2, <1>7 DEF BoxOfSession, At, ReplyAt
    <2>4. Service!Lose(endp[w])
      BY <1>1, <1>4, <2>2, <2>3, MishapsLose, DoorIs DEF Service!Lose, Service!Move
    <2> QED
      BY <1>2, <1>5, <2>4 DEF Leaves
  <1> QED
    BY <1>2, <1>6, <1>7

(* A client's first datagram reaches the listening socket.                 *)
LEMMA HelloArrives ==
  ASSUME Inv, Holding, NEW c \in Clients, Hello(c), open
  PROVE  Comes /\ BackStays
  <1>1. /\ UNCHANGED <<mendp, queue, endp, pc, served, main, open>> /\ main # "down"
        /\ inbox' = inbox \cup {c} /\ st[c] = "away" /\ st'[c] = "waiting"
        /\ \A d \in Clients \ {c} : st'[d] = st[d]
    BY DEF Hello, Inv, TypeOK, server
  <1>2. ~Held(c) /\ ~Waits(c)
    BY <1>1, Places
  <1>3. ~Held(c)' /\ Waits(c)'
    BY <1>1, <1>2 DEF Held, Waits, Queued, At
  <1>4. \A d \in Clients \ {c} : Calm(d)
    BY <1>1 DEF Calm, Held, Waits, Queued, At
  <1>5. Status[c] = "away" /\ Status'[c] = "waiting"
    BY <1>1, <1>3, StatusIs, StatusNext
  <1>6. Status' = [Status EXCEPT ![c] = "waiting"]
    BY <1>4, <1>5, StatusMoves
  <1>7. Service!Arrive(c)
    BY <1>1, <1>5, <1>6, DoorIs DEF Service!Arrive, Service!Move
  <1> QED
    BY <1>1, <1>7 DEF Comes, BackStays, At

(* A first datagram that is dropped, or sent to a closed socket, leaves    *)
(* its client to wait for nothing.                                         *)
LEMMA HelloLostLoses ==
  ASSUME Inv, Holding, NEW c \in Clients, HelloLost(c) \/ (Hello(c) /\ ~open)
  PROVE  Leaves /\ BackGrows
  <1>1. /\ UNCHANGED <<mendp, queue, inbox, endp, pc, served, main, open>> /\ main # "down"
        /\ st[c] = "away" /\ st'[c] = "waiting"
        /\ \A d \in Clients \ {c} : st'[d] = st[d]
    BY DEF Hello, HelloLost, Inv, TypeOK, server
  <1>2. ~Held(c) /\ ~Waits(c)
    BY <1>1, Places
  <1>3. ~Held(c)' /\ ~Waits(c)'
    BY <1>1, <1>2 DEF Held, Waits, Queued, At
  <1>4. \A d \in Clients \ {c} : Calm(d)
    BY <1>1 DEF Calm, Held, Waits, Queued, At
  <1>5. Status[c] = "away" /\ Status'[c] = "lost"
    BY <1>1, <1>3, StatusIs, StatusNext
  <1>6. Status' = [Status EXCEPT ![c] = "lost"]
    BY <1>4, <1>5, StatusMoves
  <1>7. MaxMishaps > 0
    BY MishapsLose DEF HelloLost, Inv, ClosedByMishap
  <1>8. Service!Lose(c)
    BY <1>1, <1>5, <1>6, <1>7, DoorIs DEF Service!Lose, Service!Move
  <1>9. At(BackAt)' = At(BackAt) /\ Cardinality(At(BackAt)) \in Nat
    BY <1>1, CountsAreNumbers DEF At
  <1> QED
    BY <1>8, <1>9 DEF Leaves, BackGrows

(* The end of the process loses the clients it was with.  Those in the     *)
(* queue go on waiting, and the next process finds them there.             *)
LEMMA ExitEnds ==
  ASSUME Inv, Holding, Exit
  PROVE  Service!End
  <1> DEFINE L == {c \in Clients : Status[c] \in {"waiting", "serving"} /\ ~Queued(c)}
  <1>1. /\ main # "down" /\ main' = "down" /\ UNCHANGED <<served, queue>>
        /\ inbox' = {} /\ mendp' = None /\ At(HoldAt)' = {} /\ None \notin Clients
        /\ \A c \in Clients : /\ st'[c] = "away" <=> st[c] = "away"
                              /\ st'[c] = "answered" <=> st[c] = "answered"
    BY ConstantsAssumption DEF Exit, At, HoldAt
  <1>2. \A c \in Clients : ~Held(c)' /\ (Waits(c)' <=> Queued(c)) /\ (Queued(c) => Waits(c))
    BY <1>1 DEF Held, Waits, Queued
  <1>3. ASSUME NEW c \in Clients
        PROVE  /\ Status'[c] = IF c \in L THEN "lost" ELSE Status[c]
               /\ c \notin L => Status[c] # "serving"
    <2>1. CASE st[c] \in {"away", "answered"}
      <3>1. Status[c] \in {"away", "served"} /\ Status'[c] = Status[c]
        BY <1>1, <2>1, StatusIs, StatusNext
      <3> QED
        BY <3>1
    <2>2. CASE st[c] \notin {"away", "answered"}
      <3>1. Status[c] = IF Held(c) THEN "serving" ELSE IF Waits(c) THEN "waiting" ELSE "lost"
        BY <2>2, StatusIs
      <3>2. Status'[c] = IF Queued(c) THEN "waiting" ELSE "lost"
        BY <1>1, <1>2, <2>2, StatusNext
      <3>3. Queued(c) => ~Held(c) /\ Waits(c)
        BY <1>2, Places
      <3> QED
        BY <3>1, <3>2, <3>3
    <2> QED
      BY <2>1, <2>2
  <1> HIDE DEF L
  <1>4. Status' = [c \in Clients |-> Status'[c]]
    BY DEF Status
  <1>5. Status' = [c \in Clients |-> IF c \in L THEN "lost" ELSE Status[c]]
    BY <1>3, <1>4
  <1>6. L \in SUBSET {c \in Clients : Status[c] \in {"waiting", "serving"}}
    BY DEF L
  <1>7. \A c \in Clients \ L : Status[c] # "serving"
    BY <1>3
  <1> QED
    BY <1>1, <1>5, <1>6, <1>7, DoorIs DEF Service!End, Door

(* exit() in a thread of the TCP side loses who waits at the socket.       *)
LEMMA ShutShuts ==
  ASSUME Inv, Holding, Shut
  PROVE  Service!Shut /\ BackStays /\ UNCHANGED <<main, served>>
  <1>1. /\ UNCHANGED <<main, pc, mendp, queue, endp, st, served>> /\ inbox' = {}
        /\ Door = "open" /\ Door' = "closed"
        /\ At(HoldAt)' = At(HoldAt) /\ At(BackAt)' = At(BackAt)
    BY DEF Shut, server, Door, At
  <1>2. \A c \in Clients : Held(c)' <=> Held(c)
    BY <1>1 DEF Held
  <1>3. ASSUME NEW c \in inbox
        PROVE  c \in Clients /\ Status[c] = "waiting" /\ Status'[c] = "lost"
    <2>1. c \in Clients /\ Waits(c)
      BY DEF Inv, TypeOK, Waits
    <2>2. ~Waits(c)'
      BY <1>1 DEF Holding, OneHolder, Waits, Queued
    <2>3. st[c] = "waiting" /\ st'[c] = "waiting" /\ ~Held(c) /\ ~Held(c)'
      BY <1>1, <1>2, <2>1, Places
    <2>4. Status[c] = "waiting"
      BY <2>1, <2>3, StatusIs
    <2>5. Status'[c] = "lost"
      BY <2>1, <2>2, <2>3, StatusNext
    <2> QED
      BY <2>1, <2>4, <2>5
  <1>4. ASSUME NEW c \in Clients \ inbox
        PROVE  Status'[c] = Status[c]
    <2>1. Waits(c)' <=> Waits(c)
      BY <1>1, <1>4 DEF Waits, Queued
    <2>2. Calm(c)
      BY <1>1, <1>2, <2>1 DEF Calm
    <2> QED
      BY <2>2, CalmKeeps
  <1>5. inbox \in SUBSET {c \in Clients : Status[c] = "waiting"}
    BY <1>3
  <1>6. Status' = [c \in Clients |-> Status'[c]]
    BY DEF Status
  <1>7. Status' = [c \in Clients |-> IF c \in inbox THEN "lost" ELSE Status[c]]
    BY <1>3, <1>4, <1>6
  <1> QED
    BY <1>1, <1>5, <1>7 DEF Service!Shut, BackStays

LEMMA RestartStarts ==
  ASSUME Inv, NEW S \in SUBSET Threads, Restart(S)
  PROVE  Service!Start /\ BackStays
  <1>1. /\ UNCHANGED <<mendp, queue, inbox, endp, st>>
        /\ At(HoldAt)' = At(HoldAt) /\ At(BackAt)' = At(BackAt)
        /\ main = "down" /\ main' = "poll" /\ served' = 0
    BY DEF Restart, CreateThreads, net, At, HoldAt, BackAt
  <1>2. Status' = Status
    BY <1>1, NobodyMoves
  <1>3. ~Service!Up /\ Door' = "open"
    BY <1>1 DEF Restart, Inv, DownIsEmpty, Door, Service!Up
  <1> QED
    BY <1>1, <1>2, <1>3 DEF Service!Start, BackStays

(* Every step but a report, the end and the start of a process.            *)
LEMMA QuietStays ==
  ASSUME Inv,
         \/ Poll \/ CheckFree \/ CheckBusy \/ PollNothing \/ UNCHANGED vars
         \/ \E S \in SUBSET Threads : Grow(S)
         \/ \E w \in Threads : \/ Ready(w) \/ LeaveFree(w) \/ JoinBusy(w) \/ LeaveBusy(w)
                               \/ JoinFree(w) \/ Stray(w)
                               \/ (Recv(w) /\ Head(box[w]) = endp[w])
         \/ \E c \in Clients : Reply(c) \/ ReplyLost(c)
  PROVE  Stay /\ BackStays
  <1> USE DEF server, net
  <1>1. ASSUME UNCHANGED <<mendp, queue, inbox, endp, served>>,
               At(HoldAt)' = At(HoldAt), At(BackAt)' = At(BackAt),
               open' = open, main' = main \/ (main # "down" /\ main' # "down"),
               \A c \in Clients : /\ st'[c] = "away" <=> st[c] = "away"
                                  /\ st'[c] = "answered" <=> st[c] = "answered"
        PROVE  Stay /\ BackStays
    BY <1>1, NobodyMoves, DoorIs DEF Stay, BackStays
  <1>2. CASE Poll \/ CheckFree \/ CheckBusy \/ PollNothing \/ UNCHANGED vars
    BY <1>1, <1>2 DEF Poll, CheckFree, CheckBusy, PollNothing, vars, At
  <1>3. ASSUME NEW S \in SUBSET Threads, Grow(S)
        PROVE  Stay /\ BackStays
    <2>1. At(HoldAt)' = At(HoldAt) /\ At(BackAt)' = At(BackAt)
      BY <1>3 DEF Grow, CreateThreads, At, HoldAt, BackAt
    <2> QED
      BY <1>1, <1>3, <2>1 DEF Grow
  <1>4. ASSUME NEW w \in Threads,
               \/ Ready(w) \/ LeaveFree(w) \/ JoinBusy(w) \/ LeaveBusy(w) \/ JoinFree(w) \/ Stray(w)
               \/ (Recv(w) /\ Head(box[w]) = endp[w])
        PROVE  Stay /\ BackStays
    <2>1. At(HoldAt)' = At(HoldAt) /\ At(BackAt)' = At(BackAt)
      BY <1>4 DEF Ready, LeaveFree, JoinBusy, LeaveBusy, JoinFree, Stray, Recv, Goto, At, HoldAt,
         BackAt, Inv, TypeOK
    <2> QED
      BY <1>1, <1>4, <2>1 DEF Ready, LeaveFree, JoinBusy, LeaveBusy, JoinFree, Stray, Recv
  <1>5. ASSUME NEW c \in Clients, Reply(c) \/ ReplyLost(c)
        PROVE  Stay /\ BackStays
    <2>1. \A d \in Clients : /\ st'[d] = "away" <=> st[d] = "away"
                             /\ st'[d] = "answered" <=> st[d] = "answered"
      BY <1>5 DEF Reply, ReplyLost, Inv, TypeOK
    <2> QED
      BY <1>1, <1>5, <2>1 DEF Reply, ReplyLost, At
  <1> QED
    BY <1>2, <1>3, <1>4, <1>5

(* What the steps of the pool are to ClientService.                        *)
Kinds ==
  \/ (Stay \/ Comes) /\ BackStays
  \/ Leaves /\ BackGrows
  \/ Shut \/ Exit
  \/ \E w \in Threads : Count(w)
  \/ \E S \in SUBSET Threads : Restart(S)

LEMMA NextKinds ==
  ASSUME Inv, Holding, BoxOfSession, [Next]_vars
  PROVE  Kinds
  <1>1. CASE \/ Poll \/ CheckFree \/ CheckBusy \/ PollNothing \/ UNCHANGED vars
             \/ \E S \in SUBSET Threads : Grow(S)
    BY <1>1, QuietStays DEF Kinds
  <1>2. CASE Send \/ \E c \in Clients : Receive(c)
    BY <1>2, SendStays, ReceiveStays DEF Kinds
  <1>3. ASSUME NEW w \in Threads,
               \/ Ready(w) \/ LeaveFree(w) \/ JoinBusy(w) \/ LeaveBusy(w) \/ JoinFree(w) \/ Stray(w)
        PROVE  Kinds
    BY <1>3, QuietStays DEF Kinds
  <1>4. ASSUME NEW w \in Threads, Recv(w)
        PROVE  Kinds
    <2>1. CASE Head(box[w]) = endp[w]
      BY <1>4, <2>1, QuietStays DEF Kinds
    <2>2. CASE Head(box[w]) # endp[w]
      BY <1>4, <2>2, FailsLose DEF Kinds
    <2> QED
      BY <2>1, <2>2
  <1>5. ASSUME NEW w \in Threads,
               Take(w) \/ Greet(w) \/ Answer(w) \/ GreetFails(w) \/ RecvFails(w) \/ AnswerFails(w)
        PROVE  Kinds
    BY <1>5, TakeBegins, GreetStays, AnswerFinishes, FailsLose DEF Kinds
  <1>6. ASSUME NEW c \in Clients, Hello(c) \/ HelloLost(c)
        PROVE  Kinds
    BY <1>6, HelloArrives, HelloLostLoses DEF Kinds
  <1>7. ASSUME NEW c \in Clients, Reply(c) \/ ReplyLost(c)
        PROVE  Kinds
    BY <1>7, QuietStays DEF Kinds
  <1>8. CASE Shut \/ Exit \/ \E S \in SUBSET Threads : Restart(S)
    BY <1>8 DEF Kinds
  <1>9. ASSUME NEW w \in Threads, Count(w)
        PROVE  Kinds
    BY <1>9 DEF Kinds
  <1> QED
    BY <1>1, <1>2, <1>3, <1>4, <1>5, <1>6, <1>7, <1>8, <1>9 DEF Next, Main, Thread

(* What has been counted, and the threads that have yet to count, are      *)
(* covered by clients that were answered or lost.                          *)
Counted == IF main = "down" THEN 0 ELSE served
Done == Where(Clients, Status, Over)
TallyCovered == Counted + Cardinality(At(BackAt)) <= Cardinality(Done)

(* A step of ClientService ends one client at most, and one when it says   *)
(* so.                                                                     *)
LEMMA DoneMoves ==
  /\ Status' = Status => Cardinality(Done)' = Cardinality(Done)
  /\ Comes => Cardinality(Done)' = Cardinality(Done)
  /\ Leaves => Cardinality(Done)' = Cardinality(Done) + 1
  <1>1. ASSUME NEW c \in Clients, NEW to, Status' = [Status EXCEPT ![c] = to]
        PROVE  SameBut(Clients, Status, Status', c) /\ Status'[c] = to
    BY <1>1 DEF Status, SameBut
  <1>2. IsFiniteSet(Clients)
    BY ConstantsAssumption
  <1>3. ASSUME NEW c \in Clients, Service!Arrive(c) \/ Service!Begin(c)
        PROVE  Cardinality(Where(Clients, Status', Over)) = Cardinality(Where(Clients, Status, Over))
    <2>1. /\ SameBut(Clients, Status, Status', c)
          /\ Status[c] \notin Over /\ Status'[c] \notin Over
      BY <1>1, <1>3 DEF Service!Arrive, Service!Begin, Service!Move, Over
    <2> QED
      BY <1>2, <2>1, MoveOne
  <1>4. ASSUME NEW c \in Clients, Service!Finish(c) \/ Service!Lose(c)
        PROVE  Cardinality(Where(Clients, Status', Over)) = Cardinality(Where(Clients, Status, Over)) + 1
    <2>1. /\ SameBut(Clients, Status, Status', c)
          /\ Status[c] \notin Over /\ Status'[c] \in Over
      BY <1>1, <1>4 DEF Service!Finish, Service!Lose, Service!Move, Over
    <2> QED
      BY <1>2, <2>1, MoveOne
  <1>5. Done' = Where(Clients, Status', Over)
    BY DEF Done, Where
  <1> QED
    BY <1>3, <1>4, <1>5 DEF Done, Comes, Leaves

(* What a thread counts is covered.                                        *)
LEMMA CountReports ==
  ASSUME Inv, TallyCovered, NEW w \in Threads, Count(w)
  PROVE  /\ Service!Report /\ Counted = served /\ Counted' = served'
         /\ Status' = Status /\ served' = served + 1
         /\ Cardinality(At(BackAt))' = Cardinality(At(BackAt)) - 1
  <1>1. /\ UNCHANGED <<mendp, queue, inbox, endp, st, main, open>> /\ served' = served + 1
        /\ At(HoldAt)' = At(HoldAt) /\ main # "down" /\ w \in At(BackAt)
    BY ThreadsRunUp DEF Thread, Count, Goto, Inv, TypeOK, At, HoldAt, BackAt, net
  <1>2. Status' = Status
    BY <1>1, NobodyMoves
  <1>3. Cardinality(At(BackAt))' = Cardinality(At(BackAt)) - 1
    BY GotoCounts DEF Count, Inv, BackAt
  <1>4. Cardinality(At(BackAt)) \in Nat /\ Cardinality(At(BackAt)) # 0
    BY <1>1, CountsAreNumbers, FS_EmptySet
  <1>5. IsFiniteSet(Done) /\ Cardinality(Done) \in Nat /\ served \in Nat
    BY ConstantsAssumption, WhereFinite DEF Done, Inv, TypeOK
  <1>6. served < Cardinality(Done)
    BY <1>1, <1>4, <1>5 DEF TallyCovered, Counted
  <1>7. Done = {c \in Clients : Status[c] \in {"served", "lost"}}
    BY DEF Done, Where, Over
  <1>8. \A S : Service!Cardinality(S) = Cardinality(S)
    BY DEF Service!Cardinality, Cardinality
  <1>9. Service!Report
    BY <1>1, <1>2, <1>6, <1>7, <1>8, DoorIs DEF Service!Report
  <1> QED
    BY <1>1, <1>2, <1>3, <1>9 DEF Counted

LEMMA TallyCoveredHolds == Spec => []TallyCovered
  <1>1. Init => TallyCovered
    <2> SUFFICES ASSUME Init PROVE TallyCovered
      OBVIOUS
    <2>1. At(BackAt) = {} /\ Counted = 0
      BY DEF Init, PoolInit, At, BackAt, Counted
    <2>2. Cardinality(Done) \in Nat
      BY ConstantsAssumption, WhereFinite DEF Done
    <2> QED
      BY <2>1, <2>2, FS_EmptySet DEF TallyCovered
  <1>2. ASSUME Inv, Holding, TallyCovered, Kinds
        PROVE  TallyCovered'
    <2>1. PICK done \in Nat, back \in Nat, over \in Nat :
             /\ Counted = done /\ Cardinality(At(BackAt)) = back /\ Cardinality(Done) = over
      <3>1. Counted \in Nat
        BY <1>2 DEF Counted, Inv, TypeOK
      <3>2. Cardinality(Done) \in Nat
        BY ConstantsAssumption, WhereFinite DEF Done
      <3> QED
        BY <3>1, <3>2, CountsAreNumbers
    <2>2. done + back <= over
      BY <1>2, <2>1 DEF TallyCovered
    <2>3. PICK backNext \in Nat, overNext \in Nat :
             Cardinality(At(BackAt))' = backNext /\ Cardinality(Done)' = overNext
      <3>1. Cardinality(Where(Threads, pc', BackAt)) \in Nat
        BY ConstantsAssumption, WhereFinite
      <3>2. Cardinality(Where(Clients, Status', Over)) \in Nat
        BY ConstantsAssumption, WhereFinite
      <3> QED
        BY <3>1, <3>2 DEF At, Done, Where
    <2>4. CASE (Stay \/ Comes) /\ BackStays
      <3>1. Counted' = done
        BY <2>1, <2>4, DoorIs DEF Stay, Comes, Counted, Service!Arrive, Service!Begin,
           Service!Move, Service!Up
      <3>2. backNext = back /\ overNext = over
        BY <2>1, <2>3, <2>4, DoneMoves DEF Stay, BackStays
      <3> QED
        BY <2>2, <2>3, <3>1, <3>2 DEF TallyCovered
    <2>5. CASE Leaves /\ BackGrows
      <3>1. Counted' = done
        BY <2>1, <2>5, DoorIs DEF Leaves, Counted, Service!Finish, Service!Lose, Service!Move,
           Service!Up
      <3>2. backNext <= back + 1 /\ overNext = over + 1
        BY <2>1, <2>3, <2>5, DoneMoves DEF BackGrows
      <3> QED
        BY <2>2, <2>3, <3>1, <3>2 DEF TallyCovered
    <2>6. CASE Exit
      <3>1. Counted' = 0 /\ At(BackAt)' = {}
        BY <2>6 DEF Exit, At, BackAt, Counted
      <3>2. backNext = 0
        BY <2>3, <3>1, FS_EmptySet
      <3> QED
        BY <2>3, <3>1, <3>2 DEF TallyCovered
    <2>7. ASSUME NEW w \in Threads, Count(w)
          PROVE  TallyCovered'
      <3>1. Counted' = done + 1
        BY <1>2, <2>1, <2>7, CountReports
      <3>2. backNext = back - 1
        BY <1>2, <2>1, <2>3, <2>7, CountReports
      <3>3. overNext = over
        BY <1>2, <2>1, <2>3, <2>7, CountReports, DoneMoves
      <3> QED
        BY <2>2, <2>3, <3>1, <3>2, <3>3 DEF TallyCovered
    <2>9. CASE Shut
      <3>1. Counted' = done /\ Service!Shut
        BY <1>2, <2>1, <2>9, ShutShuts DEF Counted
      <3>2. backNext = back
        BY <1>2, <2>1, <2>3, <2>9, ShutShuts DEF BackStays
      <3>3. over <= overNext
        <4>1. PICK L \in SUBSET {c \in Clients : Status[c] = "waiting"} :
                 Status' = [c \in Clients |-> IF c \in L THEN "lost" ELSE Status[c]]
          BY <3>1 DEF Service!Shut
        <4>2. Where(Clients, Status, Over) \subseteq Where(Clients, Status', Over)
          BY <4>1 DEF Where, Over
        <4>3. Done \subseteq Done'
          BY <4>2 DEF Done, Where
        <4>4. IsFiniteSet(Done')
          BY ConstantsAssumption, FS_Subset DEF Done, Where
        <4> QED
          BY <2>1, <2>3, <4>3, <4>4, FS_Subset
      <3> QED
        BY <2>2, <2>3, <3>1, <3>2, <3>3 DEF TallyCovered
    <2>8. ASSUME NEW S \in SUBSET Threads, Restart(S)
          PROVE  TallyCovered'
      <3>1. Counted' = 0 /\ Counted = 0
        BY <2>8 DEF Restart, Counted
      <3>2. backNext = back
        BY <1>2, <2>1, <2>3, <2>8, RestartStarts DEF BackStays
      <3>3. overNext = over
        BY <1>2, <2>1, <2>3, <2>8, RestartStarts, DoneMoves DEF Service!Start
      <3> QED
        BY <2>1, <2>2, <2>3, <3>1, <3>2, <3>3 DEF TallyCovered
    <2> QED
      BY <1>2, <2>4, <2>5, <2>6, <2>7, <2>8, <2>9 DEF Kinds
  <1>3. Inv /\ Holding /\ BoxOfSession /\ [Next]_vars => Kinds
    BY NextKinds
  <1> QED
    BY <1>1, <1>2, <1>3, InvHolds, HoldingHolds, BoxHolds, PTL DEF Spec

(* A client arrives with its first datagram, is taken by one thread and    *)
(* is finished by the answer or lost with a failed call, a stray datagram, *)
(* a dropped one or the end of the process, and by nothing else: without   *)
(* such mishaps none is lost.  udp_served_clients counts sessions, and     *)
(* never more of them than there were.                                     *)
THEOREM PoolImplementsService == Spec => ImplementsService
  <1>1. Init => Service!Init
    <2> SUFFICES ASSUME Init PROVE Service!Init
      OBVIOUS
    <2>1. st = [c \in Clients |-> "away"] /\ served = 0 /\ Door = "open"
      BY DEF Init, PoolInit, Door
    <2> QED
      BY <2>1 DEF Status, Service!Init
  <1>2. ASSUME Inv, TallyCovered, Exit => Service!End, Shut => Service!Shut, Kinds
        PROVE  [Service!Next]_(Service!vars)
    <2>1. CASE Stay
      BY <2>1 DEF Stay, Service!vars
    <2>2. CASE Comes \/ Leaves
      BY <2>2 DEF Comes, Leaves, Service!Next
    <2>3. ASSUME NEW w \in Threads, Count(w)
          PROVE  Service!Next
      BY <1>2, <2>3, CountReports DEF Service!Next
    <2>4. ASSUME NEW S \in SUBSET Threads, Restart(S)
          PROVE  Service!Next
      BY <1>2, <2>4, RestartStarts DEF Service!Next
    <2>5. CASE Shut \/ Exit
      BY <1>2, <2>5 DEF Service!Next
    <2> QED
      BY <1>2, <2>1, <2>2, <2>3, <2>4, <2>5 DEF Kinds
  <1>3. Inv /\ Holding /\ BoxOfSession /\ [Next]_vars
          => Kinds /\ (Exit => Service!End) /\ (Shut => Service!Shut)
    BY NextKinds, ExitEnds, ShutShuts
  <1> QED
    BY <1>1, <1>2, <1>3, InvHolds, HoldingHolds, BoxHolds, TallyCoveredHolds, PTL
       DEF Spec, ImplementsService, Service!Spec

=============================================================================
