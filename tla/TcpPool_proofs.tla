--------------------------- MODULE TcpPool_proofs ---------------------------
(***************************************************************************)
(* Proofs about TcpPool, for every number of clients, threads and          *)
(* descriptors, every queue capacity and batch size, and any number of     *)
(* ends and restarts of the process.                                       *)
(***************************************************************************)
EXTENDS TcpPool, Counting

(* What TypeOK and SemaphoreAccounting need to be inductive: main has a    *)
(* descriptor only while it decides where to send it, a process that has   *)
(* ended has no thread, and no thread exists that threads_count misses.    *)
MainHolds ==
  IF main \in {"tcp_free", "tcp_busy", "tcp_grow", "tcp_send"} THEN mfd \in Fds ELSE mfd = None
DownIsEmpty ==
  main = "down" => exits > 0 /\ cancelled = {} /\ \A w \in Threads : pc[w] = "none"
Created == PCs \ {"none"}
NoExtraThreads == main # "down" => Cardinality(At(Created)) <= threads_count

Inv == /\ TypeOK /\ MainHolds /\ SemaphoreAccounting
       /\ DownIsEmpty /\ NoExtraThreads

(* Moving one thread changes the number of threads at P by one at most.    *)
LEMMA GotoCounts ==
  ASSUME TypeOK, NEW w \in Threads, NEW from, NEW to, Goto(w, from, to), NEW P
  PROVE  /\ Cardinality(At(P)) \in Nat
         /\ from \notin P /\ to \in P => Cardinality(At(P))' = Cardinality(At(P)) + 1
         /\ from \in P /\ to \notin P => Cardinality(At(P))' = Cardinality(At(P)) - 1
         /\ (from \in P <=> to \in P) => Cardinality(At(P))' = Cardinality(At(P))
  <1>1. IsFiniteSet(Threads)
    BY ConstantsAssumption
  <1>2. /\ pc[w] = from /\ pc'[w] = to
        /\ SameBut(Threads, pc, pc', w)
    BY DEF TypeOK, Goto, SameBut
  <1>3. /\ At(P) = Where(Threads, pc, P)
        /\ At(P)' = Where(Threads, pc', P)
    BY DEF At, Where
  <1>4. /\ pc[w] \notin P /\ pc'[w] \in P =>
             Cardinality(Where(Threads, pc', P)) = Cardinality(Where(Threads, pc, P)) + 1
        /\ pc[w] \in P /\ pc'[w] \notin P =>
             Cardinality(Where(Threads, pc', P)) = Cardinality(Where(Threads, pc, P)) - 1
        /\ (pc[w] \in P <=> pc'[w] \in P) =>
             Cardinality(Where(Threads, pc', P)) = Cardinality(Where(Threads, pc, P))
    BY <1>1, <1>2, MoveOne
  <1>5. Cardinality(Where(Threads, pc, P)) \in Nat
    BY <1>1, WhereFinite
  <1> QED
    BY <1>2, <1>3, <1>4, <1>5

(* A thread's step moves the semaphores as its program counter says.       *)
LEMMA ThreadAccounting ==
  ASSUME Inv, NEW w \in Threads, Thread(w)
  PROVE  (SemaphoreAccounting /\ DownIsEmpty /\ NoExtraThreads)'
  <1> USE DEF Inv, PCs, FreeAt, BusyAt, Created
  <1>1. /\ main # "down" /\ main' = main /\ threads_count' = threads_count
        /\ exits' = exits /\ cancelled' = cancelled
    BY DEF Thread, Ready, Take, LeaveFree, JoinBusy, Recv, Close, LeaveBusy,
           JoinFree, Count, Goto, DownIsEmpty, pool, kernel
  <1>2. /\ free = Cardinality(At(FreeAt)) /\ busy = Cardinality(At(BusyAt))
        /\ free \in Nat /\ busy \in Nat /\ threads_count \in Nat
        /\ Cardinality(At(Created)) <= threads_count
    BY <1>1 DEF SemaphoreAccounting, NoExtraThreads, TypeOK
  <1> SUFFICES /\ free' = Cardinality(At(FreeAt))'
               /\ busy' = Cardinality(At(BusyAt))'
               /\ Cardinality(At(Created))' = Cardinality(At(Created))
    BY <1>1, <1>2 DEF SemaphoreAccounting, DownIsEmpty, NoExtraThreads
  <1> USE <1>2, GotoCounts
  <1>3. CASE Ready(w)
    BY <1>3 DEF Ready
  <1>4. CASE Take(w)
    <2>1. Goto(w, "idle", "taken") /\ free' = free /\ busy' = busy
      BY <1>4 DEF Take
    <2> QED
      BY <2>1
  <1>5. CASE LeaveFree(w)
    BY <1>5 DEF LeaveFree
  <1>6. CASE JoinBusy(w)
    BY <1>6 DEF JoinBusy
  <1>7. CASE Recv(w)
    BY <1>7 DEF Recv
  <1>8. CASE Close(w)
    BY <1>8 DEF Close
  <1>9. CASE LeaveBusy(w)
    BY <1>9 DEF LeaveBusy
  <1>10. CASE JoinFree(w)
    BY <1>10 DEF JoinFree
  <1>11. CASE Count(w)
    BY <1>11 DEF Count
  <1> QED
    BY <1>3, <1>4, <1>5, <1>6, <1>7, <1>8, <1>9, <1>10, <1>11 DEF Thread

(* Creating threads adds as many to those that exist, and none to the free *)
(* or busy ones: they announce themselves later.                           *)
LEMMA CreateCounts ==
  ASSUME TypeOK, NEW S \in SUBSET Threads, CreateThreads(S)
  PROVE  /\ pc' \in [Threads -> PCs]
         /\ failed' \in 0..MaxCreateFails
         /\ Cardinality(S) \in 0..DefAlloc
         /\ Cardinality(At(FreeAt))' = Cardinality(At(FreeAt))
         /\ Cardinality(At(BusyAt))' = Cardinality(At(BusyAt))
         /\ Cardinality(At(Created)) \in Nat
         /\ Cardinality(At(Created))' = Cardinality(At(Created)) + Cardinality(S)
  <1>1. IsFiniteSet(Threads) /\ IsFiniteSet(S) /\ Cardinality(S) \in Nat /\ DefAlloc \in Nat
    BY ConstantsAssumption, FS_Subset, FS_CardinalityType
  <1>2. /\ \A s \in S : pc[s] = "none"
        /\ pc' = [t \in Threads |-> IF t \in S THEN "start" ELSE pc[t]]
    BY DEF CreateThreads, At
  <1>3. \A P : At(P) = Where(Threads, pc, P) /\ At(P)' = Where(Threads, pc', P)
    BY DEF At, Where
  <1>4. "start" \notin FreeAt \cup BusyAt /\ "none" \notin FreeAt \cup BusyAt \cup Created
        /\ "start" \in Created
    BY DEF FreeAt, BusyAt, Created, PCs
  <1>5. /\ Where(Threads, pc', FreeAt) = Where(Threads, pc, FreeAt)
        /\ Where(Threads, pc', BusyAt) = Where(Threads, pc, BusyAt)
    BY <1>2, <1>4 DEF Where
  <1>6. Cardinality(Where(Threads, [t \in Threads |-> IF t \in S THEN "start" ELSE pc[t]], Created))
          = Cardinality(Where(Threads, pc, Created)) + Cardinality(S)
    BY <1>1, <1>2, <1>4, MoveMany
  <1>7. Cardinality(Where(Threads, pc, Created)) \in Nat
    BY <1>1, WhereFinite
  <1>8. pc' \in [Threads -> PCs]
    BY <1>2 DEF TypeOK, PCs
  <1>9. failed' \in 0..MaxCreateFails
    BY <1>1, ConstantsAssumption DEF CreateThreads, TypeOK
  <1>10. Cardinality(S) \in 0..DefAlloc
    BY <1>1 DEF CreateThreads
  <1> QED
    BY <1>2, <1>3, <1>5, <1>6, <1>7, <1>8, <1>9, <1>10

(* Initially there are DefAlloc threads at most and all counters are 0.     *)
LEMMA InitInv == Init => Inv
  <1> SUFFICES ASSUME Init PROVE Inv
    OBVIOUS
  <1>1. PICK S \in SUBSET Threads :
           /\ Cardinality(S) <= DefAlloc /\ Fresh(S)
           /\ failed = DefAlloc - Cardinality(S) /\ failed <= MaxCreateFails
    BY DEF Init, PoolInit
  <1> USE ConstantsAssumption DEF Init, PoolInit
  <1>0. IsFiniteSet(S) /\ Cardinality(S) \in Nat /\ failed \in 0..MaxCreateFails
    <2>1. IsFiniteSet(S) /\ Cardinality(S) \in Nat
      BY FS_Subset, FS_CardinalityType
    <2> QED
      BY <1>1, <2>1
  <1>2. TypeOK /\ MainHolds /\ DownIsEmpty
    BY <1>0, <1>1 DEF Fresh, TypeOK, MainHolds, DownIsEmpty, MainAt, PCs, FreeAt, BusyAt
  <1>3. At(FreeAt) = {} /\ At(BusyAt) = {} /\ At(Created) = S
    BY <1>1 DEF Fresh, At, FreeAt, BusyAt, Created, PCs
  <1>4. SemaphoreAccounting
    BY <1>1, <1>3, FS_EmptySet DEF Fresh, SemaphoreAccounting
  <1>5. NoExtraThreads
    BY <1>1, <1>3 DEF Fresh, NoExtraThreads
  <1> QED
    BY <1>2, <1>4, <1>5 DEF Inv

(* Typing, per action.                                                     *)
LEMMA NextTypes ==
  ASSUME Inv, [Next]_vars
  PROVE  TypeOK' /\ MainHolds'
  <1> USE ConstantsAssumption DEF Inv, TypeOK, MainHolds, MainAt, pool, kernel
  <1>1. CASE Poll \/ CheckFree \/ CheckBusy
    BY <1>1 DEF Poll, CheckFree, CheckBusy
  <1>2. ASSUME NEW c \in Clients, NEW f \in Fds, Accept(c, f)
        PROVE  TypeOK' /\ MainHolds'
    BY <1>2 DEF Accept
  <1>3. ASSUME NEW S \in SUBSET Threads, Grow(S)
        PROVE  TypeOK' /\ MainHolds'
    <2>1. pc' \in [Threads -> PCs] /\ failed' \in 0..MaxCreateFails
      BY <1>3, CreateCounts DEF Grow
    <2> QED
      BY <1>3, <2>1 DEF Grow
  <1>4. CASE Send
    <2>1. mfd \in Fds
      BY <1>4 DEF Send
    <2>2. queue' \in Seq(Fds) /\ Len(queue') <= QMax
      BY <1>4, <2>1 DEF Send
    <2> QED
      BY <1>4, <2>2 DEF Send
  <1>5. ASSUME NEW w \in Threads, Thread(w)
        PROVE  TypeOK' /\ MainHolds'
    <2> USE <1>5 DEF Goto, PCs, FreeAt, BusyAt
    <2>1. CASE Ready(w)
      BY <2>1 DEF Ready
    <2>2. CASE Take(w)
      BY <2>2 DEF Take
    <2>3. CASE LeaveFree(w)
      BY <2>3 DEF LeaveFree
    <2>4. CASE JoinBusy(w)
      BY <2>4 DEF JoinBusy
    <2>5. CASE Recv(w)
      BY <2>5 DEF Recv
    <2>6. CASE Close(w)
      BY <2>6 DEF Close
    <2>7. CASE LeaveBusy(w)
      BY <2>7 DEF LeaveBusy
    <2>8. CASE JoinFree(w)
      BY <2>8 DEF JoinFree
    <2>9. CASE Count(w)
      BY <2>9 DEF Count
    <2> QED
      BY <2>1, <2>2, <2>3, <2>4, <2>5, <2>6, <2>7, <2>8, <2>9 DEF Thread
  <1>6. ASSUME NEW c \in Clients, Client(c)
        PROVE  TypeOK' /\ MainHolds'
    BY <1>6 DEF Client, Connect, Speak
  <1>7. CASE Exit
    BY <1>7 DEF Exit, PCs
  <1>8. ASSUME NEW S \in SUBSET Threads, Restart(S)
        PROVE  TypeOK' /\ MainHolds'
    <2>1. pc' \in [Threads -> PCs] /\ failed' \in 0..MaxCreateFails
      BY <1>8, CreateCounts DEF Restart
    <2> QED
      BY <1>8, <2>1 DEF Restart
  <1>9. CASE PollNothing \/ UNCHANGED vars
    BY <1>9 DEF PollNothing, vars
  <1>10. ASSUME NEW w \in Threads, NEW S \in SUBSET Threads, ThreadExit(w, S)
         PROVE  TypeOK' /\ MainHolds'
    BY <1>10 DEF ThreadExit
  <1> QED
    BY <1>1, <1>2, <1>3, <1>4, <1>5, <1>6, <1>7, <1>8, <1>9, <1>10 DEF Next, Main

(* The counts, per action.                                                 *)
LEMMA NextAccounting ==
  ASSUME Inv, [Next]_vars
  PROVE  (SemaphoreAccounting /\ DownIsEmpty /\ NoExtraThreads)'
  <1> DEFINE Goal == (SemaphoreAccounting /\ DownIsEmpty /\ NoExtraThreads)'
  <1> USE DEF Inv, pool, kernel
  <1>1. ASSUME UNCHANGED <<pc, free, busy, threads_count, exits>>,
               main' # "down", main # "down"
        PROVE  Goal
    BY <1>1 DEF SemaphoreAccounting, DownIsEmpty, NoExtraThreads, At
  <1>2. ASSUME UNCHANGED <<main, pc, free, busy, threads_count, exits>>, main = "down" => UNCHANGED cancelled
        PROVE  Goal
    BY <1>2 DEF SemaphoreAccounting, DownIsEmpty, NoExtraThreads, At
  <1>3. CASE Poll \/ CheckFree \/ CheckBusy \/ Send
    BY <1>1, <1>3, ConstantsAssumption DEF Poll, CheckFree, CheckBusy, Send
  <1>4. ASSUME NEW c \in Clients, NEW f \in Fds, Accept(c, f)
        PROVE  Goal
    BY <1>1, <1>4 DEF Accept
  <1>5. ASSUME NEW S \in SUBSET Threads, Grow(S)
        PROVE  Goal
    <2>1. main # "down" /\ main' # "down" /\ DefAlloc \in Nat
      BY <1>5, ConstantsAssumption DEF Grow
    <2>2. /\ free' = Cardinality(At(FreeAt))' /\ busy' = Cardinality(At(BusyAt))'
          /\ Cardinality(At(Created))' = Cardinality(At(Created)) + Cardinality(S)
          /\ Cardinality(At(Created)) <= threads_count
          /\ Cardinality(S) \in 0..DefAlloc /\ Cardinality(At(Created)) \in Nat
      BY <1>5, <2>1, CreateCounts DEF Grow, SemaphoreAccounting, NoExtraThreads
    <2>3. Cardinality(At(Created))' <= threads_count'
      BY <1>5, <2>1, <2>2 DEF Grow, TypeOK
    <2> QED
      BY <2>1, <2>2, <2>3 DEF SemaphoreAccounting, DownIsEmpty, NoExtraThreads
  <1>6. ASSUME NEW w \in Threads, Thread(w)
        PROVE  Goal
    BY <1>6, ThreadAccounting
  <1>7. ASSUME NEW c \in Clients, Client(c)
        PROVE  Goal
    BY <1>2, <1>7 DEF Client, Connect, Speak
  <1>8. CASE Exit
    BY <1>8 DEF Exit, SemaphoreAccounting, DownIsEmpty, NoExtraThreads, TypeOK
  <1>9. ASSUME NEW S \in SUBSET Threads, Restart(S)
        PROVE  Goal
    <2>1. main = "down" /\ main' = "poll" /\ threads_count' = DefAlloc
          /\ free' = 0 /\ busy' = 0 /\ CreateThreads(S)
      BY <1>9 DEF Restart
    <2>2. At(FreeAt) = {} /\ At(BusyAt) = {} /\ At(Created) = {}
      BY <2>1 DEF DownIsEmpty, At, FreeAt, BusyAt, Created
    <2>3. /\ Cardinality(At(FreeAt))' = 0 /\ Cardinality(At(BusyAt))' = 0
          /\ Cardinality(At(Created))' = Cardinality(S)
          /\ Cardinality(S) \in 0..DefAlloc
      BY <2>1, <2>2, FS_EmptySet, FS_CardinalityType, CreateCounts
    <2>4. Cardinality(At(Created))' <= threads_count'
      BY <2>1, <2>3, ConstantsAssumption
    <2> QED
      BY <2>1, <2>3, <2>4 DEF SemaphoreAccounting, DownIsEmpty, NoExtraThreads
  <1>10. CASE PollNothing \/ UNCHANGED vars
    BY <1>2, <1>10 DEF PollNothing, vars
  <1>11. ASSUME NEW w \in Threads, NEW S \in SUBSET Threads, ThreadExit(w, S)
         PROVE  Goal
    <2>1. main # "down"
      BY <1>11 DEF ThreadExit, DownIsEmpty
    <2> QED
      BY <1>2, <1>11, <2>1 DEF ThreadExit
  <1> QED
    BY <1>3, <1>4, <1>5, <1>6, <1>7, <1>8, <1>9, <1>10, <1>11 DEF Next, Main

(* Inv is inductive.                                                       *)
LEMMA InvHolds == Spec => []Inv
  <1>1. Inv /\ [Next]_vars => Inv'
    BY NextTypes, NextAccounting DEF Inv
  <1> QED
    BY <1>1, InitInv, PTL DEF Spec

(* Every variable keeps its type: the queue never exceeds SERVER_Q_MAXMSG. *)
THEOREM TypeCorrect == Spec => []TypeOK
  <1>1. Inv => TypeOK
    BY DEF Inv
  <1> QED
    BY <1>1, InvHolds, PTL

(* The semaphores are exact, for any pool, any growth and any restarts.    *)
THEOREM SemaphoresExact == Spec => []SemaphoreAccounting
  <1>1. Inv => SemaphoreAccounting
    BY DEF Inv
  <1> QED
    BY <1>1, InvHolds, PTL

(* When main decides to create threads, each thread that exists is busy.   *)
THEOREM GrowthJustified == Spec => GrowOnlyWhenAllBusy
  <1> DEFINE Step == main = "tcp_busy" /\ main' = "tcp_grow"
                       => At(PCs \ {"none"}) \subseteq At(BusyAt)
  <1>1. ASSUME Inv, [Next]_vars
        PROVE  [Step]_vars
    <2> SUFFICES ASSUME main = "tcp_busy", main' = "tcp_grow"
                 PROVE  At(Created) \subseteq At(BusyAt)
      BY DEF Created
    <2>1. busy = threads_count
      BY <1>1 DEF Next, vars, Main, Thread, Client, Poll, CheckFree, CheckBusy, Send,
         Accept, Grow, Ready, Take, LeaveFree, JoinBusy, Recv, Close, LeaveBusy, JoinFree,
         Count, Connect, Speak, PollNothing, Exit, ThreadExit, Restart, Goto
    <2>2. Cardinality(At(Created)) <= Cardinality(At(BusyAt))
      BY <1>1, <2>1 DEF Inv, SemaphoreAccounting, NoExtraThreads
    <2>3. At(BusyAt) = Where(Threads, pc, BusyAt) /\ At(Created) = Where(Threads, pc, Created)
      BY DEF At, Where
    <2>4. BusyAt \subseteq Created /\ IsFiniteSet(Threads)
      BY ConstantsAssumption DEF BusyAt, Created, PCs
    <2>5. /\ Cardinality(At(BusyAt)) <= Cardinality(At(Created))
          /\ Cardinality(At(BusyAt)) = Cardinality(At(Created)) => At(BusyAt) = At(Created)
      BY <2>3, <2>4, WhereMonotone
    <2>6. Cardinality(At(BusyAt)) \in Nat /\ Cardinality(At(Created)) \in Nat
      BY <2>3, <2>4, WhereFinite
    <2> QED
      BY <2>2, <2>5, <2>6
  <1> QED
    BY <1>1, InvHolds, PTL DEF Spec, GrowOnlyWhenAllBusy

-----------------------------------------------------------------------------
(* What exit() called by a thread changes: who is in the backlog is lost,   *)
(* and some threads stop where they are.                                   *)
LEMMA ThreadExitEffect ==
  ASSUME Inv, NEW w \in Threads, NEW S \in SUBSET Threads, ThreadExit(w, S)
  PROVE  /\ UNCHANGED <<main, mfd, threads_count, pc, wfd, queue, free, busy, served, file, spoke,
                        exits, failed>>
         /\ main # "down" /\ cancelled = {} /\ cancelled' # {}
         /\ \A c \in Clients : conn'[c] = IF conn[c] = "backlog" THEN "lost" ELSE conn[c]
         /\ \A P : At(P)' = At(P)
  BY DEF ThreadExit, Inv, DownIsEmpty, pool, At

(* No step of a thread is the end or the start of a process.               *)
LEMMA ThreadsRunUp ==
  ASSUME Inv, NEW w \in Threads, Thread(w)
  PROVE  main # "down" /\ main' = main
  BY DEF Thread, Ready, Take, LeaveFree, JoinBusy, Recv, Close, LeaveBusy, JoinFree, Count,
         Goto, Inv, DownIsEmpty

(* Main goes round its two reads without end while no thread is free and   *)
(* not all are busy.  What it waits for is on its way: a thread that has   *)
(* left one semaphore and is about to post another, which nothing can      *)
(* stop - unless calls of pthread_create have failed, and main counts as   *)
(* many threads that there never were, or exit() called by a thread has    *)
(* cancelled the others.                                                   *)
MovingAt == {"start", "tobusy", "refree"}
FewMissing == main # "down" => threads_count <= Cardinality(At(Created)) + failed
WaitHasMover ==
  main # "down" /\ cancelled = {} /\ free = 0 /\ busy + failed < threads_count
    => At(MovingAt) # {}

LEMMA FewMissingHolds == Spec => []FewMissing
  <1>1. Init => FewMissing
    <2> SUFFICES ASSUME Init PROVE FewMissing
      OBVIOUS
    <2>1. PICK S \in SUBSET Threads : Fresh(S) /\ failed = DefAlloc - Cardinality(S)
      BY DEF Init, PoolInit
    <2>2. At(Created) = S
      BY <2>1 DEF Fresh, At, Created, PCs, FreeAt, BusyAt
    <2>3. Cardinality(S) \in Nat /\ DefAlloc \in Nat
      BY ConstantsAssumption, FS_Subset, FS_CardinalityType
    <2>4. DefAlloc <= Cardinality(S) + (DefAlloc - Cardinality(S))
      BY <2>3
    <2> QED
      BY <2>1, <2>2, <2>4 DEF Fresh, FewMissing
  <1>2. ASSUME Inv, FewMissing, [Next]_vars
        PROVE  FewMissing'
    <2> USE <1>2 DEF pool, kernel
    <2>1. ASSUME At(Created)' = At(Created), UNCHANGED <<threads_count, failed>>,
                 main' # "down" => main # "down"
          PROVE  FewMissing'
      BY <2>1 DEF FewMissing
    <2>2. CASE Poll \/ CheckFree \/ CheckBusy \/ Send \/ PollNothing \/ UNCHANGED vars
      BY <2>1, <2>2, ConstantsAssumption DEF Poll, CheckFree, CheckBusy, Send, PollNothing, vars, At
    <2>3. ASSUME NEW c \in Clients, Client(c) \/ \E f \in Fds : Accept(c, f)
          PROVE  FewMissing'
      BY <2>1, <2>3 DEF Client, Connect, Speak, Accept, At
    <2>4. ASSUME NEW w \in Threads, Thread(w)
          PROVE  FewMissing'
      <3>1. At(Created)' = At(Created)
        BY <2>4 DEF Thread, Ready, Take, LeaveFree, JoinBusy, Recv, Close, LeaveBusy, JoinFree,
           Count, Goto, At, Created, PCs, FreeAt, BusyAt, Inv, TypeOK
      <3>2. UNCHANGED <<threads_count, failed>>
        BY <2>4 DEF Thread, Ready, Take, LeaveFree, JoinBusy, Recv, Close, LeaveBusy, JoinFree,
           Count
      <3> QED
        BY <2>1, <2>4, <3>1, <3>2, ThreadsRunUp
    <2>5. ASSUME NEW S \in SUBSET Threads, Grow(S) \/ Restart(S)
          PROVE  FewMissing'
      <3>1. CreateThreads(S) /\ main' # "down"
        BY <2>5 DEF Grow, Restart
      <3>2. PICK n \in Nat, m \in Nat, k \in Nat, d \in Nat :
               /\ Cardinality(At(Created)) = n /\ Cardinality(S) = m /\ failed = k /\ DefAlloc = d
        BY <3>1, ConstantsAssumption, CreateCounts DEF Inv, TypeOK
      <3>3. Cardinality(At(Created))' = n + m /\ failed' = k + (d - m)
        BY <3>1, <3>2, CreateCounts DEF Inv, CreateThreads
      <3>4. CASE Grow(S)
        <4>1. PICK t \in Nat : threads_count = t
          BY DEF Inv, TypeOK
        <4>2. t <= n + k /\ threads_count' = t + d
          BY <3>2, <3>4, <4>1 DEF Grow, FewMissing
        <4>3. t + d <= (n + m) + (k + (d - m))
          BY <4>2
        <4> QED
          BY <3>3, <4>2, <4>3 DEF FewMissing
      <3>5. CASE Restart(S)
        <4>1. threads_count' = d
          BY <3>2, <3>5 DEF Restart
        <4>2. d <= (n + m) + (k + (d - m))
          OBVIOUS
        <4> QED
          BY <3>3, <4>1, <4>2 DEF FewMissing
      <3> QED
        BY <2>5, <3>4, <3>5
    <2>6. CASE Exit
      BY <2>6 DEF Exit, FewMissing
    <2>7. ASSUME NEW w \in Threads, NEW S \in SUBSET Threads, ThreadExit(w, S)
          PROVE  FewMissing'
      BY <2>1, <2>7, ThreadExitEffect
    <2> QED
      BY <2>2, <2>3, <2>4, <2>5, <2>6, <2>7 DEF Next, Main
  <1> QED
    BY <1>1, <1>2, InvHolds, PTL DEF Spec

(* Main's wait is never for nothing: while it reads that no thread is free *)
(* and that fewer are busy than there are, some thread is between two      *)
(* semaphores - unless pthread_create has failed as often as threads are   *)
(* missing.                                                                *)
THEOREM WaitsHaveMovers == Spec => []WaitHasMover
  <1>1. ASSUME Inv, FewMissing
        PROVE  WaitHasMover
    <2> SUFFICES ASSUME main # "down", free = 0, busy + failed < threads_count, At(MovingAt) = {}
                 PROVE  FALSE
      BY DEF WaitHasMover
    <2>1. Created = (FreeAt \cup BusyAt) \cup MovingAt
      BY DEF Created, PCs, MovingAt, FreeAt, BusyAt
    <2>2. At(FreeAt) = {}
      <3>1. At(FreeAt) = Where(Threads, pc, FreeAt) /\ IsFiniteSet(Threads)
        BY ConstantsAssumption DEF At, Where
      <3>2. Cardinality(At(FreeAt)) = 0
        BY <1>1 DEF Inv, SemaphoreAccounting
      <3> QED
        BY <3>1, <3>2, WhereFinite, FS_EmptySet
    <2>3. At(Created) = At(BusyAt)
      BY <2>1, <2>2 DEF At
    <2>4. threads_count <= busy + failed
      BY <1>1, <2>3 DEF Inv, SemaphoreAccounting, FewMissing
    <2> QED
      BY <1>1, <2>4 DEF Inv, TypeOK
  <1> QED
    BY <1>1, InvHolds, FewMissingHolds, PTL

-----------------------------------------------------------------------------
(* A descriptor moves from main to the queue, to one thread, to the kernel.*)

(* Accept gives main a number that was not open, so nobody has it.         *)
LEMMA AcceptHolder ==
  ASSUME Inv, EachClientOneHolder, NEW c \in Clients, NEW f \in Fds, Accept(c, f)
  PROVE  EachClientOneHolder'
  <1> USE DEF EachClientOneHolder, Inv, TypeOK, At, Accept, pool
  <1>0. c # None
    BY ConstantsAssumption
  <1>1. (\A w \in At(HoldAt) : wfd[w] # f) /\ (\A i \in DOMAIN queue : queue[i] # f)
    BY DEF HeldIsOpen
  <1>2. QueueDistinct' /\ ThreadsDistinct' /\ QueueOrThread'
    BY DEF QueueDistinct, ThreadsDistinct, QueueOrThread
  <1>3. MainAlone'
    BY <1>1 DEF MainAlone
  <1>4. HeldIsOpen'
    BY <1>0 DEF HeldIsOpen
  <1> QED
    BY <1>2, <1>3, <1>4

(* mq_send moves main's descriptor to the end of the queue.                *)
LEMMA SendHolder ==
  ASSUME Inv, EachClientOneHolder, Send
  PROVE  EachClientOneHolder'
  <1> USE DEF EachClientOneHolder, Inv, At, Send, pool
  <1>0. mfd \in Fds /\ mfd # None /\ queue \in Seq(Fds) /\ None \notin Fds
        /\ mfd' = None /\ UNCHANGED <<pc, wfd, file>> /\ queue' = Append(queue, mfd)
    BY ConstantsAssumption DEF MainHolds, TypeOK
  <1>1. /\ DOMAIN queue' = DOMAIN queue \cup {Len(queue) + 1}
        /\ queue'[Len(queue) + 1] = mfd
        /\ \A i \in DOMAIN queue : queue'[i] = queue[i] /\ queue[i] \in Fds
    BY <1>0, QueueEnds
  <1>2. QueueDistinct'
    BY <1>1 DEF QueueDistinct, MainAlone
  <1>3. ThreadsDistinct' /\ QueueOrThread'
    BY <1>0, <1>1 DEF ThreadsDistinct, QueueOrThread, MainAlone
  <1>4. MainAlone' /\ HeldIsOpen'
    BY <1>0, <1>1 DEF MainAlone, HeldIsOpen
  <1> QED
    BY <1>2, <1>3, <1>4

(* mq_receive moves the first descriptor of the queue to one thread.       *)
LEMMA TakeHolder ==
  ASSUME Inv, EachClientOneHolder, NEW w \in Threads, Take(w)
  PROVE  EachClientOneHolder'
  <1> USE DEF EachClientOneHolder, Inv, Take, Goto
  <1>0. /\ queue \in Seq(Fds) /\ queue # <<>> /\ queue' = Tail(queue)
        /\ UNCHANGED <<mfd, file>>
        /\ wfd'[w] = queue[1] /\ 1 \in DOMAIN queue
        /\ At(HoldAt)' = At(HoldAt) \cup {w} /\ w \notin At(HoldAt)
        /\ \A v \in Threads \ {w} : wfd'[v] = wfd[v]
    BY QueueEnds DEF TypeOK, At, HoldAt
  <1>1. /\ \A i \in DOMAIN queue' : i + 1 \in DOMAIN queue /\ i + 1 # 1 /\ queue'[i] = queue[i + 1]
        /\ \A i, j \in DOMAIN queue' : i + 1 = j + 1 => i = j
    BY <1>0, QueueEnds
  <1>2. \A v \in At(HoldAt) : v \in Threads /\ wfd'[v] = wfd[v] /\ v # w
    BY <1>0 DEF At
  <1>3. QueueDistinct'
    BY <1>1 DEF QueueDistinct
  <1>4. ThreadsDistinct'
    BY <1>0, <1>2 DEF ThreadsDistinct, QueueOrThread
  <1>5. QueueOrThread'
    BY <1>0, <1>1, <1>2 DEF QueueOrThread, QueueDistinct
  <1>6. MainAlone'
    BY <1>0, <1>1, <1>2 DEF MainAlone
  <1>7. HeldIsOpen'
    <2>1. queue[1] \in Fds
      BY <1>0
    <2> QED
      BY <1>0, <1>1, <1>2, <2>1 DEF HeldIsOpen
  <1> QED
    BY <1>3, <1>4, <1>5, <1>6, <1>7

(* close() takes the number from the one thread that has it.               *)
LEMMA CloseHolder ==
  ASSUME Inv, EachClientOneHolder, NEW w \in Threads, Close(w)
  PROVE  EachClientOneHolder'
  <1> USE DEF EachClientOneHolder, Inv, Close, Goto
  <1>0. /\ UNCHANGED <<mfd, queue>> /\ w \in At(HoldAt)
        /\ At(HoldAt)' = At(HoldAt) \ {w}
        /\ \A v \in At(HoldAt)' : v \in At(HoldAt) /\ v # w /\ wfd'[v] = wfd[v]
        /\ \A f \in Fds : f # wfd[w] => file'[f] = file[f]
    BY DEF TypeOK, At, HoldAt
  <1>1. QueueDistinct' /\ ThreadsDistinct' /\ QueueOrThread' /\ MainAlone'
    BY <1>0 DEF QueueDistinct, ThreadsDistinct, QueueOrThread, MainAlone
  <1>2. HeldIsOpen'
    <2>1. \A v \in At(HoldAt)' : wfd'[v] # wfd[w]
      BY <1>0 DEF ThreadsDistinct
    <2>2. \A i \in DOMAIN queue : queue[i] # wfd[w] /\ queue[i] \in Fds
      BY <1>0 DEF QueueOrThread, TypeOK
    <2>3. mfd # wfd[w] /\ mfd \in Fds \cup {None}
      BY <1>0 DEF MainAlone, TypeOK
    <2> QED
      BY <1>0, <2>1, <2>2, <2>3 DEF HeldIsOpen
  <1> QED
    BY <1>1, <1>2

(* Any other step of a thread leaves every descriptor where it is.         *)
LEMMA StayHolder ==
  ASSUME Inv, EachClientOneHolder, NEW w \in Threads,
         Ready(w) \/ LeaveFree(w) \/ JoinBusy(w) \/ Recv(w) \/ LeaveBusy(w)
           \/ JoinFree(w) \/ Count(w)
  PROVE  EachClientOneHolder'
  <1>1. UNCHANGED <<mfd, queue, file, wfd>> /\ At(HoldAt)' = At(HoldAt)
    BY DEF Ready, LeaveFree, JoinBusy, Recv, LeaveBusy, JoinFree, Count, Goto,
           At, HoldAt, Inv, TypeOK, kernel
  <1> QED
    BY <1>1 DEF EachClientOneHolder, QueueDistinct, ThreadsDistinct, QueueOrThread,
                MainAlone, HeldIsOpen

(* Without a queue left behind by an earlier process, each descriptor has  *)
(* one holder and is open: no client is lost, shared or served twice.      *)
THEOREM OneHolderHolds == Spec => []OneHolder
  <1> USE DEF OneHolder
  <1>1. Init => OneHolder
    <2> SUFFICES ASSUME Init PROVE EachClientOneHolder
      OBVIOUS
    <2>1. At(HoldAt) = {} /\ queue = <<>> /\ mfd = None
      BY DEF Init, PoolInit, Fresh, At, HoldAt
    <2> QED
      BY <2>1 DEF EachClientOneHolder, QueueDistinct, ThreadsDistinct, QueueOrThread,
                  MainAlone, HeldIsOpen
  <1>2. Inv /\ OneHolder /\ [Next]_vars => OneHolder'
    <2> SUFFICES ASSUME Inv, OneHolder, [Next]_vars, exits' = 0
                 PROVE  EachClientOneHolder'
      OBVIOUS
    <2> USE DEF pool, kernel
    <2>0. ASSUME UNCHANGED <<mfd, queue, file, wfd>>, At(HoldAt)' = At(HoldAt), exits = 0
          PROVE  EachClientOneHolder'
      BY <2>0 DEF EachClientOneHolder, QueueDistinct, ThreadsDistinct, QueueOrThread,
                  MainAlone, HeldIsOpen
    <2>1. CASE Poll \/ CheckFree \/ CheckBusy \/ PollNothing \/ UNCHANGED vars
      BY <2>0, <2>1 DEF Poll, CheckFree, CheckBusy, PollNothing, vars, At
    <2>2. CASE Send
      BY <2>2, SendHolder DEF Send
    <2>3. ASSUME NEW c \in Clients, NEW f \in Fds, Accept(c, f)
          PROVE  EachClientOneHolder'
      BY <2>3, AcceptHolder DEF Accept
    <2>4. ASSUME NEW S \in SUBSET Threads, Grow(S)
          PROVE  EachClientOneHolder'
      <3>1. At(HoldAt)' = At(HoldAt)
        BY <2>4 DEF Grow, CreateThreads, At, HoldAt
      <3> QED
        BY <2>0, <2>4, <3>1 DEF Grow
    <2>5. ASSUME NEW w \in Threads, Thread(w)
          PROVE  EachClientOneHolder'
      <3>1. exits = 0
        BY <2>5 DEF Thread, Ready, Take, LeaveFree, JoinBusy, Recv, Close, LeaveBusy,
                    JoinFree, Count
      <3> QED
        BY <2>5, <3>1, TakeHolder, CloseHolder, StayHolder DEF Thread
    <2>6. ASSUME NEW c \in Clients, Client(c)
          PROVE  EachClientOneHolder'
      BY <2>0, <2>6 DEF Client, Connect, Speak, At
    <2>7. CASE Exit
      BY <2>7 DEF Exit, Inv, TypeOK
    <2>8. ASSUME NEW S \in SUBSET Threads, Restart(S)
          PROVE  FALSE
      BY <2>8 DEF Restart, Inv, DownIsEmpty
    <2>9. ASSUME NEW w \in Threads, NEW S \in SUBSET Threads, ThreadExit(w, S)
          PROVE  EachClientOneHolder'
      BY <2>0, <2>9, ThreadExitEffect
    <2> QED
      BY <2>1, <2>2, <2>3, <2>4, <2>5, <2>6, <2>7, <2>8, <2>9 DEF Next, Main
  <1> QED
    BY <1>1, <1>2, InvHolds, PTL DEF Spec

-----------------------------------------------------------------------------
(* Clients and the descriptor table.                                       *)

(* The descriptor table, of any process: each number stands for one        *)
(* connection, each of these for one number, and it is open.               *)
TableExact ==
  /\ \A f \in Fds : file[f] # None => conn[file[f]] = "open"
  /\ \A f, g \in Fds : file[f] # None /\ file[f] = file[g] => f = g

(* What a thread recvs from and closes is a descriptor number, if not      *)
(* always one of an open connection.                                       *)
HeldAreNumbers == \A w \in At(HoldAt) : wfd[w] \in Fds

CountAt == {"unbusy", "refree", "count"}
Standing(P) == Where(Clients, conn, P)

(* What a step that changes how connections stand does to the numbers of   *)
(* them: one connection moves, the first one to be served when a thread    *)
(* closes its descriptor.                                                  *)
LEMMA ConnCounts ==
  ASSUME Inv, NEW c \in Clients, \A d \in Clients \ {c} : conn'[d] = conn[d], NEW P
  PROVE  /\ Cardinality(Standing(P)) \in Nat
         /\ conn[c] \notin P /\ conn'[c] \in P =>
              Cardinality(Standing(P))' = Cardinality(Standing(P)) + 1
         /\ conn[c] \in P /\ conn'[c] \notin P =>
              Cardinality(Standing(P))' = Cardinality(Standing(P)) - 1
         /\ (conn[c] \in P <=> conn'[c] \in P) =>
              Cardinality(Standing(P))' = Cardinality(Standing(P))
  <1>1. IsFiniteSet(Clients)
    BY ConstantsAssumption
  <1>2. Standing(P) = Where(Clients, conn, P) /\ Standing(P)' = Where(Clients, conn', P)
    BY DEF Standing
  <1>3. Cardinality(Where(Clients, conn, P)) \in Nat
    BY <1>1, WhereFinite
  <1>4. /\ conn[c] \notin P /\ conn'[c] \in P =>
             Cardinality(Where(Clients, conn', P)) = Cardinality(Where(Clients, conn, P)) + 1
        /\ conn[c] \in P /\ conn'[c] \notin P =>
             Cardinality(Where(Clients, conn', P)) = Cardinality(Where(Clients, conn, P)) - 1
        /\ (conn[c] \in P <=> conn'[c] \in P) =>
             Cardinality(Where(Clients, conn', P)) = Cardinality(Where(Clients, conn, P))
    <2>1. SameBut(Clients, conn, conn', c)
      BY DEF SameBut
    <2> QED
      BY <1>1, <2>1, MoveOne
  <1> QED
    BY <1>2, <1>3, <1>4

(* close() serves exactly one client, whose connection was open.           *)
LEMMA CloseServes ==
  ASSUME Inv, EachClientOneHolder, TableExact, exits = 0, NEW w \in Threads, Close(w)
  PROVE  /\ wfd[w] \in Fds /\ file[wfd[w]] \in Clients /\ w \in At(HoldAt)
         /\ conn[file[wfd[w]]] = "open" /\ conn'[file[wfd[w]]] = "served"
         /\ \A d \in Clients \ {file[wfd[w]]} : conn'[d] = conn[d]
         /\ \A f \in Fds \ {wfd[w]} : file'[f] = file[f]
         /\ file'[wfd[w]] = None
  <1>1. w \in At(HoldAt)
    BY DEF Close, Goto, At, HoldAt
  <1>2. wfd[w] \in Fds /\ file[wfd[w]] # None
    BY <1>1 DEF EachClientOneHolder, HeldIsOpen
  <1>3. file[wfd[w]] \in Clients /\ conn[file[wfd[w]]] = "open"
    BY <1>2 DEF Inv, TypeOK, TableExact
  <1> QED
    BY <1>1, <1>2, <1>3 DEF Close, Inv, TypeOK

(* Threads get descriptors from the queue.                                 *)
LEMMA NumbersHold == Spec => []HeldAreNumbers
  <1>1. Init => HeldAreNumbers
    BY DEF Init, PoolInit, Fresh, HeldAreNumbers, At, HoldAt
  <1>2. ASSUME Inv, HeldAreNumbers, [Next]_vars
        PROVE  HeldAreNumbers'
    <2> USE <1>2 DEF HeldAreNumbers, At, HoldAt, pool, kernel
    <2>1. CASE Poll \/ CheckFree \/ CheckBusy \/ Send \/ PollNothing \/ UNCHANGED vars
      BY <2>1 DEF Poll, CheckFree, CheckBusy, Send, PollNothing, vars
    <2>2. ASSUME NEW c \in Clients, NEW f \in Fds, Accept(c, f)
          PROVE  HeldAreNumbers'
      BY <2>2 DEF Accept
    <2>3. ASSUME NEW S \in SUBSET Threads, Grow(S) \/ Restart(S)
          PROVE  HeldAreNumbers'
      BY <2>3 DEF Grow, Restart, CreateThreads
    <2>4. ASSUME NEW w \in Threads, Take(w)
          PROVE  HeldAreNumbers'
      <3>1. Head(queue) \in Fds
        BY <2>4, QueueEnds DEF Take, Inv, TypeOK
      <3> QED
        BY <2>4, <3>1 DEF Take, Goto, Inv, TypeOK
    <2>5. ASSUME NEW w \in Threads, Close(w)
          PROVE  HeldAreNumbers'
      BY <2>5 DEF Close, Goto, Inv, TypeOK
    <2>6. ASSUME NEW w \in Threads,
                 \/ Ready(w) \/ LeaveFree(w) \/ JoinBusy(w) \/ Recv(w)
                 \/ LeaveBusy(w) \/ JoinFree(w) \/ Count(w)
          PROVE  HeldAreNumbers'
      BY <2>6 DEF Ready, LeaveFree, JoinBusy, Recv, LeaveBusy, JoinFree, Count, Goto, Inv, TypeOK
    <2>7. CASE Exit
      BY <2>7 DEF Exit
    <2>8. ASSUME NEW c \in Clients, Client(c)
          PROVE  HeldAreNumbers'
      BY <2>8 DEF Client, Connect, Speak
    <2>9. ASSUME NEW w \in Threads, NEW S \in SUBSET Threads, ThreadExit(w, S)
          PROVE  HeldAreNumbers'
      BY <2>9, ThreadExitEffect
    <2> QED
      BY <2>1, <2>2, <2>3, <2>4, <2>5, <2>6, <2>7, <2>8, <2>9 DEF Next, Main, Thread
  <1> QED
    BY <1>1, <1>2, InvHolds, PTL DEF Spec

(* What close() does to the table and the connections, whether or not the  *)
(* number is open, and whoever else has it.                                *)
LEMMA CloseEffect ==
  ASSUME Inv, TableExact, HeldAreNumbers, NEW w \in Threads, Close(w)
  PROVE  /\ wfd[w] \in Fds /\ w \in At(HoldAt)
         /\ file[wfd[w]] \in Clients \cup {None} /\ file'[wfd[w]] = None
         /\ \A f \in Fds \ {wfd[w]} : file'[f] = file[f]
         /\ \A c \in Clients : c = file[wfd[w]] => conn[c] = "open" /\ conn'[c] = "served"
         /\ \A c \in Clients : c # file[wfd[w]] => conn'[c] = conn[c]
  <1>1. w \in At(HoldAt) /\ wfd[w] \in Fds
    BY DEF Close, Goto, At, HoldAt, HeldAreNumbers
  <1>2. None \notin Clients
    BY ConstantsAssumption
  <1> QED
    BY <1>1, <1>2 DEF Close, Inv, TypeOK, TableExact

(* TableExact is inductive.                                                *)
LEMMA TableHolds == Spec => []TableExact
  <1>1. Init => TableExact
    BY DEF Init, PoolInit, Fresh, TableExact
  <1>2. ASSUME Inv, HeldAreNumbers, TableExact, [Next]_vars
        PROVE  TableExact'
    <2> USE <1>2 DEF pool, kernel
    <2>1. ASSUME UNCHANGED <<file, conn>>
          PROVE  TableExact'
      BY <2>1 DEF TableExact
    <2>2. CASE Poll \/ CheckFree \/ CheckBusy \/ Send \/ PollNothing \/ UNCHANGED vars
      BY <2>1, <2>2 DEF Poll, CheckFree, CheckBusy, Send, PollNothing, vars
    <2>3. ASSUME NEW c \in Clients, NEW f \in Fds, Accept(c, f)
          PROVE  TableExact'
      <3>1. /\ conn[c] = "backlog" /\ file[f] = None /\ c # None
            /\ file'[f] = c /\ \A g \in Fds \ {f} : file'[g] = file[g]
            /\ conn'[c] = "open" /\ \A d \in Clients \ {c} : conn'[d] = conn[d]
            /\ \A g \in Fds : file[g] \in Clients \cup {None}
        BY <2>3, ConstantsAssumption DEF Accept, Pending, Inv, TypeOK
      <3>2. \A g \in Fds : file[g] # c
        BY <3>1 DEF TableExact
      <3> QED
        BY <3>1, <3>2 DEF TableExact
    <2>4. ASSUME NEW S \in SUBSET Threads, Grow(S) \/ Restart(S)
          PROVE  TableExact'
      BY <2>1, <2>4 DEF Grow, Restart
    <2>5. ASSUME NEW w \in Threads, Thread(w), ~Close(w)
          PROVE  TableExact'
      BY <2>1, <2>5 DEF Thread, Ready, Take, LeaveFree, JoinBusy, Recv, LeaveBusy, JoinFree, Count
    <2>6. ASSUME NEW w \in Threads, Close(w)
          PROVE  TableExact'
      <3>1. \A f \in Fds \ {wfd[w]} : file[f] # None => file[f] # file[wfd[w]] /\ file[f] \in Clients
        BY <2>6, CloseEffect DEF TableExact, Inv, TypeOK
      <3> QED
        BY <2>6, <3>1, CloseEffect DEF TableExact
    <2>7. ASSUME NEW c \in Clients, Client(c)
          PROVE  TableExact'
      <3>1. UNCHANGED file /\ \A d \in Clients : conn[d] = "open" => conn'[d] = "open"
        BY <2>7 DEF Client, Connect, Speak, Inv, TypeOK
      <3> QED
        BY <3>1 DEF TableExact, Inv, TypeOK
    <2>8. CASE Exit
      BY <2>8 DEF Exit, TableExact
    <2>9. ASSUME NEW w \in Threads, NEW S \in SUBSET Threads, ThreadExit(w, S)
          PROVE  TableExact'
      <3>1. UNCHANGED file /\ \A d \in Clients : conn[d] = "open" => conn'[d] = "open"
        BY <2>9, ThreadExitEffect
      <3> QED
        BY <3>1 DEF TableExact, Inv, TypeOK
    <2> QED
      BY <2>2, <2>3, <2>4, <2>5, <2>6, <2>7, <2>8, <2>9 DEF Next, Main
  <1> QED
    BY <1>1, <1>2, InvHolds, NumbersHold, PTL DEF Spec

(* The tally of served clients misses those that a thread is on its way    *)
(* back from, and nobody else.                                             *)
THEOREM TallyIsExact == Spec => []TallyExact
  <1>0. TallyExact <=> (exits = 0 => served + Cardinality(At(CountAt)) = Cardinality(Standing({"served"})))
    BY DEF TallyExact, CountAt, Standing, Where
  <1>1. Init => TallyExact
    <2> SUFFICES ASSUME Init PROVE TallyExact
      OBVIOUS
    <2>1. At(CountAt) = {} /\ Standing({"served"}) = {} /\ served = 0
      BY DEF Init, PoolInit, Fresh, At, CountAt, Standing, Where
    <2> QED
      BY <1>0, <2>1, FS_EmptySet
  <1>2. ASSUME Inv, OneHolder, TableExact, TallyExact, [Next]_vars
        PROVE  TallyExact'
    <2>0. TallyExact' <=> (exits' = 0 =>
            served' + Cardinality(At(CountAt))' = Cardinality(Standing({"served"}))')
      BY DEF TallyExact, CountAt, Standing, Where
    <2> SUFFICES ASSUME exits' = 0
                 PROVE  served' + Cardinality(At(CountAt))' = Cardinality(Standing({"served"}))'
      BY <2>0
    <2> DEFINE Goal == served' + Cardinality(At(CountAt))' = Cardinality(Standing({"served"}))'
    <2> USE <1>2 DEF pool, kernel
    <2>1. IsFiniteSet(Threads) /\ Cardinality(At(CountAt)) \in Nat /\ served \in Nat
      <3>1. At(CountAt) = Where(Threads, pc, CountAt)
        BY DEF At, Where
      <3> QED
        BY <3>1, ConstantsAssumption, WhereFinite DEF Inv, TypeOK
    <2>2. exits = 0 => served + Cardinality(At(CountAt)) = Cardinality(Standing({"served"}))
      BY <1>0
    <2>3. ASSUME UNCHANGED <<served, conn, exits>>, At(CountAt)' = At(CountAt)
          PROVE  Goal
      BY <2>2, <2>3 DEF Standing
    <2>4. CASE Poll \/ CheckFree \/ CheckBusy \/ Send \/ PollNothing \/ UNCHANGED vars
      BY <2>3, <2>4 DEF Poll, CheckFree, CheckBusy, Send, PollNothing, vars, At
    <2>5. ASSUME NEW c \in Clients, NEW f \in Fds, Accept(c, f)
          PROVE  Goal
      <3>1. /\ UNCHANGED <<served, exits, pc>> /\ conn[c] = "backlog" /\ conn'[c] = "open"
            /\ \A d \in Clients \ {c} : conn'[d] = conn[d]
        BY <2>5 DEF Accept, Pending, Inv, TypeOK
      <3>2. Cardinality(Standing({"served"}))' = Cardinality(Standing({"served"}))
        BY <3>1, ConnCounts
      <3> QED
        BY <2>2, <3>1, <3>2 DEF At
    <2>6. ASSUME NEW S \in SUBSET Threads, Grow(S)
          PROVE  Goal
      <3>1. At(CountAt)' = At(CountAt)
        BY <2>6 DEF Grow, CreateThreads, At, CountAt
      <3> QED
        BY <2>3, <2>6, <3>1 DEF Grow
    <2>7. ASSUME NEW w \in Threads,
                 \/ Ready(w) \/ Take(w) \/ LeaveFree(w) \/ JoinBusy(w) \/ Recv(w)
                 \/ LeaveBusy(w) \/ JoinFree(w)
          PROVE  Goal
      <3>1. At(CountAt)' = At(CountAt)
        BY <2>7 DEF Ready, Take, LeaveFree, JoinBusy, Recv, LeaveBusy, JoinFree, Goto, At,
           CountAt, Inv, TypeOK
      <3> QED
        BY <2>3, <2>7, <3>1 DEF Ready, Take, LeaveFree, JoinBusy, Recv, LeaveBusy, JoinFree
    <2>8. ASSUME NEW w \in Threads, Close(w)
          PROVE  Goal
      <3>1. exits = 0 /\ served' = served
        BY <2>8 DEF Close
      <3>2. Cardinality(At(CountAt))' = Cardinality(At(CountAt)) + 1
        BY <2>8, GotoCounts DEF Close, CountAt, Inv
      <3>3. Cardinality(Standing({"served"}))' = Cardinality(Standing({"served"})) + 1
        BY <2>8, <3>1, CloseServes, ConnCounts DEF OneHolder
      <3> QED
        BY <2>1, <2>2, <3>1, <3>2, <3>3
    <2>9. ASSUME NEW w \in Threads, Count(w)
          PROVE  Goal
      <3>1. exits = 0 /\ served' = served + 1 /\ UNCHANGED conn
        BY <2>9 DEF Count
      <3>2. Cardinality(At(CountAt))' = Cardinality(At(CountAt)) - 1
        BY <2>9, GotoCounts DEF Count, CountAt, Inv
      <3> QED
        BY <2>1, <2>2, <3>1, <3>2 DEF Standing
    <2>10. ASSUME NEW c \in Clients, Client(c)
          PROVE  Goal
      <3>1. CASE Connect(c)
        <4>1. /\ UNCHANGED <<served, exits, pc>> /\ conn[c] = "away" /\ conn'[c] = "backlog"
              /\ \A d \in Clients \ {c} : conn'[d] = conn[d]
          BY <3>1 DEF Connect, Inv, TypeOK
        <4>2. Cardinality(Standing({"served"}))' = Cardinality(Standing({"served"}))
          BY <4>1, ConnCounts
        <4> QED
          BY <2>2, <4>1, <4>2 DEF At
      <3>2. CASE Speak(c)
        BY <2>3, <3>2 DEF Speak, At
      <3> QED
        BY <2>10, <3>1, <3>2 DEF Client
    <2>11. CASE Exit
      BY <2>11 DEF Exit, Inv, TypeOK
    <2>12. ASSUME NEW S \in SUBSET Threads, Restart(S)
          PROVE  FALSE
      BY <2>12 DEF Restart, Inv, DownIsEmpty
    <2>13. ASSUME NEW w \in Threads, NEW S \in SUBSET Threads, ThreadExit(w, S)
           PROVE  Goal
      <3>1. Standing({"served"})' = Standing({"served"})
        BY <2>13, ThreadExitEffect DEF Standing, Where, Inv, TypeOK
      <3> QED
        BY <2>2, <2>13, <3>1, ThreadExitEffect
    <2> QED
      BY <2>4, <2>5, <2>6, <2>7, <2>8, <2>9, <2>10, <2>11, <2>12, <2>13 DEF Next, Main, Thread
  <1> QED
    BY <1>1, <1>2, InvHolds, OneHolderHolds, TableHolds, PTL DEF Spec

(* A connection that main has accepted is open until a thread closes it,   *)
(* and each is counted once: with main, in the queue or with a thread.     *)
OpenExact ==
  exits = 0 => Cardinality(At(HoldAt)) + Len(queue) + (IF mfd = None THEN 0 ELSE 1)
                 = Cardinality(Standing({"open"}))

LEMMA OpenHolds == Spec => []OpenExact
  <1>1. Init => OpenExact
    <2> SUFFICES ASSUME Init PROVE OpenExact
      OBVIOUS
    <2>1. At(HoldAt) = {} /\ Standing({"open"}) = {} /\ Len(queue) = 0 /\ mfd = None
      BY DEF Init, PoolInit, Fresh, At, HoldAt, Standing, Where
    <2> QED
      BY <2>1, FS_EmptySet DEF OpenExact
  <1>2. ASSUME Inv, OneHolder, TableExact, OpenExact, [Next]_vars
        PROVE  OpenExact'
    <2> DEFINE Mine == IF mfd = None THEN 0 ELSE 1
               Goal == Cardinality(At(HoldAt))' + Len(queue') + Mine'
                         = Cardinality(Standing({"open"}))'
    <2> SUFFICES ASSUME exits' = 0 PROVE Goal
      BY DEF OpenExact
    <2> USE <1>2 DEF pool, kernel
    <2>1. Cardinality(At(HoldAt)) \in Nat /\ Len(queue) \in Nat
      <3>1. At(HoldAt) = Where(Threads, pc, HoldAt)
        BY DEF At, Where
      <3> QED
        BY <3>1, ConstantsAssumption, WhereFinite DEF Inv, TypeOK
    <2>2. exits = 0 =>
            Cardinality(At(HoldAt)) + Len(queue) + Mine = Cardinality(Standing({"open"}))
      BY DEF OpenExact
    <2>3. ASSUME UNCHANGED <<queue, mfd, conn, exits>>, At(HoldAt)' = At(HoldAt)
          PROVE  Goal
      BY <2>2, <2>3 DEF Standing
    <2>4. CASE Poll \/ CheckFree \/ CheckBusy \/ PollNothing \/ UNCHANGED vars
      BY <2>3, <2>4 DEF Poll, CheckFree, CheckBusy, PollNothing, vars, At
    <2>5. ASSUME NEW c \in Clients, NEW f \in Fds, Accept(c, f)
          PROVE  Goal
      <3>1. /\ UNCHANGED <<exits, pc, queue>> /\ conn[c] = "backlog" /\ conn'[c] = "open"
            /\ \A d \in Clients \ {c} : conn'[d] = conn[d]
            /\ mfd' # None /\ main = "tcp_accept"
        BY <2>5, ConstantsAssumption DEF Accept, Pending, Inv, TypeOK
      <3>2. Cardinality(Standing({"open"}))' = Cardinality(Standing({"open"})) + 1
        BY <3>1, ConnCounts
      <3>3. mfd = None
        BY <3>1 DEF Inv, MainHolds
      <3>4. At(HoldAt)' = At(HoldAt)
        BY <3>1 DEF At
      <3> QED
        BY <2>1, <2>2, <3>1, <3>2, <3>3, <3>4
    <2>6. CASE Send
      <3>1. /\ mfd \in Fds /\ mfd # None /\ mfd' = None /\ queue' = Append(queue, mfd)
            /\ UNCHANGED <<exits, pc, conn>> /\ queue \in Seq(Fds)
        BY <2>6, ConstantsAssumption DEF Send, Inv, MainHolds, TypeOK
      <3>2. Len(queue') = Len(queue) + 1
        BY <3>1
      <3>3. At(HoldAt)' = At(HoldAt) /\ Standing({"open"})' = Standing({"open"})
        BY <3>1 DEF At, Standing
      <3> QED
        BY <2>1, <2>2, <3>1, <3>2, <3>3
    <2>7. ASSUME NEW S \in SUBSET Threads, Grow(S)
          PROVE  Goal
      <3>1. At(HoldAt)' = At(HoldAt)
        BY <2>7 DEF Grow, CreateThreads, At, HoldAt
      <3> QED
        BY <2>3, <2>7, <3>1 DEF Grow
    <2>8. ASSUME NEW w \in Threads,
                 \/ Ready(w) \/ LeaveFree(w) \/ JoinBusy(w) \/ Recv(w)
                 \/ LeaveBusy(w) \/ JoinFree(w) \/ Count(w)
          PROVE  Goal
      <3>1. At(HoldAt)' = At(HoldAt)
        BY <2>8 DEF Ready, LeaveFree, JoinBusy, Recv, LeaveBusy, JoinFree, Count, Goto, At,
           HoldAt, Inv, TypeOK
      <3> QED
        BY <2>3, <2>8, <3>1 DEF Ready, LeaveFree, JoinBusy, Recv, LeaveBusy, JoinFree, Count
    <2>9. ASSUME NEW w \in Threads, Take(w)
          PROVE  Goal
      <3>1. /\ UNCHANGED <<exits, conn, mfd>> /\ queue # <<>> /\ queue' = Tail(queue)
            /\ queue \in Seq(Fds)
        BY <2>9 DEF Take, Inv, TypeOK
      <3>2. Len(queue') = Len(queue) - 1
        BY <3>1
      <3>3. Cardinality(At(HoldAt))' = Cardinality(At(HoldAt)) + 1
        BY <2>9, GotoCounts DEF Take, HoldAt, Inv
      <3>4. Standing({"open"})' = Standing({"open"})
        BY <3>1 DEF Standing
      <3> QED
        BY <2>1, <2>2, <3>1, <3>2, <3>3, <3>4
    <2>10. ASSUME NEW w \in Threads, Close(w)
          PROVE  Goal
      <3>1. UNCHANGED <<exits, queue, mfd>>
        BY <2>10 DEF Close
      <3>2. Cardinality(At(HoldAt))' = Cardinality(At(HoldAt)) - 1
        BY <2>10, GotoCounts DEF Close, HoldAt, Inv
      <3>3. Cardinality(Standing({"open"}))' = Cardinality(Standing({"open"})) - 1
        BY <2>10, <3>1, CloseServes, ConnCounts DEF OneHolder
      <3> QED
        BY <2>1, <2>2, <3>1, <3>2, <3>3
    <2>11. ASSUME NEW c \in Clients, Client(c)
          PROVE  Goal
      <3>1. CASE Connect(c)
        <4>1. /\ UNCHANGED <<queue, mfd, exits, pc>> /\ conn[c] = "away" /\ conn'[c] = "backlog"
              /\ \A d \in Clients \ {c} : conn'[d] = conn[d]
          BY <3>1 DEF Connect, Inv, TypeOK
        <4>2. Cardinality(Standing({"open"}))' = Cardinality(Standing({"open"}))
          BY <4>1, ConnCounts
        <4> QED
          BY <2>2, <4>1, <4>2 DEF At
      <3>2. CASE Speak(c)
        BY <2>3, <3>2 DEF Speak, At
      <3> QED
        BY <2>11, <3>1, <3>2 DEF Client
    <2>12. CASE Exit
      BY <2>12 DEF Exit, Inv, TypeOK
    <2>13. ASSUME NEW S \in SUBSET Threads, Restart(S)
          PROVE  FALSE
      BY <2>13 DEF Restart, Inv, DownIsEmpty
    <2>14. ASSUME NEW w \in Threads, NEW S \in SUBSET Threads, ThreadExit(w, S)
           PROVE  Goal
      <3>1. Standing({"open"})' = Standing({"open"})
        BY <2>14, ThreadExitEffect DEF Standing, Where, Inv, TypeOK
      <3> QED
        BY <2>2, <2>14, <3>1, ThreadExitEffect
    <2> QED
      BY <2>4, <2>5, <2>6, <2>7, <2>8, <2>9, <2>10, <2>11, <2>12, <2>13, <2>14 DEF Next, Main, Thread
  <1> QED
    BY <1>1, <1>2, InvHolds, OneHolderHolds, TableHolds, PTL DEF Spec

(* What growth is decided on: when main creates threads, more clients have *)
(* come than the pool has threads.                                         *)
Come == {"backlog", "open", "served", "lost"}
Fits ==
  exits = 0 =>
    /\ main = "tcp_grow" => threads_count < Cardinality(Standing(Come))
    /\ threads_count > DefAlloc => threads_count - DefAlloc < Cardinality(Standing(Come))

(* Each busy thread has a client of its own, whose connection is open or   *)
(* has just been closed, and main has one more.                            *)
LEMMA BusyHaveClients ==
  ASSUME Inv, OpenExact, TallyExact, exits = 0, main = "tcp_busy"
  PROVE  busy < Cardinality(Standing(Come))
  <1>1. IsFiniteSet(Threads) /\ IsFiniteSet(Clients)
    BY ConstantsAssumption
  <1>2. \A P : At(P) = Where(Threads, pc, P) /\ Standing(P) = Where(Clients, conn, P)
    BY DEF At, Standing, Where
  <1>3. busy = Cardinality(At(BusyAt))
    BY DEF Inv, SemaphoreAccounting
  <1>4. /\ BusyAt \subseteq HoldAt \cup CountAt /\ HoldAt \cap CountAt = {}
        /\ {"open"} \cup {"served"} \subseteq Come /\ {"open"} \cap {"served"} = {}
    BY DEF BusyAt, HoldAt, CountAt, Come
  <1>5. Cardinality(At(BusyAt)) <= Cardinality(At(HoldAt \cup CountAt))
    BY <1>1, <1>2, <1>4, WhereMonotone
  <1>6. Cardinality(At(HoldAt \cup CountAt)) = Cardinality(At(HoldAt)) + Cardinality(At(CountAt))
    BY <1>1, <1>2, <1>4, WhereDisjoint
  <1>7. Cardinality(Standing({"open"} \cup {"served"}))
          = Cardinality(Standing({"open"})) + Cardinality(Standing({"served"}))
    BY <1>1, <1>2, <1>4, WhereDisjoint
  <1>8. Cardinality(Standing({"open"} \cup {"served"})) <= Cardinality(Standing(Come))
    BY <1>1, <1>2, <1>4, WhereMonotone
  <1>9. Cardinality(At(HoldAt)) + Len(queue) + 1 = Cardinality(Standing({"open"}))
    <2>1. mfd # None
      BY ConstantsAssumption DEF Inv, MainHolds
    <2> QED
      BY <2>1 DEF OpenExact
  <1>10. served + Cardinality(At(CountAt)) = Cardinality(Standing({"served"}))
    BY <1>2 DEF TallyExact, CountAt, Where
  <1>11. /\ Cardinality(At(HoldAt)) \in Nat /\ Cardinality(At(CountAt)) \in Nat
         /\ Cardinality(At(BusyAt)) \in Nat /\ Cardinality(Standing(Come)) \in Nat
         /\ Cardinality(At(HoldAt \cup CountAt)) \in Nat
         /\ Cardinality(Standing({"open"} \cup {"served"})) \in Nat
         /\ Cardinality(Standing({"open"})) \in Nat /\ Cardinality(Standing({"served"})) \in Nat
         /\ Len(queue) \in Nat /\ served \in Nat
    BY <1>1, <1>2, WhereFinite DEF Inv, TypeOK
  <1>12. PICK b \in Nat, h \in Nat, k \in Nat, hk \in Nat, o \in Nat, d \in Nat, od \in Nat,
              m \in Nat :
           /\ b = Cardinality(At(BusyAt)) /\ h = Cardinality(At(HoldAt))
           /\ k = Cardinality(At(CountAt)) /\ hk = Cardinality(At(HoldAt \cup CountAt))
           /\ o = Cardinality(Standing({"open"})) /\ d = Cardinality(Standing({"served"}))
           /\ od = Cardinality(Standing({"open"} \cup {"served"})) /\ m = Cardinality(Standing(Come))
    BY <1>11
  <1>13. PICK q \in Nat, v \in Nat : q = Len(queue) /\ v = served
    BY <1>11
  <1>14. b <= hk /\ hk = h + k /\ od = o + d /\ od <= m /\ h + q + 1 = o /\ v + k = d
    BY <1>5, <1>6, <1>7, <1>8, <1>9, <1>10, <1>12, <1>13
  <1>15. b < m
    BY <1>14
  <1> QED
    BY <1>3, <1>12, <1>15

(* No client goes back to where it came from.                              *)
LEMMA ComeStays ==
  ASSUME Inv, [Next]_vars
  PROVE  /\ Cardinality(Standing(Come)) \in Nat /\ Cardinality(Standing(Come))' \in Nat
         /\ Cardinality(Standing(Come)) <= Cardinality(Standing(Come))'
  <1>1. \A c \in Clients : conn[c] \in Come => conn'[c] \in Come
    BY DEF Next, Main, Thread, Client, Connect, Speak, Poll, CheckFree, CheckBusy, Send, Accept,
       Grow, Ready, Take, LeaveFree, JoinBusy, Recv, Close, LeaveBusy, JoinFree, Count, Exit,
       ThreadExit, Restart, PollNothing, vars, kernel, pool, Inv, TypeOK, Come, Pending
  <1>2. Standing(Come)' = {c \in Clients : conn'[c] \in Come}
    BY DEF Standing, Where
  <1>3. Standing(Come) \subseteq Standing(Come)'
    BY <1>1, <1>2 DEF Standing, Where
  <1>4. IsFiniteSet(Standing(Come)')
    <2>1. Standing(Come)' \in SUBSET Clients
      BY <1>2
    <2> QED
      BY <2>1, ConstantsAssumption, FS_Subset
  <1> QED
    BY <1>3, <1>4, FS_Subset, FS_CardinalityType

(* The pool grows with the demand: main never creates a batch of threads   *)
(* while fewer clients have come than there are threads already.           *)
THEOREM PoolFits == Spec => []PoolFitsDemand
  <1> DEFINE come == Cardinality(Standing(Come))
  <1>1. Init => Fits
    <2>1. Init => main = "poll" /\ threads_count = DefAlloc /\ DefAlloc \in Nat
      BY ConstantsAssumption DEF Init, PoolInit, Fresh
    <2> HIDE DEF come
    <2> QED
      BY <2>1 DEF Fits
  <1>2. ASSUME Inv, OpenExact, TallyExact, Fits, [Next]_vars
        PROVE  Fits'
    <2> SUFFICES ASSUME exits' = 0
                 PROVE  /\ main' = "tcp_grow" => threads_count' < come'
                        /\ threads_count' > DefAlloc => threads_count' - DefAlloc < come'
      BY DEF Fits
    <2>1. exits = 0 /\ exits \in Nat
      BY <1>2 DEF Next, Main, Thread, Client, Connect, Speak, Poll, CheckFree, CheckBusy, Send,
         Accept, Grow, Ready, Take, LeaveFree, JoinBusy, Recv, Close, LeaveBusy, JoinFree, Count,
         Exit, ThreadExit, Restart, PollNothing, vars, kernel, pool, Inv, TypeOK
    <2>2. /\ come \in Nat /\ come' \in Nat /\ come <= come'
          /\ threads_count \in Nat /\ DefAlloc \in Nat
      BY <1>2, ComeStays, ConstantsAssumption DEF Inv, TypeOK
    <2>3. /\ main = "tcp_grow" => threads_count < come
          /\ threads_count > DefAlloc => threads_count - DefAlloc < come
      BY <1>2, <2>1 DEF Fits
    <2>4. CASE CheckBusy
      <3>1. threads_count' = threads_count /\ (main' = "tcp_grow" => busy = threads_count)
        BY <2>4 DEF CheckBusy, pool
      <3>2. busy < come
        BY <1>2, <2>1, <2>4, BusyHaveClients DEF CheckBusy
      <3> HIDE DEF come
      <3> QED
        BY <2>2, <2>3, <3>1, <3>2
    <2>5. ASSUME NEW S \in SUBSET Threads, Grow(S)
          PROVE  /\ main' = "tcp_grow" => threads_count' < come'
                 /\ threads_count' > DefAlloc => threads_count' - DefAlloc < come'
      <3>1. threads_count' = threads_count + DefAlloc /\ main = "tcp_grow" /\ main' = "tcp_send"
        BY <2>5 DEF Grow
      <3> HIDE DEF come
      <3> QED
        BY <2>2, <2>3, <3>1
    <2>6. CASE ~CheckBusy /\ ~\E S \in SUBSET Threads : Grow(S)
      <3>1. ASSUME NEW S \in SUBSET Threads, Restart(S)
            PROVE  FALSE
        BY <1>2, <2>1, <3>1 DEF Restart, Inv, DownIsEmpty
      <3>2. threads_count' = threads_count /\ (main' = "tcp_grow" => main = "tcp_grow")
        BY <1>2, <2>6, <3>1, ConstantsAssumption DEF Next, Main, Thread, Client, Connect, Speak,
           Poll, CheckFree, Send, Accept, Ready, Take, LeaveFree, JoinBusy, Recv, Close,
           LeaveBusy, JoinFree, Count, Exit, ThreadExit, PollNothing, vars, kernel, pool
      <3> HIDE DEF come
      <3> QED
        BY <2>2, <2>3, <3>2
    <2> QED
      BY <2>4, <2>5, <2>6
  <1>3. ASSUME Inv, Fits
        PROVE  PoolFitsDemand
    <2>1. Standing(Come) = {c \in Clients : conn[c] # "away"}
      BY <1>3 DEF Standing, Where, Come, Inv, TypeOK
    <2> QED
      BY <1>3, <2>1 DEF Fits, PoolFitsDemand
  <1> QED
    BY <1>1, <1>2, <1>3, InvHolds, OpenHolds, TallyIsExact, PTL DEF Spec

-----------------------------------------------------------------------------
(* Ends and restarts: a new process receives the descriptors its           *)
(* predecessor left in the queue, numbers of other connections by then or  *)
(* of none.                                                                *)

(* No connection is forgotten: an open one is with main, in the queue or   *)
(* with a thread, though a number that has come from another process may   *)
(* stand for it.                                                           *)
NoneForgotten ==
  \A c \in Clients :
    conn[c] = "open" => Held(c) \/ Queued(c) \/ (mfd # None /\ file[mfd] = c)

LEMMA NoneForgottenHolds == Spec => []NoneForgotten
  <1>1. Init => NoneForgotten
    BY DEF Init, PoolInit, NoneForgotten
  <1>2. ASSUME Inv, TableExact, HeldAreNumbers, NoneForgotten, [Next]_vars
        PROVE  NoneForgotten'
    <2> USE <1>2 DEF pool, kernel
    <2>1. ASSUME UNCHANGED <<mfd, queue, file, wfd>>, At(HoldAt)' = At(HoldAt),
                 \A c \in Clients : conn'[c] = "open" => conn[c] = "open"
          PROVE  NoneForgotten'
      BY <2>1 DEF NoneForgotten, Held, Queued
    <2>2. CASE Poll \/ CheckFree \/ CheckBusy \/ PollNothing \/ UNCHANGED vars
      BY <2>1, <2>2 DEF Poll, CheckFree, CheckBusy, PollNothing, vars, At
    <2>3. ASSUME NEW c \in Clients, NEW f \in Fds, Accept(c, f)
          PROVE  NoneForgotten'
      <3>1. /\ UNCHANGED <<wfd, queue>> /\ At(HoldAt)' = At(HoldAt)
            /\ mfd = None /\ mfd' = f /\ f # None
            /\ file[f] = None /\ file'[f] = c /\ \A g \in Fds \ {f} : file'[g] = file[g]
            /\ \A d \in Clients \ {c} : conn'[d] = conn[d] /\ d # None
        BY <2>3, ConstantsAssumption DEF Accept, At, Inv, TypeOK, MainHolds
      <3>2. \A d \in Clients \ {c} : Held(d) => Held(d)'
        BY <3>1 DEF Held, HeldAreNumbers
      <3>3. \A d \in Clients \ {c} : Queued(d) => Queued(d)'
        <4>1. \A i \in DOMAIN queue : queue[i] \in Fds
          BY DEF Inv, TypeOK
        <4> QED
          BY <3>1, <4>1 DEF Queued
      <3> QED
        BY <3>1, <3>2, <3>3 DEF NoneForgotten
    <2>4. CASE Send
      <3>1. /\ UNCHANGED <<file, conn, wfd>> /\ At(HoldAt)' = At(HoldAt)
            /\ mfd \in Fds /\ queue \in Seq(Fds) /\ queue' = Append(queue, mfd)
        BY <2>4 DEF Send, At, Inv, TypeOK, MainHolds
      <3>2. /\ \A i \in DOMAIN queue : i \in DOMAIN queue' /\ queue'[i] = queue[i]
            /\ Len(queue) + 1 \in DOMAIN queue' /\ queue'[Len(queue) + 1] = mfd
        BY <3>1, QueueEnds
      <3>3. \A c \in Clients : (Held(c) => Held(c)') /\ (Queued(c) => Queued(c)')
                               /\ (file[mfd] = c => Queued(c)')
        BY <3>1, <3>2 DEF Held, Queued
      <3> QED
        BY <3>1, <3>3 DEF NoneForgotten
    <2>5. ASSUME NEW S \in SUBSET Threads, Grow(S) \/ Restart(S)
          PROVE  NoneForgotten'
      <3>1. At(HoldAt)' = At(HoldAt)
        BY <2>5 DEF Grow, Restart, CreateThreads, At, HoldAt
      <3> QED
        BY <2>1, <2>5, <3>1 DEF Grow, Restart
    <2>6. ASSUME NEW w \in Threads,
                 \/ Ready(w) \/ LeaveFree(w) \/ JoinBusy(w) \/ Recv(w)
                 \/ LeaveBusy(w) \/ JoinFree(w) \/ Count(w)
          PROVE  NoneForgotten'
      <3>1. At(HoldAt)' = At(HoldAt)
        BY <2>6 DEF Ready, LeaveFree, JoinBusy, Recv, LeaveBusy, JoinFree, Count, Goto, At,
           HoldAt, Inv, TypeOK
      <3> QED
        BY <2>1, <2>6, <3>1 DEF Ready, LeaveFree, JoinBusy, Recv, LeaveBusy, JoinFree, Count
    <2>7. ASSUME NEW w \in Threads, Take(w)
          PROVE  NoneForgotten'
      <3>1. /\ queue \in Seq(Fds) /\ queue # <<>> /\ queue' = Tail(queue)
            /\ UNCHANGED <<mfd, file, conn>> /\ wfd'[w] = queue[1]
            /\ \A v \in At(HoldAt) : wfd'[v] = wfd[v]
            /\ At(HoldAt)' = At(HoldAt) \cup {w}
        BY <2>7, QueueEnds DEF Take, Goto, Inv, TypeOK, At, HoldAt
      <3>2. \A c \in Clients : Held(c) => Held(c)'
        BY <3>1 DEF Held
      <3>3. ASSUME NEW c \in Clients, NEW i \in DOMAIN queue, file[queue[i]] = c
            PROVE  Held(c)' \/ Queued(c)'
        <4>1. CASE i = 1
          BY <3>1, <3>3, <4>1 DEF Held
        <4>2. CASE i # 1
          <5>1. i - 1 \in DOMAIN queue' /\ queue'[i - 1] = queue[i]
            BY <3>1, <4>2
          <5> QED
            BY <3>1, <3>3, <5>1 DEF Queued
        <4> QED
          BY <4>1, <4>2
      <3> QED
        BY <3>1, <3>2, <3>3 DEF NoneForgotten, Queued
    <2>8. ASSUME NEW w \in Threads, Close(w)
          PROVE  NoneForgotten'
      <3>1. /\ UNCHANGED <<mfd, queue>> /\ wfd[w] \in Fds
            /\ \A f \in Fds \ {wfd[w]} : file'[f] = file[f]
            /\ \A c \in Clients : conn'[c] = "open" => c # file[wfd[w]] /\ conn[c] = "open"
        BY <2>8, CloseEffect DEF Close
      <3>2. /\ At(HoldAt)' = At(HoldAt) \ {w}
            /\ \A v \in At(HoldAt) \ {w} : wfd'[v] = wfd[v] /\ wfd[v] \in Fds
        BY <2>8 DEF Close, Goto, Inv, TypeOK, At, HoldAt, HeldAreNumbers
      <3>3. ASSUME NEW c \in Clients, c # file[wfd[w]]
            PROVE  (Held(c) => Held(c)') /\ (Queued(c) => Queued(c)')
        <4>1. Held(c) => Held(c)'
          BY <3>1, <3>2, <3>3 DEF Held
        <4>2. \A i \in DOMAIN queue : queue[i] \in Fds
          BY DEF Inv, TypeOK
        <4> QED
          BY <3>1, <3>3, <4>1, <4>2 DEF Queued
      <3>4. mfd \in Fds \cup {None}
        BY DEF Inv, TypeOK
      <3> QED
        BY <3>1, <3>3, <3>4 DEF NoneForgotten
    <2>9. ASSUME NEW c \in Clients, Client(c)
          PROVE  NoneForgotten'
      BY <2>1, <2>9 DEF Client, Connect, Speak, At, Inv, TypeOK
    <2>10. CASE Exit
      BY <2>10 DEF Exit, NoneForgotten, Inv, TypeOK
    <2>11. ASSUME NEW w \in Threads, NEW S \in SUBSET Threads, ThreadExit(w, S)
           PROVE  NoneForgotten'
      <3>1. \A c \in Clients : conn'[c] = "open" => conn[c] = "open"
        BY <2>11, ThreadExitEffect
      <3> QED
        BY <2>1, <2>11, <3>1, ThreadExitEffect
    <2> QED
      BY <2>2, <2>3, <2>4, <2>5, <2>6, <2>7, <2>8, <2>9, <2>10, <2>11 DEF Next, Main, Thread
  <1> QED
    BY <1>1, <1>2, InvHolds, NumbersHold, TableHolds, PTL DEF Spec

(* The tally is covered: who has been counted since the process started,   *)
(* who is about to be, and what main, the queue and the threads still have *)
(* to count are together not more than the connections ever accepted.  A   *)
(* number left in the queue is covered by the connection it stood for.     *)
Taken == {"open", "served", "lost"}
Mine == IF mfd = None THEN 0 ELSE 1
Counted == IF main = "down" THEN 0 ELSE served
TallyCovered ==
  Counted + Cardinality(At(CountAt)) + Cardinality(At(HoldAt)) + Len(queue) + Mine
    <= Cardinality(Standing(Taken))

LEMMA CountsAreNumbers ==
  ASSUME Inv, NEW P
  PROVE  /\ IsFiniteSet(At(P)) /\ Cardinality(At(P)) \in Nat
         /\ IsFiniteSet(Standing(P)) /\ Cardinality(Standing(P)) \in Nat
         /\ Len(queue) \in Nat /\ Counted \in Nat /\ Mine \in Nat
  <1>1. At(P) = Where(Threads, pc, P) /\ Standing(P) = Where(Clients, conn, P)
    BY DEF At, Standing, Where
  <1>2. Len(queue) \in Nat /\ Counted \in Nat /\ Mine \in Nat
    BY DEF Counted, Mine, Inv, TypeOK
  <1> QED
    BY <1>1, <1>2, ConstantsAssumption, WhereFinite

LEMMA TallyCoveredHolds == Spec => []TallyCovered
  <1>1. Init => TallyCovered
    <2> SUFFICES ASSUME Init PROVE TallyCovered
      OBVIOUS
    <2>1. /\ At(HoldAt) = {} /\ At(CountAt) = {} /\ Standing(Taken) = {}
          /\ Len(queue) = 0 /\ mfd = None /\ Counted = 0
      BY DEF Init, PoolInit, Fresh, At, HoldAt, CountAt, Standing, Taken, Where, Counted
    <2> QED
      BY <2>1, FS_EmptySet DEF TallyCovered, Mine
  <1>2. ASSUME Inv, HeldAreNumbers, TableExact, TallyCovered, [Next]_vars
        PROVE  TallyCovered'
    <2> USE <1>2 DEF pool, kernel
    <2>1. PICK done \in Nat, back \in Nat, held \in Nat, waiting \in Nat, mine \in Nat, taken \in Nat :
             /\ Counted = done /\ Cardinality(At(CountAt)) = back
             /\ Cardinality(At(HoldAt)) = held /\ Len(queue) = waiting /\ Mine = mine
             /\ Cardinality(Standing(Taken)) = taken
      BY CountsAreNumbers
    <2>2. done + back + held + waiting + mine <= taken
      BY <2>1 DEF TallyCovered
    <2>3. ASSUME UNCHANGED <<queue, mfd>>, Counted' = Counted, Standing(Taken)' = Standing(Taken),
                 At(HoldAt)' = At(HoldAt), At(CountAt)' = At(CountAt)
          PROVE  TallyCovered'
      BY <2>3 DEF TallyCovered, Mine
    <2>4. CASE Poll \/ CheckFree \/ CheckBusy \/ PollNothing \/ UNCHANGED vars
      BY <2>3, <2>4, ConstantsAssumption
         DEF Poll, CheckFree, CheckBusy, PollNothing, vars, At, Standing, Counted
    <2>5. ASSUME NEW c \in Clients, NEW f \in Fds, Accept(c, f)
          PROVE  TallyCovered'
      <3>1. /\ UNCHANGED <<pc, queue>> /\ conn[c] = "backlog" /\ conn'[c] = "open"
            /\ \A d \in Clients \ {c} : conn'[d] = conn[d]
            /\ Mine = 0 /\ Mine' = 1 /\ Counted' = Counted
        BY <2>5, ConstantsAssumption DEF Accept, Pending, Inv, TypeOK, MainHolds, Counted, Mine
      <3>2. "backlog" \notin Taken /\ "open" \in Taken
        BY DEF Taken
      <3>3. Cardinality(Standing(Taken))' = Cardinality(Standing(Taken)) + 1
        BY <3>1, <3>2, ConnCounts
      <3>4. /\ Cardinality(At(HoldAt))' = Cardinality(At(HoldAt))
            /\ Cardinality(At(CountAt))' = Cardinality(At(CountAt))
        BY <3>1 DEF At
      <3>5. Len(queue') = Len(queue)
        BY <3>1
      <3> QED
        BY <2>1, <2>2, <3>1, <3>3, <3>4, <3>5 DEF TallyCovered
    <2>6. CASE Send
      <3>1. /\ Mine = 1 /\ Mine' = 0 /\ queue \in Seq(Fds) /\ queue' = Append(queue, mfd)
            /\ UNCHANGED <<pc, conn>> /\ Counted' = Counted
        BY <2>6, ConstantsAssumption DEF Send, Inv, MainHolds, TypeOK, Counted, Mine
      <3>2. Len(queue') = Len(queue) + 1
        BY <3>1
      <3>3. /\ At(HoldAt)' = At(HoldAt) /\ At(CountAt)' = At(CountAt)
            /\ Standing(Taken)' = Standing(Taken)
        BY <3>1 DEF At, Standing
      <3> QED
        BY <2>1, <2>2, <3>1, <3>2, <3>3 DEF TallyCovered
    <2>7. ASSUME NEW S \in SUBSET Threads, Grow(S) \/ Restart(S)
          PROVE  TallyCovered'
      <3>1. At(HoldAt)' = At(HoldAt) /\ At(CountAt)' = At(CountAt)
        BY <2>7 DEF Grow, Restart, CreateThreads, At, HoldAt, CountAt
      <3>2. Counted' = Counted /\ UNCHANGED <<queue, mfd, conn>>
        BY <2>7 DEF Grow, Restart, Counted
      <3> QED
        BY <2>3, <3>1, <3>2 DEF Standing
    <2>8. ASSUME NEW w \in Threads,
                 \/ Ready(w) \/ LeaveFree(w) \/ JoinBusy(w) \/ Recv(w)
                 \/ LeaveBusy(w) \/ JoinFree(w)
          PROVE  TallyCovered'
      <3>1. At(HoldAt)' = At(HoldAt) /\ At(CountAt)' = At(CountAt)
        BY <2>8 DEF Ready, LeaveFree, JoinBusy, Recv, LeaveBusy, JoinFree, Goto, At,
           HoldAt, CountAt, Inv, TypeOK
      <3> QED
        BY <2>3, <2>8, <3>1
           DEF Ready, LeaveFree, JoinBusy, Recv, LeaveBusy, JoinFree, Standing, Counted
    <2>9. ASSUME NEW w \in Threads, Take(w)
          PROVE  TallyCovered'
      <3>1. /\ UNCHANGED conn /\ Counted' = Counted /\ Mine' = Mine
            /\ queue # <<>> /\ queue' = Tail(queue) /\ queue \in Seq(Fds)
        BY <2>9 DEF Take, Inv, TypeOK, Counted, Mine
      <3>2. Len(queue') = Len(queue) - 1
        BY <3>1
      <3>3. /\ Cardinality(At(HoldAt))' = Cardinality(At(HoldAt)) + 1
            /\ Cardinality(At(CountAt))' = Cardinality(At(CountAt))
        BY <2>9, GotoCounts DEF Take, HoldAt, CountAt, Inv
      <3>4. Standing(Taken)' = Standing(Taken)
        BY <3>1 DEF Standing
      <3> QED
        BY <2>1, <2>2, <3>1, <3>2, <3>3, <3>4 DEF TallyCovered
    <2>10. ASSUME NEW w \in Threads, Close(w)
           PROVE  TallyCovered'
      <3>1. UNCHANGED queue /\ Counted' = Counted /\ Mine' = Mine
        BY <2>10 DEF Close, Counted, Mine
      <3>2. /\ Cardinality(At(HoldAt))' = Cardinality(At(HoldAt)) - 1
            /\ Cardinality(At(CountAt))' = Cardinality(At(CountAt)) + 1
        BY <2>10, GotoCounts DEF Close, HoldAt, CountAt, Inv
      <3>3. Standing(Taken)' = Standing(Taken)
        BY <2>10, CloseEffect DEF Standing, Where, Taken
      <3>4. Len(queue') = Len(queue) /\ Cardinality(Standing(Taken))' = Cardinality(Standing(Taken))
        BY <3>1, <3>3
      <3> QED
        BY <2>1, <2>2, <3>1, <3>2, <3>4 DEF TallyCovered
    <2>11. ASSUME NEW w \in Threads, Count(w)
           PROVE  TallyCovered'
      <3>1. UNCHANGED <<queue, conn>> /\ Counted' = Counted + 1 /\ Mine' = Mine
        <4>1. main # "down" /\ main' = main /\ served' = served + 1
          BY <2>11 DEF Count, Goto, Inv, DownIsEmpty
        <4> QED
          BY <2>11, <4>1 DEF Count, Counted, Mine
      <3>2. /\ Cardinality(At(HoldAt))' = Cardinality(At(HoldAt))
            /\ Cardinality(At(CountAt))' = Cardinality(At(CountAt)) - 1
        BY <2>11, GotoCounts DEF Count, HoldAt, CountAt, Inv
      <3>3. Standing(Taken)' = Standing(Taken)
        BY <3>1 DEF Standing
      <3> QED
        BY <2>1, <2>2, <3>1, <3>2, <3>3 DEF TallyCovered
    <2>12. ASSUME NEW c \in Clients, Client(c)
           PROVE  TallyCovered'
      <3>1. Standing(Taken)' = Standing(Taken)
        BY <2>12 DEF Client, Connect, Speak, Standing, Where, Taken, Inv, TypeOK
      <3> QED
        BY <2>3, <2>12, <3>1 DEF Client, Connect, Speak, At, Counted
    <2>13. CASE Exit
      <3>1. At(HoldAt)' = {} /\ At(CountAt)' = {} /\ Mine' = 0 /\ Counted' = 0 /\ queue' = queue
        BY <2>13 DEF Exit, At, HoldAt, CountAt, Counted, Mine
      <3>2. Standing(Taken) \subseteq Standing(Taken)' /\ IsFiniteSet(Standing(Taken)')
        <4>1. Standing(Taken)' \in SUBSET Clients /\ IsFiniteSet(Clients)
          BY ConstantsAssumption DEF Standing, Where
        <4>2. Standing(Taken) \subseteq Standing(Taken)'
          BY <2>13 DEF Exit, Standing, Where, Taken
        <4> QED
          BY <4>1, <4>2, FS_Subset
      <3>3. /\ Cardinality(Standing(Taken)) <= Cardinality(Standing(Taken)')
            /\ Cardinality(Standing(Taken)') \in Nat
        BY <3>2, FS_Subset, FS_CardinalityType
      <3>4. Cardinality(At(HoldAt)') = 0 /\ Cardinality(At(CountAt)') = 0
        BY <3>1, FS_EmptySet
      <3>5. Len(queue') = Len(queue)
        BY <3>1
      <3> QED
        BY <2>1, <2>2, <3>1, <3>3, <3>4, <3>5 DEF TallyCovered
    <2>14. ASSUME NEW w \in Threads, NEW S \in SUBSET Threads, ThreadExit(w, S)
           PROVE  TallyCovered'
      <3>1. /\ UNCHANGED <<queue, mfd, served, main>> /\ \A P : At(P)' = At(P)
            /\ \A c \in Clients : conn'[c] = IF conn[c] = "backlog" THEN "lost" ELSE conn[c]
        BY <2>14, ThreadExitEffect
      <3>2. Standing(Taken) \subseteq Standing(Taken)' /\ IsFiniteSet(Standing(Taken)')
        <4>1. Standing(Taken)' \in SUBSET Clients /\ IsFiniteSet(Clients)
          BY ConstantsAssumption DEF Standing, Where
        <4>2. Standing(Taken) \subseteq Standing(Taken)'
          BY <3>1 DEF Standing, Where, Taken
        <4> QED
          BY <4>1, <4>2, FS_Subset
      <3>3. /\ Cardinality(Standing(Taken)) <= Cardinality(Standing(Taken)')
            /\ Cardinality(Standing(Taken)') \in Nat
        BY <3>2, FS_Subset, FS_CardinalityType
      <3>4. Counted' = Counted /\ Mine' = Mine
        BY <3>1 DEF Counted, Mine
      <3> QED
        BY <2>1, <2>2, <3>1, <3>3, <3>4 DEF TallyCovered
    <2> QED
      BY <2>4, <2>5, <2>6, <2>7, <2>8, <2>9, <2>10, <2>11, <2>12, <2>13, <2>14 DEF Next, Main, Thread
  <1> QED
    BY <1>1, <1>2, InvHolds, NumbersHold, TableHolds, PTL DEF Spec

(* So the open connections are not more than what main, the queue and the  *)
(* threads have.                                                           *)
LEMMA OpenInHands ==
  ASSUME Inv, NoneForgotten
  PROVE  Cardinality(Standing({"open"})) <= Cardinality(At(HoldAt)) + Len(queue) + Mine
  <1> DEFINE H == {c \in Clients : Held(c)}
             Q == {c \in Clients : Queued(c)}
             M == {c \in Clients : mfd # None /\ file[mfd] = c}
             held == [w \in Threads |-> file[wfd[w]]]
             queued == [i \in DOMAIN queue |-> file[queue[i]]]
  <1>1. IsFiniteSet(H) /\ Cardinality(H) \in Nat /\ Cardinality(H) <= Cardinality(At(HoldAt))
    <2>1. \A c \in H : \E w \in At(HoldAt) : held[w] = c
      BY DEF Held, At
    <2> HIDE DEF H, held
    <2> QED
      BY <2>1, CountsAreNumbers, ImageBound
  <1>2. IsFiniteSet(Q) /\ Cardinality(Q) \in Nat /\ Cardinality(Q) <= Len(queue)
    <2>1. DOMAIN queue = 1 .. Len(queue) /\ Len(queue) \in Nat
      BY DEF Inv, TypeOK
    <2>2. IsFiniteSet(DOMAIN queue) /\ Cardinality(DOMAIN queue) = Len(queue)
      BY <2>1, UpTo
    <2>3. \A c \in Q : \E i \in DOMAIN queue : queued[i] = c
      BY DEF Queued
    <2> HIDE DEF Q, queued
    <2>4. IsFiniteSet(Q) /\ Cardinality(Q) \in Nat /\ Cardinality(Q) <= Cardinality(DOMAIN queue)
      BY <2>2, <2>3, ImageBound
    <2> QED
      BY <2>2, <2>4
  <1>3. /\ IsFiniteSet(M) /\ Cardinality(M) \in Nat
        /\ Cardinality(M) <= Mine
    <2>1. CASE mfd = None
      <3>1. M = {}
        BY <2>1
      <3> QED
        BY <2>1, <3>1, FS_EmptySet DEF Mine
    <2>2. CASE mfd # None
      <3>1. M \subseteq {file[mfd]}
        OBVIOUS
      <3>2. /\ IsFiniteSet({file[mfd]}) /\ Cardinality({file[mfd]}) = 1
        BY FS_Singleton
      <3>3. IsFiniteSet(M) /\ Cardinality(M) <= Cardinality({file[mfd]})
        BY <3>1, <3>2, FS_Subset
      <3> QED
        BY <2>2, <3>2, <3>3, FS_CardinalityType DEF Mine
    <2> QED
      BY <2>1, <2>2
  <1>4. Standing({"open"}) \subseteq (H \cup Q) \cup M
    BY DEF NoneForgotten, Standing, Where
  <1> HIDE DEF H, Q, M, held, queued
  <1>5. /\ IsFiniteSet(H \cup Q) /\ Cardinality(H \cup Q) \in Nat
        /\ Cardinality(H \cup Q) <= Cardinality(H) + Cardinality(Q)
    BY <1>1, <1>2, CoverBound
  <1>6. /\ Cardinality(Standing({"open"})) <= Cardinality(H \cup Q) + Cardinality(M)
        /\ Cardinality(Standing({"open"})) \in Nat
    BY <1>3, <1>4, <1>5, CoverBound
  <1>7. Cardinality(At(HoldAt)) \in Nat /\ Len(queue) \in Nat /\ Mine \in Nat
    BY CountsAreNumbers
  <1>8. /\ Cardinality(H \cup Q) <= Cardinality(At(HoldAt)) + Len(queue)
        /\ Cardinality(At(HoldAt)) + Len(queue) \in Nat
    BY <1>1, <1>2, <1>5, <1>7
  <1>9. PICK m \in Nat, n \in Nat, o \in Nat, l \in Nat, k \in Nat :
           /\ Cardinality(M) = m /\ Cardinality(H \cup Q) = n /\ Cardinality(Standing({"open"})) = o
           /\ Mine = l /\ Cardinality(At(HoldAt)) + Len(queue) = k
    BY <1>3, <1>5, <1>6, <1>7, <1>8
  <1>10. o <= n + m /\ m <= l /\ n <= k
    BY <1>3, <1>6, <1>8, <1>9
  <1>11. o <= k + l
    BY <1>10
  <1> QED
    BY <1>9, <1>11

-----------------------------------------------------------------------------
(* The refinement: the pool implements ClientService, over any number of   *)
(* ends and restarts.                                                      *)

(* A client is served by a thread only while its connection is open.       *)
LEMMA StatusIs ==
  ASSUME NEW c \in Clients
  PROVE  /\ conn[c] \in {"away", "served", "lost"} => Status[c] = conn[c]
         /\ conn[c] \notin {"away", "served", "lost"} =>
              Status[c] = IF Held(c) THEN "serving" ELSE "waiting"
  BY DEF Status

LEMMA StatusNext ==
  ASSUME NEW c \in Clients
  PROVE  /\ conn'[c] \in {"away", "served", "lost"} => Status'[c] = conn'[c]
         /\ conn'[c] \notin {"away", "served", "lost"} =>
              Status'[c] = IF Held(c)' THEN "serving" ELSE "waiting"
  BY DEF Status

LEMMA StatusSame ==
  ASSUME \A c \in Clients : conn'[c] = conn[c] /\ (Held(c)' <=> Held(c))
  PROVE  Status' = Status
  BY DEF Status

(* A client whose status changes while all the others keep theirs.         *)
LEMMA StatusMoves ==
  ASSUME NEW c \in Clients, NEW to, Status'[c] = to,
         \A d \in Clients \ {c} : conn'[d] = conn[d] /\ (Held(d)' <=> Held(d))
  PROVE  Status' = [Status EXCEPT ![c] = to]
  <1>1. \A d \in Clients \ {c} : Status'[d] = Status[d]
    BY StatusIs, StatusNext
  <1>2. /\ Status = [d \in Clients |-> Status[d]]
        /\ Status' = [d \in Clients |-> Status'[d]]
    BY DEF Status
  <1> QED
    BY <1>1, <1>2

(* What is with a thread depends on who holds which open descriptor.       *)
LEMMA HeldSame ==
  ASSUME UNCHANGED <<file, wfd>>, At(HoldAt)' = At(HoldAt)
  PROVE  \A c \in Clients : Held(c)' <=> Held(c)
  BY DEF Held

(* Only an open connection is with a thread.                               *)
LEMMA HeldIsOpenConn ==
  ASSUME Inv, TableExact, HeldAreNumbers, NEW c \in Clients, Held(c)
  PROVE  conn[c] = "open"
  <1>1. PICK w \in At(HoldAt) : file[wfd[w]] = c
    BY DEF Held
  <1>2. wfd[w] \in Fds /\ c # None
    BY ConstantsAssumption DEF HeldAreNumbers
  <1> QED
    BY <1>1, <1>2 DEF TableExact

LEMMA ConnectArrives ==
  ASSUME Inv, TableExact, HeldAreNumbers, NEW c \in Clients, Connect(c)
  PROVE  Service!Arrive(c)
  <1>1. /\ UNCHANGED <<file, wfd, served, Door>> /\ Door = "open" /\ At(HoldAt)' = At(HoldAt)
        /\ conn[c] = "away" /\ conn'[c] = "backlog"
        /\ \A d \in Clients \ {c} : conn'[d] = conn[d]
    BY DEF Connect, At, pool, Door, Inv, TypeOK
  <1>2. \A d \in Clients : Held(d)' <=> Held(d)
    BY <1>1, HeldSame
  <1>3. ~Held(c)
    BY <1>1, HeldIsOpenConn
  <1>4. Status[c] = "away" /\ Status'[c] = "waiting"
    BY <1>1, <1>2, <1>3, StatusIs, StatusNext
  <1>5. Status' = [Status EXCEPT ![c] = "waiting"]
    BY <1>1, <1>2, <1>4, StatusMoves
  <1> QED
    BY <1>1, <1>4, <1>5 DEF Service!Arrive, Service!Move, Service!Up

(* A thread that holds the number the kernel now gives away, from the      *)
(* queue of an earlier process, has the new connection at once.            *)
LEMMA AcceptBegins ==
  ASSUME Inv, TableExact, HeldAreNumbers, NEW c \in Clients, NEW f \in Fds, Accept(c, f)
  PROVE  Service!Begin(c) \/ (Status' = Status /\ UNCHANGED <<served, Door>>)
  <1>1. /\ UNCHANGED <<wfd, served, Door>> /\ Door # "gone"
        /\ At(HoldAt)' = At(HoldAt)
        /\ conn[c] = "backlog" /\ conn'[c] = "open"
        /\ file[f] = None /\ file'[f] = c /\ \A g \in Fds \ {f} : file'[g] = file[g]
        /\ \A d \in Clients \ {c} : conn'[d] = conn[d] /\ d # None
    BY ConstantsAssumption DEF Accept, Pending, At, pool, Door, Inv, TypeOK
  <1>2. \A d \in Clients \ {c} : Held(d)' <=> Held(d)
    BY <1>1 DEF Held, HeldAreNumbers
  <1>3. ~Held(c)
    BY <1>1, HeldIsOpenConn
  <1>4. Status[c] = "waiting"
    BY <1>1, <1>3, StatusIs
  <1>5. CASE Held(c)'
    <2>1. Status'[c] = "serving"
      BY <1>1, <1>5, StatusNext
    <2>2. Status' = [Status EXCEPT ![c] = "serving"]
      BY <1>1, <1>2, <2>1, StatusMoves
    <2> QED
      BY <1>1, <1>4, <2>2 DEF Service!Begin, Service!Move, Service!Up
  <1>6. CASE ~Held(c)'
    <2>1. Status'[c] = "waiting"
      BY <1>1, <1>6, StatusNext
    <2>2. Status' = [Status EXCEPT ![c] = "waiting"]
      BY <1>1, <1>2, <2>1, StatusMoves
    <2>3. Status' = Status
      BY <1>4, <2>2 DEF Status
    <2> QED
      BY <1>1, <2>3
  <1> QED
    BY <1>5, <1>6

(* mq_receive begins with the connection the number stands for, if any and *)
(* if no thread has it yet.                                                *)
LEMMA TakeBegins ==
  ASSUME Inv, TableExact, HeldAreNumbers, NEW w \in Threads, Take(w)
  PROVE  \/ \E c \in Clients : Service!Begin(c)
         \/ Status' = Status /\ UNCHANGED <<served, Door>>
  <1>1. /\ queue \in Seq(Fds) /\ queue # <<>> /\ Head(queue) = queue[1] /\ queue[1] \in Fds
        /\ UNCHANGED <<file, conn, served, main, cancelled>>
        /\ wfd'[w] = queue[1] /\ \A v \in Threads \ {w} : wfd'[v] = wfd[v]
        /\ At(HoldAt)' = At(HoldAt) \cup {w} /\ w \notin At(HoldAt) /\ At(HoldAt) \subseteq Threads
    BY QueueEnds DEF Take, Goto, Inv, TypeOK, At, HoldAt
  <1>2. Door # "gone" /\ Door' = Door
    BY <1>1 DEF Take, Goto, Inv, DownIsEmpty, Door
  <1>3. \A v \in At(HoldAt) : wfd'[v] = wfd[v]
    BY <1>1
  <1>4. \A d \in Clients : Held(d)' <=> Held(d) \/ file[queue[1]] = d
    BY <1>1, <1>3 DEF Held
  <1>5. CASE \E c \in Clients : file[queue[1]] = c /\ ~Held(c)
    <2>1. PICK c \in Clients : file[queue[1]] = c /\ ~Held(c)
      BY <1>5
    <2>2. conn[c] = "open"
      BY <1>1, <2>1, ConstantsAssumption DEF TableExact
    <2>3. Held(c)' /\ \A d \in Clients \ {c} : Held(d)' <=> Held(d)
      BY <1>4, <2>1
    <2>4. Status[c] = "waiting" /\ Status'[c] = "serving"
      BY <1>1, <2>1, <2>2, <2>3, StatusIs, StatusNext
    <2>5. Status' = [Status EXCEPT ![c] = "serving"]
      BY <1>1, <2>3, <2>4, StatusMoves
    <2>6. Service!Begin(c)
      BY <1>1, <1>2, <2>4, <2>5 DEF Service!Begin, Service!Move, Service!Up
    <2> QED
      BY <2>6
  <1>6. CASE ~\E c \in Clients : file[queue[1]] = c /\ ~Held(c)
    <2>1. \A d \in Clients : Held(d)' <=> Held(d)
      BY <1>4, <1>6
    <2> QED
      BY <1>1, <1>2, <2>1, StatusSame
  <1> QED
    BY <1>5, <1>6

(* close() finishes the connection the number stands for, if any.          *)
LEMMA CloseFinishes ==
  ASSUME Inv, TableExact, HeldAreNumbers, NEW w \in Threads, Close(w)
  PROVE  \/ \E c \in Clients : Service!Finish(c)
         \/ Status' = Status /\ UNCHANGED <<served, Door>>
  <1>1. /\ wfd[w] \in Fds /\ w \in At(HoldAt) /\ file'[wfd[w]] = None
        /\ file[wfd[w]] \in Clients \cup {None}
        /\ \A f \in Fds \ {wfd[w]} : file'[f] = file[f]
        /\ \A c \in Clients : c = file[wfd[w]] => conn[c] = "open" /\ conn'[c] = "served"
        /\ \A c \in Clients : c # file[wfd[w]] => conn'[c] = conn[c]
    BY CloseEffect
  <1>2. /\ UNCHANGED <<served, Door>> /\ Door # "gone"
        /\ At(HoldAt)' = At(HoldAt) \ {w} /\ At(HoldAt) \subseteq Threads
        /\ \A v \in Threads \ {w} : wfd'[v] = wfd[v]
    BY DEF Close, Goto, Inv, TypeOK, DownIsEmpty, At, HoldAt, Door
  <1>3. \A v \in At(HoldAt) \ {w} : v \in Threads /\ wfd'[v] = wfd[v] /\ wfd[v] \in Fds
    BY <1>2 DEF HeldAreNumbers
  <1>4. \A d \in Clients : d # file[wfd[w]] => (Held(d)' <=> Held(d))
    <2> SUFFICES ASSUME NEW d \in Clients, d # file[wfd[w]]
                 PROVE  Held(d)' <=> Held(d)
      OBVIOUS
    <2>1. d # None
      BY ConstantsAssumption
    <2>2. \A v \in At(HoldAt) \ {w} : file'[wfd'[v]] = d <=> file[wfd[v]] = d
      BY <1>1, <1>3, <2>1
    <2> QED
      BY <1>2, <2>2 DEF Held
  <1>5. CASE file[wfd[w]] \in Clients
    <2> DEFINE c == file[wfd[w]]
    <2>1. c \in Clients /\ Held(c) /\ conn[c] = "open" /\ conn'[c] = "served"
          /\ \A d \in Clients \ {c} : conn'[d] = conn[d] /\ (Held(d)' <=> Held(d))
      BY <1>1, <1>4, <1>5 DEF Held
    <2> HIDE DEF c
    <2>2. Status[c] = "serving" /\ Status'[c] = "served"
      BY <2>1, StatusIs, StatusNext
    <2>3. Status' = [Status EXCEPT ![c] = "served"]
      BY <2>1, <2>2, StatusMoves
    <2>4. Service!Finish(c)
      BY <1>2, <2>2, <2>3 DEF Service!Finish, Service!Move, Service!Up
    <2> QED
      BY <2>1, <2>4
  <1>6. CASE file[wfd[w]] \notin Clients
    <2>1. \A d \in Clients : conn'[d] = conn[d] /\ (Held(d)' <=> Held(d))
      BY <1>1, <1>4, <1>6
    <2> QED
      BY <1>2, <2>1, StatusSame
  <1> QED
    BY <1>5, <1>6

(* What is counted is covered: by a client that was served or one that was *)
(* lost with an earlier process.                                           *)
LEMMA CountReports ==
  ASSUME Inv, NoneForgotten, TallyCovered, NEW w \in Threads, Count(w)
  PROVE  Service!Report
  <1> DEFINE Over == {"served", "lost"}
  <1>1. /\ UNCHANGED <<file, wfd, conn, Door>> /\ At(HoldAt)' = At(HoldAt) /\ served' = served + 1
        /\ w \in At(CountAt) /\ main # "down" /\ Door # "gone"
    BY DEF Count, Goto, Inv, TypeOK, DownIsEmpty, At, HoldAt, CountAt, Door, kernel
  <1>2. Status' = Status
    BY <1>1, HeldSame, StatusSame
  <1>3. {c \in Clients : Status[c] \in Over} = Standing(Over)
    BY StatusIs DEF Standing, Where
  <1>4. Cardinality(Standing(Taken)) = Cardinality(Standing({"open"})) + Cardinality(Standing(Over))
    <2>1. Taken = {"open"} \cup Over /\ {"open"} \cap Over = {}
      BY DEF Taken
    <2> HIDE DEF Over
    <2> QED
      BY <2>1, ConstantsAssumption, WhereDisjoint DEF Standing
  <1>5. Cardinality(At(CountAt)) \in Nat /\ Cardinality(At(CountAt)) # 0
    BY <1>1, CountsAreNumbers, FS_EmptySet
  <1>6. Cardinality(Standing({"open"})) <= Cardinality(At(HoldAt)) + Len(queue) + Mine
    BY OpenInHands
  <1>7. PICK done \in Nat, back \in Nat \ {0}, held \in Nat, waiting \in Nat, mine \in Nat,
             taken \in Nat, open \in Nat, over \in Nat :
           /\ served = done /\ Cardinality(At(CountAt)) = back
           /\ Cardinality(At(HoldAt)) = held /\ Len(queue) = waiting /\ Mine = mine
           /\ Cardinality(Standing(Taken)) = taken /\ Cardinality(Standing({"open"})) = open
           /\ Cardinality(Standing(Over)) = over
    <2>1. served \in Nat
      BY DEF Inv, TypeOK
    <2> QED
      BY <1>5, <2>1, CountsAreNumbers
  <1>8. done + back + held + waiting + mine <= taken
    BY <1>1, <1>7 DEF TallyCovered, Counted
  <1>9. taken = open + over /\ open <= held + waiting + mine
    BY <1>4, <1>6, <1>7
  <1>10. done < over
    BY <1>8, <1>9
  <1>11. served < Cardinality({c \in Clients : Status[c] \in Over})
    BY <1>3, <1>7, <1>10
  <1>12. \A S : Service!Cardinality(S) = Cardinality(S)
    BY DEF Service!Cardinality, Cardinality
  <1> QED
    BY <1>1, <1>2, <1>11, <1>12 DEF Service!Report, Service!Up

(* The end of the process loses whoever has come and is not served.        *)
LEMMA ExitEnds ==
  ASSUME Inv, Exit
  PROVE  Service!End
  <1> DEFINE L == {c \in Clients : Status[c] \in {"waiting", "serving"}}
  <1>1. /\ main # "down" /\ main' = "down" /\ served' = served
        /\ \A c \in Clients : conn'[c] = IF conn[c] \in {"backlog", "open"} THEN "lost" ELSE conn[c]
    BY DEF Exit, pool
  <1>2. \A c \in Clients : Status[c] \in {"waiting", "serving"} <=> conn[c] \in {"backlog", "open"}
    BY StatusIs DEF Inv, TypeOK
  <1>3. \A c \in Clients : Status'[c] = IF c \in L THEN "lost" ELSE Status[c]
    BY <1>1, <1>2, StatusIs, StatusNext DEF Inv, TypeOK
  <1>4. Status' = [c \in Clients |-> Status'[c]]
    BY DEF Status
  <1>5. Status' = [c \in Clients |-> IF c \in L THEN "lost" ELSE Status[c]]
    BY <1>3, <1>4
  <1>6. L \in SUBSET L /\ \A c \in Clients \ L : Status[c] # "serving"
    OBVIOUS
  <1> QED
    BY <1>1, <1>5, <1>6 DEF Service!End, Service!Up, Door

(* exit() in a thread loses those in the backlog and lets nobody else come. *)
LEMMA ThreadExitShuts ==
  ASSUME Inv, NEW w \in Threads, NEW S \in SUBSET Threads, ThreadExit(w, S),
         TableExact, HeldAreNumbers
  PROVE  Service!Shut
  <1> DEFINE L == {c \in Clients : conn[c] = "backlog"}
  <1>1. /\ UNCHANGED <<main, served, file, wfd>> /\ Door = "open" /\ Door' = "closed"
        /\ At(HoldAt)' = At(HoldAt)
        /\ \A c \in Clients : conn'[c] = IF conn[c] = "backlog" THEN "lost" ELSE conn[c]
    BY ThreadExitEffect DEF Door
  <1>2. \A c \in Clients : Held(c)' <=> Held(c)
    BY <1>1, HeldSame
  <1>3. \A c \in L : Status[c] = "waiting" /\ Status'[c] = "lost"
    BY <1>1, HeldIsOpenConn, StatusIs, StatusNext
  <1>4. \A c \in Clients \ L : Status'[c] = Status[c]
    BY <1>1, <1>2, StatusIs, StatusNext
  <1>5. Status' = [c \in Clients |-> Status'[c]]
    BY DEF Status
  <1>6. L \in SUBSET {c \in Clients : Status[c] = "waiting"}
    BY <1>3
  <1>7. Status' = [c \in Clients |-> IF c \in L THEN "lost" ELSE Status[c]]
    BY <1>3, <1>4, <1>5
  <1> QED
    BY <1>1, <1>6, <1>7 DEF Service!Shut

LEMMA RestartStarts ==
  ASSUME Inv, NEW S \in SUBSET Threads, Restart(S)
  PROVE  Service!Start
  <1>1. /\ UNCHANGED <<file, wfd, conn>> /\ At(HoldAt)' = At(HoldAt)
        /\ Door = "gone" /\ Door' = "open" /\ served' = 0
    BY DEF Restart, CreateThreads, kernel, At, HoldAt, Inv, DownIsEmpty, Door
  <1>2. Status' = Status
    BY <1>1, HeldSame, StatusSame
  <1> QED
    BY <1>1, <1>2 DEF Service!Start, Service!Up

(* Clients come when they connect, are taken off the queue by one thread,  *)
(* are finished by close() and reported by sem_post(served); the end of    *)
(* the process loses the others, and the descriptors it leaves in the      *)
(* queue do not make the next process serve a connection twice, forget one *)
(* or count more than there were.                                          *)
THEOREM PoolImplementsService == Spec => ImplementsService
  <1> DEFINE Stay == Status' = Status /\ UNCHANGED <<served, Door>>
  <1>1. Init => Service!Init
    <2> SUFFICES ASSUME Init PROVE Service!Init
      OBVIOUS
    <2>1. conn = [c \in Clients |-> "away"] /\ served = 0 /\ Door = "open"
      BY DEF Init, PoolInit, Fresh, Door
    <2> QED
      BY <2>1 DEF Status, Service!Init
  <1>2. ASSUME Inv, TableExact, HeldAreNumbers, NoneForgotten, TallyCovered, [Next]_vars
        PROVE  [Service!Next]_(Service!vars)
    <2> SUFFICES Service!Next \/ Stay
      BY DEF Service!vars
    <2> USE <1>2 DEF pool, kernel
    <2>1. ASSUME UNCHANGED <<served, conn, file, wfd>>, At(HoldAt)' = At(HoldAt),
                 Door' = Door
          PROVE  Stay
      BY <2>1, HeldSame, StatusSame
    <2>2. CASE Poll \/ CheckFree \/ CheckBusy \/ Send \/ PollNothing \/ UNCHANGED vars
      BY <2>1, <2>2, ConstantsAssumption DEF Poll, CheckFree, CheckBusy, Send, PollNothing, vars, At,
         Door
    <2>3. ASSUME NEW c \in Clients, NEW f \in Fds, Accept(c, f)
          PROVE  Service!Next \/ Stay
      BY <2>3, AcceptBegins DEF Service!Next
    <2>4. ASSUME NEW S \in SUBSET Threads, Grow(S)
          PROVE  Stay
      <3>1. At(HoldAt)' = At(HoldAt)
        BY <2>4 DEF Grow, CreateThreads, At, HoldAt
      <3> QED
        BY <2>1, <2>4, <3>1 DEF Grow, Door
    <2>5. ASSUME NEW w \in Threads,
                 \/ Ready(w) \/ LeaveFree(w) \/ JoinBusy(w) \/ Recv(w)
                 \/ LeaveBusy(w) \/ JoinFree(w)
          PROVE  Stay
      <3>1. At(HoldAt)' = At(HoldAt)
        BY <2>5 DEF Ready, LeaveFree, JoinBusy, Recv, LeaveBusy, JoinFree, Goto, At, HoldAt,
           Inv, TypeOK
      <3> QED
        BY <2>1, <2>5, <3>1 DEF Ready, LeaveFree, JoinBusy, Recv, LeaveBusy, JoinFree, Door
    <2>6. ASSUME NEW w \in Threads, Take(w) \/ Close(w)
          PROVE  Service!Next \/ Stay
      BY <2>6, TakeBegins, CloseFinishes DEF Service!Next
    <2>7. ASSUME NEW w \in Threads, Count(w)
          PROVE  Service!Next
      BY <2>7, CountReports DEF Service!Next
    <2>8. ASSUME NEW c \in Clients, Connect(c)
          PROVE  Service!Next
      BY <2>8, ConnectArrives DEF Service!Next
    <2>9. ASSUME NEW c \in Clients, Speak(c)
          PROVE  Stay
      BY <2>1, <2>9 DEF Speak, At, Door
    <2>10. ASSUME NEW S \in SUBSET Threads, Restart(S)
           PROVE  Service!Next
      BY <2>10, RestartStarts DEF Service!Next
    <2>11. CASE Exit
      BY <2>11, ExitEnds DEF Service!Next
    <2>12. ASSUME NEW w \in Threads, NEW S \in SUBSET Threads, ThreadExit(w, S)
           PROVE  Service!Next
      BY <2>12, ThreadExitShuts DEF Service!Next
    <2> QED
      BY <2>2, <2>3, <2>4, <2>5, <2>6, <2>7, <2>8, <2>9, <2>10, <2>11, <2>12
         DEF Next, Main, Thread, Client
  <1> QED
    BY <1>1, <1>2, InvHolds, NumbersHold, TableHolds, NoneForgottenHolds, TallyCoveredHolds, PTL
       DEF Spec, ImplementsService, Service!Spec

=============================================================================
