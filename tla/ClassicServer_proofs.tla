------------------------ MODULE ClassicServer_proofs ------------------------
(***************************************************************************)
(* Proofs about ClassicServer, for every number of clients, threads and    *)
(* entries, any growth of both arrays, and any number of restarts.         *)
(***************************************************************************)
EXTENDS ClassicServer, Counting

(* What TypeOK and BusyExact need to be inductive: a thread that looks     *)
(* inside an entry has one to look at, and a process that has ended has no *)
(* threads.                                                                *)
InsideAt == {"try", "read"} \cup HoldAt
Inside == \A w \in At(InsideAt) : index[w] \in Entries
DownIsEmpty == main = "down" => \A w \in Threads : pc[w] = "none"

Inv == TypeOK /\ Inside /\ DownIsEmpty /\ BusyExact

(* What ServedUnderLock and OneThreadPerClient need, while the array has   *)
(* not grown: a thread past the trylock has the mutex of its entry to      *)
(* itself, a thread that serves has the client of its entry, and main does *)
(* not store a client that is in the array already.                        *)
LockedAt == {"read", "clear", "unlock"} \cup HoldAt
LocksOwned ==
  /\ \A w \in At(LockedAt) : index[w] \in Entries => index[w] \in locked
  /\ \A w, v \in At(LockedAt) : index[w] \in Entries /\ index[w] = index[v] => w = v
ClientsOwned == \A w \in At(HoldAt) : cfd[w] \in Clients /\ fd[index[w]] = cfd[w]
Come == {"open", "closed", "lost"}
EntriesDistinct ==
  /\ \A i \in Entries : fd[i] # None => fd[i] \in Clients /\ conn[fd[i]] \in Come
  /\ \A i, j \in Entries : fd[i] # None /\ fd[i] = fd[j] => i = j
StoreNew ==
  main = "store" => /\ mfd \in Clients /\ conn[mfd] \in Come
                    /\ \A i \in Entries : fd[i] # mfd

Owned == LocksOwned /\ ClientsOwned /\ EntriesDistinct /\ StoreNew
OwnedUntilGrowth == alloc_clients = DefAlloc => Owned

(* Moving one thread changes the number of threads at P by one at most.    *)
LEMMA MoveCounts ==
  ASSUME TypeOK, NEW w \in Threads, NEW to, pc' = [pc EXCEPT ![w] = to], NEW P
  PROVE  /\ Cardinality(At(P)) \in Nat
         /\ pc[w] \notin P /\ to \in P => Cardinality(At(P))' = Cardinality(At(P)) + 1
         /\ pc[w] \in P /\ to \notin P => Cardinality(At(P))' = Cardinality(At(P)) - 1
         /\ (pc[w] \in P <=> to \in P) => Cardinality(At(P))' = Cardinality(At(P))
  <1>1. IsFiniteSet(Threads)
    BY ConstantsAssumption
  <1>2. PICK g : g = pc'
    OBVIOUS
  <1>3. g[w] = to /\ SameBut(Threads, pc, g, w)
    BY <1>2 DEF TypeOK, SameBut
  <1>4. At(P) = Where(Threads, pc, P) /\ At(P)' = Where(Threads, g, P)
    BY <1>2 DEF At, Where
  <1>5. Cardinality(Where(Threads, pc, P)) \in Nat
    BY <1>1, WhereFinite
  <1>6. /\ pc[w] \notin P /\ g[w] \in P =>
             Cardinality(Where(Threads, g, P)) = Cardinality(Where(Threads, pc, P)) + 1
        /\ pc[w] \in P /\ g[w] \notin P =>
             Cardinality(Where(Threads, g, P)) = Cardinality(Where(Threads, pc, P)) - 1
        /\ (pc[w] \in P <=> g[w] \in P) =>
             Cardinality(Where(Threads, g, P)) = Cardinality(Where(Threads, pc, P))
    BY <1>1, <1>3, MoveOne
  <1> QED
    BY <1>3, <1>4, <1>5, <1>6

(* A thread's step leaves main alone.                                      *)
LEMMA ThreadLeavesMain ==
  ASSUME NEW w \in Threads, Thread(w)
  PROVE  main # "down" /\ UNCHANGED <<main, own, alloc_threads, alloc_clients, spoke>>
  BY DEF Thread, Wake, Mark, Look, Skip, Lock, Read, Serve, Tally, Close, Clear, Unlock, Unbusy,
     Goto, slots, thr, own

-----------------------------------------------------------------------------
(* Typing and the count of busy threads.                                   *)

LEMMA InitInv == Init => Inv
  <1> SUFFICES ASSUME Init PROVE Inv
    OBVIOUS
  <1>1. TypeOK
    BY ConstantsAssumption DEF Init, TypeOK, PCs, Entries
  <1>2. At(BusyAt) = {} /\ At(InsideAt) = {}
    BY DEF Init, At, BusyAt, InsideAt, HoldAt
  <1>3. BusyExact
    BY <1>2, FS_EmptySet DEF Init, BusyExact
  <1> QED
    BY <1>1, <1>2, <1>3 DEF Init, Inv, Inside, DownIsEmpty

(* A thread's step.                                                        *)
LEMMA ThreadTypes ==
  ASSUME Inv, NEW w \in Threads, Thread(w)
  PROVE  TypeOK' /\ Inside' /\ DownIsEmpty'
  <1> USE ConstantsAssumption DEF Inv, TypeOK, Inside, DownIsEmpty, At, PCs, InsideAt,
          BusyAt, HoldAt, Entries, Goto, slots, thr, own
  <1>1. CASE Wake(w)
    BY <1>1 DEF Wake
  <1>2. CASE Mark(w)
    BY <1>2 DEF Mark
  <1>3. CASE Look(w)
    <2>1. /\ pc[w] = "scan" /\ main # "down"
          /\ UNCHANGED <<main, own, alloc_threads, slots, sem, busy, cfd, conn, spoke>>
      BY <1>3 DEF Look
    <2>2. CASE index[w] \notin Entries
      BY <1>3, <2>1, <2>2 DEF Look
    <2>3. CASE index[w] \in Entries /\ fd[index[w]] = None
      <3>1. index' \in [Threads -> 0 .. alloc_clients] /\ pc' = pc
        BY <1>3, <2>3 DEF Look
      <3>2. \A v \in Threads \ {w} : index'[v] = index[v]
        BY <1>3, <2>3 DEF Look
      <3> QED
        BY <2>1, <3>1, <3>2
    <2>4. CASE index[w] \in Entries /\ fd[index[w]] # None
      BY <1>3, <2>1, <2>4 DEF Look
    <2> QED
      BY <2>2, <2>3, <2>4
  <1>4. CASE Skip(w)
    BY <1>4 DEF Skip
  <1>5. CASE Lock(w)
    BY <1>5 DEF Lock
  <1>6. CASE Read(w)
    BY <1>6 DEF Read
  <1>7. CASE Serve(w)
    BY <1>7 DEF Serve
  <1>8. CASE Tally(w)
    BY <1>8 DEF Tally
  <1>9. CASE Close(w)
    BY <1>9 DEF Close
  <1>10. CASE Clear(w)
    BY <1>10 DEF Clear
  <1>11. CASE Unlock(w)
    BY <1>11 DEF Unlock
  <1>12. CASE Unbusy(w)
    BY <1>12 DEF Unbusy
  <1> QED
    BY <1>1, <1>2, <1>3, <1>4, <1>5, <1>6, <1>7, <1>8, <1>9, <1>10, <1>11, <1>12 DEF Thread

LEMMA ThreadAccounting ==
  ASSUME Inv, NEW w \in Threads, Thread(w)
  PROVE  BusyExact'
  <1>1. main # "down" /\ main' = main
    BY ThreadLeavesMain
  <1>2. busy = Cardinality(At(BusyAt)) /\ busy \in Nat
    BY <1>1 DEF Inv, BusyExact, TypeOK
  <1> SUFFICES busy' = Cardinality(At(BusyAt))'
    BY DEF BusyExact
  <1>m. \A to : pc' = [pc EXCEPT ![w] = to] =>
          /\ pc[w] \notin BusyAt /\ to \in BusyAt => Cardinality(At(BusyAt))' = busy + 1
          /\ pc[w] \in BusyAt /\ to \notin BusyAt => Cardinality(At(BusyAt))' = busy - 1
          /\ (pc[w] \in BusyAt <=> to \in BusyAt) => Cardinality(At(BusyAt))' = busy
    BY <1>2, MoveCounts DEF Inv
  <1>n. /\ {"scan", "try", "read", "serve", "tally", "close", "clear", "unlock", "unbusy"}
             \subseteq BusyAt
        /\ "wait" \notin BusyAt /\ "mark" \notin BusyAt
    BY DEF BusyAt, HoldAt
  <1> USE <1>m, <1>n DEF Goto
  <1>3. CASE Mark(w)
    BY <1>3 DEF Mark
  <1>4. CASE Unbusy(w)
    <2>1. Cardinality(At(BusyAt))' = busy - 1
      BY <1>4 DEF Unbusy
    <2>2. w \in At(BusyAt) /\ IsFiniteSet(At(BusyAt))
      <3>1. At(BusyAt) \in SUBSET Threads /\ w \in At(BusyAt)
        BY <1>4 DEF Unbusy, At
      <3> QED
        BY <3>1, ConstantsAssumption, FS_Subset
    <2>3. busy # 0
      BY <1>2, <2>2, FS_EmptySet
    <2> QED
      BY <1>2, <1>4, <2>1, <2>3 DEF Unbusy
  <1>5. CASE Wake(w)
    BY <1>5 DEF Wake, slots, thr, own
  <1>6. CASE Look(w)
    <2>1. /\ busy' = busy /\ pc[w] \in BusyAt
          /\ pc' = pc \/ (\E to \in BusyAt : pc' = [pc EXCEPT ![w] = to])
      BY <1>6 DEF Look
    <2>2. CASE pc' = pc
      BY <1>2, <2>1, <2>2 DEF At
    <2>3. CASE \E to \in BusyAt : pc' = [pc EXCEPT ![w] = to]
      BY <2>1, <2>3
    <2> QED
      BY <2>1, <2>2, <2>3
  <1>7. CASE Skip(w) \/ Lock(w)
    BY <1>7 DEF Skip, Lock
  <1>8. CASE Read(w)
    BY <1>8 DEF Read
  <1>9. CASE Serve(w)
    BY <1>9 DEF Serve
  <1>10. CASE Tally(w) \/ Close(w)
    BY <1>10 DEF Tally, Close
  <1>11. CASE Clear(w) \/ Unlock(w)
    BY <1>11 DEF Clear, Unlock
  <1> QED
    BY <1>3, <1>4, <1>5, <1>6, <1>7, <1>8, <1>9, <1>10, <1>11 DEF Thread

(* Steps of main and of clients.                                           *)
LEMMA NextInv ==
  ASSUME Inv, [Next]_vars
  PROVE  Inv'
  <1> USE DEF slots, thr, own, own
  <1>0. ASSUME TypeOK', main' = main \/ (main # "down" /\ main' # "down"),
               UNCHANGED <<pc, index, busy>>, alloc_clients' >= alloc_clients
        PROVE  Inv'
    <2>1. At(BusyAt)' = At(BusyAt) /\ At(InsideAt)' = At(InsideAt)
      BY <1>0 DEF At
    <2>2. BusyExact' /\ DownIsEmpty'
      BY <1>0, <2>1 DEF Inv, BusyExact, DownIsEmpty
    <2>3. Inside'
      <3>1. Entries \subseteq Entries'
        <4>1. alloc_clients \in Int /\ alloc_clients' \in Int /\ alloc_clients' >= alloc_clients
          BY <1>0, ConstantsAssumption DEF Inv, TypeOK
        <4> QED
          BY <4>1, IndicesStay DEF Entries
      <3> QED
        BY <1>0, <2>1, <3>1 DEF Inv, Inside
    <2> QED
      BY <1>0, <2>2, <2>3 DEF Inv
  <1>2. CASE Pass \/ Store \/ Post
    <2>1. CASE Store
      <3>1. fd' \in [0 .. MaxSlots - 1 -> Clients \cup {None, Garbage}]
        BY <2>1 DEF Store, Inv, TypeOK
      <3>2. TypeOK'
        BY <2>1, <3>1 DEF Store, Inv, TypeOK, Entries
      <3> QED
        BY <1>0, <2>1, <3>2, ConstantsAssumption DEF Store, Inv, TypeOK
    <2>2. CASE Post
      <3>1. TypeOK'
        BY <2>2 DEF Post, Inv, TypeOK, Entries
      <3> QED
        BY <1>0, <2>2, <3>1, ConstantsAssumption DEF Post, Inv, TypeOK
    <2>3. CASE Pass
      <3>1. alloc_clients \in Nat /\ mindex \in Entries
        BY <2>3, ConstantsAssumption DEF Pass, Inv, TypeOK
      <3>2. mindex' \in 0 .. alloc_clients
        BY <2>3, <3>1 DEF Pass, Entries
      <3>3. TypeOK'
        BY <2>3, <3>2 DEF Pass, Inv, TypeOK, Entries
      <3> QED
        BY <1>0, <2>3, <3>3, ConstantsAssumption DEF Pass, Inv, TypeOK
    <2> QED
      BY <1>2, <2>1, <2>2, <2>3
  <1>3. CASE GrowSlots
    <2>1. DefAlloc \in Nat \ {0} /\ alloc_clients \in DefAlloc .. MaxSlots /\ MaxSlots \in Nat
      BY ConstantsAssumption DEF Inv, TypeOK
    <2>2. PICK G \in SUBSET ((alloc_clients .. alloc_clients + DefAlloc - 1) \ (1 .. DefAlloc)),
               L \in SUBSET ((alloc_clients .. alloc_clients + DefAlloc - 1) \ (1 .. DefAlloc)) :
            /\ fd' = [i \in DOMAIN fd |->
                       IF i \in G THEN Garbage
                       ELSE IF i \in (1 .. DefAlloc)
                                 \cup ((alloc_clients .. alloc_clients + DefAlloc - 1) \ (1 .. DefAlloc))
                            THEN None ELSE fd[i]]
            /\ locked' = (locked \ (1 .. DefAlloc)) \cup L
      BY <1>3 DEF GrowSlots
    <2>3. fd' \in [0 .. MaxSlots - 1 -> Clients \cup {None, Garbage}]
      BY <2>2 DEF Inv, TypeOK
    <2>4. alloc_clients' = alloc_clients + DefAlloc /\ alloc_clients' \in DefAlloc .. MaxSlots
      BY <1>3, <2>1 DEF GrowSlots
    <2>5. locked' \subseteq 0 .. alloc_clients' - 1
      BY <2>1, <2>2, <2>4 DEF Inv, TypeOK, Entries
    <2>6. index' \in [Threads -> 0 .. alloc_clients'] /\ mindex' \in 0 .. alloc_clients'
      BY <1>3, <2>1, <2>4 DEF GrowSlots, Inv, TypeOK
    <2>7. TypeOK'
      BY <1>3, <2>3, <2>4, <2>5, <2>6 DEF GrowSlots, Inv, TypeOK, Entries
    <2> QED
      BY <1>0, <1>3, <2>1, <2>4, <2>7 DEF GrowSlots
  <1>4. ASSUME NEW S \in SUBSET Threads, GrowThreads(S)
        PROVE  Inv'
    <2>1. CASE UNCHANGED pc
      <3>1. TypeOK'
        BY <1>4, <2>1, ConstantsAssumption DEF GrowThreads, Inv, TypeOK, Entries
      <3> QED
        BY <1>0, <1>4, <2>1, <3>1, ConstantsAssumption DEF GrowThreads, Inv, TypeOK
    <2>2. CASE /\ S \subseteq At({"none"})
               /\ pc' = [w \in Threads |-> IF w \in S THEN "wait" ELSE pc[w]]
      <3>1. TypeOK'
        BY <1>4, <2>2, ConstantsAssumption DEF GrowThreads, Inv, TypeOK, PCs, Entries
      <3>2. At(BusyAt)' = At(BusyAt) /\ At(InsideAt)' = At(InsideAt)
        BY <2>2 DEF At, BusyAt, HoldAt, InsideAt
      <3> QED
        BY <1>4, <3>1, <3>2 DEF GrowThreads, Inv, Inside, DownIsEmpty, BusyExact, Entries
    <2> QED
      BY <1>4, <2>1, <2>2 DEF GrowThreads
  <1>5. CASE Exit
    <2>1. TypeOK'
      BY <1>5, ConstantsAssumption DEF Exit, Inv, TypeOK, PCs, Entries
    <2>2. At(InsideAt)' = {}
      BY <1>5 DEF Exit, At, InsideAt, HoldAt
    <2> QED
      BY <1>5, <2>1, <2>2 DEF Exit, Inv, Inside, DownIsEmpty, BusyExact
  <1>6. ASSUME NEW S \in SUBSET Threads, Restart(S)
        PROVE  Inv'
    <2>1. TypeOK'
      BY <1>6, ConstantsAssumption DEF Restart, Inv, TypeOK, PCs, Entries
    <2>2. At(InsideAt)' = {} /\ At(BusyAt)' = {}
      BY <1>6 DEF Restart, At, BusyAt, InsideAt, HoldAt
    <2>3. BusyExact'
      <3>1. Cardinality(At(BusyAt)') = 0
        BY <2>2, FS_EmptySet
      <3> QED
        BY <1>6, <3>1 DEF Restart, BusyExact
    <2> QED
      BY <1>6, <2>1, <2>2, <2>3 DEF Restart, Inv, Inside, DownIsEmpty
  <1>7. ASSUME NEW c \in Clients, Connect(c) \/ Speak(c) \/ Accept(c)
        PROVE  Inv'
    <2>0. mindex' \in 0 .. alloc_clients' /\ mfd' \in Clients \cup {None}
      BY <1>7, ConstantsAssumption DEF Connect, Speak, Accept, Inv, TypeOK
    <2>1. TypeOK'
      BY <1>7, <2>0 DEF Connect, Speak, Accept, Inv, TypeOK, Entries
    <2> QED
      BY <1>0, <1>7, <2>1, ConstantsAssumption DEF Connect, Speak, Accept, Inv, TypeOK
  <1>8. ASSUME NEW w \in Threads, Thread(w)
        PROVE  Inv'
    BY <1>8, ThreadTypes, ThreadAccounting DEF Inv
  <1>9. CASE UNCHANGED vars
    <2>1. TypeOK'
      BY <1>9 DEF vars, Inv, TypeOK, Entries
    <2> QED
      BY <1>0, <1>9, <2>1, ConstantsAssumption DEF vars, Inv, TypeOK
  <1> QED
    BY <1>2, <1>3, <1>4, <1>5, <1>6, <1>7, <1>8, <1>9 DEF Next

LEMMA InvHolds == Spec => []Inv
  BY InitInv, NextInv, PTL DEF Spec

(* Every variable keeps its type: no thread looks at an entry beyond the   *)
(* one after the last.                                                     *)
THEOREM TypeCorrect == Spec => []TypeOK
  <1>1. Inv => TypeOK
    BY DEF Inv
  <1> QED
    BY <1>1, InvHolds, PTL

(* busy_threads counts exactly the threads between its post and its        *)
(* trywait, so the trywait never finds 0.                                  *)
THEOREM BusyIsExact == Spec => []BusyExact
  <1>1. Inv => BusyExact
    BY DEF Inv
  <1> QED
    BY <1>1, InvHolds, PTL

-----------------------------------------------------------------------------
(* Locks and clients, while the array has not grown.                       *)

(* The mutexes: only a trylock that succeeds brings a thread to an entry,  *)
(* and a thread unlocks the entry that it has.                             *)
LEMMA ThreadLocks ==
  ASSUME Inv, LocksOwned, NEW w \in Threads, Thread(w)
  PROVE  LocksOwned'
  <1> USE DEF Goto, slots, thr, LockedAt, HoldAt, At
  <1>0. /\ Entries' = Entries /\ pc \in [Threads -> PCs] /\ index \in [Threads -> 0 .. alloc_clients]
        /\ \A v \in At(LockedAt) : index[v] \in Entries => index[v] \in locked
        /\ \A v, u \in At(LockedAt) : index[v] \in Entries /\ index[v] = index[u] => v = u
    BY ThreadLeavesMain DEF Entries, Inv, TypeOK, LocksOwned
  <1>1. ASSUME At(LockedAt)' \subseteq At(LockedAt), UNCHANGED <<index, locked>>
        PROVE  LocksOwned'
    BY <1>0, <1>1 DEF LocksOwned
  <1>2. ASSUME At(LockedAt)' \subseteq At(LockedAt), UNCHANGED locked,
               \A v \in At(LockedAt) : index'[v] = index[v]
        PROVE  LocksOwned'
    BY <1>0, <1>2 DEF LocksOwned
  <1>3. CASE Wake(w) \/ Serve(w) \/ Tally(w) \/ Close(w) \/ Clear(w) \/ Unbusy(w)
    <2>1. At(LockedAt)' \subseteq At(LockedAt)
      BY <1>0, <1>3 DEF Wake, Serve, Tally, Close, Clear, Unbusy
    <2> QED
      BY <1>1, <1>3, <2>1 DEF Wake, Serve, Tally, Close, Clear, Unbusy
  <1>4. CASE Mark(w) \/ Skip(w)
    <2>1. At(LockedAt)' \subseteq At(LockedAt) /\ w \notin At(LockedAt)
      BY <1>0, <1>4 DEF Mark, Skip
    <2>2. \A v \in Threads \ {w} : index'[v] = index[v]
      BY <1>0, <1>4 DEF Mark, Skip
    <2> QED
      BY <1>2, <1>4, <2>1, <2>2 DEF Mark, Skip
  <1>5. CASE Look(w)
    <2>1. CASE index[w] \notin Entries
      <3>1. At(LockedAt)' = At(LockedAt) \cup {w} /\ UNCHANGED <<index, locked>>
        BY <1>0, <1>5, <2>1 DEF Look
      <3> QED
        BY <1>0, <2>1, <3>1 DEF LocksOwned
    <2>2. CASE index[w] \in Entries /\ fd[index[w]] = None
      <3>1. At(LockedAt)' \subseteq At(LockedAt) /\ w \notin At(LockedAt)
            /\ \A v \in Threads \ {w} : index'[v] = index[v]
        BY <1>0, <1>5, <2>2 DEF Look
      <3> QED
        BY <1>2, <1>5, <3>1 DEF Look
    <2>3. CASE index[w] \in Entries /\ fd[index[w]] # None
      <3>1. At(LockedAt)' \subseteq At(LockedAt)
        BY <1>0, <1>5, <2>3 DEF Look
      <3> QED
        BY <1>1, <1>5, <2>3, <3>1 DEF Look
    <2> QED
      BY <2>1, <2>2, <2>3
  <1>6. CASE Lock(w)
    <2>1. /\ At(LockedAt)' = At(LockedAt) \cup {w} /\ UNCHANGED index
          /\ index[w] \notin locked /\ locked' = locked \cup {index[w]}
      BY <1>0, <1>6 DEF Lock
    <2> QED
      BY <1>0, <2>1 DEF LocksOwned
  <1>7. CASE Read(w)
    <2>1. At(LockedAt)' \subseteq At(LockedAt)
      BY <1>0, <1>7 DEF Read
    <2> QED
      BY <1>1, <1>7, <2>1 DEF Read
  <1>8. CASE Unlock(w)
    <2>1. /\ At(LockedAt)' = At(LockedAt) \ {w} /\ w \in At(LockedAt) /\ UNCHANGED index
          /\ locked' = locked \ {index[w]}
      BY <1>0, <1>8 DEF Unlock
    <2> QED
      BY <1>0, <2>1 DEF LocksOwned
  <1> QED
    BY <1>3, <1>4, <1>5, <1>6, <1>7, <1>8 DEF Thread

(* The entries: only Clear changes one, and no thread serves the client of *)
(* an entry that another thread clears.                                    *)
LEMMA ThreadEntries ==
  ASSUME Inv, Owned, NEW w \in Threads, Thread(w)
  PROVE  ClientsOwned' /\ EntriesDistinct' /\ StoreNew'
  <1> USE DEF Goto, slots, thr, HoldAt, At
  <1>0. /\ Entries' = Entries /\ Entries \subseteq 0 .. MaxSlots - 1 /\ UNCHANGED <<main, mfd>>
        /\ pc \in [Threads -> PCs] /\ index \in [Threads -> 0 .. alloc_clients]
        /\ fd \in [0 .. MaxSlots - 1 -> Clients \cup {None, Garbage}]
        /\ cfd \in [Threads -> Clients \cup {None, Garbage}]
    BY ThreadLeavesMain, ConstantsAssumption DEF Entries, Inv, TypeOK, own
  <1>1. \A v \in At(HoldAt) : cfd[v] \in Clients /\ fd[index[v]] = cfd[v] /\ index[v] \in Entries
    BY DEF Owned, ClientsOwned, Inv, Inside, InsideAt
  <1>2. ASSUME UNCHANGED fd, \A c \in Clients : conn[c] \in Come => conn'[c] \in Come
        PROVE  EntriesDistinct' /\ StoreNew'
    BY <1>0, <1>2 DEF Owned, EntriesDistinct, StoreNew
  <1>3. ASSUME UNCHANGED fd, At(HoldAt)' \subseteq At(HoldAt),
               \A v \in At(HoldAt)' : index'[v] = index[v] /\ cfd'[v] = cfd[v]
        PROVE  ClientsOwned'
    BY <1>1, <1>3 DEF ClientsOwned
  <1>4. CASE Wake(w) \/ Serve(w) \/ Tally(w) \/ Lock(w) \/ Unlock(w) \/ Unbusy(w)
    <2>1. At(HoldAt)' \subseteq At(HoldAt) /\ UNCHANGED <<fd, index, cfd, conn>>
      BY <1>0, <1>4 DEF Wake, Serve, Tally, Lock, Unlock, Unbusy
    <2> QED
      BY <1>2, <1>3, <2>1
  <1>5. CASE Mark(w) \/ Skip(w) \/ Look(w)
    <2>1. At(HoldAt)' \subseteq At(HoldAt) \ {w} /\ UNCHANGED <<fd, cfd, conn>>
      BY <1>0, <1>5 DEF Mark, Skip, Look
    <2>2. \A v \in Threads \ {w} : index'[v] = index[v]
      BY <1>0, <1>5 DEF Mark, Skip, Look
    <2> QED
      BY <1>2, <1>3, <2>1, <2>2
  <1>6. CASE Read(w)
    <2>1. /\ UNCHANGED <<fd, conn, index>> /\ cfd'[w] = fd[index[w]]
          /\ \A v \in Threads \ {w} : cfd'[v] = cfd[v]
          /\ w \in At(HoldAt)' => fd[index[w]] # None
          /\ At(HoldAt)' \subseteq At(HoldAt) \cup {w} /\ w \notin At(HoldAt)
      BY <1>0, <1>6 DEF Read
    <2>2. index[w] \in Entries
      BY <1>6 DEF Read, Inv, Inside, InsideAt
    <2>3. w \in At(HoldAt)' => cfd'[w] \in Clients
      BY <2>1, <2>2 DEF Owned, EntriesDistinct
    <2> QED
      BY <1>1, <1>2, <2>1, <2>3 DEF ClientsOwned
  <1>7. CASE Close(w)
    <2>1. /\ UNCHANGED <<fd, index>> /\ At(HoldAt)' \subseteq At(HoldAt) \ {w}
          /\ \A v \in Threads \ {w} : cfd'[v] = cfd[v]
          /\ \A c \in Clients : conn'[c] = IF c = cfd[w] THEN "closed" ELSE conn[c]
      BY <1>0, <1>7 DEF Close
    <2> QED
      BY <1>2, <1>3, <2>1 DEF Come
  <1>8. CASE Clear(w)
    <2>1. /\ UNCHANGED <<index, cfd, conn>> /\ At(HoldAt)' = At(HoldAt) /\ w \notin At(HoldAt)
          /\ \A i \in Entries : fd'[i] = IF i = index[w] THEN None ELSE fd[i]
      BY <1>0, <1>8 DEF Clear
    <2>2. \A v \in At(HoldAt) : index[v] # index[w]
      BY <1>1, <1>8, <2>1 DEF Clear, Owned, LocksOwned, LockedAt
    <2>3. ClientsOwned'
      BY <1>1, <2>1, <2>2 DEF ClientsOwned
    <2>4. EntriesDistinct'
      BY <1>0, <2>1 DEF Owned, EntriesDistinct
    <2>5. StoreNew'
      BY <1>0, <2>1, ConstantsAssumption DEF Owned, StoreNew
    <2> QED
      BY <2>3, <2>4, <2>5
  <1> QED
    BY <1>4, <1>5, <1>6, <1>7, <1>8 DEF Thread

LEMMA OwnedHolds == Spec => []OwnedUntilGrowth
  <1>1. Init => OwnedUntilGrowth
    <2> SUFFICES ASSUME Init PROVE Owned
      BY DEF OwnedUntilGrowth
    <2>1. At(LockedAt) = {} /\ At(HoldAt) = {}
      BY DEF Init, At, LockedAt, HoldAt
    <2>2. \A i \in Entries : fd[i] = None
      BY ConstantsAssumption DEF Init, Entries
    <2> QED
      BY <2>1, <2>2 DEF Init, Owned, LocksOwned, ClientsOwned, EntriesDistinct, StoreNew
  <1>2. ASSUME Inv, OwnedUntilGrowth, [Next]_vars
        PROVE  OwnedUntilGrowth'
    <2> SUFFICES ASSUME alloc_clients' = DefAlloc PROVE Owned'
      BY DEF OwnedUntilGrowth
    <2> USE DEF slots, thr, own, own
    <2>0. /\ alloc_clients \in Int /\ alloc_clients >= DefAlloc /\ DefAlloc \in Nat \ {0}
          /\ pc \in [Threads -> PCs]
          /\ fd \in [0 .. MaxSlots - 1 -> Clients \cup {None, Garbage}]
          /\ conn \in [Clients -> {"away", "backlog", "open", "closed", "lost"}]
      BY <1>2, ConstantsAssumption DEF Inv, TypeOK
    <2>1. CASE GrowSlots
      BY <2>0, <2>1 DEF GrowSlots
    <2>2. CASE Exit
      <3>1. At(LockedAt)' = {} /\ At(HoldAt)' = {}
        BY <2>2 DEF Exit, At, LockedAt, HoldAt
      <3>2. \A i \in 0 .. DefAlloc - 1 : fd'[i] = None
        BY <2>0, <2>2, ConstantsAssumption DEF Exit
      <3> QED
        BY <2>2, <3>1, <3>2 DEF Exit, Owned, LocksOwned, ClientsOwned, EntriesDistinct,
           StoreNew, Entries
    <2>3. ASSUME alloc_clients' = alloc_clients, At(LockedAt)' = At(LockedAt),
                 At(HoldAt)' = At(HoldAt), UNCHANGED <<locked, index, cfd>>
          PROVE  LocksOwned' /\ (UNCHANGED fd => ClientsOwned')
      BY <1>2, <2>3 DEF OwnedUntilGrowth, Owned, LocksOwned, ClientsOwned, Entries
    <2>4. ASSUME alloc_clients' = alloc_clients, UNCHANGED fd,
                 \A c \in Clients : conn[c] \in Come => conn'[c] \in Come
          PROVE  EntriesDistinct' /\ (UNCHANGED <<main, mfd>> \/ main' # "store" => StoreNew')
      BY <1>2, <2>4 DEF OwnedUntilGrowth, Owned, EntriesDistinct, StoreNew, Entries
    <2>5. CASE Store
      <3>1. PICK i \in Entries :
              fd[i] = None /\ fd' = [fd EXCEPT ![i] = mfd] /\ main = "store" /\ main' = "threads"
              /\ UNCHANGED <<mfd, alloc_clients, locked, pc, index, cfd, conn>>
        BY <2>5 DEF Store, IsFree
      <3>2. Owned /\ Entries' = Entries /\ At(LockedAt)' = At(LockedAt) /\ At(HoldAt)' = At(HoldAt)
        BY <1>2, <3>1 DEF OwnedUntilGrowth, Entries, At
      <3>3. /\ fd'[i] = mfd /\ \A j \in Entries \ {i} : fd'[j] = fd[j]
            /\ mfd \in Clients /\ conn[mfd] \in Come /\ \A j \in Entries : fd[j] # mfd
        <4>1. Entries \subseteq 0 .. MaxSlots - 1
          BY <1>2, <2>0, ConstantsAssumption DEF Inv, TypeOK, Entries
        <4> QED
          BY <2>0, <3>1, <3>2, <4>1 DEF Owned, StoreNew
      <3>4. \A w \in At(HoldAt) : index[w] \in Entries \ {i}
        <4>1. \A w \in At(HoldAt) : index[w] \in Entries
          BY <1>2 DEF Inv, Inside, InsideAt, At
        <4>2. \A w \in At(HoldAt) : fd[index[w]] # None
          BY <3>2, ConstantsAssumption DEF Owned, ClientsOwned
        <4> QED
          BY <3>1, <4>1, <4>2
      <3>5. ClientsOwned'
        BY <3>1, <3>2, <3>3, <3>4 DEF Owned, ClientsOwned
      <3>6. EntriesDistinct'
        BY <3>1, <3>2, <3>3 DEF Owned, EntriesDistinct
      <3> QED
        BY <2>3, <3>1, <3>2, <3>5, <3>6 DEF Owned, StoreNew
    <2>6. CASE Pass \/ Post
      <3>1. At(LockedAt)' = At(LockedAt) /\ At(HoldAt)' = At(HoldAt)
        BY <2>6 DEF Pass, Post, At
      <3> QED
        BY <2>3, <2>4, <2>6, <3>1 DEF Pass, Post, Owned
    <2>7. ASSUME NEW S \in SUBSET Threads, GrowThreads(S) \/ Restart(S)
          PROVE  Owned'
      <3>1. At(LockedAt)' = At(LockedAt) /\ At(HoldAt)' = At(HoldAt)
        BY <1>2, <2>7 DEF GrowThreads, Restart, At, LockedAt, HoldAt, Inv, DownIsEmpty
      <3> QED
        BY <2>3, <2>4, <2>7, <3>1 DEF GrowThreads, Restart, Owned
    <2>8. ASSUME NEW c \in Clients, Connect(c) \/ Speak(c)
          PROVE  Owned'
      <3>1. At(LockedAt)' = At(LockedAt) /\ At(HoldAt)' = At(HoldAt)
        BY <2>8 DEF Connect, Speak, At
      <3>2. \A d \in Clients : conn[d] \in Come => conn'[d] \in Come
        BY <2>0, <2>8 DEF Connect, Speak, Come
      <3> QED
        BY <2>3, <2>4, <2>8, <3>1, <3>2 DEF Connect, Speak, Owned
    <2>9. ASSUME NEW c \in Clients, Accept(c)
          PROVE  Owned'
      <3>1. At(LockedAt)' = At(LockedAt) /\ At(HoldAt)' = At(HoldAt)
        BY <2>9 DEF Accept, At
      <3>2. \A d \in Clients : conn[d] \in Come => conn'[d] \in Come
        BY <2>0, <2>9 DEF Accept, Come
      <3>3. StoreNew'
        <4>1. /\ conn[c] = "backlog" /\ conn'[c] = "open" /\ mfd' = c
              /\ UNCHANGED <<alloc_clients, fd>>
          BY <2>0, <2>9 DEF Accept
        <4>2. \A i \in Entries : fd[i] # c
          BY <1>2, <4>1, ConstantsAssumption DEF OwnedUntilGrowth, Owned, EntriesDistinct, Come
        <4> QED
          BY <4>1, <4>2 DEF StoreNew, Entries, Come
      <3> QED
        BY <2>3, <2>4, <2>9, <3>1, <3>2, <3>3 DEF Accept, Owned
    <2>10. ASSUME NEW w \in Threads, Thread(w)
           PROVE  Owned'
      <3>1. Owned
        BY <1>2, <2>10, ThreadLeavesMain DEF OwnedUntilGrowth
      <3> QED
        BY <1>2, <2>10, <3>1, ThreadLocks, ThreadEntries DEF Owned
    <2>11. CASE UNCHANGED vars
      <3>1. At(LockedAt)' = At(LockedAt) /\ At(HoldAt)' = At(HoldAt)
        BY <2>11 DEF vars, At
      <3> QED
        BY <2>3, <2>4, <2>11, <3>1 DEF vars, Owned
    <2> QED
      BY <1>2, <2>1, <2>2, <2>5, <2>6, <2>7, <2>8, <2>9, <2>10, <2>11 DEF Next
  <1> QED
    BY <1>1, <1>2, InvHolds, PTL DEF Spec

(* A thread that serves a client has the mutex of its entry, and nobody    *)
(* changes the entry under it.                                             *)
THEOREM ServedUnderLockHolds == Spec => []ServedUnderLock
  <1>1. Inv /\ OwnedUntilGrowth => ServedUnderLock
    BY DEF Inv, Inside, InsideAt, OwnedUntilGrowth, Owned, LocksOwned, LockedAt, ClientsOwned,
       ServedUnderLock, At
  <1> QED
    BY <1>1, InvHolds, OwnedHolds, PTL

(* No client is in the hands of two threads while the array has not grown. *)
THEOREM OneThreadHolds == Spec => []OneThreadPerClient
  <1>1. ASSUME Inv, OwnedUntilGrowth
        PROVE  OneThreadPerClient
    <2> SUFFICES ASSUME alloc_clients = DefAlloc,
                        NEW w \in At(HoldAt), NEW v \in At(HoldAt), cfd[w] = cfd[v]
                 PROVE  w = v
      BY DEF OneThreadPerClient
    <2>1. index[w] \in Entries /\ index[v] \in Entries
      BY <1>1 DEF Inv, Inside, InsideAt, At
    <2>2. fd[index[w]] = fd[index[v]] /\ fd[index[w]] # None
      BY <1>1, ConstantsAssumption DEF OwnedUntilGrowth, Owned, ClientsOwned
    <2>3. index[w] = index[v]
      BY <1>1, <2>1, <2>2 DEF OwnedUntilGrowth, Owned, EntriesDistinct
    <2> QED
      BY <1>1, <2>1, <2>3 DEF OwnedUntilGrowth, Owned, LocksOwned, LockedAt, At
  <1> QED
    BY <1>1, InvHolds, OwnedHolds, PTL

=============================================================================
