------------------------------- MODULE Lifesim -------------------------------
(***************************************************************************)
(* The life simulation of homework08: customers go round the stores with a *)
(* need to meet, a loader goes round them adding stock, each store behind  *)
(* its mutex.  Customers wait for the mutex, the loader only tries it and  *)
(* passes on.  Main joins the customers and cancels the loader.            *)
(* LOADER_THREAD_NUM is 1.  Sleeps are left out: any thread may pause.     *)
(***************************************************************************)
EXTENDS Integers, FiniteSets

CONSTANTS
  Customers,       \* customer threads
  STORES_NUM, DEF_STORE_CAP, LOADER_INCREMENT, CUSTOMER_NEED,
  MaxLoads         \* bound: deliveries of the loader

Stores == 1..STORES_NUM
Loader == "loader"

VARIABLES
  store,           \* stock of each store
  mutex,           \* threads that hold each store's mutex
  at,              \* index of each thread: the store it is at
  saw,             \* the stock it has read under the mutex, -1 outside
  need,            \* need of each customer
  loads,           \* deliveries made
  closed           \* have the customers been joined and the loader cancelled

lifesimVars == <<store, mutex, at, saw, need, loads, closed>>
Shoppers == Customers \cup {Loader}

LifesimInit ==
  /\ store = [s \in Stores |-> DEF_STORE_CAP] /\ mutex = [s \in Stores |-> {}]
  /\ at = [t \in Shoppers |-> 1] /\ saw = [t \in Shoppers |-> -1]
  /\ need = [c \in Customers |-> CUSTOMER_NEED]
  /\ loads = 0 /\ closed = FALSE

(* The for loop over the stores, which while or while(1) starts again.     *)
Onward(t) == at' = [at EXCEPT ![t] = (@ % STORES_NUM) + 1]

Lock(t) ==
  /\ mutex' = [mutex EXCEPT ![at[t]] = @ \cup {t}]
  /\ saw' = [saw EXCEPT ![t] = store[at[t]]]

Unlock(t) ==
  /\ mutex' = [mutex EXCEPT ![at[t]] = @ \ {t}]
  /\ saw' = [saw EXCEPT ![t] = -1]

(* A customer looks at its need where a round of the stores begins: when   *)
(* it has bought all it goes on round with nothing to buy.                 *)
Enter(c) ==
  /\ saw[c] = -1 /\ (at[c] = 1 => need[c] > 0)
  /\ mutex[at[c]] = {} /\ Lock(c)
  /\ UNCHANGED <<store, at, need, loads, closed>>

LeaveEmpty(c) ==
  /\ saw[c] = 0
  /\ Unlock(c) /\ Onward(c)
  /\ UNCHANGED <<store, need, loads, closed>>

Buy(c) ==
  LET bought == IF need[c] > saw[c] THEN saw[c] ELSE need[c] IN
  /\ saw[c] > 0
  /\ store' = [store EXCEPT ![at[c]] = saw[c] - bought]
  /\ need' = [need EXCEPT ![c] = @ - bought]
  /\ Unlock(c) /\ Onward(c)
  /\ UNCHANGED <<loads, closed>>

(* The loader goes on whatever pthread_mutex_trylock has said.             *)
TryLockIgnored ==
  /\ ~closed /\ saw[Loader] = -1 /\ loads < MaxLoads
  /\ Lock(Loader)
  /\ UNCHANGED <<store, at, need, loads, closed>>

TryLock ==
  /\ ~closed /\ saw[Loader] = -1 /\ loads < MaxLoads
  /\ mutex[at[Loader]] = {} /\ Lock(Loader)
  /\ UNCHANGED <<store, at, need, loads, closed>>

PassBy ==
  /\ ~closed /\ saw[Loader] = -1
  /\ mutex[at[Loader]] # {} /\ Onward(Loader)
  /\ UNCHANGED <<store, mutex, saw, need, loads, closed>>

Deliver ==
  /\ ~closed /\ saw[Loader] # -1
  /\ store' = [store EXCEPT ![at[Loader]] = saw[Loader] + LOADER_INCREMENT]
  /\ loads' = loads + 1
  /\ Unlock(Loader) /\ Onward(Loader)
  /\ UNCHANGED <<need, closed>>

(* The loader is cancelled wherever it is.                                 *)
Close ==
  /\ ~closed
  /\ \A c \in Customers : need[c] = 0 /\ at[c] = 1 /\ saw[c] = -1
  /\ closed' = TRUE
  /\ UNCHANGED <<store, mutex, at, saw, need, loads>>

LifesimNext ==
  \/ \E c \in Customers : Enter(c) \/ LeaveEmpty(c) \/ Buy(c)
  \/ TryLock \/ PassBy \/ Deliver \/ Close

=============================================================================
