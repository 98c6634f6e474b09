---------------------------- MODULE ThreadCounter ----------------------------
(***************************************************************************)
(* The counter of homework07: THREAD_NUM threads increment one variable of *)
(* main TARGET_VAL times between them.  Built as it is, without            *)
(* optimisation and without MUTEX, an increment is a load and a store that *)
(* anything may come between; with MUTEX they are one critical section.    *)
(***************************************************************************)
EXTENDS Integers, FiniteSets

CONSTANTS
  Adders,          \* the threads
  Iterations       \* iter_num, TARGET_VAL / THREAD_NUM

VARIABLES
  mutexed,         \* is MUTEX defined
  holder,          \* the threads between lock and unlock
  global_var,
  register,        \* what each thread has loaded, -1 outside of an increment
  left,            \* iterations each thread has still to make
  joined           \* has main joined them all

counterVars == <<mutexed, holder, global_var, register, left, joined>>

CounterInit ==
  /\ mutexed \in BOOLEAN /\ holder = {}
  /\ global_var = 0 /\ joined = FALSE
  /\ register = [t \in Adders |-> -1] /\ left = [t \in Adders |-> Iterations]

(* The mutex is held for the load only.                                    *)
LoadAlone(t) ==
  /\ left[t] > 0 /\ register[t] = -1
  /\ register' = [register EXCEPT ![t] = global_var]
  /\ UNCHANGED <<mutexed, holder, global_var, left, joined>>

Load(t) ==
  /\ left[t] > 0 /\ register[t] = -1
  /\ mutexed => holder = {}
  /\ holder' = IF mutexed THEN {t} ELSE {}
  /\ register' = [register EXCEPT ![t] = global_var]
  /\ UNCHANGED <<mutexed, global_var, left, joined>>

Store(t) ==
  /\ register[t] # -1
  /\ global_var' = register[t] + 1
  /\ register' = [register EXCEPT ![t] = -1]
  /\ left' = [left EXCEPT ![t] = @ - 1]
  /\ holder' = {}
  /\ UNCHANGED <<mutexed, joined>>

Join ==
  /\ ~joined /\ \A t \in Adders : left[t] = 0
  /\ joined' = TRUE
  /\ UNCHANGED <<mutexed, holder, global_var, register, left>>

CounterNext == Join \/ \E t \in Adders : Load(t) \/ Store(t)

=============================================================================
