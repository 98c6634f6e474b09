--------------------------- MODULE Programs_proofs ---------------------------
(***************************************************************************)
(* Proofs about the programs of homeworks 7, 8, 9, 12, 13 and 14, for every*)
(* number of threads, customers, stores and clients.                       *)
(***************************************************************************)
EXTENDS Programs, Counting

-----------------------------------------------------------------------------
(* Homework 8.  A thread that has read a stock holds the store's mutex, and *)
(* the stock is still what it has read.                                    *)

StockTyped ==
  /\ store \in [Life!Stores -> Nat] /\ mutex \in [Life!Stores -> SUBSET Life!Shoppers]
  /\ at \in [Life!Shoppers -> Life!Stores] /\ saw \in [Life!Shoppers -> Nat \cup {-1}]
  /\ need \in [Customers -> 0 .. CUSTOMER_NEED] /\ loads \in Nat

ReadUnderMutex ==
  \A t \in Life!Shoppers : saw[t] # -1 => mutex[at[t]] = {t} /\ saw[t] = store[at[t]]

StockInv ==
  /\ StockTyped /\ ReadUnderMutex
  /\ IsFiniteSet(InStores) /\ IsFiniteSet(Bought) /\ StockConserved

Unbought == [c \in Customers |-> CUSTOMER_NEED - need[c]]

LEMMA SumsAreUnits ==
  /\ InStores = Units(Life!Stores, store) /\ InStores' = Units(Life!Stores, store')
  /\ Bought = Units(Customers, Unbought) /\ Bought' = Units(Customers, Unbought')
  BY DEF InStores, Bought, Units, Unbought

LEMMA InitStock == Init => StockInv
  <1> SUFFICES ASSUME Init PROVE StockInv
    OBVIOUS
  <1>1. /\ STORES_NUM \in Nat \ {0} /\ DEF_STORE_CAP \in Nat /\ CUSTOMER_NEED \in Nat
        /\ LOADER_INCREMENT \in Nat
    BY ProgramsAssumption
  <1>2. StockTyped /\ ReadUnderMutex
    BY <1>1 DEF Init, Life!LifesimInit, StockTyped, ReadUnderMutex, Life!Stores, Life!Shoppers
  <1>3. IsFiniteSet(Life!Stores) /\ Cardinality(Life!Stores) = STORES_NUM
    BY <1>1, UpTo DEF Life!Stores
  <1>4. IsFiniteSet(InStores) /\ Cardinality(InStores) = STORES_NUM * DEF_STORE_CAP
    <2>1. \A s \in Life!Stores : store[s] = DEF_STORE_CAP
      BY DEF Init, Life!LifesimInit
    <2>2. /\ IsFiniteSet(Units(Life!Stores, store))
          /\ Cardinality(Units(Life!Stores, store)) = Cardinality(Life!Stores) * DEF_STORE_CAP
      BY <1>1, <1>3, <2>1, UnitsAlike
    <2> QED
      BY <1>3, <2>2, SumsAreUnits
  <1>5. IsFiniteSet(Bought) /\ Cardinality(Bought) = 0
    <2>1. \A c \in Customers : CUSTOMER_NEED - need[c] = 0
      BY <1>1 DEF Init, Life!LifesimInit
    <2>2. Bought = {}
      BY <2>1 DEF Bought
    <2> QED
      BY <2>2, FS_EmptySet
  <1>6. StockConserved
    <2>1. loads = 0
      BY DEF Init, Life!LifesimInit
    <2>2. STORES_NUM * DEF_STORE_CAP \in Nat
      BY <1>1
    <2>3. 0 * LOADER_INCREMENT = 0
      BY <1>1
    <2> QED
      BY <1>4, <1>5, <2>1, <2>2, <2>3 DEF StockConserved
  <1> QED
    BY <1>2, <1>4, <1>5, <1>6 DEF StockInv

(* A thread that has the mutex of a store sets its stock and goes on.      *)
LEMMA LeaveStore ==
  ASSUME StockInv, NEW t \in Life!Shoppers, saw[t] # -1, NEW n \in Nat,
         store' = [store EXCEPT ![at[t]] = n], Life!Unlock(t), Life!Onward(t),
         need' \in [Customers -> 0 .. CUSTOMER_NEED], loads' \in Nat
  PROVE  /\ StockTyped' /\ ReadUnderMutex'
         /\ IsFiniteSet(InStores') /\ Cardinality(InStores) \in Nat
         /\ Cardinality(InStores') = Cardinality(InStores) + n - saw[t]
  <1>1. /\ at[t] \in Life!Stores /\ store[at[t]] \in Nat /\ store[at[t]] = saw[t]
        /\ mutex[at[t]] = {t} /\ STORES_NUM \in Nat \ {0}
    BY ProgramsAssumption DEF StockInv, StockTyped, ReadUnderMutex
  <1>2. (at[t] % STORES_NUM) + 1 \in Life!Stores
    BY <1>1 DEF Life!Stores
  <1>3. at' \in [Life!Shoppers -> Life!Stores]
    BY <1>2 DEF Life!Onward, StockInv, StockTyped
  <1>4. StockTyped'
    BY <1>1, <1>3 DEF Life!Unlock, StockInv, StockTyped
  <1>5. ReadUnderMutex'
    <2> SUFFICES ASSUME NEW u \in Life!Shoppers, saw'[u] # -1
                 PROVE  mutex'[at'[u]] = {u} /\ saw'[u] = store'[at'[u]]
      BY DEF ReadUnderMutex
    <2>1. u # t /\ saw'[u] = saw[u] /\ at'[u] = at[u] /\ at[u] \in Life!Stores
      BY DEF Life!Unlock, Life!Onward, StockInv, StockTyped
    <2>2. mutex[at[u]] = {u} /\ saw[u] = store[at[u]] /\ at[u] # at[t]
      BY <1>1, <2>1 DEF StockInv, ReadUnderMutex
    <2> QED
      BY <1>1, <2>1, <2>2 DEF Life!Unlock, StockInv, StockTyped
  <1>6. store'[at[t]] = n /\ SameBut(Life!Stores, store, store', at[t])
    BY <1>1 DEF StockInv, StockTyped, SameBut
  <1>7. PICK f, g, s : f = store /\ g = store' /\ s = at[t]
    OBVIOUS
  <1>8. /\ s \in Life!Stores /\ f[s] = saw[t] /\ f[s] \in Nat /\ g[s] = n
        /\ SameBut(Life!Stores, f, g, s) /\ IsFiniteSet(Units(Life!Stores, f))
    BY <1>1, <1>6, <1>7, SumsAreUnits DEF StockInv
  <1>9. /\ IsFiniteSet(Units(Life!Stores, g))
        /\ Cardinality(Units(Life!Stores, f)) \in Nat
        /\ Cardinality(Units(Life!Stores, g)) = Cardinality(Units(Life!Stores, f)) + g[s] - f[s]
    BY <1>8, UnitsChange
  <1> QED
    BY <1>4, <1>5, <1>7, <1>8, <1>9, SumsAreUnits

LEMMA NextStock == StockInv /\ [Next]_vars => StockInv'
  <1> SUFFICES ASSUME StockInv, [Next]_vars PROVE StockInv'
    OBVIOUS
  <1>0. /\ STORES_NUM \in Nat \ {0} /\ DEF_STORE_CAP \in Nat /\ CUSTOMER_NEED \in Nat
        /\ LOADER_INCREMENT \in Nat
    BY ProgramsAssumption
  <1>1. ASSUME UNCHANGED <<store, need, loads>>, StockTyped', ReadUnderMutex'
        PROVE  StockInv'
    BY <1>1 DEF StockInv, InStores, Bought, StockConserved
  <1>2. ASSUME UNCHANGED <<store, need, loads, at>>,
               NEW t \in Life!Shoppers, mutex[at[t]] = {}, Life!Lock(t)
        PROVE  StockInv'
    <2>1. at[t] \in Life!Stores /\ store[at[t]] \in Nat
      BY DEF StockInv, StockTyped
    <2>2. StockTyped'
      BY <1>2, <2>1 DEF Life!Lock, StockInv, StockTyped
    <2>3. ReadUnderMutex'
      <3> SUFFICES ASSUME NEW u \in Life!Shoppers, saw'[u] # -1
                   PROVE  mutex'[at'[u]] = {u} /\ saw'[u] = store'[at'[u]]
        BY DEF ReadUnderMutex
      <3>1. CASE u = t
        BY <1>2, <2>1, <3>1 DEF Life!Lock, StockInv, StockTyped
      <3>2. CASE u # t
        <4>1. saw'[u] = saw[u] /\ at[u] \in Life!Stores
          BY <1>2, <3>2 DEF Life!Lock, StockInv, StockTyped
        <4>2. mutex[at[u]] = {u} /\ saw[u] = store[at[u]] /\ at[u] # at[t]
          BY <1>2, <4>1 DEF StockInv, ReadUnderMutex
        <4> QED
          BY <1>2, <2>1, <4>1, <4>2 DEF Life!Lock, StockInv, StockTyped
      <3> QED
        BY <3>1, <3>2
    <2> QED
      BY <1>1, <1>2, <2>2, <2>3
  <1>3. ASSUME NEW c \in Customers, Life!Enter(c)
        PROVE  StockInv'
    BY <1>2, <1>3 DEF Life!Enter, Life!Shoppers
  <1>4. ASSUME NEW c \in Customers, Life!LeaveEmpty(c)
        PROVE  StockInv'
    <2>1. c \in Life!Shoppers /\ saw[c] = 0 /\ UNCHANGED <<store, need, loads>>
      BY <1>4 DEF Life!LeaveEmpty, Life!Shoppers
    <2>2. store' = [store EXCEPT ![at[c]] = 0]
      BY <2>1 DEF StockInv, StockTyped, ReadUnderMutex
    <2>4. /\ Life!Unlock(c) /\ Life!Onward(c) /\ 0 \in Nat /\ saw[c] # -1
          /\ need' \in [Customers -> 0 .. CUSTOMER_NEED] /\ loads' \in Nat
      BY <1>4, <2>1 DEF Life!LeaveEmpty, StockInv, StockTyped
    <2>3. StockTyped' /\ ReadUnderMutex'
      BY <2>1, <2>2, <2>4, LeaveStore
    <2> QED
      BY <1>1, <2>1, <2>3
  <1>5. ASSUME NEW c \in Customers, Life!Buy(c)
        PROVE  StockInv'
    <2> DEFINE bought == IF need[c] > saw[c] THEN saw[c] ELSE need[c]
    <2>1. /\ c \in Life!Shoppers /\ saw[c] \in Nat \ {0} /\ need[c] \in 0 .. CUSTOMER_NEED
          /\ UNCHANGED loads /\ loads \in Nat
      BY <1>5 DEF Life!Buy, Life!Shoppers, StockInv, StockTyped
    <2>2. bought \in Nat /\ saw[c] - bought \in Nat /\ need[c] - bought \in 0 .. CUSTOMER_NEED
      BY <1>0, <2>1
    <2>3. /\ store' = [store EXCEPT ![at[c]] = saw[c] - bought]
          /\ need' = [need EXCEPT ![c] = need[c] - bought]
          /\ Life!Unlock(c) /\ Life!Onward(c)
      BY <1>5 DEF Life!Buy
    <2> HIDE DEF bought
    <2>4. need' \in [Customers -> 0 .. CUSTOMER_NEED]
      BY <2>2, <2>3 DEF StockInv, StockTyped
    <2>5. PICK n \in Nat : n = saw[c] - bought
      BY <2>2
    <2>9. saw[c] # -1 /\ loads' \in Nat /\ store' = [store EXCEPT ![at[c]] = n]
      BY <2>1, <2>3, <2>5
    <2>6. /\ StockTyped' /\ ReadUnderMutex'
          /\ IsFiniteSet(InStores') /\ Cardinality(InStores) \in Nat
          /\ Cardinality(InStores') = Cardinality(InStores) + n - saw[c]
      BY <2>1, <2>3, <2>4, <2>9, LeaveStore
    <2>7. /\ IsFiniteSet(Bought') /\ Cardinality(Bought) \in Nat
          /\ Cardinality(Bought') = Cardinality(Bought) + bought
      <3>1. PICK f, g : f = Unbought /\ g = Unbought'
        OBVIOUS
      <3>2. /\ f[c] = CUSTOMER_NEED - need[c] /\ g[c] = CUSTOMER_NEED - (need[c] - bought)
            /\ SameBut(Customers, f, g, c)
        BY <2>3, <3>1 DEF Unbought, SameBut, StockInv, StockTyped
      <3>3. f[c] \in Nat /\ g[c] \in Nat /\ g[c] = f[c] + bought
        BY <1>0, <2>1, <2>2, <3>2
      <3>4. /\ IsFiniteSet(Units(Customers, g)) /\ Cardinality(Units(Customers, f)) \in Nat
            /\ Cardinality(Units(Customers, g)) = Cardinality(Units(Customers, f)) + g[c] - f[c]
        BY <3>1, <3>2, <3>3, SumsAreUnits, UnitsChange DEF StockInv
      <3>5. Cardinality(Units(Customers, g)) = Cardinality(Units(Customers, f)) + bought
        BY <2>2, <3>3, <3>4
      <3> QED
        BY <3>1, <3>4, <3>5, SumsAreUnits
    <2>8. StockConserved'
      <3>1. Cardinality(InStores') + Cardinality(Bought') = Cardinality(InStores) + Cardinality(Bought)
        BY <2>1, <2>2, <2>5, <2>6, <2>7
      <3> QED
        BY <2>1, <3>1 DEF StockInv, StockConserved
    <2> QED
      BY <2>6, <2>7, <2>8 DEF StockInv
  <1>6. CASE Life!TryLock
    BY <1>2, <1>6 DEF Life!TryLock, Life!Shoppers
  <1>7. CASE Life!PassBy
    <2>1. Life!Loader \in Life!Shoppers /\ saw[Life!Loader] = -1 /\ Life!Onward(Life!Loader)
          /\ UNCHANGED <<store, mutex, saw, need, loads>>
      BY <1>7 DEF Life!PassBy, Life!Shoppers
    <2>2. (at[Life!Loader] % STORES_NUM) + 1 \in Life!Stores
      BY <1>0, <2>1 DEF Life!Stores, StockInv, StockTyped
    <2>3. StockTyped' /\ ReadUnderMutex'
      BY <2>1, <2>2 DEF Life!Onward, StockInv, StockTyped, ReadUnderMutex
    <2> QED
      BY <1>1, <2>1, <2>3
  <1>8. CASE Life!Deliver
    <2> DEFINE l == Life!Loader
    <2>1. /\ l \in Life!Shoppers /\ saw[l] \in Nat
          /\ store' = [store EXCEPT ![at[l]] = saw[l] + LOADER_INCREMENT]
          /\ loads' = loads + 1 /\ Life!Unlock(l) /\ Life!Onward(l) /\ UNCHANGED need
          /\ loads \in Nat /\ need \in [Customers -> 0 .. CUSTOMER_NEED]
      BY <1>8 DEF Life!Deliver, Life!Shoppers, StockInv, StockTyped
    <2> HIDE DEF l
    <2>2. PICK n \in Nat : n = saw[l] + LOADER_INCREMENT
      BY <1>0, <2>1
    <2>3. saw[l] # -1 /\ loads' \in Nat /\ need' \in [Customers -> 0 .. CUSTOMER_NEED]
      BY <2>1
    <2>4. /\ StockTyped' /\ ReadUnderMutex'
          /\ IsFiniteSet(InStores') /\ Cardinality(InStores) \in Nat
          /\ Cardinality(InStores') = Cardinality(InStores) + n - saw[l]
      BY <2>1, <2>2, <2>3, LeaveStore
    <2>5. Bought' = Bought
      BY <2>1 DEF Bought
    <2>6. (loads + 1) * LOADER_INCREMENT = loads * LOADER_INCREMENT + LOADER_INCREMENT
      BY <1>0, <2>1
    <2>7. Cardinality(InStores') = Cardinality(InStores) + LOADER_INCREMENT
      BY <1>0, <2>1, <2>2, <2>4
    <2>8. StockConserved'
      <3>1. Cardinality(Bought) \in Nat
        BY FS_CardinalityType DEF StockInv
      <3>2. STORES_NUM * DEF_STORE_CAP \in Nat /\ loads * LOADER_INCREMENT \in Nat
        BY <1>0, <2>1
      <3>3. Cardinality(InStores) + Cardinality(Bought)
              = STORES_NUM * DEF_STORE_CAP + loads * LOADER_INCREMENT
        BY DEF StockInv, StockConserved
      <3>4. Cardinality(InStores') + Cardinality(Bought')
              = STORES_NUM * DEF_STORE_CAP + loads' * LOADER_INCREMENT
        <4>1. PICK a \in Nat, b \in Nat, k \in Nat, m \in Nat, i \in Nat :
                 /\ a = Cardinality(InStores) /\ b = Cardinality(Bought)
                 /\ k = STORES_NUM * DEF_STORE_CAP /\ m = loads * LOADER_INCREMENT
                 /\ i = LOADER_INCREMENT
          BY <1>0, <2>4, <3>1, <3>2
        <4>2. a + b = k + m
          BY <3>3, <4>1
        <4>3. Cardinality(InStores') = a + i /\ Cardinality(Bought') = b
          BY <2>5, <2>7, <4>1
        <4>4. loads' * LOADER_INCREMENT = m + i
          BY <2>1, <2>6, <4>1
        <4>5. (a + i) + b = k + (m + i)
          BY <4>1, <4>2
        <4> QED
          BY <4>1, <4>3, <4>4, <4>5
      <3> QED
        BY <3>4 DEF StockConserved
    <2> QED
      BY <2>4, <2>5, <2>8 DEF StockInv
  <1>9. CASE UNCHANGED <<store, mutex, at, saw, need, loads>>
    <2>1. StockTyped' /\ ReadUnderMutex'
      BY <1>9 DEF StockInv, StockTyped, ReadUnderMutex
    <2> QED
      BY <1>1, <1>9, <2>1
  <1>10. CASE LifesimStep
    BY <1>3, <1>4, <1>5, <1>6, <1>7, <1>8, <1>9, <1>10
       DEF LifesimStep, Life!LifesimNext, Life!Close
  <1>11. CASE ~LifesimStep
    <2>1. UNCHANGED lifesimVars
      BY <1>11 DEF Next, ChatStep, SocketStep, IpcStep, PipelineStep, CounterStep, vars
    <2> QED
      BY <1>9, <2>1 DEF lifesimVars
  <1> QED
    BY <1>10, <1>11

(* The life simulation neither loses a purchase or a delivery nor counts   *)
(* one twice.                                                              *)
THEOREM StockIsConserved == Spec => []StockConserved
  <1>1. StockInv => StockConserved
    BY DEF StockInv
  <1> QED
    BY <1>1, InitStock, NextStock, PTL DEF Spec

-----------------------------------------------------------------------------
(* Homework 7.  What has been added so far, and how the counter and what   *)
(* the threads have loaded lie to it.                                      *)

Made == Units(Adders, [t \in Adders |-> Iterations - left[t]])

CounterTyped ==
  /\ mutexed \in BOOLEAN /\ joined \in BOOLEAN /\ global_var \in Nat
  /\ register \in [Adders -> Nat \cup {-1}] /\ left \in [Adders -> 0 .. Iterations]

AtMostMade ==
  /\ IsFiniteSet(Made) /\ global_var <= Cardinality(Made)
  /\ \A t \in Adders : register[t] <= Cardinality(Made)

(* A thread that has stored once loads its own work or what came after, so *)
(* the last store is at least the second of somebody.                      *)
AtLeastTwo ==
  /\ (\E t \in Adders : left[t] < Iterations) => global_var >= 1
  /\ \A t \in Adders : register[t] # -1 =>
       left[t] > 0 /\ (left[t] < Iterations => register[t] >= 1)
  /\ (\A t \in Adders : left[t] = 0) => global_var >= 2

UnderMutex ==
  mutexed =>
    /\ global_var = Cardinality(Made)
    /\ \A t \in Adders : register[t] # -1 => holder = {t} /\ register[t] = global_var

CounterInv ==
  /\ CounterTyped /\ AtMostMade /\ AtLeastTwo /\ UnderMutex
  /\ joined => \A t \in Adders : left[t] = 0

LEMMA InitCounter == Init => CounterInv
  <1> SUFFICES ASSUME Init PROVE CounterInv
    OBVIOUS
  <1>1. /\ mutexed \in BOOLEAN /\ global_var = 0 /\ joined = FALSE
        /\ register = [t \in Adders |-> -1] /\ left = [t \in Adders |-> Iterations]
    BY DEF Init, Counter!CounterInit
  <1>2. Iterations \in Nat /\ Iterations >= 2 /\ Adders # {}
    BY FS_EmptySet, ProgramsAssumption
  <1>3. CounterTyped /\ AtLeastTwo
    <2>1. CounterTyped
      <3>1. register \in [Adders -> Nat \cup {-1}] /\ left \in [Adders -> 0 .. Iterations]
        BY <1>1, <1>2
      <3>2. mutexed \in BOOLEAN /\ joined \in BOOLEAN
        BY <1>1
      <3>3. global_var \in Nat
        BY <1>1
      <3> QED
        BY <3>1, <3>2, <3>3 DEF CounterTyped
    <2>2. PICK t \in Adders : TRUE
      BY <1>2
    <2>3. left[t] # 0
      BY <1>1, <1>2
    <2>4. \A u \in Adders : ~(left[u] < Iterations) /\ register[u] = -1
      BY <1>1, <1>2
    <2> QED
      BY <2>1, <2>3, <2>4 DEF AtLeastTwo
  <1>4. Made = {}
    BY <1>1, <1>2 DEF Made, Units
  <1>5. IsFiniteSet(Made) /\ Cardinality(Made) = 0
    BY <1>4, FS_EmptySet
  <1> QED
    BY <1>1, <1>3, <1>5 DEF CounterInv, AtMostMade, UnderMutex

LEMMA NextCounter == CounterInv /\ [Next]_vars => CounterInv'
  <1> SUFFICES ASSUME CounterInv, [Next]_vars PROVE CounterInv'
    OBVIOUS
  <1>1. /\ Iterations \in Nat /\ Iterations >= 2 /\ Cardinality(Made) \in Nat
        /\ CounterTyped /\ AtMostMade /\ AtLeastTwo /\ UnderMutex
        /\ joined => \A t \in Adders : left[t] = 0
    BY ProgramsAssumption, FS_CardinalityType DEF CounterInv, AtMostMade
  <1>2. ASSUME UNCHANGED left
        PROVE  Made' = Made
    BY <1>2 DEF Made
  <1>3. CASE Counter!Join
    <2>1. /\ \A t \in Adders : left[t] = 0
          /\ joined' = TRUE /\ UNCHANGED <<mutexed, holder, global_var, register, left>>
      BY <1>3 DEF Counter!Join
    <2>2. CounterTyped' /\ AtMostMade' /\ AtLeastTwo' /\ UnderMutex'
      BY <1>1, <1>2, <2>1 DEF CounterTyped, AtMostMade, AtLeastTwo, UnderMutex
    <2> QED
      BY <2>1, <2>2 DEF CounterInv
  <1>4. ASSUME NEW t \in Adders, Counter!Load(t)
        PROVE  CounterInv'
    <2>1. /\ left[t] > 0 /\ register[t] = -1 /\ (mutexed => holder = {})
          /\ holder' = (IF mutexed THEN {t} ELSE {})
          /\ register' = [register EXCEPT ![t] = global_var]
          /\ UNCHANGED <<mutexed, global_var, left, joined>>
      BY <1>4 DEF Counter!Load
    <2>2. Made' = Made
      BY <1>2, <2>1
    <2>3. /\ register'[t] = global_var
          /\ \A u \in Adders \ {t} : register'[u] = register[u]
      BY <1>1, <2>1 DEF CounterTyped
    <2>4. CounterTyped'
      BY <1>1, <2>1 DEF CounterTyped
    <2>5. AtMostMade'
      BY <1>1, <2>1, <2>2, <2>3 DEF AtMostMade
    <2>6. AtLeastTwo'
      <3>1. left[t] < Iterations => global_var >= 1
        BY <1>1 DEF AtLeastTwo
      <3> QED
        BY <1>1, <2>1, <2>3, <3>1 DEF AtLeastTwo
    <2>7. UnderMutex'
      BY <1>1, <2>1, <2>2, <2>3 DEF UnderMutex
    <2> QED
      BY <1>1, <2>1, <2>4, <2>5, <2>6, <2>7 DEF CounterInv
  <1>5. ASSUME NEW t \in Adders, Counter!Store(t)
        PROVE  CounterInv'
    <2>1. /\ register[t] # -1 /\ global_var' = register[t] + 1
          /\ register' = [register EXCEPT ![t] = -1] /\ left' = [left EXCEPT ![t] = @ - 1]
          /\ UNCHANGED <<mutexed, joined>>
      BY <1>5 DEF Counter!Store
    <2>2. /\ left[t] \in 0 .. Iterations /\ left[t] > 0 /\ register[t] \in Nat
          /\ register[t] <= Cardinality(Made) /\ (left[t] < Iterations => register[t] >= 1)
      BY <1>1, <2>1 DEF CounterTyped, AtMostMade, AtLeastTwo
    <2>3. /\ left'[t] = left[t] - 1 /\ \A u \in Adders \ {t} : left'[u] = left[u]
          /\ register'[t] = -1 /\ \A u \in Adders \ {t} : register'[u] = register[u]
      BY <1>1, <2>1 DEF CounterTyped
    <2>4. IsFiniteSet(Made') /\ Cardinality(Made') = Cardinality(Made) + 1
      <3>1. PICK f, g : /\ f = [u \in Adders |-> Iterations - left[u]]
                        /\ g = [u \in Adders |-> Iterations - left'[u]]
        OBVIOUS
      <3>2. /\ f[t] \in Nat /\ g[t] = f[t] + 1 /\ g[t] \in Nat /\ SameBut(Adders, f, g, t)
        BY <1>1, <2>2, <2>3, <3>1 DEF SameBut
      <3>3. Made = Units(Adders, f) /\ Made' = Units(Adders, g)
        BY <3>1 DEF Made
      <3>4. /\ IsFiniteSet(Units(Adders, g)) /\ Cardinality(Units(Adders, f)) \in Nat
            /\ Cardinality(Units(Adders, g)) = Cardinality(Units(Adders, f)) + g[t] - f[t]
        BY <1>1, <3>2, <3>3, UnitsChange DEF AtMostMade
      <3>5. Cardinality(Units(Adders, g)) = Cardinality(Units(Adders, f)) + 1
        BY <3>2, <3>4
      <3> QED
        BY <3>3, <3>4, <3>5
    <2>5. CounterTyped'
      BY <1>1, <2>1, <2>2 DEF CounterTyped
    <2>6. AtMostMade'
      <3>1. register \in [Adders -> Nat \cup {-1}]
        BY <1>1 DEF CounterTyped
      <3> QED
        BY <1>1, <2>1, <2>2, <2>3, <2>4, <3>1 DEF AtMostMade
    <2>7. AtLeastTwo'
      <3>1. (\A u \in Adders : left'[u] = 0) => register[t] >= 1
        BY <1>1, <2>2, <2>3
      <3>2. global_var' \in Nat /\ global_var' >= 1 /\ (register[t] >= 1 => global_var' >= 2)
        BY <2>1, <2>2
      <3>3. ASSUME NEW u \in Adders, register'[u] # -1
            PROVE  left'[u] > 0 /\ (left'[u] < Iterations => register'[u] >= 1)
        <4>1. u # t /\ register'[u] = register[u] /\ left'[u] = left[u]
          BY <2>3, <3>3
        <4> QED
          BY <1>1, <3>3, <4>1 DEF AtLeastTwo
      <3> QED
        BY <3>1, <3>2, <3>3 DEF AtLeastTwo
    <2>8. UnderMutex'
      <3> SUFFICES ASSUME mutexed
                   PROVE  /\ global_var' = Cardinality(Made')
                          /\ \A u \in Adders : register'[u] = -1
        BY <2>1 DEF UnderMutex
      <3>1. \A u \in Adders \ {t} : register[u] = -1
        <4>1. holder = {t}
          BY <1>1, <2>1 DEF UnderMutex
        <4> QED
          BY <1>1, <4>1 DEF UnderMutex
      <3>2. register[t] = Cardinality(Made)
        BY <1>1, <2>1 DEF UnderMutex
      <3> QED
        BY <2>1, <2>3, <2>4, <3>1, <3>2
    <2>9. ~joined
      BY <1>1, <2>2
    <2> QED
      BY <2>1, <2>5, <2>6, <2>7, <2>8, <2>9 DEF CounterInv
  <1>6. CASE UNCHANGED counterVars
    <2>1. UNCHANGED <<mutexed, holder, global_var, register, left, joined>>
      BY <1>6 DEF counterVars
    <2> QED
      BY <1>1, <1>2, <2>1 DEF CounterInv, CounterTyped, AtMostMade, AtLeastTwo, UnderMutex
  <1>7. CASE CounterStep
    BY <1>3, <1>4, <1>5, <1>7 DEF CounterStep, Counter!CounterNext
  <1>8. CASE ~CounterStep
    BY <1>6, <1>8 DEF Next, ChatStep, SocketStep, IpcStep, PipelineStep, LifesimStep, vars
  <1> QED
    BY <1>7, <1>8

(* What the thread counter prints: with the mutex all increments, without  *)
(* it at least two of them and never more than all.                        *)
THEOREM CounterIsBounded == Spec => []CounterBounds
  <1>1. CounterInv => CounterBounds
    <2> SUFFICES ASSUME CounterInv, joined
                 PROVE  LET all == Cardinality(Adders) * Iterations IN
                        IF mutexed THEN global_var = all ELSE global_var \in 2 .. all
      BY DEF CounterBounds
    <2>1. \A t \in Adders : left[t] = 0
      BY DEF CounterInv
    <2>2. IsFiniteSet(Adders) /\ Iterations \in Nat /\ Cardinality(Adders) \in Nat
      BY ProgramsAssumption, FS_CardinalityType
    <2>3. Cardinality(Made) = Cardinality(Adders) * Iterations
      <3>1. PICK f : f = [t \in Adders |-> Iterations - left[t]]
        OBVIOUS
      <3>2. \A t \in Adders : f[t] = Iterations
        BY <2>1, <2>2, <3>1
      <3>3. Cardinality(Units(Adders, f)) = Cardinality(Adders) * Iterations
        BY <2>2, <3>2, UnitsAlike
      <3> QED
        BY <3>1, <3>3 DEF Made
    <2>4. global_var \in Nat /\ global_var >= 2 /\ global_var <= Cardinality(Made)
      BY <2>1 DEF CounterInv, CounterTyped, AtLeastTwo, AtMostMade
    <2>5. mutexed => global_var = Cardinality(Made)
      BY DEF CounterInv, UnderMutex
    <2>6. Cardinality(Adders) * Iterations \in Nat
      BY <2>2
    <2> QED
      BY <2>3, <2>4, <2>5, <2>6
  <1> QED
    BY <1>1, InitCounter, NextCounter, PTL DEF Spec

-----------------------------------------------------------------------------
(* Homeworks 9, 12, 13 and 14.  In a run that has found nothing the parent *)
(* goes first, one thing is under way at most, and the child is done before*)
(* the parent waits for it.                                                *)

IpcTyped == means \in Ipc!Means /\ down \in Nat /\ up \in Nat /\ sem \in Nat /\ found \in Nat

Early ==
  parent \in {"create", "write"} /\ child \in {"open", "read"} /\ down = 0 /\ up = 0 /\ sem = 0

MessagesInOrder ==
  \/ Early
  \/ /\ parent \in {"read", "meet"} /\ sem = 0
     /\ \/ child \in {"open", "read"} /\ down = 1 /\ up = 0
        \/ child \in {"meet", "answer"} /\ down = 0 /\ up = 0
        \/ child = "ended" /\ down = 0 /\ up = 1
  \/ parent \in {"wait", "ended"} /\ child = "ended" /\ down = 0 /\ up = 0 /\ sem = 0

SemaphoreInOrder ==
  \/ Early
  \/ /\ parent = "read" /\ down = 0 /\ up = 0
     /\ \/ child \in {"open", "read"} /\ sem = 1
        \/ child = "answer" /\ sem = 0
        \/ child = "ended" /\ sem = 2
  \/ parent \in {"wait", "ended"} /\ child = "ended" /\ down = 0 /\ up = 0 /\ sem = 0

SignalInOrder ==
  \/ Early
  \/ /\ parent = "wait" /\ up = 0 /\ sem = 0
     /\ \/ child = "read" /\ down = 1
        \/ child \in {"ended", "killed"} /\ down = 0
  \/ parent = "ended" /\ child \in {"ended", "killed"} /\ down = 0 /\ up = 0 /\ sem = 0

Orderly ==
  found = 0 =>
    /\ means = "sysvsem" => SemaphoreInOrder
    /\ means \in Ipc!Signals => SignalInOrder
    /\ means \notin Ipc!Signals \cup {"sysvsem"} => MessagesInOrder

LEMMA InitOrderly == Init => IpcTyped /\ Orderly
  BY DEF Init, Ipc!IpcInit, Ipc!Means, Ipc!Signals, IpcTyped, Orderly, Early, SemaphoreInOrder,
     SignalInOrder, MessagesInOrder

LEMMA NextOrderly == IpcTyped /\ Orderly /\ [Next]_vars => IpcTyped' /\ Orderly'
  <1> SUFFICES ASSUME IpcTyped, Orderly, [Next]_vars PROVE IpcTyped' /\ Orderly'
    OBVIOUS
  <1> USE DEF IpcTyped, Orderly, Early, SemaphoreInOrder, SignalInOrder, MessagesInOrder,
          Ipc!Signals, Ipc!fixed
  <1>1. CASE UNCHANGED <<means, parent, child, down, up, sem, found>>
    BY <1>1
  <1>2. CASE Ipc!Create
    BY <1>1, <1>2 DEF Ipc!Create
  <1>3. CASE Ipc!Created
    BY <1>3 DEF Ipc!Created
  <1>4. CASE Ipc!Write
    BY <1>4 DEF Ipc!Write
  <1>5. CASE Ipc!Post
    BY <1>5 DEF Ipc!Post
  <1>6. CASE Ipc!Kill
    BY <1>6 DEF Ipc!Kill
  <1>7. CASE Ipc!Read
    BY <1>7 DEF Ipc!Read
  <1>8. CASE Ipc!Await
    BY <1>8 DEF Ipc!Await
  <1>9. CASE Ipc!Remove
    BY <1>9 DEF Ipc!Remove
  <1>10. CASE Ipc!Open
    BY <1>10 DEF Ipc!Open
  <1>11. CASE Ipc!ChildRead
    BY <1>11 DEF Ipc!ChildRead
  <1>12. CASE Ipc!ChildAwait
    BY <1>12 DEF Ipc!ChildAwait
  <1>13. CASE Ipc!Answer
    BY <1>13 DEF Ipc!Answer
  <1>14. CASE Ipc!ChildPost
    BY <1>14 DEF Ipc!ChildPost
  <1>15. CASE Ipc!Meet
    BY <1>15 DEF Ipc!Meet
  <1>16. CASE Ipc!Rerun
    <2>1. CASE means \in Ipc!Lasting
      <3>1. /\ found' = down + up + sem
            /\ UNCHANGED <<means, down, up, sem>> /\ parent' = "create" /\ child' = "open"
        BY <1>16, <2>1 DEF Ipc!Rerun
      <3>2. found' \in Nat /\ (found' = 0 => down = 0 /\ up = 0 /\ sem = 0)
        BY <3>1
      <3> QED
        BY <3>1, <3>2
    <2>2. CASE means \notin Ipc!Lasting
      BY <1>16, <2>2 DEF Ipc!Rerun
    <2> QED
      BY <2>1, <2>2
  <1>17. CASE IpcStep(Ipc!IpcNext)
    BY <1>2, <1>3, <1>4, <1>5, <1>6, <1>7, <1>8, <1>9, <1>10, <1>11, <1>12, <1>13, <1>14, <1>15,
       <1>16, <1>17 DEF IpcStep, Ipc!IpcNext, Ipc!Parent, Ipc!Child
  <1>18. CASE ~IpcStep(Ipc!IpcNext)
    BY <1>1, <1>18 DEF Next, ChatStep, SocketStep, PipelineStep, CounterStep, LifesimStep, vars,
       ipcVars
  <1> QED
    BY <1>17, <1>18

(* Nobody reads what has not been written in the same run, unless an       *)
(* interrupted run has left something to read.                             *)
THEOREM ExchangesInStep == Spec => []InStep
  <1>1. IpcTyped /\ Orderly => InStep
    BY DEF InStep, Ipc!InStep, IpcTyped, Orderly, Early, SemaphoreInOrder, SignalInOrder,
       MessagesInOrder, Ipc!Signals
  <1> QED
    BY <1>1, InitOrderly, NextOrderly, PTL DEF Spec

-----------------------------------------------------------------------------
(* Homework 12, the chat.                                                  *)

ClientAt == {"off", "waiting", "holding", "gaveup", "open", "gone"} \cup Chat!Online
ServerAt == {"login", "putback", "register", "list", "users", "down"}

ChatTyped ==
  /\ server \in ServerAt /\ hand \in Nat /\ users \in Seq(BOOLEAN)
  /\ requests \in Nat /\ answers \in Seq(Nat) /\ lost \in Nat
  /\ client \in [Clients -> ClientAt] /\ id \in [Clients -> Nat]
  /\ stc = [u \in Chat!Slots |-> stc[u]]
  /\ handler \in [Chat!Slots -> {"none", "reading", "rearm"}]

(* Every user of the server, and every request, is of a client of its own, *)
(* so there is a slot for each.                                            *)
Came == Clients \ Chat!In({"off"})
SlotsEnough ==
  Len(users) + requests + Cardinality(Chat!In({"holding"})) + (IF server = "register" THEN 1 ELSE 0)
    <= Cardinality(Came)

(* A number is in the hands of one client, in the server's hand, or in the *)
(* login queue, once.                                                      *)
HasId == {"open"} \cup Chat!Online
IdsOwn ==
  /\ \A c \in Chat!In(HasId) : id[c] \in DOMAIN users
  /\ \A c, d \in Chat!In(HasId) : id[c] = id[d] => c = d
  /\ \A i \in DOMAIN answers : /\ answers[i] \in DOMAIN users /\ answers[i] # hand
                              /\ \A c \in Chat!In(HasId) : id[c] # answers[i]
  /\ \A i, j \in DOMAIN answers : answers[i] = answers[j] => i = j
  /\ hand # 0 => hand \in DOMAIN users /\ \A c \in Chat!In(HasId) : id[c] # hand
  /\ server = "putback" => hand # 0

(* Notifications are asked for, and handled, by the client whose queue it  *)
(* is, while it is online.                                                 *)
Listening == Chat!Online \ {"notify"}
HandlersOwned ==
  \A u \in Chat!Slots :
    handler[u] # "none" \/ u \in registered => \E c \in Chat!In(Listening) : id[c] = u

(* A client that has asked for notifications and is not handling one will  *)
(* get one, and it has nothing to read when it is done, unless a message   *)
(* came while it asked for the next.                                       *)
Hears ==
  \A c \in Chat!In(Listening) :
    /\ handler[id[c]] = "none" => id[c] \in registered
    /\ handler[id[c]] = "rearm" /\ id[c] \notin missed => stc[id[c]] = <<>>
    /\ client[c] \in {"talk", "said"} /\ handler[id[c]] = "none" /\ id[c] \notin missed =>
         stc[id[c]] = <<>>

LEMMA ClientMoves ==
  ASSUME ChatTyped, NEW c \in Clients, NEW to, client' = [client EXCEPT ![c] = to], NEW P
  PROVE  /\ client[c] \notin P /\ to \in P =>
              Cardinality(Chat!In(P))' = Cardinality(Chat!In(P)) + 1
         /\ client[c] \in P /\ to \notin P =>
              Cardinality(Chat!In(P))' = Cardinality(Chat!In(P)) - 1
         /\ (client[c] \in P <=> to \in P) => Cardinality(Chat!In(P))' = Cardinality(Chat!In(P))
  <1>1. IsFiniteSet(Clients)
    BY ProgramsAssumption
  <1>2. PICK g : g = client'
    OBVIOUS
  <1>3. g[c] = to /\ SameBut(Clients, client, g, c)
    BY <1>2 DEF ChatTyped, SameBut
  <1>4. Chat!In(P) = Where(Clients, client, P) /\ Chat!In(P)' = Where(Clients, g, P)
    BY <1>2 DEF Chat!In, Where
  <1>5. /\ client[c] \notin P /\ g[c] \in P =>
             Cardinality(Where(Clients, g, P)) = Cardinality(Where(Clients, client, P)) + 1
        /\ client[c] \in P /\ g[c] \notin P =>
             Cardinality(Where(Clients, g, P)) = Cardinality(Where(Clients, client, P)) - 1
        /\ (client[c] \in P <=> g[c] \in P) =>
             Cardinality(Where(Clients, g, P)) = Cardinality(Where(Clients, client, P))
    BY <1>1, <1>3, MoveOne
  <1> QED
    BY <1>3, <1>4, <1>5

LEMMA ClientCount ==
  ASSUME NEW P, NEW Q, P \subseteq Q
  PROVE  /\ Cardinality(Chat!In(P)) \in Nat /\ Cardinality(Chat!In(Q)) \in Nat
         /\ Cardinality(Chat!In(P)) <= Cardinality(Chat!In(Q))
  <1>1. Chat!In(P) = Where(Clients, client, P) /\ Chat!In(Q) = Where(Clients, client, Q)
    BY DEF Chat!In, Where
  <1> QED
    BY <1>1, WhereFinite, WhereMonotone, ProgramsAssumption

CameAt == ClientAt \ {"off"}

LEMMA CameIsCounted ==
  /\ ChatTyped => Came = Chat!In(CameAt)
  /\ ChatTyped' => Came' = Chat!In(CameAt)'
  BY DEF ChatTyped, Came, Chat!In, CameAt

LEMMA InitChat == Init => ChatTyped
  <1> SUFFICES ASSUME Init PROVE ChatTyped
    OBVIOUS
  <1>1. /\ server = "login" /\ hand = 0 /\ users = <<>> /\ requests = 0 /\ answers = <<>> /\ lost = 0
        /\ client = [c \in Clients |-> "off"] /\ id = [c \in Clients |-> 0]
        /\ stc = [u \in Chat!Slots |-> <<>>] /\ handler = [u \in Chat!Slots |-> "none"]
    BY DEF Init, Chat!Init
  <1> QED
    BY <1>1 DEF ChatTyped, ClientAt, ServerAt

(* Typing: the server's steps and the clients'.                            *)
LEMMA ServerTyped ==
  ASSUME ChatTyped, Chat!Server
  PROVE  ChatTyped'
  <1> USE DEF ChatTyped, ServerAt, Chat!login_q, Chat!array, Chat!notify
  <1>1. ASSUME NEW U, NEW p, Chat!SendTo(U, p)
        PROVE  /\ stc' = [u \in Chat!Slots |-> stc'[u]]
               /\ handler' \in [Chat!Slots -> {"none", "reading", "rearm"}]
    BY <1>1 DEF Chat!SendTo
  <1>2. CASE Chat!NoLogin
    BY <1>2 DEF Chat!NoLogin
  <1>3. CASE Chat!TakeAnswer
    <2>1. Head(answers) \in Nat /\ Tail(answers) \in Seq(Nat)
      BY <1>3 DEF Chat!TakeAnswer
    <2> QED
      BY <1>3, <2>1 DEF Chat!TakeAnswer
  <1>4. ASSUME NEW u \in Nat, Chat!Answer(u)
        PROVE  answers' \in Seq(Nat) /\ lost' \in Nat
    <2>1. Append(answers, u) \in Seq(Nat)
      BY AppendStays
    <2>2. answers' = Append(answers, u) \/ answers' = answers
      BY <1>4 DEF Chat!Answer
    <2>3. lost' = lost \/ lost' = lost + 1
      BY <1>4 DEF Chat!Answer
    <2>4. lost' \in Nat
      BY <2>3
    <2> QED
      BY <2>1, <2>2, <2>4
  <1>5. CASE Chat!PutBack
    BY <1>4, <1>5 DEF Chat!PutBack
  <1>6. CASE Chat!TakeRequest
    BY <1>6 DEF Chat!TakeRequest
  <1>7. CASE Chat!Register
    <2>1. users' \in Seq(BOOLEAN)
      BY <1>7, AppendStays DEF Chat!Register
    <2>2. Len(users) + 1 \in Nat
      OBVIOUS
    <2> QED
      BY <1>4, <1>7, <2>1, <2>2 DEF Chat!Register
  <1>8. CASE Chat!ListNew
    BY <1>1, <1>8 DEF Chat!ListNew
  <1>9. CASE Chat!ListNewDies
    BY <1>9 DEF Chat!ListNewDies
  <1>10. ASSUME NEW u \in DOMAIN users, Chat!NothingFrom(u)
         PROVE  ChatTyped'
    BY <1>10 DEF Chat!NothingFrom
  <1>11. ASSUME NEW u \in DOMAIN users, Chat!Message(u)
         PROVE  ChatTyped'
    BY <1>1, <1>11 DEF Chat!Message
  <1>12. ASSUME NEW u \in DOMAIN users, Chat!NewName(u)
         PROVE  ChatTyped'
    BY <1>1, <1>12 DEF Chat!NewName
  <1>13. ASSUME NEW u \in DOMAIN users, Chat!Leave(u)
         PROVE  ChatTyped'
    <2>1. /\ stc' = [v \in Chat!Slots |-> stc'[v]]
          /\ handler' \in [Chat!Slots -> {"none", "reading", "rearm"}]
      BY <1>1, <1>13 DEF Chat!Leave
    <2>2. users' \in Seq(BOOLEAN)
      BY <1>13 DEF Chat!Leave
    <2>3. server' \in {server, "down"}
      BY <1>13 DEF Chat!Leave
    <2> QED
      BY <1>13, <2>1, <2>2, <2>3 DEF Chat!Leave
  <1>14. CASE Chat!EndRound
    BY <1>14 DEF Chat!EndRound
  <1>15. CASE Chat!Shutdown
    BY <1>1, <1>15 DEF Chat!Shutdown
  <1> QED
    BY <1>2, <1>3, <1>5, <1>6, <1>7, <1>8, <1>9, <1>10, <1>11, <1>12, <1>13, <1>14, <1>15
       DEF Chat!Server

LEMMA ClientTyped ==
  ASSUME ChatTyped, NEW c \in Clients, Chat!Client(c)
  PROVE  ChatTyped'
  <1> USE DEF ChatTyped, ClientAt, Chat!Online, Chat!login_q, Chat!array, Chat!notify
  <1>1. CASE Chat!Request(c) \/ Chat!ReceiveRequest(c) \/ Chat!ReturnRequest(c)
    <2>1. requests' \in Nat
      BY <1>1 DEF Chat!Request, Chat!ReceiveRequest, Chat!ReturnRequest
    <2>2. \E to \in {"waiting", "holding"} : client' = [client EXCEPT ![c] = to]
      BY <1>1 DEF Chat!Request, Chat!ReceiveRequest, Chat!ReturnRequest
    <2>3. client' \in [Clients -> ClientAt]
      BY <2>2
    <2>4. UNCHANGED <<server, hand, users, answers, lost, id, stc, handler>>
      BY <1>1 DEF Chat!Request, Chat!ReceiveRequest, Chat!ReturnRequest
    <2> HIDE DEF ClientAt
    <2> QED
      BY <2>1, <2>3, <2>4
  <1>2. CASE Chat!ReceiveAnswer(c)
    <2>1. Head(answers) \in Nat /\ Tail(answers) \in Seq(Nat)
      BY <1>2 DEF Chat!ReceiveAnswer
    <2> QED
      BY <1>2, <2>1 DEF Chat!ReceiveAnswer
  <1>3. CASE Chat!Open(c)
    BY <1>3 DEF Chat!Open
  <1>4. CASE Chat!Notify(c) \/ Chat!Name(c) \/ Chat!Drained(c) \/ Chat!Say(c)
    BY <1>4 DEF Chat!Notify, Chat!Name, Chat!Drained, Chat!Say
  <1>5. CASE Chat!HandledAll(c) \/ Chat!Rearm(c)
    BY <1>5 DEF Chat!HandledAll, Chat!Rearm
  <1>6. ASSUME Chat!Exit(c), UNCHANGED stc \/ stc' = [stc EXCEPT ![id[c]] = Tail(@)]
        PROVE  ChatTyped'
    BY <1>6 DEF Chat!Exit
  <1>7. CASE Chat!Read(c)
    <2>1. CASE Head(stc[id[c]]) = Chat!DISCONNECT
      BY <1>6, <1>7, <2>1 DEF Chat!Read
    <2>2. CASE Head(stc[id[c]]) # Chat!DISCONNECT
      BY <1>7, <2>2 DEF Chat!Read
    <2> QED
      BY <2>1, <2>2
  <1>8. CASE Chat!Quit(c)
    BY <1>6, <1>8 DEF Chat!Quit
  <1>9. CASE Chat!Interrupt(c)
    <2>1. CASE Chat!Exit(c)
      BY <1>6, <1>9, <2>1 DEF Chat!Interrupt
    <2>2. CASE ~Chat!Exit(c)
      BY <1>9, <2>2 DEF Chat!Interrupt
    <2> QED
      BY <2>1, <2>2
  <1> QED
    BY <1>1, <1>2, <1>3, <1>4, <1>5, <1>7, <1>8, <1>9 DEF Chat!Client

LEMMA ChatTypedStays ==
  ASSUME ChatTyped, UNCHANGED chatVars
  PROVE  ChatTyped'
  <1>1. UNCHANGED <<server, hand, users, requests, answers, lost, client, id, stc, handler>>
    BY DEF chatVars
  <1>2. Chat!Slots' = Chat!Slots
    BY DEF Chat!Slots
  <1> QED
    BY <1>1, <1>2 DEF ChatTyped

-----------------------------------------------------------------------------
(* The chat's login queue: what is under way, and who waits for it.        *)

Waiting == {"waiting", "holding", "gaveup"}
UnderWay ==
  requests + Len(answers) + lost + (IF server \in {"putback", "register"} THEN 1 ELSE 0)

(* The instance has FiniteSets of its own.                                 *)
LEMMA ChatCardinality == \A S : Chat!Cardinality(S) = Cardinality(S)
  BY DEF Chat!Cardinality, Cardinality

LEMMA LedgerIs ==
  ASSUME ChatTyped
  PROVE  /\ AnswerLedger <=>
              (server # "down" =>
                 /\ UnderWay + Cardinality(Chat!In({"holding"})) = Cardinality(Chat!In(Waiting))
                 /\ lost > 0 => lost <= Cardinality(Came) - LoginMax)
         /\ UnderWay \in Nat /\ Cardinality(Came) \in Nat /\ LoginMax \in Nat
         /\ Cardinality(Chat!In({"holding"})) \in Nat /\ Cardinality(Chat!In(Waiting)) \in Nat
         /\ Cardinality(Chat!In(Waiting)) <= Cardinality(Came)
         /\ requests \in Nat /\ Len(answers) \in Nat /\ lost \in Nat
  <1>1. requests \in Nat /\ Len(answers) \in Nat /\ lost \in Nat
    BY DEF ChatTyped
  <1>2. Waiting \subseteq CameAt /\ {"holding"} \subseteq CameAt
    BY DEF Waiting, CameAt, ClientAt
  <1>3. Came = Chat!In(CameAt)
    BY CameIsCounted
  <1>4. /\ Cardinality(Chat!In({"holding"})) \in Nat /\ Cardinality(Came) \in Nat
        /\ Cardinality(Chat!In(Waiting)) \in Nat
        /\ Cardinality(Chat!In(Waiting)) <= Cardinality(Came)
    BY <1>2, <1>3, ClientCount
  <1>5. UnderWay \in Nat
    BY <1>1 DEF UnderWay
  <1>6. Chat!Logged + Cardinality(Chat!In({"holding"})) + lost
          + (IF server \in {"putback", "register"} THEN 1 ELSE 0)
          = UnderWay + Cardinality(Chat!In({"holding"}))
    BY <1>1, <1>4 DEF UnderWay, Chat!Logged
  <1>7. LoginMax \in Nat
    BY ProgramsAssumption
  <1>8. AnswerLedger <=>
          (server # "down" =>
             /\ Chat!Logged + Cardinality(Chat!In({"holding"})) + lost
                  + (IF server \in {"putback", "register"} THEN 1 ELSE 0)
                  = Cardinality(Chat!In(Waiting))
             /\ lost > 0 => lost <= Cardinality(Came) - LoginMax)
    BY ChatCardinality DEF AnswerLedger, Chat!AnswerLedger, Came, Waiting
  <1> QED
    BY <1>1, <1>4, <1>5, <1>6, <1>7, <1>8

(* An answer goes into the login queue, or is lost if there is no room.    *)
LEMMA AnswerEffect ==
  ASSUME ChatTyped, NEW u \in Nat, Chat!Answer(u)
  PROVE  \/ Len(answers') = Len(answers) + 1 /\ lost' = lost
         \/ /\ Len(answers') = Len(answers) /\ lost' = lost + 1
            /\ requests + Len(answers) >= LoginMax
  <1>1. answers \in Seq(Nat) /\ requests \in Nat /\ Len(answers) \in Nat /\ LoginMax \in Nat
    BY ProgramsAssumption DEF ChatTyped
  <1>2. Len(Append(answers, u)) = Len(answers) + 1
    BY <1>1
  <1>3. Chat!Logged = requests + Len(answers)
    BY DEF Chat!Logged
  <1>4. CASE Chat!Logged < LoginMax
    BY <1>2, <1>4 DEF Chat!Answer
  <1>5. CASE ~(Chat!Logged < LoginMax)
    <2>1. answers' = answers /\ lost' = lost + 1
      BY <1>5 DEF Chat!Answer
    <2>2. requests + Len(answers) >= LoginMax
      BY <1>1, <1>3, <1>5
    <2> QED
      BY <2>1, <2>2
  <1> QED
    BY <1>4, <1>5

LEMMA LedgerAfter ==
  ASSUME ChatTyped'
  PROVE  AnswerLedger' <=>
              (server' # "down" =>
                 /\ UnderWay' + Cardinality(Chat!In({"holding"}))' = Cardinality(Chat!In(Waiting))'
                 /\ lost' > 0 => lost' <= Cardinality(Came)' - LoginMax)
  <1>1. requests' \in Nat /\ Len(answers') \in Nat /\ lost' \in Nat
    BY DEF ChatTyped
  <1>2. PICK h : h = Cardinality(Chat!In({"holding"}))'
    OBVIOUS
  <1>3. h \in Nat
    <2>1. PICK g : g = client'
      OBVIOUS
    <2>2. Chat!In({"holding"})' = Where(Clients, g, {"holding"})
      BY <2>1 DEF Chat!In, Where
    <2>3. Cardinality(Where(Clients, g, {"holding"})) \in Nat
      BY WhereFinite, ProgramsAssumption
    <2> QED
      BY <1>2, <2>2, <2>3
  <1>4. Chat!Logged' + h + lost' + (IF server' \in {"putback", "register"} THEN 1 ELSE 0)
          = UnderWay' + h
    BY <1>1, <1>3 DEF UnderWay, Chat!Logged
  <1>5. AnswerLedger' <=>
          (server' # "down" =>
             /\ Chat!Logged' + Cardinality(Chat!In({"holding"}))' + lost'
                  + (IF server' \in {"putback", "register"} THEN 1 ELSE 0)
                  = Cardinality(Chat!In(Waiting))'
             /\ lost' > 0 => lost' <= Cardinality(Came)' - LoginMax)
    BY ChatCardinality DEF AnswerLedger, Chat!AnswerLedger, Came, Waiting
  <1> QED
    BY <1>2, <1>4, <1>5

LEMMA ServerLedger ==
  ASSUME ChatTyped, AnswerLedger, Chat!Server
  PROVE  AnswerLedger'
  <1> USE DEF Chat!login_q, Chat!array, Chat!notify
  <1>1. UNCHANGED client
    BY DEF Chat!Server, Chat!NoLogin, Chat!TakeAnswer, Chat!PutBack, Chat!TakeRequest,
       Chat!Register, Chat!ListNew, Chat!ListNewDies, Chat!NothingFrom, Chat!Message,
       Chat!NewName, Chat!Leave, Chat!EndRound, Chat!Shutdown
  <1>2. /\ Chat!In({"holding"})' = Chat!In({"holding"}) /\ Chat!In(Waiting)' = Chat!In(Waiting)
        /\ Came' = Came
    BY <1>1 DEF Chat!In, Came
  <1>3. /\ UnderWay \in Nat /\ Cardinality(Came) \in Nat /\ LoginMax \in Nat
        /\ Cardinality(Chat!In({"holding"})) \in Nat /\ Cardinality(Chat!In(Waiting)) \in Nat
        /\ Cardinality(Chat!In(Waiting)) <= Cardinality(Came)
        /\ requests \in Nat /\ Len(answers) \in Nat /\ lost \in Nat
    BY LedgerIs
  <1>4. ChatTyped'
    BY ServerTyped
  <1>5. ASSUME UNCHANGED lost, server' # "down" => server # "down" /\ UnderWay' = UnderWay
        PROVE  AnswerLedger'
    BY <1>2, <1>4, <1>5, LedgerIs, LedgerAfter
  <1>6. ASSUME server # "down", NEW u \in Nat, Chat!Answer(u), UNCHANGED requests,
               server \in {"putback", "register"}, server' \in {"users", "list"}
        PROVE  AnswerLedger'
    <2>1. UnderWay + Cardinality(Chat!In({"holding"})) = Cardinality(Chat!In(Waiting))
          /\ (lost > 0 => lost <= Cardinality(Came) - LoginMax)
      BY <1>6, LedgerIs
    <2>2. UnderWay = requests + Len(answers) + lost + 1
      BY <1>6 DEF UnderWay
    <2>3. UnderWay' = requests + Len(answers') + lost'
      <3>1. requests + Len(answers') + lost' \in Nat
        BY <1>3, <1>4, <1>6 DEF ChatTyped
      <3> QED
        BY <1>6, <3>1 DEF UnderWay
    <2>4. \/ Len(answers') = Len(answers) + 1 /\ lost' = lost
          \/ /\ Len(answers') = Len(answers) /\ lost' = lost + 1
             /\ requests + Len(answers) >= LoginMax
      BY <1>6, AnswerEffect
    <2>5. UnderWay' = UnderWay
      BY <1>3, <2>2, <2>3, <2>4
    <2>6. lost' > 0 => lost' <= Cardinality(Came) - LoginMax
      BY <1>3, <2>1, <2>2, <2>4
    <2> QED
      BY <1>2, <1>4, <2>1, <2>5, <2>6, LedgerAfter
  <1>7. CASE Chat!NoLogin
    BY <1>5, <1>7 DEF Chat!NoLogin, UnderWay
  <1>8. CASE Chat!TakeAnswer
    <2>1. answers \in Seq(Nat) /\ answers # <<>> /\ answers' = Tail(answers)
      BY <1>8 DEF Chat!TakeAnswer, ChatTyped
    <2>2. Len(answers') = Len(answers) - 1
      BY <2>1
    <2>3. server = "login" /\ server' = "putback" /\ UNCHANGED <<requests, lost>>
      BY <1>8 DEF Chat!TakeAnswer
    <2>4. UnderWay' = UnderWay
      BY <1>3, <2>2, <2>3 DEF UnderWay
    <2> QED
      BY <1>5, <2>3, <2>4
  <1>9. CASE Chat!PutBack
    BY <1>6, <1>9 DEF Chat!PutBack, ChatTyped
  <1>10. CASE Chat!TakeRequest
    <2>1. /\ server = "login" /\ server' = "register" /\ requests' = requests - 1
          /\ UNCHANGED <<answers, lost>>
      BY <1>10 DEF Chat!TakeRequest
    <2>2. UnderWay' = UnderWay
      BY <1>3, <2>1 DEF UnderWay
    <2> QED
      BY <1>5, <2>1, <2>2
  <1>11. CASE Chat!Register
    <2>1. Len(users) + 1 \in Nat
      BY DEF ChatTyped
    <2> QED
      BY <1>6, <1>11, <2>1 DEF Chat!Register
  <1>12. CASE Chat!ListNew \/ Chat!ListNewDies
    BY <1>5, <1>12 DEF Chat!ListNew, Chat!ListNewDies, UnderWay
  <1>13. ASSUME NEW u \in DOMAIN users,
                Chat!NothingFrom(u) \/ Chat!Message(u) \/ Chat!NewName(u) \/ Chat!Leave(u)
         PROVE  AnswerLedger'
    <2>1. server = "users" /\ server' \in {"users", "down"} /\ UNCHANGED <<requests, answers, lost>>
      BY <1>13 DEF Chat!NothingFrom, Chat!Message, Chat!NewName, Chat!Leave, Chat!From
    <2> QED
      BY <1>5, <2>1 DEF UnderWay
  <1>14. CASE Chat!EndRound \/ Chat!Shutdown
    BY <1>5, <1>14 DEF Chat!EndRound, Chat!Shutdown, UnderWay
  <1> QED
    BY <1>7, <1>8, <1>9, <1>10, <1>11, <1>12, <1>13, <1>14 DEF Chat!Server

(* A client that moves from one place to another.                          *)
LEMMA ClientLedger ==
  ASSUME ChatTyped, AnswerLedger, NEW c \in Clients, Chat!Client(c)
  PROVE  AnswerLedger'
  <1> USE DEF Chat!login_q, Chat!array, Chat!notify
  <1> DEFINE H == Cardinality(Chat!In({"holding"}))
             W == Cardinality(Chat!In(Waiting))
             A == Cardinality(Came)
  <1>1. /\ UnderWay \in Nat /\ A \in Nat /\ LoginMax \in Nat /\ H \in Nat /\ W \in Nat
        /\ requests \in Nat /\ Len(answers) \in Nat /\ lost \in Nat
    BY LedgerIs
  <1>2. ChatTyped'
    BY ClientTyped
  <1>3. client[c] \in ClientAt /\ client \in [Clients -> ClientAt]
    BY DEF ChatTyped
  <1>4. ASSUME server' = server, lost' = lost, A' \in {A, A + 1},
               server # "down" => UnderWay' + H' + W = UnderWay + H + W',
               UnderWay' \in Nat, H' \in Nat, W' \in Nat
        PROVE  AnswerLedger'
    <2>1. server # "down" => /\ UnderWay + H = W
                             /\ lost > 0 => lost <= A - LoginMax
      BY LedgerIs
    <2>2. ASSUME server # "down"
          PROVE  UnderWay' + H' = W'
      <3>1. /\ UnderWay + H = W /\ UnderWay' + H' + W = UnderWay + H + W'
            /\ UnderWay \in Nat /\ H \in Nat /\ W \in Nat
            /\ UnderWay' \in Nat /\ H' \in Nat /\ W' \in Nat
        BY <1>1, <1>4, <2>1, <2>2
      <3>2. PICK u, h, w, v, g, x :
              u = UnderWay /\ h = H /\ w = W /\ v = UnderWay' /\ g = H' /\ x = W'
        OBVIOUS
      <3>3. /\ u + h = w /\ v + g + w = u + h + x
            /\ u \in Nat /\ h \in Nat /\ w \in Nat /\ v \in Nat /\ g \in Nat /\ x \in Nat
        BY <3>1, <3>2
      <3>4. v + g = x
        BY <3>3
      <3> QED
        BY <3>2, <3>4
    <2>3. ASSUME server # "down", lost > 0
          PROVE  lost <= A' - LoginMax
      <3>1. /\ lost <= A - LoginMax /\ A' \in {A, A + 1}
            /\ A \in Nat /\ LoginMax \in Nat /\ lost \in Nat
        BY <1>1, <1>4, <2>1, <2>3
      <3>2. PICK a, b : a = A /\ b = A'
        OBVIOUS
      <3>3. lost <= a - LoginMax /\ b \in {a, a + 1} /\ a \in Nat /\ LoginMax \in Nat
            /\ lost \in Nat
        BY <3>1, <3>2
      <3>4. lost <= b - LoginMax
        BY <3>3
      <3> QED
        BY <3>2, <3>4
    <2> QED
      BY <1>2, <1>4, <2>2, <2>3, LedgerAfter
  <1>5. ASSUME NEW to \in CameAt, client' = [client EXCEPT ![c] = to]
        PROVE  /\ H' = H + (IF to = "holding" THEN 1 ELSE 0)
                         - (IF client[c] = "holding" THEN 1 ELSE 0)
               /\ W' = W + (IF to \in Waiting THEN 1 ELSE 0)
                         - (IF client[c] \in Waiting THEN 1 ELSE 0)
               /\ A' \in {A, A + 1}
    <2>1. Came = Chat!In(CameAt) /\ Came' = Chat!In(CameAt)'
      BY <1>2, CameIsCounted
    <2>2. /\ client[c] \notin {"holding"} /\ to \in {"holding"} => H' = H + 1
          /\ client[c] \in {"holding"} /\ to \notin {"holding"} => H' = H - 1
          /\ (client[c] \in {"holding"} <=> to \in {"holding"}) => H' = H
      BY <1>5, ClientMoves
    <2>3. /\ client[c] \notin Waiting /\ to \in Waiting => W' = W + 1
          /\ client[c] \in Waiting /\ to \notin Waiting => W' = W - 1
          /\ (client[c] \in Waiting <=> to \in Waiting) => W' = W
      BY <1>5, ClientMoves
    <2>4. /\ client[c] \notin CameAt /\ to \in CameAt =>
               Cardinality(Chat!In(CameAt))' = Cardinality(Chat!In(CameAt)) + 1
          /\ (client[c] \in CameAt <=> to \in CameAt) =>
               Cardinality(Chat!In(CameAt))' = Cardinality(Chat!In(CameAt))
      BY <1>5, ClientMoves
    <2>5. A' \in {A, A + 1}
      BY <1>5, <2>1, <2>4
    <2>6. H' = H + (IF to = "holding" THEN 1 ELSE 0) - (IF client[c] = "holding" THEN 1 ELSE 0)
      <3> HIDE DEF H
      <3> QED
        BY <1>1, <2>2
    <2>7. W' = W + (IF to \in Waiting THEN 1 ELSE 0) - (IF client[c] \in Waiting THEN 1 ELSE 0)
      <3> HIDE DEF W
      <3> QED
        BY <1>1, <2>3
    <2> QED
      BY <2>5, <2>6, <2>7
  <1>6. ASSUME NEW to \in CameAt, client' = [client EXCEPT ![c] = to],
               server' = server, lost' = lost,
               \/ /\ UnderWay' = UnderWay + 1
                  /\ to \in Waiting \ {"holding"} /\ client[c] \notin Waiting \ {"holding"}
               \/ /\ UnderWay' = UnderWay - 1
                  /\ to \notin Waiting \ {"holding"} /\ client[c] \in Waiting \ {"holding"}
               \/ /\ UnderWay' = UnderWay
                  /\ to \in Waiting \ {"holding"} <=> client[c] \in Waiting \ {"holding"}
        PROVE  AnswerLedger'
    <2>1. /\ H' = H + (IF to = "holding" THEN 1 ELSE 0)
                    - (IF client[c] = "holding" THEN 1 ELSE 0)
          /\ W' = W + (IF to \in Waiting THEN 1 ELSE 0)
                    - (IF client[c] \in Waiting THEN 1 ELSE 0)
          /\ A' \in {A, A + 1}
      BY <1>5, <1>6
    <2>2. "holding" \in Waiting
      BY DEF Waiting
    <2>3. H' \in Nat /\ W' \in Nat /\ UnderWay' \in Nat
      <3>1. PICK g : g = client'
        OBVIOUS
      <3>2. Chat!In({"holding"})' = Where(Clients, g, {"holding"})
            /\ Chat!In(Waiting)' = Where(Clients, g, Waiting)
        BY <3>1 DEF Chat!In, Where, Waiting
      <3>3. H' \in Nat /\ W' \in Nat
        BY <3>2, WhereFinite, ProgramsAssumption
      <3>4. UnderWay' \in Nat
        BY <1>2 DEF UnderWay, ChatTyped
      <3> QED
        BY <3>3, <3>4
    <2>4. UnderWay' + H' + W = UnderWay + H + W'
      <3> HIDE DEF H, W, A
      <3> QED
        BY <1>1, <1>6, <2>1, <2>2
    <2> QED
      BY <1>4, <1>6, <2>1, <2>3, <2>4
  <1>7. CASE Chat!Request(c)
    <2>1. /\ client' = [client EXCEPT ![c] = "waiting"] /\ client[c] = "off"
          /\ requests' = requests + 1 /\ UNCHANGED <<server, answers, lost>>
      BY <1>7 DEF Chat!Request
    <2>2. UnderWay' = UnderWay + 1
      BY <1>1, <2>1 DEF UnderWay
    <2>3. "waiting" \in CameAt /\ "waiting" \in Waiting \ {"holding"}
          /\ client[c] \notin Waiting \ {"holding"}
      BY <2>1 DEF Waiting, CameAt, ClientAt
    <2> HIDE DEF H, W, A
    <2> QED
      BY <1>1, <1>6, <2>1, <2>2, <2>3
  <1>8. CASE Chat!ReceiveRequest(c)
    <2>1. /\ client' = [client EXCEPT ![c] = "holding"] /\ client[c] = "waiting"
          /\ requests' = requests - 1 /\ UNCHANGED <<server, answers, lost>>
      BY <1>8 DEF Chat!ReceiveRequest
    <2>2. UnderWay' = UnderWay - 1
      BY <1>1, <2>1 DEF UnderWay
    <2>3. "holding" \in CameAt /\ client[c] \in Waiting \ {"holding"}
      BY <2>1 DEF Waiting, CameAt, ClientAt
    <2> HIDE DEF H, W, A
    <2> QED
      BY <1>1, <1>6, <2>1, <2>2, <2>3
  <1>9. CASE Chat!ReturnRequest(c)
    <2>1. /\ client' = [client EXCEPT ![c] = "waiting"] /\ client[c] = "holding"
          /\ requests' = requests + 1 /\ UNCHANGED <<server, answers, lost>>
      BY <1>9 DEF Chat!ReturnRequest
    <2>2. UnderWay' = UnderWay + 1
      BY <1>1, <2>1 DEF UnderWay
    <2>3. "waiting" \in CameAt /\ "waiting" \in Waiting \ {"holding"}
      BY DEF Waiting, CameAt, ClientAt
    <2> HIDE DEF H, W, A
    <2> QED
      BY <1>1, <1>6, <2>1, <2>2, <2>3
  <1>10. CASE Chat!ReceiveAnswer(c)
    <2>1. answers \in Seq(Nat) /\ answers # <<>> /\ answers' = Tail(answers)
      BY <1>10 DEF Chat!ReceiveAnswer, ChatTyped
    <2>2. Len(answers') = Len(answers) - 1
      BY <2>1
    <2>3. /\ client' = [client EXCEPT ![c] = "open"] /\ client[c] = "waiting"
          /\ UNCHANGED <<server, requests, lost>>
      BY <1>10 DEF Chat!ReceiveAnswer
    <2>4. UnderWay' = UnderWay - 1
      BY <1>1, <2>2, <2>3 DEF UnderWay
    <2>5. "open" \in CameAt /\ "open" \notin Waiting /\ client[c] \in Waiting \ {"holding"}
      BY <2>3 DEF Waiting, CameAt, ClientAt
    <2> HIDE DEF H, W, A
    <2> QED
      BY <1>1, <1>6, <2>3, <2>4, <2>5
  <1>11. ASSUME UNCHANGED <<client, server, requests, answers, lost>>
         PROVE  AnswerLedger'
    <2>1. H' = H /\ W' = W /\ A' = A
      BY <1>11 DEF Chat!In, Came
    <2>2. UnderWay' = UnderWay
      BY <1>11 DEF UnderWay
    <2> QED
      BY <1>1, <1>4, <1>11, <2>1, <2>2
  <1>12. ASSUME NEW to \in {"gone"} \cup Chat!Online, client' = [client EXCEPT ![c] = to],
                client[c] \in {"open"} \cup Chat!Online,
                UNCHANGED <<server, requests, answers, lost>>
         PROVE  AnswerLedger'
    <2>1. to \in CameAt /\ to \notin Waiting /\ client[c] \notin Waiting
      BY <1>12 DEF CameAt, ClientAt, Waiting, Chat!Online
    <2>2. UnderWay' = UnderWay
      BY <1>12 DEF UnderWay
    <2> QED
      BY <1>6, <1>12, <2>1, <2>2
  <1>13. CASE Chat!Open(c) \/ Chat!Notify(c) \/ Chat!Name(c) \/ Chat!Drained(c) \/ Chat!Say(c)
    BY <1>12, <1>13 DEF Chat!Open, Chat!Notify, Chat!Name, Chat!Drained, Chat!Say, Chat!Online
  <1>14. CASE Chat!HandledAll(c) \/ Chat!Rearm(c)
    BY <1>11, <1>14 DEF Chat!HandledAll, Chat!Rearm
  <1>15. CASE Chat!Read(c)
    BY <1>11, <1>12, <1>15 DEF Chat!Read, Chat!Exit
  <1>16. CASE Chat!Quit(c)
    BY <1>12, <1>16 DEF Chat!Quit, Chat!Exit, Chat!Online
  <1>17. CASE Chat!Interrupt(c)
    <2>1. CASE client[c] \in {"notify", "name", "drain"} /\ Chat!Exit(c)
      BY <1>12, <2>1 DEF Chat!Exit, Chat!Online
    <2>2. CASE client[c] \in {"waiting", "holding", "open"}
               /\ client' = [client EXCEPT ![c] = IF @ = "waiting" THEN "gaveup" ELSE "gone"]
               /\ UNCHANGED <<server, requests, answers, lost>>
      <3>1. PICK to \in {"gaveup", "gone"} : /\ client' = [client EXCEPT ![c] = to]
                                             /\ to = "gaveup" <=> client[c] = "waiting"
        BY <2>2
      <3>2. UnderWay' = UnderWay
        BY <2>2 DEF UnderWay
      <3>3. to \in CameAt /\ (to \in Waiting <=> client[c] \in Waiting \ {"holding"})
            /\ to # "holding"
        BY <2>2, <3>1 DEF Waiting, CameAt, ClientAt
      <3>4. to \in Waiting \ {"holding"} <=> client[c] \in Waiting \ {"holding"}
        BY <3>3
      <3>5. server' = server /\ lost' = lost
        BY <2>2
      <3> QED
        BY <1>6, <3>1, <3>2, <3>3, <3>4, <3>5
    <2> QED
      BY <1>17, <2>1, <2>2 DEF Chat!Interrupt
  <1> QED
    BY <1>7, <1>8, <1>9, <1>10, <1>13, <1>14, <1>15, <1>16, <1>17 DEF Chat!Client

LEMMA LedgerStays ==
  ASSUME ChatTyped, AnswerLedger, UNCHANGED chatVars
  PROVE  AnswerLedger'
  <1>1. UNCHANGED <<client, server, requests, answers, lost>>
    BY DEF chatVars
  <1>2. /\ Chat!In({"holding"})' = Chat!In({"holding"}) /\ Chat!In(Waiting)' = Chat!In(Waiting)
        /\ Came' = Came /\ UnderWay' = UnderWay
    BY <1>1 DEF Chat!In, Came, UnderWay
  <1> QED
    BY <1>1, <1>2, ChatTypedStays, LedgerIs, LedgerAfter

LEMMA InitLedger == Init => AnswerLedger
  <1> SUFFICES ASSUME Init PROVE AnswerLedger
    OBVIOUS
  <1>1. ChatTyped
    BY InitChat
  <1>2. /\ server = "login" /\ answers = <<>> /\ requests = 0 /\ lost = 0
        /\ client = [c \in Clients |-> "off"]
    BY DEF Init, Chat!Init
  <1>3. Chat!In({"holding"}) = {} /\ Chat!In(Waiting) = {}
    BY <1>2 DEF Chat!In, Waiting
  <1>4. Cardinality({}) = 0
    BY FS_EmptySet
  <1>5. UnderWay = 0
    BY <1>2 DEF UnderWay
  <1>6. UnderWay + Cardinality(Chat!In({"holding"})) = Cardinality(Chat!In(Waiting))
    BY <1>3, <1>4, <1>5
  <1>7. ~(lost > 0)
    BY <1>2
  <1> QED
    BY <1>1, <1>6, <1>7, LedgerIs

(* Whatever step is taken, the chat takes one of its own or none.          *)
LEMMA ChatSteps ==
  ASSUME [Next]_vars
  PROVE  Chat!Server \/ (\E c \in Clients : Chat!Client(c)) \/ UNCHANGED chatVars
  BY DEF Next, vars, ChatStep, Chat!Next, SocketStep, IpcStep, PipelineStep, CounterStep,
     LifesimStep

LEMMA NextChat ==
  ASSUME ChatTyped, [Next]_vars
  PROVE  ChatTyped'
  BY ChatSteps, ServerTyped, ClientTyped, ChatTypedStays

LEMMA NextLedger ==
  ASSUME ChatTyped, AnswerLedger, [Next]_vars
  PROVE  AnswerLedger'
  BY ChatSteps, ServerLedger, ClientLedger, LedgerStays

(* Each client that waits for a number has a request or an answer in the   *)
(* login queue or in somebody's hand, but for the answers the full queue   *)
(* lost: of those there are fewer than clients beyond the queue's capacity,*)
(* for an answer is lost only when as many others are in the queue.        *)
THEOREM AnswersAccounted == Spec => []AnswerLedger
  <1>1. Init => ChatTyped /\ AnswerLedger
    BY InitChat, InitLedger
  <1>2. ChatTyped /\ AnswerLedger /\ [Next]_vars => (ChatTyped /\ AnswerLedger)'
    BY NextChat, NextLedger
  <1> QED
    BY <1>1, <1>2, PTL DEF Spec

-----------------------------------------------------------------------------
(* The chat's numbers: enough slots, each number in one place.             *)

Asked == Len(users) + requests + (IF server = "register" THEN 1 ELSE 0)

LEMMA SlotsAre ==
  /\ ChatTyped => /\ Asked \in Nat /\ Len(users) \in Nat /\ requests \in Nat
                  /\ SlotsEnough <=> Asked + Cardinality(Chat!In({"holding"})) <= Cardinality(Came)
  /\ ChatTyped' => SlotsEnough' <=>
                     Asked' + Cardinality(Chat!In({"holding"}))' <= Cardinality(Came)'
  <1>1. ASSUME ChatTyped
        PROVE  /\ Asked \in Nat /\ Len(users) \in Nat /\ requests \in Nat
               /\ SlotsEnough <=>
                    Asked + Cardinality(Chat!In({"holding"})) <= Cardinality(Came)
    <2>1. Len(users) \in Nat /\ requests \in Nat
      BY <1>1 DEF ChatTyped
    <2>2. Asked \in Nat
      BY <2>1 DEF Asked
    <2>3. PICK h : h = Cardinality(Chat!In({"holding"}))
      OBVIOUS
    <2>4. h \in Nat
      BY <1>1, <2>3, LedgerIs
    <2>5. Asked + h = Len(users) + requests + h + (IF server = "register" THEN 1 ELSE 0)
      BY <2>1, <2>4 DEF Asked
    <2> QED
      BY <2>1, <2>2, <2>3, <2>5 DEF SlotsEnough
  <1>2. ASSUME ChatTyped'
        PROVE  SlotsEnough' <=>
                 Asked' + Cardinality(Chat!In({"holding"}))' <= Cardinality(Came)'
    <2>1. Len(users') \in Nat /\ requests' \in Nat
      BY <1>2 DEF ChatTyped
    <2>2. PICK h : h = Cardinality(Chat!In({"holding"}))'
      OBVIOUS
    <2>3. h \in Nat
      <3>1. PICK g : g = client'
        OBVIOUS
      <3>2. Chat!In({"holding"})' = Where(Clients, g, {"holding"})
        BY <3>1 DEF Chat!In, Where
      <3> QED
        BY <2>2, <3>2, WhereFinite, ProgramsAssumption
    <2>4. Asked' + h = Len(users') + requests' + h + (IF server' = "register" THEN 1 ELSE 0)
      BY <2>1, <2>3 DEF Asked
    <2> QED
      BY <2>2, <2>4 DEF SlotsEnough
  <1> QED
    BY <1>1, <1>2

LEMMA ServerSlots ==
  ASSUME ChatTyped, SlotsEnough, Chat!Server
  PROVE  SlotsEnough'
  <1> USE DEF Chat!login_q, Chat!array, Chat!notify
  <1>1. UNCHANGED client
    BY DEF Chat!Server, Chat!NoLogin, Chat!TakeAnswer, Chat!PutBack, Chat!TakeRequest,
       Chat!Register, Chat!ListNew, Chat!ListNewDies, Chat!NothingFrom, Chat!Message,
       Chat!NewName, Chat!Leave, Chat!EndRound, Chat!Shutdown
  <1>2. Chat!In({"holding"})' = Chat!In({"holding"}) /\ Came' = Came
    BY <1>1 DEF Chat!In, Came
  <1>3. /\ Asked \in Nat /\ Len(users) \in Nat /\ requests \in Nat /\ users \in Seq(BOOLEAN)
        /\ Cardinality(Chat!In({"holding"})) \in Nat /\ Cardinality(Came) \in Nat
    BY SlotsAre, LedgerIs DEF ChatTyped
  <1>4. ChatTyped' /\ Asked' \in Nat
    <2>1. ChatTyped'
      BY ServerTyped
    <2>2. Len(users') \in Nat /\ requests' \in Nat
      BY <2>1 DEF ChatTyped
    <2> QED
      BY <2>1, <2>2 DEF Asked
  <1>5. Asked' <= Asked
    <2>1. CASE Chat!TakeRequest
      BY <1>3, <2>1 DEF Chat!TakeRequest, Asked
    <2>2. CASE Chat!Register
      <3>1. users' = Append(users, TRUE) /\ server = "register" /\ server' = "list"
            /\ requests' = requests
        BY <2>2 DEF Chat!Register
      <3>2. Len(users') = Len(users) + 1
        BY <1>3, <3>1
      <3> QED
        BY <1>3, <3>1, <3>2 DEF Asked
    <2>3. ASSUME Len(users') = Len(users), requests' = requests,
                 server' = "register" => server = "register"
          PROVE  Asked' <= Asked
      BY <1>3, <2>3 DEF Asked
    <2>4. CASE Chat!NoLogin \/ Chat!TakeAnswer \/ Chat!PutBack \/ Chat!ListNew
               \/ Chat!ListNewDies \/ Chat!EndRound \/ Chat!Shutdown
      BY <2>3, <2>4 DEF Chat!NoLogin, Chat!TakeAnswer, Chat!PutBack, Chat!ListNew,
         Chat!ListNewDies, Chat!EndRound, Chat!Shutdown
    <2>5. ASSUME NEW u \in DOMAIN users,
                 Chat!NothingFrom(u) \/ Chat!Message(u) \/ Chat!NewName(u) \/ Chat!Leave(u)
          PROVE  Asked' <= Asked
      <3>1. server = "users" /\ server' # "register" /\ requests' = requests
        BY <2>5 DEF Chat!NothingFrom, Chat!Message, Chat!NewName, Chat!Leave, Chat!From
      <3>2. users' = users \/ users' = [users EXCEPT ![u] = FALSE]
        BY <2>5 DEF Chat!NothingFrom, Chat!Message, Chat!NewName, Chat!Leave
      <3>3. Len(users') = Len(users)
        BY <1>3, <3>2
      <3> QED
        BY <2>3, <3>1, <3>3
    <2> QED
      BY <2>1, <2>2, <2>4, <2>5 DEF Chat!Server
  <1>6. PICK h, a : h = Cardinality(Chat!In({"holding"})) /\ a = Cardinality(Came)
    OBVIOUS
  <1>7. Asked + h <= a
    BY <1>6, SlotsAre
  <1>8. Asked' + h <= a
    BY <1>3, <1>4, <1>5, <1>6, <1>7
  <1> QED
    BY <1>2, <1>4, <1>6, <1>8, SlotsAre

LEMMA ClientSlots ==
  ASSUME ChatTyped, SlotsEnough, NEW c \in Clients, Chat!Client(c)
  PROVE  SlotsEnough'
  <1> USE DEF Chat!login_q, Chat!array, Chat!notify
  <1> DEFINE H == Cardinality(Chat!In({"holding"}))
             A == Cardinality(Came)
  <1>1. ChatTyped'
    BY ClientTyped
  <1>2. /\ Asked \in Nat /\ Len(users) \in Nat /\ requests \in Nat /\ H \in Nat /\ A \in Nat
        /\ Asked + H <= A
    BY SlotsAre, LedgerIs
  <1>3. PICK k, h, a, m, g, b :
          k = Asked /\ h = H /\ a = A /\ m = Asked' /\ g = H' /\ b = A'
    OBVIOUS
  <1>4. k \in Nat /\ h \in Nat /\ a \in Nat /\ k + h <= a
    BY <1>2, <1>3
  <1>5. ASSUME m + g <= b
        PROVE  SlotsEnough'
    BY <1>1, <1>3, <1>5, SlotsAre
  <1>6. Came = Chat!In(CameAt) /\ Came' = Chat!In(CameAt)'
    BY <1>1, CameIsCounted
  <1>7. ASSUME NEW to, client' = [client EXCEPT ![c] = to]
        PROVE  /\ client[c] # "holding" /\ to = "holding" => g = h + 1
               /\ client[c] = "holding" /\ to # "holding" => g = h - 1
               /\ client[c] # "holding" /\ to # "holding" => g = h
               /\ client[c] \notin CameAt /\ to \in CameAt => b = a + 1
               /\ client[c] \in CameAt /\ to \in CameAt => b = a
    <2>1. /\ client[c] \notin {"holding"} /\ to \in {"holding"} => H' = H + 1
          /\ client[c] \in {"holding"} /\ to \notin {"holding"} => H' = H - 1
          /\ (client[c] \in {"holding"} <=> to \in {"holding"}) => H' = H
      BY <1>7, ClientMoves
    <2>2. /\ client[c] \notin CameAt /\ to \in CameAt =>
               Cardinality(Chat!In(CameAt))' = Cardinality(Chat!In(CameAt)) + 1
          /\ (client[c] \in CameAt <=> to \in CameAt) =>
               Cardinality(Chat!In(CameAt))' = Cardinality(Chat!In(CameAt))
      BY <1>7, ClientMoves
    <2> QED
      BY <1>3, <1>6, <2>1, <2>2
  <1>8. CASE Chat!Request(c)
    <2>1. /\ client' = [client EXCEPT ![c] = "waiting"] /\ client[c] = "off"
          /\ requests' = requests + 1 /\ UNCHANGED <<server, users>>
      BY <1>8 DEF Chat!Request
    <2>2. m = k + 1
      BY <1>2, <1>3, <2>1 DEF Asked
    <2>3. g = h /\ b = a + 1
      <3>1. PICK to : to = "waiting" /\ client' = [client EXCEPT ![c] = to]
        BY <2>1
      <3>2. to \in CameAt /\ client[c] \notin CameAt /\ to # "holding"
        BY <2>1, <3>1 DEF CameAt, ClientAt
      <3> QED
        BY <1>7, <2>1, <3>1, <3>2
    <2> QED
      BY <1>4, <1>5, <2>2, <2>3
  <1>9. CASE Chat!ReceiveRequest(c)
    <2>1. /\ client' = [client EXCEPT ![c] = "holding"] /\ client[c] = "waiting"
          /\ requests' = requests - 1 /\ UNCHANGED <<server, users>>
      BY <1>9 DEF Chat!ReceiveRequest
    <2>2. m = k - 1
      BY <1>2, <1>3, <2>1 DEF Asked
    <2>3. g = h + 1 /\ b = a
      <3>1. "holding" \in CameAt /\ client[c] \in CameAt
        BY <2>1 DEF CameAt, ClientAt
      <3> QED
        BY <1>7, <2>1, <3>1
    <2> QED
      BY <1>4, <1>5, <2>2, <2>3
  <1>10. CASE Chat!ReturnRequest(c)
    <2>1. /\ client' = [client EXCEPT ![c] = "waiting"] /\ client[c] = "holding"
          /\ requests' = requests + 1 /\ UNCHANGED <<server, users>>
      BY <1>10 DEF Chat!ReturnRequest
    <2>2. m = k + 1
      BY <1>2, <1>3, <2>1 DEF Asked
    <2>3. g = h - 1 /\ b = a
      <3>1. PICK to : to = "waiting" /\ client' = [client EXCEPT ![c] = to]
        BY <2>1
      <3>2. to \in CameAt /\ client[c] \in CameAt /\ to # "holding"
        BY <2>1, <3>1 DEF CameAt, ClientAt
      <3> QED
        BY <1>7, <2>1, <3>1, <3>2
    <2> QED
      BY <1>4, <1>5, <2>2, <2>3
  <1>11. ASSUME UNCHANGED <<server, users, requests, client>>
         PROVE  SlotsEnough'
    <2>1. m = k /\ g = h /\ b = a
      BY <1>3, <1>11 DEF Asked, Chat!In, Came
    <2> QED
      BY <1>4, <1>5, <2>1
  <1>12. ASSUME UNCHANGED <<server, users, requests>>, NEW to \in CameAt \ {"holding"},
                client' = [client EXCEPT ![c] = to], client[c] # "off"
         PROVE  SlotsEnough'
    <2>1. m = k
      BY <1>3, <1>12 DEF Asked
    <2>2. client[c] \in CameAt
      BY <1>12 DEF ChatTyped, CameAt
    <2>3. b = a /\ (g = h \/ g = h - 1)
      BY <1>7, <1>12, <2>2
    <2> QED
      BY <1>4, <1>5, <2>1, <2>3
  <1>13. CASE Chat!ReceiveAnswer(c) \/ Chat!Open(c) \/ Chat!Notify(c) \/ Chat!Name(c)
              \/ Chat!Drained(c) \/ Chat!Say(c)
    <2>1. PICK to \in {"open", "gone", "notify", "name", "drain", "talk", "said"} :
            client' = [client EXCEPT ![c] = to]
      BY <1>13 DEF Chat!ReceiveAnswer, Chat!Open, Chat!Notify, Chat!Name, Chat!Drained, Chat!Say
    <2>2. client[c] # "off" /\ UNCHANGED <<server, users, requests>>
      BY <1>13 DEF Chat!ReceiveAnswer, Chat!Open, Chat!Notify, Chat!Name, Chat!Drained, Chat!Say
    <2>3. to \in CameAt \ {"holding"}
      BY DEF CameAt, ClientAt, Chat!Online
    <2> QED
      BY <1>12, <2>1, <2>2, <2>3
  <1>14. CASE Chat!HandledAll(c) \/ Chat!Rearm(c)
    BY <1>11, <1>14 DEF Chat!HandledAll, Chat!Rearm
  <1>15. ASSUME Chat!Exit(c), client[c] # "off"
         PROVE  SlotsEnough'
    <2>1. "gone" \in CameAt \ {"holding"}
      BY DEF CameAt, ClientAt
    <2>2. client' = [client EXCEPT ![c] = "gone"] /\ UNCHANGED <<server, users, requests>>
      BY <1>15 DEF Chat!Exit
    <2> QED
      BY <1>12, <1>15, <2>1, <2>2
  <1>16. CASE Chat!Read(c) \/ Chat!Quit(c)
    <2>1. client[c] # "off"
      BY <1>16 DEF Chat!Read, Chat!Quit, Chat!Online
    <2>2. Chat!Exit(c) \/ UNCHANGED <<server, users, requests, client>>
      BY <1>16 DEF Chat!Read, Chat!Quit
    <2> QED
      BY <1>11, <1>15, <2>1, <2>2
  <1>17. CASE Chat!Interrupt(c)
    <2>1. CASE client[c] \in {"notify", "name", "drain"} /\ Chat!Exit(c)
      BY <1>15, <2>1
    <2>2. CASE client[c] \in {"waiting", "holding", "open"}
               /\ client' = [client EXCEPT ![c] = IF @ = "waiting" THEN "gaveup" ELSE "gone"]
               /\ UNCHANGED <<server, users, requests>>
      <3>1. PICK to \in {"gaveup", "gone"} : client' = [client EXCEPT ![c] = to]
        BY <2>2
      <3>2. to \in CameAt \ {"holding"}
        BY DEF CameAt, ClientAt
      <3> QED
        BY <1>12, <2>2, <3>1, <3>2
    <2> QED
      BY <1>17, <2>1, <2>2 DEF Chat!Interrupt
  <1> QED
    BY <1>8, <1>9, <1>10, <1>13, <1>14, <1>16, <1>17 DEF Chat!Client

LEMMA IdsKept ==
  ASSUME IdsOwn, Chat!In(HasId)' \subseteq Chat!In(HasId), UNCHANGED <<id, answers, hand>>,
         DOMAIN users' = DOMAIN users, server' = "putback" => server = "putback"
  PROVE  IdsOwn'
  <1>1. /\ \A i \in DOMAIN answers : /\ answers[i] \in DOMAIN users /\ answers[i] # hand
                                     /\ \A c \in Chat!In(HasId) : id[c] # answers[i]
        /\ \A i, j \in DOMAIN answers : answers[i] = answers[j] => i = j
        /\ \A c \in Chat!In(HasId) : id[c] \in DOMAIN users
        /\ \A c, d \in Chat!In(HasId) : id[c] = id[d] => c = d
        /\ hand # 0 => hand \in DOMAIN users /\ \A c \in Chat!In(HasId) : id[c] # hand
        /\ server = "putback" => hand # 0
    BY DEF IdsOwn
  <1> QED
    BY <1>1 DEF IdsOwn

LEMMA ServerIds ==
  ASSUME ChatTyped, IdsOwn, Chat!Server
  PROVE  IdsOwn'
  <1> USE DEF Chat!login_q, Chat!array, Chat!notify
  <1>1. UNCHANGED <<client, id>>
    BY DEF Chat!Server, Chat!NoLogin, Chat!TakeAnswer, Chat!PutBack, Chat!TakeRequest,
       Chat!Register, Chat!ListNew, Chat!ListNewDies, Chat!NothingFrom, Chat!Message,
       Chat!NewName, Chat!Leave, Chat!EndRound, Chat!Shutdown
  <1>2. Chat!In(HasId)' = Chat!In(HasId)
    BY <1>1 DEF Chat!In, HasId, Chat!Online
  <1>3. users \in Seq(BOOLEAN) /\ answers \in Seq(Nat) /\ hand \in Nat /\ Len(users) \in Nat
        /\ DOMAIN users = 1..Len(users) /\ DOMAIN answers = 1..Len(answers) /\ Len(answers) \in Nat
    BY DEF ChatTyped
  <1>4. /\ \A i \in DOMAIN answers : /\ answers[i] \in DOMAIN users /\ answers[i] # hand
                                     /\ \A c \in Chat!In(HasId) : id[c] # answers[i]
        /\ \A i, j \in DOMAIN answers : answers[i] = answers[j] => i = j
        /\ \A c \in Chat!In(HasId) : id[c] \in DOMAIN users
        /\ \A c, d \in Chat!In(HasId) : id[c] = id[d] => c = d
        /\ hand # 0 => hand \in DOMAIN users /\ \A c \in Chat!In(HasId) : id[c] # hand
        /\ server = "putback" => hand # 0
    BY DEF IdsOwn
  <1>5. CASE Chat!TakeAnswer
    <2>1. /\ answers # <<>> /\ hand' = Head(answers) /\ answers' = Tail(answers)
          /\ UNCHANGED users
      BY <1>5 DEF Chat!TakeAnswer
    <2>2. /\ hand' = answers[1] /\ 1 \in DOMAIN answers
          /\ DOMAIN answers' = 1..(Len(answers) - 1)
          /\ \A i \in DOMAIN answers' : answers'[i] = answers[i + 1] /\ i + 1 \in DOMAIN answers
                                        /\ i + 1 # 1
      BY <1>3, <2>1
    <2>3. 0 \notin DOMAIN users
      BY <1>3
    <2>4. \A i, j \in DOMAIN answers' : answers'[i] = answers'[j] => i = j
      <3> SUFFICES ASSUME NEW i \in DOMAIN answers', NEW j \in DOMAIN answers',
                          answers'[i] = answers'[j]
                   PROVE  i = j
        OBVIOUS
      <3>1. i + 1 = j + 1
        BY <1>4, <2>2
      <3>2. i \in Int /\ j \in Int
        BY <1>3, <2>2
      <3> QED
        BY <3>1, <3>2
    <2>5. \A i \in DOMAIN answers' : /\ answers'[i] \in DOMAIN users /\ answers'[i] # hand'
                                     /\ \A c \in Chat!In(HasId) : id[c] # answers'[i]
      BY <1>4, <2>2
    <2>6. hand' # 0 /\ hand' \in DOMAIN users /\ \A c \in Chat!In(HasId) : id[c] # hand'
      BY <1>4, <2>2, <2>3
    <2> QED
      BY <1>1, <1>2, <1>4, <2>1, <2>4, <2>5, <2>6 DEF IdsOwn
  <1>6. ASSUME NEW u \in Nat, answers' = Append(answers, u) \/ answers' = answers,
               hand' = 0 \/ (hand' = hand /\ u # hand), server' # "putback",
               DOMAIN users \subseteq DOMAIN users', u \in DOMAIN users', 0 \notin DOMAIN users',
               \A i \in DOMAIN answers : answers[i] # u,
               \A c \in Chat!In(HasId) : id[c] # u
        PROVE  IdsOwn'
    <2>1. CASE answers' = answers
      BY <1>1, <1>2, <1>4, <1>6, <2>1 DEF IdsOwn
    <2>2. CASE answers' = Append(answers, u)
      <3>1. /\ DOMAIN answers' = 1..(Len(answers) + 1)
            /\ \A i \in DOMAIN answers' : /\ i \in DOMAIN answers => answers'[i] = answers[i]
                                          /\ i \notin DOMAIN answers => answers'[i] = u /\ i = Len(answers) + 1
        BY <1>3, <2>2
      <3>2. \A i, j \in DOMAIN answers' : answers'[i] = answers'[j] => i = j
        BY <1>4, <1>6, <3>1
      <3>3. \A i \in DOMAIN answers' : /\ answers'[i] \in DOMAIN users' /\ answers'[i] # hand'
                                       /\ \A c \in Chat!In(HasId) : id[c] # answers'[i]
        BY <1>4, <1>6, <3>1
      <3> QED
        BY <1>1, <1>2, <1>4, <1>6, <3>2, <3>3 DEF IdsOwn
    <2> QED
      BY <1>6, <2>1, <2>2
  <1>7. CASE Chat!PutBack
    <2>1. /\ server = "putback" /\ hand' = 0 /\ server' = "users" /\ UNCHANGED users
          /\ (answers' = Append(answers, hand) \/ answers' = answers)
      BY <1>7 DEF Chat!PutBack, Chat!Answer
    <2>2. hand \in DOMAIN users /\ 0 \notin DOMAIN users
      BY <1>3, <1>4, <2>1
    <2>3. \A i \in DOMAIN answers : answers[i] # hand
      BY <1>4
    <2>4. \A c \in Chat!In(HasId) : id[c] # hand
      BY <1>4, <2>1
    <2> QED
      BY <1>3, <1>6, <2>1, <2>2, <2>3, <2>4
  <1>8. CASE Chat!Register
    <2>1. /\ users' = Append(users, TRUE) /\ server' = "list" /\ hand' = hand
          /\ (answers' = Append(answers, Len(users) + 1) \/ answers' = answers)
      BY <1>8 DEF Chat!Register, Chat!Answer
    <2>2. DOMAIN users' = 1..(Len(users) + 1)
      BY <1>3, <2>1
    <2>3. Len(users) + 1 \notin DOMAIN users /\ Len(users) + 1 \in Nat
      BY <1>3
    <2>4. \A i \in DOMAIN answers : answers[i] # Len(users) + 1
      BY <1>4, <2>3
    <2>5. (\A c \in Chat!In(HasId) : id[c] # Len(users) + 1) /\ hand # Len(users) + 1
      BY <1>3, <1>4, <2>3
    <2>6. DOMAIN users \subseteq DOMAIN users' /\ Len(users) + 1 \in DOMAIN users'
          /\ 0 \notin DOMAIN users'
      BY <1>3, <2>2
    <2> QED
      BY <1>6, <2>1, <2>3, <2>4, <2>5, <2>6
  <1>9. CASE Chat!NoLogin \/ Chat!TakeRequest \/ Chat!ListNew
             \/ Chat!ListNewDies \/ Chat!EndRound \/ Chat!Shutdown
    BY <1>1, <1>2, <1>9, IdsKept DEF Chat!NoLogin, Chat!TakeRequest, Chat!ListNew,
       Chat!ListNewDies, Chat!EndRound, Chat!Shutdown
  <1>10. ASSUME NEW u \in DOMAIN users,
                Chat!NothingFrom(u) \/ Chat!Message(u) \/ Chat!NewName(u) \/ Chat!Leave(u)
         PROVE  IdsOwn'
    <2>1. server = "users" /\ server' # "putback" /\ UNCHANGED <<answers, hand>>
      BY <1>10 DEF Chat!NothingFrom, Chat!Message, Chat!NewName, Chat!Leave, Chat!From
    <2>2. users' = users \/ users' = [users EXCEPT ![u] = FALSE]
      BY <1>10 DEF Chat!NothingFrom, Chat!Message, Chat!NewName, Chat!Leave
    <2>3. DOMAIN users' = DOMAIN users
      BY <1>3, <2>2
    <2> QED
      BY <1>1, <1>2, <2>1, <2>3, IdsKept
  <1> QED
    BY <1>5, <1>7, <1>8, <1>9, <1>10 DEF Chat!Server

LEMMA ClientIds ==
  ASSUME ChatTyped, IdsOwn, NEW c \in Clients, Chat!Client(c)
  PROVE  IdsOwn'
  <1> USE DEF Chat!login_q, Chat!array, Chat!notify
  <1>1. client \in [Clients -> ClientAt] /\ id \in [Clients -> Nat] /\ answers \in Seq(Nat)
    BY DEF ChatTyped
  <1>2. CASE Chat!ReceiveAnswer(c)
    <2>1. /\ answers # <<>> /\ client[c] = "waiting" /\ answers' = Tail(answers)
          /\ id' = [id EXCEPT ![c] = Head(answers)] /\ client' = [client EXCEPT ![c] = "open"]
          /\ UNCHANGED <<server, hand, users>>
      BY <1>2 DEF Chat!ReceiveAnswer
    <2>2. /\ id'[c] = answers[1] /\ 1 \in DOMAIN answers
          /\ \A i \in DOMAIN answers' : answers'[i] = answers[i + 1] /\ i + 1 \in DOMAIN answers
                                        /\ i + 1 # 1 /\ i \in Int
      BY <1>1, <2>1
    <2>3. /\ Chat!In(HasId)' = Chat!In(HasId) \cup {c} /\ c \notin Chat!In(HasId)
          /\ \A d \in Chat!In(HasId) : id'[d] = id[d]
      BY <1>1, <2>1 DEF Chat!In, HasId, Chat!Online
    <2>4. /\ \A i \in DOMAIN answers : /\ answers[i] \in DOMAIN users /\ answers[i] # hand
                                       /\ \A d \in Chat!In(HasId) : id[d] # answers[i]
          /\ \A i, j \in DOMAIN answers : answers[i] = answers[j] => i = j
          /\ \A d \in Chat!In(HasId) : id[d] \in DOMAIN users
          /\ \A d, e \in Chat!In(HasId) : id[d] = id[e] => d = e
          /\ hand # 0 => hand \in DOMAIN users /\ \A d \in Chat!In(HasId) : id[d] # hand
          /\ server = "putback" => hand # 0
      BY DEF IdsOwn
    <2>5. \A i, j \in DOMAIN answers' : answers'[i] = answers'[j] => i = j
      <3> SUFFICES ASSUME NEW i \in DOMAIN answers', NEW j \in DOMAIN answers',
                          answers'[i] = answers'[j]
                   PROVE  i = j
        OBVIOUS
      <3>1. i + 1 = j + 1
        BY <2>2, <2>4
      <3> QED
        BY <2>2, <3>1
    <2>6. \A i \in DOMAIN answers' : /\ answers'[i] \in DOMAIN users /\ answers'[i] # hand
                                     /\ \A d \in Chat!In(HasId)' : id'[d] # answers'[i]
      BY <2>2, <2>3, <2>4
    <2>7. \A d \in Chat!In(HasId)' : id'[d] \in DOMAIN users
      BY <2>2, <2>3, <2>4
    <2>8. \A d, e \in Chat!In(HasId)' : id'[d] = id'[e] => d = e
      BY <2>2, <2>3, <2>4
    <2>9. hand # 0 => hand \in DOMAIN users /\ \A d \in Chat!In(HasId)' : id'[d] # hand
      BY <2>2, <2>3, <2>4
    <2> QED
      BY <2>1, <2>4, <2>5, <2>6, <2>7, <2>8, <2>9 DEF IdsOwn
  <1>3. ASSUME UNCHANGED <<server, hand, users, answers, id>>,
               client' = client \/ \E to : /\ client' = [client EXCEPT ![c] = to]
                                           /\ to \in HasId => client[c] \in HasId
        PROVE  IdsOwn'
    <2>1. Chat!In(HasId)' \subseteq Chat!In(HasId)
      BY <1>1, <1>3 DEF Chat!In, HasId, Chat!Online
    <2> QED
      BY <1>3, <2>1, IdsKept
  <1>4. CASE Chat!Request(c) \/ Chat!ReceiveRequest(c) \/ Chat!ReturnRequest(c)
    <2>1. \E to \in {"waiting", "holding"} : client' = [client EXCEPT ![c] = to]
      BY <1>4 DEF Chat!Request, Chat!ReceiveRequest, Chat!ReturnRequest
    <2>2. UNCHANGED <<server, hand, users, answers, id>>
      BY <1>4 DEF Chat!Request, Chat!ReceiveRequest, Chat!ReturnRequest
    <2> QED
      BY <1>3, <2>1, <2>2 DEF HasId, Chat!Online
  <1>5. CASE Chat!Open(c) \/ Chat!Notify(c) \/ Chat!Name(c) \/ Chat!Drained(c) \/ Chat!Say(c)
    <2>1. client[c] \in HasId
      BY <1>5 DEF Chat!Open, Chat!Notify, Chat!Name, Chat!Drained, Chat!Say, HasId, Chat!Online
    <2>2. \E to : client' = [client EXCEPT ![c] = to]
      BY <1>5 DEF Chat!Open, Chat!Notify, Chat!Name, Chat!Drained, Chat!Say
    <2>3. UNCHANGED <<server, hand, users, answers, id>>
      BY <1>5 DEF Chat!Open, Chat!Notify, Chat!Name, Chat!Drained, Chat!Say
    <2> QED
      BY <1>3, <2>1, <2>2, <2>3
  <1>6. CASE Chat!HandledAll(c) \/ Chat!Rearm(c)
    BY <1>3, <1>6 DEF Chat!HandledAll, Chat!Rearm
  <1>7. ASSUME Chat!Exit(c)
        PROVE  IdsOwn'
    <2>1. /\ client' = [client EXCEPT ![c] = "gone"] /\ "gone" \notin HasId
          /\ UNCHANGED <<server, hand, users, answers, id>>
      BY <1>7 DEF Chat!Exit, HasId, Chat!Online
    <2> QED
      BY <1>3, <2>1
  <1>8. CASE Chat!Read(c) \/ Chat!Quit(c)
    BY <1>3, <1>7, <1>8 DEF Chat!Read, Chat!Quit
  <1>9. CASE Chat!Interrupt(c)
    <2>1. CASE ~Chat!Exit(c)
      <3>1. \E to \in {"gaveup", "gone"} : client' = [client EXCEPT ![c] = to]
        BY <1>9, <2>1 DEF Chat!Interrupt
      <3>2. UNCHANGED <<server, hand, users, answers, id>>
        BY <1>9, <2>1 DEF Chat!Interrupt
      <3> QED
        BY <1>3, <3>1, <3>2 DEF HasId, Chat!Online
    <2> QED
      BY <1>7, <2>1
  <1> QED
    BY <1>2, <1>4, <1>5, <1>6, <1>8, <1>9 DEF Chat!Client

-----------------------------------------------------------------------------
(* The chat's notifications.                                               *)

(* Every number is of a slot, and the slot of one client.                  *)
LEMMA OwnSlots ==
  ASSUME ChatTyped, SlotsEnough, IdsOwn
  PROVE  /\ \A c \in Chat!In(HasId) : id[c] \in Chat!Slots
         /\ \A c, d \in Chat!In(HasId) : id[c] = id[d] => c = d
  <1>1. /\ Len(users) \in Nat /\ requests \in Nat /\ DOMAIN users = 1..Len(users)
        /\ Asked \in Nat /\ Asked + Cardinality(Chat!In({"holding"})) <= Cardinality(Came)
        /\ Cardinality(Chat!In({"holding"})) \in Nat /\ Cardinality(Came) \in Nat
    BY SlotsAre, LedgerIs DEF ChatTyped
  <1>2. Len(users) <= Asked
    BY <1>1 DEF Asked
  <1>3. IsFiniteSet(Clients) /\ Came \subseteq Clients
    BY ProgramsAssumption DEF Came
  <1>4. Cardinality(Came) <= Cardinality(Clients) /\ Cardinality(Clients) \in Nat
    BY <1>3, FS_Subset, FS_CardinalityType
  <1>5. PICK h, a, n : /\ h = Cardinality(Chat!In({"holding"})) /\ a = Cardinality(Came)
                       /\ n = Cardinality(Clients)
    OBVIOUS
  <1>6. Len(users) <= n
    BY <1>1, <1>2, <1>4, <1>5
  <1>7. Chat!Slots = 1..n
    BY <1>5, ChatCardinality DEF Chat!Slots
  <1>8. DOMAIN users \subseteq Chat!Slots
    BY <1>1, <1>4, <1>5, <1>6, <1>7
  <1> QED
    BY <1>8 DEF IdsOwn

(* What a sender does to the user it sends to.                             *)
LEMMA SendHears ==
  ASSUME ChatTyped, HandlersOwned, Hears, \A c \in Chat!In(HasId) : id[c] \in Chat!Slots,
         NEW U, NEW p, Chat!SendTo(U, p), UNCHANGED <<client, id>>
  PROVE  HandlersOwned' /\ Hears'
  <1> DEFINE woken == {u \in U \cap registered : stc[u] = <<>>}
  <1>1. /\ \A u \in Chat!Slots : u \notin U => stc'[u] = stc[u]
        /\ \A u \in Chat!Slots : handler'[u] = IF u \in woken THEN "reading" ELSE handler[u]
        /\ registered' = registered \ woken
        /\ missed' = missed \cup {u \in U : handler[u] = "rearm"}
    BY DEF Chat!SendTo
  <1>2. Chat!In(Listening)' = Chat!In(Listening) /\ Chat!Slots' = Chat!Slots
    BY DEF Chat!In, Listening, Chat!Online, Chat!Slots
  <1>3. HandlersOwned'
    <2> SUFFICES ASSUME NEW u \in Chat!Slots, handler'[u] # "none" \/ u \in registered'
                 PROVE  \E c \in Chat!In(Listening) : id[c] = u
      BY <1>2 DEF HandlersOwned
    <2>1. handler[u] # "none" \/ u \in registered
      BY <1>1
    <2> QED
      BY <2>1 DEF HandlersOwned
  <1>4. Hears'
    <2> SUFFICES ASSUME NEW c \in Chat!In(Listening)
                 PROVE  /\ handler'[id[c]] = "none" => id[c] \in registered'
                        /\ handler'[id[c]] = "rearm" /\ id[c] \notin missed' => stc'[id[c]] = <<>>
                        /\ client[c] \in {"talk", "said"} /\ handler'[id[c]] = "none"
                             /\ id[c] \notin missed' => stc'[id[c]] = <<>>
      BY <1>2 DEF Hears
    <2>1. id[c] \in Chat!Slots
      BY DEF Chat!In, Listening, HasId
    <2>2. /\ handler[id[c]] = "none" => id[c] \in registered
          /\ handler[id[c]] = "rearm" /\ id[c] \notin missed => stc[id[c]] = <<>>
          /\ client[c] \in {"talk", "said"} /\ handler[id[c]] = "none" /\ id[c] \notin missed =>
               stc[id[c]] = <<>>
      BY DEF Hears
    <2>3. CASE id[c] \in woken
      BY <1>1, <2>1, <2>3
    <2>4. CASE id[c] \notin U
      BY <1>1, <2>1, <2>2, <2>4
    <2>5. CASE id[c] \in U /\ id[c] \notin woken
      <3>1. handler'[id[c]] = handler[id[c]] /\ (id[c] \in registered => id[c] \in registered')
        BY <1>1, <2>1, <2>5
      <3>2. handler[id[c]] = "rearm" => id[c] \in missed'
        BY <1>1, <2>5
      <3>3. id[c] \notin missed' => id[c] \notin missed
        BY <1>1
      <3>4. id[c] \in registered => stc[id[c]] # <<>>
        BY <2>5
      <3> QED
        BY <2>2, <3>1, <3>2, <3>3, <3>4
    <2> QED
      BY <2>3, <2>4, <2>5
  <1> QED
    BY <1>3, <1>4

(* The notifications left alone.                                           *)
LEMMA NoticesKept ==
  ASSUME HandlersOwned, Hears, UNCHANGED <<stc, registered, handler, missed>>,
         Chat!In(Listening)' = Chat!In(Listening), Chat!In({"talk", "said"})' = Chat!In({"talk", "said"}),
         \A c \in Chat!In(Listening) : id'[c] = id[c]
  PROVE  HandlersOwned' /\ Hears'
  <1>1. Chat!Slots' = Chat!Slots
    BY DEF Chat!Slots
  <1>2. HandlersOwned'
    BY <1>1 DEF HandlersOwned
  <1>3. \A c \in Chat!In(Listening) : client'[c] \in {"talk", "said"} => client[c] \in {"talk", "said"}
    BY DEF Chat!In
  <1>4. Hears'
    BY <1>3 DEF Hears
  <1> QED
    BY <1>2, <1>4

LEMMA ServerHears ==
  ASSUME ChatTyped, SlotsEnough, IdsOwn, HandlersOwned, Hears, Chat!Server
  PROVE  HandlersOwned' /\ Hears'
  <1> USE DEF Chat!login_q, Chat!array, Chat!notify
  <1>1. UNCHANGED <<client, id>>
    BY DEF Chat!Server, Chat!NoLogin, Chat!TakeAnswer, Chat!PutBack, Chat!TakeRequest,
       Chat!Register, Chat!ListNew, Chat!ListNewDies, Chat!NothingFrom, Chat!Message,
       Chat!NewName, Chat!Leave, Chat!EndRound, Chat!Shutdown
  <1>2. ASSUME NEW U, NEW p, Chat!SendTo(U, p)
        PROVE  HandlersOwned' /\ Hears'
    BY <1>1, <1>2, OwnSlots, SendHears
  <1>3. ASSUME UNCHANGED <<stc, registered, handler, missed>>
        PROVE  HandlersOwned' /\ Hears'
    BY <1>1, <1>3, NoticesKept DEF Chat!In, Listening, Chat!Online
  <1>4. CASE Chat!NoLogin \/ Chat!TakeAnswer \/ Chat!PutBack \/ Chat!TakeRequest \/ Chat!Register
             \/ Chat!ListNewDies \/ Chat!EndRound
    BY <1>3, <1>4 DEF Chat!NoLogin, Chat!TakeAnswer, Chat!PutBack, Chat!TakeRequest,
       Chat!Register, Chat!ListNewDies, Chat!EndRound
  <1>5. CASE Chat!ListNew \/ Chat!Shutdown
    BY <1>2, <1>5 DEF Chat!ListNew, Chat!Shutdown
  <1>6. ASSUME NEW u \in DOMAIN users,
               Chat!NothingFrom(u) \/ Chat!Message(u) \/ Chat!NewName(u) \/ Chat!Leave(u)
        PROVE  HandlersOwned' /\ Hears'
    BY <1>2, <1>3, <1>6 DEF Chat!NothingFrom, Chat!Message, Chat!NewName, Chat!Leave
  <1> QED
    BY <1>4, <1>5, <1>6 DEF Chat!Server

(* A client that touches its own queue, and its own notifications, only.   *)
LEMMA OwnQueueOnly ==
  ASSUME ChatTyped, SlotsEnough, IdsOwn, HandlersOwned, Hears, NEW c \in Chat!In(HasId),
         NEW to, client' = [client EXCEPT ![c] = to], UNCHANGED <<id, missed>>,
         \A u \in Chat!Slots \ {id[c]} : /\ stc'[u] = stc[u] /\ handler'[u] = handler[u]
                                         /\ u \in registered' <=> u \in registered,
         to \in Listening =>
           /\ handler'[id[c]] = "none" => id[c] \in registered'
           /\ handler'[id[c]] = "rearm" /\ id[c] \notin missed => stc'[id[c]] = <<>>
           /\ to \in {"talk", "said"} /\ handler'[id[c]] = "none" /\ id[c] \notin missed =>
                stc'[id[c]] = <<>>,
         to \notin Listening => handler'[id[c]] = "none" /\ id[c] \notin registered'
  PROVE  HandlersOwned' /\ Hears'
  <1>1. /\ \A d \in Chat!In(HasId) : id[d] \in Chat!Slots
        /\ \A d, e \in Chat!In(HasId) : id[d] = id[e] => d = e
    BY OwnSlots
  <1>2. /\ \A d \in Clients : d # c => client'[d] = client[d]
        /\ client'[c] = to /\ c \in Clients
    BY DEF ChatTyped, Chat!In
  <1>3. \A d \in Chat!In(Listening)' : d # c => d \in Chat!In(Listening)
    BY <1>2 DEF Chat!In, Listening, Chat!Online
  <1>4. \A d \in Chat!In(Listening) : d # c => d \in Chat!In(Listening)'
    BY <1>2 DEF Chat!In, Listening, Chat!Online
  <1>5. Chat!In(Listening) \subseteq Chat!In(HasId)
    BY DEF Chat!In, Listening, HasId
  <1>6. HandlersOwned'
    <2>1. Chat!Slots' = Chat!Slots
      BY DEF Chat!Slots
    <2> SUFFICES ASSUME NEW u \in Chat!Slots, handler'[u] # "none" \/ u \in registered'
                 PROVE  \E d \in Chat!In(Listening)' : id[d] = u
      BY <2>1 DEF HandlersOwned
    <2>2. CASE u = id[c]
      <3>1. to \in Listening
        BY <2>2
      <3>2. c \in Chat!In(Listening)'
        BY <1>2, <3>1 DEF Chat!In, Listening, Chat!Online
      <3> QED
        BY <2>2, <3>2
    <2>3. CASE u # id[c]
      <3>1. handler[u] # "none" \/ u \in registered
        BY <2>3
      <3>2. PICK d \in Chat!In(Listening) : id[d] = u
        BY <3>1 DEF HandlersOwned
      <3> QED
        BY <1>4, <2>3, <3>2
    <2> QED
      BY <2>2, <2>3
  <1>7. Hears'
    <2> SUFFICES ASSUME NEW d \in Chat!In(Listening)'
                 PROVE  /\ handler'[id[d]] = "none" => id[d] \in registered'
                        /\ handler'[id[d]] = "rearm" /\ id[d] \notin missed => stc'[id[d]] = <<>>
                        /\ client'[d] \in {"talk", "said"} /\ handler'[id[d]] = "none"
                             /\ id[d] \notin missed => stc'[id[d]] = <<>>
      BY DEF Hears
    <2>1. CASE d = c
      <3>1. to \in Listening
        BY <1>2, <2>1 DEF Chat!In, Listening, Chat!Online
      <3> QED
        BY <1>2, <2>1, <3>1
    <2>2. CASE d # c
      <3>1. d \in Chat!In(Listening) /\ d \in Clients /\ client'[d] = client[d]
        BY <1>2, <1>3, <2>2 DEF Chat!In
      <3>2. id[d] \in Chat!Slots /\ id[d] # id[c]
        BY <1>1, <1>5, <2>2, <3>1
      <3>3. /\ handler[id[d]] = "none" => id[d] \in registered
            /\ handler[id[d]] = "rearm" /\ id[d] \notin missed => stc[id[d]] = <<>>
            /\ client[d] \in {"talk", "said"} /\ handler[id[d]] = "none" /\ id[d] \notin missed =>
                 stc[id[d]] = <<>>
        BY <3>1 DEF Hears
      <3>4. /\ stc'[id[d]] = stc[id[d]] /\ handler'[id[d]] = handler[id[d]]
            /\ id[d] \in registered' <=> id[d] \in registered
        BY <3>2
      <3> QED
        BY <3>1, <3>3, <3>4
    <2> QED
      BY <2>1, <2>2
  <1> QED
    BY <1>6, <1>7

LEMMA ClientHears ==
  ASSUME ChatTyped, SlotsEnough, IdsOwn, HandlersOwned, Hears, NEW c \in Clients, Chat!Client(c)
  PROVE  HandlersOwned' /\ Hears'
  <1> USE DEF Chat!login_q, Chat!array, Chat!notify
  <1>1. /\ client \in [Clients -> ClientAt] /\ id \in [Clients -> Nat]
        /\ handler \in [Chat!Slots -> {"none", "reading", "rearm"}]
        /\ stc = [u \in Chat!Slots |-> stc[u]]
    BY DEF ChatTyped
  <1>2. /\ \A d \in Chat!In(HasId) : id[d] \in Chat!Slots
        /\ \A d, e \in Chat!In(HasId) : id[d] = id[e] => d = e
    BY OwnSlots
  <1>3. Chat!In(Listening) \subseteq Chat!In(HasId)
    BY DEF Chat!In, Listening, HasId
  \* Before it asks for notifications it handles none.
  <1>4. ASSUME client[c] \in HasId, client[c] \notin Listening
        PROVE  handler[id[c]] = "none"
    <2>1. c \in Chat!In(HasId) /\ c \notin Chat!In(Listening)
      BY <1>4 DEF Chat!In
    <2>2. ~ \E d \in Chat!In(Listening) : id[d] = id[c]
      BY <1>2, <1>3, <2>1
    <2> QED
      BY <1>2, <2>1, <2>2 DEF HandlersOwned
  <1>5. ASSUME client[c] \in Listening
        PROVE  /\ c \in Chat!In(HasId) /\ id[c] \in Chat!Slots
               /\ handler[id[c]] = "none" => id[c] \in registered
               /\ handler[id[c]] = "rearm" /\ id[c] \notin missed => stc[id[c]] = <<>>
               /\ client[c] \in {"talk", "said"} /\ handler[id[c]] = "none" /\ id[c] \notin missed =>
                    stc[id[c]] = <<>>
    <2>1. c \in Chat!In(Listening)
      BY <1>5 DEF Chat!In
    <2> QED
      BY <1>2, <1>3, <2>1 DEF Hears
  <1>6. ASSUME NEW to, client' = [client EXCEPT ![c] = to], to \notin Listening,
               client[c] \notin Listening, UNCHANGED <<stc, registered, handler, missed>>,
               id' = id \/ (client[c] = "waiting" /\ \E n : id' = [id EXCEPT ![c] = n])
        PROVE  HandlersOwned' /\ Hears'
    <2>1. Chat!In(Listening)' = Chat!In(Listening) /\ c \notin Chat!In(Listening)
      BY <1>1, <1>6 DEF Chat!In, Listening, Chat!Online
    <2>2. Chat!In({"talk", "said"})' = Chat!In({"talk", "said"})
      <3>1. to \notin {"talk", "said"} /\ client[c] \notin {"talk", "said"}
        BY <1>6 DEF Listening, Chat!Online
      <3> QED
        BY <1>1, <1>6, <3>1 DEF Chat!In
    <2>3. \A d \in Chat!In(Listening) : id'[d] = id[d]
      BY <1>1, <1>6, <2>1 DEF Chat!In
    <2> QED
      BY <1>6, <2>1, <2>2, <2>3, NoticesKept
  <1>7. CASE Chat!Request(c) \/ Chat!ReceiveRequest(c) \/ Chat!ReturnRequest(c)
    <2>1. client[c] \in {"off", "waiting", "holding"}
      BY <1>7 DEF Chat!Request, Chat!ReceiveRequest, Chat!ReturnRequest
    <2>2. PICK to \in {"waiting", "holding"} : client' = [client EXCEPT ![c] = to]
      BY <1>7 DEF Chat!Request, Chat!ReceiveRequest, Chat!ReturnRequest
    <2>3. UNCHANGED <<id, stc, registered, handler, missed>>
      BY <1>7 DEF Chat!Request, Chat!ReceiveRequest, Chat!ReturnRequest
    <2>4. to \notin Listening /\ client[c] \notin Listening
      BY <2>1 DEF Listening, Chat!Online
    <2> QED
      BY <1>6, <2>2, <2>3, <2>4
  <1>8. CASE Chat!ReceiveAnswer(c)
    <2>1. /\ client[c] = "waiting" /\ client' = [client EXCEPT ![c] = "open"]
          /\ id' = [id EXCEPT ![c] = Head(answers)] /\ UNCHANGED <<stc, registered, handler, missed>>
      BY <1>8 DEF Chat!ReceiveAnswer
    <2>2. "open" \notin Listening /\ client[c] \notin Listening
      BY <2>1 DEF Listening, Chat!Online
    <2> QED
      BY <1>6, <2>1, <2>2
  <1>9. CASE Chat!Open(c)
    <2>1. PICK to \in {"gone", "notify"} : client' = [client EXCEPT ![c] = to]
      BY <1>9 DEF Chat!Open
    <2>2. client[c] = "open" /\ UNCHANGED <<id, stc, registered, handler, missed>>
      BY <1>9 DEF Chat!Open
    <2>3. to \notin Listening /\ client[c] \notin Listening
      BY <2>2 DEF Listening, Chat!Online
    <2> QED
      BY <1>6, <2>1, <2>2, <2>3
  <1>10. CASE Chat!Notify(c)
    <2>1. /\ client[c] = "notify" /\ client' = [client EXCEPT ![c] = "name"]
          /\ registered' = registered \cup {id[c]} /\ UNCHANGED <<id, stc, handler, missed>>
      BY <1>10 DEF Chat!Notify
    <2>2. client[c] \in HasId /\ client[c] \notin Listening /\ c \in Chat!In(HasId)
      BY <2>1 DEF HasId, Listening, Chat!Online, Chat!In
    <2>3. handler[id[c]] = "none"
      BY <1>4, <2>2
    <2>4. "name" \in Listening /\ "name" \notin {"talk", "said"}
      BY DEF Listening, Chat!Online
    <2> QED
      BY <2>1, <2>2, <2>3, <2>4, OwnQueueOnly
  <1>11. ASSUME client[c] \in Listening, NEW to \in Listening, client' = [client EXCEPT ![c] = to],
                UNCHANGED <<id, stc, registered, handler, missed>>,
                to \in {"talk", "said"} /\ client[c] \notin {"talk", "said"} => stc[id[c]] = <<>>
         PROVE  HandlersOwned' /\ Hears'
    <2>1. /\ handler'[id[c]] = "none" => id[c] \in registered'
          /\ handler'[id[c]] = "rearm" /\ id[c] \notin missed => stc'[id[c]] = <<>>
          /\ to \in {"talk", "said"} /\ handler'[id[c]] = "none" /\ id[c] \notin missed =>
               stc'[id[c]] = <<>>
      BY <1>5, <1>11
    <2>2. c \in Chat!In(HasId)
      BY <1>5, <1>11
    <2> QED
      BY <1>11, <2>1, <2>2, OwnQueueOnly
  <1>12. CASE Chat!Name(c) \/ Chat!Drained(c) \/ Chat!Say(c)
    <2>1. PICK to \in {"drain", "talk", "said"} :
            /\ client' = [client EXCEPT ![c] = to]
            /\ to \in {"talk", "said"} /\ client[c] \notin {"talk", "said"} => stc[id[c]] = <<>>
      BY <1>12 DEF Chat!Name, Chat!Drained, Chat!Say
    <2>2. client[c] \in {"name", "drain", "talk"} /\ UNCHANGED <<id, stc, registered, handler, missed>>
      BY <1>12 DEF Chat!Name, Chat!Drained, Chat!Say
    <2>3. to \in Listening /\ client[c] \in Listening
      BY <2>2 DEF Listening, Chat!Online
    <2> QED
      BY <1>11, <2>1, <2>2, <2>3
  <1>13. ASSUME Chat!Exit(c), client[c] \in Chat!Online,
                UNCHANGED stc \/ stc' = [stc EXCEPT ![id[c]] = Tail(@)]
         PROVE  HandlersOwned' /\ Hears'
    <2>1. /\ client' = [client EXCEPT ![c] = "gone"] /\ registered' = registered \ {id[c]}
          /\ handler' = [handler EXCEPT ![id[c]] = "none"] /\ UNCHANGED <<id, missed>>
      BY <1>13 DEF Chat!Exit
    <2>2. c \in Chat!In(HasId)
      BY <1>13 DEF Chat!In, HasId
    <2>3. "gone" \notin Listening
      BY DEF Listening, Chat!Online
    <2>4. \A u \in Chat!Slots \ {id[c]} : /\ stc'[u] = stc[u] /\ handler'[u] = handler[u]
                                          /\ u \in registered' <=> u \in registered
      BY <1>1, <1>13, <2>1
    <2>5. handler'[id[c]] = "none" /\ id[c] \notin registered'
      BY <1>1, <1>2, <2>1, <2>2
    <2> QED
      BY <2>1, <2>2, <2>3, <2>4, <2>5, OwnQueueOnly
  <1>14. CASE Chat!Read(c)
    <2>1. /\ client[c] \in Chat!Online /\ (client[c] = "drain" \/ handler[id[c]] = "reading")
          /\ stc[id[c]] # <<>> /\ stc' = [stc EXCEPT ![id[c]] = Tail(@)]
      BY <1>14 DEF Chat!Read
    <2>2. CASE Chat!Exit(c)
      BY <1>13, <2>1, <2>2
    <2>3. CASE UNCHANGED <<client, id, registered, handler, missed>>
      <3>1. client[c] \in Listening
        BY <1>4, <2>1 DEF Listening, Chat!Online, HasId
      <3>2. /\ handler[id[c]] = "none" => id[c] \in registered
            /\ ~(handler[id[c]] = "rearm" /\ id[c] \notin missed)
            /\ ~(client[c] \in {"talk", "said"} /\ handler[id[c]] = "none" /\ id[c] \notin missed)
            /\ c \in Chat!In(HasId)
        BY <1>5, <2>1, <3>1
      <3>3. \A u \in Chat!Slots \ {id[c]} : /\ stc'[u] = stc[u] /\ handler'[u] = handler[u]
                                            /\ u \in registered' <=> u \in registered
        BY <1>1, <2>1, <2>3
      <3>4. PICK to : to = client[c] /\ client' = [client EXCEPT ![c] = to]
        BY <1>1, <2>3
      <3> QED
        BY <2>3, <3>1, <3>2, <3>3, <3>4, OwnQueueOnly
    <2> QED
      BY <1>14, <2>2, <2>3 DEF Chat!Read
  <1>15. CASE Chat!HandledAll(c) \/ Chat!Rearm(c)
    <2>1. /\ client[c] \in Chat!Online /\ handler[id[c]] \in {"reading", "rearm"}
          /\ UNCHANGED <<client, id, stc, missed>>
      BY <1>15 DEF Chat!HandledAll, Chat!Rearm
    <2>2. client[c] \in Listening
      BY <1>4, <2>1 DEF Listening, Chat!Online, HasId
    <2>3. c \in Chat!In(HasId) /\ id[c] \in Chat!Slots
      BY <1>5, <2>2
    <2>4. PICK to : to = client[c] /\ client' = [client EXCEPT ![c] = to]
      BY <1>1, <2>1
    <2>5. CASE Chat!HandledAll(c)
      <3>1. /\ stc[id[c]] = <<>> /\ handler' = [handler EXCEPT ![id[c]] = "rearm"]
            /\ registered' = registered
        BY <2>5 DEF Chat!HandledAll
      <3>2. handler'[id[c]] = "rearm" /\ stc'[id[c]] = <<>>
        BY <1>1, <2>1, <2>3, <3>1
      <3>3. \A u \in Chat!Slots \ {id[c]} : /\ stc'[u] = stc[u] /\ handler'[u] = handler[u]
                                            /\ u \in registered' <=> u \in registered
        BY <1>1, <2>1, <3>1
      <3> QED
        BY <2>1, <2>2, <2>3, <2>4, <3>2, <3>3, OwnQueueOnly
    <2>6. CASE Chat!Rearm(c)
      <3>1. /\ handler[id[c]] = "rearm" /\ handler' = [handler EXCEPT ![id[c]] = "none"]
            /\ registered' = registered \cup {id[c]}
        BY <2>6 DEF Chat!Rearm
      <3>2. handler'[id[c]] = "none" /\ id[c] \in registered'
        BY <1>1, <2>3, <3>1
      <3>3. id[c] \notin missed => stc'[id[c]] = <<>>
        BY <1>5, <2>1, <2>2, <3>1
      <3>4. \A u \in Chat!Slots \ {id[c]} : /\ stc'[u] = stc[u] /\ handler'[u] = handler[u]
                                            /\ u \in registered' <=> u \in registered
        BY <1>1, <2>1, <3>1
      <3> QED
        BY <2>1, <2>2, <2>3, <2>4, <3>2, <3>3, <3>4, OwnQueueOnly
    <2> QED
      BY <1>15, <2>5, <2>6
  <1>16. CASE Chat!Quit(c)
    BY <1>13, <1>16 DEF Chat!Quit, Chat!Online
  <1>17. CASE Chat!Interrupt(c)
    <2>1. CASE client[c] \in {"notify", "name", "drain"} /\ Chat!Exit(c)
      BY <1>13, <1>17, <2>1 DEF Chat!Interrupt, Chat!Online
    <2>2. CASE client[c] \in {"waiting", "holding", "open"}
               /\ client' = [client EXCEPT ![c] = IF @ = "waiting" THEN "gaveup" ELSE "gone"]
               /\ UNCHANGED <<id, registered, handler, missed>>
      <3>1. PICK to \in {"gaveup", "gone"} : client' = [client EXCEPT ![c] = to]
        BY <2>2
      <3>2. to \notin Listening /\ client[c] \notin Listening
        BY <2>2 DEF Listening, Chat!Online
      <3>3. UNCHANGED stc
        BY <1>17 DEF Chat!Interrupt
      <3> QED
        BY <1>6, <2>2, <3>1, <3>2, <3>3
    <2> QED
      BY <1>17, <2>1, <2>2 DEF Chat!Interrupt
  <1> QED
    BY <1>7, <1>8, <1>9, <1>10, <1>12, <1>14, <1>15, <1>16, <1>17 DEF Chat!Client

Notices == ChatTyped /\ SlotsEnough /\ IdsOwn /\ HandlersOwned /\ Hears

LEMMA InitNotices == Init => Notices
  <1> SUFFICES ASSUME Init PROVE Notices
    OBVIOUS
  <1>1. ChatTyped
    BY InitChat
  <1>2. /\ server = "login" /\ hand = 0 /\ users = <<>> /\ answers = <<>> /\ requests = 0
        /\ client = [c \in Clients |-> "off"] /\ registered = {}
        /\ handler = [u \in Chat!Slots |-> "none"]
    BY DEF Init, Chat!Init
  <1>3. Chat!In({"holding"}) = {} /\ Chat!In(HasId) = {} /\ Chat!In(Listening) = {}
    BY <1>2 DEF Chat!In, HasId, Listening, Chat!Online
  <1>4. Cardinality({}) = 0
    BY FS_EmptySet
  <1>5. Asked = 0
    BY <1>2 DEF Asked
  <1>6. Cardinality(Came) \in Nat
    BY <1>1, LedgerIs
  <1>7. SlotsEnough
    <2>1. PICK h, a : h = Cardinality(Chat!In({"holding"})) /\ a = Cardinality(Came)
      OBVIOUS
    <2>2. Asked + h <= a
      BY <1>3, <1>4, <1>5, <1>6, <2>1
    <2> QED
      BY <1>1, <2>1, <2>2, SlotsAre
  <1>8. IdsOwn /\ HandlersOwned /\ Hears
    BY <1>2, <1>3 DEF IdsOwn, HandlersOwned, Hears
  <1> QED
    BY <1>1, <1>7, <1>8 DEF Notices

LEMMA NextNotices ==
  ASSUME Notices, [Next]_vars
  PROVE  Notices'
  <1>1. CASE UNCHANGED chatVars
    <2>1. /\ UNCHANGED <<server, hand, users, requests, answers, client, id, stc, registered>>
          /\ UNCHANGED <<handler, missed>>
      BY <1>1 DEF chatVars
    <2>2. /\ Chat!In({"holding"})' = Chat!In({"holding"}) /\ Came' = Came
          /\ Chat!In(HasId)' = Chat!In(HasId) /\ Chat!In(Listening)' = Chat!In(Listening)
          /\ Chat!In({"talk", "said"})' = Chat!In({"talk", "said"})
      BY <2>1 DEF Chat!In, Came, HasId, Listening, Chat!Online
    <2>3. ChatTyped'
      BY <1>1, ChatTypedStays DEF Notices
    <2>4. SlotsEnough'
      BY <2>1, <2>2 DEF Notices, SlotsEnough
    <2>5. IdsOwn'
      BY <2>1, <2>2, IdsKept DEF Notices
    <2>6. HandlersOwned' /\ Hears'
      BY <2>1, <2>2, NoticesKept DEF Notices
    <2> QED
      BY <2>3, <2>4, <2>5, <2>6 DEF Notices
  <1>2. CASE Chat!Server
    BY <1>2, ServerTyped, ServerSlots, ServerIds, ServerHears DEF Notices
  <1>3. ASSUME NEW c \in Clients, Chat!Client(c)
        PROVE  Notices'
    BY <1>3, ClientTyped, ClientSlots, ClientIds, ClientHears DEF Notices
  <1> QED
    BY <1>1, <1>2, <1>3, ChatSteps

(* A client in its main loop that has a message nobody reads, or will be   *)
(* told of, got one while handle_msg was between its last look into the    *)
(* queue and its mq_notify: there is no other way to miss a message, in    *)
(* any order of logins, answers, notifications, exits and interrupts.      *)
THEOREM DeafByWindowOnly == Spec => []DeafOnlyByWindow
  <1>1. Notices => DeafOnlyByWindow
    BY DEF Notices, Hears, DeafOnlyByWindow, Chat!DeafOnlyByWindow, Chat!In, Listening, Chat!Online
  <1> QED
    BY <1>1, InitNotices, NextNotices, PTL DEF Spec

-----------------------------------------------------------------------------
(* The chat's user list.                                                   *)

(* An order of everybody in a set is the only one: at the first difference *)
(* one list is ahead of the other and will not name whom it has passed.    *)
NamesAll(l, n, S) == \A u \in S : \E i \in 1..n : l[i] = u
Ascends(l, n) == \A i, j \in 1..n : i < j => l[i] < l[j]
AlikeBelow(l, m, k) == \A i \in 1..k - 1 : l[i] = m[i]

LEMMA Ahead ==
  ASSUME NEW S \in SUBSET Nat, NEW n \in Nat, NEW l \in [1..n -> S], NEW m \in [1..n -> S],
         NEW k \in 1..n, AlikeBelow(l, m, k), NamesAll(m, n, S), Ascends(l, n), Ascends(m, n)
  PROVE  ~(l[k] < m[k])
  <1> SUFFICES ASSUME l[k] < m[k] PROVE FALSE
    OBVIOUS
  <1>1. \A i \in 1..n : l[i] \in Nat /\ m[i] \in Nat
    OBVIOUS
  <1>2. PICK j \in 1..n : m[j] = l[k]
    BY DEF NamesAll
  <1>3. CASE j < k
    <2>1. j \in 1..k - 1
      BY <1>3
    <2>2. l[j] = l[k] /\ l[j] < l[k]
      BY <1>2, <1>3, <2>1 DEF AlikeBelow, Ascends
    <2> QED
      BY <1>1, <2>2
  <1>4. CASE j >= k
    <2>1. m[k] = m[j] \/ m[k] < m[j]
      BY <1>4 DEF Ascends
    <2>2. m[k] \in Nat /\ m[j] \in Nat /\ m[j] < m[k]
      BY <1>1, <1>2
    <2> QED
      BY <2>1, <2>2
  <1> QED
    BY <1>3, <1>4

LEMMA NamesIs ==
  ASSUME NEW l, NEW S, NEW n, n = Cardinality(S)
  PROVE  Chat!Names(l, S) <=> l \in [1..n -> S] /\ NamesAll(l, n, S) /\ Ascends(l, n)
  <1>1. Chat!Cardinality(S) = n
    BY ChatCardinality
  <1>2. Chat!Names(l, S) <=> /\ l \in [1..n -> S]
                             /\ \A u \in S : \E i \in DOMAIN l : l[i] = u
                             /\ \A i, j \in DOMAIN l : i < j => l[i] < l[j]
    BY <1>1 DEF Chat!Names
  <1>3. l \in [1..n -> S] => DOMAIN l = 1..n
    OBVIOUS
  <1> QED
    BY <1>2, <1>3 DEF NamesAll, Ascends

LEMMA NamesOnce ==
  ASSUME NEW S \in SUBSET Nat, IsFiniteSet(S), NEW l, NEW m, Chat!Names(l, S), Chat!Names(m, S)
  PROVE  l = m
  <1>1. PICK n \in Nat : n = Cardinality(S)
    BY FS_CardinalityType
  <1>2. /\ l \in [1..n -> S] /\ NamesAll(l, n, S) /\ Ascends(l, n)
        /\ m \in [1..n -> S] /\ NamesAll(m, n, S) /\ Ascends(m, n)
    BY <1>1, NamesIs
  <1>3. SUFFICES ASSUME l # m PROVE FALSE
    OBVIOUS
  <1> DEFINE T == {i \in 1..n : l[i] # m[i]}
  <1>4. T # {} /\ T \subseteq Nat
    BY <1>2, <1>3
  <1>5. PICK k \in T : \A v \in T : k <= v
    BY <1>4, LeastOf
  <1>6. k \in 1..n /\ l[k] # m[k]
    OBVIOUS
  <1>7. AlikeBelow(l, m, k) /\ AlikeBelow(m, l, k)
    <2>1. \A i \in 1..k - 1 : i \in 1..n /\ ~(k <= i)
      BY <1>6
    <2> QED
      BY <1>5, <2>1 DEF AlikeBelow
  <1> HIDE DEF T
  <1>8. ~(l[k] < m[k]) /\ ~(m[k] < l[k])
    BY <1>2, <1>6, <1>7, Ahead
  <1>9. l[k] \in Nat /\ m[k] \in Nat
    BY <1>2, <1>6
  <1> QED
    BY <1>6, <1>8, <1>9

(* So what the loop over the users writes is any list that names them.     *)
LEMMA ConnectedFinite ==
  ASSUME NEW us \in Seq(BOOLEAN)
  PROVE  Chat!Connected(us) \in SUBSET Nat /\ IsFiniteSet(Chat!Connected(us))
  <1>1. Len(us) \in Int /\ DOMAIN us = 1..Len(us)
    OBVIOUS
  <1>2. IsFiniteSet(1..Len(us))
    BY <1>1, FS_Interval
  <1>3. Chat!Connected(us) \in SUBSET (1..Len(us))
    BY <1>1 DEF Chat!Connected
  <1>4. IsFiniteSet(Chat!Connected(us))
    BY <1>2, <1>3, FS_Subset
  <1> QED
    BY <1>3, <1>4

LEMMA ListingIs ==
  ASSUME NEW us \in Seq(BOOLEAN), NEW l, Chat!Names(l, Chat!Connected(us))
  PROVE  Chat!Listing(us) = l
  <1> DEFINE C == Chat!Connected(us)
  <1>1. l \in [1..Chat!Cardinality(C) -> C]
    BY DEF Chat!Names
  <1>2. PICK m : m = Chat!Listing(us)
    OBVIOUS
  <1>3. m = CHOOSE x \in [1..Chat!Cardinality(C) -> C] : Chat!Names(x, C)
    BY <1>2 DEF Chat!Listing
  <1>4. Chat!Names(m, C)
    BY <1>1, <1>3
  <1> QED
    BY <1>2, <1>4, NamesOnce, ConnectedFinite

(* A user with a greater number than all the others comes last.            *)
LEMMA NamesAppend ==
  ASSUME NEW S \in SUBSET Nat, IsFiniteSet(S), NEW l, Chat!Names(l, S),
         NEW u \in Nat, \A v \in S : v < u
  PROVE  Chat!Names(Append(l, u), S \cup {u})
  <1> DEFINE T == S \cup {u}
             m == Append(l, u)
  <1>1. PICK n \in Nat : n = Cardinality(S)
    BY FS_CardinalityType
  <1>2. l \in [1..n -> S] /\ NamesAll(l, n, S) /\ Ascends(l, n)
    BY <1>1, NamesIs
  <1>3. u \notin S
    OBVIOUS
  <1>4. Cardinality(T) = n + 1
    BY <1>1, <1>3, FS_AddElement
  <1>5. l \in Seq(T) /\ Len(l) = n
    BY <1>2
  <1>6. m \in Seq(T) /\ Len(m) = n + 1
    BY <1>5
  <1>7. m \in [1..n + 1 -> T]
    <2>1. \A q \in Seq(T) : q \in [1..Len(q) -> T]
      OBVIOUS
    <2> QED
      BY <1>6, <2>1
  <1>8. m[n + 1] = u
    BY <1>5
  <1>9. \A i \in 1..n : m[i] = l[i]
    BY <1>5
  <1>10. \A i \in 1..n : l[i] \in S
    BY <1>2
  <1> HIDE DEF T, m
  <1>11. NamesAll(m, n + 1, T)
    <2>1. \A i \in 1..n : i \in 1..n + 1
      OBVIOUS
    <2>2. n + 1 \in 1..n + 1
      OBVIOUS
    <2> QED
      BY <1>2, <1>8, <1>9, <2>1, <2>2 DEF T, NamesAll
  <1>12. Ascends(m, n + 1)
    <2> SUFFICES ASSUME NEW i \in 1..n + 1, NEW j \in 1..n + 1, i < j PROVE m[i] < m[j]
      BY DEF Ascends
    <2>1. i \in 1..n
      OBVIOUS
    <2>2. CASE j \in 1..n
      BY <1>2, <1>9, <2>1, <2>2 DEF Ascends
    <2>3. CASE j = n + 1
      BY <1>8, <1>9, <1>10, <2>1, <2>3
    <2> QED
      BY <2>2, <2>3
  <1> QED
    BY <1>4, <1>7, <1>11, <1>12, NamesIs DEF T, m

(* Whoever leaves is taken out, and those behind him move up.              *)
LEMMA NamesWithout ==
  ASSUME NEW S \in SUBSET Nat, IsFiniteSet(S), NEW l, Chat!Names(l, S), NEW u \in S
  PROVE  \E m : Chat!Names(m, S \ {u})
  <1>1. PICK n \in Nat : n = Cardinality(S)
    BY FS_CardinalityType
  <1>2. l \in [1..n -> S] /\ NamesAll(l, n, S) /\ Ascends(l, n)
    BY <1>1, NamesIs
  <1>3. Cardinality(S \ {u}) = n - 1
    BY <1>1, FS_RemoveElement
  <1>4. PICK k \in 1..n : l[k] = u
    BY <1>2 DEF NamesAll
  <1>5. \A i, j \in 1..n : l[i] = l[j] => i = j
    <2> SUFFICES ASSUME NEW i \in 1..n, NEW j \in 1..n, l[i] = l[j] PROVE i = j
      OBVIOUS
    <2>1. l[i] \in Nat /\ l[j] \in Nat
      BY <1>2
    <2>2. ~(l[i] < l[j]) /\ ~(l[j] < l[i])
      BY <2>1
    <2> QED
      BY <1>2, <2>2 DEF Ascends
  <1> DEFINE place(i) == IF i < k THEN i ELSE i + 1
             m == [i \in 1..n - 1 |-> l[place(i)]]
  <1>6. \A i \in 1..n - 1 : place(i) \in 1..n /\ place(i) # k
    OBVIOUS
  <1>7. \A i, j \in 1..n - 1 : i < j => place(i) < place(j)
    OBVIOUS
  <1>8. \A j \in 1..n : j # k => \E i \in 1..n - 1 : place(i) = j
    <2> SUFFICES ASSUME NEW j \in 1..n, j # k PROVE \E i \in 1..n - 1 : place(i) = j
      OBVIOUS
    <2>1. CASE j < k
      <3>1. j \in 1..n - 1 /\ place(j) = j
        BY <2>1
      <3> QED
        BY <3>1
    <2>2. CASE j > k
      <3>1. j - 1 \in 1..n - 1 /\ place(j - 1) = j
        BY <2>2
      <3> QED
        BY <3>1
    <2> QED
      BY <2>1, <2>2
  <1> HIDE DEF place
  <1>9. m \in [1..n - 1 -> S \ {u}]
    <2>1. \A i \in 1..n - 1 : l[place(i)] \in S /\ l[place(i)] # u
      BY <1>2, <1>4, <1>5, <1>6
    <2> QED
      BY <2>1
  <1>10. NamesAll(m, n - 1, S \ {u})
    <2> SUFFICES ASSUME NEW v \in S \ {u} PROVE \E i \in 1..n - 1 : m[i] = v
      BY DEF NamesAll
    <2>1. PICK j \in 1..n : l[j] = v
      BY <1>2 DEF NamesAll
    <2>2. j # k
      BY <1>4, <2>1
    <2>3. PICK i \in 1..n - 1 : place(i) = j
      BY <1>8, <2>2
    <2> QED
      BY <2>1, <2>3
  <1>11. Ascends(m, n - 1)
    BY <1>2, <1>6, <1>7 DEF Ascends
  <1> HIDE DEF m
  <1> QED
    BY <1>3, <1>9, <1>10, <1>11, NamesIs

(* The list as a reader takes it who knows who the first user is.          *)
Shown == [i \in DOMAIN users_list |-> IF users_list[i] = 0 THEN 1 ELSE users_list[i]]

(* All the users but the one who has registered and is not in the list.    *)
Listed == IF server = "list" THEN Chat!Connected(users) \ {Len(users)} ELSE Chat!Connected(users)

(* The loop variable is past the last user between the loops, as long as   *)
(* there was a loop; a list that is not exact lacks the last user only,    *)
(* whose number the loop variable has, or nothing if he is the first.      *)
Lists ==
  /\ index \in Nat /\ users_list \in Seq(Nat) /\ users \in Seq(BOOLEAN)
  /\ server = "users" => index <= Len(users) + 1
  /\ server \in {"login", "putback", "register"} =>
       index = Len(users) + 1 \/ (index = 0 /\ users = <<>>)
  /\ server = "list" => /\ users # <<>> /\ users[Len(users)]
                        /\ index = Len(users) \/ (index = 0 /\ Len(users) = 1)
  /\ server # "down" => Chat!Names(Shown, Listed)

LEMMA ListsBetween ==
  ASSUME Lists, server \notin {"down", "list"}, server' \notin {"down", "list"},
         UNCHANGED <<users, users_list>>, index' \in Nat,
         server' = "users" => index' <= Len(users) + 1,
         server' \in {"login", "putback", "register"} =>
           index' = Len(users) + 1 \/ (index' = 0 /\ users = <<>>)
  PROVE  Lists'
  <1>1. Shown' = Shown /\ Listed' = Listed
    BY DEF Shown, Listed
  <1>2. Chat!Names(Shown, Listed)'
    BY <1>1 DEF Lists
  <1> QED
    BY <1>2 DEF Lists

LEMMA ListsKept ==
  ASSUME Lists, UNCHANGED <<server, index, users, users_list>>
  PROVE  Lists'
  <1>1. Shown' = Shown /\ Listed' = Listed
    BY DEF Shown, Listed
  <1> QED
    BY <1>1 DEF Lists

(* The list after the loop over the users has written it.                  *)
LEMMA ListWritten ==
  ASSUME NEW us \in Seq(BOOLEAN), users' = us, NEW l, Chat!Names(l, Chat!Connected(us)),
         users_list' = Chat!Listing(us), server' = "users", index' \in Nat,
         index' <= Len(us) + 1
  PROVE  Lists'
  <1>1. users_list' = l
    BY ListingIs
  <1>2. PICK n \in Nat : n = Cardinality(Chat!Connected(us))
    BY ConnectedFinite, FS_CardinalityType
  <1>3. l \in [1..n -> Chat!Connected(us)]
    BY <1>2, NamesIs
  <1>4. \A v \in Chat!Connected(us) : v \in Nat /\ v # 0
    BY DEF Chat!Connected
  <1>5. \A i \in 1..n : l[i] \in Nat /\ l[i] # 0
    BY <1>3, <1>4
  <1>6. Shown' = l
    <2>1. Shown' = [i \in 1..n |-> IF l[i] = 0 THEN 1 ELSE l[i]]
      BY <1>1, <1>3 DEF Shown
    <2>2. l = [i \in 1..n |-> l[i]]
      BY <1>3
    <2> QED
      BY <1>5, <2>1, <2>2
  <1>7. Listed' = Chat!Connected(us)
    BY DEF Listed
  <1>8. users_list' \in Seq(Nat)
    <2>1. l \in [1..n -> Nat]
      BY <1>3, <1>5
    <2> QED
      BY <1>1, <2>1
  <1>9. Chat!Names(Shown, Listed)'
    BY <1>6, <1>7
  <1> QED
    BY <1>8, <1>9 DEF Lists

LEMMA ServerLists ==
  ASSUME Lists, Chat!Server
  PROVE  Lists'
  <1> USE DEF Chat!array, Chat!login_q, Chat!notify
  <1>0. Len(users) \in Nat /\ DOMAIN users = 1..Len(users) /\ users \in Seq(BOOLEAN) /\ index \in Nat
    BY DEF Lists
  <1>1. CASE Chat!NoLogin \/ Chat!PutBack
    BY <1>0, <1>1, ListsBetween DEF Chat!NoLogin, Chat!PutBack
  <1>2. CASE Chat!TakeAnswer \/ Chat!TakeRequest
    <2>1. index = Len(users) + 1 \/ (index = 0 /\ users = <<>>)
      BY <1>2 DEF Chat!TakeAnswer, Chat!TakeRequest, Lists
    <2> QED
      BY <1>0, <1>2, <2>1, ListsBetween DEF Chat!TakeAnswer, Chat!TakeRequest
  <1>3. CASE Chat!Register
    <2>1. /\ users' = Append(users, TRUE) /\ server = "register" /\ server' = "list"
          /\ UNCHANGED <<index, users_list>>
      BY <1>3 DEF Chat!Register
    <2>2. PICK us \in Seq(BOOLEAN) : us = Append(users, TRUE)
      <3>1. Append(users, TRUE) \in Seq(BOOLEAN)
        BY <1>0, AppendStays
      <3> QED
        BY <3>1
    <2>3. /\ Len(us) = Len(users) + 1 /\ us # <<>> /\ us[Len(us)]
          /\ \A i \in 1..Len(users) : us[i] = users[i]
      <3>1. Len(us) = Len(users) + 1 /\ us # <<>>
        <4>1. TRUE \in BOOLEAN /\ users \in Seq(BOOLEAN)
          BY <1>0
        <4>2. Len(Append(users, TRUE)) = Len(users) + 1 /\ Append(users, TRUE) # <<>>
          BY <4>1, AppendStays
        <4> QED
          BY <2>2, <4>2
      <3>2. us[Len(users) + 1] = TRUE /\ \A i \in DOMAIN users : us[i] = users[i]
        BY <1>0, <2>2, QueueEnds
      <3> QED
        BY <1>0, <3>1, <3>2
    <2>4. Chat!Connected(us) \ {Len(us)} = Chat!Connected(users)
      BY <1>0, <2>3 DEF Chat!Connected
    <2>5. index = Len(us) \/ (index = 0 /\ Len(us) = 1)
      <3>1. index = Len(users) + 1 \/ (index = 0 /\ users = <<>>)
        BY <2>1 DEF Lists
      <3> QED
        BY <2>3, <3>1
    <2>6. users' = us
      BY <2>1, <2>2
    <2>7. Shown' = Shown /\ Listed = Chat!Connected(users)
      BY <2>1 DEF Shown, Listed
    <2>8. Listed' = Chat!Connected(users)
      <3>1. Listed' = Chat!Connected(us) \ {Len(us)}
        BY <2>1, <2>6 DEF Listed
      <3> QED
        BY <2>4, <3>1
    <2>9. Chat!Names(Shown, Listed)'
      BY <2>1, <2>7, <2>8 DEF Lists
    <2> QED
      BY <2>1, <2>3, <2>5, <2>6, <2>9 DEF Lists
  <1>4. CASE Chat!ListNew
    <2>1. /\ users_list' = Append(users_list, index) /\ server = "list" /\ server' = "users"
          /\ index' = 1 /\ users' = users
      BY <1>4 DEF Chat!ListNew
    <2>2. PICK n \in Nat : n = Len(users)
      <3>1. Len(users) \in Nat
        BY <1>0
      <3> QED
        BY <3>1
    <2>3. n # 0 /\ users[n] /\ (index = n \/ (index = 0 /\ n = 1)) /\ users_list \in Seq(Nat)
      BY <2>1, <2>2 DEF Lists
    <2> DEFINE S == Chat!Connected(users) \ {n}
    <2>4. Chat!Names(Shown, S)
      BY <2>1, <2>2 DEF Lists, Listed
    <2>5. S \in SUBSET Nat /\ IsFiniteSet(S) /\ S \cup {n} = Chat!Connected(users)
      <3>1. Chat!Connected(users) \in SUBSET Nat /\ IsFiniteSet(Chat!Connected(users))
        BY <1>0, ConnectedFinite
      <3>2. n \in Chat!Connected(users)
        <4>1. n \in DOMAIN users
          <5>1. n # 0
            BY <2>3
          <5>2. DOMAIN users = 1..n
            BY <1>0, <2>2
          <5> QED
            BY <5>1, <5>2
        <4> QED
          BY <2>3, <4>1 DEF Chat!Connected
      <3> QED
        BY <3>1, <3>2, FS_RemoveElement
    <2>6. \A v \in S : v < n
      BY <1>0, <2>2 DEF Chat!Connected
    <2> HIDE DEF S
    <2>7. Chat!Names(Append(Shown, n), Chat!Connected(users))
      BY <2>4, <2>5, <2>6, NamesAppend
    <2>8. Shown' = Append(Shown, n)
      <3> DEFINE named(i) == IF i = 0 THEN 1 ELSE i
      <3>1. PICK k \in Nat : k = Len(users_list) /\ DOMAIN users_list = 1..k
        BY <2>3
      <3>2. Append(users_list, index) \in Seq(Nat) /\ Len(Append(users_list, index)) = k + 1
        BY <1>0, <2>3, <3>1, AppendStays
      <3>3. /\ \A i \in 1..k : Append(users_list, index)[i] = users_list[i]
            /\ Append(users_list, index)[k + 1] = index
        BY <1>0, <2>3, <3>1
      <3>4. Shown = [i \in 1..k |-> named(users_list[i])]
        BY <3>1 DEF Shown
      <3>5. Shown' = [i \in 1..k + 1 |-> named(Append(users_list, index)[i])]
        BY <2>1, <3>2 DEF Shown
      <3>6. named(index) = n
        BY <2>3
      <3>7. \A i \in 1..k : users_list[i] \in Nat
        BY <2>3, <3>1
      <3>8. \A i \in 1..k : named(users_list[i]) \in Nat
        BY <3>7
      <3> HIDE DEF named
      <3>9. Shown \in Seq(Nat) /\ Len(Shown) = k
        BY <3>4, <3>8
      <3>10. Append(Shown, n) = [i \in 1..k + 1 |-> IF i = k + 1 THEN n ELSE Shown[i]]
        <4>1. Append(Shown, n) \in Seq(Nat) /\ Len(Append(Shown, n)) = k + 1
          BY <3>9, AppendStays
        <4>2. \A q \in Seq(Nat) : q = [i \in 1..Len(q) |-> q[i]]
          OBVIOUS
        <4>3. Append(Shown, n) = [i \in 1..k + 1 |-> Append(Shown, n)[i]]
          BY <4>1, <4>2
        <4>4. Append(Shown, n)[k + 1] = n /\ \A i \in 1..k : Append(Shown, n)[i] = Shown[i]
          BY <3>9
        <4>5. \A i \in 1..k + 1 : i # k + 1 => i \in 1..k
          OBVIOUS
        <4>6. \A i \in 1..k + 1 : Append(Shown, n)[i] = IF i = k + 1 THEN n ELSE Shown[i]
          BY <4>4, <4>5
        <4> QED
          BY <4>3, <4>6
      <3>11. ASSUME NEW i \in 1..k + 1
             PROVE  named(Append(users_list, index)[i]) = IF i = k + 1 THEN n ELSE Shown[i]
        <4>1. CASE i = k + 1
          BY <3>3, <3>6, <4>1
        <4>2. CASE i # k + 1
          <5>1. i \in 1..k
            BY <4>2
          <5> QED
            BY <3>3, <3>4, <4>2, <5>1
        <4> QED
          BY <4>1, <4>2
      <3> QED
        BY <3>5, <3>10, <3>11
    <2>9. Listed' = Chat!Connected(users)
      BY <2>1 DEF Listed
    <2>10. users_list' \in Seq(Nat)
      BY <1>0, <2>1, <2>3
    <2>11. Chat!Names(Shown, Listed)'
      BY <2>7, <2>8, <2>9
    <2>12. index' \in Nat /\ index' <= Len(users) + 1
      BY <1>0, <2>1
    <2>13. server' = "users" /\ users' = users /\ users \in Seq(BOOLEAN)
      BY <1>0, <2>1
    <2> QED
      BY <2>10, <2>11, <2>12, <2>13 DEF Lists
  <1>5. CASE Chat!ListNewDies \/ Chat!Shutdown
    BY <1>5 DEF Chat!ListNewDies, Chat!Shutdown, Lists
  <1>6. ASSUME NEW u \in DOMAIN users, Chat!NothingFrom(u) \/ Chat!Message(u)
        PROVE  Lists'
    <2>1. /\ server = "users" /\ server' = "users" /\ index' = u + 1
          /\ UNCHANGED <<users, users_list>>
      BY <1>6 DEF Chat!NothingFrom, Chat!Message, Chat!From, Chat!Done
    <2>2. u + 1 \in Nat /\ u + 1 <= Len(users) + 1
      BY <1>0
    <2> QED
      BY <2>1, <2>2, ListsBetween
  <1>7. ASSUME NEW u \in DOMAIN users, Chat!NewName(u)
        PROVE  Lists'
    <2>1. /\ server = "users" /\ server' = "users" /\ index' = u + 1 /\ users' = users
          /\ users_list' = Chat!Listing(users)
      BY <1>7 DEF Chat!NewName, Chat!From, Chat!Done
    <2>2. u + 1 \in Nat /\ u + 1 <= Len(users) + 1
      BY <1>0
    <2>3. Chat!Names(Shown, Chat!Connected(users))
      BY <2>1 DEF Lists, Listed
    <2> QED
      BY <1>0, <2>1, <2>2, <2>3, ListWritten
  <1>8. ASSUME NEW u \in DOMAIN users, Chat!Leave(u)
        PROVE  Lists'
    <2>1. PICK others : others = [users EXCEPT ![u] = FALSE]
      OBVIOUS
    <2>2. /\ server = "users" /\ users' = others /\ users[u]
          /\ \/ server' = "down" /\ UNCHANGED <<index, users_list>>
             \/ /\ server' = "users" /\ index' = u + 1
                /\ users_list' = Chat!Listing(others)
      BY <1>8, <2>1 DEF Chat!Leave, Chat!From, Chat!Done
    <2>3. others \in Seq(BOOLEAN) /\ Len(others) = Len(users)
      BY <1>0, <2>1
    <2>4. Chat!Connected(others) = Chat!Connected(users) \ {u}
      BY <1>0, <2>1 DEF Chat!Connected
    <2>5. u \in Chat!Connected(users)
      BY <2>2 DEF Chat!Connected
    <2>6. Chat!Names(Shown, Chat!Connected(users))
      BY <2>2 DEF Lists, Listed
    <2>7. PICK m : Chat!Names(m, Chat!Connected(others))
      BY <1>0, <2>4, <2>5, <2>6, ConnectedFinite, NamesWithout
    <2>8. u + 1 \in Nat /\ u + 1 <= Len(others) + 1
      BY <1>0, <2>3
    <2>9. CASE server' = "down"
      BY <1>0, <2>2, <2>3, <2>9 DEF Lists
    <2> QED
      BY <2>2, <2>3, <2>7, <2>8, <2>9, ListWritten
  <1>9. CASE Chat!EndRound
    <2>1. /\ server = "users" /\ server' = "login" /\ index > Len(users)
          /\ UNCHANGED <<index, users, users_list>>
      BY <1>9 DEF Chat!EndRound
    <2>2. index <= Len(users) + 1
      BY <2>1 DEF Lists
    <2>3. index = Len(users) + 1
      BY <1>0, <2>1, <2>2
    <2> QED
      BY <1>0, <2>1, <2>3, ListsBetween
  <1> QED
    BY <1>1, <1>2, <1>3, <1>4, <1>5, <1>6, <1>7, <1>8, <1>9 DEF Chat!Server

(* The clients write neither the array of users nor the list.              *)
LEMMA ClientLists ==
  ASSUME Lists, NEW c \in Clients, Chat!Client(c)
  PROVE  Lists'
  <1> USE DEF Chat!array
  <1>1. UNCHANGED <<server, index, users, users_list>>
    BY DEF Chat!Client, Chat!Request, Chat!ReceiveRequest, Chat!ReturnRequest,
       Chat!ReceiveAnswer, Chat!Open, Chat!Notify, Chat!Name, Chat!Read, Chat!Drained,
       Chat!HandledAll, Chat!Rearm, Chat!Say, Chat!Quit, Chat!Interrupt, Chat!Exit
  <1> QED
    BY <1>1, ListsKept

(* Between the loops the user list has every connected user in his place;  *)
(* the extension by a new login is right though it reads the loop's        *)
(* variable after the loop, but for the first user, in whose place there   *)
(* may be garbage.                                                         *)
THEOREM ListIsComplete == Spec => []ListComplete
  <1>1. Init => Lists
    <2> SUFFICES ASSUME Init PROVE Lists
      OBVIOUS
    <2>1. server = "login" /\ index = 0 /\ users = <<>> /\ users_list = <<>>
      BY DEF Init, Chat!Init
    <2>2. Listed = {}
      BY <2>1 DEF Listed, Chat!Connected
    <2>3. Shown \in [1..0 -> {}]
      BY <2>1 DEF Shown
    <2>4. Cardinality({}) = 0
      BY FS_EmptySet
    <2>5. NamesAll(Shown, 0, {}) /\ Ascends(Shown, 0)
      BY DEF NamesAll, Ascends
    <2>6. Chat!Names(Shown, Listed)
      BY <2>2, <2>3, <2>4, <2>5, NamesIs
    <2> QED
      BY <2>1, <2>6 DEF Lists
  <1>2. Lists /\ [Next]_vars => Lists'
    <2> SUFFICES ASSUME Lists, [Next]_vars PROVE Lists'
      OBVIOUS
    <2>1. UNCHANGED chatVars => UNCHANGED <<server, index, users, users_list>>
      BY DEF chatVars
    <2> QED
      BY <2>1, ChatSteps, ServerLists, ClientLists, ListsKept
  <1>3. Lists => ListComplete
    <2> SUFFICES ASSUME Lists, server \notin {"down", "list"}
                 PROVE  /\ DOMAIN users_list = DOMAIN Chat!Listing(users)
                        /\ \A i \in DOMAIN Chat!Listing(users) :
                             \/ users_list[i] = Chat!Listing(users)[i]
                             \/ Chat!Listing(users)[i] = 1 /\ users_list[i] = 0
      BY DEF ListComplete, Chat!ListComplete
    <2>1. Chat!Names(Shown, Chat!Connected(users)) /\ users \in Seq(BOOLEAN)
      BY DEF Lists, Listed
    <2>2. Chat!Listing(users) = Shown
      BY <2>1, ListingIs
    <2>3. DOMAIN Shown = DOMAIN users_list
      BY DEF Shown
    <2>4. \A i \in DOMAIN users_list :
            Shown[i] = IF users_list[i] = 0 THEN 1 ELSE users_list[i]
      BY DEF Shown
    <2> QED
      BY <2>2, <2>3, <2>4
  <1> QED
    BY <1>1, <1>2, <1>3, PTL DEF Spec

=============================================================================
