------------------------------ MODULE Counting ------------------------------
(***************************************************************************)
(* How the number of members of a finite set whose value lies in a given   *)
(* set of values changes: when one member moves to another value, and when *)
(* several do.  The proofs about semaphores rest on these facts, since a   *)
(* semaphore counts the threads that stand between two program points.     *)
(* Then: the queues the threads share, sums as numbers of units, and least *)
(* numbers.                                                                *)
(***************************************************************************)
EXTENDS
  Integers, Sequences, FiniteSets, FiniteSetTheorems, WellFoundedInduction, TLAPS

Where(T, f, P) == {t \in T : f[t] \in P}

(* g differs from f at t at most.                                          *)
SameBut(T, f, g, t) == \A s \in T \ {t} : g[s] = f[s]

(* The members with a value in P are finitely many.                        *)
LEMMA WhereFinite ==
  ASSUME NEW T, IsFiniteSet(T), NEW f, NEW P
  PROVE  IsFiniteSet(Where(T, f, P)) /\ Cardinality(Where(T, f, P)) \in Nat
  <1>1. Where(T, f, P) \in SUBSET T
    BY DEF Where
  <1> QED
    BY <1>1, FS_Subset, FS_CardinalityType

(* Larger sets of values have at least as many members.                    *)
LEMMA WhereMonotone ==
  ASSUME NEW T, IsFiniteSet(T), NEW f, NEW P, NEW Q, P \subseteq Q
  PROVE  /\ Cardinality(Where(T, f, P)) <= Cardinality(Where(T, f, Q))
         /\ Cardinality(Where(T, f, P)) = Cardinality(Where(T, f, Q))
              => Where(T, f, P) = Where(T, f, Q)
  <1>1. Where(T, f, P) \in SUBSET Where(T, f, Q)
    BY DEF Where
  <1>2. IsFiniteSet(Where(T, f, Q))
    BY WhereFinite
  <1> QED
    BY <1>1, <1>2, FS_Subset

(* One member t moves to another value.                                    *)
LEMMA MoveOne ==
  ASSUME NEW T, IsFiniteSet(T), NEW f, NEW g, NEW t \in T, NEW P,
         SameBut(T, f, g, t)
  PROVE  /\ f[t] \notin P /\ g[t] \in P =>
              Cardinality(Where(T, g, P)) = Cardinality(Where(T, f, P)) + 1
         /\ f[t] \in P /\ g[t] \notin P =>
              Cardinality(Where(T, g, P)) = Cardinality(Where(T, f, P)) - 1
         /\ (f[t] \in P <=> g[t] \in P) =>
              Cardinality(Where(T, g, P)) = Cardinality(Where(T, f, P))
  <1> DEFINE A == Where(T, f, P)
             B == Where(T, g, P)
  <1>0. IsFiniteSet(A)
    BY WhereFinite
  <1>1. ASSUME f[t] \notin P, g[t] \in P
        PROVE  Cardinality(B) = Cardinality(A) + 1
    <2>1. B = A \cup {t} /\ t \notin A
      BY <1>1 DEF Where, SameBut
    <2> QED
      BY <2>1, <1>0, FS_AddElement
  <1>2. ASSUME f[t] \in P, g[t] \notin P
        PROVE  Cardinality(B) = Cardinality(A) - 1
    <2>1. B = A \ {t} /\ t \in A
      BY <1>2 DEF Where, SameBut
    <2> QED
      BY <2>1, <1>0, FS_RemoveElement
  <1>3. ASSUME f[t] \in P <=> g[t] \in P
        PROVE  B = A
    BY <1>3 DEF Where, SameBut
  <1> QED
    BY <1>1, <1>2, <1>3

(* Members S, all with the value u, move to the value v.                   *)
LEMMA MoveMany ==
  ASSUME NEW T, IsFiniteSet(T), NEW f, NEW S \in SUBSET T, NEW u, NEW v, NEW P,
         \A s \in S : f[s] = u
  PROVE  LET g == [t \in T |-> IF t \in S THEN v ELSE f[t]] IN
         /\ v \notin P /\ u \notin P => Where(T, g, P) = Where(T, f, P)
         /\ v \in P /\ u \notin P =>
              Cardinality(Where(T, g, P)) = Cardinality(Where(T, f, P)) + Cardinality(S)
  <1> DEFINE g == [t \in T |-> IF t \in S THEN v ELSE f[t]]
             A == Where(T, f, P)
  <1>1. ASSUME v \notin P, u \notin P
        PROVE  Where(T, g, P) = A
    BY <1>1 DEF Where
  <1>2. ASSUME v \in P, u \notin P
        PROVE  Cardinality(Where(T, g, P)) = Cardinality(A) + Cardinality(S)
    <2>1. Where(T, g, P) = A \cup S /\ A \cap S = {}
      BY <1>2 DEF Where
    <2>2. IsFiniteSet(A) /\ IsFiniteSet(S)
      BY WhereFinite, FS_Subset
    <2>3. Cardinality(A) \in Nat /\ Cardinality(S) \in Nat
      BY <2>2, FS_CardinalityType
    <2>4. Cardinality(A \cap S) = 0
      BY <2>1, FS_EmptySet
    <2>5. Cardinality(A \cup S) = Cardinality(A) + Cardinality(S) - Cardinality(A \cap S)
      BY <2>2, FS_Union
    <2>6. Cardinality(A \cup S) = Cardinality(A) + Cardinality(S)
      BY <2>3, <2>4, <2>5
    <2> QED
      BY <2>1, <2>6
  <1> QED
    BY <1>1, <1>2

(* Members counted under one of two disjoint sets of values.               *)
LEMMA WhereDisjoint ==
  ASSUME NEW T, IsFiniteSet(T), NEW f, NEW P, NEW Q, P \cap Q = {}
  PROVE  Cardinality(Where(T, f, P \cup Q))
           = Cardinality(Where(T, f, P)) + Cardinality(Where(T, f, Q))
  <1> DEFINE A == Where(T, f, P)
             B == Where(T, f, Q)
  <1>1. A \cup B = Where(T, f, P \cup Q) /\ A \cap B = {}
    BY DEF Where
  <1>2. /\ IsFiniteSet(A) /\ IsFiniteSet(B)
        /\ Cardinality(A) \in Nat /\ Cardinality(B) \in Nat
    BY WhereFinite
  <1>3. Cardinality(A \cap B) = 0
    BY <1>1, FS_EmptySet
  <1>4. Cardinality(A \cup B) = Cardinality(A) + Cardinality(B) - Cardinality(A \cap B)
    BY <1>2, FS_Union
  <1> HIDE DEF A, B
  <1>5. Cardinality(A \cup B) = Cardinality(A) + Cardinality(B)
    BY <1>2, <1>3, <1>4
  <1> QED
    BY <1>1, <1>5 DEF A, B

(* A set whose members are values of a function on a finite set is no      *)
(* larger than that set.                                                   *)
LEMMA ImageBound ==
  ASSUME NEW S, IsFiniteSet(S), NEW T, NEW f, \A t \in T : \E s \in S : f[s] = t
  PROVE  IsFiniteSet(T) /\ Cardinality(T) \in Nat /\ Cardinality(T) <= Cardinality(S)
  <1> DEFINE P == {s \in S : f[s] \in T}
             g == [s \in P |-> f[s]]
  <1>1. IsFiniteSet(P) /\ Cardinality(P) \in Nat /\ Cardinality(S) \in Nat
        /\ Cardinality(P) <= Cardinality(S)
    BY FS_Subset, FS_CardinalityType
  <1>2. g \in Surjection(P, T)
    <2>1. g \in [P -> T]
      OBVIOUS
    <2>2. \A t \in T : \E s \in P : g[s] = t
      OBVIOUS
    <2> QED
      BY <2>1, <2>2 DEF Surjection
  <1> HIDE DEF P, g
  <1>3. IsFiniteSet(T) /\ Cardinality(T) <= Cardinality(P)
    BY <1>1, <1>2, FS_Surjection
  <1>4. Cardinality(T) \in Nat
    BY <1>3, FS_CardinalityType
  <1> QED
    BY <1>1, <1>3, <1>4

(* A set covered by two finite ones.                                       *)
LEMMA CoverBound ==
  ASSUME NEW A, IsFiniteSet(A), NEW B, IsFiniteSet(B), NEW T, T \subseteq A \cup B
  PROVE  IsFiniteSet(T) /\ Cardinality(T) \in Nat /\ Cardinality(T) <= Cardinality(A) + Cardinality(B)
  <1>1. /\ IsFiniteSet(A \cup B) /\ IsFiniteSet(A \cap B)
        /\ Cardinality(A \cup B) = Cardinality(A) + Cardinality(B) - Cardinality(A \cap B)
    BY FS_Union, FS_Intersection
  <1>2. IsFiniteSet(T) /\ Cardinality(T) <= Cardinality(A \cup B)
    BY <1>1, FS_Subset
  <1>3. /\ Cardinality(T) \in Nat /\ Cardinality(A) \in Nat /\ Cardinality(B) \in Nat
        /\ Cardinality(A \cap B) \in Nat /\ Cardinality(A \cup B) \in Nat
    BY <1>1, <1>2, FS_CardinalityType
  <1> QED
    BY <1>1, <1>2, <1>3

(* An array that does not shrink keeps its indices.                        *)
LEMMA IndicesStay ==
  ASSUME NEW m \in Int, NEW n \in Int, n >= m
  PROVE  0 .. m - 1 \subseteq 0 .. n - 1
  OBVIOUS

(* A queue after mq_send and after mq_receive.                             *)
LEMMA QueueEnds ==
  ASSUME NEW T, NEW q \in Seq(T), NEW e \in T
  PROVE  /\ DOMAIN Append(q, e) = DOMAIN q \cup {Len(q) + 1}
         /\ Append(q, e)[Len(q) + 1] = e /\ Len(q) + 1 \notin DOMAIN q
         /\ \A i \in DOMAIN q : Append(q, e)[i] = q[i]
         /\ q # <<>> =>
              /\ 1 \in DOMAIN q /\ Head(q) = q[1]
              /\ \A i \in DOMAIN Tail(q) : i + 1 \in DOMAIN q /\ i + 1 # 1 /\ Tail(q)[i] = q[i + 1]
              /\ \A i, j \in DOMAIN Tail(q) : i + 1 = j + 1 => i = j
  OBVIOUS

(* What is put into a queue makes it a longer queue of the same type.      *)
LEMMA AppendStays ==
  ASSUME NEW T, NEW q \in Seq(T), NEW e \in T
  PROVE  /\ Append(q, e) \in Seq(T) /\ Append(q, e) # <<>>
         /\ Len(Append(q, e)) = Len(q) + 1 /\ Len(q) \in Nat
  <1>1. Len(Append(q, e)) = Len(q) + 1 /\ Len(q) \in Nat /\ Len(<<>>) = 0
    OBVIOUS
  <1>2. Append(q, e) # <<>>
    BY <1>1
  <1>3. Append(q, e) \in Seq(T)
    OBVIOUS
  <1> QED
    BY <1>1, <1>2, <1>3

(* How often a value is in a queue, after mq_send and after mq_receive.    *)
Times(c, s) == Cardinality({i \in DOMAIN s : s[i] = c})

LEMMA TimesFinite ==
  ASSUME NEW T, NEW q \in Seq(T), NEW c
  PROVE  IsFiniteSet({i \in DOMAIN q : q[i] = c}) /\ Times(c, q) \in Nat
  <1>1. IsFiniteSet(1 .. Len(q))
    BY FS_Interval
  <1>2. {i \in DOMAIN q : q[i] = c} \in SUBSET (1 .. Len(q))
    OBVIOUS
  <1> QED
    BY <1>1, <1>2, FS_Subset, FS_CardinalityType DEF Times

LEMMA TimesAppend ==
  ASSUME NEW T, NEW q \in Seq(T), NEW e \in T, NEW c
  PROVE  Times(c, Append(q, e)) = Times(c, q) + IF e = c THEN 1 ELSE 0
  <1> DEFINE A == {i \in DOMAIN q : q[i] = c}
             B == {i \in DOMAIN Append(q, e) : Append(q, e)[i] = c}
  <1>1. IsFiniteSet(A) /\ Cardinality(A) \in Nat
    BY TimesFinite DEF Times
  <1>2. ASSUME e = c
        PROVE  Cardinality(B) = Cardinality(A) + 1
    <2>1. B = A \cup {Len(q) + 1} /\ Len(q) + 1 \notin A
      BY <1>2, QueueEnds
    <2> QED
      BY <1>1, <2>1, FS_AddElement
  <1>3. ASSUME e # c
        PROVE  B = A
    BY <1>3, QueueEnds
  <1>4. Times(c, q) = Cardinality(A) /\ Times(c, Append(q, e)) = Cardinality(B)
    BY DEF Times
  <1> HIDE DEF A, B
  <1> QED
    BY <1>1, <1>2, <1>3, <1>4

LEMMA TimesTail ==
  ASSUME NEW T, NEW q \in Seq(T), q # <<>>, NEW c
  PROVE  Times(c, Tail(q)) = Times(c, q) - IF Head(q) = c THEN 1 ELSE 0
  <1> DEFINE A == {i \in DOMAIN q : q[i] = c}
             B == {i \in DOMAIN Tail(q) : Tail(q)[i] = c}
             f == [i \in A \ {1} |-> i - 1]
  <1>1. f \in Bijection(A \ {1}, B)
    <2>1. /\ Len(q) \in Nat \ {0} /\ DOMAIN q = 1 .. Len(q)
          /\ DOMAIN Tail(q) = 1 .. Len(q) - 1 /\ \A i \in DOMAIN Tail(q) : Tail(q)[i] = q[i + 1]
      OBVIOUS
    <2>2. f \in [A \ {1} -> B]
      BY <2>1
    <2>3. \A i, j \in A \ {1} : f[i] = f[j] => i = j
      BY <2>1
    <2>4. \A j \in B : \E i \in A \ {1} : f[i] = j
      <3> SUFFICES ASSUME NEW j \in B PROVE \E i \in A \ {1} : f[i] = j
        OBVIOUS
      <3>1. j + 1 \in A \ {1} /\ (j + 1) - 1 = j
        BY <2>1
      <3>2. f[j + 1] = (j + 1) - 1
        BY <3>1
      <3> QED
        BY <3>1, <3>2
    <2> QED
      BY <2>2, <2>3, <2>4 DEF Bijection, Injection, IsInjective, Surjection
  <1>2. IsFiniteSet(A) /\ Cardinality(A) \in Nat
    BY TimesFinite DEF Times
  <1>3. IsFiniteSet(A \ {1})
    BY <1>2, FS_RemoveElement
  <1>4. Cardinality(B) = Cardinality(A \ {1})
    <2> HIDE DEF A, B, f
    <2>1. ExistsBijection(A \ {1}, B)
      BY <1>1 DEF ExistsBijection
    <2> QED
      BY <1>3, <2>1, FS_Bijection
  <1>5. ASSUME Head(q) = c
        PROVE  Cardinality(A \ {1}) = Cardinality(A) - 1
    <2>1. 1 \in A
      BY <1>5, QueueEnds
    <2> QED
      BY <1>2, <2>1, FS_RemoveElement
  <1>6. ASSUME Head(q) # c
        PROVE  Cardinality(A \ {1}) = Cardinality(A)
    <2>1. A \ {1} = A
      BY <1>6, QueueEnds
    <2> QED
      BY <2>1
  <1>7. Times(c, q) = Cardinality(A) /\ Times(c, Tail(q)) = Cardinality(B)
    BY DEF Times
  <1> HIDE DEF A, B
  <1> QED
    BY <1>2, <1>4, <1>5, <1>6, <1>7

(* f adds up to the number of these pairs.                                 *)
Units(T, f) == UNION {{t} \X (1 .. f[t]) : t \in T}

LEMMA UpTo ==
  ASSUME NEW n \in Nat
  PROVE  IsFiniteSet(1 .. n) /\ Cardinality(1 .. n) = n
  <1>1. IsFiniteSet(1 .. n) /\ Cardinality(1 .. n) = IF 1 > n THEN 0 ELSE n - 1 + 1
    BY FS_Interval
  <1> QED
    BY <1>1

(* The sum when every member counts the same.                              *)
LEMMA UnitsAlike ==
  ASSUME NEW T, IsFiniteSet(T), NEW f, NEW n \in Nat, \A t \in T : f[t] = n
  PROVE  IsFiniteSet(Units(T, f)) /\ Cardinality(Units(T, f)) = Cardinality(T) * n
  <1>1. Units(T, f) = T \X (1 .. n)
    BY DEF Units
  <1>2. IsFiniteSet(1 .. n) /\ Cardinality(1 .. n) = n
    BY UpTo
  <1>3. /\ IsFiniteSet(T \X (1 .. n))
        /\ Cardinality(T \X (1 .. n)) = Cardinality(T) * Cardinality(1 .. n)
    BY <1>2, FS_Product
  <1>4. Cardinality(T \X (1 .. n)) = Cardinality(T) * n
    BY <1>2, <1>3
  <1> QED
    BY <1>1, <1>3, <1>4

(* The sum when one member t comes to count another number.                *)
LEMMA UnitsChange ==
  ASSUME NEW T, NEW f, NEW g, NEW t \in T, f[t] \in Nat, g[t] \in Nat, SameBut(T, f, g, t),
         IsFiniteSet(Units(T, f))
  PROVE  /\ IsFiniteSet(Units(T, g))
         /\ Cardinality(Units(T, f)) \in Nat
         /\ Cardinality(Units(T, g)) = Cardinality(Units(T, f)) + g[t] - f[t]
  <1> DEFINE R == UNION {{s} \X (1 .. f[s]) : s \in T \ {t}}
             A == {t} \X (1 .. f[t])
             B == {t} \X (1 .. g[t])
  <1>1. \A n \in Nat : /\ IsFiniteSet({t} \X (1 .. n))
                        /\ Cardinality({t} \X (1 .. n)) = n
    <2> SUFFICES ASSUME NEW n \in Nat
                 PROVE  IsFiniteSet({t} \X (1 .. n)) /\ Cardinality({t} \X (1 .. n)) = n
      OBVIOUS
    <2>1. IsFiniteSet(1 .. n) /\ Cardinality(1 .. n) = n
      BY UpTo
    <2>2. IsFiniteSet({t}) /\ Cardinality({t}) = 1
      BY FS_Singleton
    <2>3. /\ IsFiniteSet({t} \X (1 .. n))
          /\ Cardinality({t} \X (1 .. n)) = Cardinality({t}) * Cardinality(1 .. n)
      BY <2>1, <2>2, FS_Product
    <2>4. 1 * n = n
      OBVIOUS
    <2> QED
      BY <2>1, <2>2, <2>3, <2>4
  <1>2. Units(T, f) = R \cup A
    BY DEF Units
  <1>3. Units(T, g) = R \cup B
    BY DEF Units, SameBut
  <1>4. R \cap A = {} /\ R \cap B = {}
    OBVIOUS
  <1>5. IsFiniteSet(A) /\ Cardinality(A) = f[t] /\ IsFiniteSet(B) /\ Cardinality(B) = g[t]
    BY <1>1
  <1> HIDE DEF R, A, B
  <1>6. IsFiniteSet(R) /\ Cardinality(R) \in Nat
    <2>1. R \in SUBSET Units(T, f)
      BY <1>2
    <2> QED
      BY <2>1, FS_Subset, FS_CardinalityType
  <1>7. Cardinality(R \cap A) = 0 /\ Cardinality(R \cap B) = 0
    BY <1>4, FS_EmptySet
  <1>8. /\ Cardinality(R \cup A) = Cardinality(R) + Cardinality(A) - Cardinality(R \cap A)
        /\ Cardinality(R \cup B) = Cardinality(R) + Cardinality(B) - Cardinality(R \cap B)
        /\ IsFiniteSet(R \cup B)
    BY <1>5, <1>6, FS_Union
  <1>9. /\ Cardinality(R \cup A) = Cardinality(R) + f[t]
        /\ Cardinality(R \cup B) = Cardinality(R) + g[t]
    BY <1>5, <1>6, <1>7, <1>8
  <1> QED
    BY <1>2, <1>3, <1>6, <1>8, <1>9

(* A set of naturals that is not empty has a least element.                *)
LEMMA LeastOf ==
  ASSUME NEW T, T \subseteq Nat, T # {}
  PROVE  \E u \in T : \A v \in T : u <= v
  <1> DEFINE R == {ss \in Nat \X Nat : ss[1] < ss[2]}
  <1>1. IsWellFoundedOn(R, Nat)
    BY NatLessThanWellFounded DEF OpToRel
  <1>2. \A v, u \in T : v < u => <<v, u>> \in R
    OBVIOUS
  <1> HIDE DEF R
  <1>3. PICK u \in T : \A v \in T : ~(<<v, u>> \in R)
    BY <1>1, WFMin
  <1>4. \A v \in T : ~(v < u)
    BY <1>2, <1>3
  <1> QED
    BY <1>4

=============================================================================
