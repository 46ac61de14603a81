----------------------------- MODULE LruProofs -----------------------------
(***************************************************************************)
(* Proofs about LruEviction, for every set of keys, capacity, eviction     *)
(* count, pool size and sample size.                                       *)
(***************************************************************************)
EXTENDS LruEviction, FiniteSetTheorems, TLAPS

(* No recorded time lies ahead of the clock, nor, during a Set, of the     *)
(* time of the object that Set will store.                                 *)
NoneAfter(t) ==
  \A k \in Key : /\ lastAccess[k] # Nil => lastAccess[k] <= t
                 /\ ePool[k] # Nil => ePool[k] <= t

IInv ==
  /\ TypeOK /\ PoolNotNewer
  /\ NoneAfter(clock)
  /\ at # "idle" => /\ setting \in Key \X Nat
                    /\ setting[2] <= clock
                    /\ NoneAfter(setting[2])
  /\ at = "populate" => todo \subseteq Stored

(* Push keeps the pool within its size, whatever it trims.                 *)
LEMMA PushBounded ==
  ASSUME TypeOK, NEW k \in Key, NEW t \in Nat, NEW q \in Push(k, t)
  PROVE  /\ q \in [Key -> Nat \cup {Nil}]
         /\ Cardinality(Pooled(q)) <= EpoolMaxSize
         /\ \A j \in Key : q[j] # Nil => q[j] = IF j = k THEN t ELSE ePool[j]
<1> USE LruAssumption
<1> DEFINE p == [ePool EXCEPT ![k] = t]
<1>1. /\ ePool \in [Key -> Nat \cup {Nil}] /\ Cardinality(Pooled(ePool)) <= EpoolMaxSize
      /\ p \in [Key -> Nat \cup {Nil}]
      /\ \A j \in Key : p[j] = IF j = k THEN t ELSE ePool[j]
  BY DEF TypeOK
<1>2. /\ Pooled(p) = Pooled(ePool) \cup {k}
      /\ IsFiniteSet(Pooled(p)) /\ IsFiniteSet(Pooled(ePool))
  <2>1. Pooled(p) = Pooled(ePool) \cup {k}
    BY <1>1 DEF Pooled
  <2>2. Pooled(p) \subseteq Key /\ Pooled(ePool) \subseteq Key
    BY DEF Pooled
  <2> QED
    BY <2>1, <2>2, FS_Subset
<1>3. q \in IF Cardinality(Pooled(p)) > EpoolMaxSize
            THEN {[p EXCEPT ![j] = Nil] : j \in Newest(p)} ELSE {p}
  BY DEF Push
<1>4. /\ Cardinality(Pooled(p)) \in Nat
      /\ Cardinality(Pooled(p)) <= EpoolMaxSize + 1
  <2>1. /\ Cardinality(Pooled(p)) \in Nat /\ Cardinality(Pooled(ePool)) \in Nat
        /\ \/ Cardinality(Pooled(p)) = Cardinality(Pooled(ePool))
           \/ Cardinality(Pooled(p)) = Cardinality(Pooled(ePool)) + 1
    BY <1>2, FS_AddElement, FS_CardinalityType
  <2> QED
    BY <1>1, <2>1
<1> HIDE DEF p
<1>5. CASE Cardinality(Pooled(p)) > EpoolMaxSize
  <2>1. PICK j \in Newest(p) : q = [p EXCEPT ![j] = Nil]
    BY <1>3, <1>5
  <2>2. j \in Pooled(p) /\ j \in Key
    BY DEF Newest, Pooled
  <2>3. Pooled(q) = Pooled(p) \ {j}
    BY <1>1, <2>1, <2>2 DEF Pooled
  <2>4. Cardinality(Pooled(q)) = Cardinality(Pooled(p)) - 1
    <3>1. Cardinality(Pooled(p) \ {j}) = Cardinality(Pooled(p)) - 1
      BY <1>2, <2>2, FS_RemoveElement, Zenon
    <3> QED
      BY <2>3, <3>1, Zenon
  <2>5. q \in [Key -> Nat \cup {Nil}] /\ \A i \in Key : q[i] # Nil => q[i] = p[i]
    BY <1>1, <2>1, <2>2
  <2>6. Cardinality(Pooled(q)) <= EpoolMaxSize
    BY <1>4, <2>4
  <2> QED
    BY <1>1, <2>5, <2>6
<1>6. CASE ~(Cardinality(Pooled(p)) > EpoolMaxSize)
  BY <1>1, <1>3, <1>4, <1>6
<1> QED
  BY <1>5, <1>6

(* An empty Dict and an empty pool satisfy the invariant.                  *)
LEMMA InitInv == Init => IInv
<1> SUFFICES ASSUME Init PROVE IInv
  OBVIOUS
<1> USE LruAssumption
<1>1. Pooled(ePool) = {}
  BY DEF Init, Pooled
<1>2. Cardinality(Pooled(ePool)) = 0
  BY <1>1, FS_EmptySet
<1> QED
  BY <1>1, <1>2 DEF Init, IInv, TypeOK, PoolNotNewer, NoneAfter

(* Storing or refreshing a key between two evictions.                      *)
LEMMA StampInv ==
  ASSUME IInv, at = "idle", NEW k \in Key,
         lastAccess' = [lastAccess EXCEPT ![k] = clock],
         UNCHANGED <<clock, ePool, at, setting, todo, left>>
  PROVE  IInv'
<1>1. TypeOK'
  BY LruAssumption DEF IInv, TypeOK, Pooled
<1>2. PoolNotNewer' /\ NoneAfter(clock)'
  BY LruAssumption DEF IInv, TypeOK, PoolNotNewer, NoneAfter, Pooled
<1> QED
  BY <1>1, <1>2 DEF IInv

(* No step of a Set, a Get or the clock breaks the invariant.              *)
LEMMA NextInv == IInv /\ [Next]_vars => IInv'
<1> SUFFICES ASSUME IInv, [Next]_vars PROVE IInv'
  OBVIOUS
<1> USE LruAssumption
<1>1. CASE Tick
  BY <1>1 DEF Tick, IInv, TypeOK, PoolNotNewer, NoneAfter, Pooled, Stored
<1>2. ASSUME NEW k \in Key, SetFits(k) PROVE IInv'
  BY <1>2, StampInv DEF SetFits
<1>3. ASSUME NEW k \in Key, SetFull(k) PROVE IInv'
  <2>1. TypeOK'
    BY <1>3 DEF SetFull, IInv, TypeOK, Pooled, Stored
  <2>2. PoolNotNewer' /\ NoneAfter(clock)' /\ todo' = Stored'
    BY <1>3 DEF SetFull, IInv, PoolNotNewer, NoneAfter, Pooled, Stored
  <2>3. setting' \in Key \X Nat /\ setting'[2] = clock /\ clock' = clock
    BY <1>3 DEF SetFull, IInv, TypeOK
  <2>4. setting'[2] <= clock' /\ NoneAfter(setting[2])'
    BY <1>3, <2>3 DEF SetFull, IInv, TypeOK, NoneAfter
  <2> QED
    BY <2>1, <2>2, <2>3, <2>4 DEF IInv
<1>4. ASSUME NEW k \in Key, Get(k) PROVE IInv'
  BY <1>4, StampInv DEF Get
<1>5. ASSUME NEW k \in Key, GetExpired(k) PROVE IInv'
  <2>1. TypeOK'
    BY <1>5 DEF GetExpired, IInv, TypeOK, Pooled
  <2> QED
    BY <1>5, <2>1 DEF GetExpired, IInv, TypeOK, PoolNotNewer, NoneAfter, Pooled
<1>6. CASE populateEpool
  <2>1. PICK k \in todo :
          /\ ePool' \in Push(k, lastAccess[k])
          /\ IF left = 1 \/ todo = {k}
             THEN at' = "pop" /\ left' = EvictCount /\ todo' = {}
             ELSE left' = left - 1 /\ todo' = todo \ {k} /\ UNCHANGED at
    BY <1>6 DEF populateEpool
  <2>2. at = "populate" /\ UNCHANGED <<clock, lastAccess, setting>>
    BY <1>6 DEF populateEpool
  <2>3. k \in Key /\ lastAccess[k] \in Nat /\ todo \subseteq Stored
    BY <2>2 DEF IInv, TypeOK, Stored
  <2>4. /\ ePool' \in [Key -> Nat \cup {Nil}]
        /\ Cardinality(Pooled(ePool')) <= EpoolMaxSize
        /\ \A j \in Key : ePool'[j] # Nil => ePool'[j] = IF j = k THEN lastAccess[k] ELSE ePool[j]
    BY <2>1, <2>3, PushBounded DEF IInv
  <2>5. TypeOK'
    BY <2>1, <2>2, <2>4 DEF IInv, TypeOK
  <2>6. PoolNotNewer'
    BY <2>2, <2>3, <2>4 DEF IInv, TypeOK, PoolNotNewer, Pooled
  <2>7. ASSUME NEW t \in Nat, NoneAfter(t) PROVE NoneAfter(t)'
    BY <2>2, <2>3, <2>4, <2>7 DEF NoneAfter
  <2>8. clock \in Nat /\ setting \in Key \X Nat /\ setting[2] \in Nat
    BY <2>2 DEF IInv, TypeOK
  <2>9. NoneAfter(clock)' /\ NoneAfter(setting[2])'
    <3>1. NoneAfter(clock) /\ NoneAfter(setting[2])
      BY <2>2 DEF IInv
    <3> QED
      BY <2>2, <2>7, <2>8, <3>1 DEF NoneAfter
  <2>10. at' = "populate" => todo' \subseteq Stored'
    BY <2>1, <2>2, <2>3 DEF Stored
  <2> QED
    BY <2>2, <2>5, <2>6, <2>8, <2>9, <2>10 DEF IInv
<1>7. CASE Pop
  <2>1. PICK k \in Oldest(ePool) :
          /\ ePool' = [ePool EXCEPT ![k] = Nil]
          /\ lastAccess' = [lastAccess EXCEPT ![k] = Nil]
    BY <1>7 DEF Pop
  <2>2. at = "pop" /\ left' = left - 1 /\ UNCHANGED <<clock, at, setting, todo>>
    BY <1>7 DEF Pop
  <2>3. k \in Key /\ Pooled(ePool') \subseteq Pooled(ePool)
    BY <2>1 DEF Oldest, Pooled, IInv, TypeOK
  <2>4. Cardinality(Pooled(ePool')) <= EpoolMaxSize
    <3>1. IsFiniteSet(Pooled(ePool))
      BY FS_Subset DEF Pooled
    <3>2. /\ Cardinality(Pooled(ePool')) <= Cardinality(Pooled(ePool))
          /\ Cardinality(Pooled(ePool')) \in Nat /\ Cardinality(Pooled(ePool)) \in Nat
      BY <2>3, <3>1, FS_Subset, FS_CardinalityType
    <3> QED
      BY <3>2 DEF IInv, TypeOK
  <2>5. TypeOK'
    BY <2>1, <2>2, <2>3, <2>4 DEF IInv, TypeOK
  <2> QED
    BY <2>1, <2>2, <2>3, <2>5 DEF IInv, TypeOK, PoolNotNewer, NoneAfter, Pooled
<1>8. CASE Store
  <2>1. /\ lastAccess' = [lastAccess EXCEPT ![setting[1]] = setting[2]]
        /\ at = "pop" /\ at' = "idle" /\ setting' = Nil /\ left' = 0
        /\ UNCHANGED <<clock, ePool, todo>>
    BY <1>8 DEF Store
  <2>2. /\ setting \in Key \X Nat /\ setting[1] \in Key /\ setting[2] \in Nat
        /\ setting[2] <= clock /\ NoneAfter(setting[2])
    BY <2>1 DEF IInv
  <2>3. TypeOK'
    BY <2>1, <2>2 DEF IInv, TypeOK, Pooled
  <2> QED
    BY <2>1, <2>2, <2>3 DEF IInv, TypeOK, PoolNotNewer, NoneAfter, Pooled
<1>9. CASE UNCHANGED vars
  BY <1>9 DEF vars, IInv, TypeOK, PoolNotNewer, NoneAfter, Pooled, Stored
<1> QED
  BY <1>1, <1>2, <1>3, <1>4, <1>5, <1>6, <1>7, <1>8, <1>9 DEF Next

(* The pool never grows past EpoolMaxSize and every variable keeps its     *)
(* type.                                                                   *)
THEOREM TypeCorrect == Spec => []TypeOK
<1>1. IInv => TypeOK
  BY DEF IInv
<1> QED
  BY InitInv, NextInv, <1>1, PTL DEF Spec

(* However long a candidate stays in the pool across evictions, GETs,      *)
(* SETs and expiries, it never looks younger there than it is.             *)
THEOREM PoolSound == Spec => []PoolNotNewer
<1>1. IInv => PoolNotNewer
  BY DEF IInv
<1> QED
  BY InitInv, NextInv, <1>1, PTL DEF Spec
=============================================================================
