----------------------------- MODULE DictProofs -----------------------------
(***************************************************************************)
(* Proofs about Dict, for every set of keys, capacity, eviction count,     *)
(* policy and clock bound.                                                 *)
(***************************************************************************)
EXTENDS Dict, FiniteSetTheorems, TLAPS

IInv == TypeOK /\ NoOrphanTtl

(* A 64-bit word is a natural number: SetExpiry's sum stays one.           *)
LEMMA Uint64Nat ==
  ASSUME NEW x \in Int
  PROVE  ToUint64(x) \in Nat
  BY ConstAssumption DEF ToUint64

(* A TTL in milliseconds is an integer, whatever the seconds given.        *)
LEMMA TtlMsInt ==
  ASSUME NEW ex \in TtlSec \cup {Nil}
  PROVE  TtlMs(ex) \in Int
  BY ConstAssumption DEF TtlMs, ToInt64

(* Deleting any set of keys keeps the types and leaves no orphan TTL.      *)
LEMMA DelKeeps ==
  ASSUME IInv, NEW K \in SUBSET Key,
         dictStore' = DelStore(K),
         expiredDictStore' = DelExpiry(K, expiredDictStore)
  PROVE  /\ dictStore' \in [Key -> Value \cup {Nil}]
         /\ expiredDictStore' \in [Key -> Nat \cup {Nil}]
         /\ NoOrphanTtl'
  BY DEF IInv, TypeOK, NoOrphanTtl, Timed, Stored, DelStore, DelExpiry

(* Whatever Set evicts is a set of keys.                                   *)
LEMMA VictimsAreKeys ==
  ASSUME NEW K \in SetVictims
  PROVE  K \in SUBSET Key
  BY DEF SetVictims, evict, evictLru, evictRandom, Stored

(* The empty Dict satisfies the invariant.                                 *)
LEMMA InitInv == Init => IInv
<1> SUFFICES ASSUME Init PROVE IInv
  OBVIOUS
<1> USE ConstAssumption
<1>1. sweeping \in BOOLEAN
  BY Zenon DEF Init
<1>2. now \in 0 .. MaxNow
  BY DEF Init
<1>3. /\ dictStore \in [Key -> Value \cup {Nil}]
      /\ expiredDictStore \in [Key -> Nat \cup {Nil}]
  BY DEF Init
<1>4. NoOrphanTtl
  BY DEF Init, NoOrphanTtl, Timed, Stored
<1> QED
  BY <1>1, <1>2, <1>3, <1>4 DEF IInv, TypeOK

(* No command, sweep round or tick breaks the invariant.                   *)
LEMMA NextInv == IInv /\ [Next]_vars => IInv'
<1> SUFFICES ASSUME IInv, [Next]_vars PROVE IInv'
  OBVIOUS
<1> USE ConstAssumption
<1>1. ASSUME NEW k \in Key, NEW v \in Value, NEW ex \in TtlSec \cup {Nil}, cmdSET(k, v, ex)
      PROVE  IInv'
  <2>1. PICK t \in Times(now), K \in SetVictims :
           /\ now' = t
           /\ dictStore' = StoreAfterSet(k, v, K)
           /\ expiredDictStore' = ExpiryAfterSet(k, NewObjExpiry(k, TtlMs(ex), t), K)
    BY <1>1 DEF cmdSET
  <2>2. K \in SUBSET Key
    BY VictimsAreKeys
  <2>3. t \in 0 .. MaxNow
    BY DEF Times, IInv, TypeOK
  <2>4. NewObjExpiry(k, TtlMs(ex), t) \in [Key -> Nat \cup {Nil}]
    <3>1. TtlMs(ex) \in Int
      BY TtlMsInt
    <3>2. ToUint64(t + TtlMs(ex)) \in Nat
      BY <3>1, <2>3, Uint64Nat
    <3> QED
      BY <3>2 DEF NewObjExpiry, IInv, TypeOK
  <2>5. \A j \in Key : j # k => NewObjExpiry(k, TtlMs(ex), t)[j] = expiredDictStore[j]
    BY DEF NewObjExpiry, IInv, TypeOK
  <2>6. TypeOK'
    BY <1>1, <2>1, <2>2, <2>3, <2>4
    DEF cmdSET, IInv, TypeOK, StoreAfterSet, ExpiryAfterSet, DelStore, DelExpiry
  <2>7. NoOrphanTtl'
    BY <2>1, <2>2, <2>4, <2>5
    DEF IInv, TypeOK, NoOrphanTtl, Timed, Stored, StoreAfterSet, ExpiryAfterSet,
        DelStore, DelExpiry
  <2> QED
    BY <2>6, <2>7 DEF IInv
<1>2. ASSUME NEW k \in Key, cmdSETError(k)
      PROVE  IInv'
  BY <1>2 DEF cmdSETError, IInv, TypeOK, NoOrphanTtl, Timed, Stored
<1>3. ASSUME NEW k \in Key, NEW t \in Int, GetGone(k, t) \in SUBSET Key,
             dictStore' = DelStore(GetGone(k, t)),
             expiredDictStore' = DelExpiry(GetGone(k, t), expiredDictStore),
             now' \in 0 .. MaxNow, UNCHANGED sweeping
      PROVE  IInv'
  BY <1>3, DelKeeps DEF IInv, TypeOK
<1>4. ASSUME NEW k \in Key, cmdGET(k)
      PROVE  IInv'
  <2>1. PICK t1 \in Times(now) : \E t2 \in Times(t1) :
           /\ now' = t2
           /\ dictStore' = DelStore(GetGone(k, t1))
           /\ expiredDictStore' = DelExpiry(GetGone(k, t1), expiredDictStore)
    BY <1>4 DEF cmdGET
  <2>2. now' \in 0 .. MaxNow /\ t1 \in Int
    BY <2>1 DEF Times, IInv, TypeOK
  <2> QED
    BY <1>3, <1>4, <2>1, <2>2 DEF cmdGET, GetGone
<1>5. ASSUME NEW k \in Key, cmdTTL(k)
      PROVE  IInv'
  <2>1. PICK t1 \in Times(now) : \E t2 \in Times(t1) : \E t3 \in Times(t2) :
           /\ now' = t3
           /\ dictStore' = DelStore(GetGone(k, t1))
           /\ expiredDictStore' = DelExpiry(GetGone(k, t1), expiredDictStore)
    BY <1>5 DEF cmdTTL
  <2>2. now' \in 0 .. MaxNow /\ t1 \in Int
    BY <2>1 DEF Times, IInv, TypeOK
  <2> QED
    BY <1>3, <1>5, <2>1, <2>2 DEF cmdTTL, GetGone
<1>6. CASE cmdINFO
  BY <1>6 DEF cmdINFO, Times, IInv, TypeOK, NoOrphanTtl, Timed, Stored
<1>7. CASE StartSweep
  BY <1>7 DEF StartSweep, IInv, TypeOK, NoOrphanTtl, Timed, Stored
<1>8. CASE SweepRound
  <2>1. PICK t \in Times(now), S \in Samples : \E D \in SUBSET S :
           /\ now' = t
           /\ dictStore' = DelStore(D)
           /\ expiredDictStore' = DelExpiry(D, expiredDictStore)
           /\ sweeping' = SweepAgain(D)
    BY <1>8 DEF SweepRound
  <2>2. S \in SUBSET Key
    BY DEF Samples, Timed
  <2>3. now' \in 0 .. MaxNow /\ sweeping' \in BOOLEAN
    BY <2>1 DEF Times, IInv, TypeOK, SweepAgain
  <2> QED
    BY <2>1, <2>2, <2>3, DelKeeps DEF IInv, TypeOK
<1>9. CASE Tick
  BY <1>9 DEF Tick, IInv, TypeOK, NoOrphanTtl, Timed, Stored
<1>10. CASE UNCHANGED vars
  BY <1>10 DEF vars, IInv, TypeOK, NoOrphanTtl, Timed, Stored
<1> QED
  BY <1>1, <1>2, <1>4, <1>5, <1>6, <1>7, <1>8, <1>9, <1>10 DEF Next

(* The type invariant of Dict holds in every behaviour.                    *)
THEOREM DictTypeCorrect == Spec => []TypeOK
  BY InitInv, NextInv, PTL DEF Spec, IInv

(* No behaviour of Dict leaves a TTL entry without its key: Del's early    *)
(* return never strands an expiry.                                         *)
THEOREM DictNoOrphanTtl == Spec => []NoOrphanTtl
  BY InitInv, NextInv, PTL DEF Spec, IInv
-----------------------------------------------------------------------------
(* The capacity under random eviction                                      *)

(* The stored keys are finitely many, so their number is a natural.        *)
LEMMA StoredFinite ==
  ASSUME NEW S \in SUBSET Key
  PROVE  IsFiniteSet(S) /\ Cardinality(S) \in Nat
<1>1. IsFiniteSet(S)
  BY ConstAssumption, FS_Subset
<1> QED
  BY <1>1, FS_CardinalityType

(* A step that stores no new key keeps the limit.                          *)
LEMMA FewerKeys ==
  ASSUME KeyLimit, Stored' \subseteq Stored
  PROVE  KeyLimit'
<1>1. Stored \in SUBSET Key
  BY DEF Stored
<1>2. IsFiniteSet(Stored) /\ Cardinality(Stored) \in Nat
  BY <1>1, StoredFinite
<1>3. Cardinality(Stored') <= Cardinality(Stored) /\ IsFiniteSet(Stored')
  BY <1>2, FS_Subset
<1>4. Cardinality(Stored') \in Nat
  BY <1>3, FS_CardinalityType
<1> QED
  BY <1>2, <1>3, <1>4, ConstAssumption DEF KeyLimit

(* One more element adds at most one to the size of a finite set.          *)
LEMMA AddOne ==
  ASSUME NEW S, IsFiniteSet(S), NEW x
  PROVE  IsFiniteSet(S \cup {x}) /\ Cardinality(S \cup {x}) <= Cardinality(S) + 1
<1>1. Cardinality(S) \in Nat
  BY FS_CardinalityType
<1>2. /\ IsFiniteSet(S \cup {x})
      /\ \/ x \in S /\ Cardinality(S \cup {x}) = Cardinality(S)
         \/ x \notin S /\ Cardinality(S \cup {x}) = Cardinality(S) + 1
  BY FS_AddElement, Zenon
<1> QED
  BY <1>1, <1>2

(* Random eviction on a full Dict deletes at least one stored key, also    *)
(* when the eviction count is zero or negative.                            *)
LEMMA RandomEvictsOne ==
  ASSUME Cardinality(Stored) >= MaxKeyNumber, NEW K \in evictRandom
  PROVE  K \subseteq Stored /\ K # {}
<1>1. Stored \in SUBSET Key
  BY DEF Stored
<1>2. IsFiniteSet(Stored) /\ Cardinality(Stored) \in Nat
  BY <1>1, StoredFinite
<1>3. K \subseteq Stored
  BY DEF evictRandom
<1>4. Cardinality(K) >= 1
  BY <1>2, ConstAssumption DEF evictRandom, Lesser
<1>5. Cardinality({}) = 0
  BY FS_EmptySet
<1> QED
  BY <1>3, <1>4, <1>5

(* Every step keeps the limit when eviction is random.                     *)
LEMMA NextKeyLimit ==
  ASSUME EvictionPolicy # "allkeys-lru", IInv, KeyLimit, [Next]_vars
  PROVE  KeyLimit'
<1> USE ConstAssumption
<1>1. ASSUME NEW k \in Key, NEW v \in Value, NEW ex \in TtlSec \cup {Nil}, cmdSET(k, v, ex)
      PROVE  KeyLimit'
  <2>1. PICK K \in SetVictims : dictStore' = StoreAfterSet(k, v, K)
    BY <1>1 DEF cmdSET
  <2>2. Stored' = (Stored \ K) \cup {k}
    BY <2>1 DEF Stored, StoreAfterSet, DelStore, IInv, TypeOK
  <2>3. Stored \in SUBSET Key
    BY DEF Stored
  <2>4. IsFiniteSet(Stored) /\ Cardinality(Stored) \in Nat
    BY <2>3, StoredFinite
  <2>5. CASE Cardinality(Stored) < MaxKeyNumber
    <3>1. K = {}
      BY <2>5, <2>4 DEF SetVictims
    <3>2. Stored' = Stored \cup {k}
      BY <3>1, <2>2
    <3>3. Cardinality(Stored') <= Cardinality(Stored) + 1
      BY <3>2, <2>4, AddOne
    <3>4. Cardinality(Stored') \in Nat
      BY <3>2, <2>3, StoredFinite
    <3> QED
      BY <3>3, <3>4, <2>4, <2>5 DEF KeyLimit
  <2>6. CASE Cardinality(Stored) >= MaxKeyNumber
    <3>1. K \subseteq Stored /\ K # {}
      BY <2>6, RandomEvictsOne DEF SetVictims, evict
    <3>2. PICK j \in K : j \in Stored
      BY <3>1
    <3> DEFINE S == Stored \ {j}
    <3>3. IsFiniteSet(S) /\ Cardinality(S) = Cardinality(Stored) - 1
      BY <3>2, <2>4, FS_RemoveElement
    <3>4. IsFiniteSet(S \cup {k}) /\ Cardinality(S \cup {k}) <= Cardinality(Stored)
      <4> HIDE DEF S
      <4>1. IsFiniteSet(S \cup {k}) /\ Cardinality(S \cup {k}) <= Cardinality(S) + 1
        BY <3>3, AddOne, Zenon
      <4> QED
        BY <4>1, <3>3, <2>4
    <3>5. Stored' \in SUBSET (S \cup {k})
      BY <2>2, <3>2
    <3>6. IsFiniteSet(Stored') /\ Cardinality(Stored') <= Cardinality(S \cup {k})
      BY <3>4, <3>5, FS_Subset
    <3>7. Cardinality(Stored') \in Nat /\ Cardinality(S \cup {k}) \in Nat
      BY <3>4, <3>6, FS_CardinalityType
    <3> QED
      BY <3>4, <3>6, <3>7, <2>4 DEF KeyLimit
  <2> QED
    BY <2>4, <2>5, <2>6
<1>2. ASSUME NEW K, dictStore' = DelStore(K)
      PROVE  KeyLimit'
  <2>1. Stored' \subseteq Stored
    BY <1>2 DEF Stored, DelStore
  <2> QED
    BY <2>1, FewerKeys
<1>3. ASSUME UNCHANGED dictStore
      PROVE  KeyLimit'
  BY <1>3 DEF KeyLimit, Stored
<1>4. ASSUME NEW k \in Key, cmdSETError(k) \/ cmdGET(k) \/ cmdTTL(k)
      PROVE  KeyLimit'
  BY <1>2, <1>3, <1>4 DEF cmdSETError, cmdGET, cmdTTL
<1>5. CASE cmdINFO \/ StartSweep \/ SweepRound \/ Tick \/ UNCHANGED vars
  BY <1>2, <1>3, <1>5 DEF cmdINFO, StartSweep, SweepRound, Tick, vars
<1> QED
  BY <1>1, <1>4, <1>5 DEF Next

(* With random eviction no sequence of commands stores more keys than      *)
(* config.MaxKeyNumber.                                                    *)
THEOREM DictKeyLimit == ASSUME EvictionPolicy # "allkeys-lru" PROVE Spec => []KeyLimit
<1>1. Init => KeyLimit
  <2> SUFFICES ASSUME Init PROVE KeyLimit
    OBVIOUS
  <2>1. Stored = {}
    BY DEF Init, Stored
  <2>2. Cardinality({}) = 0
    BY FS_EmptySet
  <2> QED
    BY <2>1, <2>2, ConstAssumption DEF KeyLimit
<1>2. IInv /\ KeyLimit /\ [Next]_vars => KeyLimit'
  BY NextKeyLimit
<1> QED
  BY <1>1, <1>2, InitInv, NextInv, PTL DEF Spec
=============================================================================
