---------------------------- MODULE LruEviction ----------------------------
(***************************************************************************)
(* Approximated LRU eviction (internal/data_structure/hash_table/          *)
(* eviction_lru.go): a Dict, seen as the last access time of every stored  *)
(* key, and the pool of candidates, ePool, which outlives an eviction.     *)
(*                                                                         *)
(* A SET on a full Dict runs populateEpool, then pops and deletes, then    *)
(* stores; each Push and each Pop is a step.  The pool is kept sorted by   *)
(* an unstable sort, so it is a function from key to the recorded time,    *)
(* and which of several oldest (newest) entries comes first (last) is a    *)
(* choice.  The pool is one package-level variable; this module is about   *)
(* the case that one Dict uses it.                                         *)
(***************************************************************************)
EXTENDS Integers, FiniteSets

CONSTANTS
  Key, Nil,
  MaxKeyNumber,        \* config.MaxKeyNumber
  EvictCount,          \* int64(config.EvictionRatio * float64(config.MaxKeyNumber))
  EpoolMaxSize,        \* config.EpoolMaxSize
  EpoolLRUSampleSize,  \* config.EpoolLRUSampleSize
  MaxClock             \* bound: the clock stops there

ASSUME LruAssumption ==
  /\ IsFiniteSet(Key)
  /\ Nil \notin Nat \cup Key
  /\ MaxKeyNumber \in Nat \ {0}
  /\ EvictCount \in Int
  /\ EpoolMaxSize \in Nat
  /\ EpoolLRUSampleSize \in Int
  /\ MaxClock \in Nat

VARIABLES
  clock,      \* uint32(time.Now().Unix())
  lastAccess, \* lastAccess[k]: obj.LastAccessTime of a stored key, or Nil
  ePool,      \* ePool[k]: the time recorded for k in the pool, or Nil
  at,         \* "idle", or where in Set the goroutine is
  setting,    \* the key of the Set in progress, and its obj's time
  todo,       \* keys the range loop of populateEpool has not visited
  left        \* the countdown of the loop in progress

vars == <<clock, lastAccess, ePool, at, setting, todo, left>>

Stored    == {k \in Key : lastAccess[k] # Nil}
Pooled(p) == {k \in Key : p[k] # Nil}

Oldest(p) == {k \in Pooled(p) : \A j \in Pooled(p) : p[k] <= p[j]}
Newest(p) == {k \in Pooled(p) : \A j \in Pooled(p) : p[k] >= p[j]}
-----------------------------------------------------------------------------
(* Definitions named Faulty... are not part of the specification: each is  *)
(* the next definition with one plausible mistake, which the property it   *)
(* is paired with in PROJECT.json must notice.                             *)

(* Push that never trims the pool.                                         *)
FaultyPushNoTrim(k, t) == {[ePool EXCEPT ![k] = t]}

(* The pools Push(key, lastAccessTime) may leave.                          *)
Push(k, t) ==
  LET p == [ePool EXCEPT ![k] = t]
  IN IF Cardinality(Pooled(p)) > EpoolMaxSize
     THEN {[p EXCEPT ![j] = Nil] : j \in Newest(p)}
     ELSE {p}

(* Set stores an object without a time.                                    *)
FaultySetFitsUnstamped(k) ==
  /\ at = "idle"
  /\ Cardinality(Stored) < MaxKeyNumber
  /\ lastAccess' = [lastAccess EXCEPT ![k] = 0]
  /\ UNCHANGED <<clock, ePool, at, setting, todo, left>>

(* SET k: NewObj stamps the object, Set stores it at once or evicts first. *)
SetFits(k) ==
  /\ at = "idle"
  /\ Cardinality(Stored) < MaxKeyNumber
  /\ lastAccess' = [lastAccess EXCEPT ![k] = clock]
  /\ UNCHANGED <<clock, ePool, at, setting, todo, left>>

SetFull(k) ==
  /\ at = "idle"
  /\ Cardinality(Stored) >= MaxKeyNumber
  /\ at' = "populate"
  /\ setting' = <<k, clock>>
  /\ todo' = Stored
  /\ left' = EpoolLRUSampleSize
  /\ UNCHANGED <<clock, lastAccess, ePool>>

(* One turn of populateEpool's loop; the last one enters the pop loop.     *)
populateEpool ==
  /\ at = "populate"
  /\ \E k \in todo :
       /\ ePool' \in Push(k, lastAccess[k])
       /\ IF left = 1 \/ todo = {k}
          THEN at' = "pop" /\ left' = EvictCount /\ todo' = {}
          ELSE left' = left - 1 /\ todo' = todo \ {k} /\ UNCHANGED at
  /\ UNCHANGED <<clock, lastAccess, setting>>

(* Pop an oldest candidate and Del it: one that is gone deletes nothing.   *)
Pop ==
  /\ at = "pop" /\ left >= 1
  /\ \E k \in Oldest(ePool) :
       /\ ePool' = [ePool EXCEPT ![k] = Nil]
       /\ lastAccess' = [lastAccess EXCEPT ![k] = Nil]
  /\ left' = left - 1
  /\ UNCHANGED <<clock, at, setting, todo>>

(* The pop loop is over: Set stores the object made before the eviction.   *)
Store ==
  /\ at = "pop"
  /\ left < 1 \/ Pooled(ePool) = {}
  /\ lastAccess' = [lastAccess EXCEPT ![setting[1]] = setting[2]]
  /\ at' = "idle" /\ setting' = Nil /\ left' = 0
  /\ UNCHANGED <<clock, ePool, todo>>

(* GET k of a stored key.                                                  *)
Get(k) ==
  /\ at = "idle"
  /\ k \in Stored
  /\ lastAccess' = [lastAccess EXCEPT ![k] = clock]
  /\ UNCHANGED <<clock, ePool, at, setting, todo, left>>

(* GET k of a key past its TTL (Dict models the TTL).                      *)
GetExpired(k) ==
  /\ at = "idle"
  /\ k \in Stored
  /\ lastAccess' = [lastAccess EXCEPT ![k] = Nil]
  /\ UNCHANGED <<clock, ePool, at, setting, todo, left>>

Tick ==
  /\ clock < MaxClock
  /\ clock' = clock + 1
  /\ UNCHANGED <<lastAccess, ePool, at, setting, todo, left>>
-----------------------------------------------------------------------------
Init ==
  /\ clock = 0
  /\ lastAccess = [k \in Key |-> Nil]
  /\ ePool = [k \in Key |-> Nil]
  /\ at = "idle" /\ setting = Nil /\ todo = {} /\ left = 0

Next ==
  \/ Tick
  \/ \E k \in Key : SetFits(k) \/ SetFull(k) \/ Get(k) \/ GetExpired(k)
  \/ populateEpool \/ Pop \/ Store

Spec == Init /\ [][Next]_vars
-----------------------------------------------------------------------------
(* Properties                                                              *)

(* Types, and the size of the pool.                                        *)
TypeOK ==
  /\ clock \in 0 .. MaxClock
  /\ lastAccess \in [Key -> Nat \cup {Nil}]
  /\ ePool \in [Key -> Nat \cup {Nil}] /\ Cardinality(Pooled(ePool)) <= EpoolMaxSize
  /\ at \in {"idle", "populate", "pop"}
  /\ setting \in (Key \X Nat) \cup {Nil}
  /\ todo \in SUBSET Key
  /\ left \in Int

(* A pooled key that is still stored was last used no earlier than the     *)
(* pool says: a stale candidate can only look older than it is, never      *)
(* younger.                                                                *)
PoolNotNewer == \A k \in Pooled(ePool) : lastAccess[k] # Nil => ePool[k] <= lastAccess[k]

(* Set leaves the Dict with no more than config.MaxKeyNumber keys, also    *)
(* when candidates in the pool are no longer stored.                       *)
KeyLimit == Cardinality(Stored) <= MaxKeyNumber
=============================================================================
