-------------------------------- MODULE Dict --------------------------------
(***************************************************************************)
(* The key space of one Dict (internal/data_structure/hash_table/dict.go)  *)
(* under the commands of the single-threaded executor                      *)
(* (internal/core/executor.go) and the active expiry sweep                 *)
(* (internal/core/expire.go).                                              *)
(*                                                                         *)
(* Go maps are functions over Key whose absent entries are Nil.  One       *)
(* goroutine runs every operation, so a command is one action; but a       *)
(* command reads the wall clock several times, and the clock may advance   *)
(* between two reads, so each action chooses a time for each read.  The    *)
(* sweep loops, so one round of it is one action and the other commands    *)
(* wait (sweeping).  Access times only matter to LRU eviction and live in  *)
(* LruEviction.                                                            *)
(***************************************************************************)
EXTENDS Integers, FiniteSets

CONSTANTS
  Key, Value,
  Nil,               \* an absent map entry, and the nil bulk string
  TtlSec,            \* the numbers a client gives after EX
  MaxKeyNumber,      \* config.MaxKeyNumber
  EvictCount,        \* int64(config.EvictionRatio * float64(config.MaxKeyNumber))
  EvictionPolicy,    \* config.EvictionPolicy
  SampleSize,        \* constant.ActiveExpireSampleSize
  ThresholdPercent,  \* 100 * constant.ActiveExpireThreshold
  MsPerSec,          \* 1000 in the code
  TwoTo63,           \* half the range of a 64-bit word; small to reach its edge
  MaxNow             \* bound: the clock stops there

ASSUME ConstAssumption ==
  /\ IsFiniteSet(Key)
  /\ Nil \notin Value \cup Int
  /\ TtlSec \subseteq Int
  /\ MaxKeyNumber \in Nat \ {0}
  /\ EvictCount \in Int
  /\ SampleSize \in Nat
  /\ ThresholdPercent \in Nat
  /\ MsPerSec \in Nat \ {0}
  /\ TwoTo63 \in Nat \ {0}
  /\ MaxNow \in Nat

VARIABLES
  now,               \* time.Now().UnixMilli()
  dictStore,         \* d.dictStore
  expiredDictStore,  \* d.expiredDictStore
  sweeping,          \* TRUE while ActiveDeleteExpiredKeys is in its loop
  reply              \* the command answered last, its arguments, the answer

vars == <<now, dictStore, expiredDictStore, sweeping, reply>>

Reply(cmd, key, args, result) ==
  [cmd |-> cmd, key |-> key, args |-> args, result |-> result]

Times(t) == t .. MaxNow

ToUint64(x) == x % (2 * TwoTo63)
ToInt64(x)  == ((x + TwoTo63) % (2 * TwoTo63)) - TwoTo63

Lesser(a, b) == IF a < b THEN a ELSE b
-----------------------------------------------------------------------------
(* Helpers of dict.go                                                      *)

Stored  == {k \in Key : dictStore[k] # Nil}
Timed   == {k \in Key : expiredDictStore[k] # Nil}

HasExpired(k, t) == k \in Timed /\ expiredDictStore[k] <= t

(* Definitions named Faulty... are not part of the specification: each is  *)
(* a definition that follows with one plausible mistake, which the         *)
(* property it is paired with in PROJECT.json must notice.                 *)

(* Del that forgets the TTL entry.                                         *)
FaultyDelKeepsTtl(K, e) == e

(* Del on each key of K: a key without a value keeps its TTL entry.        *)
DelStore(K)     == [k \in Key |-> IF k \in K THEN Nil ELSE dictStore[k]]
DelExpiry(K, e) == [k \in Key |-> IF k \in K \cap Stored THEN Nil ELSE e[k]]

(* NewObj without the test ttlMs > 0 and the conversion; without Persist.  *)
FaultyNewObjNoTest(k, ttlMs, t) == [expiredDictStore EXCEPT ![k] = t + ttlMs]
FaultyNewObjNoPersist(k, ttlMs, t) ==
  [expiredDictStore EXCEPT ![k] = IF ttlMs > 0 THEN ToUint64(t + ttlMs) ELSE @]

(* The TTL entries after NewObj: SetExpiry, or Persist without a TTL.      *)
NewObjExpiry(k, ttlMs, t) ==
  [expiredDictStore EXCEPT ![k] = IF ttlMs > 0 THEN ToUint64(t + ttlMs) ELSE Nil]

(* The sets of keys evictRandom may delete.  Its countdown stops at zero   *)
(* exactly, so one that starts below one never stops it.                   *)
evictRandom ==
  LET n == Cardinality(Stored)
  IN {K \in SUBSET Stored :
        Cardinality(K) = IF EvictCount >= 1 THEN Lesser(EvictCount, n) ELSE n}

(* The sets of keys evictLru may call Del on: what the pool holds is       *)
(* LruEviction's matter, and may be keys that are gone.                    *)
evictLru ==
  {K \in SUBSET Key : Cardinality(K) <= IF EvictCount >= 1 THEN EvictCount ELSE 0}

evict == IF EvictionPolicy = "allkeys-lru" THEN evictLru ELSE evictRandom

(* Set that evicts one key too late.                                       *)
FaultySetEvictsLate == IF Cardinality(Stored) > MaxKeyNumber THEN evict ELSE {{}}

(* What Set(k, obj) evicts before it stores.                               *)
SetVictims == IF Cardinality(Stored) >= MaxKeyNumber THEN evict ELSE {{}}

(* The values and the TTL entries after NewObj left the TTL entries e, the *)
(* eviction deleted K, and Set stored v.                                   *)
StoreAfterSet(k, v, K)  == [DelStore(K) EXCEPT ![k] = v]
ExpiryAfterSet(k, e, K) == DelExpiry(K, e)

(* Get(k) at time t: the passive expiry of a stored key.                   *)
GetGone(k, t) == {x \in {k} : k \in Stored /\ HasExpired(k, t)}
-----------------------------------------------------------------------------
(* Commands of executor.go                                                 *)

TtlMs(ex) == IF ex = Nil THEN -1 ELSE ToInt64(ex * MsPerSec)

cmdSET(k, v, ex) ==
  /\ ~sweeping
  /\ \E t \in Times(now), K \in SetVictims :
       /\ now' = t
       /\ dictStore' = StoreAfterSet(k, v, K)
       /\ expiredDictStore' = ExpiryAfterSet(k, NewObjExpiry(k, TtlMs(ex), t), K)
  /\ reply' = Reply("SET", k, <<v, ex>>, "OK")
  /\ UNCHANGED sweeping

(* Wrong arity, an option other than EX, or a TTL that is no integer.      *)
cmdSETError(k) ==
  /\ ~sweeping
  /\ reply' = Reply("SET", k, <<>>, "ERR")
  /\ UNCHANGED <<now, dictStore, expiredDictStore, sweeping>>

(* Get tests the expiry and may delete; cmdGET tests it again and does not *)
(* delete.                                                                 *)
cmdGET(k) ==
  /\ ~sweeping
  /\ \E t1 \in Times(now) : \E t2 \in Times(t1) :
       LET gone == GetGone(k, t1)
       IN /\ now' = t2
          /\ dictStore' = DelStore(gone)
          /\ expiredDictStore' = DelExpiry(gone, expiredDictStore)
          /\ reply' = Reply("GET", k, <<>>,
                        IF k \in gone \/ HasExpired(k, t2) THEN Nil ELSE dictStore[k])
  /\ UNCHANGED sweeping

(* The expiry is tested before the clock read of the difference.           *)
FaultyTtlTestsFirst(k, t2, t3) ==
  IF k \notin Timed THEN -1
  ELSE IF HasExpired(k, t2) THEN -2
  ELSE ToUint64(expiredDictStore[k] - t3) \div MsPerSec

(* The remaining time is an unsigned difference taken at t2, before the    *)
(* expiry is tested again at t3.                                           *)
TtlResult(k, t2, t3) ==
  IF k \notin Timed THEN -1
  ELSE IF HasExpired(k, t3) THEN -2
  ELSE ToUint64(expiredDictStore[k] - t2) \div MsPerSec

cmdTTL(k) ==
  /\ ~sweeping
  /\ \E t1 \in Times(now) : \E t2 \in Times(t1) : \E t3 \in Times(t2) :
       LET gone == GetGone(k, t1)
       IN /\ now' = t3
          /\ dictStore' = DelStore(gone)
          /\ expiredDictStore' = DelExpiry(gone, expiredDictStore)
          /\ reply' = Reply("TTL", k, <<>>,
                        IF k \in Stored \ gone THEN TtlResult(k, t2, t3) ELSE -2)
  /\ UNCHANGED sweeping

ExpiringKeysCount(t) == Cardinality({k \in Timed : expiredDictStore[k] > t})

(* INFO keyspace; the average TTL it also prints is left out.              *)
cmdINFO ==
  /\ ~sweeping
  /\ \E t \in Times(now) :
       /\ now' = t
       /\ reply' = Reply("INFO", Nil, <<>>, [keys    |-> Cardinality(Stored),
                                             expires |-> ExpiringKeysCount(t)])
  /\ UNCHANGED <<dictStore, expiredDictStore, sweeping>>
-----------------------------------------------------------------------------
(* ActiveDeleteExpiredKeys                                                 *)

StartSweep ==
  /\ ~sweeping
  /\ sweeping' = TRUE
  /\ UNCHANGED <<now, dictStore, expiredDictStore, reply>>

(* Seconds taken for milliseconds.                                         *)
FaultySweepUnit(k, t) == t * MsPerSec > ToInt64(expiredDictStore[k])

SweepExpired(k, t) == t > ToInt64(expiredDictStore[k])

Samples == {S \in SUBSET Timed : Cardinality(S) = Lesser(SampleSize, Cardinality(Timed))}

SweepAgain(D) == 100 * Cardinality(D) > ThresholdPercent * SampleSize

(* One round over the sample S, read between now and t.  D are the keys    *)
(* found expired: Del is called on each and each is counted, whether Del   *)
(* found the key or not.                                                   *)
SweepRound ==
  /\ sweeping
  /\ \E t \in Times(now), S \in Samples : \E D \in SUBSET S :
       /\ \A k \in S : SweepExpired(k, now) => k \in D
       /\ \A k \in D : SweepExpired(k, t)
       /\ now' = t
       /\ dictStore' = DelStore(D)
       /\ expiredDictStore' = DelExpiry(D, expiredDictStore)
       /\ sweeping' = SweepAgain(D)
  /\ UNCHANGED reply
-----------------------------------------------------------------------------
Tick ==
  /\ ~sweeping
  /\ now < MaxNow
  /\ now' = now + 1
  /\ UNCHANGED <<dictStore, expiredDictStore, sweeping, reply>>

Init ==
  /\ now = 0
  /\ dictStore = [k \in Key |-> Nil]
  /\ expiredDictStore = [k \in Key |-> Nil]
  /\ sweeping = FALSE
  /\ reply = Reply("none", Nil, <<>>, Nil)

Next ==
  \/ \E k \in Key, v \in Value, ex \in TtlSec \cup {Nil} : cmdSET(k, v, ex)
  \/ \E k \in Key : cmdSETError(k)
  \/ \E k \in Key : cmdGET(k)
  \/ \E k \in Key : cmdTTL(k)
  \/ cmdINFO
  \/ StartSweep
  \/ SweepRound
  \/ Tick

(* The sweep is a plain loop of the only goroutine: it keeps running.      *)
Spec == Init /\ [][Next]_vars /\ WF_vars(SweepRound)
-----------------------------------------------------------------------------
(* Properties                                                              *)

TypeOK ==
  /\ now \in 0 .. MaxNow
  /\ dictStore \in [Key -> Value \cup {Nil}]
  /\ expiredDictStore \in [Key -> Nat \cup {Nil}]
  /\ sweeping \in BOOLEAN

(* Every TTL entry belongs to a stored key, between any two commands.  Del *)
(* ignores a key without a value, so an entry left behind by any sequence  *)
(* of NewObj, evict, Set, Get and sweep would never be removed again, and  *)
(* ActiveDeleteExpiredKeys would count it as expired forever.              *)
NoOrphanTtl == Timed \subseteq Stored

(* Set never leaves more than config.MaxKeyNumber keys (random eviction).  *)
KeyLimit == Cardinality(Stored) <= MaxKeyNumber

(* TTL never answers more than the longest TTL ever given, whatever the    *)
(* clock does between its three reads: the unsigned subtraction of cmdTTL  *)
(* does not wrap.                                                          *)
TtlInRange ==
  reply.cmd = "TTL" => \/ reply.result \in {-2, -1}
                       \/ \E ex \in TtlSec : reply.result \in 0 .. ex

(* Active expiry deletes only what passive expiry would: SweepRound's      *)
(* signed test and HasExpired's unsigned one agree on every key it takes.  *)
SweepTakesOnlyExpired ==
  [][sweeping => \A k \in Stored : k \notin Stored' => HasExpired(k, now')]_vars

(* A SET with a positive EX leaves its key with an expiry, as              *)
(* TestDictGetExpiry expects of NewObj followed by Set.                    *)
SetKeepsTtl ==
  [][\A k \in Key, v \in Value, ex \in TtlSec :
       ex > 0 /\ cmdSET(k, v, ex) => k \in Timed']_vars

(* Every sweep ends: a repeated round has removed keys.                    *)
SweepEnds == sweeping ~> ~sweeping

(* A Dict keeps the promise of ExpiringCache.                              *)
Cache == INSTANCE ExpiringCache WITH value <- dictStore, deadline <- expiredDictStore
KeepsPromise == Cache!Spec
=============================================================================
