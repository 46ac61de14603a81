---------------------------- MODULE ExpiringCache ----------------------------
(***************************************************************************)
(* What a Dict promises its callers: a bounded map from keys to values     *)
(* with deadlines.  A value is served until its deadline and never after   *)
(* it; an entry disappears only when its deadline has passed or when a     *)
(* SET finds the map full.  A SET that evicts its own key's old entry      *)
(* stores the value without a deadline.                                    *)
(*                                                                         *)
(* reply is the command answered last: [cmd, key, args, result].           *)
(***************************************************************************)
EXTENDS Integers, FiniteSets

CONSTANTS Key, Nil, MaxKeyNumber, MsPerSec, MaxNow

VARIABLES now, value, deadline, reply

Present == {k \in Key : value[k] # Nil}

Passed(k, t) == k \in Present /\ deadline[k] # Nil /\ deadline[k] <= t

Without(f, K) == [k \in Key |-> IF k \in K THEN Nil ELSE f[k]]

Answer(cmd, k, result) ==
  reply'.cmd = cmd /\ reply'.key = k /\ reply'.result = result

Remove(K) == value' = Without(value, K) /\ deadline' = Without(deadline, K)

(* A positive TTL counts from the instant the SET completes at.            *)
DeadlineFor(ex) == IF ex = Nil THEN Nil ELSE IF ex <= 0 THEN Nil ELSE now' + ex * MsPerSec

Put(k) ==
  /\ Answer("SET", k, "OK")
  /\ \E K \in SUBSET Present :
       /\ K # {} => Cardinality(Present) >= MaxKeyNumber
       /\ value' = [Without(value, K) EXCEPT ![k] = reply'.args[1]]
       /\ deadline' = [Without(deadline, K) EXCEPT
                         ![k] = IF k \in K THEN Nil ELSE DeadlineFor(reply'.args[2])]

Refuse(k) == Answer("SET", k, "ERR") /\ UNCHANGED <<now, value, deadline>>

(* A lookup may remove the entry it finds past its deadline.               *)
Look(k) == \E K \in SUBSET {x \in {k} : Passed(x, now')} : Remove(K)

Fetch(k) ==
  /\ Look(k)
  /\ Answer("GET", k, IF Passed(k, now') THEN Nil ELSE value[k])

Remaining(k) ==
  /\ Look(k)
  /\ Answer("TTL", k, reply'.result)
  /\ CASE k \notin Present \/ Passed(k, now') -> reply'.result = -2
       [] k \in Present /\ deadline[k] = Nil -> reply'.result = -1
       [] OTHER -> \E t \in now .. now' :
                     reply'.result = (deadline[k] - t) \div MsPerSec

(* Of the entries counted as expiring, each is counted as an entry too.    *)
Describe ==
  /\ reply'.cmd = "INFO"
  /\ reply'.result.keys = Cardinality(Present)
  /\ reply'.result.expires \in 0 .. Cardinality(Present)
  /\ UNCHANGED <<value, deadline>>

(* Entries past their deadline may go at any time.                         *)
Expire ==
  /\ \E K \in SUBSET {k \in Key : Passed(k, now')} : Remove(K)
  /\ UNCHANGED reply

Init ==
  /\ now = 0
  /\ value = [k \in Key |-> Nil]
  /\ deadline = [k \in Key |-> Nil]
  /\ reply.cmd = "none"

Next ==
  /\ now' \in now .. MaxNow
  /\ \/ \E k \in Key : Put(k)
     \/ \E k \in Key : Refuse(k)
     \/ \E k \in Key : Fetch(k)
     \/ \E k \in Key : Remaining(k)
     \/ Describe
     \/ Expire

Spec == Init /\ [][Next]_<<now, value, deadline, reply>>
=============================================================================
