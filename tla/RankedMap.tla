----------------------------- MODULE RankedMap -----------------------------
(***************************************************************************)
(* What a sorted set promises: a map from members to scores that knows the *)
(* position of each member in the order by score, then by member.  ret is  *)
(* what the last call returned.                                            *)
(***************************************************************************)
EXTENDS Integers, FiniteSets

CONSTANTS
  Member,  \* integers: only their order matters
  Score,
  Nil

VARIABLES score, ret

Members == {m \in Member : score[m] # Nil}

Precedes(n, m) == score[n] < score[m] \/ (score[n] = score[m] /\ n < m)

(* The rank GetRank must answer, -1 for no member.                         *)
RankOf(m) ==
  IF m \in Members THEN Cardinality({n \in Members : Precedes(n, m)}) ELSE -1

(* The members with their scores, in order.                                *)
InOrder ==
  [i \in 1 .. Cardinality(Members) |->
     LET m == CHOOSE n \in Members : RankOf(n) = i - 1
     IN [score |-> score[m], member |-> m]]

AddMember(m, s) ==
  /\ score' = [score EXCEPT ![m] = s]
  /\ ret' = IF m \in Members THEN 0 ELSE 1

RemoveMember(m) ==
  /\ score' = [score EXCEPT ![m] = Nil]
  /\ ret' = IF m \in Members THEN 1 ELSE 0

(* A call with the empty member name.                                      *)
Refuse == ret' = 0 /\ UNCHANGED score

Init == score = [m \in Member |-> Nil] /\ ret = Nil

Next ==
  \/ \E m \in Member, s \in Score : AddMember(m, s)
  \/ \E m \in Member : RemoveMember(m)
  \/ Refuse

Spec == Init /\ [][Next]_<<score, ret>>
=============================================================================
