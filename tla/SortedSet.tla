----------------------------- MODULE SortedSet -----------------------------
(***************************************************************************)
(* The SortedSet of sorted_set.go: the map MemberScore beside an ordered   *)
(* index, a B+ tree or a skip list as its configuration says.  One         *)
(* goroutine calls the set, so a call is one action.                       *)
(***************************************************************************)
EXTENDS Integers, FiniteSets, Sequences, Functions

CONSTANTS
  Member,        \* positive integers: only their order matters
  Nil,
  MaxLevel,      \* SkiplistMaxLevel, 32 in the code
  IndexConfigs,  \* the configurations: a type and the degree of a B+ tree
  Scores         \* the scores callers give a member, by configuration

IndexType == {"btree", "skiplist"}

ASSUME SortedSetAssumption ==
  /\ Member \subseteq Nat \ {0} /\ IsFiniteSet(Member)
  /\ Nil \notin Int
  /\ MaxLevel \in Nat \ {0}
  /\ IndexConfigs \subseteq [type : IndexType, degree : Int]
  /\ Scores \in [IndexConfigs -> [Member -> SUBSET Int]]

BT == INSTANCE BTree
SL == INSTANCE SkipList

VARIABLES
  config,       \* what the set was made with
  index,        \* ss.Index
  memberScore,  \* ss.MemberScore; Nil for no entry
  ret           \* what the last call returned

vars == <<config, index, memberScore, ret>>
-----------------------------------------------------------------------------
(* OrderedIndex: the methods of the index in use                           *)

(* A degree that is not positive gives the default.                        *)
NewOrderedIndex(c) ==
  IF c.type = "btree"
  THEN BT!NewBTreeIndex(IF c.degree <= 0 THEN 4 ELSE c.degree)
  ELSE SL!NewSkipListIndex

IndexAdd(i, s, m) == IF config.type = "btree" THEN {BT!Add(i, s, m)} ELSE SL!AddResults(i, s, m)

IndexRemove(i, s, m) ==
  IF config.type = "btree" THEN BT!RemoveByScore(i, s, m) ELSE SL!RemoveByScore(i, s, m)

(* GetRank of the set is that of its index; GetScore reads memberScore.    *)
GetRank(m) == IF config.type = "btree" THEN BT!GetRank(BT!Listing(index), m) ELSE SL!GetRank(index, m)
-----------------------------------------------------------------------------
(* The set                                                                 *)

(* Definitions named Faulty... are not part of the specification: each is  *)
(* a definition that follows with one plausible mistake, which the         *)
(* property it is paired with in PROJECT.json must notice.                 *)

(* An update answers what the index answers.                               *)
FaultyAdd(s, m) ==
  LET old == memberScore[m]
      i   == IF old = Nil THEN index ELSE IndexRemove(index, old, m).index
  IN /\ UNCHANGED config
     /\ \E r \in IndexAdd(i, s, m) :
          /\ index' = r.index
          /\ memberScore' = [memberScore EXCEPT ![m] = s]
          /\ ret' = r.ret

(* The result of RemoveByScore is ignored, and so is that of the index's   *)
(* Add when it is an update.                                               *)
Add(s, m) ==
  LET old == memberScore[m]
      i   == IF old = Nil THEN index ELSE IndexRemove(index, old, m).index
  IN /\ UNCHANGED config
     /\ IF old = s THEN ret' = 0 /\ UNCHANGED <<index, memberScore>>
        ELSE \E r \in IndexAdd(i, s, m) :
               /\ index' = r.index
               /\ memberScore' = IF old # Nil \/ r.ret = 1
                                 THEN [memberScore EXCEPT ![m] = s] ELSE memberScore
               /\ ret' = IF old = Nil THEN r.ret ELSE 0

Remove(m) ==
  LET old == memberScore[m]
      r   == IndexRemove(index, old, m)
  IN /\ UNCHANGED config
     /\ IF old = Nil THEN ret' = 0 /\ UNCHANGED <<index, memberScore>>
        ELSE /\ index' = r.index
             /\ memberScore' = [memberScore EXCEPT ![m] = IF r.ret = 1 THEN Nil ELSE @]
             /\ ret' = r.ret

(* Add or Remove with the empty member name.                               *)
EmptyMember == ret' = 0 /\ UNCHANGED <<config, index, memberScore>>

Init ==
  /\ config \in IndexConfigs
  /\ index = NewOrderedIndex(config)
  /\ memberScore = [m \in Member |-> Nil]
  /\ ret = Nil

Next ==
  \/ \E m \in Member : \E s \in Scores[config][m] : Add(s, m)
  \/ \E m \in Member : Remove(m)
  \/ EmptyMember

Spec == Init /\ [][Next]_vars
-----------------------------------------------------------------------------
(* Properties                                                              *)

Score == UNION UNION {{Scores[c][m] : m \in Member} : c \in IndexConfigs}

(* A SortedSet is the map from members to scores of RankedMap, whichever   *)
(* index it has: the index never makes Add or Remove answer differently.   *)
Ranked == INSTANCE RankedMap WITH score <- memberScore
KeepsMap == Ranked!Spec

Members == Ranked!Members

Plain(items) == [i \in DOMAIN items |-> [score |-> items[i].score, member |-> items[i].member]]

(* GetRank, and the other queries of the B+ tree, answer from the leaves   *)
(* what the order of MemberScore says, for every range of scores or ranks. *)
QueriesAgree ==
  LET order == Ranked!InOrder
      list  == BT!Listing(index)
      ends  == -1 .. Len(order) + 1
  IN /\ \A m \in Member : GetRank(m) = Ranked!RankOf(m)
     /\ config.type = "btree" =>
          /\ BT!Count(list) = Len(order)
          /\ \A r \in ends :
               LET x == BT!GetByRank(list, r)
               IN IF x = Nil THEN r \notin 0 .. Len(order) - 1
                  ELSE x.member = order[r + 1].member /\ x.score = order[r + 1].score
          /\ \A lo, hi \in Score :
               Plain(BT!GetRange(list, lo, hi)) =
                 SelectSeq(order, LAMBDA x : x.score \in lo .. hi)
          /\ \A a, b \in ends :
               Plain(BT!GetRangeByRank(list, a, b)) =
                 IF a < 0 THEN <<>>
                 ELSE SelectSeq(order, LAMBDA x : Ranked!RankOf(x.member) \in a .. b)

(* After any splits, borrowings and merges the tree is a B+ tree: parent   *)
(* pointers match children, every leaf is as deep as every other, no node  *)
(* but the root is short and none is too full, each separator divides the  *)
(* scores on its two sides, and Next runs through the leaves in order.     *)
TreeIsSound ==
  config.type = "btree" =>
  LET node  == index.node
      under(c) == {n \in Range(BT!Below(index, c)) : node[n].leaf}
      leaves == SelectSeq(BT!Below(index, index.root), LAMBDA n : node[n].leaf)
      min(c) == IF c = index.root THEN IF index.degree > 2 THEN 1 ELSE 0
                ELSE BT!minItems(index)
  IN /\ \A n \in DOMAIN node :
          LET kids == node[n].children  seps == node[n].items
          IN /\ Len(seps) < index.degree
             /\ node[n].leaf \/ Len(kids) = Len(seps) + 1
             /\ Len(seps) >= min(n) \/ (node[n].leaf /\ n = index.root)
             /\ \A i \in DOMAIN kids :
                  /\ node[kids[i]].parent = n
                  /\ \A k \in under(kids[i]) : \A x \in Range(node[k].items) :
                       /\ i > 1 => x.score >= seps[i - 1].score
                       /\ i < Len(kids) => x.score < seps[i].score
     /\ Cardinality({BT!Depth(index, n) : n \in Range(leaves)}) = 1
     /\ \A i \in DOMAIN leaves :
          node[leaves[i]].next = IF i = Len(leaves) THEN Nil ELSE leaves[i + 1]

(* Members with equal scores rank in the order of their names.             *)
TiesByMember ==
  \A m, n \in Members :
    memberScore[m] = memberScore[n] /\ m < n => GetRank(m) < GetRank(n)

(* The place of a node in the order by score, then by member; the head of  *)
(* the skip list is 0.                                                     *)
Place(n) == IF n = SL!Head THEN 0 ELSE 1 + Ranked!RankOf(n)

(* Every span of every level in use is the distance to the node it points  *)
(* to, or to the end of the list: after any inserts, removals, growing and *)
(* lowering of the level, no span drifts.                                  *)
SpansExact ==
  config.type = "skiplist" =>
  \A i \in 1 .. index.level, n \in Members \cup {SL!Head} :
    LET f == index.forward[i][n]
    IN (n = SL!Head \/ f # Nil \/ \E k \in SL!Node : index.forward[i][k] = n) =>
         index.span[i][n] =
           (IF f = Nil THEN Cardinality(Members) ELSE Place(f)) - Place(n)

(* The bottom list runs through exactly the members of MemberScore, with   *)
(* their scores, in order, and back.                                       *)
ListIsOrdered ==
  config.type = "skiplist" =>
  /\ index.score = memberScore
  /\ index.length = Cardinality(Members)
  /\ \A m \in Members :
       LET b == index.backward[m]
       IN /\ Place(m) = 1 + Place(IF b = Nil THEN SL!Head ELSE b)
          /\ index.forward[1][IF b = Nil THEN SL!Head ELSE b] = m
  /\ IF Members = {} THEN index.tail = Nil
     ELSE index.tail \in Members /\ Place(index.tail) = Cardinality(Members)
=============================================================================
