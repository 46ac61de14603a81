---------------------------- MODULE MCSortedSet ----------------------------
(* SortedSet for TLC: a few members and scores, small degrees and levels.  *)
EXTENDS SortedSet

Tree(d)  == [type |-> "btree", degree |-> d]
SkipList == [type |-> "skiplist", degree |-> 16]

(* Degree 0 gives the default, 4; six members over degree 3 need three     *)
(* levels, and borrow and merge internal nodes.                            *)
AllConfigs == {Tree(d) : d \in {0, 2, 3, 5}} \cup {SkipList}

(* The scores of two members differ in a tree and may tie in a skip list.  *)
ApartScores ==
  [c \in IndexConfigs |-> [m \in Member |->
     CASE c = SkipList -> IF m <= 3 THEN {0, 1} ELSE {}
       [] c = Tree(0)  -> IF m <= 5 THEN {2 * m} \cup (IF m \in {2, 3} THEN {2 * m + 5} ELSE {}) ELSE {}
       [] c = Tree(2)  -> IF m <= 4 THEN {m} ELSE {}
       [] OTHER        -> {m}]]

DefaultTree == {Tree(4)}

(* Every member may have the same score.                                   *)
TiedScores == [c \in IndexConfigs |-> [m \in Member |-> {0}]]
=============================================================================
