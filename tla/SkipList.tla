------------------------------ MODULE SkipList ------------------------------
(***************************************************************************)
(* The SkipListIndex of skiplist_index.go as operators: each takes a list  *)
(* and returns the list the method leaves.  SortedSet never holds a member *)
(* twice in the index, so a node is named by its member; Head is the head  *)
(* node.  Levels count from one (from zero in the code).                   *)
(*                                                                         *)
(* A list is one record:                                                   *)
(*   level, length, tail   as in SkipListIndex                             *)
(*   score[m]              the score of the node of m, Nil if there is no  *)
(*                         node                                            *)
(*   forward[i][n], span[i][n], backward[n]   as in SkiplistNode           *)
(***************************************************************************)
EXTENDS Integers, FiniteSets

CONSTANTS
  Member,    \* positive integers: only their order matters
  Nil,
  MaxLevel   \* SkiplistMaxLevel, 32 in the code

Level == 1 .. MaxLevel
Head  == 0
Node  == Member \cup {Head}

NewSkipListIndex ==
  [level    |-> 1, length |-> 0, tail |-> Nil,
   score    |-> [m \in Member |-> Nil],
   forward  |-> [i \in Level |-> [n \in Node |-> Nil]],
   span     |-> [i \in Level |-> [n \in Node |-> 0]],
   backward |-> [m \in Member |-> Nil]]
-----------------------------------------------------------------------------
(* Searching                                                               *)

(* Definitions named Faulty... are not part of the specification: each is  *)
(* a definition that follows with one plausible mistake, which the         *)
(* property it is paired with in PROJECT.json must notice.                 *)

Before(l, n, s, m) == l.score[n] < s \/ (l.score[n] = s /\ n < m)

(* The inner loop of a search at level i, from node x with rank r.         *)
RECURSIVE Walk(_, _, _, _, _, _)
Walk(l, i, x, r, s, m) ==
  LET n == l.forward[i][x]
  IN IF n # Nil /\ Before(l, n, s, m)
     THEN Walk(l, i, n, r + l.span[i][x], s, m)
     ELSE [node |-> x, rank |-> r]

(* update[i] and rank[i] of a search for (s, m); above l.level they are    *)
(* what insert makes them.                                                 *)
Search(l, s, m) ==
  LET p[i \in Level] == IF i > l.level THEN [node |-> Head, rank |-> 0]
                        ELSE IF i = l.level THEN Walk(l, i, Head, 0, s, m)
                        ELSE Walk(l, i, p[i + 1].node, p[i + 1].rank, s, m)
  IN p

RECURSIVE findMember(_, _, _)
findMember(l, x, m) ==
  LET n == l.forward[1][x]
  IN n # Nil /\ (n = m \/ findMember(l, n, m))

(* The levels from i down, from node x with rank r; the walk at a level    *)
(* goes up to the member itself (n <= m is n < m + 1).                     *)
RECURSIVE getRankByScoreAndMember(_, _, _, _, _, _)
getRankByScoreAndMember(l, i, x, r, s, m) ==
  IF i = 0 THEN 0
  ELSE LET w == Walk(l, i, x, r, s, m + 1)
       IN IF w.node = m THEN w.rank
          ELSE getRankByScoreAndMember(l, i - 1, w.node, w.rank, s, m)

(* The rank counted from one.                                              *)
FaultyGetRankFromOne(l, m) ==
  IF findMember(l, Head, m)
  THEN getRankByScoreAndMember(l, l.level, Head, 0, l.score[m], m) ELSE -1

GetRank(l, m) ==
  LET r == IF findMember(l, Head, m)
           THEN getRankByScoreAndMember(l, l.level, Head, 0, l.score[m], m) ELSE 0
  IN IF r > 0 THEN r - 1 ELSE -1
-----------------------------------------------------------------------------
(* Updating                                                                *)

(* The levels above the new node keep their spans.                         *)
FaultyInsertSpan(l, p, m, height, i) ==
  LET gap == p[1].rank - p[i].rank
      old == IF i > l.level THEN l.length ELSE l.span[i][p[i].node]
  IN IF i <= height THEN [l.span[i] EXCEPT ![m] = old - gap, ![p[i].node] = gap + 1]
     ELSE l.span[i]

(* The spans of level i after insert: the new node and its predecessor     *)
(* split the old span; above the new node a span grows by one.             *)
InsertSpan(l, p, m, height, i) ==
  LET gap == p[1].rank - p[i].rank
      old == IF i > l.level THEN l.length ELSE l.span[i][p[i].node]
  IN IF i <= height THEN [l.span[i] EXCEPT ![m] = old - gap, ![p[i].node] = gap + 1]
     ELSE IF i <= l.level THEN [l.span[i] EXCEPT ![p[i].node] = @ + 1]
     ELSE l.span[i]

(* The node behind the new one keeps its pointer.                          *)
FaultyInsertBackward(l, m, prev, after) ==
  [l.backward EXCEPT ![m] = IF prev = Head THEN Nil ELSE prev]

InsertBackward(l, m, prev, after) ==
  [n \in Member |-> IF n = m THEN IF prev = Head THEN Nil ELSE prev
                    ELSE IF n = after THEN m ELSE l.backward[n]]

(* insert a node of the height randomLevel chose.                          *)
insert(l, s, m, height) ==
  LET p     == Search(l, s, m)
      prev  == p[1].node
      after == l.forward[1][prev]
  IN [level    |-> IF height > l.level THEN height ELSE l.level,
      length   |-> l.length + 1,
      tail     |-> IF after = Nil THEN m ELSE l.tail,
      score    |-> [l.score EXCEPT ![m] = s],
      forward  |-> [i \in Level |-> IF i > height THEN l.forward[i]
                      ELSE [l.forward[i] EXCEPT ![m] = l.forward[i][p[i].node],
                                                ![p[i].node] = m]],
      span     |-> [i \in Level |-> InsertSpan(l, p, m, height, i)],
      backward |-> InsertBackward(l, m, prev, after)]

(* The loop that lowers sl.level.                                          *)
RECURSIVE Lowered(_, _)
Lowered(f, i) == IF i > 1 /\ f[i][Head] = Nil THEN Lowered(f, i - 1) ELSE i

(* deleteNode of the node x, found by the search p.                        *)
deleteNode(l, x, p) ==
  LET linked(i) == l.forward[i][p[i].node] = x
      after     == l.forward[1][x]
      f == [i \in Level |->
              IF i <= l.level /\ linked(i)
              THEN [l.forward[i] EXCEPT ![p[i].node] = l.forward[i][x], ![x] = Nil]
              ELSE l.forward[i]]
      d == [i \in Level |->
              IF i > l.level THEN l.span[i]
              ELSE IF linked(i) THEN [l.span[i] EXCEPT ![p[i].node] = @ + l.span[i][x] - 1,
                                                       ![x] = 0]
              ELSE [l.span[i] EXCEPT ![p[i].node] = @ - 1]]
  IN [level    |-> Lowered(f, l.level),
      length   |-> l.length - 1,
      tail     |-> IF after = Nil THEN l.backward[x] ELSE l.tail,
      score    |-> [l.score EXCEPT ![x] = Nil],
      forward  |-> f,
      span     |-> d,
      backward |-> [n \in Member |-> IF n = x THEN Nil
                                     ELSE IF n = after THEN l.backward[x] ELSE l.backward[n]]]

(* RemoveByScore: the index left and what it returns.                      *)
RemoveByScore(l, s, m) ==
  LET p == Search(l, s, m)
      x == l.forward[1][p[1].node]
  IN IF x = m /\ l.score[m] = s THEN [index |-> deleteNode(l, x, p), ret |-> 1]
     ELSE [index |-> l, ret |-> 0]

(* Add, for any height randomLevel may choose.                             *)
AddResults(l, s, m) == {[index |-> insert(l, s, m, height), ret |-> 1] : height \in Level}
=============================================================================
