------------------------------- MODULE BTree -------------------------------
(***************************************************************************)
(* The BTreeIndex of btree_index.go as operators: each takes a tree and    *)
(* returns the tree the method leaves.                                     *)
(*                                                                         *)
(* A tree is a record: root, degree, and node, the heap of its nodes.  A   *)
(* node has the fields of BTreeNode; its name is its address, and a node   *)
(* no longer reachable is dropped.  Children and items count from one      *)
(* (from zero in the code).                                                *)
(*                                                                         *)
(* The code shares Item pointers between leaves and separators, and Add    *)
(* may write through one.  copy tells apart the Item objects of a member:  *)
(* equal items are the same object.                                        *)
(***************************************************************************)
EXTENDS Integers, SequencesExt

CONSTANT Nil

NewBTreeIndex(degree) ==
  [root   |-> 1,
   degree |-> degree,
   node   |-> 1 :> [leaf |-> TRUE, items |-> <<>>, children |-> <<>>,
                    parent |-> Nil, next |-> Nil]]
-----------------------------------------------------------------------------
(* The heap                                                                *)

NewNode(t) == Min((1 .. Cardinality(DOMAIN t.node) + 1) \ DOMAIN t.node)

ItemsOf(t) == UNION {ToSet(t.node[n].items) : n \in DOMAIN t.node}

(* &Item{...}: an object the tree does not hold yet.                       *)
NewItem(t, s, m) ==
  LET used == {x.copy : x \in {y \in ItemsOf(t) : y.member = m}}
  IN [score |-> s, member |-> m, copy |-> Min((0 .. Cardinality(used)) \ used)]

(* item.Score = s, seen wherever the object is referred to.                *)
Rescored(t, item, s) ==
  [t EXCEPT !.node = [n \in DOMAIN t.node |->
     [t.node[n] EXCEPT !.items =
        [i \in DOMAIN @ |-> IF @[i] = item THEN [item EXCEPT !.score = s] ELSE @[i]]]]]

(* child.Parent = p for the children in the set.                           *)
Adopted(t, children, p) ==
  [t EXCEPT !.node = [n \in DOMAIN t.node |->
     IF n \in children THEN [t.node[n] EXCEPT !.parent = p] ELSE t.node[n]]]

(* The nodes below n, n first.                                             *)
RECURSIVE Below(_, _)
Below(t, n) == <<n>> \o FlattenSeq([i \in DOMAIN t.node[n].children |-> Below(t, t.node[n].children[i])])

RECURSIVE Depth(_, _)
Depth(t, n) == IF n = t.root THEN 0 ELSE 1 + Depth(t, t.node[n].parent)

(* The tree with its nodes named by their place, so that equal trees are   *)
(* equal values; what the root does not reach is gone.                     *)
Tidy(t) ==
  LET order   == Below(t, t.root)
      name(n) == IF n = Nil THEN Nil ELSE SelectInSeq(order, LAMBDA x : x = n)
  IN [t EXCEPT !.root = 1, !.node = [i \in DOMAIN order |->
        LET nd == t.node[order[i]]
        IN [nd EXCEPT !.children = [j \in DOMAIN @ |-> name(@[j])],
                      !.parent = name(@), !.next = name(@)]]]

(* The first position that passes, or the one past the end.                *)
FirstOrEnd(seq, Test(_)) ==
  LET i == SelectInSeq(seq, Test) IN IF i = 0 THEN Len(seq) + 1 ELSE i

(* CompareTo of item.go, for x before y.                                   *)
Less(x, y) == x.score < y.score \/ (x.score = y.score /\ x.member < y.member)

findChildIndex(t, parent, child) ==
  SelectInSeq(t.node[parent].children, LAMBDA c : c = child)
-----------------------------------------------------------------------------
(* Adding                                                                  *)

(* The child a search for s goes to: past every separator s is not below.  *)
NextChild(nd, s) == nd.children[FirstOrEnd(nd.items, LAMBDA x : s < x.score)]

RECURSIVE LeafFor(_, _, _)
LeafFor(t, n, s) ==
  IF t.node[n].leaf THEN n ELSE LeafFor(t, NextChild(t.node[n], s), s)

RECURSIVE splitNode(_, _)

(* The end of a split of node n: its new right neighbour and the separator *)
(* go into the parent, which may split in turn.                            *)
Promote(t, n, right, separator) ==
  LET p == t.node[n].parent
      i == findChildIndex(t, p, n)
      u == [t EXCEPT !.node[p].items    = InsertAt(@, i, separator),
                     !.node[p].children = InsertAt(@, i + 1, right)]
  IN IF Len(u.node[p].items) > u.degree - 1 THEN splitNode(u, p) ELSE u

splitLeaf(t, n) ==
  LET items  == t.node[n].items
      median == Len(items) \div 2
      right  == NewNode(t)
      u == [t EXCEPT !.node[n].items = SubSeq(items, 1, median), !.node[n].next = right]
      v == [u EXCEPT !.node = @ @@
              right :> [t.node[n] EXCEPT !.items = SubSeq(items, median + 1, Len(items))]]
  IN Promote(v, n, right, items[median + 1])

splitInternal(t, n) ==
  LET items    == t.node[n].items
      children == t.node[n].children
      median   == Len(items) \div 2
      right    == NewNode(t)
      moved    == SubSeq(children, median + 2, Len(children))
      u == [t EXCEPT !.node[n].items    = SubSeq(items, 1, median),
                     !.node[n].children = SubSeq(children, 1, median + 1)]
      v == [u EXCEPT !.node = @ @@
              right :> [t.node[n] EXCEPT !.items    = SubSeq(items, median + 2, Len(items)),
                                         !.children = moved]]
  IN Promote(Adopted(v, ToSet(moved), right), n, right, items[median + 1])

(* splitRoot: a new root over node n.                                      *)
WithNewRoot(t, n) ==
  LET r == NewNode(t)
  IN [t EXCEPT !.root = r,
               !.node = [@ EXCEPT ![n].parent = r] @@
                  r :> [leaf |-> FALSE, items |-> <<>>, children |-> <<n>>,
                        parent |-> Nil, next |-> Nil]]

splitNode(t, n) ==
  LET u == IF t.node[n].parent = Nil THEN WithNewRoot(t, n) ELSE t
  IN IF u.node[n].leaf THEN splitLeaf(u, n) ELSE splitInternal(u, n)

(* The tree left and what Add returns.  A member found in the leaf gets    *)
(* its score written in place; one in another leaf is not seen.            *)
Add(t, s, m) ==
  LET n     == LeafFor(t, t.root, s)
      items == t.node[n].items
      at    == SelectInSeq(items, LAMBDA x : x.member = m)
      item  == NewItem(t, s, m)
      u     == [t EXCEPT !.node[n].items =
                  InsertAt(@, FirstOrEnd(@, LAMBDA x : ~Less(x, item)), item)]
  IN IF at # 0 THEN [index |-> Rescored(t, items[at], s), ret |-> 0]
     ELSE [index |-> Tidy(IF Len(items) + 1 > t.degree - 1 THEN splitNode(u, n) ELSE u),
           ret   |-> 1]
-----------------------------------------------------------------------------
(* Removing; sep is the place in the parent of the separator between the   *)
(* two siblings                                                            *)

(* Definitions named Faulty... are not part of the specification: each is  *)
(* a definition that follows with one plausible mistake, which the         *)
(* property it is paired with in PROJECT.json must notice.                 *)

(* The separator stays what it was.                                        *)
FaultyBorrowFromLeft(t, n, left, sep) ==
  LET x == Last(t.node[left].items)
  IN [t EXCEPT !.node[left].items = Front(@), !.node[n].items = <<x>> \o @]

borrowFromLeftSibling(t, n, left, sep) ==
  LET p == t.node[n].parent
      x == Last(t.node[left].items)
      c == Last(t.node[left].children)
      u == [t EXCEPT !.node[left].items = Front(@), !.node[p].items[sep] = x]
  IN IF t.node[n].leaf THEN [u EXCEPT !.node[n].items = <<x>> \o @]
     ELSE [u EXCEPT !.node[left].children = Front(@),
                    !.node[n].items       = <<t.node[p].items[sep]>> \o @,
                    !.node[n].children    = <<c>> \o @,
                    !.node[c].parent      = n]

borrowFromRightSibling(t, n, right, sep) ==
  LET p    == t.node[n].parent
      x    == Head(t.node[right].items)
      rest == Tail(t.node[right].items)
      c    == Head(t.node[right].children)
      u    == [t EXCEPT !.node[right].items = rest]
  IN IF t.node[n].leaf
     THEN [u EXCEPT !.node[n].items      = Append(@, x),
                    !.node[p].items[sep] = IF rest = <<>> THEN @ ELSE Head(rest)]
     ELSE [u EXCEPT !.node[right].children = Tail(@),
                    !.node[n].items        = Append(@, t.node[p].items[sep]),
                    !.node[n].children     = Append(@, c),
                    !.node[c].parent       = n,
                    !.node[p].items[sep]   = x]

RECURSIVE handleUnderflow(_, _)

(* mergeWithLeftSibling and mergeWithRightSibling: right goes into left,   *)
(* and their parent may be short in turn or, if it is the root, no longer  *)
(* needed.                                                                 *)
mergeSiblings(t, left, right, sep) ==
  LET p == t.node[left].parent
      r == t.node[right]
      down == IF r.leaf THEN <<>> ELSE <<t.node[p].items[sep]>>
      u == [t EXCEPT !.node[left].items    = @ \o down \o r.items,
                     !.node[left].children = @ \o r.children,
                     !.node[left].next     = r.next,
                     !.node[p].items       = RemoveAt(@, sep),
                     !.node[p].children    = RemoveAt(@, sep + 1)]
      v == Adopted(u, ToSet(r.children), left)
  IN IF p # t.root THEN handleUnderflow(v, p)
     ELSE IF v.node[p].items = <<>> /\ Len(v.node[p].children) = 1
     THEN [Adopted(v, {left}, Nil) EXCEPT !.root = left]
     ELSE v

minItems(t) == (t.degree - 1) \div 2

handleUnderflow(t, n) ==
  LET p        == t.node[n].parent
      i        == findChildIndex(t, p, n)
      kids     == t.node[p].children
      spare(c) == Len(t.node[c].items) > minItems(t)
  IN IF p = Nil \/ Len(t.node[n].items) >= minItems(t) THEN t
     ELSE IF i > 1 /\ spare(kids[i - 1]) THEN borrowFromLeftSibling(t, n, kids[i - 1], i - 1)
     ELSE IF i < Len(kids) /\ spare(kids[i + 1]) THEN borrowFromRightSibling(t, n, kids[i + 1], i)
     ELSE IF i > 1 THEN mergeSiblings(t, kids[i - 1], n, i - 1)
     ELSE IF i < Len(kids) THEN mergeSiblings(t, n, kids[i + 1], i)
     ELSE t

(* The tree left and what RemoveByScore returns.  Only the one leaf the    *)
(* score leads to is looked at.                                            *)
RemoveByScore(t, s, m) ==
  LET n  == LeafFor(t, t.root, s)
      at == SelectInSeq(t.node[n].items, LAMBDA x : x.member = m /\ x.score = s)
  IN IF at = 0 THEN [index |-> t, ret |-> 0]
     ELSE [index |-> Tidy(handleUnderflow([t EXCEPT !.node[n].items = RemoveAt(@, at)], n)),
           ret   |-> 1]
-----------------------------------------------------------------------------
(* Queries                                                                 *)

RECURSIVE FirstLeaf(_, _)
FirstLeaf(t, n) == IF t.node[n].leaf THEN n ELSE FirstLeaf(t, Head(t.node[n].children))

RECURSIVE ItemsFrom(_, _)
ItemsFrom(t, n) == IF n = Nil THEN <<>> ELSE t.node[n].items \o ItemsFrom(t, t.node[n].next)

(* The items in the order every query walks them: from the first leaf      *)
(* along Next.  The queries below are given this list.                     *)
Listing(t) == ItemsFrom(t, FirstLeaf(t, t.root))

GetRank(list, m) == SelectInSeq(list, LAMBDA x : x.member = m) - 1

GetByRank(list, rank) == IF rank \in 0 .. Len(list) - 1 THEN list[rank + 1] ELSE Nil

(* The walk ends at the first item above max.                              *)
GetRange(list, min, max) ==
  LET end == FirstOrEnd(list, LAMBDA x : x.score > max)
  IN SelectSeq(SubSeq(list, 1, end - 1), LAMBDA x : x.score >= min)

GetRangeByRank(list, start, end) ==
  IF start < 0 \/ end < start THEN <<>>
  ELSE SubSeq(list, start + 1, Min({end + 1, Len(list)}))

Count(list) == Len(list)
=============================================================================
