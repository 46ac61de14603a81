-------------------------------- MODULE Cms --------------------------------
(***************************************************************************)
(* The count-min sketch of cms.go: depth rows of width counters in one     *)
(* array, each item with one counter per row.  The sketch is created once, *)
(* as INITBYDIM and INITBYPROB do for a key, and then only incremented.    *)
(***************************************************************************)
EXTENDS Integers, FiniteSetsExt

CONSTANTS
  Item,
  calcHash(_, _),  \* murmur3 of an item with a row as its seed
  MaxUint64,       \* 2^64 - 1 in the code
  Dims,            \* the dimensions a sketch may be created with
  Increment,       \* the increments
  Nil

ASSUME CmsAssumption ==
  /\ MaxUint64 \in Nat
  /\ Dims \subseteq [width : Nat \ {0}, depth : Nat]
  /\ Increment \subseteq 0 .. MaxUint64
  /\ \A d \in Dims, x \in Item : \A i \in 0 .. d.depth - 1 : calcHash(x, i) \in Nat
  /\ \A d \in Dims : Nil \notin [width : {d.width}, depth : {d.depth},
                              counter : [0 .. d.width * d.depth - 1 -> 0 .. MaxUint64]]

VARIABLES
  cms,   \* the sketch; Nil before it is created
  total  \* history: what was added for an item, up to MaxUint64

cmsVars == <<cms, total>>

NewCMS(w, d) == [width |-> w, depth |-> d, counter |-> [k \in 0 .. w * d - 1 |-> 0]]

Rows(c) == 0 .. c.depth - 1

(* Definitions named Faulty... are not part of the specification: each is  *)
(* a definition that follows with one plausible mistake, which the         *)
(* property it is paired with in PROJECT.json must notice.                 *)

(* Rows as far apart as there are rows, not columns.                       *)
FaultyGetIndex(c, row, col) == row * c.depth + col

getIndex(c, row, col) == row * c.width + col

(* The counter of an item in a row.                                        *)
Cell(c, x, i) == getIndex(c, i, calcHash(x, i) % c.width)

(* The addition wraps.                                                     *)
FaultyAddWraps(n, value) == (n + value) % (MaxUint64 + 1)

AddSaturating(n, value) == IF MaxUint64 - n < value THEN MaxUint64 ELSE n + value

(* The sketch IncrBy leaves: the cells of the rows are different ones.     *)
Incremented(c, x, value) ==
  [c EXCEPT !.counter = [k \in DOMAIN @ |->
     IF \E i \in Rows(c) : k = Cell(c, x, i) THEN AddSaturating(@[k], value) ELSE @[k]]]

(* The estimate Count and IncrBy return; without rows it is MaxUint64.     *)
Count(c, x) == Min({MaxUint64} \cup {c.counter[Cell(c, x, i)] : i \in Rows(c)})

Create(d) ==
  /\ cms = Nil
  /\ cms' = NewCMS(d.width, d.depth)
  /\ UNCHANGED total

IncrBy(x, value) ==
  /\ cms # Nil
  /\ cms' = Incremented(cms, x, value)
  /\ total' = [total EXCEPT ![x] = Min({@ + value, MaxUint64})]

CmsInit == cms = Nil /\ total = [x \in Item |-> 0]

CmsNext ==
  \/ \E d \in Dims : Create(d)
  \/ \E x \in Item, value \in Increment : IncrBy(x, value)

CmsSpec == CmsInit /\ [][CmsNext]_cmsVars
-----------------------------------------------------------------------------
(* An estimate is never below what was added for the item, whatever other  *)
(* items share its counters and however often they saturate.               *)
NeverUnderestimates == cms # Nil => \A x \in Item : Count(cms, x) >= total[x]

(* Every counter is the sum, up to MaxUint64, of what was added for the    *)
(* items it serves in its row: none is incremented twice by one call, and  *)
(* the rows do not overlap in the one array.                               *)
CountersExact ==
  cms # Nil => \A i \in Rows(cms), col \in 0 .. cms.width - 1 :
    LET k      == getIndex(cms, i, col)
        served == {x \in Item : Cell(cms, x, i) = k}
    IN cms.counter[k] = Min({MaxUint64, MapThenSumSet(LAMBDA x : total[x], served)})
=============================================================================
