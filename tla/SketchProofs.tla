----------------------------- MODULE SketchProofs -----------------------------
(***************************************************************************)
(* Proofs about the two sketches, Cms and Bloom, for every set of items and *)
(* entries, hash, dimensions and size of a counter, a word and a filter.   *)
(***************************************************************************)
EXTENDS Cms, Bloom, WellFoundedInduction, TLAPS

(* The count-min sketch                                                    *)

(* What a sketch is, and that each counter of an item has at least what    *)
(* was added for it; the property itself only speaks of their minimum.     *)
Sketch(c) ==
  /\ c = [width |-> c.width, depth |-> c.depth, counter |-> c.counter]
  /\ \E d \in Dims : c.width = d.width /\ c.depth = d.depth
  /\ c.width \in Nat \ {0} /\ c.depth \in Nat
  /\ \A x \in Item, i \in Rows(c) : calcHash(x, i) \in Nat
  /\ c.counter \in [0 .. c.width * c.depth - 1 -> 0 .. MaxUint64]

SketchInv ==
  /\ total \in [Item -> 0 .. MaxUint64]
  /\ cms # Nil =>
       /\ Sketch(cms)
       /\ \A x \in Item, i \in Rows(cms) : cms.counter[Cell(cms, x, i)] >= total[x]
  /\ cms = Nil => total = [x \in Item |-> 0]

(* Min is an element of a set of naturals that is not empty.               *)
LEMMA MinIn ==
  ASSUME NEW S \in SUBSET Nat, S # {}
  PROVE  Min(S) \in S /\ \A n \in S : Min(S) <= n
<1> DEFINE R == {p \in Nat \X Nat : p[1] < p[2]}
<1>1. IsWellFoundedOn(R, Nat)
  BY NatLessThanWellFounded, Zenon DEF OpToRel
<1> HIDE DEF R
<1>2. PICK m \in S : \A n \in S : ~(<<n, m>> \in R)
  BY <1>1, WFMin, Zenon
<1>3. \A n \in S : m <= n
  <2> SUFFICES ASSUME NEW n \in S PROVE m <= n
    OBVIOUS
  <2>1. <<n, m>> \notin R
    BY <1>2
  <2> QED
    BY <2>1 DEF R
<1> QED
  BY <1>3 DEF Min

(* So the smaller of two numbers.                                          *)
LEMMA MinOfTwo ==
  ASSUME NEW a \in Nat, NEW b \in Nat
  PROVE  Min({a, b}) = IF a <= b THEN a ELSE b
  BY MinIn

(* getIndex: row i ends before the array does.                             *)
LEMMA IndexInRange ==
  ASSUME NEW w \in Nat \ {0}, NEW d \in Nat, NEW i \in 0 .. d - 1, NEW col \in 0 .. w - 1
  PROVE  i * w + col \in 0 .. w * d - 1
<1>1. (d - 1 - i) * w \in Nat /\ i * w \in Nat
  BY SMT
<1>2. (d - 1 - i) * w = w * d - w - i * w
  BY SMT
<1> QED
  BY <1>1, <1>2

(* The counters of an item are counters of the sketch.                     *)
LEMMA CellInRange ==
  ASSUME NEW c, Sketch(c), NEW x \in Item, NEW i \in Rows(c)
  PROVE  Cell(c, x, i) \in 0 .. c.width * c.depth - 1
<1> DEFINE col == calcHash(x, i) % c.width
<1>1. col \in 0 .. c.width - 1
  BY DEF Sketch
<1> HIDE DEF col
<1>2. getIndex(c, i, col) \in 0 .. c.width * c.depth - 1
  BY <1>1, IndexInRange DEF Sketch, Rows, getIndex
<1> QED
  BY <1>2 DEF Cell, col

(* A saturating addition stays in range and is never below the sum that    *)
(* the history keeps.                                                      *)
LEMMA SaturatingBound ==
  ASSUME NEW n \in 0 .. MaxUint64, NEW t \in 0 .. MaxUint64, n >= t,
         NEW value \in 0 .. MaxUint64
  PROVE  /\ AddSaturating(n, value) \in 0 .. MaxUint64
         /\ AddSaturating(n, value) >= n
         /\ AddSaturating(n, value) >= Min({t + value, MaxUint64})
         /\ Min({t + value, MaxUint64}) \in 0 .. MaxUint64
  BY CmsAssumption, MinOfTwo DEF AddSaturating

(* Before the sketch is created nothing was added.                         *)
LEMMA CmsInitInv == CmsInit => SketchInv
  BY CmsAssumption DEF CmsInit, SketchInv

(* A new sketch has nothing to account for.                                *)
LEMMA CreateInv ==
  ASSUME SketchInv, NEW d \in Dims, Create(d)
  PROVE  SketchInv'
<1> DEFINE c == NewCMS(d.width, d.depth)
<1>1. d.width \in Nat \ {0} /\ d.depth \in Nat
  BY CmsAssumption
<1>2. /\ c.width = d.width /\ c.depth = d.depth
      /\ c.counter = [k \in 0 .. d.width * d.depth - 1 |-> 0]
      /\ c = [width |-> c.width, depth |-> c.depth, counter |-> c.counter]
  BY DEF NewCMS
<1>3. cms' = c /\ total' = total /\ total = [x \in Item |-> 0]
  BY DEF Create, SketchInv
<1> HIDE DEF c
<1>4. Sketch(c)
  <2>1. \A x \in Item, i \in Rows(c) : calcHash(x, i) \in Nat
    BY <1>2, CmsAssumption DEF Rows
  <2>2. c.counter \in [0 .. c.width * c.depth - 1 -> 0 .. MaxUint64]
    BY <1>2, CmsAssumption
  <2> QED
    BY <1>1, <1>2, <2>1, <2>2 DEF Sketch
<1>5. ASSUME NEW x \in Item, NEW i \in Rows(c)
      PROVE  c.counter[Cell(c, x, i)] >= total[x]
  BY <1>2, <1>3, <1>4, CellInRange
<1>6. cms' # Nil => /\ Sketch(cms')
                   /\ \A x \in Item, i \in Rows(cms') : cms'.counter[Cell(cms', x, i)] >= total'[x]
  BY <1>3, <1>4, <1>5
<1> QED
  BY <1>3, <1>6 DEF SketchInv

(* An increment reaches every counter of its item and lowers none.         *)
LEMMA IncrByInv ==
  ASSUME SketchInv, NEW x \in Item, NEW value \in Increment, IncrBy(x, value)
  PROVE  SketchInv'
<1> DEFINE c == cms'
           K == 0 .. cms.width * cms.depth - 1
           hit(k) == \E i \in Rows(cms) : k = Cell(cms, x, i)
<1>1. cms # Nil /\ Sketch(cms) /\ value \in 0 .. MaxUint64 /\ total \in [Item -> 0 .. MaxUint64]
  BY CmsAssumption DEF IncrBy, SketchInv
<1>2. /\ c.width = cms.width /\ c.depth = cms.depth
      /\ c = [width |-> c.width, depth |-> c.depth, counter |-> c.counter]
      /\ c.counter = [k \in K |-> IF hit(k) THEN AddSaturating(cms.counter[k], value)
                                 ELSE cms.counter[k]]
  <2>1. cms = [width |-> cms.width, depth |-> cms.depth, counter |-> cms.counter]
    BY <1>1 DEF Sketch
  <2>2. DOMAIN cms.counter = K
    BY <1>1 DEF Sketch
  <2> QED
    BY <2>1, <2>2 DEF IncrBy, Incremented
<1>3. total' = [total EXCEPT ![x] = Min({total[x] + value, MaxUint64})]
  BY DEF IncrBy
<1> HIDE DEF c, K, hit
<1>4. \A k \in K : /\ cms.counter[k] \in 0 .. MaxUint64
                   /\ c.counter[k] \in 0 .. MaxUint64 /\ c.counter[k] >= cms.counter[k]
  <2> SUFFICES ASSUME NEW k \in K
               PROVE  /\ cms.counter[k] \in 0 .. MaxUint64
                      /\ c.counter[k] \in 0 .. MaxUint64 /\ c.counter[k] >= cms.counter[k]
    OBVIOUS
  <2>1. cms.counter[k] \in 0 .. MaxUint64
    BY <1>1 DEF Sketch, K
  <2>2. cms.counter[k] >= cms.counter[k]
    BY <2>1
  <2>3. LET n == AddSaturating(cms.counter[k], value)
        IN  n \in 0 .. MaxUint64 /\ n >= cms.counter[k]
    BY <1>1, <2>1, <2>2, SaturatingBound
  <2>4. c.counter[k] = AddSaturating(cms.counter[k], value) \/ c.counter[k] = cms.counter[k]
    BY <1>2
  <2> QED
    BY <2>1, <2>2, <2>3, <2>4
<1>5. Rows(c) = Rows(cms) /\ \A y \in Item, i \in Rows(cms) : Cell(c, y, i) = Cell(cms, y, i)
  BY <1>2 DEF Rows, Cell, getIndex
<1>6. Sketch(c)
  <2>1. c.counter \in [K -> 0 .. MaxUint64]
    BY <1>2, <1>4
  <2> QED
    BY <1>1, <1>2, <1>5, <2>1 DEF Sketch, K
<1>7. total' \in [Item -> 0 .. MaxUint64]
  <2>1. Min({total[x] + value, MaxUint64}) \in 0 .. MaxUint64
    BY <1>1, MinOfTwo, CmsAssumption
  <2> QED
    BY <1>1, <1>3, <2>1
<1>8. ASSUME NEW y \in Item, NEW i \in Rows(c)
      PROVE  c.counter[Cell(c, y, i)] >= total'[y]
  <2> DEFINE k == Cell(cms, y, i)
  <2>1. i \in Rows(cms) /\ Cell(c, y, i) = k
    BY <1>5
  <2>2. k \in K
    BY <1>1, <2>1, CellInRange DEF K
  <2>3. cms.counter[k] >= total[y]
    BY <1>1, <2>1 DEF SketchInv
  <2>4. total[y] \in 0 .. MaxUint64
    BY <1>1
  <2>5. CASE y = x
    <3>1. hit(k)
      BY <2>1, <2>5 DEF hit
    <3> HIDE DEF k
    <3>2. c.counter[k] = AddSaturating(cms.counter[k], value)
      BY <1>2, <2>2, <3>1
    <3>3. cms.counter[k] \in 0 .. MaxUint64
      BY <1>4, <2>2
    <3>4. AddSaturating(cms.counter[k], value) >= Min({total[y] + value, MaxUint64})
      BY <1>1, <2>3, <2>4, <3>3, SaturatingBound
    <3>5. total'[y] = Min({total[y] + value, MaxUint64})
      BY <1>1, <1>3, <2>5
    <3> QED
      BY <2>1, <3>2, <3>4, <3>5
  <2>6. CASE y # x
    <3>1. total'[y] = total[y]
      BY <1>1, <1>3, <2>6
    <3> HIDE DEF k
    <3> QED
      BY <1>4, <2>1, <2>2, <2>3, <2>4, <3>1
  <2> QED
    BY <2>5, <2>6
<1>9. cms' # Nil
  <2>1. PICK d \in Dims : c.width = d.width /\ c.depth = d.depth
    BY <1>6 DEF Sketch
  <2>2. c \in [width : {d.width}, depth : {d.depth},
              counter : [0 .. d.width * d.depth - 1 -> 0 .. MaxUint64]]
    BY <1>6, <2>1 DEF Sketch
  <2> QED
    BY <2>2, CmsAssumption DEF c
<1> QED
  BY <1>6, <1>7, <1>8, <1>9 DEF SketchInv, c

(* Neither creating nor incrementing breaks the invariant.                 *)
LEMMA CmsNextInv == SketchInv /\ [CmsNext]_cmsVars => SketchInv'
<1> SUFFICES ASSUME SketchInv, [CmsNext]_cmsVars PROVE SketchInv'
  OBVIOUS
<1>1. ASSUME NEW d \in Dims, Create(d) PROVE SketchInv'
  BY <1>1, CreateInv
<1>2. ASSUME NEW x \in Item, NEW value \in Increment, IncrBy(x, value) PROVE SketchInv'
  BY <1>2, IncrByInv
<1>3. CASE UNCHANGED cmsVars
  BY <1>3 DEF cmsVars, SketchInv, Sketch, Rows, Cell, getIndex
<1> QED
  BY <1>1, <1>2, <1>3 DEF CmsNext

(* The minimum over the rows is one of the counters of the item, or the    *)
(* greatest number.                                                        *)
LEMMA InvEstimates == SketchInv => NeverUnderestimates
<1> SUFFICES ASSUME SketchInv, cms # Nil, NEW x \in Item PROVE Count(cms, x) >= total[x]
  BY DEF NeverUnderestimates
<1> DEFINE S == {MaxUint64} \cup {cms.counter[Cell(cms, x, i)] : i \in Rows(cms)}
<1>1. \A i \in Rows(cms) : cms.counter[Cell(cms, x, i)] \in 0 .. MaxUint64
  BY CellInRange DEF SketchInv, Sketch
<1>2. S \in SUBSET Nat /\ S # {}
  BY <1>1, CmsAssumption
<1>3. total[x] \in 0 .. MaxUint64
  BY DEF SketchInv
<1>4. \A n \in S : n >= total[x]
  BY <1>3, CmsAssumption DEF SketchInv
<1> HIDE DEF S
<1>5. Min(S) >= total[x]
  BY <1>2, <1>4, MinIn
<1> QED
  BY <1>5 DEF Count, S

(* Whatever the hash and the dimensions, and however the counters          *)
(* saturate: IncrBy and Count never answer less than was added.            *)
THEOREM Estimates == CmsSpec => []NeverUnderestimates
  BY CmsInitInv, CmsNextInv, InvEstimates, PTL DEF CmsSpec
-----------------------------------------------------------------------------
(* The Bloom filter                                                        *)

(* What a filter is: whole words, at least one.                            *)
Filter(b) ==
  /\ b = [Hashes |-> b.Hashes, bits |-> b.bits, words |-> b.words, bf |-> b.bf]
  /\ b.Hashes \in Nat /\ b.words \in Nat \ {0} /\ b.bits = b.words * WordBits
  /\ b.bf \in [0 .. b.words - 1 -> SUBSET Nat]

FilterInv == Filter(bloom) /\ added \in SUBSET Entry /\ NoFalseNegative

(* A bit of an array of n words lies in one of them.                       *)
LEMMA WordInRange ==
  ASSUME NEW n \in Nat, NEW hash \in 0 .. n * WordBits - 1
  PROVE  Word(hash) \in 0 .. n - 1 /\ Bit(hash) \in Nat
<1> USE BloomAssumption DEF Word, Bit
<1>1. /\ hash \div WordBits \in Nat /\ hash % WordBits \in Nat
      /\ hash = WordBits * (hash \div WordBits) + (hash % WordBits)
  <2>1. n * WordBits \in Nat
    BY SMT
  <2>2. hash \in Nat
    BY <2>1
  <2> QED
    BY <2>2
<1>2. ASSUME hash \div WordBits >= n PROVE FALSE
  <2> DEFINE q == hash \div WordBits
  <2>1. q - n \in Nat
    BY <1>1, <1>2
  <2> HIDE DEF q
  <2>2. (q - n) * WordBits \in Nat
    BY <2>1
  <2>3. (q - n) * WordBits = q * WordBits - n * WordBits
    BY <1>1 DEF q
  <2> QED
    BY <1>1, <2>2, <2>3 DEF q
<1> QED
  BY <1>1, <1>2

(* NewBloomFilter rounds up to whole words, at least one.                  *)
LEMMA RoundedUpIsWords ==
  ASSUME NEW bits \in Nat \ {0}
  PROVE  /\ RoundedUp(bits) \div WordBits \in Nat \ {0}
         /\ RoundedUp(bits) = (RoundedUp(bits) \div WordBits) * WordBits
<1> USE BloomAssumption
<1> DEFINE q == bits \div WordBits
<1>1. q \in Nat /\ bits = WordBits * q + (bits % WordBits)
  OBVIOUS
<1>2. \A n \in Nat : (n * WordBits) \div WordBits = n
  OBVIOUS
<1> HIDE DEF q
<1>3. CASE bits % WordBits # 0
  <2>1. RoundedUp(bits) = (q + 1) * WordBits
    BY <1>3 DEF RoundedUp, q
  <2> QED
    BY <1>1, <1>2, <2>1
<1>4. CASE bits % WordBits = 0
  <2>1. RoundedUp(bits) = q * WordBits /\ q # 0
    BY <1>1, <1>4 DEF RoundedUp
  <2> QED
    BY <1>1, <1>2, <2>1
<1> QED
  BY <1>3, <1>4

(* Every bit that Add sets or Exist reads lies inside the array.           *)
LEMMA HashInRange ==
  ASSUME NEW b, Filter(b), NEW h \in [a : Nat, b : Nat], NEW i \in 0 .. b.Hashes - 1
  PROVE  /\ Word(Hash(b, h, i)) \in 0 .. b.words - 1
         /\ Bit(Hash(b, h, i)) \in Nat
<1> USE BloomAssumption
<1>1. b.bits \in Nat \ {0}
  BY DEF Filter
<1>2. h.a + h.b * i \in Nat
  BY SMTT(30) DEF Filter
<1>3. (h.a + h.b * i) % TwoTo64 \in Nat
  BY <1>2
<1>4. Hash(b, h, i) \in 0 .. b.bits - 1
  BY <1>1, <1>3 DEF Hash
<1> QED
  BY <1>4, WordInRange DEF Filter

(* A new filter is one, and nothing has been added.                        *)
LEMMA BloomInitInv == BloomInit => FilterInv
<1> SUFFICES ASSUME BloomInit PROVE FilterInv
  OBVIOUS
<1>1. PICK size \in Sizes : bloom = NewBloomFilter(size)
  BY DEF BloomInit
<1>2. size.bits \in Nat \ {0} /\ size.hashes \in Nat
  BY BloomAssumption
<1> DEFINE words == RoundedUp(size.bits) \div WordBits
<1>3. words \in Nat \ {0} /\ RoundedUp(size.bits) = words * WordBits
  BY <1>2, RoundedUpIsWords
<1>4. bloom = [Hashes |-> size.hashes, bits |-> RoundedUp(size.bits), words |-> words,
              bf |-> [w \in 0 .. words - 1 |-> {}]]
  BY <1>1 DEF NewBloomFilter
<1> HIDE DEF words
<1>5. Filter(bloom)
  BY <1>2, <1>3, <1>4 DEF Filter
<1> QED
  BY <1>5 DEF FilterInv, BloomInit, NoFalseNegative

(* Add sets the bits of its entry and clears none.                         *)
LEMMA AddInv ==
  ASSUME FilterInv, NEW e \in Entry, Add(e)
  PROVE  FilterInv'
<1> DEFINE h == CalcHash(e)
           b == bloom'
           new(w) == {Bit(Hash(bloom, h, i)) : i \in {j \in 0 .. bloom.Hashes - 1 :
                                                       Word(Hash(bloom, h, j)) = w}}
<1>1. Filter(bloom) /\ added \in SUBSET Entry /\ h \in [a : Nat, b : Nat]
  BY BloomAssumption DEF FilterInv
<1>2. /\ b.Hashes = bloom.Hashes /\ b.bits = bloom.bits /\ b.words = bloom.words
      /\ b = [Hashes |-> b.Hashes, bits |-> b.bits, words |-> b.words, bf |-> b.bf]
      /\ b.bf = [w \in 0 .. bloom.words - 1 |-> bloom.bf[w] \cup new(w)]
  <2>1. /\ bloom = [Hashes |-> bloom.Hashes, bits |-> bloom.bits, words |-> bloom.words,
                    bf |-> bloom.bf]
        /\ DOMAIN bloom.bf = 0 .. bloom.words - 1
    BY <1>1 DEF Filter
  <2> QED
    BY <2>1 DEF Add, AddHash
<1>3. \A w \in 0 .. bloom.words - 1 : new(w) \in SUBSET Nat
  BY <1>1, HashInRange
<1>4. \A g, i : Hash(b, g, i) = Hash(bloom, g, i)
  BY <1>2 DEF Hash
<1>5. \A i \in 0 .. bloom.Hashes - 1 :
        Bit(Hash(bloom, h, i)) \in new(Word(Hash(bloom, h, i)))
  OBVIOUS
<1>6. added' = added \cup {e}
  BY DEF Add
<1> HIDE DEF b, new, h
<1>7. Filter(b)
  <2>1. b.bf \in [0 .. bloom.words - 1 -> SUBSET Nat]
    BY <1>1, <1>2, <1>3 DEF Filter
  <2> QED
    BY <1>1, <1>2, <2>1 DEF Filter
<1>8. ASSUME NEW f \in added', NEW i \in 0 .. b.Hashes - 1
      PROVE  /\ Word(Hash(b, CalcHash(f), i)) \in DOMAIN b.bf
             /\ Bit(Hash(b, CalcHash(f), i)) \in b.bf[Word(Hash(b, CalcHash(f), i))]
  <2>1. i \in 0 .. bloom.Hashes - 1 /\ Hash(b, CalcHash(f), i) = Hash(bloom, CalcHash(f), i)
    BY <1>2, <1>4
  <2>2. Word(Hash(bloom, CalcHash(f), i)) \in 0 .. bloom.words - 1
    <3>1. f \in Entry
      BY <1>1, <1>6
    <3> QED
      BY <1>1, <2>1, <3>1, HashInRange, BloomAssumption
  <2>3. CASE f = e
    BY <1>2, <1>5, <2>1, <2>2, <2>3 DEF h
  <2>4. CASE f \in added
    <3>1. Bit(Hash(bloom, CalcHash(f), i)) \in bloom.bf[Word(Hash(bloom, CalcHash(f), i))]
      BY <2>1, <2>4 DEF FilterInv, NoFalseNegative, Exist, ExistHash
    <3> QED
      BY <1>2, <2>1, <2>2, <3>1
  <2> QED
    BY <1>6, <2>3, <2>4
<1> QED
  BY <1>1, <1>6, <1>7, <1>8 DEF FilterInv, NoFalseNegative, b, Exist, ExistHash

(* Whatever the hash, the size of the filter and the number of hashes:     *)
(* Exist finds every entry that was added.                                 *)
THEOREM FindsAdded == BloomSpec => []NoFalseNegative
<1>1. FilterInv /\ [BloomNext]_bloomVars => FilterInv'
  <2> SUFFICES ASSUME FilterInv, [BloomNext]_bloomVars PROVE FilterInv'
    OBVIOUS
  <2>1. CASE BloomNext
    BY <2>1, AddInv DEF BloomNext
  <2>2. CASE UNCHANGED bloomVars
    BY <2>2 DEF bloomVars, FilterInv, Filter, NoFalseNegative, Hash, Exist, ExistHash
  <2> QED
    BY <2>1, <2>2
<1>2. FilterInv => NoFalseNegative
  BY DEF FilterInv
<1> QED
  BY BloomInitInv, <1>1, <1>2, PTL DEF BloomSpec
=============================================================================
