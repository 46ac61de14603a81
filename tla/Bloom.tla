------------------------------- MODULE Bloom -------------------------------
(***************************************************************************)
(* The Bloom filter of bloom.go: an array of words, some bits of which are *)
(* set for each entry.  No command uses it; its methods are called by a    *)
(* program that imports the package.                                       *)
(***************************************************************************)
EXTENDS Integers

CONSTANTS
  Entry,
  CalcHash(_),  \* the two halves a, b of murmur3's 128-bit hash of an entry
  WordBits,     \* 64 in the code
  TwoTo64,      \* 2^64 in the code
  Sizes         \* the bits that calcBpe asks for and the number of hashes

ASSUME BloomAssumption ==
  /\ WordBits \in Nat \ {0} /\ TwoTo64 \in Nat \ {0}
  /\ \A e \in Entry : CalcHash(e) \in [a : Nat, b : Nat]
  /\ Sizes \subseteq [bits : Nat \ {0}, hashes : Nat]

VARIABLES
  bloom,  \* Hashes, bits, words; bf gives the set of bits of each word
  added   \* history: the entries added

bloomVars == <<bloom, added>>

(* The bits rounded up to whole words.                                     *)
RoundedUp(bits) ==
  IF bits % WordBits # 0 THEN ((bits \div WordBits) + 1) * WordBits ELSE bits

NewBloomFilter(size) ==
  LET bits  == RoundedUp(size.bits)
      words == bits \div WordBits
  IN [Hashes |-> size.hashes, bits |-> bits, words |-> words,
      bf |-> [w \in 0 .. words - 1 |-> {}]]

Hash(b, h, i) == ((h.a + h.b * i) % TwoTo64) % b.bits

Word(hash) == hash \div WordBits

Bit(hash) == hash % WordBits

(* Definitions named Faulty... are not part of the specification: each is  *)
(* a definition that follows with one plausible mistake, which the         *)
(* property it is paired with in PROJECT.json must notice.                 *)

(* Each hash overwrites its word.                                          *)
FaultyAddHash(b, h) ==
  [b EXCEPT !.bf = [w \in DOMAIN @ |->
     LET bits == {Bit(Hash(b, h, i)) : i \in {j \in 0 .. b.Hashes - 1 : Word(Hash(b, h, j)) = w}}
     IN IF bits = {} THEN @[w] ELSE bits]]

(* The filter AddHash leaves.                                              *)
AddHash(b, h) ==
  [b EXCEPT !.bf = [w \in DOMAIN @ |->
     @[w] \cup {Bit(Hash(b, h, i)) : i \in {j \in 0 .. b.Hashes - 1 : Word(Hash(b, h, j)) = w}}]]

ExistHash(b, h) ==
  \A i \in 0 .. b.Hashes - 1 : Bit(Hash(b, h, i)) \in b.bf[Word(Hash(b, h, i))]

Add(e) ==
  /\ bloom' = AddHash(bloom, CalcHash(e))
  /\ added' = added \cup {e}

Exist(e) == ExistHash(bloom, CalcHash(e))

BloomInit == added = {} /\ \E size \in Sizes : bloom = NewBloomFilter(size)

BloomNext == \E e \in Entry : Add(e)

BloomSpec == BloomInit /\ [][BloomNext]_bloomVars
-----------------------------------------------------------------------------
(* An entry that was added is reported as present, however many entries    *)
(* share its words, and every bit looked at lies inside the array.         *)
NoFalseNegative ==
  \A e \in added :
    /\ Exist(e)
    /\ \A i \in 0 .. bloom.Hashes - 1 : Word(Hash(bloom, CalcHash(e), i)) \in DOMAIN bloom.bf
=============================================================================
