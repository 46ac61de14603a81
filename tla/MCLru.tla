------------------------------- MODULE MCLru -------------------------------
(* LruEviction for TLC: one Dict that is full with three of four keys.     *)
EXTENDS LruEviction, TLC

KeySymmetry == Permutations(Key)
=============================================================================
