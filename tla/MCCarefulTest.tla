---------------------------- MODULE MCCarefulTest ----------------------------
(* Symmetry for the instance of CarefulTest.                                  *)
EXTENDS CarefulTest, TLC

Symmetry == Permutations(Heads) \cup Permutations(Entries) \cup Permutations(Tasks)
=============================================================================
