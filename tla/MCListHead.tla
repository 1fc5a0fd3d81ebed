----------------------------- MODULE MCListHead -----------------------------
(* Symmetry for the instances of ListHead.                                   *)
EXTENDS ListHead, TLC

Symmetry == Permutations(Heads) \cup Permutations(Entries) \cup Permutations(Tasks)
=============================================================================
