--------------------------- MODULE CommitSequence ---------------------------
(***************************************************************************)
(* What a history promises about its commits: they form a sequence.  A new *)
(* commit goes right after the one it is made from, a deleted one leaves   *)
(* its neighbours next to each other, and nothing else moves.              *)
(***************************************************************************)
EXTENDS Naturals, SequencesExt

CONSTANT Ids
VARIABLE commits

Init == \E c \in Ids : commits = <<c>>

AddAfter(i, c) == commits' = InsertAt(commits, i + 1, c)

Delete(i) == commits' = RemoveAt(commits, i)

Next == \E i \in DOMAIN commits :
           Delete(i) \/ \E c \in Ids \ ToSet(commits) : AddAfter(i, c)

Spec == Init /\ [][Next]_commits
=============================================================================
