--------------------------- MODULE MCTaskMonitor ---------------------------
(***************************************************************************)
(* Small instances of TaskMonitor for TLC.                                 *)
(***************************************************************************)
EXTENDS TaskMonitor, TLC

\* two samples that are neighbours in a slab page
Adjacent == {f \in [Samples -> Samples \cup {Outside}] :
               \E s, t \in Samples : s # t /\ f[s] = t /\ f[t] = Outside}

\* no two samples are neighbours in a slab page
Apart == {[s \in Samples |-> Outside]}

Symmetry == Permutations(Samples) \cup Permutations(Reclaimers)
=============================================================================
