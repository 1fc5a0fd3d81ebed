------------------------------ MODULE MCHistory -----------------------------
(* The versions that infos looks for; four commits make all of them occur.   *)
EXTENDS History

SomeVersions == (0..2) \X (0..2)
=============================================================================
