----------------------------- MODULE MCHistory -----------------------------
(* Constants with which TLC checks History. *)
EXTENDS History, TLC

MCRemoteStamps == {-1}
Symmetric == Permutations(Ids)
=============================================================================
