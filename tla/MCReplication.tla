---------------------------- MODULE MCReplication ----------------------------
(***************************************************************************)
(* Instances of Replication for TLC.                                       *)
(***************************************************************************)
EXTENDS Replication, TLC

\* Every item was captured from content of its own, or all from the same.
OwnContent == [s \in SyncIds |-> s]
OneContent == [s \in SyncIds |-> "content"]

\* Devices, and items of the same content, may be exchanged.
DeviceSymmetry == Permutations(Devices)
FullSymmetry == Permutations(Devices) \cup Permutations(SyncIds)

=============================================================================
