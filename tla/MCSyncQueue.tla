---------------------------- MODULE MCSyncQueue ----------------------------
(* Constants with which TLC checks SyncQueue. *)
EXTENDS SyncQueue, TLC

CONSTANTS i1, i2, b1, auto, manual

TextOnly == <<>>                  \* no image blobs
OneImage == b1 :> i1

ItemSymmetry == Permutations({i1, i2})

=============================================================================
