----------------------------- MODULE MCBlobFiles -----------------------------
(* The image copied here may have two blobs; the one of another device has one. *)
EXTENDS BlobFiles

CONSTANTS i1, i2, b1, b2, b3

MCItemOf == [b \in Blobs |-> IF b = b3 THEN i2 ELSE i1]
==============================================================================
