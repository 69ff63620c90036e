--------------------------- MODULE MCSnapshotCache ---------------------------
(* Instances of SnapshotCache for TLC. *)
EXTENDS SnapshotCache
=============================================================================
