-------------------------- MODULE MCSnapshotFile ---------------------------
(* Bucket names are numbers, so that they have an order.            *)
EXTENDS SnapshotFile

Names1to2 == {1, 2}
=============================================================================
