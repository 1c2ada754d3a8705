--------------------------- MODULE BTreeRestore ----------------------------
(***************************************************************************)
(* What a BMSP snapshot makes of a tree: serializeSnapshot writes the      *)
(* entries of a published bucket in the order of ForEach, and Restore puts *)
(* them, in that order and in one transaction, into a new bucket that it   *)
(* splits at FillPercent 0.9 instead of 0.5 (snapshot.go).  The trees to   *)
(* save are those that module BTree publishes.                             *)
(***************************************************************************)
EXTENDS BTree

CONSTANT RestoreSplitBytes      \* int(defaultMaxNodeSizeBytes * 0.9)

ASSUME RestoreAssumption == RestoreSplitBytes \in Nat

\* node.go with the fill percentage that Restore sets.
Filled == INSTANCE BTreeNode WITH SplitBytes <- RestoreSplitBytes

\* The entries of the bucket, as serializeSnapshot writes them.
savedPairs(root) == LeafInodes(node, root)

\* CreateBucket: a bucket whose root is an empty leaf.
createdBucket == [node |-> (1 :> newNode(TRUE, 0, <<>>)), dirty |-> {1}, panic |-> FALSE]

\* Mutant: an entry goes in front of the others.
putPairInFront(s, in) == [s EXCEPT !.node[1].inodes = <<leafInode(in.key, in.value)>> \o @]

\* Restore's Put: before the commit the bucket is one leaf.
putPair(s, in) == [s EXCEPT !.node[1] = put(@, in.key, leafInode(in.key, in.value))]

\* The commit of Restore's transaction: nothing to rebalance, then the spill.
commitRestored(s) == Filled!finalize(s, 1)

restored(root) == commitRestored(FoldLeft(putPair, createdBucket, savedPairs(root)))

----------------------------------------------------------------------------
(* Properties.                                                             *)

\* "the output is deterministic and round-trips losslessly with Restore"
\* (snapshot.go:17): whatever the shape of the tree that was saved, the one that
\* Restore builds has the same entries in the same order, Tx.Check finds no
\* fault in it, and every node of it fits.
RoundTripLossless ==
    phase = "idle" /\ base.root # 0 => \E s \in {restored(base.root)} :
        /\ ~s.panic
        /\ \E r \in {rootOf(s, 1)} :
             /\ LeafInodes(s.node, r) = savedPairs(base.root)
             /\ checkBucket(s.node, r)
             /\ \A a \in ToSet(walk(s.node, r)) : fits(s.node[a])
=============================================================================
