------------------------------ MODULE MCBTree ------------------------------
(* Buckets to begin with, in scaled-down sizes: see the README for both. *)
EXTENDS BTreeCursor, BTreeRestore

aLoad(keys, init, vals, maxtx, maxops, maxdels) ==
    [keys |-> keys, init |-> init, vals |-> vals, txs |-> maxtx, ops |-> maxops, dels |-> maxdels]

\* Two operations per transaction and values of two sizes; a tree of depth
\* three; a row of leaves for the cursor.
TreeLoad == aLoad(1..5, 4, {1, 2}, 2, 2, 1)
DeepLoad == aLoad(1..7, 7, {1}, 5, 1, 1)
RowLoad  == aLoad(1..5, 5, {1}, 1, 2, 2)

AllLoads == {TreeLoad, DeepLoad, RowLoad}
RowLoads == {RowLoad}

\* Neighbouring leaves that both lose entries; a branch that overflows.
MergeLoads  == {aLoad(1..7, 7, {1}, 1, 2, 2)}
BranchLoads == {aLoad(1..7, 6, {1}, 1, 2, 1)}
=============================================================================
