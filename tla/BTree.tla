------------------------------- MODULE BTree -------------------------------
(***************************************************************************)
(* One bucket of the database, from the inside: write transactions, one    *)
(* after the other, put and delete keys in a copy-on-write B+tree, and     *)
(* Commit rebalances, splits and publishes it (bucket.go, node.go, and the *)
(* bucket's part of Tx.Commit).  That transactions do not overlap is what  *)
(* VmboltDB shows.  Readers are represented by gens: they hold the roots   *)
(* of published trees and expect to find in them what was published.       *)
(***************************************************************************)
EXTENDS BTreeNode, FiniteSets

CONSTANTS
    Loads,          \* the buckets to begin with, and the bounds for each:
                    \*   keys: positive numbers; vals: the lengths of values;
                    \*   init: the creating transaction has put 1..init;
                    \*   txs: transactions after the creating one;
                    \*   ops, dels: Put and Delete, and Delete, calls in each
    MaxUnbalanced   \* bound: leaves with deletions in one Commit

ASSUME BoundsAssumption ==
    /\ \A l \in Loads :
         /\ l.keys \subseteq Nat \ {0} /\ l.init \in Nat /\ 1..l.init \subseteq l.keys
         /\ l.vals \subseteq Nat \ {0} /\ l.vals # {}
         /\ {l.txs, l.ops, l.dels} \subseteq Nat
    /\ MaxUnbalanced \in Nat

VARIABLES
    load,           \* the one of Loads that this behaviour began with
    node,           \* the heap: address -> node
    rootNode,       \* Bucket.rootNode, 0 before the first write
    dirty,          \* Bucket.dirty
    gens,           \* published generations: the base first, then the one
                    \* before it, as [root, kv]: kv is what was published
    ref,            \* what the transaction's view of the bucket should be
    phase,          \* "idle", "tx", "rebalance", "panic", or "misuse"
                    \* (a panic that is the caller's fault)
    todo,           \* "rebalance": the nodes the loop has not visited
    txs, ops, dels  \* counters for the bounds

vars == <<load, node, rootNode, dirty, gens, ref, phase, todo, txs, ops, dels>>

none == 0       \* Get's nil

base == gens[1]

\* A function from the keys of a sequence of leaf inodes to their values.
KV(inodes) == [k \in {inodes[i].key : i \in 1..Len(inodes)} |->
                 inodes[CHOOSE i \in 1..Len(inodes) : inodes[i].key = k].value]

Sorted(inodes) == \A i \in 2..Len(inodes) : inodes[i - 1].key < inodes[i].key

rootView == IF rootNode # 0 THEN rootNode ELSE base.root

store == [node |-> node, dirty |-> dirty, panic |-> FALSE]

leafInode(k, v) == [key |-> k, value |-> v, child |-> 0]

Init ==
    /\ load \in Loads
    /\ LET v0 == Min(load.vals)
       IN  /\ node = (1 :> newNode(TRUE, 0, [k \in 1..load.init |-> leafInode(k, v0)]))
           /\ ref = [k \in 1..load.init |-> v0]
    /\ rootNode = 1 /\ dirty = {1}
    /\ gens = <<[root |-> 0, kv |-> <<>>]>>
    /\ phase = "tx" /\ todo = {} /\ txs = 0 /\ ops = 0 /\ dels = 0

----------------------------------------------------------------------------
\* Garbage collection: what the given roots do not reach is gone, and what
\* they reach gets new addresses, in the order of a walk from the roots.
Reachable(heap, roots) ==
    FoldLeft(LAMBDA seen, a : IF a \in ToSet(seen) THEN seen ELSE Append(seen, a), <<>>,
             FlattenSeq([i \in 1..Len(roots) |-> walk(heap, roots[i])]))

\* The position of address a in order.
newAddress(order, a) == IF a = 0 THEN 0 ELSE CHOOSE i \in 1..Len(order) : order[i] = a

moved(order, n) ==
    [n EXCEPT !.inodes = [j \in 1..Len(@) |-> [@[j] EXCEPT !.child = newAddress(order, @)]]]

Collect(heap, gs) ==
    \E order \in {Reachable(heap, SelectSeq([i \in 1..Len(gs) |-> gs[i].root],
                                           LAMBDA r : r # 0))} :
        /\ node' = [i \in 1..Len(order) |-> moved(order, heap[order[i]])]
        /\ gens' = [i \in 1..Len(gs) |-> [gs[i] EXCEPT !.root = newAddress(order, @)]]

\* The bucket's context is gone: the transaction is closed.
closeTx ==
    /\ rootNode' = 0 /\ dirty' = {} /\ todo' = {} /\ ops' = 0 /\ dels' = 0
    /\ UNCHANGED txs

\* The transaction is over and has published nothing.
abandoned ==
    /\ closeTx
    /\ ref' = base.kv
    /\ Collect(node, <<base>>)

\* A panic in Commit: nothing is published, Update's deferred rollback
\* drops the transaction and the panic goes on to its caller.
panicked == phase' = "panic" /\ abandoned

----------------------------------------------------------------------------
Begin ==
    /\ phase = "idle" /\ txs < load.txs
    /\ phase' = "tx" /\ txs' = txs + 1
    /\ ref' = base.kv
    /\ Collect(node, <<base>>)
    /\ UNCHANGED <<rootNode, dirty, todo, ops, dels>>

\* Bucket.writableRoot
writableRoot ==
    IF rootNode # 0 THEN [s |-> store, root |-> rootNode]
    ELSE [s |-> Alloc(store, copyNode(node[base.root], 0)), root |-> NextAddress(store)]

\* Cursor.seek finds the leaf of k from the root view, Cursor.node makes the
\* path to it writable below the writable root w.
writableLeaf(w, k) == cursorNode(w.s, w.root, searchPath(node, rootView, k))

\* The tail of Put and Delete: the leaf r that the cursor found becomes n.
writeLeaf(w, r, n) ==
    /\ node' = [r.s.node EXCEPT ![r.leaf] = n]
    /\ dirty' = r.s.dirty
    /\ rootNode' = w.root

Put(k, v) ==
    /\ phase = "tx" /\ ops < load.ops
    /\ \E w \in {writableRoot} : \E r \in {writableLeaf(w, k)} :
           writeLeaf(w, r, put(r.s.node[r.leaf], k, leafInode(k, v)))
    /\ ref' = (k :> v) @@ ref
    /\ ops' = ops + 1
    /\ UNCHANGED <<gens, phase, todo, txs, dels>>

Delete(k) ==
    /\ phase = "tx" /\ ops < load.ops /\ dels < load.dels
    /\ Get(node, rootView, k, none) # none
    /\ \E w \in {writableRoot} : \E r \in {writableLeaf(w, k)} :
           writeLeaf(w, r, del(r.s.node[r.leaf], k))
    /\ ref' = [j \in DOMAIN ref \ {k} |-> ref[j]]
    /\ ops' = ops + 1 /\ dels' = dels + 1
    /\ UNCHANGED <<gens, phase, todo, txs>>

\* Commit calls Bucket.rebalance, which visits the dirty nodes in the order
\* of a Go map's iteration.  A node that is not unbalanced is left alone, and
\* no other node is unbalanced when the loop looks at it: del marks a branch
\* only in rebalance, which goes on to rebalance that branch at once.
Commit ==
    /\ phase = "tx"
    /\ phase' = "rebalance"
    /\ todo' = {a \in dirty : node[a].unbalanced}
    /\ Cardinality(todo') <= MaxUnbalanced
    /\ ops' = 0 /\ dels' = 0
    /\ UNCHANGED <<node, rootNode, dirty, gens, ref, txs>>

Rebalance(a) ==
    /\ phase = "rebalance" /\ a \in todo
    /\ \E s \in {rebalance(store, a)} :
         IF s.panic THEN panicked
         ELSE /\ node' = s.node /\ dirty' = s.dirty
              /\ todo' = todo \ {a}
              /\ UNCHANGED <<rootNode, gens, ref, phase, txs, ops, dels>>

\* Bucket.publishRoot: the root of the store s after the spill.
publishedRoot(s) == IF rootNode = 0 THEN base.root ELSE rootOf(s, rootNode)

detachPublishedNodes(s) == [a \in s.dirty |-> [s.node[a] EXCEPT !.parent = 0]] @@ s.node

\* Bucket.spill, Bucket.publishRoot, and the store to DB.state.
SpillAndPublish ==
    /\ phase = "rebalance" /\ todo = {}
    /\ \E s \in {IF rootNode = 0 THEN store ELSE finalize(store, rootNode)} :
         IF s.panic THEN panicked
         ELSE /\ Collect(detachPublishedNodes(s),
                         <<[root |-> publishedRoot(s), kv |-> ref]>>
                            \o IF base.root = 0 THEN <<>> ELSE <<base>>)
              /\ phase' = "idle"
              /\ closeTx
              /\ UNCHANGED ref

\* The creating transaction's rollback would leave no bucket.
Rollback ==
    /\ phase = "tx" /\ base.root # 0
    /\ phase' = "idle" /\ abandoned

Done ==
    /\ phase = "idle" /\ txs = load.txs
    /\ UNCHANGED vars

Transact == Begin \/ Commit \/ SpillAndPublish \/ Rollback \/ Done \/ \E a \in todo : Rebalance(a)

Write == \E k \in load.keys : Delete(k) \/ \E v \in load.vals : Put(k, v)

Next == (Transact \/ Write) /\ UNCHANGED load

Spec == Init /\ [][Next]_vars

----------------------------------------------------------------------------
(* Properties.                                                             *)

\* The tree below root holds exactly kv: a walk over the leaves meets the keys
\* in order, and Bucket.Get finds every one of them and no other.
Holds(root, kv) ==
    /\ \E leaves \in {LeafInodes(node, root)} : Sorted(leaves) /\ KV(leaves) = kv
    /\ \A k \in load.keys : Get(node, root, k, none) =
                           IF k \in DOMAIN kv THEN kv[k] ELSE none

\* A transaction reads its own writes: between any two calls the bucket's view
\* (rootView) holds what the Puts and Deletes so far have made of the base.
ReadYourWrites == phase = "tx" => Holds(rootView, ref)

\* What Commit published stays readable, in full, from the root it published,
\* while later transactions copy, merge and split nodes of the same tree: no
\* dirty node is part of it (bucket.go:93).
GenerationsIntact ==
    \A i \in 1..Len(gens) : gens[i].root # 0 =>
        /\ Holds(gens[i].root, gens[i].kv)
        /\ ToSet(walk(node, gens[i].root)) \cap dirty = {}

\* "A well-formed database yields no errors" (tx_check.go:16), and "the check
\* stays clean once deletions have forced rebalancing/merging" (tx_test.go:45):
\* Tx.Check reports no error on a published bucket.
CheckClean ==
    \A i \in 1..Len(gens) : gens[i].root # 0 => checkBucket(node, gens[i].root)

\* "Commit publishes one new globally consistent state" (tx.go:279): rebalance
\* and finalize never hit an assertion or an index out of range, so Commit
\* does not panic.
NoPanic == phase # "panic"

\* All leaves of the tree below n have the same depth d.
RECURSIVE DepthIs(_, _)
DepthIs(n, d) ==
    IF node[n].isLeaf THEN d = 0
    ELSE d > 0 /\ \A c \in Children(node[n]) : DepthIs(c, d - 1)

\* Splits and merges keep the tree that a Commit publishes a B+tree (node.go:248
\* and 302): leaves of one depth, no node left that finalize should have split,
\* and no branch that rebalance should have collapsed or merged.
Balanced ==
    phase = "idle" /\ base.root # 0 => \E nodes \in {ToSet(walk(node, base.root))} :
        /\ \E d \in 0..Cardinality(nodes) : DepthIs(base.root, d)
        /\ \A a \in nodes :
             /\ fits(node[a])
             /\ node[a].isLeaf \/ Len(node[a].inodes) >= minKeys(node[a])
=============================================================================
