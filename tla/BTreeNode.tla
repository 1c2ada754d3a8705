----------------------------- MODULE BTreeNode -----------------------------
(***************************************************************************)
(* The B+tree node algorithms of node.go, bucket.go and cursor.go as       *)
(* operators on a store                                                    *)
(*     s = [node |-> address -> node, dirty |-> addresses, panic]          *)
(* where dirty is Bucket.dirty and panic records that the Go code has      *)
(* panicked, after which s does not change.  Addresses and keys are        *)
(* positive numbers, 0 is the nil pointer and the empty key; positions in  *)
(* a sequence of inodes count from 1.                                      *)
(*                                                                         *)
(* Sizes: every key has the same length, which InodeBytes includes, and a  *)
(* value is represented by its length.                                     *)
(***************************************************************************)
EXTENDS Integers, SequencesExt

CONSTANTS
    NodeHeaderBytes,    \* nodeHeaderOverheadBytes
    InodeBytes,         \* nodeInodeOverheadBytes + the length of a key
    MaxNodeBytes,       \* defaultMaxNodeSizeBytes
    MinMergeBytes,      \* defaultMinNodeMergeBytes
    SplitBytes          \* int(defaultMaxNodeSizeBytes * FillPercent)

Panic(s) == [s EXCEPT !.panic = TRUE]

newNode(isLeaf, parent, inodes) ==
    [isLeaf |-> isLeaf, key |-> 0, parent |-> parent,
     unbalanced |-> FALSE, spilled |-> FALSE, inodes |-> inodes]

\* A new node enters the dirty set; NextAddress(s) is its address.
NextAddress(s) == Cardinality(DOMAIN s.node) + 1

Alloc(s, n) ==
    [s EXCEPT !.node = @ @@ (NextAddress(s) :> n), !.dirty = @ \cup {NextAddress(s)}]

Children(n) == {n.inodes[i].child : i \in 1..Len(n.inodes)}

\* The dirty nodes among kids get the parent p.
Reparent(s, kids, p) ==
    [s EXCEPT !.node = [a \in kids \cap s.dirty |-> [@[a] EXCEPT !.parent = p]] @@ @]

----------------------------------------------------------------------------
(* One node.                                                               *)

minKeys(n) == IF n.isLeaf THEN 1 ELSE 2

size(n) ==
    FoldLeft(LAMBDA sz, in : sz + InodeBytes + in.value, NodeHeaderBytes, n.inodes)

sizeLessThan(n, v) == n.inodes = <<>> \/ size(n) < v

\* sort.Search for the first inode whose key is not below key.
sortSearch(inodes, key) ==
    Min({i \in 1..(Len(inodes) + 1) : i > Len(inodes) \/ inodes[i].key >= key})

HasKey(inodes, key) == \E i \in 1..Len(inodes) : inodes[i].key = key

\* Mutant: a key that is there already is inserted once more.
putDuplicates(n, oldKey, inode) ==
    [n EXCEPT !.inodes = InsertAt(@, sortSearch(@, oldKey), inode)]

put(n, oldKey, inode) ==
    [n EXCEPT !.inodes = IF HasKey(@, oldKey)
                         THEN ReplaceAt(@, sortSearch(@, oldKey), inode)
                         ELSE InsertAt(@, sortSearch(@, oldKey), inode)]

\* Mutant: the node is not marked for rebalancing.
delUnmarked(n, key) ==
    IF HasKey(n.inodes, key) THEN [n EXCEPT !.inodes = RemoveAt(@, sortSearch(@, key))] ELSE n

del(n, key) ==
    IF HasKey(n.inodes, key)
    THEN [n EXCEPT !.inodes = RemoveAt(@, sortSearch(@, key)), !.unbalanced = TRUE]
    ELSE n

----------------------------------------------------------------------------
(* Copy-on-write.                                                          *)

copyNode(n, parent) ==
    [n EXCEPT !.parent = parent, !.unbalanced = FALSE, !.spilled = FALSE]

\* Mutant: the published child itself is written.
childForWriteInPlace(s, p, i) == s

\* The i-th child of p becomes a dirty copy, unless it is one already.
childForWrite(s, p, i) ==
    LET c == s.node[p].inodes[i].child
    IN  IF c \in s.dirty THEN s
        ELSE [Alloc(s, copyNode(s.node[c], p))
                EXCEPT !.node[p].inodes[i].child = NextAddress(s)]

childAt(s, p, i) ==
    IF s.panic \/ s.node[p].isLeaf THEN Panic(s) ELSE childForWrite(s, p, i)

\* Cursor.node: copy the path down to the leaf the cursor stands on.
RECURSIVE cursorNode(_, _, _), cursorDown(_, _, _)
cursorNode(s, n, path) ==
    IF path = <<>> THEN [s |-> s, leaf |-> n]
    ELSE cursorDown(childAt(s, n, Head(path)), n, path)

cursorDown(s, n, path) == cursorNode(s, s.node[n].inodes[Head(path)].child, Tail(path))

----------------------------------------------------------------------------
(* Searching.                                                              *)

searchNode(n, key) ==
    IF HasKey(n.inodes, key) THEN sortSearch(n.inodes, key)
    ELSE Max({1, sortSearch(n.inodes, key) - 1})

\* The positions on the cursor's stack above the leaf.
RECURSIVE searchPath(_, _, _), searchChild(_, _, _, _)
searchPath(node, n, key) ==
    IF node[n].isLeaf THEN <<>> ELSE searchChild(node, n, key, searchNode(node[n], key))

searchChild(node, n, key, i) == <<i>> \o searchPath(node, node[n].inodes[i].child, key)

\* The leaf at the end of such a path.
RECURSIVE leafAt(_, _, _)
leafAt(node, n, path) ==
    IF path = <<>> THEN node[n]
    ELSE leafAt(node, node[n].inodes[Head(path)].child, Tail(path))

leafGet(leaf, key, none) ==
    IF HasKey(leaf.inodes, key) THEN leaf.inodes[sortSearch(leaf.inodes, key)].value ELSE none

\* Bucket.Get below root n: the value of key, or none.
Get(node, n, key, none) == leafGet(leafAt(node, n, searchPath(node, n, key)), key, none)

----------------------------------------------------------------------------
(* Rebalancing.                                                            *)

\* Mutant: a root with a single child stays.
collapseRootSkipped(s, n) == s

\* n takes over what its child c holds, and c is detached.
takeOver(s, n, c) ==
    [Reparent([s EXCEPT !.node[n].isLeaf = s.node[c].isLeaf,
                        !.node[n].inodes = s.node[c].inodes], Children(s.node[c]), n)
        EXCEPT !.node[c].parent = 0]

takeOverOnly(s, n) == takeOver(s, n, s.node[n].inodes[1].child)

\* A root branch with a single child takes over what the child holds.
collapseRoot(s, n) ==
    IF s.node[n].isLeaf \/ Len(s.node[n].inodes) # 1 THEN s
    ELSE takeOverOnly(childAt(s, n, 1), n)

\* The inodes of right move to left, and right leaves the parent p.
merge(s, p, left, right) ==
    [Reparent(s, Children(s.node[right]), left)
        EXCEPT !.node[left].inodes = @ \o s.node[right].inodes,
               !.node[p] = del(@, s.node[right].key)]

mergeNext(s, p, n) == IF s.panic THEN s ELSE merge(s, p, n, s.node[p].inodes[2].child)

mergePrev(s, p, n, i) == IF s.panic THEN s ELSE merge(s, p, s.node[p].inodes[i - 1].child, n)

\* Merge n, the i-th child of p, with its next sibling if it is the first
\* child, else with the previous one.
mergeSibling(s, p, n, i) ==
    IF Len(s.node[p].inodes) <= 1 THEN Panic(s)
    ELSE IF i = 1 THEN mergeNext(childAt(s, p, 2), p, n)
    ELSE mergePrev(childAt(s, p, i - 1), p, n, i)

childIndex(s, p, n) == sortSearch(s.node[p].inodes, s.node[n].key)

\* A node that is too small leaves its parent p, by itself or by a merge.
shrinkParent(s, p, n) ==
    IF s.node[n].inodes = <<>> THEN [s EXCEPT !.node[p] = del(@, s.node[n].key)]
    ELSE mergeSibling(s, p, n, childIndex(s, p, n))

RECURSIVE rebalance(_, _), rebalanceSmall(_, _)
rebalance(s, n) ==
    IF s.panic \/ ~s.node[n].unbalanced THEN s
    ELSE rebalanceSmall([s EXCEPT !.node[n].unbalanced = FALSE], n)

rebalanceSmall(s, n) ==
    IF size(s.node[n]) > MinMergeBytes /\ Len(s.node[n].inodes) > minKeys(s.node[n]) THEN s
    ELSE IF s.node[n].parent = 0 THEN collapseRoot(s, n)
    ELSE rebalance(shrinkParent(s, s.node[n].parent, n), s.node[n].parent)

----------------------------------------------------------------------------
(* Splitting and finalizing.                                               *)

\* How many inodes stay in the left node.
splitIndex(n, threshold) ==
    LET last == Len(n.inodes) - minKeys(n) - 1
    IN  Min({last} \cup {i \in minKeys(n)..last :
                size([n EXCEPT !.inodes = SubSeq(@, 1, i + 1)]) > threshold})

fits(n) == Len(n.inodes) <= 2 * minKeys(n) \/ sizeLessThan(n, MaxNodeBytes)

\* A root that is split gets a parent first.
withParent(s, n) ==
    IF s.node[n].parent # 0 THEN s
    ELSE [Alloc(s, newNode(FALSE, 0, <<>>)) EXCEPT !.node[n].parent = NextAddress(s)]

\* All but the first k inodes of n move to a new node.
moveRight(s, n, k) ==
    [Alloc(s, newNode(s.node[n].isLeaf, s.node[n].parent,
                      SubSeq(s.node[n].inodes, k + 1, Len(s.node[n].inodes))))
        EXCEPT !.node[n].inodes = SubSeq(@, 1, k)]

splitTwo(s, n) == moveRight(withParent(s, n), n, splitIndex(s.node[n], SplitBytes))

\* The nodes n becomes; the one splitTwo allocated is split on.
RECURSIVE split(_, _), splitRest(_, _)
split(s, n) ==
    IF fits(s.node[n]) THEN [s |-> s, nodes |-> <<n>>] ELSE splitRest(splitTwo(s, n), n)

splitRest(s, n) == [split(s, NextAddress(s) - 1) EXCEPT !.nodes = <<n>> \o @]

\* Mutant: the separator keeps the key under which the node was found.
wireParentOldKey(s, a) ==
    LET nd    == s.node[a]
        first == nd.inodes[1].key
        key   == IF nd.key = 0 THEN first ELSE nd.key
    IN  IF s.panic THEN s
        ELSE IF nd.parent = 0 THEN [s EXCEPT !.node[a].spilled = TRUE]
        ELSE IF nd.inodes = <<>> THEN Panic(s)
        ELSE [s EXCEPT !.node[nd.parent] =
                           put(@, key, [key |-> key, value |-> 0, child |-> a]),
                       !.node[a].key = key, !.node[a].spilled = TRUE]

\* The parent's inode is made to point at the finalized node a.
wireParent(s, a) ==
    LET nd    == s.node[a]
        first == nd.inodes[1].key
        key   == IF nd.key = 0 THEN first ELSE nd.key
    IN  IF s.panic THEN s
        ELSE IF nd.parent = 0 THEN [s EXCEPT !.node[a].spilled = TRUE]
        ELSE IF nd.inodes = <<>> THEN Panic(s)
        ELSE [s EXCEPT !.node[nd.parent] =
                           put(@, key, [key |-> first, value |-> 0, child |-> a]),
                       !.node[a].key = first, !.node[a].spilled = TRUE]

\* finalizeChildren is the loop of finalize: its length is that of n.inodes
\* on entry, its body reads the current n.inodes.  finalize of a child calls
\* finalize of its parent again as long as the parent is not spilled.
RECURSIVE finalize(_, _), finalizeChildren(_, _, _, _), finalizeChild(_, _),
          finalizeParent(_, _)
finalizeChild(s, c) == IF c \in s.dirty THEN finalize(s, c) ELSE s

finalizeChildren(s, n, i, len) ==
    IF s.panic \/ i > len THEN s
    ELSE IF i > Len(s.node[n].inodes) THEN Panic(s)
    ELSE finalizeChildren(finalizeChild(s, s.node[n].inodes[i].child), n, i + 1, len)

finalizeParent(s, n) ==
    IF s.panic \/ s.node[n].parent = 0 THEN s
    ELSE IF s.node[s.node[n].parent].spilled THEN s
    ELSE finalize(s, s.node[n].parent)

wireParents(r) == FoldLeft(wireParent, r.s, r.nodes)

splitAndWire(s, n) == IF s.panic THEN s ELSE wireParents(split(s, n))

finalize(s, n) ==
    IF s.panic \/ s.node[n].spilled THEN s
    ELSE finalizeParent(splitAndWire(finalizeChildren(s, n, 1, Len(s.node[n].inodes)), n), n)

RECURSIVE rootOf(_, _)
rootOf(s, n) == IF s.node[n].parent = 0 THEN n ELSE rootOf(s, s.node[n].parent)

----------------------------------------------------------------------------
(* Reading a whole tree.                                                   *)

\* The nodes of the tree below n, depth first, one entry per visit.
RECURSIVE walk(_, _)
walk(node, n) ==
    <<n>> \o IF node[n].isLeaf THEN <<>>
             ELSE FlattenSeq([i \in 1..Len(node[n].inodes) |->
                                walk(node, node[n].inodes[i].child)])

leafInodes(n) == IF n.isLeaf THEN n.inodes ELSE <<>>

LeavesOf(node, w) == FlattenSeq([i \in 1..Len(w) |-> leafInodes(node[w[i]])])

\* The inodes of the leaves below n, from left to right.
LeafInodes(node, n) == LeavesOf(node, walk(node, n))

\* tx_check.go: the node alone.
checkNode(n) ==
    \A i \in 1..Len(n.inodes) :
        /\ n.inodes[i].key # 0
        /\ i > 1 => n.inodes[i - 1].key < n.inodes[i].key
        /\ n.isLeaf <=> n.inodes[i].child = 0
        /\ n.isLeaf \/ n.inodes[i].value = 0

separatorsMatch(node, n) ==
    \A i \in 1..Len(n.inodes) :
        /\ node[n.inodes[i].child].inodes # <<>>
        /\ n.inodes[i].key = node[n.inodes[i].child].inodes[1].key

\* The check of the nodes in the order w of the walk.
checkWalk(node, w) ==
    /\ \A i, j \in 1..Len(w) : w[i] = w[j] => i = j
    /\ \A i \in 1..Len(w) :
        checkNode(node[w[i]]) /\ (node[w[i]].isLeaf \/ separatorsMatch(node, node[w[i]]))

\* tx_check.go: no node is reached twice, every separator is the first key of
\* its child.
checkBucket(node, root) == checkWalk(node, walk(node, root))
=============================================================================
