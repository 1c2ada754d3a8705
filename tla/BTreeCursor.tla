---------------------------- MODULE BTreeCursor ----------------------------
(***************************************************************************)
(* A cursor on the bucket of module BTree (cursor.go, and what bucket.go   *)
(* iterates).  The cursor belongs to the open transaction; First, Last,    *)
(* Next, Prev, Seek and Delete are called between the transaction's Puts   *)
(* and Deletes.  Its stack holds addresses of nodes: a node on it may have *)
(* been copied since (the stack is then behind the tree) or, if it was     *)
(* dirty already, written in place.  Positions count from 1, so the index  *)
(* -1 that last() leaves in an empty leaf is 0 here.                       *)
(***************************************************************************)
EXTENDS BTree

CONSTANT CursorLoads    \* the loads on which the cursor is used

VARIABLES
    stack,          \* Cursor.stack: sequence of [node, index]
    ret,            \* the key the last call returned, none for nil
    mode,           \* what was called since First, Last or Seek: "fresh":
                    \* Next and Prev, "trimmed": Next and Cursor.Delete,
                    \* "stale": anything else
    looping         \* Last is in its loop

cvars == <<stack, ret, mode, looping>>
allvars == <<vars, cvars>>

elemRef(n, i) == [node |-> n, index |-> i]

top(st) == st[Len(st)]

count(r) == Len(node[r.node].inodes)

isLeaf(r) == node[r.node].isLeaf

childOf(r) == node[r.node].inodes[r.index].child

\* Cursor.keyValue, and when its index is out of range.
keyValue(st) ==
    IF count(top(st)) = 0 \/ top(st).index > count(top(st)) THEN none
    ELSE node[top(st).node].inodes[top(st).index].key

keyValuePanics(st) == st = <<>> \/ (top(st).index = 0 /\ count(top(st)) > 0)

\* What a call of the cursor leaves and returns.
result(st, k) == [stack |-> st, key |-> k]
current(st)   == result(st, keyValue(st))

\* Cursor.goToFirstElementOnTheStack and Cursor.last: down to a leaf.
RECURSIVE goToFirst(_), goToLast(_)
goToFirst(st) ==
    IF isLeaf(top(st)) THEN st
    ELSE goToFirst(Append(st, elemRef(childOf(top(st)), 1)))

lastRef(n) == elemRef(n, Len(node[n].inodes))

goToLast(st) ==
    IF isLeaf(top(st)) THEN st
    ELSE goToLast(Append(st, lastRef(childOf(top(st)))))

\* The stack up to its i-th element, whose index moves by d.
moveAt(st, i, d) == Append(SubSeq(st, 1, i - 1), [st[i] EXCEPT !.index = @ + d])

hasNext(st) == {i \in 1..Len(st) : st[i].index < count(st[i])}
hasPrev(st) == {i \in 1..Len(st) : st[i].index > 1}

stepForward(st) == goToFirst(moveAt(st, Max(hasNext(st)), 1))
stepBack(st)    == goToLast(moveAt(st, Max(hasPrev(st)), -1))

\* Mutant: next stops at a leaf without entries.
nextAtEmpty(st) ==
    IF hasNext(st) = {} THEN result(st, none) ELSE current(stepForward(st))

\* Cursor.next: leaves without entries are passed over, and at the end the
\* stack stays where it is.
RECURSIVE next(_), nextFrom(_)
next(st) == IF hasNext(st) = {} THEN result(st, none) ELSE nextFrom(stepForward(st))

nextFrom(st) == IF count(top(st)) = 0 THEN next(st) ELSE current(st)

\* Mutant: first returns what the first leaf holds, even if it is empty.
firstLeafOnly == current(goToFirst(<<elemRef(rootView, 1)>>))

firstFrom(st) == IF count(top(st)) = 0 THEN current(next(st).stack) ELSE current(st)

\* Cursor.first
first == firstFrom(goToFirst(<<elemRef(rootView, 1)>>))

\* Mutant: prev does not decrement the index.
prevUnmoved(st) ==
    IF st = <<>> THEN result(st, none)
    ELSE IF hasPrev(st) = {} THEN result(first.stack, none)
    ELSE current(goToLast(moveAt(st, Max(hasPrev(st)), 0)))

\* Cursor.prev: at the beginning the cursor goes to the first entry.
prev(st) ==
    IF st = <<>> THEN result(st, none)
    ELSE IF hasPrev(st) = {} THEN result(first.stack, none)
    ELSE current(stepBack(st))

\* Cursor.search, searchNode and nsearch: the stack for key k below node n.
RECURSIVE search(_, _, _), searchBelow(_, _, _, _)
search(st, n, k) ==
    IF node[n].isLeaf THEN Append(st, elemRef(n, sortSearch(node[n].inodes, k)))
    ELSE searchBelow(st, n, k, searchNode(node[n], k))

searchBelow(st, n, k, i) == search(Append(st, elemRef(n, i)), node[n].inodes[i].child, k)

\* The tail of Seek: from behind the last entry of a leaf to the next leaf.
seekFrom(st) == IF top(st).index > count(top(st)) THEN next(st) ELSE current(st)

\* Bucket.ForEach and Inspect: the keys that the loop from first over next
\* visits, and their number.
RECURSIVE forEach(_)
forEach(r) == IF r.key = none THEN <<>> ELSE <<r.key>> \o forEach(next(r.stack))

recursivelyInspect == Len(forEach(first))

\* Bucket.Stats over the nodes ns of forEachNode; the depth is that of dfsDepth.
inuse(ns) == FoldLeft(LAMBDA sz, a : sz + NodeHeaderBytes
                        + FoldLeft(LAMBDA x, in : x + InodeBytes + in.value, 0, node[a].inodes),
                      0, ns)

branchInuse(ns) == FoldLeft(LAMBDA sz, a : sz + NodeHeaderBytes + InodeBytes * Len(node[a].inodes),
                            0, ns)

RECURSIVE dfsDepth(_)
dfsDepth(n) == 1 + IF node[n].isLeaf THEN 0 ELSE Max({dfsDepth(c) : c \in Children(node[n])})

Stats(ns) ==
    LET leaves   == SelectSeq(ns, LAMBDA a : node[a].isLeaf)
        branches == SelectSeq(ns, LAMBDA a : ~node[a].isLeaf)
    IN  [KeyN        |-> FoldLeft(LAMBDA x, a : x + Len(node[a].inodes), 0, leaves),
         Depth       |-> dfsDepth(rootView),
         LeafInuse   |-> inuse(leaves),
         BranchInuse |-> branchInuse(branches)]

\* Bucket.size
bucketSize(ns) == FoldLeft(LAMBDA sz, a : sz + size(node[a]), 0, ns)

----------------------------------------------------------------------------
calling == phase = "tx" /\ ~looping /\ load \in CursorLoads

\* A call that moves the cursor returns r.
returns(r) == UNCHANGED <<vars, looping>> /\ stack' = r.stack /\ ret' = r.key

CursorFirst == calling /\ mode' = "fresh" /\ returns(first)

CursorSeek(k) ==
    /\ calling /\ mode' = "fresh"
    /\ \E st \in {search(<<>>, rootView, k)} : returns(seekFrom(st))

CursorNext == calling /\ UNCHANGED mode /\ returns(next(stack))

CursorPrev ==
    /\ calling /\ mode' = IF mode = "trimmed" THEN "stale" ELSE mode
    /\ returns(prev(stack))

\* Last goes down to the last leaf; its loop calls prev as long as the leaf it
\* stands on has no entries.
CursorLast ==
    /\ calling /\ looping' = TRUE /\ mode' = "fresh"
    /\ stack' = goToLast(<<lastRef(rootView)>>)
    /\ UNCHANGED <<vars, ret>>

LastLoop ==
    /\ looping
    /\ IF Len(stack) > 1 /\ count(top(stack)) = 0
       THEN stack' = prev(stack).stack /\ UNCHANGED <<ret, looping>>
       ELSE looping' = FALSE /\ ret' = keyValue(stack) /\ UNCHANGED stack
    /\ UNCHANGED <<vars, mode>>

\* The transaction is over, and so is its cursor.
dropped == stack' = <<>> /\ ret' = none /\ mode' = "stale" /\ looping' = FALSE

\* Mutant: the descent takes the first child everywhere.
positionsFirst(st) == [i \in 1..(Len(st) - 1) |-> 1]

\* Cursor.node descends from the writable root by the positions on the stack.
positions(st) == [i \in 1..(Len(st) - 1) |-> st[i].index]

deleteAt(w, r, k) ==
    IF r.s.panic THEN panicked /\ dropped
    ELSE /\ writeLeaf(w, r, del(r.s.node[r.leaf], k))
         /\ ref' = [j \in DOMAIN ref \ {k} |-> ref[j]]
         /\ ops' = ops + 1 /\ dels' = dels + 1
         /\ mode' = IF mode = "stale" THEN "stale" ELSE "trimmed"
         /\ UNCHANGED <<gens, phase, todo, txs, stack, ret, looping>>

\* Delete on a cursor that stands nowhere.
misused == phase' = "misuse" /\ abandoned /\ dropped

CursorDelete ==
    /\ calling /\ ops < load.ops /\ dels < load.dels
    /\ IF keyValuePanics(stack) THEN misused
       ELSE \E w \in {writableRoot} :
                \E r \in {cursorNode(w.s, w.root, positions(stack))} :
                    deleteAt(w, r, keyValue(stack))

\* A Put or Delete of the bucket leaves the cursor behind.
WriteBehind ==
    /\ ~looping /\ Write
    /\ mode' = "stale"
    /\ UNCHANGED <<stack, ret, looping>>

Transaction ==
    /\ ~looping /\ dropped
    /\ Transact

\* A call that panicked has ended the transaction.
Stopped == phase \in {"panic", "misuse"} /\ UNCHANGED allvars

CursorInit == Init /\ stack = <<>> /\ ret = none /\ mode = "stale" /\ looping = FALSE

CursorStep ==
    /\ \/ CursorFirst \/ CursorLast \/ LastLoop \/ CursorNext \/ CursorPrev
       \/ CursorDelete \/ WriteBehind \/ Transaction \/ Stopped
       \/ \E k \in load.keys : CursorSeek(k)
    /\ UNCHANGED load

\* A goroutine in the loop of Last goes on.
CursorSpec == CursorInit /\ [][CursorStep]_allvars /\ WF_allvars(LastLoop)
----------------------------------------------------------------------------
(* Properties.                                                             *)

\* The keys of the transaction's view, in order.
SortedKeys == SetToSortSeq(DOMAIN ref, <)

least(ks)    == IF ks = {} THEN none ELSE Min(ks)
greatest(ks) == IF ks = {} THEN none ELSE Max(ks)

after(k) == least({j \in DOMAIN ref : j > k})

\* How many entries lie before the cursor, and whether it stands on one.
leavesBefore(st) ==
    LET w == walk(node, rootView)
    IN  LeavesOf(node, SubSeq(w, 1, SelectInSeq(w, LAMBDA a : a = top(st).node) - 1))

passed(st) == Len(leavesBefore(st)) + Max({0, Min({top(st).index - 1, count(top(st))})})

onEntry(st) == keyValue(st) # none

entry(i) == IF i \in 1..Len(SortedKeys) THEN SortedKeys[i] ELSE none

\* Three ways to count agree in every state of a transaction, on half-written
\* trees too: ForEach visits the keys of the view in order, Inspect and Stats
\* count them, and the bytes of Stats add up to those of Bucket.size.  (None of
\* this depends on the cursor: states in which it is unpositioned have every
\* tree.)
CountsAgree ==
    phase = "tx" /\ stack = <<>> => \E ns \in {walk(node, rootView)} : \E st \in {Stats(ns)} :
        /\ forEach(first) = SortedKeys
        /\ recursivelyInspect = st.KeyN /\ st.KeyN = Cardinality(DOMAIN ref)
        /\ st.LeafInuse + st.BranchInuse = bucketSize(ns)
        /\ DepthIs(rootView, st.Depth - 1)

\* First, Seek and Last find the least key, the least key that is not below the
\* one sought, and the greatest key of the transaction's view, in a tree whose
\* leaves deletions have emptied too (cursor.go:54, 79 and 125).
PositioningExact ==
    [][/\ CursorFirst => ret' = least(DOMAIN ref)
       /\ \A k \in load.keys : CursorSeek(k) => ret' = least({j \in DOMAIN ref : j >= k})
       /\ LastLoop /\ ~looping' => ret' = greatest(DOMAIN ref)]_allvars

\* "Next moves the cursor to the next item in the bucket" (cursor.go:91): on a
\* cursor with no write behind it Next returns the entry that follows, nil
\* after the last one, however often it is called; it never skips an entry,
\* emptied leaves or not.
NextInOrder ==
    [][mode = "fresh" /\ CursorNext =>
        ret' = entry(passed(stack) + (IF onEntry(stack) THEN 2 ELSE 1))]_allvars

\* Deletions of this transaction have emptied a leaf below a branch.
emptiedLeaf ==
    \E a \in Range(walk(node, rootView)) : a # rootView /\ node[a].isLeaf /\ node[a].inodes = <<>>

\* "Prev moves the cursor to the previous item in the bucket and returns its key
\* and value" (cursor.go:102): on such a cursor Prev returns the entry before,
\* wherever First, Last, Seek, Next and Prev have left the cursor, and nil only in
\* front of the first one, as long as no leaf is emptied; prev does not pass over
\* an emptied leaf as next does (cursor.go:232).
PrevInOrder ==
    [][mode = "fresh" /\ CursorPrev /\ ~emptiedLeaf => ret' = entry(passed(stack))]_allvars

\* Cursor.Delete removes the entry the cursor stands on and no other: the
\* positions of a stack that is behind the tree still lead to the leaf of its
\* key, and no assertion of Cursor.node fails (cursor.go:327).
CursorDeleteExact ==
    [][(dels' > dels \/ phase' = "panic") /\ ~keyValuePanics(stack) /\ CursorDelete =>
        /\ phase' = "tx"
        /\ \E leaves \in {LeafInodes(node', rootView')} :
               KV(leaves) = [k \in DOMAIN ref \ {keyValue(stack)} |-> ref[k]]]_allvars

\* "for key, _ := c.First(); ...; key, _ = c.Next() { c.Delete() }"
\* (cursor_test.go:236): a loop that deletes what it visits visits every entry,
\* as long as the leaf under the cursor is a published one: deletions go to its
\* copy (cursor.go:145).
DeleteLoopOnPublished ==
    [][mode = "trimmed" /\ ret # none /\ top(stack).node \notin dirty /\ CursorNext =>
        ret' = after(ret)]_allvars

\* "If this is an empty node we call prev to find the last node that is not
\* empty" (cursor.go:79): the loop of Last ends if the bucket has an entry left.
LastReturns == looping /\ DOMAIN ref # {} ~> ~looping
=============================================================================
