# A TLA+ verification of vmbolt

vmbolt is an in-memory key/value store with bbolt's interface. This directory
holds TLA+ models of it, the TLC runs that check them on small instances, and
proofs, checked by TLAPS, of what the transaction layer, `Update`, `View` and
`Batch`, the bucket directory, the consistency check and the statistics guarantee
for any number of goroutines, buckets and keys.

## The system

| Part | State | Operations | What makes it hard |
|---|---|---|---|
| DB (`db.go`) | `opened`, the atomic pointer `state`, `rwlock`, `OpenTxN` | `Open`, `Begin`, `Update`, `View`, `Close` | readers take no lock; `Close` clears `opened` and `state` in two steps while `beginTx` reads them in two steps; every exit must release `rwlock` once |
| Tx (`tx.go`) | `base`, `bctx`, `created`, `deleted`, `commitHandlers` | `Bucket`, `CreateBucket(IfNotExists)`, `DeleteBucket`, `Cursor`, `ForEach`, `OnCommit`, `Commit`, `Rollback` | four partial views of one directory; handles that outlive their bucket; the new state is stored before the lock is released |
| Published state (`bucket_state.go`) | directory of roots | replaced by `Commit` | shared by pointer with readers and with later states |
| Bucket (`bucket.go`) | `rootNode`, `dirty` | `Get`, `Put`, `Delete`, `rebalance`, `spill`, `publishRoot` | path copying; random order of the dirty nodes |
| Node (`node.go`) | inodes, key, parent, flags | `put`, `del`, `split`, `finalize`, `rebalance` | recursion that goes up and down; children found by remembered keys |
| Cursor (`cursor.go`) | stack of positions | `First` ... `Seek`, `Delete`, `node` | positions used on a tree that has been copied since |
| Batch (`db.go`) | `batch`, its calls, timer, `sync.Once` | `Batch`, `trigger`, `run` | two triggers, retries after a failed call, a concurrent `Close` |
| Check (`tx_check.go`) | a channel, a `WaitGroup` | `Check`; `MustCheck` and `checkErrors` of the tests | a goroutine per bucket, a bounded channel, a `tx.base` that is read again and again |
| Statistics (`tx.go`, `db.go`) | `Tx.stats`, `DB.stats`, `statlock` | `Inc...`, `add`, `Stats`, `Sub` | structures copied and added field by field |
| Snapshot (`snapshot.go`) | a byte stream | `WriteTo`, `CopyFile`, `Restore`, `Open` of a path | a stream cut short by a crash or an error; commits while it is written; one `Update` for all of it |

How they interact: a goroutine begins a transaction (DB), resolves buckets in
its directory (Tx), writes through a handle into copied nodes (Bucket, Cursor,
Node), and `Commit` rebalances and spills every touched bucket, builds a new
directory and stores it (DB). `Batch` drives `Update`. Snapshots read through a
transaction and restore through `Update`.

## Modules

| Module | Models |
|---|---|
| `VmboltDB` | DB and Tx, with the copy-on-write of a bucket's root; a node stands for a whole tree |
| `SnapshotStore` | what transactions promise: snapshots, serial writers, atomic commits |
| `VmboltDBStore` | the refinement mapping from `VmboltDB` to `SnapshotStore` |
| `VmboltDBProofs` | the theorems about `VmboltDB` |
| `VmboltDBRefinement` | the proof that `VmboltDB` implements `SnapshotStore` |
| `ManagedTx`, `ManagedTxProofs` | the ends of `Update`, `View` and a manual transaction, nested and with panics; the theorems |
| `Directory`, `DirectoryProofs` | the cursor over bucket names and `Tx.ForEach` while the directory changes; the theorems |
| `BTreeNode` | the node, search, copy and check algorithms as operators |
| `BTree` | one bucket under successive write transactions, built on `BTreeNode` |
| `BTreeCursor` | a cursor on `BTree`'s bucket, `ForEach`, `Inspect`, `Stats`, `size` |
| `BTreeRestore` | the tree that `Restore` makes of a tree of `BTree` |
| `SnapshotFile`, `SnapshotFileProofs` | `CopyFile`, `Restore`, `Open` and crashes, on top of `SnapshotStore`; the theorems |
| `CheckStream`, `CheckStreamProofs` | the goroutines of `Tx.Check` and their reader; the theorems |
| `Statistics`, `StatisticsProofs` | `Stats` and `TxStats`; the theorems |
| `Batch`, `BatchProofs` | `DB.Batch`; the theorems |
| `MCBTree`, `MCSnapshotFile`, `MCDirectory` | loads and ranges of names for TLC; `MCBTree` has the tree, its cursor and its restored copy in one state space |

### VmboltDB

The variables are the fields of `DB` and of each goroutine's `Tx`, named after
them; `pc` says where a goroutine is between two accesses to shared memory.
Each shared access is a step of its own: `beginTx` / `beginTxLoad` /
`beginTxStats`, `beginRWTx` / `beginRWTxLock` / `beginRWTxLoad`, `Commit` /
`CommitClose`, `Close` / `CloseLock` / `CloseMark` / `CloseState`. Inside
`beginRWTx` and `Commit` the lock is held and everything before the store
touches only the transaction, so these are single steps. A call that returns an
error and changes nothing is a stuttering step.

`heap` gives the key/value map a node holds, so a write that missed its copy
would be seen by every holder of the node. `hname` and `hroot` are the `*Bucket`
objects a transaction has obtained, also those whose bucket was deleted since:
`Put` and `Delete` work through any of them. A node nobody reaches may be
allocated again; `closeTx` clears it, which only identifies states that differ
in unreachable memory. `Goto`, the reachability operators and the free addresses
stand for the Go runtime.

### BTreeNode and BTree

A store `[node, dirty, panic]` is passed through the recursive functions the way
the Go code changes memory. `panic` is set where the code panics or runs into an
index out of range. The loop of `finalize` keeps the length that `range` fixed on
entry and reads the current inodes, as in Go; the loop of `Bucket.rebalance` is
a step per unbalanced dirty node, in any order. `BTree` runs transactions one
after the other, which `VmboltDB` justifies. `gens` are the published trees
together with what was published; a reader is anybody who holds such a root.
Between transactions unreachable nodes are dropped and addresses renumbered.
A load says how a behaviour begins and how far it goes: the initial state is the
transaction that has created the bucket and put the keys `1..init`. Not represented: the sharing of a slice's backing array
between a collapsed root and its former child (nobody reads that child's inodes
afterwards unless it is one of the merged-away nodes of finding 2), and a
`FillPercent` changed by the user during a transaction.

Sizes are scaled down: `NodeHeaderBytes = InodeBytes = 1` and a value counts its
length; `MaxNodeBytes` is 7 (or 11), `MinMergeBytes` a quarter of it and
`SplitBytes` half of it, rounded down, as with the default `FillPercent`. With 7
a leaf of three entries is split and a branch of six children; with 11 leaves
keep two keys after a split.

### Batch

A caller joins a batch (`Join`), waits on its channel (`Receive`) and may run its
function alone (`SoloBegin`, `SoloRun`). A batch is started once (`StartRun`) by
its timer or by the call that filled it, and then begins, calls the functions
one by one, commits, removes a failed call or answers. The critical sections of
`batchMu` contain nothing that blocks and are single steps. A function may
succeed, fail or panic anew at every call.

### BTreeCursor and BTreeRestore

`stack` is the cursor's stack of node addresses and positions, `ret` the key the
last call returned. A node on the stack may since have been copied, so that the
stack is behind the tree, or written in place. `first`, `next`, `prev`, `search`
are functions from stack to stack; the loop of `Last` is a step per round,
because it need not end. `mode` is history: a property about a sequence of moves
speaks only of cursors that nothing but these moves has touched. The bucket's
own writes and the transaction's end are those of `BTree`.

`BTreeRestore` folds the saved entries into a new bucket and finalizes it with
the fill percentage of `Restore`: `BTreeNode` is instantiated a second time with
another `SplitBytes`.

### SnapshotFile

The file is a sequence of tokens; a length and the bytes it announces are one
token, since a reader fails alike on any part of it. `CopyFile` truncates and
then writes a token group per step (`CopyWrite`) or fails (`CopyError`);
`Restore` reads the header, waits for the writer lock (`RestoreBegin`), and reads
buckets and pairs into one write transaction of `SnapshotStore`; `Open` starts
`Restore` when the file begins with the magic. `Crash` may happen at any step and
loses everything but the file. `saved` is history: the view that the last
`CopyFile` was called on. Composing with `SnapshotStore` instead of `VmboltDB` is
what the refinement theorem justifies.

### Directory and ManagedTx

`Directory` has one transaction and keeps the names as `tx.created`,
`tx.deleted` and the base; a cursor keeps the sorted list it was made with and
its position, `ForEach` the names it has still to visit. Contents are left out.
`sort` is `sort.Strings`, given by what it returns: each name as often as before,
in order.

`ManagedTx` has a stack of calls per goroutine, so that functions and commit
handlers can run transactions of their own, and a panic unwinds call by call
through the deferred functions. A manual transaction is the idiom
`defer tx.Rollback()`. Data and a closed database are left to `VmboltDB`.
`uncounted` is history: the transactions begun whose counters `Tx.close` has not yet
added to those of the database.

### CheckStream and Statistics

`CheckStream` reduces what `checkBucket` finds in a tree to a number of errors;
the check itself is `checkBucket` of `BTreeNode`. The capacity of the channel (16)
and the number of errors that `MustCheck` reads (10) are constants.
The caller is `MustCheck`, which reads the channel to its end inside a `View` or
leaves the process, or `checkErrors` of the tests, which returns with the first
error; once it has passed or returned its transaction may end, at any moment.

In `Statistics` adding and copying go field by field under `statlock`. `ended` is
history: what all ended transactions have counted.

## Runs

| Run | Bounds | Shows |
|---|---|---|
| `vmboltdb_transactions` | 2 goroutines that read, write and close; 1 bucket, 1 key; 3 nodes, 2 handles, 1 commit handler | `SnapshotStable`, `DirectoryAgrees`, `OpenTxNExact`, `NoBeginAfterClose`, `LockGranted`; `ImplementsSnapshotStore` and `CommitPublishesView`, the refinement of `SnapshotStore` |
| `btree_bucket` | three loads, see below | of the tree: `ReadYourWrites`, `GenerationsIntact`, `CheckClean`, `NoPanic`, `Balanced`; of the cursor: `PositioningExact`, `NextInOrder`, `PrevInOrder`, `CursorDeleteExact`, `DeleteLoopOnPublished`, `LastReturns`, `CountsAgree`; of a restored tree: `RoundTripLossless` |
| `batch_calls` | 3 callers, batches of 2, 3 batch objects | `ExactlyOnce`, `ResultIsOwn`, `NoLateJoin`, `EveryCallReturns` |
| `snapshotfile_restore` | 2 goroutines, 2 buckets, 1 key | `FileIsView`, `OpenAllOrNothing`, `RestoreAllOrNothing`, `RestoreReturns` |
| `checkstream_safety` | 3 buckets with up to 2 errors, channel of 2, 3 errors read | `NoSendAfterClose`, `PassedIsClean`, `CheckEnds` |
| `statistics_safety` | 2 goroutines, 2 counters, 3 transactions | `CountedOnce`, `CopyIsOneMoment`, `DifferenceGrows` |
| `directory_scan` | 3 names, 3 changes | `ScanIsView`, `ForEachOnce` |
| `managedtx_ends` | 2 goroutines, 2 nested calls, 1 handler | `LockIsOpenWriter`, `CountedWhenClosed`, `PublishedOrNot`, `WriterServed` |
| `vmboltdb_delete` | 1 writer | finding 1 |
| `btree_merge` | 7 keys, 2 deletes in a transaction | finding 2 |
| `btree_branch` | 7 keys, 2 operations in a transaction | finding 3 |
| `checkstream_return` | 2 buckets with up to 1 error | finding 4 |

The type invariants and the inductive invariants (`IInv`, `CheckInv`, `StatsInv`,
`BatchInv`, `ManagedInv`, `DirectoryInv`) are not among the properties of the runs,
since they are proved; TLC found each of them true on the instances above first.

Why the bounds are enough to meet the interesting cases: each of the two goroutines
may be a writer, a waiting writer or closer, or a reader with an older base, and may
run commit handlers while the other goes on; two handles allow a bucket to be opened,
deleted and created again in one transaction with the old handle still in use; three
nodes allow two published generations, the older one pinned by a reader, and a copy
of the writer. When the nodes or handles of the bound are used up, the calls that
need one are disabled. No run uses symmetry. What holds for more goroutines, buckets,
nodes and handles is proved, except `LockGranted`.

A behaviour of `btree_bucket` begins with one of three loads:

- `TreeLoad`: 5 keys, values of two sizes, 2 operations (1 delete) in each of the
  transactions after the first: overwrites that change sizes, leaf splits, merges
  and collapses on depths one and two;
- `DeepLoad`: 7 keys, which make a tree of depth three, and 5 transactions of one
  operation: branch merges, and a root that collapses into a branch;
- `RowLoad`: 5 keys in a row of leaves, and a cursor in a transaction of 2
  operations: two deletes empty one leaf or two, in front of, between or behind
  others, before or after the cursor has been placed.

The run stays below the bounds at which findings 2 and 3 begin: `MaxUnbalanced`
lets a transaction commit with deletions in one leaf (with more it can only roll
back; finding 2 begins at two), and no load has a published branch that overflows
with an earlier child dirty.

The channel of `checkstream_safety` is smaller than the number of errors, so that
goroutines block on it, and the number of errors read is smaller too. Two names
and one key give a snapshot with every kind of token in every position that the
reader's loops tell apart. `checkstream_safety` allows the system to stop: the
check is over, or the process has left.

### Fairness

`VmboltDB`: weak fairness of the steps in which a goroutine only runs library
code (the Go scheduler runs runnable goroutines); strong fairness of acquiring
`rwlock` (`sync.Mutex` hands the lock to a waiter that starves); weak fairness of
ending an open transaction, which holds for `Update` and `View` as long as the
user's function returns or panics. `Batch`: as long as a caller, a running batch
or a timer can go on, one of them does; every call takes a bounded number of
steps, so nothing stronger is needed. Nobody is assumed to call `Close` or to
begin a transaction.

`BTreeCursor`: weak fairness of the loop of `Last`, which is library code.
`SnapshotFile`: weak fairness of the steps of `Restore` and `CopyFile`, strong
fairness of taking the lock and of ending a write transaction. `CheckStream`: weak
fairness of the goroutines of `Check` and of the reader. `ManagedTx`: strong
fairness of taking the lock; a function or handler ends, however many
transactions it runs before (strong fairness, for each depth of the stack, since
the calls it makes disable its own end); weak fairness of commits and of
unwinding. Nobody is assumed to call `Restore`, `CopyFile` or `Open`.

## Findings

Runs show the first four, each as a violation of what the code or its tests say.

1. `DeleteBucket` after `DeleteBucket` and `CreateBucket` of a committed bucket
   in one transaction brings the committed bucket back (`tx.go:216`).
2. A leaf that is merged into its left neighbour stays in the dirty set; when
   keys were deleted from it too it is merged a second time and its keys appear
   twice, or `Commit` panics (`node.go:369`).
3. `finalize` splits a published branch inside the branch's own loop over its
   children and then indexes past the end (`node.go:256`). Large keys make
   branches overflow early.
4. `Check` tests `tx.base` once and reads the field again later, in goroutines of
   its own (`tx_check.go:51`). When the caller returns at the first error and ends
   its transaction, as `checkErrors` of the tests does (`tx_test.go:123`), a goroutine
   can find nil there and panic. Besides, those that find more errors than the
   channel has places then wait for ever, as nobody reads; `CheckEnds` does not
   ask for an end in this case.

The others were met while modelling; the properties named hold and say how far
the code does what its comments promise.

5. `Prev` returns nil in the middle of a bucket when it comes to a leaf that
   deletions of the same transaction have emptied (`cursor.go:232`), although it
   "moves the cursor to the previous item in the bucket and returns its key and
   value" (`cursor.go:102`); `Next` skips such leaves. `PrevInOrder` is about
   trees without such a leaf; without this condition it is violated.
6. `Last` never returns when the transaction has emptied all leaves of a bucket
   with more than one: `prev` at the first leaf goes to the first entry, which
   `next` looks for up to the last leaf (`cursor.go:80`). `LastReturns` therefore
   asks for an entry.
7. `Cursor.Delete` followed by `Next` skips an entry on a leaf that the
   transaction had copied before, and does not on one it had not
   (`cursor.go:145`). While the cursor stands on a published leaf the loop of
   `Delete` and `Next` visits every entry: `DeleteLoopOnPublished`.
8. Saving and restoring keeps the entries but not the tree, which the
   repository's README calls byte-identical: `Restore` splits at another fill
   percentage (`snapshot.go:158`). `RoundTripLossless` is about the entries.
9. `CopyFile` of a transaction that has ended replaces the file by a snapshot
   without buckets and returns nil (`tx.go:113`). `FileIsView` compares with the
   view the call was made on, here the empty one.
10. `Open` with `ReadOnly` fails on every path that holds a snapshot
   (`db.go:115`): the exception in `OpenAllOrNothing`.
11. `Prev` at the front of a cursor over bucket names goes on counting down, and
    the `Next` after it returns nil (`cursor.go:105`). `ScanIsView` is about scans in
    one direction.
12. When the function given to `Tx.ForEach` ends its transaction, `ForEach` does not
    stop but calls it with a nil bucket for every name left (`tx.go:254`).
    `ForEachOnce` says that nil comes only then or for a bucket deleted in the loop.

Three remarks in the repository are out of date, as reading shows: its README calls
`Tx.Check` a no-op stub (lines 202 and 223) and `Tx.ForEach` "**unordered** — map
iteration" (line 174), whereas the names are sorted (`tx.go:247`, and `ForEachOnce`
has them in order); the comment on `Open` says that a missing file is created
(`db.go:65`).

`SnapshotStore.DeleteBucket` includes finding 1, so that the refinement covers the
rest of the behaviour: deleting a bucket that the transaction has created (`fresh`)
shows the snapshot's bucket of that name again, if there is one; deleting any other
leaves none.

## Proofs

The inductive invariants are defined in the modules with the proofs; each has also
been checked by TLC as an invariant of its component.

`VmboltDBProofs` (types, lock, the effects of the writing calls, bookkeeping of
transactions and bucket directories, ownership, the theorems) proves, for all values
of the constants that satisfy `ConstantsAssumption` (writers and closers are goroutines; `Nil` and `NoVal` are
distinct from the values they stand beside): `TypeCorrect`, `NoLostUpdate`,
`DirectoriesAgree`, `SnapshotIsolation`, and `Invariance`, which the others rest on.

The argument: `WriterOnLatest` is not inductive alone. That no other commit can
happen while a writer is open needs `LockInv` (exactly one goroutine is between
`Lock` and `Unlock`, and it is the one that `rwlock` names) and `TxInv` (which
locations have a base, and that only writers have buckets of their own). That
the five directory views (`Bucket`, `Cursor`, `ForEach`, `Size`, `Commit`) agree needs `BucketInv`: a created name is not deleted
and has a materialised root, a deleted name has no context and is in the base,
an open context is of a created or committed bucket. That no write hits a pinned node needs
`OwnInv`: a root that a writer has materialised is reachable neither from the
published state nor from any base nor through a second handle. `StateInv` ties
`opened` to `state`. Each part has a step lemma with a case per action;
`WritableRootEffect`, `WriteEffect`, `BucketEffect` and `CreateBucketEffect` say
what the writing calls change, so that the case analyses need not expand them.
`FreshNode` is the fact about allocation: a free address is reachable from nowhere.

`VmboltDBProofs` also has `ClosedForGood`, and `VmboltDBRefinement`, which has the
theorems about finite sets, `ReadersCounted`, for any finite set of goroutines. `ReadersStep` says what a step does to the set of open readers:
nothing, one more or one less, and the counter follows; the rest is about
cardinalities.

`VmboltDBRefinement` proves `Refinement`: `Spec` implies `ImplementsSnapshotStore`.
It rests on `StoreAssumption` too (the abstract values `Absent`, `Closed` and
`NoTx` are not contents or stores). Its first part reduces a step to what it
changes of one goroutine's abstract transaction: `KeptIf` (a transaction of which
nothing changes is kept), `DbKept` (so is the committed store) and `OnlyAt`. A
transaction begins, abstractly, when its base is loaded, and commits when the new
directory is stored. A write changes one root that `OwnInv` shows to be reachable
by nobody else, hence one bucket of one view (`WriteElsewhere`, `WrittenContents`),
or none at all when its handle belongs to a deleted bucket. `SnapshotStore` alone
would let a `Commit` that loses its writes pass as a rollback; `CommitLosesNothing`
excludes that: every `Commit` step is an abstract commit, also of several buckets,
of which `vmboltdb_transactions` has only one. `FreshAt` relates the buckets a
transaction has created to the abstract `fresh`.

`CheckStreamProofs` proves `CheckInv` inductive and from it `ChannelSafe` and
`VerdictSound`, with either caller and whenever the transaction ends. `CheckInv` says that a started goroutine that is not done is in
the `WaitGroup`, that the channel is closed when the first goroutine is done and
then the `WaitGroup` is empty, and that a goroutine that found errors has all of
them still to send unless one has come as far as the channel.

`StatisticsProofs` proves `StatsInv` inductive and from it `StatsCountedOnce` and
`StatsDifference`: the totals are what ended transactions have counted plus what
the one that holds `statlock` has added so far, and every copy is at least the
one before it and at most what ended transactions have counted. For any finite set
of goroutines `StatsReadersCounted` and `StatsOneMoment` follow: `OpenTxN` is the
number of open readers, and a copy, though made field by field, is the statistics
of the moment at which it took `statlock`.

`BatchProofs` proves `BatchInv` inductive (`BatchInvariance`) and from it
`BatchExactlyOnce`, `BatchOwnResult` and `BatchClosedToCalls`, for any finite set of
callers, any batch size and one batch object per caller at least
(`BatchAssumption`). `ExactlyOnce` speaks of calls that have returned; to carry it
from call to return the invariant follows a call through its batch. `CallsInv`: a
call is in one batch, at one place, so `run` answers it once. `PendingInv`: the
caller of a call that is not answered waits on an empty channel, and its function
is committed exactly if `run`'s `Update` has committed. `AppliedInv`: what the open
transaction of a batch holds are the functions that `run` has come past, all of
which returned nil; a failed one takes the whole transaction with it, so the retry
begins with none. `RunInv`: the batch in `db.batch` has not been started.
`CallerInv` is what each answer means. Removing a failed call moves the last call
to its place, and the lemma `RestProperties` is why the places stay distinct.

`ManagedTxProofs` proves `ManagedInv` inductive (`ManagedInvariance`) and from it
`ManagedLock` and `ManagedPublished`, for any number of goroutines, depth of nesting
and number of handlers. `Frames` says which combinations of program counter,
`tx.db`, `tx.managed` and published states a call of each kind can be in; `Waits`
that a call below the top of a stack is in its function or in a handler, so that
only the top moves; the last conjunct that the lock is held by exactly one call of
the goroutine that `rwlock` names and by none of any other. Each action is a lemma
about one call: pushed, popped, or replaced by another of `Frames`. For a finite set
of goroutines `ManagedCounted` follows: every transaction adds its counters once.
`OpenPushed`, `OpenPopped` and `OpenTxOf` say how the set of open transactions changes
with a stack, and each action opens or closes at most one of them (`CountStep`).

`DirectoryProofs` proves `DirectoryInv` inductive (`DirectoryInvariance`) and from it
`DirectoryScan` and `DirectoryForEach`, for every finite set of names and any number
of changes. It has three parts. Sorting: every list has a sorted rearrangement
(`OrderExists`), so `sort` returns one (`SortProperties`); the sorted list of a set
has every name once, in increasing order (`SortedProperties`), and is the only such
list (`SortedUnique`). The cursor: `Forward(k)` says that the names returned are
those of `dir` from place `k` up to the position, `Backward` the same from the end;
the place of `Seek` divides `dir` into the names below and the others (`SeekPlace`,
`SeekDue`). The loop: `VisitedInv` says that the names visited are in increasing
order and are the least of those at the start, `ToVisit` that the names left are the
others, in order, and perhaps the last one visited once more, which is where a name
in both lists comes twice. `TxInv` is why all names listed are buckets that
`Tx.Bucket` finds.

That every list can be sorted is an induction on its length. The library's induction
theorems cannot be used, as they take an operator; it is proved by taking a shortest
list that cannot be sorted (`LeastNat`: a nonempty set of numbers has a least
element, from the library's well-foundedness of `<`) and removing its least name.

`SnapshotFileProofs` proves `FileInv` inductive (`SnapshotInvariance`) and from it
`SnapshotIsView`, `SnapshotOpen` and `SnapshotRestore`, for all finite sets of names
and keys, any values and any number of goroutines (`FileAssumption`). `FileIsView`
and the two properties about reading are not inductive: they say nothing of a
`CopyFile` or a `Restore` that is still under way. `FileInv` has five parts.
`StoreInv`: there is one writer, and it works on the published state, so what
`Restore` commits is added to what is there. `ProcessInv`: `Open` works alone, on an
empty store. `SavedInv`: the file is whole or cut off, or no `CopyFile` has touched
it. `CopyInv`: a running `CopyFile` has still to write the names from place `i` and
the keys from place `j`, the file holds exactly what comes before them
(`Upto(store, i)`, `Within(store, i, j)`), and the view it walks has not changed.
`RestoreInv`: a running `Restore` has read as far as such a place, and its
transaction holds the first `i` buckets, which were not there before, and the first
`j` pairs of the next (`Loaded`, `PartLoaded`).

The steps rest on facts about the layout. `SortedElements`: the sorted sequence of a
finite set of numbers has each of them once, in order. `ConcatExists`,
`ConcatUnique` and `ConcatStep`: `Concat` is what its recursion says, by a smallest
length at which it is not. `UptoPart` and `WithinPart`: what has been written up to a
place begins the whole layout, so a write that fails leaves a proper prefix
(`CutWord`), and `Restore`, which knows only a position in a file that may be cut off
anywhere, finds there the token that the layout has at this place or none
(`BucketReads`, `PairReads`). In particular the `end` that lets it commit is the last
token, so the snapshot is finished. With `FirstAll` and `FirstKeysAll` (all names and
keys together are the store) the rest follows.

Only model-checked: `BTree`, `BTreeCursor` and `BTreeRestore`, whose operators are
recursive over trees, which the proof system does not support; `CheckClean` and
`NoPanic` moreover hold only in some instances (findings above), so no theorem can
state them for all. So are all liveness properties (`LockGranted`, `WriterServed`, `RestoreReturns`,
`CheckEnds`, `EveryCallReturns`), since the proof system has no rules for fairness
and `ENABLED`.

## Not modelled

- Of snapshots: two `CopyFile`s to one path at the same time, a file that is
  rewritten while `Restore` reads it, and lengths in a file that no `CopyFile`
  wrote. The first two need a byte-level file with two writers.
- Of `Batch`: a read-only database, which answers as a closed one does, and panics of
  `Commit` and of commit handlers in the goroutine of a batch, which end the process.
- Of the cursor: key and value bytes, and pointers into nodes that a caller keeps.
- `FillPercent` set by the user, key and value size limits, and empty keys.
- Of the test support: everything but `MustCheck` and `checkErrors`; it wraps `Open` and `Close`.
- The logger, error values, default values, `Info`, `String` methods and the
  version: no control flow of the above depends on them.

## What could follow

A composition of `Batch` with `ManagedTx`, and a formulation of the tree of `BTree`
without recursive operators, to prove that a transaction never changes a node of an
earlier generation.
