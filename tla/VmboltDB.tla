------------------------------ MODULE VmboltDB ------------------------------
(***************************************************************************)
(* The transaction layer of vmbolt: DB (db.go) and Tx (tx.go), with the    *)
(* copy-on-write of a bucket's root (bucket.go).                           *)
(*                                                                         *)
(* Goroutines (Procs) share the atomic flag db.opened, the atomic pointer  *)
(* db.state and the mutex db.rwlock.  A published dbState is a directory   *)
(* from bucket names to root nodes.  A node of this module stands for a    *)
(* whole B+tree: heap gives the key/value map it holds (module BTree       *)
(* models the tree itself).  Nodes are shared by pointer between the       *)
(* published state, the bases pinned by transactions and the writer's      *)
(* buckets, so a write that missed its copy would be seen by readers.      *)
(*                                                                         *)
(* Calls that return an error and change nothing are stuttering steps,     *)
(* except where the error path changes state (beginRWTx, beginTx, Close).  *)
(***************************************************************************)
EXTENDS Integers, FiniteSets

CONSTANTS
    Procs,          \* goroutines; each runs at most one transaction at a time
    Writers,        \* the goroutines that call Begin(true) or Update
    Closers,        \* the goroutines that call Close
    Names,          \* non-empty bucket names
    Keys, Vals,     \* legal keys and values of Put
    Nodes,          \* bound: node addresses alive at the same time
    Handles,        \* bound: *Bucket objects one transaction may obtain
    MaxHandlers,    \* bound: OnCommit handlers registered or pending per goroutine
    ReadOnly,       \* Options.ReadOnly
    Nil,            \* the nil pointer
    NoVal           \* "this key is not in the bucket"

ASSUME ConstantsAssumption ==
    /\ Writers \subseteq Procs /\ Closers \subseteq Procs
    /\ Nil \notin Procs \cup Names \cup Nodes \cup Handles
    /\ Nil \notin [Names -> Nodes \cup {Nil}]
    /\ NoVal \notin Vals
    /\ ReadOnly \in BOOLEAN
    /\ MaxHandlers \in Nat

VARIABLES
    opened,     \* DB.opened
    state,      \* DB.state: the published directory, or Nil after Close
    rwlock,     \* DB.rwlock: its holder, or Nil
    openTxN,    \* DB.stats.OpenTxN
    heap,       \* what each node holds
    pc,         \* where each goroutine is
    writable,   \* Tx.writable
    base,       \* Tx.base
    bctx,       \* Tx.bctx: the current handle of a name, or Nil
    created,    \* Tx.created
    deleted,    \* Tx.deleted
    hname,      \* Bucket.name of the handles the transaction has, Nil if unused
    hroot,      \* Bucket.rootNode of those handles
    handlers,   \* len(Tx.commitHandlers)
    pending     \* handlers of committed transactions still to run

txvars == <<writable, base, bctx, created, deleted, hname, hroot, handlers>>
vars == <<opened, state, rwlock, openTxN, heap, pc, txvars, pending>>

Contents == [Keys -> Vals \cup {NoVal}]
Directories == [Names -> Nodes \cup {Nil}]

Locations ==
    { "idle",        \* no transaction; between calls, or in a commit handler
      "beginTx",     \* beginTx has seen opened = true
      "pinned",      \* beginTx has loaded a non-nil state, stats not counted yet
      "beginRWTx",   \* beginRWTx waits for rwlock
      "locked",      \* beginRWTx has acquired rwlock
      "open",        \* the caller has the Tx
      "stored",      \* Commit has stored the new state, tx.close() is next
      "closing",     \* Close waits for rwlock
      "closeLocked", \* Close has acquired rwlock
      "closeMarked"  \* close() has cleared opened, state is next
    }

----------------------------------------------------------------------------
(* Reachability: what the Go runtime may not reclaim.                      *)

DirNodes(d) == IF d = Nil THEN {} ELSE {d[n] : n \in Names} \ {Nil}

TxNodes(p) == DirNodes(base[p]) \cup ({hroot[p][h] : h \in Handles} \ {Nil})

LiveNodes == DirNodes(state) \cup UNION {TxNodes(p) : p \in Procs}

LiveWithout(p) == DirNodes(state) \cup UNION {TxNodes(q) : q \in Procs \ {p}}

EmptyLeaf == [k \in Keys |-> NoVal]

\* The addresses a new node may get.
FreeNodes == Nodes \ LiveNodes

freshHandle(p) == CHOOSE h \in Handles : hname[p][h] = Nil

CanOpenHandle(p) == \E h \in Handles : hname[p][h] = Nil

----------------------------------------------------------------------------
(* What a transaction sees.                                                *)

baseState(p, n) == base[p][n]

bucketExistsCommitted(p, n) == base[p][n] # Nil

rootView(p, h) ==
    IF hroot[p][h] # Nil THEN hroot[p][h] ELSE baseState(p, hname[p][h])

\* The *Bucket that Tx.Bucket(n) would return is not nil.
BucketVisible(p, n) ==
    \/ bctx[p][n] # Nil
    \/ n \notin deleted[p] /\ baseState(p, n) # Nil

\* The root through which Tx.Bucket(n) reads, Nil when there is no bucket.
VisibleRoot(p, n) ==
    IF bctx[p][n] # Nil THEN rootView(p, bctx[p][n])
    ELSE IF n \in deleted[p] THEN Nil
    ELSE baseState(p, n)

\* The names Tx.Cursor puts in its directory.
CursorNames(p) ==
    ({n \in Names : base[p][n] # Nil} \cup created[p]) \ deleted[p]

\* The names Tx.ForEach visits.
ForEachNames(p) ==
    {n \in Names : base[p][n] # Nil /\ n \notin deleted[p]} \cup created[p]

\* The names whose bytes Tx.Size adds up.
SizeNames(p) ==
    {n \in Names : base[p][n] # Nil /\ n \notin deleted[p]} \cup {n \in Names : bctx[p][n] # Nil}

\* Commit's newBuckets: the base without the deleted names, then publishRoot
\* of every open bucket context.
publishRoot(p, h) == rootView(p, h)

\* Mutant: the deleted names are not removed from the copy of the base.
newBucketsKeepsDeleted(p) ==
    [n \in Names |->
        IF bctx[p][n] # Nil THEN publishRoot(p, bctx[p][n]) ELSE base[p][n]]

newBuckets(p) ==
    [n \in Names |->
        IF bctx[p][n] # Nil /\ n \notin deleted[p] THEN publishRoot(p, bctx[p][n])
        ELSE IF n \in deleted[p] THEN Nil
        ELSE base[p][n]]

----------------------------------------------------------------------------
\* Open with no snapshot at its path: init() stores an empty dbState.
Init ==
    /\ opened = TRUE
    /\ state = [n \in Names |-> Nil]
    /\ rwlock = Nil
    /\ openTxN = 0
    /\ heap = [o \in Nodes |-> EmptyLeaf]
    /\ pc = [p \in Procs |-> "idle"]
    /\ writable = [p \in Procs |-> FALSE]
    /\ base = [p \in Procs |-> Nil]
    /\ bctx = [p \in Procs |-> [n \in Names |-> Nil]]
    /\ created = [p \in Procs |-> {}]
    /\ deleted = [p \in Procs |-> {}]
    /\ hname = [p \in Procs |-> [h \in Handles |-> Nil]]
    /\ hroot = [p \in Procs |-> [h \in Handles |-> Nil]]
    /\ handlers = [p \in Procs |-> 0]
    /\ pending = [p \in Procs |-> 0]

Goto(p, from, to) ==
    /\ pc[p] = from
    /\ pc' = [pc EXCEPT ![p] = to]

----------------------------------------------------------------------------
(* beginTx: opened is loaded, then state, then the statistics are updated. *)

beginTx(p) ==
    /\ opened
    /\ Goto(p, "idle", "beginTx")
    /\ UNCHANGED <<opened, state, rwlock, openTxN, heap, txvars, pending>>

\* Mutant: the second check, of the loaded state, is missing.
beginTxLoadUnchecked(p) ==
    /\ Goto(p, "beginTx", "pinned")
    /\ base' = [base EXCEPT ![p] = state]
    /\ UNCHANGED <<opened, state, rwlock, openTxN, heap, pending,
                   writable, bctx, created, deleted, hname, hroot, handlers>>

beginTxLoad(p) ==
    /\ pc[p] = "beginTx"
    /\ pc' = [pc EXCEPT ![p] = IF state = Nil THEN "idle" ELSE "pinned"]
    /\ base' = [base EXCEPT ![p] = state]
    /\ UNCHANGED <<opened, state, rwlock, openTxN, heap, pending,
                   writable, bctx, created, deleted, hname, hroot, handlers>>

beginTxStats(p) ==
    /\ Goto(p, "pinned", "open")
    /\ openTxN' = openTxN + 1
    /\ UNCHANGED <<opened, state, rwlock, heap, txvars, pending>>

(* beginRWTx: the caller blocks on rwlock; a closed database unlocks again. *)

beginRWTx(p) ==
    /\ p \in Writers
    /\ ~ReadOnly
    /\ Goto(p, "idle", "beginRWTx")
    /\ UNCHANGED <<opened, state, rwlock, openTxN, heap, txvars, pending>>

\* Mutant: the writer does not wait for rwlock.
beginRWTxNoLock(p) ==
    /\ Goto(p, "beginRWTx", "locked")
    /\ rwlock' = p
    /\ UNCHANGED <<opened, state, openTxN, heap, txvars, pending>>

beginRWTxLock(p) ==
    /\ rwlock = Nil
    /\ Goto(p, "beginRWTx", "locked")
    /\ rwlock' = p
    /\ UNCHANGED <<opened, state, openTxN, heap, txvars, pending>>

beginRWTxLoad(p) ==
    /\ pc[p] = "locked"
    /\ IF opened /\ state # Nil
       THEN /\ pc' = [pc EXCEPT ![p] = "open"]
            /\ base' = [base EXCEPT ![p] = state]
            /\ writable' = [writable EXCEPT ![p] = TRUE]
            /\ UNCHANGED rwlock
       ELSE /\ pc' = [pc EXCEPT ![p] = "idle"]
            /\ rwlock' = Nil
            /\ UNCHANGED <<base, writable>>
    /\ UNCHANGED <<opened, state, openTxN, heap, pending,
                   bctx, created, deleted, hname, hroot, handlers>>

----------------------------------------------------------------------------
(* The bucket directory of a transaction.                                  *)

\* newBucket followed by putBctx: the handle becomes the current one of n.
newBucket(p, n, h, root) ==
    /\ hname' = [hname EXCEPT ![p][h] = n]
    /\ hroot' = [hroot EXCEPT ![p][h] = root]
    /\ bctx' = [bctx EXCEPT ![p][n] = h]

Bucket(p, n) ==
    /\ pc[p] = "open"
    /\ bctx[p][n] = Nil
    /\ n \notin deleted[p]
    /\ baseState(p, n) # Nil
    /\ CanOpenHandle(p)
    /\ newBucket(p, n, freshHandle(p), Nil)
    /\ UNCHANGED <<opened, state, rwlock, openTxN, heap, pc, pending,
                   writable, base, created, deleted, handlers>>

\* Mutant: a bucket that is created again stays in tx.deleted.
CreateBucketKeepsDeleted(p, n) ==
    /\ pc[p] = "open"
    /\ writable[p]
    /\ n \in deleted[p] \/ (n \notin created[p] /\ ~bucketExistsCommitted(p, n))
    /\ CanOpenHandle(p)
    /\ \E o \in FreeNodes :
         /\ heap' = [heap EXCEPT ![o] = EmptyLeaf]
         /\ newBucket(p, n, freshHandle(p), o)
    /\ created' = [created EXCEPT ![p] = @ \cup {n}]
    /\ UNCHANGED <<opened, state, rwlock, openTxN, pc, pending,
                   writable, base, deleted, handlers>>

CreateBucket(p, n) ==
    /\ pc[p] = "open"
    /\ writable[p]
    /\ n \in deleted[p] \/ (n \notin created[p] /\ ~bucketExistsCommitted(p, n))
    /\ CanOpenHandle(p)
    /\ \E o \in FreeNodes :
         /\ heap' = [heap EXCEPT ![o] = EmptyLeaf]
         /\ newBucket(p, n, freshHandle(p), o)
    /\ created' = [created EXCEPT ![p] = @ \cup {n}]
    /\ deleted' = [deleted EXCEPT ![p] = @ \ {n}]
    /\ UNCHANGED <<opened, state, rwlock, openTxN, pc, pending,
                   writable, base, handlers>>

CreateBucketIfNotExists(p, n) ==
    /\ pc[p] = "open"
    /\ writable[p]
    /\ IF BucketVisible(p, n) THEN Bucket(p, n) ELSE CreateBucket(p, n)

DeleteBucket(p, n) ==
    /\ pc[p] = "open"
    /\ writable[p]
    /\ \/ /\ n \in created[p]
          /\ created' = [created EXCEPT ![p] = @ \ {n}]
          /\ UNCHANGED deleted
       \/ /\ n \notin created[p]
          /\ bucketExistsCommitted(p, n)
          /\ deleted' = [deleted EXCEPT ![p] = @ \cup {n}]
          /\ UNCHANGED created
    /\ bctx' = [bctx EXCEPT ![p][n] = Nil]
    /\ UNCHANGED <<opened, state, rwlock, openTxN, heap, pc, pending,
                   writable, base, hname, hroot, handlers>>

----------------------------------------------------------------------------
(* Writes through a handle.  The caller may use any handle it obtained in   *)
(* this transaction, also one whose bucket it has deleted since.           *)

\* Mutant: a write to a published root changes it in place.
writableRootInPlace(p, h, k, v) ==
    LET root == rootView(p, h)
    IN  /\ root # Nil
        /\ heap' = [heap EXCEPT ![root] = [@ EXCEPT ![k] = v]]
        /\ UNCHANGED hroot

\* writableRoot followed by the write of k: the first write copies the root.
writableRoot(p, h, k, v) ==
    IF hroot[p][h] # Nil
    THEN /\ heap' = [heap EXCEPT ![hroot[p][h]] = [@ EXCEPT ![k] = v]]
         /\ UNCHANGED hroot
    ELSE \E o \in FreeNodes :
           /\ heap' = [heap EXCEPT ![o] =
                          IF baseState(p, hname[p][h]) # Nil
                          THEN [heap[baseState(p, hname[p][h])] EXCEPT ![k] = v]
                          ELSE [EmptyLeaf EXCEPT ![k] = v]]
           /\ hroot' = [hroot EXCEPT ![p][h] = o]

Put(p, h, k, v) ==
    /\ pc[p] = "open"
    /\ writable[p]
    /\ hname[p][h] # Nil
    /\ writableRoot(p, h, k, v)
    /\ UNCHANGED <<opened, state, rwlock, openTxN, pc, pending,
                   writable, base, bctx, created, deleted, hname, handlers>>

\* Delete returns before any copy when the key is not there.
Delete(p, h, k) ==
    /\ pc[p] = "open"
    /\ writable[p]
    /\ hname[p][h] # Nil
    /\ rootView(p, h) # Nil
    /\ heap[rootView(p, h)][k] # NoVal
    /\ writableRoot(p, h, k, NoVal)
    /\ UNCHANGED <<opened, state, rwlock, openTxN, pc, pending,
                   writable, base, bctx, created, deleted, hname, handlers>>

OnCommit(p) ==
    /\ pc[p] = "open"
    /\ handlers[p] + pending[p] < MaxHandlers
    /\ handlers' = [handlers EXCEPT ![p] = @ + 1]
    /\ UNCHANGED <<opened, state, rwlock, openTxN, heap, pc, pending,
                   writable, base, bctx, created, deleted, hname, hroot>>

----------------------------------------------------------------------------
(* The end of a transaction.                                               *)

\* The end of Tx.close: drop every reference.  The nodes only this
\* transaction held are reclaimed.
dropTx(p) ==
    /\ base' = [base EXCEPT ![p] = Nil]
    /\ bctx' = [bctx EXCEPT ![p] = [n \in Names |-> Nil]]
    /\ created' = [created EXCEPT ![p] = {}]
    /\ deleted' = [deleted EXCEPT ![p] = {}]
    /\ hname' = [hname EXCEPT ![p] = [h \in Handles |-> Nil]]
    /\ hroot' = [hroot EXCEPT ![p] = [h \in Handles |-> Nil]]
    /\ writable' = [writable EXCEPT ![p] = FALSE]
    /\ handlers' = [handlers EXCEPT ![p] = 0]
    /\ heap' = [o \in Nodes |-> IF o \in LiveWithout(p) THEN heap[o] ELSE EmptyLeaf]

\* Mutant: a read transaction that ends is not taken off the statistics.
closeTxKeepsStats(p) ==
    /\ rwlock' = IF writable[p] THEN Nil ELSE rwlock
    /\ dropTx(p)
    /\ UNCHANGED openTxN

\* Tx.close: leave the statistics or the lock, and drop every reference.
closeTx(p) ==
    /\ rwlock' = IF writable[p] THEN Nil ELSE rwlock
    /\ openTxN' = IF writable[p] THEN openTxN ELSE openTxN - 1
    /\ dropTx(p)

\* Commit up to db.state.Store.
Commit(p) ==
    /\ writable[p]
    /\ Goto(p, "open", "stored")
    /\ state' = newBuckets(p)
    /\ UNCHANGED <<opened, rwlock, openTxN, heap, txvars, pending>>

\* The rest of Commit: tx.close(), after which the handlers are due.
CommitClose(p) ==
    /\ Goto(p, "stored", "idle")
    /\ closeTx(p)
    /\ pending' = [pending EXCEPT ![p] = @ + handlers[p]]
    /\ UNCHANGED <<opened, state>>

\* Rollback; the end of View; Update whose function fails or panics; a Commit
\* whose spill fails.
Rollback(p) ==
    /\ Goto(p, "open", "idle")
    /\ closeTx(p)
    /\ UNCHANGED <<opened, state, pending>>

\* A commit handler returns.  While it runs its goroutine is "idle" and may
\* begin transactions of its own.
RunHandler(p) ==
    /\ pc[p] = "idle"
    /\ pending[p] > 0
    /\ pending' = [pending EXCEPT ![p] = @ - 1]
    /\ UNCHANGED <<opened, state, rwlock, openTxN, heap, pc, txvars>>

----------------------------------------------------------------------------
(* Close.                                                                  *)

Close(p) ==
    /\ p \in Closers
    /\ Goto(p, "idle", "closing")
    /\ UNCHANGED <<opened, state, rwlock, openTxN, heap, txvars, pending>>

CloseLock(p) ==
    /\ rwlock = Nil
    /\ Goto(p, "closing", "closeLocked")
    /\ rwlock' = p
    /\ UNCHANGED <<opened, state, openTxN, heap, txvars, pending>>

\* Mutant: a second Close waits, with the lock, for the database to be open.
CloseMarkWaits(p) ==
    /\ pc[p] = "closeLocked"
    /\ IF opened
       THEN /\ opened' = FALSE
            /\ pc' = [pc EXCEPT ![p] = "closeMarked"]
            /\ UNCHANGED <<state, rwlock, openTxN, heap, txvars, pending>>
       ELSE UNCHANGED vars

CloseMark(p) ==
    /\ pc[p] = "closeLocked"
    /\ IF opened
       THEN /\ opened' = FALSE
            /\ pc' = [pc EXCEPT ![p] = "closeMarked"]
            /\ UNCHANGED rwlock
       ELSE /\ rwlock' = Nil
            /\ pc' = [pc EXCEPT ![p] = "idle"]
            /\ UNCHANGED opened
    /\ UNCHANGED <<state, openTxN, heap, txvars, pending>>

CloseState(p) ==
    /\ Goto(p, "closeMarked", "idle")
    /\ state' = Nil
    /\ rwlock' = Nil
    /\ UNCHANGED <<opened, openTxN, heap, txvars, pending>>

----------------------------------------------------------------------------
Begins(p) ==
    \/ beginTx(p) \/ beginTxLoad(p) \/ beginTxStats(p)
    \/ beginRWTx(p) \/ beginRWTxLock(p) \/ beginRWTxLoad(p)

Works(p) ==
    \/ \E n \in Names :
         \/ Bucket(p, n) \/ CreateBucket(p, n)
         \/ CreateBucketIfNotExists(p, n) \/ DeleteBucket(p, n)
    \/ \E h \in Handles, k \in Keys :
         \/ \E v \in Vals : Put(p, h, k, v)
         \/ Delete(p, h, k)
    \/ OnCommit(p)

Ends(p) == Commit(p) \/ CommitClose(p) \/ Rollback(p) \/ RunHandler(p)

Closes(p) == Close(p) \/ CloseLock(p) \/ CloseMark(p) \/ CloseState(p)

Next == \E p \in Procs : Begins(p) \/ Works(p) \/ Ends(p) \/ Closes(p)

Spec == Init /\ [][Next]_vars

\* The goroutine runs library code that does not wait for anyone.
Steps(p) ==
    \/ beginTxLoad(p) \/ beginTxStats(p) \/ beginRWTxLoad(p)
    \/ CommitClose(p) \/ CloseMark(p) \/ CloseState(p)

\* Scheduling: a runnable goroutine runs (WF); sync.Mutex hands the lock to a
\* starving waiter (SF); the function given to Update or View returns or
\* panics, after which Update and View end the transaction (WF).
Fairness ==
    \A p \in Procs :
        /\ WF_vars(Steps(p))
        /\ SF_vars(beginRWTxLock(p))
        /\ SF_vars(CloseLock(p))
        /\ WF_vars(Commit(p) \/ Rollback(p))

FairSpec == Spec /\ Fairness

----------------------------------------------------------------------------
(* Properties.                                                             *)

\* Every variable has the shape of the field it stands for.
TypeOK ==
    /\ opened \in BOOLEAN
    /\ state \in Directories \cup {Nil}
    /\ rwlock \in Procs \cup {Nil}
    /\ openTxN \in Int
    /\ heap \in [Nodes -> Contents]
    /\ pc \in [Procs -> Locations]
    /\ writable \in [Procs -> BOOLEAN]
    /\ base \in [Procs -> Directories \cup {Nil}]
    /\ bctx \in [Procs -> [Names -> Handles \cup {Nil}]]
    /\ created \in [Procs -> SUBSET Names]
    /\ deleted \in [Procs -> SUBSET Names]
    /\ hname \in [Procs -> [Handles -> Names \cup {Nil}]]
    /\ hroot \in [Procs -> [Handles -> Nodes \cup {Nil}]]
    /\ handlers \in [Procs -> Nat]
    /\ pending \in [Procs -> Nat]

InTx(p) == pc[p] \in {"pinned", "open", "stored"}

\* No lost update: as long as a write transaction is open, the state it was
\* begun on is the published one, so the state that Commit stores
\* (tx.go:333) is built on every earlier commit.
WriterOnLatest ==
    \A p \in Procs : pc[p] = "open" /\ writable[p] => base[p] = state

\* "Every transaction pins one globally consistent dbState" (tx.go:17): no
\* step of any goroutine - not a Put or Delete of a writer, not a commit, not
\* Close - changes what the buckets of a pinned base hold.
SnapshotStable ==
    [][\A p \in Procs : InTx(p) /\ InTx(p)' =>
         /\ base'[p] = base[p]
         /\ \A n \in Names : base[p][n] # Nil =>
              heap'[base[p][n]] = heap[base[p][n]]]_vars

\* The five computations of "which buckets are there" agree in every open
\* transaction, whatever buckets it has created, deleted and reopened: what
\* Tx.Bucket resolves, what Tx.Cursor lists, what Tx.ForEach visits, what
\* Tx.Size adds up and what Commit would publish.
DirectoryAgrees ==
    \A p \in Procs : pc[p] = "open" =>
        LET visible == {n \in Names : BucketVisible(p, n)}
        IN  /\ CursorNames(p) = visible
            /\ ForEachNames(p) = visible
            /\ SizeNames(p) = visible
            /\ {n \in Names : newBuckets(p)[n] # Nil} = visible

\* Stats().OpenTxN counts exactly the read transactions that Begin has
\* returned and that have not ended, also while Close runs.
OpenTxNExact ==
    openTxN = Cardinality({p \in Procs : pc[p] = "open" /\ ~writable[p]})

\* Once Close has cleared the state no transaction begins any more, not even
\* one whose beginTx saw opened = true before Close.
NoBeginAfterClose ==
    [][state = Nil => \A p \in Procs : InTx(p)' => InTx(p)]_vars

\* A call of Begin(true), Update or Close that waits for rwlock gets it, also
\* when the database is closed meanwhile and when commit handlers begin
\* transactions of their own.
LockGranted ==
    \A p \in Procs : pc[p] \in {"beginRWTx", "closing"}
                        ~> pc[p] \notin {"beginRWTx", "closing"}

\* "DeleteBucket deletes a top-level bucket" (tx.go:207): a DeleteBucket that
\* returns nil leaves no bucket of that name in the transaction.
DeleteBucketDeletes ==
    [][\A p \in Procs, n \in Names :
         DeleteBucket(p, n) => ~BucketVisible(p, n)']_vars
=============================================================================
