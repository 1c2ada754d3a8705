--------------------------- MODULE VmboltDBStore ---------------------------
(***************************************************************************)
(* VmboltDB implements SnapshotStore.  The committed store is what the     *)
(* published directory holds; a transaction begins when its base is        *)
(* loaded and a write transaction commits when Commit stores the new       *)
(* state, before rwlock is released.                                       *)
(***************************************************************************)
EXTENDS VmboltDB

CONSTANTS Absent, Closed, NoTx

ASSUME StoreAssumption ==
    Absent \notin Contents /\ Closed \notin [Names -> Contents \cup {Absent}]

ContentsOf(root) == IF root = Nil THEN Absent ELSE heap[root]

StoreOf(dir) == [n \in Names |-> ContentsOf(dir[n])]

dbBar == IF state = Nil THEN Closed ELSE StoreOf(state)

modeBar ==
    [p \in Procs |->
        IF pc[p] \notin {"pinned", "open"} THEN "none"
        ELSE IF writable[p] THEN "write" ELSE "read"]

snapBar ==
    [p \in Procs |-> IF modeBar[p] = "none" THEN NoTx ELSE StoreOf(base[p])]

viewBar ==
    [p \in Procs |->
        IF modeBar[p] = "none" THEN NoTx
        ELSE [n \in Names |-> ContentsOf(VisibleRoot(p, n))]]

freshBar == [p \in Procs |-> IF modeBar[p] = "none" THEN {} ELSE created[p]]

Store == INSTANCE SnapshotStore
            WITH db <- dbBar, mode <- modeBar, snap <- snapBar, view <- viewBar,
                 fresh <- freshBar

\* Transactions are isolated and atomic, whatever the interleaving: each
\* reads its own snapshot and its own writes, writers are serial, a commit
\* replaces the whole store at once (tx.go:333), a rollback leaves no trace,
\* and writes through the handle of a deleted bucket reach nobody.
ImplementsSnapshotStore == Store!Spec

\* A Commit that returns nil has published all that its transaction saw, its
\* deletions of buckets included, in place of the state it began on (tx.go:319):
\* it is the commit of the abstract store, never a silent rollback.
CommitPublishesView == [][\A p \in Procs : Commit(p) => Store!Commit(p)]_vars
=============================================================================
