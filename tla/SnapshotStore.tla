--------------------------- MODULE SnapshotStore ---------------------------
(***************************************************************************)
(* What vmbolt promises the callers of its transactions, with no pointer,  *)
(* lock or copy in sight: a store of named key/value maps on which every   *)
(* transaction works alone, on the state the store had when it began, and  *)
(* which a commit replaces as a whole.                                     *)
(***************************************************************************)
CONSTANTS
    Procs, Names, Keys, Vals,
    NoVal,      \* a key without a value
    Absent,     \* a name without a bucket
    Closed,     \* the store has been closed
    NoTx        \* a goroutine without a transaction

VARIABLES
    db,         \* the committed store
    mode,       \* "none", "read" or "write"
    snap,       \* the store as it was when the transaction began
    view,       \* the store as the transaction sees it
    fresh       \* the buckets the transaction has created

svars == <<db, mode, snap, view, fresh>>

Empty == [k \in Keys |-> NoVal]

Init ==
    /\ db = [n \in Names |-> Absent]
    /\ mode = [p \in Procs |-> "none"]
    /\ snap = [p \in Procs |-> NoTx]
    /\ view = [p \in Procs |-> NoTx]
    /\ fresh = [p \in Procs |-> {}]

NoWriter == \A p \in Procs : mode[p] # "write"

Begin(p, m) ==
    /\ db # Closed
    /\ mode[p] = "none"
    /\ m = "write" => NoWriter
    /\ mode' = [mode EXCEPT ![p] = m]
    /\ snap' = [snap EXCEPT ![p] = db]
    /\ view' = [view EXCEPT ![p] = db]
    /\ UNCHANGED <<db, fresh>>

\* v = NoVal deletes the key.
Write(p, n, k, v) ==
    /\ mode[p] = "write"
    /\ view[p][n] # Absent
    /\ view' = [view EXCEPT ![p][n][k] = v]
    /\ UNCHANGED <<db, mode, snap, fresh>>

CreateBucket(p, n) ==
    /\ mode[p] = "write"
    /\ view[p][n] = Absent
    /\ view' = [view EXCEPT ![p][n] = Empty]
    /\ fresh' = [fresh EXCEPT ![p] = @ \cup {n}]
    /\ UNCHANGED <<db, mode, snap>>

\* Deleting a bucket removes it; deleting one that this transaction has
\* created undoes the creation and shows again what the snapshot had.
DeleteBucket(p, n) ==
    /\ mode[p] = "write"
    /\ view[p][n] # Absent
    /\ view' = [view EXCEPT ![p][n] = IF n \in fresh[p] THEN snap[p][n] ELSE Absent]
    /\ fresh' = [fresh EXCEPT ![p] = @ \ {n}]
    /\ UNCHANGED <<db, mode, snap>>

End(p) ==
    /\ mode' = [mode EXCEPT ![p] = "none"]
    /\ snap' = [snap EXCEPT ![p] = NoTx]
    /\ view' = [view EXCEPT ![p] = NoTx]
    /\ fresh' = [fresh EXCEPT ![p] = {}]

\* Nothing has been committed since the writer began.
Commit(p) ==
    /\ mode[p] = "write"
    /\ db = snap[p]
    /\ db' = view[p]
    /\ End(p)

Rollback(p) ==
    /\ mode[p] # "none"
    /\ End(p)
    /\ UNCHANGED db

Close ==
    /\ db # Closed
    /\ NoWriter
    /\ db' = Closed
    /\ UNCHANGED <<mode, snap, view, fresh>>

Next ==
    \/ \E p \in Procs :
         \/ \E m \in {"read", "write"} : Begin(p, m)
         \/ \E n \in Names :
              \/ \E k \in Keys, v \in Vals \cup {NoVal} : Write(p, n, k, v)
              \/ CreateBucket(p, n)
              \/ DeleteBucket(p, n)
         \/ Commit(p)
         \/ Rollback(p)
    \/ Close

Spec == Init /\ [][Next]_svars
=============================================================================
