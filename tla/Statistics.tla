----------------------------- MODULE Statistics -----------------------------
(***************************************************************************)
(* DB.stats: every transaction counts what it does in counters of its own  *)
(* (TxStats, tx.go) and close adds them, field by field and under          *)
(* statlock, to those of the database; Stats() copies the struct field by  *)
(* field under the read lock, and the caller subtracts an earlier copy     *)
(* with Sub (db.go).  Statistics are on (Options.NoStatistics is false).   *)
(***************************************************************************)
EXTENDS Integers, FiniteSets

CONSTANTS
    Procs,          \* goroutines
    Fields,         \* the counters of TxStats
    MaxCount,       \* bound: events of one transaction
    MaxTx,          \* bound: transactions
    Nil

ASSUME StatisticsAssumption ==
    /\ Nil \notin Procs
    /\ MaxCount \in Nat /\ MaxTx \in Nat

VARIABLES
    pc,         \* where each goroutine is
    writable,   \* Tx.writable
    stats,      \* Tx.stats
    TxStats,    \* DB.stats.TxStats
    TxN,        \* DB.stats.TxN
    OpenTxN,    \* DB.stats.OpenTxN
    statlock,   \* its writer, or Nil
    readers,    \* statlock: the goroutines that hold the read lock
    rest,       \* the fields that add or the copy has still to do
    copy,       \* what the last Stats() returned
    older,      \* what the one before it returned
    ended,      \* history: what all ended transactions have counted
    begun       \* counts transactions for the bound

vars == <<pc, writable, stats, TxStats, TxN, OpenTxN, statlock, readers, rest, copy, older, ended, begun>>

Zero == [f \in Fields |-> 0]

NoCopy == [TxStats |-> Zero, TxN |-> 0, OpenTxN |-> 0]

Init ==
    /\ pc = [p \in Procs |-> "idle"]
    /\ writable = [p \in Procs |-> FALSE]
    /\ stats = [p \in Procs |-> Zero]
    /\ TxStats = Zero
    /\ TxN = 0 /\ OpenTxN = 0
    /\ statlock = Nil
    /\ readers = {}
    /\ rest = [p \in Procs |-> {}]
    /\ copy = [p \in Procs |-> NoCopy]
    /\ older = [p \in Procs |-> NoCopy]
    /\ ended = Zero
    /\ begun = 0

Goto(p, from, to) == pc[p] = from /\ pc' = [pc EXCEPT ![p] = to]

Unlocked == statlock = Nil /\ readers = {}

----------------------------------------------------------------------------
\* beginTx: both counters under statlock.
beginTx(p) ==
    /\ begun < MaxTx
    /\ Unlocked
    /\ Goto(p, "idle", "open")
    /\ TxN' = TxN + 1
    /\ OpenTxN' = OpenTxN + 1
    /\ begun' = begun + 1
    /\ UNCHANGED <<writable, stats, TxStats, statlock, readers, rest, copy, older, ended>>

\* beginRWTx: a write transaction is counted nowhere, and there is one.
beginRWTx(p) ==
    /\ begun < MaxTx
    /\ \A q \in Procs : ~writable[q]
    /\ Goto(p, "idle", "open")
    /\ writable' = [writable EXCEPT ![p] = TRUE]
    /\ begun' = begun + 1
    /\ UNCHANGED <<stats, TxStats, TxN, OpenTxN, statlock, readers, rest, copy, older, ended>>

\* IncCursorCount, IncSplit, IncSpill, IncRebalance, ...
Inc(p, f) ==
    /\ pc[p] = "open"
    /\ stats[p][f] < MaxCount
    /\ stats' = [stats EXCEPT ![p][f] = @ + 1]
    /\ UNCHANGED <<pc, writable, TxStats, TxN, OpenTxN, statlock, readers, rest, copy, older, ended, begun>>

\* Tx.close and removeTx up to add.
close(p) ==
    /\ Unlocked
    /\ Goto(p, "open", "add")
    /\ statlock' = p
    /\ OpenTxN' = IF writable[p] THEN OpenTxN ELSE OpenTxN - 1
    /\ rest' = [rest EXCEPT ![p] = Fields]
    /\ UNCHANGED <<writable, stats, TxStats, TxN, readers, copy, older, ended, begun>>

\* Mutant: the counter is overwritten.
addStores(p, f) ==
    /\ pc[p] = "add"
    /\ f \in rest[p]
    /\ TxStats' = [TxStats EXCEPT ![f] = stats[p][f]]
    /\ rest' = [rest EXCEPT ![p] = @ \ {f}]
    /\ UNCHANGED <<pc, writable, stats, TxN, OpenTxN, statlock, readers, copy, older, ended, begun>>

\* TxStats.add, one field.
add(p, f) ==
    /\ pc[p] = "add"
    /\ f \in rest[p]
    /\ TxStats' = [TxStats EXCEPT ![f] = @ + stats[p][f]]
    /\ rest' = [rest EXCEPT ![p] = @ \ {f}]
    /\ UNCHANGED <<pc, writable, stats, TxN, OpenTxN, statlock, readers, copy, older, ended, begun>>

\* Mutant: not every field is added.
closedEarly(p) ==
    /\ Goto(p, "add", "idle")
    /\ statlock' = Nil
    /\ rest' = [rest EXCEPT ![p] = {}]
    /\ ended' = [f \in Fields |-> ended[f] + stats[p][f]]
    /\ stats' = [stats EXCEPT ![p] = Zero]
    /\ writable' = [writable EXCEPT ![p] = FALSE]
    /\ UNCHANGED <<TxStats, TxN, OpenTxN, readers, copy, older, begun>>

\* statlock.Unlock; then rwlock.Unlock, and the transaction is gone.
closed(p) ==
    /\ rest[p] = {}
    /\ Goto(p, "add", "idle")
    /\ statlock' = Nil
    /\ ended' = [f \in Fields |-> ended[f] + stats[p][f]]
    /\ stats' = [stats EXCEPT ![p] = Zero]
    /\ writable' = [writable EXCEPT ![p] = FALSE]
    /\ UNCHANGED <<TxStats, TxN, OpenTxN, readers, rest, copy, older, begun>>

----------------------------------------------------------------------------
(* Stats(); the caller keeps the copy it had.                              *)

\* Mutant: Stats does not lock.
StatsNoLock(p) ==
    /\ Goto(p, "idle", "copy")
    /\ older' = [older EXCEPT ![p] = copy[p]]
    /\ copy' = [copy EXCEPT ![p] = [TxStats |-> copy[p].TxStats, TxN |-> TxN, OpenTxN |-> OpenTxN]]
    /\ rest' = [rest EXCEPT ![p] = Fields]
    /\ UNCHANGED <<writable, stats, TxStats, TxN, OpenTxN, statlock, readers, ended, begun>>

Stats(p) ==
    /\ statlock = Nil
    /\ Goto(p, "idle", "copy")
    /\ readers' = readers \cup {p}
    /\ older' = [older EXCEPT ![p] = copy[p]]
    /\ copy' = [copy EXCEPT ![p] = [TxStats |-> copy[p].TxStats, TxN |-> TxN, OpenTxN |-> OpenTxN]]
    /\ rest' = [rest EXCEPT ![p] = Fields]
    /\ UNCHANGED <<writable, stats, TxStats, TxN, OpenTxN, statlock, ended, begun>>

\* s = *db.stats, one field.
CopyField(p, f) ==
    /\ pc[p] = "copy"
    /\ f \in rest[p]
    /\ copy' = [copy EXCEPT ![p].TxStats[f] = TxStats[f]]
    /\ rest' = [rest EXCEPT ![p] = @ \ {f}]
    /\ UNCHANGED <<pc, writable, stats, TxStats, TxN, OpenTxN, statlock, readers, older, ended, begun>>

StatsReturns(p) ==
    /\ rest[p] = {}
    /\ Goto(p, "copy", "idle")
    /\ readers' = readers \ {p}
    /\ UNCHANGED <<writable, stats, TxStats, TxN, OpenTxN, statlock, rest, copy, older, ended, begun>>

\* TxStats.Sub
SubTxStats(s, other) == [f \in Fields |-> s[f] - other[f]]

\* Stats.Sub: OpenTxN is not a difference.
Sub(s, other) ==
    [TxStats |-> SubTxStats(s.TxStats, other.TxStats),
     TxN     |-> s.TxN - other.TxN,
     OpenTxN |-> 0]

----------------------------------------------------------------------------
Next ==
    \E p \in Procs :
        \/ beginTx(p) \/ beginRWTx(p) \/ close(p) \/ closed(p)
        \/ Stats(p) \/ StatsReturns(p)
        \/ \E f \in Fields : Inc(p, f) \/ add(p, f) \/ CopyField(p, f)

Spec == Init /\ [][Next]_vars

----------------------------------------------------------------------------
(* Properties.                                                             *)

Counts == [Fields -> Nat]

\* Every variable has the type of the field it stands for.
TypeOK ==
    /\ pc \in [Procs -> {"idle", "open", "add", "copy"}]
    /\ writable \in [Procs -> BOOLEAN]
    /\ stats \in [Procs -> Counts]
    /\ TxStats \in Counts
    /\ TxN \in Nat /\ OpenTxN \in Int
    /\ statlock \in Procs \cup {Nil}
    /\ readers \subseteq Procs
    /\ rest \in [Procs -> SUBSET Fields]
    /\ copy \in [Procs -> [TxStats : Counts, TxN : Nat, OpenTxN : Int]]
    /\ older \in [Procs -> [TxStats : Counts, TxN : Nat, OpenTxN : Int]]
    /\ ended \in Counts
    /\ begun \in Nat

\* Whenever nobody is inside add, the counters of the database are the sums over
\* the transactions that have ended, each counted once and in every field
\* (tx.go:369, db.go:257).
CountedOnce == statlock = Nil => TxStats = ended

\* A copy that Stats() returns is one moment's statistics, never half of a
\* transaction: when it is complete it holds what all transactions ended so far
\* have counted and the read transactions that are open (db.go:415).
CopyIsOneMoment ==
    \A p \in Procs : pc[p] = "copy" /\ rest[p] = {} =>
        /\ copy[p].TxStats = ended
        /\ copy[p].TxN = TxN
        /\ copy[p].OpenTxN = Cardinality({q \in Procs : pc[q] = "open" /\ ~writable[q]})

\* Sub of two copies that one caller took one after the other is never negative,
\* in any field: the counters of a DB only grow.
DifferenceGrows ==
    \A p \in Procs : pc[p] # "copy" =>
        \E d \in {Sub(copy[p], older[p])} :
            d.TxN >= 0 /\ \A f \in Fields : d.TxStats[f] >= 0
=============================================================================
