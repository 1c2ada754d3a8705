----------------------------- MODULE ManagedTx -----------------------------
(***************************************************************************)
(* How transactions end: DB.Update, DB.View and the idiom                  *)
(*     tx, err := db.Begin(true); defer tx.Rollback(); ... tx.Commit()     *)
(* when the caller's function returns, fails or panics, calls Commit or    *)
(* Rollback itself, when rebalance or spill panics inside Commit, and when *)
(* a commit handler panics or runs a transaction of its own.  The writer   *)
(* lock is released and the transaction's counters are added to those of   *)
(* the database inside Tx.close; Go's mutex is fatal when it is released   *)
(* while free, and blocks for good when it is not released.                *)
(*                                                                         *)
(* A goroutine has a stack of such calls; what happens to the data is in   *)
(* modules VmboltDB and BTree, a closed database in VmboltDB.              *)
(***************************************************************************)
EXTENDS Integers, SequencesExt, FiniteSets

CONSTANTS
    Procs,
    Nil,
    MaxDepth,       \* bound: calls inside of each other
    MaxHandlers     \* bound: OnCommit handlers of one transaction

ASSUME ManagedAssumption ==
    Nil \notin Procs \cup {"handlers"} /\ MaxDepth \in Nat /\ MaxHandlers \in Nat

VARIABLES
    rwlock,     \* its holder, or Nil
    stack,      \* the calls each goroutine is in, the innermost last
    uncounted   \* history: transactions begun whose counters are not yet in DB.stats

vars == <<rwlock, stack, uncounted>>

Kinds == {"Update", "View", "Begin"}

\* A call: where it is, where a panic began, Tx.db # nil, Tx.managed,
\* len(Tx.commitHandlers), and how often it has published a state.  beginTx has
\* no lock to wait for.
call(kind) ==
    [kind |-> kind,
     pc |-> IF kind = "View" THEN "fn" ELSE "beginRWTx",
     panicIn |-> Nil,
     db |-> kind = "View",
     managed |-> kind = "View",
     handlers |-> 0,
     published |-> 0]

writable(f) == f.kind # "View"

top(p) == Last(stack[p])

At(p, pc) == stack[p] # <<>> /\ top(p).pc = pc

\* The innermost call goes on as f, or panics.
goesOn(p, f) == stack' = [stack EXCEPT ![p] = Append(Front(@), f)]

panics(f) == [f EXCEPT !.pc = "panic", !.panicIn = f.pc]

Init == rwlock = Nil /\ stack = [p \in Procs |-> <<>>] /\ uncounted = 0

\* A call is made by a goroutine, a function or a handler.  Update inside
\* Update would wait for its own goroutine; no caller does that.
Call(p, kind) ==
    /\ Len(stack[p]) < MaxDepth
    /\ stack[p] = <<>> \/ At(p, "fn") \/ (At(p, "handlers") /\ top(p).handlers > 0)
    /\ kind # "View" => \A i \in 1..Len(stack[p]) : ~(writable(stack[p][i]) /\ stack[p][i].db)
    /\ stack' = [stack EXCEPT ![p] = Append(@, call(kind))]
    /\ uncounted' = IF kind = "View" THEN uncounted + 1 ELSE uncounted
    /\ UNCHANGED rwlock

\* beginRWTx, then t.managed = true in Update.
beginRWTx(p) ==
    /\ At(p, "beginRWTx")
    /\ rwlock = Nil
    /\ rwlock' = p
    /\ uncounted' = uncounted + 1
    /\ goesOn(p, [top(p) EXCEPT !.pc = "fn", !.db = TRUE, !.managed = top(p).kind = "Update"])

OnCommit(p) ==
    /\ At(p, "fn") /\ top(p).handlers < MaxHandlers
    /\ goesOn(p, [top(p) EXCEPT !.handlers = @ + 1])
    /\ UNCHANGED <<rwlock, uncounted>>

----------------------------------------------------------------------------
(* Tx.                                                                     *)

\* Mutant: Tx.close does not look whether the transaction is closed already.
closeAgain(f) ==
    /\ rwlock' = IF f.db /\ writable(f) THEN Nil ELSE rwlock
    /\ uncounted' = uncounted - 1

\* Tx.close: nothing if the transaction is closed already.  removeTx adds the
\* counters of a read transaction.
close(f) ==
    /\ rwlock' = IF f.db /\ writable(f) THEN Nil ELSE rwlock
    /\ uncounted' = IF f.db THEN uncounted - 1 ELSE uncounted

closed(f) == [f EXCEPT !.db = FALSE]

\* common.Assert(!tx.managed, ...), at the top of Commit and Rollback.
asserts(f) == f.managed

\* The function calls tx.Commit itself; the errors ErrTxClosed and
\* ErrTxNotWritable change nothing.
CallCommit(p) ==
    /\ At(p, "fn")
    /\ \/ asserts(top(p)) /\ goesOn(p, panics(top(p)))
       \/ ~asserts(top(p)) /\ top(p).db /\ writable(top(p)) /\ goesOn(p, [top(p) EXCEPT !.pc = "commit"])
    /\ UNCHANGED <<rwlock, uncounted>>

\* The function calls tx.Rollback itself.
CallRollback(p) ==
    /\ At(p, "fn")
    /\ \/ asserts(top(p)) /\ goesOn(p, panics(top(p))) /\ UNCHANGED <<rwlock, uncounted>>
       \/ ~asserts(top(p)) /\ top(p).db /\ goesOn(p, closed(top(p))) /\ close(top(p))

\* Mutant: the handlers run before the state is stored.
CommitHandlersFirst(p) ==
    /\ At(p, "commit")
    /\ goesOn(p, [closed(top(p)) EXCEPT !.pc = "handlers"])
    /\ close(top(p))

\* Commit stores the new state and closes the transaction.
Commit(p) ==
    /\ At(p, "commit")
    /\ goesOn(p, [closed(top(p)) EXCEPT !.pc = "handlers", !.published = @ + 1])
    /\ close(top(p))

\* rebalance or spill panics.
CommitPanics(p) == At(p, "commit") /\ goesOn(p, panics(top(p))) /\ UNCHANGED <<rwlock, uncounted>>

\* A handler returns or panics.
RunHandler(p) ==
    /\ At(p, "handlers") /\ top(p).handlers > 0
    /\ goesOn(p, [top(p) EXCEPT !.handlers = @ - 1]) \/ goesOn(p, panics(top(p)))
    /\ UNCHANGED <<rwlock, uncounted>>

----------------------------------------------------------------------------
(* The ends of Update, View and Begin.                                     *)

ends(p) == stack' = [stack EXCEPT ![p] = Front(@)]

\* fn of Update returns nil: managed is reset and Commit called.
FnReturnsNil(p) ==
    /\ At(p, "fn") /\ top(p).kind = "Update"
    /\ goesOn(p, [top(p) EXCEPT !.managed = FALSE, !.pc = "commit"])
    /\ UNCHANGED <<rwlock, uncounted>>

\* fn of Update returns an error, fn of View returns, or the function that has
\* called Begin returns: Rollback.
FnRollsBack(p) == At(p, "fn") /\ close(top(p)) /\ ends(p)

\* Commit returns nil, to Update or to the function that called it.
CommitReturns(p) ==
    /\ At(p, "handlers") /\ top(p).handlers = 0
    /\ IF top(p).kind = "Begin" THEN goesOn(p, [top(p) EXCEPT !.pc = "fn"]) ELSE ends(p)
    /\ UNCHANGED <<rwlock, uncounted>>

FnPanics(p) == At(p, "fn") /\ goesOn(p, panics(top(p))) /\ UNCHANGED <<rwlock, uncounted>>

\* Mutant: the deferred function calls Rollback, whose assertion fails as long
\* as fn has not returned.
deferredAsserts(f) == IF asserts(f) THEN UNCHANGED <<rwlock, uncounted>> ELSE close(f)

\* The deferred function of Update and View, if t.db != nil { t.rollback() },
\* or the deferred Rollback of the caller of Begin.
deferred(f) == close(f)

\* Mutant: a panic is caught inside the call and fn called again.
UnwindRetries(p) ==
    /\ At(p, "panic")
    /\ goesOn(p, [top(p) EXCEPT !.pc = "fn", !.panicIn = Nil])
    /\ UNCHANGED <<rwlock, uncounted>>

\* A panic leaves the call.  The function or handler around it recovers, or the
\* panic leaves that too; outside of all calls the goroutine recovers.
Unwind(p) ==
    /\ At(p, "panic")
    /\ deferred(top(p))
    /\ \E st \in {Front(stack[p])} :
          \/ stack' = [stack EXCEPT ![p] = st]
          \/ st # <<>> /\ stack' = [stack EXCEPT ![p] = Append(Front(st), panics(Last(st)))]

----------------------------------------------------------------------------
\* What a function does before it ends.
Works(p) ==
    OnCommit(p) \/ CallCommit(p) \/ CallRollback(p) \/ \E kind \in Kinds : Call(p, kind)

FnEnds(p) == FnReturnsNil(p) \/ FnRollsBack(p) \/ FnPanics(p)

Ends(p) == Commit(p) \/ CommitPanics(p) \/ CommitReturns(p) \/ Unwind(p)

Next == \E p \in Procs : Works(p) \/ beginRWTx(p) \/ FnEnds(p) \/ RunHandler(p) \/ Ends(p)

Spec == Init /\ [][Next]_vars

\* The mutex starves nobody.  A function or handler ends, however many
\* transactions it runs before; d tells it from those it calls.
Fairness ==
    \A p \in Procs :
        /\ SF_vars(beginRWTx(p))
        /\ \A d \in 1..MaxDepth : SF_vars(Len(stack[p]) = d /\ (FnEnds(p) \/ RunHandler(p)))
        /\ WF_vars(Ends(p))

FairSpec == Spec /\ Fairness

----------------------------------------------------------------------------
(* Properties.                                                             *)

holdsLock(f) == writable(f) /\ f.db

\* The lock is held by the goroutine that has an open write transaction, and is
\* free when there is none: no way out of Update, View and the idiom, panics
\* in fn, in Commit and in handlers included, keeps the lock or releases it a
\* second time (db.go:269, tx.go:374).
LockIsOpenWriter ==
    \A p \in Procs :
        \/ rwlock = p /\ Cardinality({i \in 1..Len(stack[p]) : holdsLock(stack[p][i])}) = 1
        \/ rwlock # p /\ \A i \in 1..Len(stack[p]) : ~holdsLock(stack[p][i])

openTx == {x \in Procs \X (1..MaxDepth) : x[2] <= Len(stack[x[1]]) /\ stack[x[1]][x[2]].db}

\* The counters of a transaction are added to those of the database exactly
\* once, on whichever of the ways above it ends, and not before: those that are
\* not yet added are those of the open transactions (tx.go:369, db.go:253).
CountedWhenClosed == uncounted = Cardinality(openTx)

\* Update that returns nil has published one state, one that returns an error
\* or whose fn or Commit panics has published none; only a handler's panic
\* comes after the state has been stored (tx.go:333).  View publishes nothing,
\* and no transaction does so twice.
PublishedOrNot ==
    [][\A p \in Procs : Len(stack'[p]) < Len(stack[p]) =>
        \E f \in {top(p)} :
            /\ f.published \in {0, 1}
            /\ f.kind = "Update" =>
                  f.published = IF "handlers" \in {f.pc, f.panicIn} THEN 1 ELSE 0
            /\ f.kind = "View" => f.published = 0]_vars

\* Whoever waits for the writer lock gets it, although functions, commits and
\* handlers of the others may panic at any point (db.go:231).
WriterServed == \A p \in Procs : At(p, "beginRWTx") ~> ~At(p, "beginRWTx")
=============================================================================
