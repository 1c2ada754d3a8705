---------------------------- MODULE CheckStream ----------------------------
(***************************************************************************)
(* Tx.Check (tx_check.go): a goroutine that validates the pinned snapshot, *)
(* starts one more per bucket and closes the channel when all are done;    *)
(* every error goes through a channel of fixed capacity.  It has two       *)
(* callers: MustCheck (internal/btesting) reads the channel inside a View  *)
(* and leaves the process when there are errors; checkErrors (tx_test.go)  *)
(* returns with the first error and rolls its transaction back.            *)
(*                                                                         *)
(* What checkBucket finds in a tree is a number of errors here; the checks *)
(* themselves are those of module BTreeNode.  The snapshot is immutable    *)
(* but the field tx.base is not: Tx.close sets it to nil, and the          *)
(* goroutines read it anew each time they need it.                         *)
(***************************************************************************)
EXTENDS Integers, Sequences

CONSTANTS
    Buckets,        \* the buckets of the pinned snapshot
    MaxFaults,      \* bound: errors in one bucket
    Capacity,       \* of the channel; 16
    MaxErrors,      \* what MustCheck reads before it gives up; 10
    Root            \* the goroutine that Check starts

ASSUME CheckAssumption ==
    /\ MaxFaults \in Nat /\ Capacity \in Nat \ {0} /\ MaxErrors \in Nat
    /\ Root \notin Buckets

VARIABLES
    faults,     \* the number of errors checkBucket returns for a bucket
    base,       \* tx.base is not nil
    pc,         \* where each goroutine is
    left,       \* errors each goroutine has still to send
    started,    \* the buckets whose goroutine the loop has started
    wg,         \* the WaitGroup: the goroutines added and not done
    ch, closed, \* the channel
    errors,     \* how many errors the caller has received
    caller      \* "reading", "passed", "failed" (os.Exit of MustCheck) or
                \* "returned" (checkErrors has its error)

vars == <<faults, base, pc, left, started, wg, ch, closed, errors, caller>>

Goroutines == Buckets \cup {Root}

Init ==
    /\ faults \in [Buckets -> 0..MaxFaults]
    /\ base \in BOOLEAN
    /\ pc = [g \in Goroutines |-> IF g = Root THEN "check" ELSE "none"]
    /\ left = [g \in Goroutines |-> 0]
    /\ started = {}
    /\ wg = {}
    /\ ch = <<>>
    /\ closed = FALSE
    /\ errors = 0
    /\ caller = "reading"

\* The process is still there: no goroutine has panicked, MustCheck has not
\* called os.Exit.
Running == caller # "failed" /\ \A g \in Goroutines : pc[g] # "panic"

Goto(g, from, to) ==
    /\ Running
    /\ pc[g] = from
    /\ pc' = [pc EXCEPT ![g] = to]

----------------------------------------------------------------------------
(* The goroutine of Check.                                                 *)

\* A transaction without a base is reported and the goroutine returns.
CheckBase ==
    /\ IF base
       THEN Goto(Root, "check", "levelA") /\ UNCHANGED left
       ELSE Goto(Root, "check", "report") /\ left' = [left EXCEPT ![Root] = 1]
    /\ UNCHANGED <<faults, base, started, wg, ch, closed, errors, caller>>

\* checkDBState: no published bucket state is nil, so only a nil dbState is
\* an error.
checkDBState ==
    /\ Goto(Root, "levelA", "levelB")
    /\ left' = [left EXCEPT ![Root] = IF base THEN 0 ELSE 1]
    /\ UNCHANGED <<faults, base, started, wg, ch, closed, errors, caller>>

\* sortedBucketNames dereferences tx.base.
ListBuckets ==
    /\ left[Root] = 0
    /\ Goto(Root, "levelB", IF base THEN "spawn" ELSE "panic")
    /\ UNCHANGED <<faults, base, left, started, wg, ch, closed, errors, caller>>

\* Mutant: the goroutine itself calls wg.Add.
SpawnUncounted(b) ==
    /\ Running
    /\ pc[Root] = "spawn"
    /\ b \notin started
    /\ started' = started \cup {b}
    /\ pc' = [pc EXCEPT ![b] = "bucket"]
    /\ UNCHANGED <<faults, base, left, wg, ch, closed, errors, caller>>

Spawn(b) ==
    /\ Running
    /\ pc[Root] = "spawn"
    /\ b \notin started
    /\ started' = started \cup {b}
    /\ wg' = wg \cup {b}
    /\ pc' = [pc EXCEPT ![b] = "bucket"]
    /\ UNCHANGED <<faults, base, left, ch, closed, errors, caller>>

AllSpawned ==
    /\ started = Buckets
    /\ Goto(Root, "spawn", "wait")
    /\ UNCHANGED <<faults, base, left, started, wg, ch, closed, errors, caller>>

\* Mutant: the channel is never closed.
CloseChannelNever ==
    /\ \/ pc[Root] = "wait" /\ wg = {} /\ Goto(Root, "wait", "done")
       \/ left[Root] = 0 /\ Goto(Root, "report", "done")
    /\ UNCHANGED <<faults, base, left, started, wg, ch, closed, errors, caller>>

\* wg.Wait, or the return after the report; then the deferred close(ch).
CloseChannel ==
    /\ \/ pc[Root] = "wait" /\ wg = {} /\ Goto(Root, "wait", "done")
       \/ left[Root] = 0 /\ Goto(Root, "report", "done")
    /\ closed' = TRUE
    /\ UNCHANGED <<faults, base, left, started, wg, ch, errors, caller>>

----------------------------------------------------------------------------
(* The goroutine of a bucket.                                              *)

\* tx.base.buckets[name], then checkBucket.
CheckBucket(b) ==
    /\ Goto(b, "bucket", IF base THEN "send" ELSE "panic")
    /\ left' = [left EXCEPT ![b] = IF base THEN faults[b] ELSE 0]
    /\ UNCHANGED <<faults, base, started, wg, ch, closed, errors, caller>>

\* ch <- err.
Send(g) ==
    /\ Running
    /\ left[g] > 0
    /\ Len(ch) < Capacity
    /\ ~closed
    /\ ch' = Append(ch, g)
    /\ left' = [left EXCEPT ![g] = @ - 1]
    /\ UNCHANGED <<faults, base, pc, started, wg, closed, errors, caller>>

\* Mutant: the goroutine is done before its errors are sent.
DoneEarly(b) ==
    /\ Goto(b, "send", "done")
    /\ wg' = wg \ {b}
    /\ UNCHANGED <<faults, base, left, started, ch, closed, errors, caller>>

\* defer wg.Done().
Done(b) ==
    /\ left[b] = 0
    /\ Goto(b, "send", "done")
    /\ wg' = wg \ {b}
    /\ UNCHANGED <<faults, base, left, started, ch, closed, errors, caller>>

----------------------------------------------------------------------------
(* The callers.                                                            *)

\* MustCheck: one error; after MaxErrors the loop breaks and the process exits.
Receive ==
    /\ Running
    /\ caller = "reading"
    /\ ch # <<>>
    /\ ch' = Tail(ch)
    /\ errors' = errors + 1
    /\ caller' = IF errors' > MaxErrors THEN "failed" ELSE "reading"
    /\ UNCHANGED <<faults, base, pc, left, started, wg, closed>>

\* checkErrors: the first error ends the loop.
ReturnFirst ==
    /\ Running
    /\ caller = "reading"
    /\ ch # <<>> /\ errors = 0
    /\ ch' = Tail(ch)
    /\ errors' = 1
    /\ caller' = "returned"
    /\ UNCHANGED <<faults, base, pc, left, started, wg, closed>>

\* The channel is closed and empty: the verdict of MustCheck, or nil.
Verdict ==
    /\ Running
    /\ caller = "reading"
    /\ closed
    /\ ch = <<>>
    /\ caller' = IF errors > 0 THEN "failed" ELSE "passed"
    /\ UNCHANGED <<faults, base, pc, left, started, wg, ch, closed, errors>>

\* View, or the deferred Rollback of checkErrors, ends the transaction.
EndTx ==
    /\ Running
    /\ base
    /\ caller \in {"passed", "returned"}
    /\ base' = FALSE
    /\ UNCHANGED <<faults, pc, left, started, wg, ch, closed, errors, caller>>

----------------------------------------------------------------------------
Library ==
    \/ CheckBase \/ checkDBState \/ ListBuckets \/ AllSpawned \/ CloseChannel
    \/ \E b \in Buckets : Spawn(b) \/ CheckBucket(b) \/ Done(b)
    \/ \E g \in Goroutines : Send(g)

Caller == Receive \/ ReturnFirst \/ Verdict

Next == Library \/ Caller \/ EndTx

Spec == Init /\ [][Next]_vars

\* Goroutines run; the caller goes on reading.
FairSpec == Spec /\ WF_vars(Library) /\ WF_vars(Caller)

----------------------------------------------------------------------------
(* Properties.                                                             *)

\* Every variable has its type; no goroutine sends more errors than it found.
TypeOK ==
    /\ faults \in [Buckets -> Nat]
    /\ base \in BOOLEAN
    /\ pc \in [Goroutines -> {"none", "check", "report", "levelA", "levelB", "spawn",
                              "wait", "bucket", "send", "done", "panic"}]
    /\ left \in [Goroutines -> Nat]
    /\ started \subseteq Buckets
    /\ wg \subseteq Buckets
    /\ ch \in Seq(Goroutines)
    /\ closed \in BOOLEAN
    /\ errors \in Nat
    /\ caller \in {"reading", "passed", "failed", "returned"}

\* No goroutine sends on the channel after it was closed, which would panic:
\* the WaitGroup covers every bucket whose goroutine has been started
\* (tx_check.go:48).
NoSendAfterClose == closed => \A g \in Goroutines : left[g] = 0 /\ pc[g] \in {"none", "done"}

\* "panics if any errors are found" (btesting.go:125): whatever the order in
\* which the goroutines are scheduled and the channel fills, a caller passes
\* only a snapshot in which no bucket has an error.
PassedIsClean == caller = "passed" => \A b \in Buckets : faults[b] = 0

\* "the published snapshot is immutable, so each Check call walks it
\* independently without locks" (tx_check.go:19): the goroutines read the field
\* tx.base anew each time, and none of them may find it nil; a closed transaction
\* is to be reported on the channel (tx_check.go:36).  Violated: checkErrors
\* ends the transaction while they run.
NoNilDereference == \A g \in Goroutines : pc[g] # "panic"

\* "the channel is closed when validation completes" (tx_check.go:15): a caller
\* that goes on reading comes to a verdict, although the goroutines wait for
\* the channel, which is smaller than the number of errors, and the channel is
\* closed only after them.
CheckEnds == <>(caller # "reading")
=============================================================================
