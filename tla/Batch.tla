------------------------------- MODULE Batch -------------------------------
(***************************************************************************)
(* DB.Batch: concurrent callers whose functions are coalesced into one     *)
(* write transaction (db.go, Batch, batch.trigger, batch.run).             *)
(*                                                                         *)
(* A critical section of batchMu holds no blocking call, so it is one      *)
(* step.  The write transaction of Update is reduced to what Batch can     *)
(* tell: the writer lock, the functions applied so far, and its outcome;   *)
(* its inside is modelled by VmboltDB.                                     *)
(*                                                                         *)
(* A read-only database is like one that is closed from the start: Begin's *)
(* error is everybody's answer, ErrDatabaseReadOnly in place of "closed".  *)
(* Panics of Commit and of commit handlers are left to ManagedTx; in run,  *)
(* which is no caller's goroutine, they end the process.                   *)
(***************************************************************************)
EXTENDS Integers, Sequences, FiniteSets

CONSTANTS
    Callers,        \* goroutines, each of which calls Batch once
    MaxBatch,       \* bound: batch objects are numbered 1..MaxBatch
    MaxBatchSize,   \* DB.MaxBatchSize
    Nobody          \* rwlock: not held; db.batch: nil; errCh: empty

ASSUME BatchAssumption ==
    /\ MaxBatchSize \in Nat \ {0}
    /\ MaxBatch \in Nat /\ MaxBatch >= Cardinality(Callers)
    /\ IsFiniteSet(Callers) /\ Callers \cap (1..MaxBatch) = {}
    /\ Nobody \notin Callers \cup (1..MaxBatch)
    /\ Nobody \notin {"nil", "error", "panic", "closed", "trySolo"}

Batches == 1..MaxBatch

\* What a call of the user's function does.  safelyCall turns a panic into an
\* error; outside of a batch the panic goes through Update to the caller.
Outcomes == {"nil", "error", "panic"}

\* What Batch returns; "closed" is ErrDatabaseNotOpen.
Results == Outcomes \cup {"closed"}

VARIABLES
    opened,     \* DB.opened
    rwlock,     \* who holds DB.rwlock
    batch,      \* DB.batch
    calls,      \* batch.calls, by caller
    timer,      \* batch.timer: "none", "armed", "stopped"
    triggers,   \* goroutines in trigger that have not returned
    bpc,        \* where batch.run is
    idx,        \* the call run is at
    err,        \* what Update returned to run
    errCh,      \* call.err, a channel of capacity 1
    cpc,        \* where the caller is
    result,     \* what Batch returned to the caller
    applied,    \* callers whose functions ran in the open write transaction
    committed,  \* how often a caller's function has been committed
    own         \* what the caller's function returned last

vars == <<opened, rwlock, batch, calls, timer, triggers, bpc, idx, err, errCh,
          cpc, result, applied, committed, own>>

batchVars == <<batch, calls, timer, triggers, bpc, idx, err>>

\* batch.start, the sync.Once, from where run is.
Started(b) == bpc[b] # "new"
Finished(b) == bpc[b] = "done"

Init ==
    /\ opened = TRUE /\ rwlock = Nobody /\ batch = Nobody
    /\ calls = [b \in Batches |-> <<>>]
    /\ timer = [b \in Batches |-> "none"]
    /\ triggers = [b \in Batches |-> 0]
    /\ bpc = [b \in Batches |-> "new"]
    /\ idx = [b \in Batches |-> 1]
    /\ err = [b \in Batches |-> "nil"]
    /\ errCh = [c \in Callers |-> Nobody]
    /\ cpc = [c \in Callers |-> "start"]
    /\ result = [c \in Callers |-> Nobody]
    /\ applied = {}
    /\ committed = [c \in Callers |-> 0]
    /\ own = [c \in Callers |-> Nobody]

----------------------------------------------------------------------------
(* DB.Batch.                                                               *)

needsNewBatch == batch = Nobody \/ Len(calls[batch]) >= MaxBatchSize

\* The batch object a call of Batch uses: db.batch, or a new one, the first that
\* is left.
targetBatch(b) ==
    IF needsNewBatch
    THEN timer[b] = "none" /\ \A a \in Batches : a < b => timer[a] # "none"
    ELSE b = batch

\* The critical section of Batch.
Join(c) ==
    \E b \in Batches :
        /\ cpc[c] = "start" /\ targetBatch(b)
        /\ cpc' = [cpc EXCEPT ![c] = "wait"]
        /\ batch' = b
        /\ timer' = IF needsNewBatch THEN [timer EXCEPT ![b] = "armed"] ELSE timer
        /\ calls' = [calls EXCEPT ![b] = Append(@, c)]
        /\ triggers' = IF Len(calls'[b]) >= MaxBatchSize
                       THEN [triggers EXCEPT ![b] = @ + 1] ELSE triggers
        /\ UNCHANGED <<opened, rwlock, bpc, idx, err, errCh, result, applied, committed, own>>

\* The receive from errCh.
Receive(c) ==
    /\ cpc[c] = "wait" /\ errCh[c] # Nobody
    /\ errCh' = [errCh EXCEPT ![c] = Nobody]
    /\ IF errCh[c] = "trySolo"
       THEN cpc' = [cpc EXCEPT ![c] = "solo"] /\ UNCHANGED result
       ELSE cpc' = [cpc EXCEPT ![c] = "done"] /\ result' = [result EXCEPT ![c] = errCh[c]]
    /\ UNCHANGED <<opened, rwlock, batchVars, applied, committed, own>>

\* Update of the function on its own: Begin ...
SoloBegin(c) ==
    /\ cpc[c] = "solo" /\ rwlock = Nobody
    /\ IF opened
       THEN rwlock' = c /\ cpc' = [cpc EXCEPT ![c] = "fn"] /\ UNCHANGED result
       ELSE /\ cpc' = [cpc EXCEPT ![c] = "done"] /\ result' = [result EXCEPT ![c] = "closed"]
            /\ UNCHANGED rwlock
    /\ UNCHANGED <<opened, batchVars, errCh, applied, committed, own>>

\* ... the function, and Commit or Rollback.
SoloRun(c) ==
    /\ cpc[c] = "fn"
    /\ \E out \in Outcomes :
         /\ own' = [own EXCEPT ![c] = out]
         /\ committed' = IF out = "nil" THEN [committed EXCEPT ![c] = @ + 1] ELSE committed
         /\ result' = [result EXCEPT ![c] = out]
    /\ rwlock' = Nobody
    /\ cpc' = [cpc EXCEPT ![c] = "done"]
    /\ UNCHANGED <<opened, batchVars, errCh, applied>>

----------------------------------------------------------------------------
(* batch.trigger and batch.run.                                            *)

\* MaxBatchDelay has passed: the timer starts a goroutine in trigger.
TimerFires(b) ==
    /\ timer[b] = "armed"
    /\ timer' = [timer EXCEPT ![b] = "stopped"]
    /\ triggers' = [triggers EXCEPT ![b] = @ + 1]
    /\ UNCHANGED <<opened, rwlock, batch, calls, bpc, idx, err, errCh, cpc, result,
                   applied, committed, own>>

\* Mutant: the running batch stays db.batch.
StartRunStays(b) ==
    /\ triggers[b] > 0 /\ ~Started(b)
    /\ bpc' = [bpc EXCEPT ![b] = "retry"]
    /\ timer' = [timer EXCEPT ![b] = "stopped"]
    /\ UNCHANGED <<opened, rwlock, batch, calls, triggers, idx, err, errCh, cpc, result,
                   applied, committed, own>>

\* The first trigger runs the batch; run's critical section.
StartRun(b) ==
    /\ triggers[b] > 0 /\ ~Started(b)
    /\ bpc' = [bpc EXCEPT ![b] = "retry"]
    /\ timer' = [timer EXCEPT ![b] = "stopped"]
    /\ batch' = IF batch = b THEN Nobody ELSE batch
    /\ UNCHANGED <<opened, rwlock, calls, triggers, idx, err, errCh, cpc, result,
                   applied, committed, own>>

\* Once.Do returns, to any trigger, when run has returned.
TriggerReturns(b) ==
    /\ triggers[b] > 0 /\ Finished(b)
    /\ triggers' = [triggers EXCEPT ![b] = @ - 1]
    /\ UNCHANGED <<opened, rwlock, batch, calls, timer, bpc, idx, err, errCh, cpc,
                   result, applied, committed, own>>

\* The Begin of run's Update; its error is the answer to every call.
RunBegin(b) ==
    /\ bpc[b] = "retry" /\ rwlock = Nobody
    /\ idx' = [idx EXCEPT ![b] = 1]
    /\ IF opened
       THEN rwlock' = b /\ bpc' = [bpc EXCEPT ![b] = "fn"] /\ UNCHANGED err
       ELSE /\ bpc' = [bpc EXCEPT ![b] = "answer"] /\ err' = [err EXCEPT ![b] = "closed"]
            /\ UNCHANGED rwlock
    /\ UNCHANGED <<opened, batch, calls, timer, triggers, errCh, cpc, result, applied,
                   committed, own>>

\* Mutant: what a failed attempt has applied is not rolled back.
RunFnNoRollback(b) ==
    LET c == calls[b][idx[b]]
    IN  /\ bpc[b] = "fn" /\ idx[b] <= Len(calls[b])
        /\ \E out \in Outcomes :
             /\ own' = [own EXCEPT ![c] = out]
             /\ applied' = applied \cup {c}
             /\ IF out = "nil"
                THEN idx' = [idx EXCEPT ![b] = @ + 1] /\ UNCHANGED <<rwlock, bpc>>
                ELSE /\ rwlock' = Nobody /\ bpc' = [bpc EXCEPT ![b] = "failed"]
                     /\ UNCHANGED idx
        /\ UNCHANGED <<opened, batch, calls, timer, triggers, err, errCh, cpc, result,
                       committed>>

\* Mutant: the error of one call is the answer to all of them.
RunFnFailsAll(b) ==
    LET c == calls[b][idx[b]]
    IN  /\ bpc[b] = "fn" /\ idx[b] <= Len(calls[b])
        /\ \E out \in Outcomes :
             /\ own' = [own EXCEPT ![c] = out]
             /\ IF out = "nil"
                THEN /\ applied' = applied \cup {c}
                     /\ idx' = [idx EXCEPT ![b] = @ + 1]
                     /\ UNCHANGED <<rwlock, bpc, err>>
                ELSE /\ applied' = {} /\ rwlock' = Nobody
                     /\ bpc' = [bpc EXCEPT ![b] = "answer"]
                     /\ err' = [err EXCEPT ![b] = out]
                     /\ idx' = [idx EXCEPT ![b] = 1]
        /\ UNCHANGED <<opened, batch, calls, timer, triggers, errCh, cpc, result, committed>>

\* The loop over the calls: an error ends it, and Update rolls back.
RunFn(b) ==
    LET c == calls[b][idx[b]]
    IN  /\ bpc[b] = "fn" /\ idx[b] <= Len(calls[b])
        /\ \E out \in Outcomes :
             /\ own' = [own EXCEPT ![c] = out]
             /\ IF out = "nil"
                THEN /\ applied' = applied \cup {c}
                     /\ idx' = [idx EXCEPT ![b] = @ + 1]
                     /\ UNCHANGED <<rwlock, bpc>>
                ELSE /\ applied' = {} /\ rwlock' = Nobody
                     /\ bpc' = [bpc EXCEPT ![b] = "failed"]
                     /\ UNCHANGED idx
        /\ UNCHANGED <<opened, batch, calls, timer, triggers, err, errCh, cpc, result,
                       committed>>

RunCommit(b) ==
    /\ bpc[b] = "fn" /\ idx[b] > Len(calls[b])
    /\ committed' = [c \in Callers |-> committed[c] + IF c \in applied THEN 1 ELSE 0]
    /\ applied' = {} /\ rwlock' = Nobody
    /\ bpc' = [bpc EXCEPT ![b] = "answer"]
    /\ err' = [err EXCEPT ![b] = "nil"]
    /\ idx' = [idx EXCEPT ![b] = 1]
    /\ UNCHANGED <<opened, batch, calls, timer, triggers, errCh, cpc, result, own>>

\* Mutant: the failed call is not taken out of the batch.
RemoveFailedRetries(b) ==
    /\ bpc[b] = "failed"
    /\ bpc' = [bpc EXCEPT ![b] = "retry"]
    /\ UNCHANGED <<opened, rwlock, batch, calls, timer, triggers, idx, err, errCh, cpc,
                   result, applied, committed, own>>

\* The last call takes the place of the failed one, which is told to run solo.
RemoveFailed(b) ==
    LET s == calls[b]
        rest == SubSeq([s EXCEPT ![idx[b]] = s[Len(s)]], 1, Len(s) - 1)
    IN  /\ bpc[b] = "failed" /\ errCh[s[idx[b]]] = Nobody
        /\ errCh' = [errCh EXCEPT ![s[idx[b]]] = "trySolo"]
        /\ calls' = [calls EXCEPT ![b] = rest]
        /\ bpc' = [bpc EXCEPT ![b] = IF rest = <<>> THEN "done" ELSE "retry"]
        /\ UNCHANGED <<opened, rwlock, batch, timer, triggers, idx, err, cpc, result,
                       applied, committed, own>>

\* The loop that sends Update's result to the calls, in order.
Answer(b) ==
    LET c == calls[b][idx[b]]
    IN  /\ bpc[b] = "answer" /\ errCh[c] = Nobody
        /\ errCh' = [errCh EXCEPT ![c] = err[b]]
        /\ idx' = [idx EXCEPT ![b] = @ + 1]
        /\ bpc' = [bpc EXCEPT ![b] = IF idx[b] = Len(calls[b]) THEN "done" ELSE @]
        /\ UNCHANGED <<opened, rwlock, batch, calls, timer, triggers, err, cpc, result,
                       applied, committed, own>>

----------------------------------------------------------------------------
\* DB.Close, which takes the writer lock to mark the database closed.
Close ==
    /\ opened /\ rwlock = Nobody
    /\ opened' = FALSE
    /\ UNCHANGED <<rwlock, batchVars, errCh, cpc, result, applied, committed, own>>

\* Every caller has its result and every goroutine has returned.
Done ==
    /\ \A c \in Callers : cpc[c] = "done"
    /\ \A b \in Batches : triggers[b] = 0 /\ timer[b] # "armed"
    /\ UNCHANGED vars

CallerStep(c) == Join(c) \/ Receive(c) \/ SoloBegin(c) \/ SoloRun(c)

RunStep(b) ==
    \/ StartRun(b) \/ TriggerReturns(b) \/ RunBegin(b)
    \/ RunFn(b) \/ RunCommit(b) \/ RemoveFailed(b) \/ Answer(b)

Next ==
    \/ \E c \in Callers : CallerStep(c)
    \/ \E b \in Batches : RunStep(b) \/ TimerFires(b)
    \/ Close \/ Done

Spec == Init /\ [][Next]_vars

\* Some goroutine that can go on does, and timers fire; the user's functions
\* return.  Nothing is assumed of who gets the lock or in which order: every
\* caller calls once and every retry has a call less, so nobody can be overtaken
\* for ever.
Fairness ==
    WF_vars(\/ \E c \in Callers : CallerStep(c)
            \/ \E b \in Batches : RunStep(b) \/ TimerFires(b))

FairSpec == Spec /\ Fairness

----------------------------------------------------------------------------
(* Properties.                                                             *)

\* A function that Batch reports as successful has been committed exactly once,
\* and one it reports as failed not at all, however often the batch was retried
\* and whatever the other functions of the batch did.
ExactlyOnce ==
    \A c \in Callers :
        /\ committed[c] <= 1
        /\ cpc[c] = "done" => committed[c] = IF result[c] = "nil" THEN 1 ELSE 0

\* No caller gets an answer that another caller's function caused: what Batch
\* returns is what the caller's own function returned last, unless the
\* database is closed.
ResultIsOwn ==
    \A c \in Callers : cpc[c] = "done" =>
        result[c] = own[c] \/ (result[c] = "closed" /\ ~opened)

\* No call joins a batch that has left db.batch: run iterates over b.calls
\* without holding batchMu.
NoLateJoin ==
    [][\A b \in Batches : Started(b) => Len(calls'[b]) <= Len(calls[b])]_vars

\* Every variable has the type of the field it stands for.
TypeOK ==
    /\ opened \in BOOLEAN
    /\ rwlock \in Callers \cup Batches \cup {Nobody}
    /\ batch \in Batches \cup {Nobody}
    /\ calls \in [Batches -> Seq(Callers)]
    /\ timer \in [Batches -> {"none", "armed", "stopped"}]
    /\ triggers \in [Batches -> Nat]
    /\ bpc \in [Batches -> {"new", "retry", "fn", "failed", "answer", "done"}]
    /\ idx \in [Batches -> Nat \ {0}]
    /\ err \in [Batches -> {"nil", "closed"}]
    /\ errCh \in [Callers -> {"nil", "closed", "trySolo", Nobody}]
    /\ cpc \in [Callers -> {"start", "wait", "solo", "fn", "done"}]
    /\ result \in [Callers -> Results \cup {Nobody}]
    /\ applied \in SUBSET Callers
    /\ committed \in [Callers -> {0, 1}]
    /\ own \in [Callers -> Outcomes \cup {Nobody}]

\* Every call of Batch returns: a batch that never fills is run by its timer,
\* and the retries end.
EveryCallReturns == <>(\A c \in Callers : cpc[c] = "done")
=============================================================================
