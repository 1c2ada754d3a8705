---------------------------- MODULE BatchProofs ----------------------------
(***************************************************************************)
(* Batch runs every function it reports as successful exactly once, for    *)
(* every number of callers and every batch size: BatchInv is inductive.    *)
(***************************************************************************)
EXTENDS Batch, TLAPS

----------------------------------------------------------------------------
(* The inductive invariant.                                                *)

\* The positions of the calls that run has not answered.
Pending(b) ==
    CASE bpc[b] = "done"   -> {}
      [] bpc[b] = "answer" -> idx[b]..Len(calls[b])
      [] OTHER             -> 1..Len(calls[b])

\* The writer lock is held by the transaction that is running functions.
LockInv ==
    /\ \A b \in Batches : bpc[b] = "fn" <=> rwlock = b
    /\ \A c \in Callers : cpc[c] = "fn" <=> rwlock = c

\* A call is in one batch, at one place.
CallsInv ==
    /\ \A a, b \in Batches : \A i \in 1..Len(calls[a]), j \in 1..Len(calls[b]) :
         calls[a][i] = calls[b][j] => a = b /\ i = j
    /\ \A b \in Batches : \A i \in 1..Len(calls[b]) : cpc[calls[b][i]] # "start"

\* The caller of a pending call waits, and nothing of it is committed before run's
\* Update has committed.
Unanswered(b, i) ==
    /\ cpc[calls[b][i]] = "wait" /\ errCh[calls[b][i]] = Nobody
    /\ IF bpc[b] = "answer" /\ err[b] = "nil"
       THEN committed[calls[b][i]] = 1 /\ own[calls[b][i]] = "nil"
       ELSE committed[calls[b][i]] = 0

PendingInv == \A b \in Batches : \A i \in Pending(b) : Unanswered(b, i)

\* How far a batch has come: one that is db.batch has not started, and one that
\* runs has calls left.
RunInv ==
    /\ batch # Nobody => bpc[batch] = "new" /\ timer[batch] # "none"
    /\ \A b \in Batches :
         /\ timer[b] = "none" => bpc[b] = "new" /\ calls[b] = <<>> /\ triggers[b] = 0
         /\ timer[b] # "none" /\ bpc[b] # "done" => calls[b] # <<>>
         /\ bpc[b] \in {"failed", "answer"} => idx[b] \in 1..Len(calls[b])
         /\ bpc[b] = "answer" => err[b] = "nil" \/ ~opened

\* The open transaction of a batch holds the calls that run has come past, each
\* of which returned nil; no other transaction holds any.
AppliedInv ==
    /\ \A b \in Batches : bpc[b] = "fn" =>
         /\ idx[b] - 1 <= Len(calls[b])
         /\ applied = {calls[b][i] : i \in 1..(idx[b] - 1)}
         /\ \A i \in 1..(idx[b] - 1) : own[calls[b][i]] = "nil"
    /\ rwlock \notin Batches => applied = {}

\* What a caller is told, or has been told, is what became of its function.
CallerInv ==
    \A c \in Callers :
        /\ errCh[c] # Nobody => cpc[c] = "wait"
        /\ errCh[c] = "nil" => committed[c] = 1 /\ own[c] = "nil"
        /\ errCh[c] = "closed" => committed[c] = 0 /\ ~opened
        /\ errCh[c] = "trySolo" => committed[c] = 0
        /\ cpc[c] \in {"start", "solo", "fn"} => committed[c] = 0
        /\ cpc[c] = "done" =>
             /\ committed[c] = IF result[c] = "nil" THEN 1 ELSE 0
             /\ result[c] = own[c] \/ (result[c] = "closed" /\ ~opened)

\* What makes ExactlyOnce, ResultIsOwn and NoLateJoin inductive.
BatchInv ==
    TypeOK /\ LockInv /\ CallsInv /\ PendingInv /\ RunInv /\ AppliedInv /\ CallerInv

----------------------------------------------------------------------------
\* Callers, batches and the empty value are different things.
LEMMA Distinct ==
    /\ Callers \cap Batches = {}
    /\ Nobody \notin Callers /\ Nobody \notin Batches
    /\ Nobody \notin {"nil", "error", "panic", "closed", "trySolo"}
  BY BatchAssumption DEF Batches

\* The calls that are left when run has taken the failed one out.
LEMMA RestProperties ==
  ASSUME NEW s \in Seq(Callers), NEW i \in 1..Len(s),
         NEW rest, rest = SubSeq([s EXCEPT ![i] = s[Len(s)]], 1, Len(s) - 1)
  PROVE  /\ rest \in Seq(Callers)
         /\ Len(rest) = Len(s) - 1
         /\ \A j \in 1..Len(rest) : rest[j] = IF j = i THEN s[Len(s)] ELSE s[j]
<1> DEFINE t == [s EXCEPT ![i] = s[Len(s)]]
<1>1. t \in Seq(Callers) /\ Len(t) = Len(s)
  OBVIOUS
<1>2. \A j \in 1..Len(s) : t[j] = IF j = i THEN s[Len(s)] ELSE s[j]
  OBVIOUS
<1> HIDE DEF t
<1>3. rest = SubSeq(t, 1, Len(s) - 1)
  BY DEF t
<1> QED
  BY <1>1, <1>2, <1>3

\* The places of a batch hold callers, and the unanswered ones are among them.
LEMMA CallTyped ==
  ASSUME TypeOK, NEW b \in Batches, NEW i, i \in 1..Len(calls[b]) \/ i \in Pending(b)
  PROVE  i \in 1..Len(calls[b]) /\ calls[b][i] \in Callers
<1>1. calls[b] \in Seq(Callers) /\ idx[b] \in Nat \ {0}
  BY DEF TypeOK
<1>2. i \in 1..Len(calls[b])
  BY <1>1 DEF Pending
<1> QED
  BY <1>1, <1>2

\* Calls stay where they are, with callers that have made them.
LEMMA CallsFrame == ASSUME CallsInv, UNCHANGED <<calls, cpc>> PROVE CallsInv'
  BY DEF CallsInv

\* Nobody has called Batch.
LEMMA BatchInit == Init => BatchInv
<1> SUFFICES ASSUME Init PROVE BatchInv
  OBVIOUS
<1>1. TypeOK
  BY DEF Init, TypeOK, Results, Outcomes
<1>2. \A b \in Batches : Len(calls[b]) = 0
  BY DEF Init
<1>3. LockInv /\ RunInv /\ AppliedInv /\ CallerInv
  BY Distinct DEF Init, LockInv, RunInv, AppliedInv, CallerInv
<1>4. CallsInv /\ PendingInv
  BY <1>2 DEF Init, CallsInv, PendingInv, Pending
<1> QED
  BY <1>1, <1>3, <1>4 DEF BatchInv

\* A call that joins db.batch, or a new one in its place: nobody runs it yet.
LEMMA JoinStep == ASSUME BatchInv, NEW c \in Callers, Join(c) PROVE BatchInv'
<1>0. TypeOK /\ LockInv /\ CallsInv /\ PendingInv /\ RunInv /\ AppliedInv /\ CallerInv
  BY DEF BatchInv
<1>1. PICK b \in Batches :
        /\ cpc[c] = "start" /\ targetBatch(b)
        /\ cpc' = [cpc EXCEPT ![c] = "wait"]
        /\ batch' = b
        /\ timer' = IF needsNewBatch THEN [timer EXCEPT ![b] = "armed"] ELSE timer
        /\ calls' = [calls EXCEPT ![b] = Append(@, c)]
        /\ triggers' = IF Len(calls'[b]) >= MaxBatchSize
                       THEN [triggers EXCEPT ![b] = @ + 1] ELSE triggers
        /\ UNCHANGED <<opened, rwlock, bpc, idx, err, errCh, result, applied, committed, own>>
  BY Zenon DEF Join
<1>2. bpc[b] = "new" /\ timer'[b] # "none"
  BY <1>0, <1>1 DEF targetBatch, needsNewBatch, RunInv, TypeOK
<1>3. calls[b] \in Seq(Callers) /\ calls'[b] = Append(calls[b], c)
  BY <1>0, <1>1 DEF TypeOK
<1>4. /\ Len(calls'[b]) = Len(calls[b]) + 1
      /\ \A i \in 1..Len(calls[b]) : calls'[b][i] = calls[b][i]
      /\ calls'[b][Len(calls[b]) + 1] = c
      /\ calls'[b] # <<>>
  BY <1>3
<1>5. \A a \in Batches : a # b => calls'[a] = calls[a] /\ timer'[a] = timer[a] /\ triggers'[a] = triggers[a]
  BY <1>0, <1>1 DEF TypeOK
<1>6. TypeOK'
  <2>1. calls' \in [Batches -> Seq(Callers)]
    BY <1>0, <1>1, <1>3 DEF TypeOK
  <2>2. timer' \in [Batches -> {"none", "armed", "stopped"}] /\ triggers' \in [Batches -> Nat]
    BY <1>0, <1>1 DEF TypeOK
  <2> QED
    BY <1>0, <1>1, <2>1, <2>2 DEF TypeOK
<1>7. \A a \in Batches : \A i \in 1..Len(calls[a]) : calls[a][i] # c
  BY <1>0, <1>1 DEF CallsInv
<1>8. LockInv'
  BY <1>0, <1>1 DEF LockInv, TypeOK
<1>9. RunInv'
  <2>1. batch' = b /\ bpc' = bpc /\ idx' = idx /\ err' = err /\ opened' = opened
    BY <1>1
  <2> QED
    BY <1>0, <1>2, <1>4, <1>5, <2>1 DEF RunInv
<1>12. AppliedInv'
  <2>1. UNCHANGED <<bpc, idx, applied, own, rwlock>>
    BY <1>1
  <2>2. \A a \in Batches : bpc[a] = "fn" => calls'[a] = calls[a]
    BY <1>2, <1>5
  <2> QED
    BY <1>0, <2>1, <2>2 DEF AppliedInv
<1>10. CallerInv'
  BY <1>0, <1>1, Distinct DEF CallerInv, TypeOK
<1>11. CallsInv' /\ PendingInv'
  <2>1. \A a \in Batches : \A i \in 1..Len(calls'[a]) :
          calls'[a][i] = IF a = b /\ i = Len(calls[b]) + 1 THEN c ELSE calls[a][i]
    BY <1>3, <1>4, <1>5
  <2>2. \A a \in Batches : \A i \in 1..Len(calls'[a]) :
          (a = b /\ i = Len(calls[b]) + 1) \/ i \in 1..Len(calls[a])
    BY <1>3, <1>4, <1>5
  <2>3. ASSUME NEW a \in Batches, NEW d \in Batches,
               NEW i \in 1..Len(calls'[a]), NEW j \in 1..Len(calls'[d]),
               calls'[a][i] = calls'[d][j]
        PROVE  a = d /\ i = j
    <3>1. \A x, y \in Batches : \A m \in 1..Len(calls[x]), n \in 1..Len(calls[y]) :
            calls[x][m] = calls[y][n] => x = y /\ m = n
      BY <1>0 DEF CallsInv
    <3>2. CASE calls'[a][i] = c
      <4>1. \A x \in Batches : \A m \in 1..Len(calls'[x]) :
              calls'[x][m] = c => x = b /\ m = Len(calls[b]) + 1
        BY <1>7, <2>1, <2>2
      <4>2. calls'[d][j] = c
        BY <2>3, <3>2
      <4>3. a = b /\ i = Len(calls[b]) + 1
        BY <3>2, <4>1
      <4>4. d = b /\ j = Len(calls[b]) + 1
        BY <4>1, <4>2
      <4> QED
        BY <4>3, <4>4
    <3>3. CASE calls'[a][i] # c
      BY <2>1, <2>2, <2>3, <3>1, <3>3
    <3> QED
      BY <3>2, <3>3
  <2>4. \A a \in Batches : \A i \in 1..Len(calls'[a]) : cpc'[calls'[a][i]] # "start"
    BY <1>0, <1>1, <2>1, <2>2 DEF CallsInv, TypeOK
  <2>8. errCh[c] = Nobody /\ committed[c] = 0
    BY <1>0, <1>1 DEF CallerInv
  <2>9. ASSUME NEW a \in Batches, NEW i \in Pending(a)'
        PROVE  Unanswered(a, i)'
    <3>1. CASE a = b /\ i = Len(calls[b]) + 1
      BY <1>0, <1>1, <1>2, <1>4, <2>8, <3>1 DEF TypeOK, Unanswered
    <3>2. CASE ~(a = b /\ i = Len(calls[b]) + 1)
      <4>1. i \in Pending(a)
        BY <1>1, <1>2, <1>3, <1>4, <1>5, <2>9, <3>2 DEF Pending
      <4>2. i \in 1..Len(calls[a]) /\ calls[a][i] \in Callers
        BY <1>0, <4>1, CallTyped
      <4>3. calls'[a][i] = calls[a][i] /\ calls[a][i] # c
        BY <1>4, <1>5, <1>7, <4>2
      <4>4. Unanswered(a, i)
        BY <1>0, <4>1, Zenon DEF PendingInv
      <4> QED
        BY <1>0, <1>1, <4>2, <4>3, <4>4 DEF TypeOK, Unanswered
    <3> QED
      BY <3>1, <3>2
  <2> QED
    BY <2>3, <2>4, <2>9, Zenon DEF CallsInv, PendingInv
<1> QED
  BY <1>6, <1>8, <1>9, <1>10, <1>11, <1>12 DEF BatchInv

\* What a caller does that is not waiting unanswered is nothing to the batches.
LEMMA CallerFrame ==
  ASSUME TypeOK, CallsInv, PendingInv, NEW c \in Callers,
         cpc[c] # "wait" \/ errCh[c] # Nobody, cpc'[c] # "start",
         UNCHANGED <<calls, bpc, idx, err>>,
         \A d \in Callers \ {c} : /\ cpc'[d] = cpc[d] /\ errCh'[d] = errCh[d]
                                  /\ committed'[d] = committed[d] /\ own'[d] = own[d]
  PROVE  CallsInv' /\ PendingInv'
<1>1. \A b \in Batches : \A i \in 1..Len(calls[b]) :
        calls[b][i] \in Callers /\ cpc'[calls[b][i]] # "start"
  BY CallTyped DEF CallsInv
<1>2. ASSUME NEW b \in Batches, NEW i \in Pending(b)'
      PROVE  Unanswered(b, i)'
  <2>1. i \in Pending(b)
    BY <1>2 DEF Pending
  <2>2. Unanswered(b, i)
    BY <2>1, Zenon DEF PendingInv
  <2>3. calls[b][i] \in Callers \ {c}
    BY <2>1, <2>2, CallTyped DEF Unanswered
  <2> QED
    BY <2>2, <2>3 DEF Unanswered
<1>3. CallsInv'
  BY <1>1 DEF CallsInv
<1> QED
  BY <1>2, <1>3, Zenon DEF PendingInv

\* The caller takes its answer from the channel.
LEMMA ReceiveStep == ASSUME BatchInv, NEW c \in Callers, Receive(c) PROVE BatchInv'
<1>0. TypeOK /\ LockInv /\ CallsInv /\ PendingInv /\ RunInv /\ AppliedInv /\ CallerInv
  BY DEF BatchInv
<1>1. TypeOK'
  <2>1. errCh[c] # "trySolo" => errCh[c] \in Results
    BY <1>0 DEF TypeOK, Receive, Results, Outcomes
  <2>2. result' \in [Callers -> Results \cup {Nobody}]
    BY <1>0, <2>1, Zenon DEF TypeOK, Receive
  <2> QED
    BY <1>0, <2>2, Zenon DEF TypeOK, Receive, batchVars
<1>2. LockInv' /\ RunInv' /\ AppliedInv'
  BY <1>0 DEF LockInv, RunInv, AppliedInv, TypeOK, Receive, batchVars
<1>3. CallsInv' /\ PendingInv'
  <2>1. /\ cpc[c] = "wait" /\ errCh[c] # Nobody /\ cpc'[c] # "start"
        /\ UNCHANGED <<calls, bpc, idx, err>>
        /\ \A d \in Callers \ {c} : /\ cpc'[d] = cpc[d] /\ errCh'[d] = errCh[d]
                                    /\ committed'[d] = committed[d] /\ own'[d] = own[d]
    BY <1>0 DEF TypeOK, Receive, batchVars
  <2> QED
    BY <1>0, <2>1, CallerFrame
<1>4. CallerInv'
  BY <1>0, Distinct DEF CallerInv, TypeOK, Receive, batchVars
<1> QED
  BY <1>1, <1>2, <1>3, <1>4 DEF BatchInv

\* The function on its own: Begin.
LEMMA SoloBeginStep == ASSUME BatchInv, NEW c \in Callers, SoloBegin(c) PROVE BatchInv'
<1>0. TypeOK /\ LockInv /\ CallsInv /\ PendingInv /\ RunInv /\ AppliedInv /\ CallerInv
  BY DEF BatchInv
<1>1. TypeOK'
  <2>1. rwlock' \in Callers \cup Batches \cup {Nobody}
    BY <1>0 DEF TypeOK, SoloBegin
  <2>2. cpc' = [cpc EXCEPT ![c] = IF opened THEN "fn" ELSE "done"]
    BY DEF SoloBegin
  <2>3. result' = [result EXCEPT ![c] = "closed"] \/ result' = result
    BY DEF SoloBegin
  <2>5. cpc' \in [Callers -> {"start", "wait", "solo", "fn", "done"}]
    BY <1>0, <2>2 DEF TypeOK
  <2>6. result' \in [Callers -> Results \cup {Nobody}]
    BY <1>0, <2>3, Zenon DEF TypeOK, Results
  <2>4. UNCHANGED <<opened, batchVars, errCh, applied, committed, own>>
    BY DEF SoloBegin
  <2> QED
    BY <1>0, <2>1, <2>4, <2>5, <2>6 DEF TypeOK, batchVars
<1>2. LockInv'
  BY <1>0, Distinct DEF LockInv, TypeOK, SoloBegin, batchVars
<1>3. RunInv' /\ AppliedInv'
  <2>1. rwlock \notin Batches /\ rwlock' \notin Batches
    BY Distinct DEF SoloBegin
  <2>2. UNCHANGED <<opened, batchVars, applied, own>>
    BY DEF SoloBegin
  <2> QED
    BY <1>0, <2>1, <2>2 DEF RunInv, AppliedInv, batchVars
<1>4. CallsInv' /\ PendingInv'
  <2>1. /\ cpc[c] # "wait" /\ cpc'[c] # "start"
        /\ UNCHANGED <<calls, bpc, idx, err, errCh, committed, own>>
        /\ \A d \in Callers \ {c} : cpc'[d] = cpc[d]
    BY <1>0 DEF TypeOK, SoloBegin, batchVars
  <2> QED
    BY <1>0, <2>1, CallerFrame
<1>5. CallerInv'
  BY <1>0 DEF CallerInv, TypeOK, SoloBegin, batchVars
<1> QED
  BY <1>1, <1>2, <1>3, <1>4, <1>5 DEF BatchInv

\* The function on its own, and Commit or Rollback.
LEMMA SoloRunStep == ASSUME BatchInv, NEW c \in Callers, SoloRun(c) PROVE BatchInv'
<1>0. TypeOK /\ LockInv /\ CallsInv /\ PendingInv /\ RunInv /\ AppliedInv /\ CallerInv
  BY DEF BatchInv
<1>1. committed[c] = 0 /\ rwlock = c /\ \A b \in Batches : bpc[b] # "fn"
  BY <1>0, Distinct DEF LockInv, CallerInv, SoloRun
<1>2. TypeOK'
  BY <1>0, <1>1 DEF TypeOK, SoloRun, batchVars, Results, Outcomes
<1>3. LockInv'
  BY <1>0, <1>1, Distinct DEF LockInv, TypeOK, SoloRun, batchVars
<1>4. RunInv' /\ AppliedInv'
  <2>1. rwlock \notin Batches /\ rwlock' \notin Batches
    BY <1>1, Distinct DEF SoloRun
  <2>2. UNCHANGED <<opened, batchVars, applied>>
    BY DEF SoloRun
  <2> QED
    BY <1>0, <1>1, <2>1, <2>2 DEF RunInv, AppliedInv, batchVars
<1>5. CallsInv' /\ PendingInv'
  <2>1. /\ cpc[c] # "wait" /\ cpc'[c] # "start"
        /\ UNCHANGED <<calls, bpc, idx, err>>
        /\ \A d \in Callers \ {c} : /\ cpc'[d] = cpc[d] /\ errCh'[d] = errCh[d]
                                    /\ committed'[d] = committed[d] /\ own'[d] = own[d]
    BY <1>0 DEF TypeOK, SoloRun, batchVars
  <2> QED
    BY <1>0, <2>1, CallerFrame
<1>6. CallerInv'
  BY <1>0, <1>1, Distinct DEF CallerInv, TypeOK, SoloRun, batchVars, Outcomes
<1> QED
  BY <1>2, <1>3, <1>4, <1>5, <1>6 DEF BatchInv

\* A batch that starts, begins its transaction, or finds the database closed has
\* answered nobody.
LEMMA BatchFrame ==
  ASSUME TypeOK, CallsInv, PendingInv, UNCHANGED <<calls, errCh, cpc, committed, own>>,
         \A b \in Batches :
            \/ bpc'[b] = bpc[b] /\ idx'[b] = idx[b] /\ err'[b] = err[b]
            \/ /\ bpc[b] \in {"new", "retry"}
               /\ \/ bpc'[b] \in {"retry", "fn"}
                  \/ bpc'[b] = "answer" /\ idx'[b] = 1 /\ err'[b] = "closed"
  PROVE  CallsInv' /\ PendingInv'
<1>1. ASSUME NEW b \in Batches, NEW i \in Pending(b)'
      PROVE  Unanswered(b, i)'
  <2>1. i \in Pending(b)
    BY <1>1 DEF Pending
  <2>2. Unanswered(b, i)
    BY <2>1, Zenon DEF PendingInv
  <2> QED
    BY <2>2 DEF Unanswered
<1>2. CallsInv'
  BY CallsFrame
<1> QED
  BY <1>1, <1>2, Zenon DEF PendingInv

\* The timer and the triggers: they start run at most once, and only of a batch
\* that has a call.
LEMMA TriggerStep ==
  ASSUME BatchInv, NEW b \in Batches, TimerFires(b) \/ StartRun(b) \/ TriggerReturns(b)
  PROVE  BatchInv'
<1>0. TypeOK /\ LockInv /\ CallsInv /\ PendingInv /\ RunInv /\ AppliedInv /\ CallerInv
  BY DEF BatchInv
<1>1. TypeOK'
  <2>1. CASE TimerFires(b)
    BY <1>0, <2>1 DEF TypeOK, TimerFires
  <2>2. CASE StartRun(b)
    BY <1>0, <2>2 DEF TypeOK, StartRun
  <2>3. CASE TriggerReturns(b)
    BY <1>0, <2>3 DEF TypeOK, TriggerReturns
  <2> QED
    BY <2>1, <2>2, <2>3
<1>2. LockInv'
  BY <1>0 DEF LockInv, TypeOK, TimerFires, StartRun, TriggerReturns, Started, Finished
<1>3. CallsInv' /\ PendingInv'
  BY <1>0, BatchFrame, SMTT(20) DEF TypeOK, TimerFires, StartRun, TriggerReturns, Started
<1>4. RunInv'
  <2>1. CASE TimerFires(b)
    BY <1>0, <2>1 DEF RunInv, TypeOK, TimerFires
  <2>2. CASE StartRun(b)
    BY <1>0, <2>2, Distinct DEF RunInv, TypeOK, StartRun, Started
  <2>3. CASE TriggerReturns(b)
    BY <1>0, <2>3 DEF RunInv, TypeOK, TriggerReturns
  <2> QED
    BY <2>1, <2>2, <2>3
<1>5. UNCHANGED <<opened, rwlock, calls, idx, err, errCh, cpc, result, applied, committed, own>>
  BY DEF TimerFires, StartRun, TriggerReturns
<1>6. CallerInv'
  BY <1>0, <1>5 DEF CallerInv
<1>7. AppliedInv'
  <2>1. \A a \in Batches : bpc'[a] = "fn" => bpc[a] = "fn"
    BY <1>0 DEF TypeOK, TimerFires, StartRun, TriggerReturns
  <2> QED
    BY <1>0, <1>5, <2>1 DEF AppliedInv
<1> QED
  BY <1>1, <1>2, <1>3, <1>4, <1>6, <1>7 DEF BatchInv

\* The Begin of run's Update.
LEMMA RunBeginStep == ASSUME BatchInv, NEW b \in Batches, RunBegin(b) PROVE BatchInv'
<1>0. TypeOK /\ LockInv /\ CallsInv /\ PendingInv /\ RunInv /\ AppliedInv /\ CallerInv
  BY DEF BatchInv
<1>1. /\ bpc[b] = "retry" /\ rwlock = Nobody /\ idx'[b] = 1
      /\ \/ /\ opened /\ rwlock' = b /\ bpc'[b] = "fn" /\ err' = err
         \/ /\ ~opened /\ rwlock' = rwlock /\ bpc'[b] = "answer" /\ err'[b] = "closed"
      /\ \A a \in Batches : a # b => bpc'[a] = bpc[a] /\ idx'[a] = idx[a] /\ err'[a] = err[a]
  BY <1>0 DEF TypeOK, RunBegin
<1>2. UNCHANGED <<opened, batch, calls, timer, triggers, errCh, cpc, result, applied,
                  committed, own>>
  BY DEF RunBegin
<1>3. TypeOK'
  <2>1. idx' \in [Batches -> Nat \ {0}]
    BY <1>0 DEF TypeOK, RunBegin
  <2>2. bpc' \in [Batches -> {"new", "retry", "fn", "failed", "answer", "done"}]
    BY <1>0, Zenon DEF TypeOK, RunBegin
  <2>3. err' \in [Batches -> {"nil", "closed"}]
    BY <1>0, Zenon DEF TypeOK, RunBegin
  <2>4. rwlock' \in Callers \cup Batches \cup {Nobody}
    BY <1>0, <1>1 DEF TypeOK
  <2> QED
    BY <1>0, <1>2, <2>1, <2>2, <2>3, <2>4 DEF TypeOK
<1>4. LockInv'
  BY <1>0, <1>1, <1>2, Distinct DEF LockInv
<1>5. CallsInv' /\ PendingInv'
  BY <1>0, <1>1, <1>2, BatchFrame
<1>6. RunInv'
  <2>1. calls[b] # <<>> /\ calls[b] \in Seq(Callers) /\ timer[b] # "none"
    BY <1>0, <1>1 DEF RunInv, TypeOK
  <2>2. 1 \in 1..Len(calls[b])
    BY <2>1
  <2>3. batch # Nobody => batch \in Batches /\ batch # b
    BY <1>0, <1>1 DEF RunInv, TypeOK
  <2>4. err[b] \in {"nil", "closed"}
    BY <1>0 DEF TypeOK
  <2> QED
    BY <1>0, <1>1, <1>2, <2>1, <2>2, <2>3, <2>4 DEF RunInv
<1>7. AppliedInv'
  <2>1. applied' = {} /\ \A a \in Batches : a # b => bpc'[a] # "fn"
    BY <1>0, <1>1, <1>2, Distinct DEF AppliedInv, LockInv
  <2>2. applied' = {calls'[b][i] : i \in 1..(idx'[b] - 1)}
    BY <1>1, <2>1
  <2>3. Len(calls'[b]) \in Nat
    BY <1>3 DEF TypeOK
  <2> QED
    BY <1>1, <2>1, <2>2, <2>3 DEF AppliedInv
<1>8. CallerInv'
  BY <1>0, <1>2 DEF CallerInv
<1> QED
  BY <1>3, <1>4, <1>5, <1>6, <1>7, <1>8 DEF BatchInv

\* One function of the batch: it is applied, or the attempt is rolled back.
LEMMA RunFnStep == ASSUME BatchInv, NEW b \in Batches, RunFn(b) PROVE BatchInv'
<1>0. TypeOK /\ LockInv /\ CallsInv /\ PendingInv /\ RunInv /\ AppliedInv /\ CallerInv
  BY DEF BatchInv
<1> DEFINE c == calls[b][idx[b]]
<1>1. PICK out \in Outcomes :
        /\ own' = [own EXCEPT ![c] = out]
        /\ IF out = "nil"
           THEN /\ applied' = applied \cup {c}
                /\ idx' = [idx EXCEPT ![b] = @ + 1]
                /\ UNCHANGED <<rwlock, bpc>>
           ELSE /\ applied' = {} /\ rwlock' = Nobody
                /\ bpc' = [bpc EXCEPT ![b] = "failed"]
                /\ UNCHANGED idx
  BY Zenon DEF RunFn
<1>2. /\ bpc[b] = "fn" /\ idx[b] <= Len(calls[b])
      /\ UNCHANGED <<opened, batch, calls, timer, triggers, err, errCh, cpc, result, committed>>
  BY DEF RunFn
<1>3. idx[b] \in 1..Len(calls[b]) /\ c \in Callers
  <2>1. idx[b] \in 1..Len(calls[b])
    BY <1>0, <1>2 DEF TypeOK
  <2> QED
    BY <1>0, <2>1, CallTyped
<1>4. Pending(b) = 1..Len(calls[b])
  BY <1>2 DEF Pending
<1>5. cpc[c] = "wait" /\ errCh[c] = Nobody /\ committed[c] = 0
  BY <1>0, <1>2, <1>3, <1>4 DEF PendingInv, Unanswered
<1>6. \A a \in Batches : a # b => bpc[a] # "fn"
  BY <1>0, <1>2 DEF LockInv
<1>7. rwlock = b
  BY <1>0, <1>2 DEF LockInv
<1>8. /\ applied = {calls[b][i] : i \in 1..(idx[b] - 1)}
      /\ \A i \in 1..(idx[b] - 1) : own[calls[b][i]] = "nil"
  BY <1>0, <1>2 DEF AppliedInv
<1> HIDE DEF c
<1>9. TypeOK'
  <2>1. own' \in [Callers -> Outcomes \cup {Nobody}]
    BY <1>0, <1>1, Zenon DEF TypeOK
  <2>2. applied' \in SUBSET Callers
    BY <1>0, <1>1, <1>3 DEF TypeOK
  <2>3. idx' \in [Batches -> Nat \ {0}]
    BY <1>0, <1>1 DEF TypeOK
  <2>4. bpc' \in [Batches -> {"new", "retry", "fn", "failed", "answer", "done"}]
    BY <1>0, <1>1, Zenon DEF TypeOK
  <2>5. rwlock' \in Callers \cup Batches \cup {Nobody}
    BY <1>0, <1>1, Zenon DEF TypeOK
  <2> QED
    BY <1>0, <1>2, <2>1, <2>2, <2>3, <2>4, <2>5 DEF TypeOK
<1>14. /\ out = "nil" => rwlock' = rwlock /\ bpc' = bpc /\ idx'[b] = idx[b] + 1
       /\ out # "nil" => rwlock' = Nobody /\ bpc'[b] = "failed" /\ idx'[b] = idx[b]
       /\ \A a \in Batches : a # b => bpc'[a] = bpc[a] /\ idx'[a] = idx[a]
       /\ \A d \in Callers : own'[d] = IF d = c THEN out ELSE own[d]
  BY <1>0, <1>1 DEF TypeOK
<1>10. LockInv'
  <2>1. CASE out = "nil"
    BY <1>0, <1>2, <1>14, <2>1 DEF LockInv
  <2>2. CASE out # "nil"
    BY <1>0, <1>2, <1>6, <1>7, <1>14, <2>2, Distinct DEF LockInv
  <2> QED
    BY <2>1, <2>2
<1>11. CallsInv' /\ PendingInv'
  <2>1. ASSUME NEW a \in Batches, NEW i \in Pending(a)'
        PROVE  Unanswered(a, i)'
    <3>1. i \in Pending(a) /\ (bpc'[a] = "answer" <=> bpc[a] = "answer")
      <4>1. CASE a = b
        BY <1>2, <1>4, <1>14, <2>1, <4>1 DEF Pending
      <4>2. CASE a # b
        BY <1>2, <1>14, <2>1, <4>2 DEF Pending
      <4> QED
        BY <4>1, <4>2
    <3>2. Unanswered(a, i)
      BY <1>0, <3>1, Zenon DEF PendingInv
    <3>3. bpc[a] = "answer" /\ err[a] = "nil" => calls[a][i] # c
      BY <1>5, <3>2 DEF Unanswered
    <3>4. calls[a][i] \in Callers
      BY <1>0, <3>1, CallTyped
    <3> QED
      BY <1>2, <1>14, <3>1, <3>2, <3>3, <3>4 DEF Unanswered
  <2>2. CallsInv'
    BY <1>0, <1>2, CallsFrame
  <2> QED
    BY <2>1, <2>2, Zenon DEF PendingInv
<1>12. RunInv'
  <2>1. batch # Nobody => batch \in Batches /\ batch # b
    BY <1>0, <1>2 DEF RunInv, TypeOK
  <2> QED
    BY <1>0, <1>2, <1>3, <1>14, <2>1 DEF RunInv
<1>15. AppliedInv'
  <2>1. CASE out = "nil"
    <3>1. applied' = applied \cup {c} /\ calls' = calls
      BY <1>1, <1>2, <2>1
    <3>2. 1..(idx'[b] - 1) = 1..(idx[b] - 1) \cup {idx[b]}
      BY <1>3, <1>14, <2>1
    <3>3. applied' = {calls'[b][i] : i \in 1..(idx'[b] - 1)}
      BY <1>8, <3>1, <3>2 DEF c
    <3>4. \A i \in 1..(idx'[b] - 1) : own'[calls'[b][i]] = "nil"
      <4>1. \A i \in 1..(idx'[b] - 1) : i \in 1..Len(calls[b])
        BY <1>3, <1>14, <2>1
      <4>2. \A i \in 1..(idx'[b] - 1) : calls[b][i] \in Callers
        BY <1>0, <4>1, CallTyped
      <4> QED
        BY <1>8, <1>14, <2>1, <3>1, <3>2, <4>2 DEF c
    <3>5. idx'[b] - 1 <= Len(calls'[b])
      BY <1>3, <1>14, <2>1, <3>1
    <3> QED
      BY <1>6, <1>7, <1>14, <2>1, <3>3, <3>4, <3>5 DEF AppliedInv
  <2>2. CASE out # "nil"
    <3>1. applied' = {} /\ \A a \in Batches : bpc'[a] # "fn"
      BY <1>1, <1>6, <1>14, <2>2
    <3> QED
      BY <3>1 DEF AppliedInv
  <2> QED
    BY <2>1, <2>2
<1>13. CallerInv'
  BY <1>0, <1>2, <1>5, <1>14, Distinct DEF CallerInv
<1> QED
  BY <1>9, <1>10, <1>11, <1>12, <1>13, <1>15 DEF BatchInv

\* The Commit of run's Update: what it applied was every call of the batch.
LEMMA RunCommitStep == ASSUME BatchInv, NEW b \in Batches, RunCommit(b) PROVE BatchInv'
<1>0. TypeOK /\ LockInv /\ CallsInv /\ PendingInv /\ RunInv /\ AppliedInv /\ CallerInv
  BY DEF BatchInv
<1>1. /\ bpc[b] = "fn" /\ idx[b] > Len(calls[b])
      /\ committed' = [c \in Callers |-> committed[c] + IF c \in applied THEN 1 ELSE 0]
      /\ applied' = {} /\ rwlock' = Nobody
      /\ bpc' = [bpc EXCEPT ![b] = "answer"]
      /\ err' = [err EXCEPT ![b] = "nil"]
      /\ idx' = [idx EXCEPT ![b] = 1]
      /\ UNCHANGED <<opened, batch, calls, timer, triggers, errCh, cpc, result, own>>
  BY DEF RunCommit
<1>2. calls[b] \in Seq(Callers) /\ calls[b] # <<>> /\ rwlock = b
  <2>1. bpc[b] = "fn"
    BY <1>1
  <2>2. timer[b] # "none" /\ rwlock = b
    BY <1>0, <2>1 DEF RunInv, LockInv
  <2> QED
    BY <1>0, <2>1, <2>2 DEF TypeOK, RunInv
<1>3. idx[b] - 1 = Len(calls[b])
  <2>1. bpc[b] = "fn" /\ idx[b] > Len(calls[b])
    BY <1>1
  <2>2. idx[b] - 1 <= Len(calls[b])
    BY <1>0, <2>1 DEF AppliedInv
  <2>3. idx[b] \in Nat /\ Len(calls[b]) \in Nat
    BY <1>0, <1>2 DEF TypeOK
  <2> QED
    BY <2>1, <2>2, <2>3
<1>4. /\ \A i \in 1..Len(calls[b]) : calls[b][i] \in applied /\ own[calls[b][i]] = "nil"
      /\ \A c \in applied : \E i \in 1..Len(calls[b]) : calls[b][i] = c
  <2>1. bpc[b] = "fn"
    BY <1>1
  <2> QED
    BY <1>0, <1>3, <2>1 DEF AppliedInv
<1>5. \A i \in 1..Len(calls[b]) : /\ cpc[calls[b][i]] = "wait" /\ errCh[calls[b][i]] = Nobody
                                  /\ committed[calls[b][i]] = 0 /\ calls[b][i] \in Callers
  <2> TAKE i \in 1..Len(calls[b])
  <2>1. i \in Pending(b)
    BY <1>1 DEF Pending
  <2> QED
    BY <1>0, <1>1, <2>1, CallTyped DEF PendingInv, Unanswered
<1>6. \A c \in applied : c \in Callers /\ cpc[c] = "wait" /\ errCh[c] = Nobody /\ committed[c] = 0
  BY <1>4, <1>5
<1>7. \A c \in Callers : committed'[c] = IF c \in applied THEN 1 ELSE committed[c]
  <2> TAKE c \in Callers
  <2>1. committed[c] \in {0, 1}
    BY <1>0 DEF TypeOK
  <2>2. committed'[c] = committed[c] + IF c \in applied THEN 1 ELSE 0
    BY <1>1
  <2> QED
    BY <1>6, <2>1, <2>2
<1>8. TypeOK'
  <2>1. committed' \in [Callers -> {0, 1}]
    BY <1>0, <1>1, <1>7 DEF TypeOK
  <2> QED
    BY <1>0, <1>1, <2>1 DEF TypeOK
<1>13. /\ bpc'[b] = "answer" /\ err'[b] = "nil" /\ idx'[b] = 1
       /\ \A a \in Batches : a # b => bpc'[a] = bpc[a] /\ err'[a] = err[a] /\ idx'[a] = idx[a]
       /\ \A a \in Batches : bpc'[a] # "fn"
  <2>1. \A a \in Batches : a # b => bpc[a] # "fn"
    BY <1>0, <1>2 DEF LockInv
  <2> QED
    BY <1>0, <1>1, <2>1 DEF TypeOK
<1>14. /\ rwlock' = Nobody /\ applied' = {}
       /\ UNCHANGED <<opened, batch, calls, timer, triggers, errCh, cpc, result, own>>
  BY <1>1
<1>15. bpc[b] = "fn"
  BY <1>1
<1>9. LockInv'
  BY <1>0, <1>2, <1>13, <1>14, Distinct, SMTT(20) DEF LockInv
<1>10. RunInv' /\ AppliedInv'
  <2>1. 1 \in 1..Len(calls[b])
    BY <1>2
  <2>2. batch # Nobody => batch \in Batches /\ batch # b
    BY <1>0, <1>15 DEF RunInv, TypeOK
  <2>3. timer[b] # "none"
    BY <1>0, <1>15 DEF RunInv
  <2>4. RunInv'
    BY <1>0, <1>2, <1>13, <1>14, <2>1, <2>2, <2>3, Zenon DEF RunInv
  <2> QED
    BY <1>13, <1>14, <2>4 DEF AppliedInv
<1>11. CallerInv'
  BY <1>0, <1>6, <1>7, <1>14, Distinct DEF CallerInv
<1>12. CallsInv' /\ PendingInv'
  <2>1. ASSUME NEW a \in Batches, NEW i \in Pending(a)'
        PROVE  Unanswered(a, i)'
    <3>1. CASE a = b
      <4>1. i \in 1..Len(calls[b])
        BY <1>13, <1>14, <2>1, <3>1 DEF Pending
      <4>2. committed'[calls[b][i]] = 1 /\ own[calls[b][i]] = "nil"
        BY <1>4, <1>5, <1>7, <4>1, SMTT(20)
      <4> QED
        BY <1>5, <1>13, <1>14, <3>1, <4>1, <4>2, Zenon DEF Unanswered
    <3>2. CASE a # b
      <4>1. i \in Pending(a) /\ bpc'[a] = bpc[a] /\ err'[a] = err[a]
        BY <1>13, <1>14, <2>1, <3>2 DEF Pending
      <4>2. i \in 1..Len(calls[a]) /\ calls[a][i] \in Callers
        BY <1>0, <4>1, CallTyped
      <4>3. calls[a][i] \notin applied
        BY <1>0, <1>4, <3>2, <4>2 DEF CallsInv
      <4>4. Unanswered(a, i)
        BY <1>0, <4>1, Zenon DEF PendingInv
      <4> QED
        BY <1>7, <1>14, <4>1, <4>2, <4>3, <4>4 DEF Unanswered
    <3> QED
      BY <3>1, <3>2, Zenon
  <2>2. CallsInv'
    BY <1>0, <1>14, CallsFrame
  <2> QED
    BY <2>1, <2>2, Zenon DEF PendingInv
<1> QED
  BY <1>8, <1>9, <1>10, <1>11, <1>12 DEF BatchInv

\* The failed call leaves the batch, and its caller is told to run it alone.
LEMMA RemoveFailedStep == ASSUME BatchInv, NEW b \in Batches, RemoveFailed(b) PROVE BatchInv'
<1>0. TypeOK /\ LockInv /\ CallsInv /\ PendingInv /\ RunInv /\ AppliedInv /\ CallerInv
  BY DEF BatchInv
<1> DEFINE s == calls[b]
           c == s[idx[b]]
           rest == SubSeq([s EXCEPT ![idx[b]] = s[Len(s)]], 1, Len(s) - 1)
<1>1. /\ bpc[b] = "failed" /\ errCh[c] = Nobody
      /\ errCh' = [errCh EXCEPT ![c] = "trySolo"]
      /\ calls' = [calls EXCEPT ![b] = rest]
      /\ bpc' = [bpc EXCEPT ![b] = IF rest = <<>> THEN "done" ELSE "retry"]
      /\ UNCHANGED <<opened, rwlock, batch, timer, triggers, idx, err, cpc, result,
                     applied, committed, own>>
  BY Zenon DEF RemoveFailed
<1>2. idx[b] \in 1..Len(s) /\ s \in Seq(Callers) /\ timer[b] # "none"
  BY <1>0, <1>1 DEF RunInv, TypeOK
<1>3. c \in Callers /\ cpc[c] = "wait" /\ committed[c] = 0
  <2>1. idx[b] \in Pending(b) /\ bpc[b] = "failed"
    BY <1>1, <1>2 DEF Pending
  <2> QED
    BY <1>0, <2>1, CallTyped, Zenon DEF PendingInv, Unanswered
<1>4. /\ rest \in Seq(Callers) /\ Len(rest) = Len(s) - 1
      /\ \A j \in 1..Len(rest) : rest[j] = IF j = idx[b] THEN s[Len(s)] ELSE s[j]
  BY <1>2, RestProperties, SMTT(20)
<1> DEFINE from(j) == IF j = idx[b] THEN Len(s) ELSE j
<1>5. \A j \in 1..Len(rest) : from(j) \in 1..Len(s) /\ rest[j] = s[from(j)] /\ from(j) # idx[b]
  BY <1>2, <1>4
<1>6. \A i, j \in 1..Len(rest) : from(i) = from(j) => i = j
  BY <1>2, <1>4
<1>7. calls'[b] = rest /\ \A a \in Batches : a # b => calls'[a] = calls[a] /\ bpc'[a] = bpc[a]
  BY <1>0, <1>1 DEF TypeOK
<1>8. bpc'[b] = IF rest = <<>> THEN "done" ELSE "retry"
  BY <1>0, <1>1 DEF TypeOK
<1> HIDE DEF s, c, rest, from
<1>14. \A d \in Callers : errCh'[d] = IF d = c THEN "trySolo" ELSE errCh[d]
  BY <1>0, <1>1 DEF TypeOK
<1>15. UNCHANGED <<opened, rwlock, batch, timer, triggers, idx, err, cpc, result,
                   applied, committed, own>>
  BY <1>1
<1>9. TypeOK'
  <2>1. calls' \in [Batches -> Seq(Callers)]
    BY <1>0, <1>1, <1>4 DEF TypeOK
  <2>2. errCh' \in [Callers -> {"nil", "closed", "trySolo", Nobody}]
    BY <1>0, <1>1, Zenon DEF TypeOK
  <2>3. bpc' \in [Batches -> {"new", "retry", "fn", "failed", "answer", "done"}]
    BY <1>0, <1>1, Zenon DEF TypeOK
  <2> QED
    BY <1>0, <1>15, <2>1, <2>2, <2>3 DEF TypeOK
<1>10. LockInv'
  <2>1. bpc[b] = "failed"
    BY <1>1
  <2> QED
    BY <1>0, <1>7, <1>8, <1>15, <2>1, SMTT(20) DEF LockInv
<1>11. RunInv' /\ AppliedInv'
  <2>1. batch # Nobody => batch \in Batches /\ batch # b
    BY <1>0, <1>1 DEF RunInv, TypeOK
  <2>2. RunInv'
    BY <1>0, <1>2, <1>7, <1>8, <1>15, <2>1 DEF RunInv
  <2> QED
    BY <1>0, <1>7, <1>8, <1>15, <2>2 DEF AppliedInv
<1>12. CallerInv'
  BY <1>0, <1>3, <1>14, <1>15, Distinct DEF CallerInv
<1>13. CallsInv' /\ PendingInv'
  <2> DEFINE old(a, i) == IF a = b THEN from(i) ELSE i
  <2>0. ASSUME NEW a \in Batches, NEW i \in 1..Len(calls'[a])
        PROVE  /\ old(a, i) \in 1..Len(calls[a]) /\ calls'[a][i] = calls[a][old(a, i)]
               /\ a = b => old(a, i) # idx[b]
    BY <1>5, <1>7 DEF s
  <2>6. ASSUME NEW a \in Batches, NEW i \in 1..Len(calls'[a]), NEW j \in 1..Len(calls'[a]),
               old(a, i) = old(a, j)
        PROVE  i = j
    BY <1>6, <1>7, <2>6
  <2>5. \A x, y \in Batches : \A m \in 1..Len(calls[x]), n \in 1..Len(calls[y]) :
          calls[x][m] = calls[y][n] => x = y /\ m = n
    BY <1>0 DEF CallsInv
  <2> HIDE DEF old
  <2>1. ASSUME NEW a \in Batches, NEW d \in Batches,
               NEW i \in 1..Len(calls'[a]), NEW j \in 1..Len(calls'[d]),
               calls'[a][i] = calls'[d][j]
        PROVE  a = d /\ i = j
    <3>1. calls[a][old(a, i)] = calls[d][old(d, j)]
      BY <2>0, <2>1, Zenon
    <3>2. a = d /\ old(a, i) = old(d, j)
      BY <2>0, <2>5, <3>1
    <3> QED
      BY <2>6, <3>2
  <2>2. ASSUME NEW a \in Batches, NEW i \in 1..Len(calls'[a])
        PROVE  /\ calls'[a][i] \in Callers /\ calls'[a][i] # c
               /\ \E j \in 1..Len(calls[a]) : calls'[a][i] = calls[a][j]
    <3>1. calls[a][old(a, i)] \in Callers
      BY <1>0, <2>0, CallTyped
    <3>2. calls[a][old(a, i)] # c
      BY <1>2, <2>0, <2>5, SMTT(20) DEF c, s
    <3> QED
      BY <2>0, <3>1, <3>2
  <2>3. \A a \in Batches : \A i \in 1..Len(calls'[a]) : cpc'[calls'[a][i]] # "start"
    BY <1>0, <1>15, <2>2 DEF CallsInv
  <2>4. ASSUME NEW a \in Batches, NEW i \in Pending(a)'
        PROVE  Unanswered(a, i)'
    <3>0. i \in 1..Len(calls'[a])
      BY <1>9, <2>4 DEF Pending, TypeOK
    <3>1. calls'[a][i] \in Callers /\ calls'[a][i] # c
      BY <2>2, <3>0
    <3>2. PICK j \in Pending(a) : calls'[a][i] = calls[a][j] /\ (a # b => j = i)
      <4>1. CASE a = b
        BY <1>1, <1>7, <2>2, <3>0, <4>1 DEF Pending
      <4>2. CASE a # b
        BY <1>1, <1>7, <2>4, <4>2 DEF Pending
      <4> QED
        BY <4>1, <4>2
    <3>3. Unanswered(a, j)
      BY <1>0, Zenon DEF PendingInv
    <3>4. bpc'[a] = "answer" <=> bpc[a] = "answer"
      BY <1>1, <1>7, <1>8
    <3> QED
      BY <1>14, <1>15, <3>1, <3>2, <3>3, <3>4 DEF Unanswered
  <2> QED
    BY <2>1, <2>3, <2>4, Zenon DEF CallsInv, PendingInv
<1> QED
  BY <1>9, <1>10, <1>11, <1>12, <1>13 DEF BatchInv

\* The result of Update goes to the next call.
LEMMA AnswerStep == ASSUME BatchInv, NEW b \in Batches, Answer(b) PROVE BatchInv'
<1>0. TypeOK /\ LockInv /\ CallsInv /\ PendingInv /\ RunInv /\ AppliedInv /\ CallerInv
  BY DEF BatchInv
<1> DEFINE c == calls[b][idx[b]]
<1>1. /\ bpc[b] = "answer" /\ errCh[c] = Nobody
      /\ errCh' = [errCh EXCEPT ![c] = err[b]]
      /\ idx' = [idx EXCEPT ![b] = @ + 1]
      /\ bpc' = [bpc EXCEPT ![b] = IF idx[b] = Len(calls[b]) THEN "done" ELSE @]
      /\ UNCHANGED <<opened, rwlock, batch, calls, timer, triggers, err, cpc, result,
                     applied, committed, own>>
  BY DEF Answer
<1>2. idx[b] \in 1..Len(calls[b]) /\ calls[b] \in Seq(Callers) /\ err[b] \in {"nil", "closed"}
  BY <1>0, <1>1 DEF RunInv, TypeOK
<1>3. /\ c \in Callers /\ cpc[c] = "wait"
      /\ IF err[b] = "nil" THEN committed[c] = 1 /\ own[c] = "nil" ELSE committed[c] = 0
  <2>1. idx[b] \in Pending(b) /\ bpc[b] = "answer"
    BY <1>1, <1>2 DEF Pending
  <2> QED
    BY <1>0, <2>1, CallTyped, Zenon DEF PendingInv, Unanswered
<1>4. /\ bpc[b] = "answer" /\ idx'[b] = idx[b] + 1
      /\ bpc'[b] = IF idx[b] = Len(calls[b]) THEN "done" ELSE "answer"
      /\ \A a \in Batches : a # b => idx'[a] = idx[a] /\ bpc'[a] = bpc[a]
  BY <1>0, <1>1 DEF TypeOK
<1>10. UNCHANGED <<opened, rwlock, batch, calls, timer, triggers, err, cpc, result,
                   applied, committed, own>>
  BY <1>1
<1>11. \A d \in Callers : errCh'[d] = IF d = c THEN err[b] ELSE errCh[d]
  BY <1>0, <1>1 DEF TypeOK
<1> HIDE DEF c
<1>5. TypeOK'
  <2>1. idx' \in [Batches -> Nat \ {0}]
    BY <1>0, <1>1 DEF TypeOK
  <2>2. errCh' \in [Callers -> {"nil", "closed", "trySolo", Nobody}]
    BY <1>0, <1>1, <1>2, Zenon DEF TypeOK
  <2>3. bpc' \in [Batches -> {"new", "retry", "fn", "failed", "answer", "done"}]
    BY <1>0, <1>1 DEF TypeOK
  <2> QED
    BY <1>0, <1>10, <2>1, <2>2, <2>3 DEF TypeOK
<1>6. LockInv'
  BY <1>0, <1>4, <1>10, SMTT(20) DEF LockInv
<1>7. RunInv' /\ AppliedInv'
  <2>1. bpc'[b] = "answer" => idx'[b] \in 1..Len(calls'[b])
    BY <1>2, <1>4, <1>10
  <2>2. batch # Nobody => batch \in Batches /\ batch # b
    BY <1>0, <1>4 DEF RunInv, TypeOK
  <2>3. RunInv'
    BY <1>0, <1>4, <1>10, <2>1, <2>2 DEF RunInv
  <2>4. \A a \in Batches : bpc'[a] = "fn" => bpc[a] = "fn" /\ idx'[a] = idx[a]
    BY <1>4
  <2> QED
    BY <1>0, <1>10, <2>3, <2>4 DEF AppliedInv
<1>8. CallerInv'
  <2>1. err[b] = "closed" => ~opened
    BY <1>0, <1>4 DEF RunInv
  <2> QED
    BY <1>0, <1>2, <1>3, <1>10, <1>11, <2>1, Distinct DEF CallerInv
<1>9. CallsInv' /\ PendingInv'
  <2>1. ASSUME NEW a \in Batches, NEW i \in Pending(a)'
        PROVE  Unanswered(a, i)'
    <3>1. i \in Pending(a) /\ (a = b => i # idx[b]) /\ bpc'[a] = bpc[a]
      <4>1. CASE a = b
        BY <1>2, <1>4, <1>10, <2>1, <4>1 DEF Pending
      <4>2. CASE a # b
        BY <1>4, <1>10, <2>1, <4>2 DEF Pending
      <4> QED
        BY <4>1, <4>2, Zenon
    <3>2. Unanswered(a, i)
      BY <1>0, <3>1, Zenon DEF PendingInv
    <3>3. i \in 1..Len(calls[a]) /\ calls[a][i] \in Callers
      BY <1>0, <3>1, CallTyped
    <3>4. calls[a][i] # c
      BY <1>0, <1>2, <3>1, <3>3 DEF CallsInv, c
    <3> QED
      BY <1>10, <1>11, <3>1, <3>2, <3>3, <3>4, Zenon DEF Unanswered
  <2>2. CallsInv'
    BY <1>0, <1>10, CallsFrame
  <2> QED
    BY <2>1, <2>2, Zenon DEF PendingInv
<1> QED
  BY <1>5, <1>6, <1>7, <1>8, <1>9 DEF BatchInv

\* Close, and the stuttering of the end.
LEMMA CloseStep == ASSUME BatchInv, Close \/ UNCHANGED vars PROVE BatchInv'
<1>0. TypeOK /\ LockInv /\ CallsInv /\ PendingInv /\ RunInv /\ AppliedInv /\ CallerInv
  BY DEF BatchInv
<1>1. /\ UNCHANGED <<rwlock, batchVars, errCh, cpc, result, applied, committed, own>>
      /\ opened' = opened \/ opened' = FALSE
  BY DEF Close, vars, batchVars
<1>2. TypeOK'
  BY <1>0, <1>1, Zenon DEF TypeOK, batchVars
<1>3. LockInv' /\ AppliedInv'
  BY <1>0, <1>1 DEF LockInv, AppliedInv, batchVars
<1>4. CallsInv' /\ PendingInv'
  BY <1>0, <1>1, BatchFrame DEF batchVars
<1>5. RunInv'
  <2>1. UNCHANGED <<batch, bpc, timer, calls, triggers, idx, err>> /\ (~opened => ~opened')
    BY <1>1 DEF batchVars
  <2> QED
    BY <1>0, <2>1, Zenon DEF RunInv
<1>6. CallerInv'
  <2>1. UNCHANGED <<errCh, cpc, result, committed, own>> /\ (~opened => ~opened')
    BY <1>1
  <2> QED
    BY <1>0, <2>1 DEF CallerInv
<1> QED
  BY <1>2, <1>3, <1>4, <1>5, <1>6 DEF BatchInv

\* Every step of callers, timers and batches keeps the invariant.
LEMMA BatchStep == BatchInv /\ [Next]_vars => BatchInv'
<1> SUFFICES ASSUME BatchInv, [Next]_vars PROVE BatchInv'
  OBVIOUS
<1>1. ASSUME NEW c \in Callers, CallerStep(c) PROVE BatchInv'
  BY <1>1, JoinStep, ReceiveStep, SoloBeginStep, SoloRunStep DEF CallerStep
<1>2. ASSUME NEW b \in Batches, RunStep(b) \/ TimerFires(b) PROVE BatchInv'
  BY <1>2, TriggerStep, RunBeginStep, RunFnStep, RunCommitStep, RemoveFailedStep, AnswerStep
     DEF RunStep
<1>3. CASE Close \/ Done \/ UNCHANGED vars
  BY <1>3, CloseStep DEF Done
<1> QED
  BY <1>1, <1>2, <1>3 DEF Next

\* The invariant of Batch: a call is in one batch at most, what its caller is told
\* is what became of it, and the open transaction holds the calls run so far.
THEOREM BatchInvariance == Spec => []BatchInv
  BY BatchInit, BatchStep, PTL DEF Spec

\* A function reported as successful is committed exactly once, one reported as
\* failed not at all, for every number of callers and batch size.
THEOREM BatchExactlyOnce == Spec => []ExactlyOnce
<1>1. BatchInv => ExactlyOnce
  BY DEF BatchInv, TypeOK, CallerInv, ExactlyOnce
<1> QED
  BY <1>1, BatchInvariance, PTL

\* What Batch returns is what the caller's own function returned last, or that
\* the database is closed.
THEOREM BatchOwnResult == Spec => []ResultIsOwn
<1>1. BatchInv => ResultIsOwn
  BY DEF BatchInv, CallerInv, ResultIsOwn
<1> QED
  BY <1>1, BatchInvariance, PTL

\* The calls of a batch that run has taken only get fewer: run reads them
\* without batchMu.
THEOREM BatchClosedToCalls == Spec => NoLateJoin
<1>1. BatchInv /\ [Next]_vars =>
        [\A b \in Batches : Started(b) => Len(calls'[b]) <= Len(calls[b])]_vars
  <2> SUFFICES ASSUME BatchInv, Next, NEW b \in Batches, Started(b)
               PROVE  Len(calls'[b]) <= Len(calls[b])
    OBVIOUS
  <2>0. TypeOK /\ RunInv /\ Len(calls[b]) \in Nat
    BY DEF BatchInv, TypeOK
  <2>1. ASSUME NEW c \in Callers, Join(c) PROVE calls'[b] = calls[b]
    <3>1. PICK a \in Batches : targetBatch(a) /\ calls' = [calls EXCEPT ![a] = Append(@, c)]
      BY <2>1, Zenon DEF Join
    <3>2. bpc[a] = "new"
      BY <2>0, <3>1 DEF targetBatch, needsNewBatch, RunInv, TypeOK
    <3> QED
      BY <2>0, <3>1, <3>2 DEF Started, TypeOK
  <2>2. ASSUME NEW a \in Batches, RemoveFailed(a) PROVE Len(calls'[b]) <= Len(calls[b])
    <3> DEFINE s == calls[a]
               rest == SubSeq([s EXCEPT ![idx[a]] = s[Len(s)]], 1, Len(s) - 1)
    <3>1. s \in Seq(Callers) /\ idx[a] \in 1..Len(s)
      BY <2>0, <2>2 DEF RunInv, TypeOK, RemoveFailed
    <3>2. Len(rest) = Len(s) - 1
      BY <3>1, RestProperties
    <3>3. calls' = [calls EXCEPT ![a] = rest]
      BY <2>2 DEF RemoveFailed
    <3> HIDE DEF rest
    <3> QED
      BY <2>0, <3>1, <3>2, <3>3 DEF TypeOK
  <2>3. ASSUME \A c \in Callers : ~Join(c), \A a \in Batches : ~RemoveFailed(a)
        PROVE  calls' = calls
    BY <2>3, Zenon DEF Next, CallerStep, RunStep, Receive, SoloBegin, SoloRun, TimerFires, StartRun,
                TriggerReturns, RunBegin, RunFn, RunCommit, Answer, Close, Done, vars, batchVars
  <2> QED
    BY <2>0, <2>1, <2>2, <2>3
<1> QED
  BY <1>1, BatchInvariance, PTL DEF Spec, NoLateJoin
=============================================================================
