-------------------------- MODULE CheckStreamProofs -------------------------
(***************************************************************************)
(* Tx.Check for every set of buckets, every number of errors and every     *)
(* capacity of the channel: nothing is sent on the closed channel, and     *)
(* its callers pass only what has no error.                                *)
(***************************************************************************)
EXTENDS CheckStream, TLAPS

----------------------------------------------------------------------------
(* The inductive invariant.                                                *)

\* An error has come as far as the channel.
Sent == errors > 0 \/ ch # <<>>

\* How far the goroutine of Check is, and what that says of the others.
RootInv ==
    /\ pc[Root] \in {"check", "report", "levelA", "levelB", "spawn", "wait", "done", "panic"}
    /\ left[Root] > 0 => pc[Root] \in {"report", "levelB"}
    /\ pc[Root] = "report" => left[Root] > 0 \/ Sent
    /\ pc[Root] \in {"check", "report", "levelA", "levelB"} => started = {}
    /\ pc[Root] = "wait" => started = Buckets
    /\ pc[Root] = "done" => wg = {} /\ (started = Buckets \/ Sent)
    /\ closed <=> pc[Root] = "done"

\* A bucket's goroutine is in the WaitGroup until it has sent what it found.
BucketInv(b) ==
    /\ pc[b] \in {"none", "bucket", "send", "done", "panic"}
    /\ b \in started <=> pc[b] # "none"
    /\ b \in wg <=> pc[b] \in {"bucket", "send", "panic"}
    /\ left[b] > 0 => pc[b] = "send"
    /\ pc[b] \in {"send", "done"} => left[b] = faults[b] \/ Sent

\* The WaitGroup, the order of Check's steps and the errors on their way,
\* together inductive (tx_check.go:28).
CheckInv ==
    /\ TypeOK
    /\ RootInv
    /\ \A b \in Buckets : BucketInv(b)
    /\ caller = "passed" => closed /\ ~Sent

----------------------------------------------------------------------------
\* Nothing runs yet but the goroutine of Check.
LEMMA CheckInit == Init => CheckInv
<1> SUFFICES ASSUME Init PROVE CheckInv
  OBVIOUS
<1>1. faults \in [Buckets -> Nat]
  BY CheckAssumption DEF Init
<1>2. ch \in Seq(Goroutines) /\ ~Sent
  BY DEF Init, Sent
<1>3. pc[Root] = "check" /\ \A b \in Buckets : pc[b] = "none"
  BY CheckAssumption DEF Init, Goroutines
<1>4. TypeOK
  <2>1. pc \in [Goroutines -> {"none", "check"}] /\ left \in [Goroutines -> {0}]
    BY DEF Init
  <2> QED
    BY <1>1, <1>2, <2>1 DEF Init, TypeOK
<1>5. RootInv
  <2>1. left[Root] = 0
    BY DEF Init, Goroutines
  <2> QED
    BY <1>3, <2>1 DEF Init, RootInv
<1>6. \A b \in Buckets : BucketInv(b)
  <2> SUFFICES ASSUME NEW b \in Buckets PROVE BucketInv(b)
    OBVIOUS
  <2>1. b \notin started /\ b \notin wg
    BY DEF Init
  <2>2. ~(left[b] > 0)
    BY DEF Init, Goroutines
  <2>3. pc[b] = "none"
    BY <1>3
  <2> QED
    BY <2>1, <2>2, <2>3 DEF BucketInv
<1> QED
  BY <1>2, <1>4, <1>5, <1>6 DEF Init, CheckInv

\* The steps of the goroutine that Check starts, up to the bucket list.
LEMMA CheckLevels ==
  ASSUME CheckInv, CheckBase \/ checkDBState \/ ListBuckets
  PROVE  CheckInv'
<1>1. CASE CheckBase
  BY <1>1, CheckAssumption
     DEF CheckInv, TypeOK, Goroutines, Sent, RootInv, BucketInv, CheckBase, Goto
<1>2. CASE checkDBState
  BY <1>2, CheckAssumption
     DEF CheckInv, TypeOK, Goroutines, Sent, RootInv, BucketInv, checkDBState, Goto
<1>3. CASE ListBuckets
  BY <1>3, CheckAssumption
     DEF CheckInv, TypeOK, Goroutines, Sent, RootInv, BucketInv, ListBuckets, Goto
<1> QED
  BY <1>1, <1>2, <1>3

\* Its loop over the buckets, the wait, and close(ch).
LEMMA CheckSpawns ==
  ASSUME CheckInv, AllSpawned \/ CloseChannel \/ \E b \in Buckets : Spawn(b)
  PROVE  CheckInv'
<1>1. CASE AllSpawned
  BY <1>1, CheckAssumption
     DEF CheckInv, TypeOK, Goroutines, Sent, RootInv, BucketInv, AllSpawned, Goto
<1>2. CASE CloseChannel
  <2>1. wg = {}
    BY <1>2 DEF CheckInv, TypeOK, RootInv, BucketInv, CloseChannel, Goto
  <2> QED
    BY <1>2, <2>1, CheckAssumption
       DEF CheckInv, TypeOK, Goroutines, Sent, RootInv, BucketInv, CloseChannel, Goto
<1>3. ASSUME NEW b \in Buckets, Spawn(b)
      PROVE  CheckInv'
  BY <1>3, CheckAssumption
     DEF CheckInv, TypeOK, Goroutines, Sent, RootInv, BucketInv, Spawn
<1> QED
  BY <1>1, <1>2, <1>3

\* The goroutine of a bucket.
LEMMA CheckWorks ==
  ASSUME CheckInv, NEW b \in Buckets, CheckBucket(b) \/ Done(b)
  PROVE  CheckInv'
<1>1. CASE CheckBucket(b)
  BY <1>1, CheckAssumption
     DEF CheckInv, TypeOK, Goroutines, Sent, RootInv, BucketInv, CheckBucket, Goto
<1>2. CASE Done(b)
  BY <1>2, CheckAssumption
     DEF CheckInv, TypeOK, Goroutines, Sent, RootInv, BucketInv, Done, Goto
<1> QED
  BY <1>1, <1>2

\* A send leaves an error in the channel.
LEMMA CheckSends ==
  ASSUME CheckInv, NEW g \in Goroutines, Send(g)
  PROVE  CheckInv'
<1>4. /\ ch \in Seq(Goroutines) /\ ch' = Append(ch, g)
      /\ left \in [Goroutines -> Nat] /\ left[g] > 0
      /\ left' = [left EXCEPT ![g] = left[g] - 1]
      /\ UNCHANGED <<faults, base, pc, started, wg, closed, errors, caller>>
  BY DEF CheckInv, TypeOK, Send
<1>5. ch' \in Seq(Goroutines) /\ Len(ch') = Len(ch) + 1 /\ Len(ch) \in Nat
  BY <1>4
<1>6. ch' # <<>>
  BY <1>5
<1>7. left' \in [Goroutines -> Nat]
  BY <1>4
<1>1. /\ ch' \in Seq(Goroutines) /\ ch' # <<>>
      /\ left' \in [Goroutines -> Nat]
      /\ UNCHANGED <<faults, base, pc, started, wg, closed, errors, caller>>
  BY <1>4, <1>5, <1>6, <1>7
<1>2. Sent' /\ ~closed
  BY <1>1 DEF Sent, Send
<1>3. \A h \in Goroutines : left'[h] > 0 => left[h] > 0
  BY DEF CheckInv, TypeOK, Send
<1> QED
  BY <1>1, <1>2, <1>3, CheckAssumption
     DEF CheckInv, TypeOK, Goroutines, RootInv, BucketInv

\* An error that the caller takes from the channel is one it has received.
LEMMA CheckCaller ==
  ASSUME CheckInv, Caller \/ EndTx
  PROVE  CheckInv'
<1>1. CASE Receive
  <2>1. ch' \in Seq(Goroutines) /\ errors' \in Nat /\ errors' > 0
    BY <1>1 DEF CheckInv, TypeOK, Receive
  <2>2. Sent' /\ caller' # "passed"
    BY <1>1, <2>1 DEF Sent, Receive
  <2> QED
    BY <1>1, <2>1, <2>2 DEF CheckInv, TypeOK, RootInv, BucketInv, Receive
<1>2. CASE Verdict
  BY <1>2 DEF CheckInv, TypeOK, Sent, RootInv, BucketInv, Verdict
<1>3. CASE EndTx
  BY <1>3 DEF CheckInv, TypeOK, Sent, RootInv, BucketInv, EndTx
<1>4. CASE ReturnFirst
  <2>1. ch' \in Seq(Goroutines) /\ errors' = 1 /\ caller' = "returned"
    BY <1>4 DEF CheckInv, TypeOK, ReturnFirst
  <2>2. Sent'
    BY <2>1 DEF Sent
  <2> QED
    BY <1>4, <2>1, <2>2 DEF CheckInv, TypeOK, RootInv, BucketInv, ReturnFirst
<1> QED
  BY <1>1, <1>2, <1>3, <1>4 DEF Caller

\* The inductive invariant holds in every state of Check and its caller.
THEOREM CheckInvariance == Spec => []CheckInv
<1>1. CheckInv /\ [Next]_vars => CheckInv'
  <2> SUFFICES ASSUME CheckInv, [Next]_vars PROVE CheckInv'
    OBVIOUS
  <2>1. CASE Library
    BY <2>1, CheckLevels, CheckSpawns, CheckWorks, CheckSends DEF Library
  <2>2. CASE Caller \/ EndTx
    BY <2>2, CheckCaller
  <2>3. CASE UNCHANGED vars
    BY <2>3 DEF CheckInv, TypeOK, Sent, RootInv, BucketInv, vars
  <2> QED
    BY <2>1, <2>2, <2>3 DEF Next
<1> QED
  BY <1>1, CheckInit, PTL DEF Spec

\* No goroutine is left that could send when the channel is closed.
THEOREM ChannelSafe == Spec => []NoSendAfterClose
<1>1. CheckInv => NoSendAfterClose
  BY CheckAssumption
     DEF CheckInv, TypeOK, Goroutines, RootInv, BucketInv, NoSendAfterClose
<1> QED
  BY <1>1, CheckInvariance, PTL

\* No caller passes a snapshot with an error in one of its buckets.
THEOREM VerdictSound == Spec => []PassedIsClean
<1>1. CheckInv => PassedIsClean
  <2> SUFFICES ASSUME CheckInv, caller = "passed", NEW b \in Buckets
               PROVE  faults[b] = 0
    BY DEF PassedIsClean
  <2>1. ~Sent /\ started = Buckets /\ wg = {}
    BY DEF CheckInv, RootInv
  <2>2. pc[b] = "done" /\ left[b] = faults[b]
    BY <2>1 DEF CheckInv, BucketInv
  <2>3. left[b] \in Nat /\ ~(left[b] > 0)
    BY <2>2 DEF CheckInv, TypeOK, Goroutines, BucketInv
  <2> QED
    BY <2>2, <2>3
<1> QED
  BY <1>1, CheckInvariance, PTL
=============================================================================
