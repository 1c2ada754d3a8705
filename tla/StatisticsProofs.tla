-------------------------- MODULE StatisticsProofs --------------------------
(***************************************************************************)
(* The statistics of the database are exact for every number of            *)
(* goroutines, of counters and of transactions: StatsInv is inductive.     *)
(***************************************************************************)
EXTENDS Statistics, FiniteSetTheorems, TLAPS

----------------------------------------------------------------------------
(* The inductive invariant.                                                *)

\* What makes CountedOnce and CopyIsOneMoment inductive: who holds statlock, and
\* how far add and the copy have come.
StatsInv ==
    /\ TypeOK
    /\ \A p \in Procs : pc[p] = "add" <=> statlock = p
    /\ \A p \in Procs : pc[p] = "copy" <=> p \in readers
    /\ statlock # Nil => readers = {}
    /\ statlock = Nil => TxStats = ended
    /\ \A p \in Procs : pc[p] = "add" =>
         \A f \in Fields : TxStats[f] = ended[f] + (IF f \in rest[p] THEN 0 ELSE stats[p][f])
    /\ \A p \in Procs : pc[p] = "copy" =>
         /\ copy[p].TxN = TxN /\ copy[p].OpenTxN = OpenTxN
         /\ \A f \in Fields \ rest[p] : copy[p].TxStats[f] = TxStats[f]
    /\ \A p \in Procs, f \in Fields :
         /\ older[p].TxStats[f] <= ended[f]
         /\ older[p].TxStats[f] <= copy[p].TxStats[f]
         /\ copy[p].TxStats[f] <= ended[f]
    /\ \A p \in Procs : older[p].TxN <= copy[p].TxN /\ copy[p].TxN <= TxN

----------------------------------------------------------------------------
\* Open leaves the statistics at zero.
LEMMA StatsInit == Init => StatsInv
  BY StatisticsAssumption
     DEF Init, StatsInv, TypeOK, Counts, Zero, NoCopy

\* A transaction that begins, reading or writing, or counts an event.
LEMMA StatsBegin ==
  ASSUME StatsInv, NEW p \in Procs,
         beginTx(p) \/ beginRWTx(p) \/ \E f \in Fields : Inc(p, f)
  PROVE  StatsInv'
<1>1. CASE beginTx(p)
  BY <1>1, StatisticsAssumption
     DEF StatsInv, TypeOK, Counts, beginTx, Goto, Unlocked
<1>2. CASE beginRWTx(p)
  BY <1>2, StatisticsAssumption
     DEF StatsInv, TypeOK, Counts, beginRWTx, Goto
<1>3. ASSUME NEW f \in Fields, Inc(p, f)
      PROVE  StatsInv'
  <2>1. stats' \in [Procs -> Counts]
    BY <1>3 DEF StatsInv, TypeOK, Counts, Inc
  <2>2. TypeOK'
    BY <1>3, <2>1 DEF StatsInv, TypeOK, Inc
  <2>3. \A q \in Procs : pc[q] = "add" => stats'[q] = stats[q]
    BY <1>3 DEF StatsInv, TypeOK, Inc
  <2> QED
    BY <1>3, <2>2, <2>3 DEF StatsInv, Inc
<1> QED
  BY <1>1, <1>2, <1>3

\* close takes statlock, add works through the fields, the unlock ends it.
LEMMA StatsClose ==
  ASSUME StatsInv, NEW p \in Procs,
         close(p) \/ closed(p) \/ \E f \in Fields : add(p, f)
  PROVE  StatsInv'
<1>1. CASE close(p)
  BY <1>1, StatisticsAssumption
     DEF StatsInv, TypeOK, Counts, close, Goto, Unlocked
<1>2. ASSUME NEW f \in Fields, add(p, f)
      PROVE  StatsInv'
  <2>1. statlock = p /\ readers = {} /\ \A q \in Procs : pc[q] = "add" => q = p
    BY <1>2, StatisticsAssumption DEF StatsInv, TypeOK, add
  <2>2. /\ TxStats \in [Fields -> Nat] /\ stats[p] \in [Fields -> Nat]
        /\ ended \in [Fields -> Nat]
    BY DEF StatsInv, TypeOK, Counts
  <2>3. TypeOK'
    BY <1>2, <2>2 DEF StatsInv, TypeOK, Counts, add
  <2>4. TxStats[f] = ended[f]
    BY <1>2, <2>2 DEF StatsInv, add
  <2>5. \A g \in Fields : TxStats'[g] = ended[g] + (IF g \in rest'[p] THEN 0 ELSE stats[p][g])
    BY <1>2, <2>2, <2>4 DEF StatsInv, TypeOK, add
  <2>6. \A q \in Procs : pc[q] # "copy"
    BY <2>1 DEF StatsInv
  <2> QED
    BY <1>2, <2>1, <2>3, <2>5, <2>6, StatisticsAssumption DEF StatsInv, add
<1>3. CASE closed(p)
  <2>1. statlock = p /\ readers = {} /\ \A q \in Procs : pc[q] = "add" => q = p
    BY <1>3, StatisticsAssumption DEF StatsInv, TypeOK, closed, Goto
  <2>2. /\ TxStats \in [Fields -> Nat] /\ stats[p] \in [Fields -> Nat]
        /\ ended \in [Fields -> Nat]
    BY DEF StatsInv, TypeOK, Counts
  <2>3. TypeOK'
    BY <1>3, <2>2 DEF StatsInv, TypeOK, Counts, Zero, closed, Goto
  <2>4. TxStats' = ended'
    BY <1>3, <2>2 DEF StatsInv, closed, Goto
  <2>5. \A f \in Fields : ended[f] <= ended'[f]
    BY <1>3, <2>2 DEF closed
  <2>6. \A q \in Procs, f \in Fields :
          /\ older'[q].TxStats[f] <= ended'[f]
          /\ older'[q].TxStats[f] <= copy'[q].TxStats[f]
          /\ copy'[q].TxStats[f] <= ended'[f]
    BY <1>3, <2>2, <2>3, <2>5 DEF StatsInv, TypeOK, Counts, closed
  <2>7. \A q \in Procs : pc'[q] # "add" /\ pc'[q] # "copy"
    BY <1>3, <2>1 DEF StatsInv, TypeOK, closed, Goto
  <2> QED
    BY <1>3, <2>1, <2>3, <2>4, <2>6, <2>7, StatisticsAssumption DEF StatsInv, closed, Goto
<1> QED
  BY <1>1, <1>2, <1>3

\* Stats() takes the read lock, copies field by field and returns.
LEMMA StatsCopy ==
  ASSUME StatsInv, NEW p \in Procs,
         Stats(p) \/ StatsReturns(p) \/ \E f \in Fields : CopyField(p, f)
  PROVE  StatsInv'
<1> DEFINE C == [TxStats : Counts, TxN : Nat, OpenTxN : Int]
<1>0. copy \in [Procs -> C] /\ older \in [Procs -> C] /\ ended \in [Fields -> Nat]
      /\ TxStats \in [Fields -> Nat]
  BY DEF StatsInv, TypeOK, Counts
<1>1. CASE Stats(p)
  <2>1. /\ copy' = [copy EXCEPT ![p] = [TxStats |-> copy[p].TxStats, TxN |-> TxN, OpenTxN |-> OpenTxN]]
        /\ older' = [older EXCEPT ![p] = copy[p]]
        /\ UNCHANGED <<writable, stats, TxStats, TxN, OpenTxN, statlock, ended, begun>>
    BY <1>1 DEF Stats
  <2>2. TypeOK'
    BY <1>0, <1>1, <2>1 DEF StatsInv, TypeOK, Counts, Stats, Goto
  <2>3. \A q \in Procs : /\ copy'[q].TxStats = copy[q].TxStats
                         /\ copy'[q].TxN = IF q = p THEN TxN ELSE copy[q].TxN
                         /\ copy'[q].OpenTxN = IF q = p THEN OpenTxN ELSE copy[q].OpenTxN
                         /\ older'[q] = IF q = p THEN copy[q] ELSE older[q]
    BY <1>0, <2>1
  <2>4. \A q \in Procs, f \in Fields : copy[q].TxStats[f] \in Nat /\ older[q].TxStats[f] \in Nat
    BY <1>0 DEF Counts
  <2>5. \A q \in Procs, f \in Fields :
          /\ older'[q].TxStats[f] <= ended'[f]
          /\ older'[q].TxStats[f] <= copy'[q].TxStats[f]
          /\ copy'[q].TxStats[f] <= ended'[f]
    BY <2>1, <2>3, <2>4 DEF StatsInv
  <2>6. \A q \in Procs : older'[q].TxN <= copy'[q].TxN /\ copy'[q].TxN <= TxN'
    <3>1. \A q \in Procs : copy[q].TxN \in Nat /\ older[q].TxN \in Nat /\ TxN \in Nat
      BY <1>0 DEF StatsInv, TypeOK
    <3> QED BY <3>1, <2>1, <2>3 DEF StatsInv
  <2>7. \A q \in Procs : pc'[q] = "copy" =>
          /\ copy'[q].TxN = TxN' /\ copy'[q].OpenTxN = OpenTxN'
          /\ \A f \in Fields \ rest'[q] : copy'[q].TxStats[f] = TxStats'[f]
    BY <1>1, <2>1, <2>3 DEF StatsInv, TypeOK, Stats, Goto
  <2> QED
    BY <1>1, <2>1, <2>2, <2>5, <2>6, <2>7, StatisticsAssumption
       DEF StatsInv, TypeOK, Stats, Goto
<1>2. ASSUME NEW f \in Fields, CopyField(p, f)
      PROVE  StatsInv'
  <2>1. /\ copy' = [copy EXCEPT ![p].TxStats[f] = TxStats[f]]
        /\ rest' = [rest EXCEPT ![p] = @ \ {f}]
        /\ UNCHANGED <<pc, writable, stats, TxStats, TxN, OpenTxN, statlock, readers, older, ended, begun>>
    BY <1>2 DEF CopyField
  <2>2. copy' \in [Procs -> C]
    BY <1>0, <2>1 DEF Counts
  <2>3. TypeOK'
    BY <1>2, <2>1, <2>2 DEF StatsInv, TypeOK
  <2>4. \A q \in Procs : /\ copy'[q].TxN = copy[q].TxN
                         /\ copy'[q].OpenTxN = copy[q].OpenTxN
                         /\ \A g \in Fields : copy'[q].TxStats[g] =
                              IF q = p /\ g = f THEN TxStats[f] ELSE copy[q].TxStats[g]
    BY <1>0, <2>1 DEF Counts
  <2>5. TxStats = ended
    BY <1>2, StatisticsAssumption DEF StatsInv, TypeOK, CopyField
  <2>6. \A q \in Procs, g \in Fields :
          /\ older'[q].TxStats[g] <= ended'[g]
          /\ older'[q].TxStats[g] <= copy'[q].TxStats[g]
          /\ copy'[q].TxStats[g] <= ended'[g]
    BY <1>0, <2>1, <2>4, <2>5 DEF StatsInv
  <2>7. \A q \in Procs : pc'[q] = "copy" =>
          /\ copy'[q].TxN = TxN' /\ copy'[q].OpenTxN = OpenTxN'
          /\ \A g \in Fields \ rest'[q] : copy'[q].TxStats[g] = TxStats'[g]
    BY <2>1, <2>4 DEF StatsInv, TypeOK
  <2>8. \A q \in Procs : pc[q] = "add" => rest'[q] = rest[q]
    BY <1>2, <2>1 DEF StatsInv, TypeOK, CopyField
  <2> QED
    BY <2>1, <2>3, <2>4, <2>6, <2>7, <2>8 DEF StatsInv
<1>3. CASE StatsReturns(p)
  BY <1>3, StatisticsAssumption DEF StatsInv, TypeOK, StatsReturns, Goto
<1> QED
  BY <1>1, <1>2, <1>3

\* The locking of statlock makes StatsInv hold in every state.
THEOREM StatsInvariance == Spec => []StatsInv
<1>1. StatsInv /\ [Next]_vars => StatsInv'
  <2> SUFFICES ASSUME StatsInv, [Next]_vars PROVE StatsInv'
    OBVIOUS
  <2>1. CASE Next
    BY <2>1, StatsBegin, StatsClose, StatsCopy DEF Next
  <2>2. CASE UNCHANGED vars
    BY <2>2 DEF StatsInv, TypeOK, vars
  <2> QED
    BY <2>1, <2>2
<1> QED
  BY <1>1, StatsInit, PTL DEF Spec

\* Every ended transaction is counted once, in every counter.
THEOREM StatsCountedOnce == Spec => []CountedOnce
<1>1. StatsInv => CountedOnce
  BY DEF StatsInv, CountedOnce
<1> QED
  BY <1>1, StatsInvariance, PTL

\* The difference of two consecutive copies is never negative.
THEOREM StatsDifference == Spec => []DifferenceGrows
<1>1. StatsInv => DifferenceGrows
  BY DEF StatsInv, TypeOK, Counts, DifferenceGrows, Sub, SubTxStats
<1> QED
  BY <1>1, StatsInvariance, PTL

----------------------------------------------------------------------------
(* The count of open read transactions.                                    *)

\* The read transactions that beginTx has counted and close has not taken off.
OpenReaders == {q \in Procs : pc[q] = "open" /\ ~writable[q]}

\* Only a transaction that is open or ending is writable, and OpenTxN counts the
\* open ones that are not.
ReadersInv ==
    /\ \A p \in Procs : writable[p] => pc[p] \in {"open", "add"}
    /\ OpenTxN = Cardinality(OpenReaders)

\* What one step does to the open readers, and to their counter under statlock.
LEMMA OpenReadersStep ==
  ASSUME TypeOK, [Next]_vars, \A p \in Procs : writable[p] => pc[p] \in {"open", "add"}
  PROVE  /\ \A p \in Procs : writable'[p] => pc'[p] \in {"open", "add"}
         /\ \/ OpenReaders' = OpenReaders /\ OpenTxN' = OpenTxN
            \/ \E p \in Procs : /\ p \notin OpenReaders
                                /\ OpenReaders' = OpenReaders \cup {p}
                                /\ OpenTxN' = OpenTxN + 1
            \/ \E p \in Procs : /\ p \in OpenReaders
                                /\ OpenReaders' = OpenReaders \ {p}
                                /\ OpenTxN' = OpenTxN - 1
<1> USE DEF TypeOK, OpenReaders, Goto
<1>1. CASE UNCHANGED vars
  BY <1>1 DEF vars
<1>2. ASSUME NEW p \in Procs, beginTx(p) \/ beginRWTx(p)
      PROVE  /\ \A q \in Procs : writable'[q] => pc'[q] \in {"open", "add"}
             /\ \/ OpenReaders' = OpenReaders /\ OpenTxN' = OpenTxN
                \/ /\ p \notin OpenReaders
                   /\ OpenReaders' = OpenReaders \cup {p}
                   /\ OpenTxN' = OpenTxN + 1
  BY <1>2 DEF beginTx, beginRWTx
<1>3. ASSUME NEW p \in Procs, close(p)
      PROVE  /\ \A q \in Procs : writable'[q] => pc'[q] \in {"open", "add"}
             /\ \/ OpenReaders' = OpenReaders /\ OpenTxN' = OpenTxN
                \/ /\ p \in OpenReaders
                   /\ OpenReaders' = OpenReaders \ {p}
                   /\ OpenTxN' = OpenTxN - 1
  BY <1>3 DEF close
<1>4. ASSUME NEW p \in Procs,
             \/ closed(p) \/ Stats(p) \/ StatsReturns(p)
             \/ \E f \in Fields : Inc(p, f) \/ add(p, f) \/ CopyField(p, f)
      PROVE  /\ \A q \in Procs : writable'[q] => pc'[q] \in {"open", "add"}
             /\ OpenReaders' = OpenReaders /\ OpenTxN' = OpenTxN
  BY <1>4 DEF closed, Stats, StatsReturns, Inc, add, CopyField
<1> QED
  BY <1>1, <1>2, <1>3, <1>4 DEF Next

\* OpenTxN is the number of open read transactions in every state: beginTx and
\* close move it together with the transaction.
THEOREM StatsReadersCounted == ASSUME IsFiniteSet(Procs) PROVE Spec => []ReadersInv
<1>1. Init => ReadersInv
  <2> HAVE Init
  <2>1. OpenReaders = {} /\ OpenTxN = 0 /\ \A p \in Procs : ~writable[p]
    BY DEF Init, OpenReaders
  <2> QED
    BY <2>1, FS_EmptySet DEF ReadersInv
<1>2. TypeOK /\ ReadersInv /\ [Next]_vars => ReadersInv'
  <2> SUFFICES ASSUME TypeOK, ReadersInv, [Next]_vars PROVE ReadersInv'
    OBVIOUS
  <2>1. OpenReaders \in SUBSET Procs
    BY DEF OpenReaders
  <2>2. IsFiniteSet(OpenReaders) /\ OpenTxN = Cardinality(OpenReaders)
    BY <2>1, FS_Subset DEF ReadersInv
  <2>3. ASSUME NEW p \in Procs, p \notin OpenReaders, OpenReaders' = OpenReaders \cup {p},
               OpenTxN' = OpenTxN + 1
        PROVE  OpenTxN' = Cardinality(OpenReaders')
    BY <2>2, <2>3, FS_AddElement
  <2>4. ASSUME NEW p \in Procs, p \in OpenReaders, OpenReaders' = OpenReaders \ {p},
               OpenTxN' = OpenTxN - 1
        PROVE  OpenTxN' = Cardinality(OpenReaders')
    BY <2>2, <2>4, FS_RemoveElement
  <2>5. OpenTxN' = Cardinality(OpenReaders')
    BY <2>2, <2>3, <2>4, OpenReadersStep DEF ReadersInv
  <2>6. \A p \in Procs : writable'[p] => pc'[p] \in {"open", "add"}
    BY OpenReadersStep DEF ReadersInv
  <2> QED
    BY <2>5, <2>6 DEF ReadersInv
<1>3. StatsInv => TypeOK
  BY DEF StatsInv
<1> QED
  BY <1>1, <1>2, <1>3, StatsInvariance, PTL DEF Spec

\* What Stats() returns is the statistics of one moment: its counters are those
\* of the transactions ended by then, and OpenTxN the read transactions open then.
THEOREM StatsOneMoment == ASSUME IsFiniteSet(Procs) PROVE Spec => []CopyIsOneMoment
<1>1. StatsInv /\ ReadersInv => CopyIsOneMoment
  <2> SUFFICES ASSUME StatsInv, ReadersInv, NEW p \in Procs, pc[p] = "copy", rest[p] = {}
               PROVE  /\ copy[p].TxStats = ended
                      /\ copy[p].TxN = TxN
                      /\ copy[p].OpenTxN = Cardinality(OpenReaders)
    BY DEF CopyIsOneMoment, OpenReaders
  <2>1. TxStats = ended
    BY StatisticsAssumption DEF StatsInv, TypeOK
  <2>2. copy[p].TxStats \in [Fields -> Nat] /\ TxStats \in [Fields -> Nat]
    BY DEF StatsInv, TypeOK, Counts
  <2>3. \A f \in Fields : copy[p].TxStats[f] = TxStats[f]
    BY DEF StatsInv
  <2>4. copy[p].TxStats = TxStats
    BY <2>2, <2>3
  <2>5. copy[p].TxN = TxN /\ copy[p].OpenTxN = OpenTxN
    BY DEF StatsInv
  <2> QED
    BY <2>1, <2>4, <2>5 DEF ReadersInv
<1> QED
  BY <1>1, StatsInvariance, StatsReadersCounted, PTL
=============================================================================
