------------------------- MODULE VmboltDBProofs --------------------------
(***************************************************************************)
(* Theorems about VmboltDB, for any number of goroutines, buckets, keys,   *)
(* nodes and handles.                                                      *)
(***************************************************************************)
EXTENDS VmboltDB, TLAPS

----------------------------------------------------------------------------
(* The inductive invariant: what the locking, the lazily opened buckets    *)
(* and the copy-on-write establish together.                               *)

HoldsLock(p) ==
    \/ pc[p] \in {"locked", "closeLocked", "closeMarked"}
    \/ pc[p] \in {"open", "stored"} /\ writable[p]

\* rwlock is held by exactly the goroutine between Lock and Unlock.
LockInv == \A p \in Procs : HoldsLock(p) <=> rwlock = p

\* A transaction has a base, and only a writer has buckets of its own.
TxInv ==
    \A p \in Procs :
        /\ InTx(p) <=> base[p] # Nil
        /\ writable[p] => pc[p] \in {"open", "stored"}
        /\ pc[p] = "stored" => writable[p]
        /\ pc[p] \notin {"open", "stored"} =>
             \A n \in Names : bctx[p][n] = Nil
        /\ ~writable[p] => /\ created[p] = {} /\ deleted[p] = {}
                           /\ \A h \in Handles : hroot[p][h] = Nil
        /\ \A h \in Handles : hname[p][h] = Nil => hroot[p][h] = Nil

\* How bctx, created and deleted fit together.
BucketOK(p, n) ==
    /\ n \in created[p] => /\ n \notin deleted[p]
                           /\ bctx[p][n] # Nil
                           /\ hroot[p][bctx[p][n]] # Nil
    /\ n \in deleted[p] => bctx[p][n] = Nil /\ base[p][n] # Nil
    /\ bctx[p][n] # Nil => /\ hname[p][bctx[p][n]] = n
                           /\ n \in created[p] \/ base[p][n] # Nil

BucketInv == \A p \in Procs : \A n \in Names : BucketOK(p, n)

\* The nodes a writer may still change are its own: nobody else reaches them.
OwnOK(p, h) ==
    pc[p] = "open" /\ hroot[p][h] # Nil =>
        /\ hroot[p][h] \notin DirNodes(state)
        /\ \A q \in Procs : hroot[p][h] \notin DirNodes(base[q])
        /\ \A g \in Handles : hroot[p][g] = hroot[p][h] => g = h

OwnInv == \A p \in Procs : \A h \in Handles : OwnOK(p, h)

\* The published state disappears only after opened has been cleared.
StateInv ==
    /\ opened => state # Nil
    /\ \A p \in Procs : pc[p] = "closeMarked" => ~opened

\* Ownership of nodes, lock and directory bookkeeping, as one inductive
\* invariant of every step of db.go and tx.go.
IInv ==
    /\ TypeOK
    /\ LockInv
    /\ TxInv
    /\ BucketInv
    /\ OwnInv
    /\ StateInv
    /\ WriterOnLatest

----------------------------------------------------------------------------
(* Types, the lock, and the bookkeeping of transactions and directories.   *)

\* A handle slot that newBucket takes was unused.
LEMMA FreshHandle ==
    ASSUME NEW p, CanOpenHandle(p)
    PROVE  /\ freshHandle(p) \in Handles
           /\ hname[p][freshHandle(p)] = Nil
  BY DEF CanOpenHandle, freshHandle

\* An empty bucket has the shape of a node.
LEMMA EmptyLeafType == EmptyLeaf \in Contents
  BY DEF EmptyLeaf, Contents

\* Publishing keeps the shape of a directory.
LEMMA NewBucketsType ==
    ASSUME TypeOK, BucketInv, NEW p \in Procs, base[p] # Nil
    PROVE  newBuckets(p) \in Directories
  <1> SUFFICES ASSUME NEW n \in Names
               PROVE  newBuckets(p)[n] \in Nodes \cup {Nil}
    BY DEF newBuckets, Directories
  <1> base[p] \in Directories
    BY DEF TypeOK
  <1>1. CASE bctx[p][n] # Nil /\ n \notin deleted[p]
    BY <1>1 DEF newBuckets, publishRoot, rootView, baseState, TypeOK, BucketInv, BucketOK, Directories
  <1>2. CASE ~(bctx[p][n] # Nil /\ n \notin deleted[p])
    BY <1>2 DEF newBuckets, TypeOK, Directories
  <1> QED BY <1>1, <1>2

\* Tx.close keeps the types.
LEMMA CloseTxType ==
    ASSUME TypeOK, NEW p \in Procs, closeTx(p)
    PROVE  /\ rwlock' \in Procs \cup {Nil}
           /\ openTxN' \in Int
           /\ heap' \in [Nodes -> Contents]
           /\ writable' \in [Procs -> BOOLEAN]
           /\ base' \in [Procs -> Directories \cup {Nil}]
           /\ bctx' \in [Procs -> [Names -> Handles \cup {Nil}]]
           /\ created' \in [Procs -> SUBSET Names]
           /\ deleted' \in [Procs -> SUBSET Names]
           /\ hname' \in [Procs -> [Handles -> Names \cup {Nil}]]
           /\ hroot' \in [Procs -> [Handles -> Nodes \cup {Nil}]]
           /\ handlers' \in [Procs -> Nat]
  <1>1. heap' \in [Nodes -> Contents]
    BY EmptyLeafType DEF closeTx, dropTx, TypeOK
  <1>2. hname' \in [Procs -> [Handles -> Names \cup {Nil}]] 
    BY DEF closeTx, dropTx, TypeOK
  <1>3. hroot' \in [Procs -> [Handles -> Nodes \cup {Nil}]]
    BY DEF closeTx, dropTx, TypeOK
  <1>4. bctx' \in [Procs -> [Names -> Handles \cup {Nil}]]
    BY DEF closeTx, dropTx, TypeOK
  <1> QED BY <1>1, <1>2, <1>3, <1>4 DEF closeTx, dropTx, TypeOK

\* The copy that writableRoot makes keeps the types.
LEMMA WritableRootType ==
    ASSUME TypeOK, NEW p \in Procs, NEW h \in Handles, NEW k \in Keys,
           NEW v \in Vals \cup {NoVal}, hname[p][h] # Nil, base[p] # Nil,
           writableRoot(p, h, k, v)
    PROVE  /\ heap' \in [Nodes -> Contents]
           /\ hroot' \in [Procs -> [Handles -> Nodes \cup {Nil}]]
  <1>1. CASE hroot[p][h] # Nil
    <2> DEFINE o == hroot[p][h]
    <2>1. /\ heap' = [heap EXCEPT ![o] = [heap[o] EXCEPT ![k] = v]]
          /\ hroot' = hroot
      BY <1>1 DEF writableRoot
    <2>2. o \in Nodes
      BY <1>1 DEF TypeOK
    <2>3. [heap[o] EXCEPT ![k] = v] \in Contents
      BY <2>2 DEF TypeOK, Contents
    <2> HIDE DEF o
    <2> QED BY <2>1, <2>2, <2>3 DEF TypeOK
  <1>2. CASE hroot[p][h] = Nil
    <2>1. PICK o \in FreeNodes :
           /\ heap' = [heap EXCEPT ![o] =
                          IF baseState(p, hname[p][h]) # Nil
                          THEN [heap[baseState(p, hname[p][h])] EXCEPT ![k] = v]
                          ELSE [EmptyLeaf EXCEPT ![k] = v]]
           /\ hroot' = [hroot EXCEPT ![p][h] = o]
      BY <1>2 DEF writableRoot
    <2>2. o \in Nodes
      BY DEF FreeNodes
    <2>3. [EmptyLeaf EXCEPT ![k] = v] \in Contents
      BY EmptyLeafType DEF Contents
    <2>4. baseState(p, hname[p][h]) # Nil =>
            [heap[baseState(p, hname[p][h])] EXCEPT ![k] = v] \in Contents
      BY DEF TypeOK, baseState, Directories, Contents
    <2> QED BY <2>1, <2>2, <2>3, <2>4 DEF TypeOK
  <1> QED BY <1>1, <1>2

----------------------------------------------------------------------------
(* Each part of the inductive invariant is preserved, action by action.    *)

\* Every step keeps the type invariant.
LEMMA TypeStep ==
    ASSUME IInv, [Next]_vars
    PROVE  TypeOK'
  <1> USE DEF Goto, Locations, txvars
  <1>0. TypeOK /\ TxInv /\ BucketInv
    BY DEF IInv
  <1>1. CASE UNCHANGED vars
    BY <1>0, <1>1 DEF TypeOK, vars
  <1>2. CASE Next
    <2>0. PICK p \in Procs : Begins(p) \/ Works(p) \/ Ends(p) \/ Closes(p)
      BY <1>2 DEF Next
    <2>a. pc[p] = "open" \/ pc[p] = "stored" => base[p] # Nil
      BY <1>0 DEF TxInv, InTx
    <2>1. CASE Begins(p)
      <3>1. CASE beginTx(p)
        BY <1>0, <3>1 DEF beginTx, TypeOK
      <3>2. CASE beginTxLoad(p)
        BY <1>0, <3>2 DEF beginTxLoad, TypeOK
      <3>3. CASE beginTxStats(p)
        BY <1>0, <3>3 DEF beginTxStats, TypeOK
      <3>4. CASE beginRWTx(p)
        BY <1>0, <3>4 DEF beginRWTx, TypeOK
      <3>5. CASE beginRWTxLock(p)
        BY <1>0, <3>5 DEF beginRWTxLock, TypeOK
      <3>6. CASE beginRWTxLoad(p)
        <4>1. writable' \in [Procs -> BOOLEAN]
          BY <1>0, <3>6, Zenon DEF beginRWTxLoad, TypeOK
        <4>2. base' = [base EXCEPT ![p] = state] \/ base' = base
          BY <3>6 DEF beginRWTxLoad
        <4>3. base' \in [Procs -> Directories \cup {Nil}]
          BY <1>0, <4>2, Zenon DEF TypeOK
        <4>4. /\ pc' \in [Procs -> Locations]
              /\ rwlock' \in Procs \cup {Nil}
          BY <1>0, <3>6, Zenon DEF beginRWTxLoad, TypeOK
        <4> QED BY <1>0, <3>6, <4>1, <4>3, <4>4 DEF beginRWTxLoad, TypeOK
      <3> QED BY <2>1, <3>1, <3>2, <3>3, <3>4, <3>5, <3>6 DEF Begins
    <2>2. CASE Works(p)
      <3>1. ASSUME NEW n \in Names, Bucket(p, n)
            PROVE  TypeOK'
        BY <1>0, <3>1, FreshHandle DEF Bucket, newBucket, TypeOK
      <3>2. ASSUME NEW n \in Names, CreateBucket(p, n)
            PROVE  TypeOK'
        <4>1. PICK o \in FreeNodes :
                /\ heap' = [heap EXCEPT ![o] = EmptyLeaf]
                /\ newBucket(p, n, freshHandle(p), o)
          BY <3>2, Zenon DEF CreateBucket
        <4>2. o \in Nodes /\ freshHandle(p) \in Handles
          BY <3>2, FreshHandle DEF FreeNodes, CreateBucket
        <4> QED BY <1>0, <3>2, <4>1, <4>2, EmptyLeafType
                DEF CreateBucket, newBucket, TypeOK
      <3>3. ASSUME NEW n \in Names, CreateBucketIfNotExists(p, n)
            PROVE  TypeOK'
        BY <3>1, <3>2, <3>3 DEF CreateBucketIfNotExists
      <3>4. ASSUME NEW n \in Names, DeleteBucket(p, n)
            PROVE  TypeOK'
        <4>1. bctx' \in [Procs -> [Names -> Handles \cup {Nil}]]
          BY <1>0, <3>4 DEF DeleteBucket, TypeOK
        <4>2. created' \in [Procs -> SUBSET Names]
          <5>1. created' = [created EXCEPT ![p] = @ \ {n}] \/ created' = created
            BY <3>4 DEF DeleteBucket
          <5>2. created \in [Procs -> SUBSET Names] /\ created[p] \ {n} \in SUBSET Names
            BY <1>0 DEF TypeOK
          <5> QED BY <5>1, <5>2
        <4>3. deleted' \in [Procs -> SUBSET Names]
          <5>1. deleted' = [deleted EXCEPT ![p] = @ \cup {n}] \/ deleted' = deleted
            BY <3>4 DEF DeleteBucket
          <5>2. deleted \in [Procs -> SUBSET Names] /\ deleted[p] \cup {n} \in SUBSET Names
            BY <1>0 DEF TypeOK
          <5> QED BY <5>1, <5>2
        <4> QED BY <1>0, <3>4, <4>1, <4>2, <4>3 DEF DeleteBucket, TypeOK
      <3>5. ASSUME NEW h \in Handles, NEW k \in Keys, NEW v \in Vals, Put(p, h, k, v)
            PROVE  TypeOK'
        <4>1. heap' \in [Nodes -> Contents] /\ hroot' \in [Procs -> [Handles -> Nodes \cup {Nil}]]
          BY <1>0, <2>a, <3>5, WritableRootType DEF Put
        <4> QED BY <1>0, <3>5, <4>1 DEF Put, TypeOK
      <3>6. ASSUME NEW h \in Handles, NEW k \in Keys, Delete(p, h, k)
            PROVE  TypeOK'
        <4>1. heap' \in [Nodes -> Contents] /\ hroot' \in [Procs -> [Handles -> Nodes \cup {Nil}]]
          BY <1>0, <2>a, <3>6, WritableRootType DEF Delete
        <4> QED BY <1>0, <3>6, <4>1 DEF Delete, TypeOK
      <3>7. CASE OnCommit(p)
        BY <1>0, <3>7 DEF OnCommit, TypeOK
      <3> QED BY <2>2, <3>1, <3>2, <3>3, <3>4, <3>5, <3>6, <3>7 DEF Works
    <2>3. CASE Ends(p)
      <3>1. CASE Commit(p)
        <4>1. newBuckets(p) \in Directories
          BY <1>0, <2>a, <3>1, NewBucketsType DEF Commit
        <4> QED BY <1>0, <3>1, <4>1 DEF Commit, TypeOK
      <3>2. CASE CommitClose(p)
        BY <1>0, <3>2, CloseTxType DEF CommitClose, TypeOK
      <3>3. CASE Rollback(p)
        BY <1>0, <3>3, CloseTxType DEF Rollback, TypeOK
      <3>4. CASE RunHandler(p)
        BY <1>0, <3>4 DEF RunHandler, TypeOK
      <3> QED BY <2>3, <3>1, <3>2, <3>3, <3>4 DEF Ends
    <2>4. CASE Closes(p)
      <3>1. CASE Close(p)
        BY <1>0, <3>1 DEF Close, TypeOK
      <3>2. CASE CloseLock(p)
        BY <1>0, <3>2 DEF CloseLock, TypeOK
      <3>3. CASE CloseMark(p)
        BY <1>0, <3>3, Zenon DEF CloseMark, TypeOK
      <3>4. CASE CloseState(p)
        BY <1>0, <3>4 DEF CloseState, TypeOK
      <3> QED BY <2>4, <3>1, <3>2, <3>3, <3>4 DEF Closes
    <2> QED BY <2>0, <2>1, <2>2, <2>3, <2>4
  <1> QED BY <1>1, <1>2

\* The calls a transaction offers touch neither the shared state of the
\* database nor the lifecycle of the transaction.
LEMMA WorksFrame ==
    ASSUME NEW p \in Procs, Works(p)
    PROVE  /\ pc[p] = "open"
           /\ UNCHANGED <<opened, state, rwlock, openTxN, pc, writable, base>>
  <1>1. ASSUME NEW n \in Names, Bucket(p, n) \/ CreateBucket(p, n) \/ DeleteBucket(p, n)
        PROVE  pc[p] = "open" /\ UNCHANGED <<opened, state, rwlock, openTxN, pc, writable, base>>
    BY <1>1 DEF Bucket, CreateBucket, DeleteBucket
  <1>2. ASSUME NEW n \in Names, CreateBucketIfNotExists(p, n)
        PROVE  Bucket(p, n) \/ CreateBucket(p, n)
    BY <1>2 DEF CreateBucketIfNotExists
  <1>3. ASSUME NEW h \in Handles, NEW k \in Keys,
               Delete(p, h, k) \/ \E v \in Vals : Put(p, h, k, v)
        PROVE  pc[p] = "open" /\ UNCHANGED <<opened, state, rwlock, openTxN, pc, writable, base>>
    BY <1>3 DEF Delete, Put
  <1>4. CASE OnCommit(p)
    BY <1>4 DEF OnCommit
  <1> QED BY <1>1, <1>2, <1>3, <1>4 DEF Works

\* rwlock, opened, state and the lifecycle of the transactions.
LEMMA LifecycleStep ==
    ASSUME IInv, [Next]_vars
    PROVE  LockInv' /\ StateInv' /\ WriterOnLatest'
  <1> USE DEF Goto, Locations, txvars, HoldsLock
  <1>0. TypeOK /\ LockInv /\ TxInv /\ BucketInv /\ StateInv /\ WriterOnLatest
    BY DEF IInv
  <1>1. CASE UNCHANGED vars
    BY <1>0, <1>1 DEF LockInv, StateInv, WriterOnLatest, vars
  <1>2. CASE Next
    <2>0. PICK p \in Procs : Begins(p) \/ Works(p) \/ Ends(p) \/ Closes(p)
      BY <1>2 DEF Next
    <2> USE DEF TypeOK, LockInv, StateInv, WriterOnLatest
    <2>1. CASE Begins(p)
      <3>1. CASE beginTx(p)
        BY <1>0, <3>1 DEF beginTx
      <3>2. CASE beginTxLoad(p)
        BY <1>0, <3>2 DEF beginTxLoad, TxInv
      <3>3. CASE beginTxStats(p)
        BY <1>0, <3>3 DEF beginTxStats, TxInv
      <3>4. CASE beginRWTx(p)
        BY <1>0, <3>4 DEF beginRWTx
      <3>5. CASE beginRWTxLock(p)
        BY ConstantsAssumption, <1>0, <3>5 DEF beginRWTxLock
      <3>6. CASE beginRWTxLoad(p)
        <4>1. LockInv'
          BY ConstantsAssumption, <1>0, <3>6 DEF beginRWTxLoad, TxInv
        <4>2. StateInv'
          BY <1>0, <3>6 DEF beginRWTxLoad, TxInv
        <4>3. WriterOnLatest'
          BY ConstantsAssumption, <1>0, <3>6 DEF beginRWTxLoad, TxInv
        <4> QED BY <4>1, <4>2, <4>3
      <3> QED BY <2>1, <3>1, <3>2, <3>3, <3>4, <3>5, <3>6 DEF Begins
    <2>2. CASE Works(p)
      BY <1>0, <2>2, WorksFrame
    <2>3. CASE Ends(p)
      <3>1. CASE Commit(p)
        <4>1. newBuckets(p) # Nil
          BY ConstantsAssumption, <1>0, <3>1, NewBucketsType DEF Commit, TxInv, InTx, Directories
        <4> QED BY <1>0, <3>1, <4>1 DEF Commit
      <3>2. CASE CommitClose(p)
        BY ConstantsAssumption, <1>0, <3>2 DEF CommitClose, closeTx, dropTx, TxInv
      <3>3. CASE Rollback(p)
        BY ConstantsAssumption, <1>0, <3>3 DEF Rollback, closeTx, dropTx
      <3>4. CASE RunHandler(p)
        BY <1>0, <3>4 DEF RunHandler
      <3> QED BY <2>3, <3>1, <3>2, <3>3, <3>4 DEF Ends
    <2>4. CASE Closes(p)
      <3>1. CASE Close(p)
        BY <1>0, <3>1 DEF Close
      <3>2. CASE CloseLock(p)
        BY ConstantsAssumption, <1>0, <3>2 DEF CloseLock
      <3>3. CASE CloseMark(p)
        <4>1. LockInv'
          BY ConstantsAssumption, <1>0, <3>3 DEF CloseMark, TxInv
        <4>2. StateInv'
          BY <1>0, <3>3 DEF CloseMark, TxInv
        <4>3. WriterOnLatest'
          BY <1>0, <3>3 DEF CloseMark, TxInv
        <4> QED BY <4>1, <4>2, <4>3
      <3>4. CASE CloseState(p)
        BY ConstantsAssumption, <1>0, <3>4 DEF CloseState
      <3> QED BY <2>4, <3>1, <3>2, <3>3, <3>4 DEF Closes
    <2> QED BY <2>0, <2>1, <2>2, <2>3, <2>4
  <1> QED BY <1>1, <1>2

----------------------------------------------------------------------------
(* Writes: the copy-on-write discipline in one statement.                  *)

\* What a Put or Delete through handle h does: the node o it changes is the
\* root this handle already owns, or a copy at a fresh address.
WriteAt(p, h, o) ==
    /\ pc[p] = "open" /\ writable[p] /\ hname[p][h] # Nil
    /\ o = hroot[p][h] \/ (hroot[p][h] = Nil /\ o \in FreeNodes)
    /\ hroot' = [hroot EXCEPT ![p][h] = o]
    /\ \A x \in Nodes \ {o} : heap'[x] = heap[x]
    /\ UNCHANGED <<opened, state, rwlock, pc, writable, base, bctx,
                   created, deleted, hname>>

\* writableRoot changes one node, which is the handle's own or a fresh copy.
LEMMA WritableRootEffect ==
    ASSUME TypeOK, NEW p \in Procs, NEW h \in Handles, NEW k \in Keys, NEW v,
           writableRoot(p, h, k, v)
    PROVE  \E o \in Nodes :
             /\ o = hroot[p][h] \/ (hroot[p][h] = Nil /\ o \in FreeNodes)
             /\ hroot' = [hroot EXCEPT ![p][h] = o]
             /\ \A x \in Nodes \ {o} : heap'[x] = heap[x]
  <1>1. CASE hroot[p][h] # Nil
    <2>1. hroot[p][h] \in Nodes
      BY <1>1 DEF TypeOK
    <2>2. hroot' = [hroot EXCEPT ![p][h] = hroot[p][h]]
      BY <1>1 DEF writableRoot, TypeOK
    <2>3. \A x \in Nodes \ {hroot[p][h]} : heap'[x] = heap[x]
      BY <1>1 DEF writableRoot, TypeOK
    <2> QED BY <2>1, <2>2, <2>3, Zenon
  <1>2. CASE hroot[p][h] = Nil
    <2>1. PICK o \in FreeNodes :
           /\ heap' = [heap EXCEPT ![o] =
                          IF baseState(p, hname[p][h]) # Nil
                          THEN [heap[baseState(p, hname[p][h])] EXCEPT ![k] = v]
                          ELSE [EmptyLeaf EXCEPT ![k] = v]]
           /\ hroot' = [hroot EXCEPT ![p][h] = o]
      BY <1>2 DEF writableRoot
    <2>2. o \in Nodes
      BY DEF FreeNodes
    <2>3. \A x \in Nodes \ {o} : heap'[x] = heap[x]
      BY <2>1, <2>2 DEF TypeOK
    <2> QED BY <1>2, <2>1, <2>2, <2>3, Zenon
  <1> QED BY <1>1, <1>2

\* Put and Delete change one node through one handle and nothing else.
LEMMA WriteEffect ==
    ASSUME TypeOK, NEW p \in Procs, NEW h \in Handles, NEW k \in Keys,
           Delete(p, h, k) \/ \E v \in Vals : Put(p, h, k, v)
    PROVE  \E o \in Nodes : WriteAt(p, h, o)
  <1>1. CASE Delete(p, h, k)
    <2>1. writableRoot(p, h, k, NoVal)
      BY <1>1, Zenon DEF Delete
    <2> QED BY <1>1, <2>1, WritableRootEffect DEF Delete, WriteAt
  <1>2. CASE \E v \in Vals : Put(p, h, k, v)
    <2>1. PICK v \in Vals : Put(p, h, k, v)
      BY <1>2
    <2>2. writableRoot(p, h, k, v)
      BY <2>1, Zenon DEF Put
    <2> QED BY <2>1, <2>2, WritableRootEffect DEF Put, WriteAt
  <1> QED BY <1>1, <1>2

\* What Bucket and CreateBucket do: a fresh handle with no root, or with a
\* fresh empty leaf.
OpenAt(p, n, h, o) ==
    /\ pc[p] = "open" /\ n \notin created[p]
    /\ h \in Handles /\ hname[p][h] = Nil
    /\ hname' = [hname EXCEPT ![p][h] = n]
    /\ hroot' = [hroot EXCEPT ![p][h] = o]
    /\ bctx' = [bctx EXCEPT ![p][n] = h]
    /\ UNCHANGED <<opened, state, rwlock, pc, writable, base>>

\* Tx.Bucket only adds a handle, and only for a bucket of the base.
LEMMA BucketEffect ==
    ASSUME NEW p \in Procs, NEW n \in Names, Bucket(p, n), TxInv, BucketInv
    PROVE  \E h \in Handles :
             /\ OpenAt(p, n, h, Nil)
             /\ base[p][n] # Nil /\ n \notin deleted[p]
             /\ UNCHANGED <<heap, created, deleted>>
  <1>1. freshHandle(p) \in Handles /\ hname[p][freshHandle(p)] = Nil
    BY FreshHandle DEF Bucket
  <1> QED BY <1>1, Zenon DEF Bucket, newBucket, OpenAt, baseState, BucketInv, BucketOK

\* CreateBucket adds a handle whose root is a fresh node.
LEMMA CreateBucketEffect ==
    ASSUME NEW p \in Procs, NEW n \in Names, CreateBucket(p, n), TypeOK, BucketInv
    PROVE  \E h \in Handles, o \in FreeNodes :
             /\ writable[p]
             /\ OpenAt(p, n, h, o)
             /\ \A x \in Nodes \ {o} : heap'[x] = heap[x]
             /\ created' = [created EXCEPT ![p] = @ \cup {n}]
             /\ deleted' = [deleted EXCEPT ![p] = @ \ {n}]
  <1>1. freshHandle(p) \in Handles /\ hname[p][freshHandle(p)] = Nil
    BY FreshHandle DEF CreateBucket
  <1>2. PICK o \in FreeNodes :
          /\ heap' = [heap EXCEPT ![o] = EmptyLeaf]
          /\ newBucket(p, n, freshHandle(p), o)
    BY Zenon DEF CreateBucket
  <1>3. \A x \in Nodes \ {o} : heap'[x] = heap[x]
    BY <1>2 DEF TypeOK, FreeNodes
  <1>4. n \notin created[p]
    BY DEF CreateBucket, BucketInv, BucketOK
  <1>5. OpenAt(p, n, freshHandle(p), o)
    BY <1>1, <1>2, <1>4, Zenon DEF CreateBucket, newBucket, OpenAt
  <1> QED BY <1>1, <1>2, <1>3, <1>5, Zenon DEF CreateBucket

----------------------------------------------------------------------------
(* Transactions and bucket directories.                                    *)

\* Transactions without a base have no buckets; readers own no node.
LEMMA TxInvStep ==
    ASSUME IInv, [Next]_vars
    PROVE  TxInv'
  <1> USE DEF Goto, Locations, txvars, InTx
  <1>0. TypeOK /\ TxInv /\ BucketInv /\ StateInv
    BY DEF IInv
  <1>1. CASE UNCHANGED vars
    BY <1>0, <1>1 DEF TxInv, vars
  <1>2. CASE Next
    <2>0. PICK p \in Procs : Begins(p) \/ Works(p) \/ Ends(p) \/ Closes(p)
      BY <1>2 DEF Next
    <2> USE DEF TypeOK, TxInv
    <2>1. CASE Begins(p)
      <3>1. CASE beginTx(p)
        BY <1>0, <3>1 DEF beginTx
      <3>2. CASE beginTxLoad(p)
        BY <1>0, <3>2 DEF beginTxLoad
      <3>3. CASE beginTxStats(p)
        BY <1>0, <3>3 DEF beginTxStats
      <3>4. CASE beginRWTx(p)
        BY <1>0, <3>4 DEF beginRWTx
      <3>5. CASE beginRWTxLock(p)
        BY <1>0, <3>5 DEF beginRWTxLock
      <3>6. CASE beginRWTxLoad(p)
        <4>1. CASE opened /\ state # Nil
          <5>1. /\ pc' = [pc EXCEPT ![p] = "open"]
                /\ base' = [base EXCEPT ![p] = state]
                /\ writable' = [writable EXCEPT ![p] = TRUE]
                /\ UNCHANGED <<bctx, created, deleted, hname, hroot>>
            BY <3>6, <4>1 DEF beginRWTxLoad
          <5> QED BY <1>0, <3>6, <4>1, <5>1 DEF beginRWTxLoad
        <4>2. CASE ~(opened /\ state # Nil)
          <5>1. /\ pc' = [pc EXCEPT ![p] = "idle"]
                /\ UNCHANGED <<base, writable, bctx, created, deleted, hname, hroot>>
            BY <3>6, <4>2 DEF beginRWTxLoad
          <5> QED BY <1>0, <3>6, <5>1 DEF beginRWTxLoad
        <4> QED BY <4>1, <4>2
      <3> QED BY <2>1, <3>1, <3>2, <3>3, <3>4, <3>5, <3>6, Zenon DEF Begins
    <2>2. CASE Works(p)
      <3>1. ASSUME NEW n \in Names, Bucket(p, n)
            PROVE  TxInv'
        <4>1. PICK h \in Handles : OpenAt(p, n, h, Nil) /\ UNCHANGED <<created, deleted>>
          BY <1>0, <3>1, BucketEffect, Zenon
        <4>2. /\ \A q \in Procs, g \in Handles : hroot'[q][g] = hroot[q][g]
              /\ \A q \in Procs, g \in Handles : hname'[q][g] = Nil => hname[q][g] = Nil
              /\ \A q \in Procs : q # p => bctx'[q] = bctx[q]
          BY <1>0, <4>1 DEF OpenAt
        <4> QED BY <1>0, <4>1, <4>2 DEF OpenAt
      <3>2. ASSUME NEW n \in Names, CreateBucket(p, n)
            PROVE  TxInv'
        <4> HIDE DEF TypeOK, TxInv
        <4>1. PICK h \in Handles, o \in FreeNodes :
                /\ writable[p] /\ OpenAt(p, n, h, o)
                /\ created' = [created EXCEPT ![p] = @ \cup {n}]
                /\ deleted' = [deleted EXCEPT ![p] = @ \ {n}]
          BY <1>0, <3>2, CreateBucketEffect
        <4> USE DEF TypeOK, TxInv
        <4>2. /\ \A q \in Procs : q # p =>
                   /\ hroot'[q] = hroot[q] /\ bctx'[q] = bctx[q] /\ hname'[q] = hname[q]
                   /\ created'[q] = created[q] /\ deleted'[q] = deleted[q]
              /\ \A g \in Handles : hname'[p][g] = Nil => hname[p][g] = Nil /\ g # h
              /\ \A g \in Handles : g # h => hroot'[p][g] = hroot[p][g]
          BY ConstantsAssumption, <1>0, <4>1 DEF OpenAt
        <4> QED BY <1>0, <4>1, <4>2 DEF OpenAt
      <3>3. ASSUME NEW n \in Names, CreateBucketIfNotExists(p, n)
            PROVE  TxInv'
        BY <3>1, <3>2, <3>3 DEF CreateBucketIfNotExists
      <3>4. ASSUME NEW n \in Names, DeleteBucket(p, n)
            PROVE  TxInv'
        BY <1>0, <3>4 DEF DeleteBucket
      <3>5. ASSUME NEW h \in Handles, NEW k \in Keys,
                   Delete(p, h, k) \/ \E v \in Vals : Put(p, h, k, v)
            PROVE  TxInv'
        <4>1. PICK o \in Nodes : WriteAt(p, h, o)
          BY <1>0, <3>5, WriteEffect
        <4>2. /\ \A q \in Procs : q # p => hroot'[q] = hroot[q]
              /\ \A g \in Handles : g # h => hroot'[p][g] = hroot[p][g]
          BY <1>0, <4>1 DEF WriteAt
        <4> QED BY <1>0, <4>1, <4>2 DEF WriteAt
      <3>6. CASE OnCommit(p)
        BY <1>0, <3>6 DEF OnCommit
      <3> QED BY <2>2, <3>1, <3>2, <3>3, <3>4, <3>5, <3>6, Zenon DEF Works
    <2>3. CASE Ends(p)
      <3>1. CASE Commit(p)
        BY <1>0, <3>1 DEF Commit
      <3>2. CASE CommitClose(p)
        BY <1>0, <3>2 DEF CommitClose, closeTx, dropTx
      <3>3. CASE Rollback(p)
        BY <1>0, <3>3 DEF Rollback, closeTx, dropTx
      <3>4. CASE RunHandler(p)
        BY <1>0, <3>4 DEF RunHandler
      <3> QED BY <2>3, <3>1, <3>2, <3>3, <3>4, Zenon DEF Ends
    <2>4. CASE Closes(p)
      <3>1. CASE Close(p)
        BY <1>0, <3>1 DEF Close
      <3>2. CASE CloseLock(p)
        BY <1>0, <3>2 DEF CloseLock
      <3>3. CASE CloseMark(p)
        BY <1>0, <3>3 DEF CloseMark
      <3>4. CASE CloseState(p)
        BY <1>0, <3>4 DEF CloseState
      <3> QED BY <2>4, <3>1, <3>2, <3>3, <3>4, Zenon DEF Closes
    <2> QED BY <2>0, <2>1, <2>2, <2>3, <2>4
  <1> QED BY <1>1, <1>2

----------------------------------------------------------------------------
\* bctx, created and deleted stay consistent.
LEMMA BucketInvStep ==
    ASSUME IInv, [Next]_vars
    PROVE  BucketInv'
  <1> USE DEF Goto, txvars
  <1>0. TypeOK /\ TxInv /\ BucketInv
    BY DEF IInv
  <1>1. CASE UNCHANGED <<base, bctx, created, deleted, hname, hroot>>
    BY <1>0, <1>1 DEF BucketInv, BucketOK
  <1>2. CASE Next
    <2>0. PICK p \in Procs : Begins(p) \/ Works(p) \/ Ends(p) \/ Closes(p)
      BY <1>2 DEF Next
    <2>1. CASE Begins(p)
      <3>1. CASE beginTx(p) \/ beginTxStats(p) \/ beginRWTx(p) \/ beginRWTxLock(p)
        BY <1>1, <3>1 DEF beginTx, beginTxStats, beginRWTx, beginRWTxLock
      <3>2. ASSUME beginTxLoad(p) \/ beginRWTxLoad(p)
            PROVE  BucketInv'
        <4>1. /\ pc[p] \notin {"open", "stored"}
              /\ UNCHANGED <<bctx, created, deleted, hname, hroot>>
              /\ \A q \in Procs \ {p} : base'[q] = base[q]
          BY <1>0, <3>2 DEF beginTxLoad, beginRWTxLoad, TypeOK
        <4>2. /\ created[p] = {} /\ deleted[p] = {}
              /\ \A n \in Names : bctx[p][n] = Nil
          BY <1>0, <4>1, Zenon DEF TxInv
        <4> SUFFICES ASSUME NEW q \in Procs, NEW m \in Names
                     PROVE  BucketOK(q, m)'
          BY DEF BucketInv
        <4>3. BucketOK(q, m)
          BY <1>0 DEF BucketInv
        <4> QED BY <4>1, <4>2, <4>3, Zenon DEF BucketOK
      <3> QED BY <2>1, <3>1, <3>2 DEF Begins
    <2>2. CASE Works(p)
      <3>1. ASSUME NEW n \in Names, Bucket(p, n)
            PROVE  BucketInv'
        <4>1. PICK h \in Handles :
                /\ OpenAt(p, n, h, Nil)
                /\ base[p][n] # Nil /\ n \notin deleted[p]
                /\ UNCHANGED <<created, deleted>>
          BY <1>0, <3>1, BucketEffect
        <4>2. /\ \A q \in Procs : q # p =>
                   hroot'[q] = hroot[q] /\ hname'[q] = hname[q] /\ bctx'[q] = bctx[q]
              /\ \A g \in Handles : g # h =>
                   hroot'[p][g] = hroot[p][g] /\ hname'[p][g] = hname[p][g]
              /\ \A m \in Names : m # n => bctx'[p][m] = bctx[p][m]
              /\ hname'[p][h] = n /\ bctx'[p][n] = h
          BY <1>0, <4>1 DEF OpenAt, TypeOK
        <4>3. \A m \in Names : bctx[p][m] # h
          <5> SUFFICES ASSUME NEW m \in Names, bctx[p][m] = h PROVE FALSE
            OBVIOUS
          <5>1. BucketOK(p, m) /\ h # Nil /\ m # Nil
            BY ConstantsAssumption, <1>0 DEF BucketInv
          <5> QED BY <4>1, <5>1 DEF OpenAt, BucketOK
        <4> SUFFICES ASSUME NEW q \in Procs, NEW m \in Names
                     PROVE  BucketOK(q, m)'
          BY DEF BucketInv
        <4>4. /\ BucketOK(q, m) /\ UNCHANGED <<base, created, deleted>>
              /\ bctx[q][m] = Nil \/ bctx[q][m] \in Handles
          BY <1>0, <4>1 DEF BucketInv, OpenAt, TypeOK
        <4>5. CASE q # p
          BY <4>2, <4>4, <4>5, Zenon DEF BucketOK
        <4>6. CASE q = p /\ m # n
          <5>1. /\ bctx'[p][m] = bctx[p][m]
                /\ bctx[p][m] # Nil => /\ hroot'[p][bctx[p][m]] = hroot[p][bctx[p][m]]
                                       /\ hname'[p][bctx[p][m]] = hname[p][bctx[p][m]]
            BY <4>2, <4>3, <4>4, <4>6, Zenon
          <5> QED BY <4>4, <4>6, <5>1, Zenon DEF BucketOK
        <4>7. CASE q = p /\ m = n
          BY <4>1, <4>2, <4>4, <4>7 DEF BucketOK, OpenAt
        <4> QED BY <4>5, <4>6, <4>7
      <3>2. ASSUME NEW n \in Names, CreateBucket(p, n)
            PROVE  BucketInv'
        <4>1. PICK h \in Handles, o \in FreeNodes :
                /\ OpenAt(p, n, h, o)
                /\ created' = [created EXCEPT ![p] = @ \cup {n}]
                /\ deleted' = [deleted EXCEPT ![p] = @ \ {n}]
          BY <1>0, <3>2, CreateBucketEffect, Zenon
        <4>2. o # Nil
          BY ConstantsAssumption DEF FreeNodes
        <4>3. /\ \A q \in Procs : q # p =>
                   /\ hroot'[q] = hroot[q] /\ hname'[q] = hname[q] /\ bctx'[q] = bctx[q]
                   /\ created'[q] = created[q] /\ deleted'[q] = deleted[q]
              /\ \A g \in Handles : g # h =>
                   hroot'[p][g] = hroot[p][g] /\ hname'[p][g] = hname[p][g]
              /\ \A m \in Names : m # n => bctx'[p][m] = bctx[p][m]
              /\ hname'[p][h] = n /\ hroot'[p][h] = o /\ bctx'[p][n] = h
              /\ created'[p] = created[p] \cup {n} /\ deleted'[p] = deleted[p] \ {n}
          BY <1>0, <4>1 DEF OpenAt, TypeOK
        <4>4. \A m \in Names : bctx[p][m] # h
          <5> SUFFICES ASSUME NEW m \in Names, bctx[p][m] = h PROVE FALSE
            OBVIOUS
          <5>1. BucketOK(p, m) /\ h # Nil /\ m # Nil
            BY ConstantsAssumption, <1>0 DEF BucketInv
          <5> QED BY <4>1, <5>1 DEF OpenAt, BucketOK
        <4> SUFFICES ASSUME NEW q \in Procs, NEW m \in Names
                     PROVE  BucketOK(q, m)'
          BY DEF BucketInv
        <4>5. /\ BucketOK(q, m) /\ UNCHANGED base /\ h # Nil
              /\ bctx[q][m] = Nil \/ bctx[q][m] \in Handles
          BY ConstantsAssumption, <1>0, <4>1, SMTT(30) DEF BucketInv, OpenAt, TypeOK
        <4>6. CASE q # p
          BY <4>3, <4>5, <4>6 DEF BucketOK
        <4>7. CASE q = p /\ m # n
          BY <4>3, <4>4, <4>5, <4>7, SMTT(30) DEF BucketOK
        <4>8. CASE q = p /\ m = n
          BY <4>2, <4>3, <4>5, <4>8, Zenon DEF BucketOK
        <4> QED BY <4>6, <4>7, <4>8
      <3>3. ASSUME NEW n \in Names, CreateBucketIfNotExists(p, n)
            PROVE  BucketInv'
        BY <3>1, <3>2, <3>3 DEF CreateBucketIfNotExists
      <3>4. ASSUME NEW n \in Names, DeleteBucket(p, n)
            PROVE  BucketInv'
        <4>1. /\ \A q \in Procs : q # p =>
                   created'[q] = created[q] /\ deleted'[q] = deleted[q] /\ bctx'[q] = bctx[q]
              /\ \A m \in Names : m # n => bctx'[p][m] = bctx[p][m]
              /\ bctx'[p][n] = Nil
              /\ UNCHANGED <<base, hname, hroot>>
          BY <1>0, <3>4 DEF DeleteBucket, TypeOK
        <4>2. CASE n \in created[p]
          <5>1. created'[p] = created[p] \ {n} /\ deleted'[p] = deleted[p]
            BY <1>0, <3>4, <4>2 DEF DeleteBucket, TypeOK
          <5> SUFFICES ASSUME NEW q \in Procs, NEW m \in Names
                       PROVE  BucketOK(q, m)'
            BY DEF BucketInv
          <5>2. BucketOK(q, m)
            BY <1>0 DEF BucketInv
          <5>3. CASE q # p
            BY <4>1, <5>2, <5>3, Zenon DEF BucketOK
          <5>4. CASE q = p /\ m # n
            BY <4>1, <5>1, <5>2, <5>4 DEF BucketOK
          <5>5. CASE q = p /\ m = n
            BY <4>1, <4>2, <5>1, <5>2, <5>5 DEF BucketOK
          <5> QED BY <5>3, <5>4, <5>5
        <4>3. CASE n \notin created[p]
          <5>1. /\ created'[p] = created[p] /\ deleted'[p] = deleted[p] \cup {n}
                /\ base[p][n] # Nil
            BY <1>0, <3>4, <4>3 DEF DeleteBucket, bucketExistsCommitted, TypeOK
          <5> SUFFICES ASSUME NEW q \in Procs, NEW m \in Names
                       PROVE  BucketOK(q, m)'
            BY DEF BucketInv
          <5>2. BucketOK(q, m)
            BY <1>0 DEF BucketInv
          <5>3. CASE q # p
            BY <4>1, <5>2, <5>3, Zenon DEF BucketOK
          <5>4. CASE q = p /\ m # n
            BY <4>1, <5>1, <5>2, <5>4, Zenon DEF BucketOK
          <5>5. CASE q = p /\ m = n
            BY <4>1, <4>3, <5>1, <5>5, Zenon DEF BucketOK
          <5> QED BY <5>3, <5>4, <5>5
        <4> QED BY <4>2, <4>3
      <3>5. ASSUME NEW h \in Handles, NEW k \in Keys,
                   Delete(p, h, k) \/ \E v \in Vals : Put(p, h, k, v)
            PROVE  BucketInv'
        <4>1. PICK o \in Nodes : WriteAt(p, h, o)
          BY <1>0, <3>5, WriteEffect
        <4>2. /\ \A q \in Procs : q # p => hroot'[q] = hroot[q]
              /\ \A g \in Handles : g # h => hroot'[p][g] = hroot[p][g]
              /\ hroot'[p][h] = o /\ o # Nil
              /\ UNCHANGED <<base, bctx, created, deleted, hname>>
          BY ConstantsAssumption, <1>0, <4>1 DEF WriteAt, TypeOK
        <4> SUFFICES ASSUME NEW q \in Procs, NEW m \in Names
                     PROVE  BucketOK(q, m)'
          BY DEF BucketInv
        <4>3. BucketOK(q, m) /\ (bctx[q][m] = Nil \/ bctx[q][m] \in Handles)
          BY <1>0 DEF BucketInv, TypeOK
        <4>4. CASE q # p
          BY <4>2, <4>3, <4>4, Zenon DEF BucketOK
        <4>5. CASE q = p /\ bctx[p][m] = h
          BY <4>2, <4>3, <4>5, Zenon DEF BucketOK
        <4>6. CASE q = p /\ bctx[p][m] # h
          BY <4>2, <4>3, <4>6, Zenon DEF BucketOK
        <4> QED BY <4>4, <4>5, <4>6
      <3>6. CASE OnCommit(p)
        BY <1>1, <3>6, Zenon DEF OnCommit
      <3> QED BY <2>2, <3>1, <3>2, <3>3, <3>4, <3>5, <3>6 DEF Works
    <2>3. CASE Ends(p)
      <3>1. CASE Commit(p) \/ RunHandler(p)
        BY <1>1, <3>1 DEF Commit, RunHandler
      <3>2. CASE closeTx(p)
        <4> SUFFICES ASSUME NEW q \in Procs, NEW m \in Names PROVE BucketOK(q, m)'
          BY DEF BucketInv
        <4>1. CASE q # p
          <5>1. /\ base'[q] = base[q] /\ bctx'[q] = bctx[q] /\ created'[q] = created[q]
                /\ deleted'[q] = deleted[q] /\ hname'[q] = hname[q] /\ hroot'[q] = hroot[q]
            BY <1>0, <3>2, <4>1 DEF closeTx, dropTx, TypeOK
          <5>2. BucketOK(q, m)
            BY <1>0, Zenon DEF BucketInv
          <5> QED BY <5>1, <5>2, Zenon DEF BucketOK
        <4>2. CASE q = p
          <5>1. created'[p] = {} /\ deleted'[p] = {} /\ bctx'[p][m] = Nil
            BY <1>0, <3>2 DEF closeTx, dropTx, TypeOK
          <5> QED BY <4>2, <5>1, Zenon DEF BucketOK
        <4> QED BY <4>1, <4>2
      <3> QED BY <2>3, <3>1, <3>2 DEF Ends, CommitClose, Rollback
    <2>4. CASE Closes(p)
      BY <1>1, <2>4 DEF Closes, Close, CloseLock, CloseMark, CloseState
    <2> QED BY <2>0, <2>1, <2>2, <2>3, <2>4
  <1> QED BY <1>1, <1>2 DEF vars

----------------------------------------------------------------------------
(* Ownership.                                                              *)

\* A fresh node is reachable from nowhere.
LEMMA FreshNode ==
    ASSUME NEW o \in FreeNodes
    PROVE  /\ o \in Nodes /\ o # Nil
           /\ o \notin DirNodes(state)
           /\ \A q \in Procs : o \notin DirNodes(base[q])
           /\ \A q \in Procs, h \in Handles : hroot[q][h] # o
  <1>1. o \in Nodes /\ o \notin LiveNodes /\ o # Nil
    BY ConstantsAssumption DEF FreeNodes
  <1>2. \A q \in Procs : o \notin TxNodes(q)
    BY <1>1 DEF LiveNodes
  <1> QED BY <1>1, <1>2 DEF LiveNodes, TxNodes

\* A node a writer can still change is reachable only through its handle.
LEMMA OwnInvStep ==
    ASSUME IInv, [Next]_vars
    PROVE  OwnInv'
  <1> USE DEF Goto, txvars
  <1>0. TypeOK /\ TxInv /\ OwnInv /\ LockInv
    BY DEF IInv
  <1>a. \A q \in Procs, g \in Handles : hroot[q][g] # Nil => writable[q]
    BY <1>0 DEF TxInv
  <1>1. ASSUME UNCHANGED <<state, base, hroot>>,
               \A q \in Procs : pc'[q] = "open" /\ writable[q] => pc[q] = "open"
        PROVE  OwnInv'
    BY <1>0, <1>a, <1>1 DEF OwnInv, OwnOK
  <1>2. CASE UNCHANGED vars
    BY <1>1, <1>2, Zenon DEF vars
  <1>3. CASE Next
    <2>0. PICK p \in Procs : Begins(p) \/ Works(p) \/ Ends(p) \/ Closes(p)
      BY <1>3 DEF Next
    <2> SUFFICES ASSUME NEW q \in Procs, NEW g \in Handles
                 PROVE  OwnOK(q, g)'
      BY DEF OwnInv
    <2>b. OwnOK(q, g)
      BY <1>0 DEF OwnInv
    <2>1. CASE Begins(p)
      <3>1. CASE beginTx(p) \/ beginTxStats(p) \/ beginRWTx(p) \/ beginRWTxLock(p)
        <4>1. UNCHANGED <<state, base, hroot>> /\ pc[p] \notin {"open", "stored"}
          BY <3>1 DEF beginTx, beginTxStats, beginRWTx, beginRWTxLock
        <4>2. ~writable[p]
          BY <1>0, <4>1, Zenon DEF TxInv
        <4>3. \A r \in Procs : r # p => pc'[r] = pc[r]
          BY <1>0, <3>1
             DEF beginTx, beginTxStats, beginRWTx, beginRWTxLock, TypeOK
        <4>4. OwnInv'
          BY <1>1, <4>1, <4>2, <4>3
        <4> QED BY <4>4 DEF OwnInv
      <3>2. ASSUME beginTxLoad(p) \/ beginRWTxLoad(p)
            PROVE  OwnOK(q, g)'
        <4>1. /\ UNCHANGED <<state, hroot>>
              /\ pc[p] \notin {"open", "stored"}
              /\ pc'[q] = "open" => q = p \/ pc[q] = "open"
              /\ \A r \in Procs : base'[r] = base[r] \/ base'[r] = state
          BY <1>0, <3>2 DEF beginTxLoad, beginRWTxLoad, TypeOK
        <4>2. hroot[p][g] = Nil
          BY <1>0, <4>1, Zenon DEF TxInv
        <4> QED BY <2>b, <4>1, <4>2, Zenon DEF OwnOK
      <3> QED BY <2>1, <3>1, <3>2 DEF Begins
    <2>2. CASE Works(p)
      <3>1. ASSUME NEW n \in Names, Bucket(p, n)
            PROVE  OwnOK(q, g)'
        <4>1. PICK h \in Handles : OpenAt(p, n, h, Nil)
          BY <1>0, <3>1, BucketEffect DEF IInv
        <4>2. hroot[p][h] = Nil
          BY <1>0, <4>1 DEF OpenAt, TxInv
        <4>3. hroot' = hroot
          BY <1>0, <4>1, <4>2 DEF OpenAt, TypeOK
        <4> QED BY <2>b, <4>1, <4>3 DEF OwnOK, OpenAt
      <3>2. ASSUME NEW n \in Names, CreateBucket(p, n)
            PROVE  OwnOK(q, g)'
        <4>1. PICK h \in Handles, o \in FreeNodes : OpenAt(p, n, h, o)
          BY <1>0, <3>2, CreateBucketEffect DEF IInv
        <4>2. /\ hroot'[p][h] = o
              /\ \A r \in Procs, f \in Handles :
                   r # p \/ f # h => hroot'[r][f] = hroot[r][f]
          BY <1>0, <4>1 DEF OpenAt, TypeOK
        <4> QED BY <2>b, <4>1, <4>2, FreshNode DEF OwnOK, OpenAt
      <3>3. ASSUME NEW n \in Names, CreateBucketIfNotExists(p, n)
            PROVE  OwnOK(q, g)'
        BY <3>1, <3>2, <3>3, Zenon DEF CreateBucketIfNotExists
      <3>4. ASSUME NEW n \in Names, DeleteBucket(p, n)
            PROVE  OwnOK(q, g)'
        BY <2>b, <3>4 DEF DeleteBucket, OwnOK
      <3>5. ASSUME NEW h \in Handles, NEW k \in Keys,
                   Delete(p, h, k) \/ \E v \in Vals : Put(p, h, k, v)
            PROVE  OwnOK(q, g)'
        <4>1. PICK o \in Nodes : WriteAt(p, h, o)
          BY <1>0, <3>5, WriteEffect
        <4>2. /\ hroot'[p][h] = o
              /\ \A r \in Procs, f \in Handles :
                   r # p \/ f # h => hroot'[r][f] = hroot[r][f]
          BY <1>0, <4>1 DEF WriteAt, TypeOK
        <4>3. CASE o = hroot[p][h]
          BY <2>b, <4>1, <4>2, <4>3 DEF OwnOK, WriteAt
        <4>4. CASE o \in FreeNodes
          BY <2>b, <4>1, <4>2, <4>4, FreshNode, SMTT(30) DEF OwnOK, WriteAt
        <4> QED BY <4>1, <4>3, <4>4 DEF WriteAt
      <3>6. CASE OnCommit(p)
        BY <2>b, <3>6, Zenon DEF OnCommit, OwnOK
      <3> QED BY <2>2, <3>1, <3>2, <3>3, <3>4, <3>5, <3>6 DEF Works
    <2>3. CASE Ends(p)
      <3>1. CASE Commit(p)
        <4>1. /\ pc'[q] = "open" => q # p /\ pc[q] = "open"
              /\ rwlock = p
              /\ UNCHANGED hroot
          BY <1>0, <3>1 DEF Commit, LockInv, HoldsLock, TypeOK
        <4>2. pc[q] = "open" /\ writable[q] => q = p
          BY <1>0, <4>1 DEF LockInv, HoldsLock
        <4> QED BY <1>a, <4>1, <4>2 DEF OwnOK
      <3>2. ASSUME closeTx(p), UNCHANGED state,
                   pc' = [pc EXCEPT ![p] = "idle"]
            PROVE  OwnOK(q, g)'
        <4>1. /\ \A f \in Handles : q # p => hroot'[q][f] = hroot[q][f]
              /\ \A r \in Procs : base'[r] = base[r] \/ base'[r] = Nil
              /\ pc'[q] = "open" => q # p /\ pc[q] = "open"
          BY <1>0, <3>2, Zenon DEF closeTx, dropTx, TypeOK
        <4> QED BY <2>b, <3>2, <4>1, SMTT(30) DEF OwnOK, DirNodes
      <3>3. CASE RunHandler(p)
        BY <2>b, <3>3, Zenon DEF RunHandler, OwnOK
      <3> QED BY <2>3, <3>1, <3>2, <3>3 DEF Ends, CommitClose, Rollback
    <2>4. CASE Closes(p)
      <3>1. /\ UNCHANGED <<base, hroot>>
            /\ state' = state \/ state' = Nil
            /\ pc'[q] = "open" => pc[q] = "open"
        BY <1>0, <2>4, Zenon DEF Closes, Close, CloseLock, CloseMark, CloseState, TypeOK
      <3> QED BY <2>b, <3>1, Zenon DEF OwnOK, DirNodes
    <2> QED BY <2>0, <2>1, <2>2, <2>3, <2>4
  <1> QED BY <1>2, <1>3

----------------------------------------------------------------------------
(* The theorems.                                                           *)

\* The inductive invariant holds when Open returns.
LEMMA InitIInv == Init => IInv
  <1> SUFFICES ASSUME Init PROVE IInv
    OBVIOUS
  <1>1. TypeOK
    BY EmptyLeafType, SMTT(30) DEF Init, TypeOK, Locations, Directories
  <1>2. LockInv /\ TxInv
    BY ConstantsAssumption DEF Init, LockInv, HoldsLock, TxInv, InTx
  <1>3. BucketInv /\ OwnInv
    BY DEF Init, BucketInv, BucketOK, OwnInv, OwnOK
  <1>4. StateInv /\ WriterOnLatest
    BY ConstantsAssumption DEF Init, StateInv, WriterOnLatest
  <1> QED BY <1>1, <1>2, <1>3, <1>4 DEF IInv

\* Every step of every goroutine keeps the inductive invariant.
LEMMA NextIInv == IInv /\ [Next]_vars => IInv'
  BY TypeStep, LifecycleStep, TxInvStep, BucketInvStep, OwnInvStep DEF IInv

\* Locking, directory bookkeeping and node ownership hold in every reachable
\* state of db.go and tx.go.
THEOREM Invariance == Spec => []IInv
  BY InitIInv, NextIInv, PTL DEF Spec

\* Every field keeps its type.
THEOREM TypeCorrect == Spec => []TypeOK
  <1>1. IInv => TypeOK
    BY DEF IInv
  <1> QED BY Invariance, <1>1, PTL

\* A write transaction always works on the latest published state, so no
\* commit overwrites another (beginRWTx, Commit).
THEOREM NoLostUpdate == Spec => []WriterOnLatest
  <1>1. IInv => WriterOnLatest
    BY DEF IInv
  <1> QED BY Invariance, <1>1, PTL

\* Tx.Bucket, Tx.Cursor, Tx.ForEach, Tx.Size and Commit agree on the buckets of a
\* transaction.
THEOREM DirectoriesAgree == Spec => []DirectoryAgrees
  <1>1. IInv => DirectoryAgrees
    <2> HAVE IInv
    <2> SUFFICES ASSUME NEW p \in Procs, pc[p] = "open", NEW n \in Names
                 PROVE  /\ n \in CursorNames(p) <=> BucketVisible(p, n)
                        /\ n \in ForEachNames(p) <=> BucketVisible(p, n)
                        /\ n \in SizeNames(p) <=> BucketVisible(p, n)
                        /\ newBuckets(p)[n] # Nil <=> BucketVisible(p, n)
      <3>1. \A p \in Procs : pc[p] = "open" =>
              /\ CursorNames(p) \subseteq Names /\ ForEachNames(p) \subseteq Names
              /\ SizeNames(p) \subseteq Names
        BY Zenon DEF IInv, TypeOK, CursorNames, ForEachNames, SizeNames
      <3> QED BY <3>1, Zenon DEF DirectoryAgrees
    <2>1. BucketOK(p, n) /\ TypeOK
      BY DEF IInv, BucketInv
    <2>2. n \in CursorNames(p) <=> BucketVisible(p, n)
      BY <2>1, Zenon DEF BucketOK, CursorNames, BucketVisible, baseState
    <2>3. n \in ForEachNames(p) <=> BucketVisible(p, n)
      BY <2>1 DEF BucketOK, ForEachNames, BucketVisible, baseState
    <2>4. newBuckets(p)[n] # Nil <=> BucketVisible(p, n)
      BY <2>1, Zenon DEF BucketOK, newBuckets, publishRoot, rootView, BucketVisible, baseState
    <2>5. n \in SizeNames(p) <=> BucketVisible(p, n)
      BY <2>1 DEF SizeNames, BucketVisible, baseState
    <2> QED BY <2>2, <2>3, <2>4, <2>5
  <1> QED BY Invariance, <1>1, PTL

\* The nodes of a pinned base are never those a step changes.
LEMMA StepKeepsSnapshots ==
    ASSUME IInv, [Next]_vars,
           NEW q \in Procs, InTx(q), InTx(q)'
    PROVE  /\ base'[q] = base[q]
           /\ \A n \in Names : base[q][n] # Nil =>
                heap'[base[q][n]] = heap[base[q][n]]
  <1> USE DEF Goto, txvars, InTx
  <1>0. TypeOK /\ TxInv /\ OwnInv
    BY DEF IInv
  <1>a. base[q] \in Directories
    BY <1>0 DEF TxInv, TypeOK
  <1>b. \A n \in Names : base[q][n] # Nil =>
          base[q][n] \in Nodes /\ base[q][n] \in DirNodes(base[q])
    BY <1>0, <1>a, Zenon DEF DirNodes, Directories, TxInv
  <1>1. CASE UNCHANGED <<base, heap>>
    BY <1>1, Zenon
  <1>2. CASE Next
    <2>0. PICK p \in Procs : Begins(p) \/ Works(p) \/ Ends(p) \/ Closes(p)
      BY <1>2, Zenon DEF Next
    <2>1. CASE Begins(p)
      <3>1. CASE q = p
        BY <1>0, <2>1, <3>1, Zenon
           DEF Begins, beginTx, beginTxLoad, beginTxStats, beginRWTx,
               beginRWTxLock, beginRWTxLoad, TypeOK
      <3>2. CASE q # p
        BY <1>0, <2>1, <3>2, Zenon
           DEF Begins, beginTx, beginTxLoad, beginTxStats, beginRWTx,
               beginRWTxLock, beginRWTxLoad, TypeOK
      <3> QED BY <3>1, <3>2, Zenon
    <2>2. CASE Works(p)
      <3> DEFINE Kept(o) == UNCHANGED base /\ (\A x \in Nodes \ {o} : heap'[x] = heap[x])
                            /\ o \notin DirNodes(base[q])
      <3>1. ASSUME NEW n \in Names, Bucket(p, n) \/ DeleteBucket(p, n)
            PROVE  UNCHANGED <<base, heap>>
        BY <3>1 DEF Bucket, DeleteBucket
      <3>2. ASSUME NEW n \in Names, CreateBucket(p, n)
            PROVE  \E o : Kept(o)
        <4>1. PICK h \in Handles, o \in FreeNodes :
                OpenAt(p, n, h, o) /\ \A x \in Nodes \ {o} : heap'[x] = heap[x]
          BY ConstantsAssumption, <3>2, CreateBucketEffect, SMTT(30) DEF IInv
        <4> QED BY <4>1, FreshNode DEF OpenAt
      <3>3. ASSUME NEW n \in Names, CreateBucketIfNotExists(p, n)
            PROVE  Bucket(p, n) \/ CreateBucket(p, n)
        BY <3>3 DEF CreateBucketIfNotExists
      <3>4. ASSUME NEW h \in Handles, NEW k \in Keys,
                   Delete(p, h, k) \/ \E v \in Vals : Put(p, h, k, v)
            PROVE  \E o : Kept(o)
        <4>1. PICK o \in Nodes : WriteAt(p, h, o)
          BY <1>0, <3>4, WriteEffect, Zenon
        <4>2. CASE o = hroot[p][h]
          <5>1. OwnOK(p, h) /\ o # Nil
            BY ConstantsAssumption, <1>0 DEF OwnInv
          <5> QED BY <4>1, <4>2, <5>1 DEF OwnOK, WriteAt
        <4>3. CASE o \in FreeNodes
          BY <4>1, <4>3, FreshNode DEF WriteAt
        <4> QED BY <4>1, <4>2, <4>3 DEF WriteAt
      <3>5. CASE OnCommit(p)
        BY <1>1, <3>5 DEF OnCommit
      <3>6. ASSUME NEW o, Kept(o)
            PROVE  /\ base'[q] = base[q]
                   /\ \A n \in Names : base[q][n] # Nil =>
                        heap'[base[q][n]] = heap[base[q][n]]
        BY <1>b, <3>6
      <3> QED BY <1>1, <2>2, <3>1, <3>2, <3>3, <3>4, <3>5, <3>6, Zenon DEF Works
    <2>3. CASE Ends(p)
      <3>1. CASE Commit(p) \/ RunHandler(p)
        BY <1>1, <3>1, Zenon DEF Commit, RunHandler
      <3>2. CASE CommitClose(p) \/ Rollback(p)
        <4>1. q # p
          BY <1>0, <3>2 DEF CommitClose, Rollback, TypeOK
        <4>2. closeTx(p)
          BY <3>2, Zenon DEF CommitClose, Rollback
        <4>3. \A n \in Names : base[q][n] # Nil => base[q][n] \in LiveWithout(p)
          BY <1>b, <4>1 DEF LiveWithout, TxNodes
        <4> QED BY <1>0, <1>b, <4>1, <4>2, <4>3, Zenon DEF closeTx, dropTx, TypeOK
      <3> QED BY <2>3, <3>1, <3>2, Zenon DEF Ends
    <2>4. CASE Closes(p)
      BY <1>1, <2>4, Zenon DEF Closes, Close, CloseLock, CloseMark, CloseState
    <2> QED BY <2>0, <2>1, <2>2, <2>3, <2>4, Zenon
  <1> QED BY <1>1, <1>2 DEF vars

\* Snapshot isolation: no step changes what a pinned base holds, for any
\* number of concurrent readers and any sequence of commits.
THEOREM SnapshotIsolation == Spec => SnapshotStable
  <1>1. IInv /\ [Next]_vars =>
          [\A p \in Procs : InTx(p) /\ InTx(p)' =>
             /\ base'[p] = base[p]
             /\ \A n \in Names : base[p][n] # Nil =>
                  heap'[base[p][n]] = heap[base[p][n]]]_vars
    BY StepKeepsSnapshots, Zenon
  <1> QED BY Invariance, <1>1, PTL DEF Spec, SnapshotStable

----------------------------------------------------------------------------
(* How transactions begin and end.                                         *)

\* The read transactions that Begin has returned and that have not ended.
OpenReaders == {p \in Procs : pc[p] = "open" /\ ~writable[p]}

\* What one step does to that set: beginTxStats adds the goroutine, the end of
\* a read transaction takes it out, and the counter follows.
LEMMA ReadersStep ==
    ASSUME IInv, [Next]_vars
    PROVE  \/ OpenReaders' = OpenReaders /\ openTxN' = openTxN
           \/ \E p \in Procs : /\ p \notin OpenReaders
                               /\ OpenReaders' = OpenReaders \cup {p}
                               /\ openTxN' = openTxN + 1
           \/ \E p \in Procs : /\ p \in OpenReaders
                               /\ OpenReaders' = OpenReaders \ {p}
                               /\ openTxN' = openTxN - 1
  <1> USE DEF Goto, txvars, OpenReaders
  <1>0. TypeOK /\ TxInv
    BY DEF IInv
  <1>1. CASE UNCHANGED vars
    BY <1>1, Zenon DEF vars
  <1>2. CASE Next
    <2>0. PICK p \in Procs : Begins(p) \/ Works(p) \/ Ends(p) \/ Closes(p)
      BY <1>2 DEF Next
    <2>1. CASE beginTxStats(p)
      <3>1. /\ pc[p] = "pinned" /\ pc' = [pc EXCEPT ![p] = "open"]
            /\ writable' = writable /\ openTxN' = openTxN + 1
        BY <2>1 DEF beginTxStats
      <3>2. ~writable[p]
        BY <1>0, <3>1, Zenon DEF TxInv
      <3>3. p \notin OpenReaders /\ OpenReaders' = OpenReaders \cup {p}
        BY <1>0, <3>1, <3>2 DEF TypeOK
      <3> QED BY <3>1, <3>3
    <2>2. CASE Begins(p) /\ ~beginTxStats(p)
      <3>1. CASE beginTx(p) \/ beginTxLoad(p)
        BY <1>0, <3>1 DEF beginTx, beginTxLoad, TypeOK
      <3>2. CASE beginRWTx(p) \/ beginRWTxLock(p)
        BY <1>0, <3>2 DEF beginRWTx, beginRWTxLock, TypeOK
      <3>3. CASE beginRWTxLoad(p)
        <4>1. /\ pc[p] = "locked" /\ openTxN' = openTxN
              /\ \/ pc' = [pc EXCEPT ![p] = "idle"] /\ writable' = writable
                 \/ /\ pc' = [pc EXCEPT ![p] = "open"]
                    /\ writable' = [writable EXCEPT ![p] = TRUE]
          BY <3>3, Zenon DEF beginRWTxLoad
        <4> QED BY <1>0, <4>1 DEF TypeOK
      <3> QED BY <2>2, <3>1, <3>2, <3>3, Zenon DEF Begins
    <2>3. CASE Works(p)
      BY <2>3, WorksFrame, Zenon
    <2>4. CASE Commit(p) \/ RunHandler(p)
      BY <1>0, <2>4, SMTT(30) DEF Commit, RunHandler, TypeOK, TxInv
    <2>5. CASE CommitClose(p) \/ Rollback(p)
      <3>1. pc' = [pc EXCEPT ![p] = "idle"] /\ pc[p] \in {"open", "stored"} /\ closeTx(p)
        BY <2>5 DEF CommitClose, Rollback
      <3>2. writable' = [writable EXCEPT ![p] = FALSE]
        BY <3>1 DEF closeTx, dropTx
      <3>3. openTxN' = IF writable[p] THEN openTxN ELSE openTxN - 1
        BY <3>1 DEF closeTx
      <3>4. CASE writable[p]
        BY <1>0, <3>1, <3>2, <3>3, <3>4 DEF TypeOK
      <3>5. CASE ~writable[p]
        BY <1>0, <3>1, <3>2, <3>3, <3>5, Zenon DEF TypeOK, TxInv
      <3> QED BY <3>4, <3>5, Zenon
    <2>6. CASE Closes(p)
      BY <1>0, <2>6, SMTT(30) DEF Closes, Close, CloseLock, CloseMark, CloseState, TypeOK, TxInv
    <2> QED BY <2>0, <2>1, <2>2, <2>3, <2>4, <2>5, <2>6, Zenon DEF Ends
  <1> QED BY <1>1, <1>2, Zenon

\* On a closed database no transaction begins: beginTx loads the state after
\* opened and looks at both, beginRWTx does so under the lock.
LEMMA ClosedStep ==
    ASSUME IInv, [Next]_vars, state = Nil, NEW q \in Procs, InTx(q)'
    PROVE  InTx(q)
  <1> USE DEF Goto, txvars, InTx
  <1>0. TypeOK
    BY DEF IInv
  <1>1. CASE UNCHANGED vars
    BY <1>1 DEF vars
  <1>2. CASE Next
    <2>0. PICK p \in Procs : Begins(p) \/ Works(p) \/ Ends(p) \/ Closes(p)
      BY <1>2 DEF Next
    <2>1. CASE Begins(p)
      BY <1>0, <2>1, Zenon
         DEF Begins, beginTx, beginTxLoad, beginTxStats, beginRWTx, beginRWTxLock,
             beginRWTxLoad, TypeOK
    <2>2. CASE Works(p)
      BY <2>2, WorksFrame
    <2>3. CASE Ends(p)
      BY <1>0, <2>3 DEF Ends, Commit, CommitClose, Rollback, RunHandler, TypeOK
    <2>4. CASE Closes(p)
      BY <1>0, <2>4 DEF Closes, Close, CloseLock, CloseMark, CloseState, TypeOK
    <2> QED BY <2>0, <2>1, <2>2, <2>3, <2>4
  <1> QED BY <1>1, <1>2

\* Once Close has cleared the state, no goroutine gets a transaction any more,
\* also if its beginTx had seen opened before.
THEOREM ClosedForGood == Spec => NoBeginAfterClose
  <1>1. IInv /\ [Next]_vars =>
          [state = Nil => \A p \in Procs : InTx(p)' => InTx(p)]_vars
    BY ClosedStep
  <1> QED BY Invariance, <1>1, PTL DEF Spec, NoBeginAfterClose
============================================================================
