----------------------- MODULE VmboltDBRefinement ------------------------
(***************************************************************************)
(* VmboltDB implements SnapshotStore for every value of the constants: each*)
(* step of db.go and tx.go is one step of the abstract store, or none.     *)
(***************************************************************************)
EXTENDS VmboltDBStore, VmboltDBProofs, FiniteSetTheorems

----------------------------------------------------------------------------
(* What a step does to the abstract variables of module VmboltDBStore.     *)

(* Frames.                                                                 *)

\* The abstract transaction of q is what it was.
Kept(q) ==
    /\ modeBar'[q] = modeBar[q] /\ snapBar'[q] = snapBar[q]
    /\ viewBar'[q] = viewBar[q] /\ freshBar'[q] = freshBar[q]

\* Nothing that q's transaction consists of changes.
SameTx(q) ==
    /\ modeBar'[q] = modeBar[q]
    /\ base'[q] = base[q] /\ bctx'[q] = bctx[q]
    /\ created'[q] = created[q] /\ deleted'[q] = deleted[q]
    /\ hname'[q] = hname[q] /\ hroot'[q] = hroot[q]
    /\ \A o \in TxNodes(q) : heap'[o] = heap[o]

\* A transaction that is there has a base.
LEMMA ModeBase ==
    ASSUME TypeOK, TxInv, NEW q \in Procs, modeBar[q] # "none"
    PROVE  base[q] \in Directories /\ pc[q] \in {"pinned", "open"}
  <1>1. pc[q] \in {"pinned", "open"}
    BY DEF modeBar
  <1> QED BY <1>1 DEF TxInv, InTx, TypeOK

\* The root through which a bucket is read: the handle's own, or the base's.
LEMMA VisibleIs ==
    ASSUME BucketInv, NEW q \in Procs, NEW n \in Names
    PROVE  VisibleRoot(q, n) =
             IF bctx[q][n] # Nil /\ hroot[q][bctx[q][n]] # Nil THEN hroot[q][bctx[q][n]]
             ELSE IF n \in deleted[q] THEN Nil ELSE base[q][n]
  BY DEF BucketInv, BucketOK, VisibleRoot, rootView, baseState

\* That root belongs to the transaction.
LEMMA VisibleNodes ==
    ASSUME TypeOK, TxInv, BucketInv, NEW q \in Procs, modeBar[q] # "none", NEW n \in Names
    PROVE  /\ base[q][n] # Nil => base[q][n] \in TxNodes(q) \cap Nodes
           /\ VisibleRoot(q, n) # Nil => VisibleRoot(q, n) \in TxNodes(q) \cap Nodes
  <1>1. base[q] \in Directories /\ base[q] # Nil
    BY ModeBase, ConstantsAssumption DEF Directories
  <1>2. base[q][n] # Nil => base[q][n] \in DirNodes(base[q]) \cap Nodes
    BY <1>1 DEF DirNodes, Directories
  <1>3. ASSUME bctx[q][n] # Nil, hroot[q][bctx[q][n]] # Nil
        PROVE  hroot[q][bctx[q][n]] \in TxNodes(q) \cap Nodes
    BY <1>3 DEF TypeOK, TxNodes
  <1> QED BY <1>2, <1>3, VisibleIs DEF TxNodes

\* A transaction none of whose parts change is kept.
LEMMA KeptIf ==
    ASSUME TypeOK, TxInv, BucketInv, NEW q \in Procs, SameTx(q)
    PROVE  Kept(q)
  <1>1. CASE modeBar[q] = "none"
    BY <1>1 DEF SameTx, Kept, snapBar, viewBar, freshBar
  <1>2. CASE modeBar[q] # "none"
    <2>1. ASSUME NEW n \in Names
          PROVE  ContentsOf(base[q][n])' = ContentsOf(base[q][n])
      BY <1>2, VisibleNodes DEF SameTx, ContentsOf
    <2>2. ASSUME NEW n \in Names
          PROVE  ContentsOf(VisibleRoot(q, n))' = ContentsOf(VisibleRoot(q, n))
      <3>1. VisibleRoot(q, n)' = VisibleRoot(q, n)
        BY DEF SameTx, VisibleRoot, rootView, baseState
      <3> QED BY <1>2, <3>1, VisibleNodes DEF SameTx, ContentsOf
    <2>3. snapBar'[q] = snapBar[q]
      BY <1>2, <2>1 DEF SameTx, snapBar, StoreOf
    <2>4. viewBar'[q] = viewBar[q]
      BY <1>2, <2>2 DEF SameTx, viewBar
    <2> QED BY <2>3, <2>4 DEF Kept, SameTx, freshBar
  <1> QED BY <1>1, <1>2

\* The committed store is kept as long as its nodes are.
LEMMA DbKept ==
    ASSUME TypeOK, UNCHANGED state, \A o \in DirNodes(state) : heap'[o] = heap[o]
    PROVE  dbBar' = dbBar
  <1>1. CASE state = Nil
    BY <1>1 DEF dbBar
  <1>2. CASE state # Nil
    <2>1. ASSUME NEW n \in Names
          PROVE  ContentsOf(state[n])' = ContentsOf(state[n])
      BY <1>2 DEF ContentsOf, DirNodes
    <2> QED BY <1>2, <2>1 DEF dbBar, StoreOf
  <1> QED BY <1>1, <1>2

\* A step that keeps the store and all transactions is a stutter.
LEMMA Stutter ==
    ASSUME dbBar' = dbBar, \A q \in Procs : Kept(q)
    PROVE  UNCHANGED Store!svars
  <1>1. modeBar' = modeBar
    BY DEF Kept, modeBar
  <1>2. snapBar' = snapBar
    BY DEF Kept, snapBar
  <1>3. viewBar' = viewBar
    BY DEF Kept, viewBar
  <1>4. freshBar' = freshBar
    BY DEF Kept, freshBar
  <1> QED BY <1>1, <1>2, <1>3, <1>4 DEF Store!svars

\* A step that keeps all transactions but p's changes the functions at p.
LEMMA OnlyAt ==
    ASSUME NEW p \in Procs, \A q \in Procs \ {p} : Kept(q)
    PROVE  /\ modeBar' = [modeBar EXCEPT ![p] = modeBar'[p]]
           /\ snapBar' = [snapBar EXCEPT ![p] = snapBar'[p]]
           /\ viewBar' = [viewBar EXCEPT ![p] = viewBar'[p]]
           /\ freshBar' = [freshBar EXCEPT ![p] = freshBar'[p]]
  <1>1. modeBar' = [modeBar EXCEPT ![p] = modeBar'[p]]
    BY Zenon DEF Kept, modeBar
  <1>2. snapBar' = [snapBar EXCEPT ![p] = snapBar'[p]]
    BY Zenon DEF Kept, snapBar
  <1>3. viewBar' = [viewBar EXCEPT ![p] = viewBar'[p]]
    BY Zenon DEF Kept, viewBar
  <1>4. freshBar' = [freshBar EXCEPT ![p] = freshBar'[p]]
    BY Zenon DEF Kept, freshBar
  <1> QED BY <1>1, <1>2, <1>3, <1>4

----------------------------------------------------------------------------
(* Begin.                                                                  *)

\* Who holds the lock without a transaction knows that there is no writer.
LEMMA LockedNoWriter ==
    ASSUME LockInv, TxInv, NEW p \in Procs, pc[p] \in {"locked", "closeMarked"}
    PROVE  Store!NoWriter
  BY DEF LockInv, HoldsLock, TxInv, modeBar, Store!NoWriter

\* What the published directory holds is a store.
LEMMA DbType ==
    ASSUME TypeOK, state # Nil
    PROVE  dbBar = StoreOf(state) /\ dbBar # Closed
  <1>1. StoreOf(state) \in [Names -> Contents \cup {Absent}]
    BY DEF StoreOf, ContentsOf, TypeOK, Directories
  <1> QED BY <1>1, StoreAssumption DEF dbBar

\* A transaction begins when its base is loaded.
LEMMA LoadIsBegin ==
    ASSUME TypeOK, TxInv, BucketInv, NEW p \in Procs, NEW m \in {"read", "write"},
           pc[p] \notin {"pinned", "open", "stored"}, state # Nil,
           m = "write" => Store!NoWriter,
           base' = [base EXCEPT ![p] = state], modeBar'[p] = m,
           \A q \in Procs \ {p} : modeBar'[q] = modeBar[q],
           UNCHANGED <<state, heap, bctx, created, deleted, hname, hroot>>
    PROVE  Store!Begin(p, m)
  <1>1. \A q \in Procs \ {p} : Kept(q)
    BY KeptIf DEF SameTx, TypeOK
  <1>2. dbBar # Closed /\ dbBar' = dbBar /\ dbBar = StoreOf(state)
    BY DbType, DbKept
  <1>3. modeBar[p] = "none" /\ base'[p] = state
    BY DEF modeBar, TypeOK
  <1>4. snapBar'[p] = StoreOf(state)
    BY <1>3 DEF snapBar, StoreOf, ContentsOf
  <1>5. \A n \in Names : VisibleRoot(p, n)' = state[n]
    BY <1>3 DEF TxInv, VisibleRoot, baseState
  <1>6. viewBar'[p] = StoreOf(state)
    BY <1>5 DEF viewBar, StoreOf, ContentsOf
  <1>7. freshBar'[p] = {} /\ freshBar[p] = {}
    BY <1>3 DEF TxInv, freshBar
  <1>8. freshBar' = freshBar
    BY <1>1, <1>7 DEF freshBar, Kept
  <1> QED BY <1>1, <1>2, <1>3, <1>4, <1>6, <1>8, OnlyAt DEF Store!Begin

\* beginTx and beginRWTx.
LEMMA BeginsRefine ==
    ASSUME IInv, NEW p \in Procs, Begins(p)
    PROVE  Store!Next \/ UNCHANGED Store!svars
  <1> USE DEF Goto, txvars
  <1>0. TypeOK /\ TxInv /\ BucketInv /\ LockInv
    BY DEF IInv
  <1>1. CASE beginTx(p) \/ beginTxStats(p) \/ beginRWTx(p) \/ beginRWTxLock(p)
    <2>1. \A q \in Procs : SameTx(q)
      BY <1>0, <1>1
         DEF beginTx, beginTxStats, beginRWTx, beginRWTxLock, SameTx, modeBar, TypeOK
    <2>2. UNCHANGED <<state, heap>>
      BY <1>1 DEF beginTx, beginTxStats, beginRWTx, beginRWTxLock
    <2> QED BY <1>0, <2>1, <2>2, KeptIf, DbKept, Stutter
  <1>2. CASE beginTxLoad(p) /\ state = Nil
    <2>0. base[p] = Nil /\ base' = [base EXCEPT ![p] = Nil]
      BY <1>0, <1>2 DEF beginTxLoad, TxInv, InTx
    <2>1. base' = base
      BY <1>0, <2>0 DEF TypeOK
    <2>2. \A q \in Procs : SameTx(q)
      BY <1>0, <1>2, <2>1 DEF beginTxLoad, SameTx, modeBar, TypeOK
    <2>3. UNCHANGED <<state, heap>>
      BY <1>2 DEF beginTxLoad
    <2> QED BY <1>0, <2>2, <2>3, KeptIf, DbKept, Stutter
  <1>3. CASE beginTxLoad(p) /\ state # Nil
    <2>1. modeBar'[p] = "read" /\ \A q \in Procs \ {p} : modeBar'[q] = modeBar[q]
      BY <1>0, <1>3, Zenon DEF beginTxLoad, modeBar, TypeOK, TxInv
    <2>2. Store!Begin(p, "read")
      BY <1>0, <1>3, <2>1, LoadIsBegin, Zenon DEF beginTxLoad
    <2> QED BY <2>2 DEF Store!Next
  <1>4. CASE beginRWTxLoad(p) /\ opened /\ state # Nil
    <2>1. modeBar'[p] = "write" /\ \A q \in Procs \ {p} : modeBar'[q] = modeBar[q]
      BY <1>0, <1>4 DEF beginRWTxLoad, modeBar, TypeOK, TxInv
    <2>2. pc[p] = "locked"
      BY <1>4 DEF beginRWTxLoad
    <2>3. Store!NoWriter
      BY <1>0, <2>2, LockedNoWriter
    <2>4. Store!Begin(p, "write")
      BY <1>0, <1>4, <2>1, <2>2, <2>3, LoadIsBegin DEF beginRWTxLoad
    <2> QED BY <2>4 DEF Store!Next
  <1>5. CASE beginRWTxLoad(p) /\ ~(opened /\ state # Nil)
    <2>1. \A q \in Procs : SameTx(q)
      BY <1>0, <1>5 DEF beginRWTxLoad, SameTx, modeBar, TypeOK
    <2>2. UNCHANGED <<state, heap>>
      BY <1>5 DEF beginRWTxLoad
    <2> QED BY <1>0, <2>1, <2>2, KeptIf, DbKept, Stutter
  <1> QED BY <1>1, <1>2, <1>3, <1>4, <1>5 DEF Begins

(* The calls a transaction offers.                                         *)

\* What the published state and the transactions reach are nodes.
LEMMA ReachedAreNodes ==
    ASSUME TypeOK, NEW q \in Procs
    PROVE  DirNodes(state) \subseteq Nodes /\ TxNodes(q) \subseteq Nodes
  <1>1. ASSUME NEW d \in Directories \cup {Nil}
        PROVE  DirNodes(d) \subseteq Nodes
    BY <1>1 DEF DirNodes, Directories
  <1>2. state \in Directories \cup {Nil} /\ base[q] \in Directories \cup {Nil}
    BY DEF TypeOK
  <1>3. {hroot[q][h] : h \in Handles} \ {Nil} \subseteq Nodes
    BY DEF TypeOK
  <1> QED BY <1>1, <1>2, <1>3 DEF TxNodes

\* Only the writer has roots of its own.
LEMMA OneWriter ==
    ASSUME LockInv, TxInv, NEW p \in Procs, pc[p] = "open", writable[p],
           NEW q \in Procs, q # p
    PROVE  ~writable[q]
  BY DEF LockInv, TxInv, HoldsLock

\* A node the writer may change, its own or a free one, is out of everyone
\* else's reach.
LEMMA NotReached ==
    ASSUME LockInv, TxInv, OwnInv, NEW p \in Procs, pc[p] = "open", writable[p],
           NEW h \in Handles, NEW o \in Nodes,
           o = hroot[p][h] \/ o \in FreeNodes
    PROVE  /\ o \notin DirNodes(state)
           /\ \A q \in Procs : o \notin DirNodes(base[q])
           /\ \A q \in Procs \ {p} : o \notin TxNodes(q)
  <1>1. CASE o \in FreeNodes
    BY <1>1 DEF FreeNodes, LiveNodes, TxNodes
  <1>2. CASE o = hroot[p][h]
    <2>1. o # Nil
      BY ConstantsAssumption
    <2>2. o \notin DirNodes(state) /\ \A q \in Procs : o \notin DirNodes(base[q])
      BY <1>2, <2>1 DEF OwnInv, OwnOK
    <2>3. ASSUME NEW q \in Procs \ {p}
          PROVE  o \notin TxNodes(q)
      <3>1. \A g \in Handles : hroot[q][g] = Nil
        BY OneWriter DEF TxInv
      <3> QED BY <2>1, <2>2, <3>1 DEF TxNodes
    <2> QED BY <2>2, <2>3
  <1> QED BY <1>1, <1>2

\* A call of p that changes only its own buckets and the node o: the store,
\* the other transactions and p's snapshot are kept.
LEMMA CallFrame ==
    ASSUME TypeOK, TxInv, BucketInv, NEW p \in Procs, NEW o,
           UNCHANGED <<state, pc, writable, base>>,
           \A q \in Procs \ {p} : /\ bctx'[q] = bctx[q]
                                  /\ created'[q] = created[q] /\ deleted'[q] = deleted[q]
                                  /\ hname'[q] = hname[q] /\ hroot'[q] = hroot[q],
           \A x \in Nodes \ {o} : heap'[x] = heap[x],
           o \notin DirNodes(state), o \notin DirNodes(base[p]),
           \A q \in Procs \ {p} : o \notin TxNodes(q)
    PROVE  /\ dbBar' = dbBar
           /\ modeBar' = modeBar
           /\ snapBar' = snapBar
           /\ \A q \in Procs \ {p} : Kept(q)
  <1>1. dbBar' = dbBar
    BY ReachedAreNodes, DbKept
  <1>2. modeBar' = modeBar
    BY DEF modeBar
  <1>3. ASSUME NEW q \in Procs \ {p}
        PROVE  Kept(q)
    <2>1. \A x \in TxNodes(q) : heap'[x] = heap[x]
      BY ReachedAreNodes
    <2> QED BY <1>2, <2>1, KeptIf DEF SameTx
  <1>4. snapBar'[p] = snapBar[p]
    <2>1. CASE modeBar[p] = "none"
      BY <1>2, <2>1 DEF snapBar
    <2>2. CASE modeBar[p] # "none"
      <3>1. base[p] \in Directories /\ base[p] # Nil
        BY <2>2, ModeBase, ConstantsAssumption DEF Directories
      <3>2. ASSUME NEW n \in Names
            PROVE  ContentsOf(base[p][n])' = ContentsOf(base[p][n])
        BY <3>1 DEF ContentsOf, DirNodes, Directories
      <3> QED BY <1>2, <2>2, <3>2 DEF snapBar, StoreOf
    <2> QED BY <2>1, <2>2
  <1>5. snapBar' = snapBar
    BY <1>3, <1>4 DEF snapBar, Kept
  <1> QED BY <1>1, <1>2, <1>3, <1>5

\* Such a call is a stutter when p reads all its buckets as before ...
LEMMA SameView ==
    ASSUME NEW p \in Procs, dbBar' = dbBar, modeBar' = modeBar, snapBar' = snapBar,
           created'[p] = created[p], \A q \in Procs \ {p} : Kept(q),
           \A n \in Names : ContentsOf(VisibleRoot(p, n))' = ContentsOf(VisibleRoot(p, n))
    PROVE  UNCHANGED Store!svars
  <1>1. viewBar'[p] = viewBar[p]
    BY DEF viewBar
  <1>2. freshBar'[p] = freshBar[p]
    BY DEF freshBar
  <1> QED BY <1>1, <1>2, Stutter DEF Kept

\* ... and changes p's view of one bucket when it reads that one differently.
LEMMA ViewAt ==
    ASSUME NEW p \in Procs, NEW n \in Names, NEW c,
           modeBar' = modeBar, modeBar[p] # "none",
           \A q \in Procs \ {p} : Kept(q),
           ContentsOf(VisibleRoot(p, n))' = c,
           \A m \in Names \ {n} :
               ContentsOf(VisibleRoot(p, m))' = ContentsOf(VisibleRoot(p, m))
    PROVE  viewBar' = [viewBar EXCEPT ![p][n] = c]
  <1>1. viewBar[p] = [m \in Names |-> ContentsOf(VisibleRoot(p, m))]
    BY DEF viewBar
  <1>2. viewBar'[p] = [m \in Names |-> ContentsOf(VisibleRoot(p, m))']
    BY DEF viewBar
  <1>3. viewBar'[p] = [viewBar[p] EXCEPT ![n] = c]
    BY <1>1, <1>2
  <1>4. viewBar' = [viewBar EXCEPT ![p] = viewBar'[p]]
    BY OnlyAt
  <1> QED BY <1>3, <1>4

\* What p has created, when a call of it adds or removes a bucket.
LEMMA FreshAt ==
    ASSUME NEW p \in Procs, modeBar' = modeBar, modeBar[p] # "none",
           \A q \in Procs \ {p} : Kept(q)
    PROVE  freshBar[p] = created[p] /\ freshBar' = [freshBar EXCEPT ![p] = created'[p]]
  <1>1. freshBar[p] = created[p] /\ freshBar'[p] = created'[p]
    BY DEF freshBar
  <1> QED BY <1>1, OnlyAt

\* An open transaction is there.
LEMMA OpenMode ==
    ASSUME NEW p \in Procs, pc[p] = "open"
    PROVE  modeBar[p] = IF writable[p] THEN "write" ELSE "read"
  BY DEF modeBar

\* Tx.Bucket shows nothing new.
LEMMA BucketRefines ==
    ASSUME IInv, NEW p \in Procs, NEW n \in Names, Bucket(p, n)
    PROVE  UNCHANGED Store!svars
  <1>0. TypeOK /\ TxInv /\ BucketInv
    BY DEF IInv
  <1>1. PICK h \in Handles : /\ OpenAt(p, n, h, Nil)
                             /\ base[p][n] # Nil /\ n \notin deleted[p]
                             /\ UNCHANGED <<heap, created, deleted>>
    BY <1>0, BucketEffect
  <1>2. /\ dbBar' = dbBar /\ modeBar' = modeBar /\ snapBar' = snapBar
        /\ \A q \in Procs \ {p} : Kept(q)
    <2>1. \A q \in Procs \ {p} : /\ bctx'[q] = bctx[q]
                                 /\ created'[q] = created[q] /\ deleted'[q] = deleted[q]
                                 /\ hname'[q] = hname[q] /\ hroot'[q] = hroot[q]
      BY <1>0, <1>1 DEF OpenAt, TypeOK
    <2>2. \A q \in Procs : Nil \notin TxNodes(q) /\ Nil \notin DirNodes(base[q])
      BY DEF TxNodes, DirNodes
    <2>3. Nil \notin DirNodes(state)
      BY DEF DirNodes
    <2> QED BY <1>0, <1>1, <2>1, <2>2, <2>3, CallFrame DEF OpenAt
  <1>3. ASSUME NEW m \in Names
        PROVE  VisibleRoot(p, m)' = VisibleRoot(p, m)
    <2>1. bctx[p][n] = Nil
      BY DEF Bucket
    <2>2. CASE m = n
      <3>1. bctx'[p][n] = h /\ hroot'[p][h] = Nil /\ hname'[p][h] = n /\ h # Nil
        BY <1>0, <1>1, ConstantsAssumption DEF OpenAt, TypeOK
      <3>2. base' = base
        BY <1>1 DEF OpenAt
      <3>3. VisibleRoot(p, n) = base[p][n]
        BY <1>1, <2>1, Zenon DEF VisibleRoot, baseState
      <3>4. VisibleRoot(p, n)' = base[p][n]
        BY <3>1, <3>2, Zenon DEF VisibleRoot, rootView, baseState
      <3> QED BY <2>2, <3>3, <3>4, Zenon
    <2>3. CASE m # n
      <3>1. bctx'[p][m] = bctx[p][m]
        BY <1>0, <1>1, <2>3 DEF OpenAt, TypeOK
      <3>2. bctx[p][m] # Nil => /\ bctx[p][m] # h /\ bctx[p][m] \in Handles
        BY <1>0, <1>1, ConstantsAssumption DEF OpenAt, BucketInv, BucketOK, TypeOK
      <3>3. bctx[p][m] # Nil => /\ hroot'[p][bctx[p][m]] = hroot[p][bctx[p][m]]
                                /\ hname'[p][bctx[p][m]] = hname[p][bctx[p][m]]
        BY <1>0, <1>1, <3>2 DEF OpenAt, TypeOK
      <3>4. base' = base /\ deleted' = deleted
        BY <1>1 DEF OpenAt
      <3>5. CASE bctx[p][m] = Nil
        BY <3>1, <3>4, <3>5, Zenon DEF VisibleRoot, baseState
      <3>6. CASE bctx[p][m] # Nil
        BY <3>1, <3>3, <3>4, <3>6, Zenon DEF VisibleRoot, rootView, baseState
      <3> QED BY <3>5, <3>6
    <2> QED BY <2>2, <2>3
  <1>4. \A m \in Names : ContentsOf(VisibleRoot(p, m))' = ContentsOf(VisibleRoot(p, m))
    BY <1>1, <1>3 DEF ContentsOf
  <1> QED BY <1>1, <1>2, <1>4, SameView

\* CreateBucket adds an empty bucket to the view.
LEMMA CreateBucketRefines ==
    ASSUME IInv, NEW p \in Procs, NEW n \in Names, CreateBucket(p, n)
    PROVE  Store!CreateBucket(p, n)
  <1>0. TypeOK /\ TxInv /\ BucketInv /\ LockInv /\ OwnInv
    BY DEF IInv
  <1> DEFINE h == freshHandle(p)
  <1>1. PICK o \in FreeNodes : /\ heap' = [heap EXCEPT ![o] = EmptyLeaf]
                               /\ newBucket(p, n, h, o)
    BY Zenon DEF CreateBucket
  <1>2. h \in Handles /\ hname[p][h] = Nil /\ h # Nil
    BY FreshHandle, ConstantsAssumption DEF CreateBucket
  <1> HIDE DEF h
  <1>3. /\ o \in Nodes /\ o # Nil /\ pc[p] = "open" /\ writable[p]
        /\ o \notin TxNodes(p)
    BY ConstantsAssumption DEF FreeNodes, LiveNodes, CreateBucket
  <1>4. /\ dbBar' = dbBar /\ modeBar' = modeBar /\ snapBar' = snapBar
        /\ \A q \in Procs \ {p} : Kept(q)
    <2>1. \A q \in Procs \ {p} : /\ bctx'[q] = bctx[q]
                                 /\ created'[q] = created[q] /\ deleted'[q] = deleted[q]
                                 /\ hname'[q] = hname[q] /\ hroot'[q] = hroot[q]
      BY <1>0, <1>1 DEF CreateBucket, newBucket, TypeOK
    <2>2. \A x \in Nodes \ {o} : heap'[x] = heap[x]
      BY <1>0, <1>1 DEF TypeOK
    <2>3. /\ o \notin DirNodes(state) /\ o \notin DirNodes(base[p])
          /\ \A q \in Procs \ {p} : o \notin TxNodes(q)
      BY <1>0, <1>2, <1>3, NotReached
    <2> QED BY <1>0, <2>1, <2>2, <2>3, CallFrame DEF CreateBucket
  <1>5. modeBar[p] = "write"
    BY <1>3, OpenMode
  <1>6. VisibleRoot(p, n) = Nil
    BY <1>0 DEF CreateBucket, bucketExistsCommitted, BucketInv, BucketOK, VisibleRoot, baseState
  <1>7. VisibleRoot(p, n)' = o
    <2>1. bctx'[p][n] = h /\ hroot'[p][h] = o
      BY <1>0, <1>1, <1>2 DEF newBucket, TypeOK
    <2> QED BY <1>2, <1>3, <2>1 DEF VisibleRoot, rootView
  <1>8. ContentsOf(VisibleRoot(p, n))' = Store!Empty
    BY <1>0, <1>1, <1>3, <1>7 DEF ContentsOf, TypeOK, EmptyLeaf, Store!Empty
  <1>9. ASSUME NEW m \in Names \ {n}
        PROVE  ContentsOf(VisibleRoot(p, m))' = ContentsOf(VisibleRoot(p, m))
    <2>1. bctx'[p][m] = bctx[p][m] /\ (m \in deleted'[p] <=> m \in deleted[p])
      BY <1>0, <1>1 DEF CreateBucket, newBucket, TypeOK
    <2>2. bctx[p][m] # Nil => /\ bctx[p][m] # h /\ bctx[p][m] \in Handles
      BY <1>0, <1>2, ConstantsAssumption, SMTT(20) DEF BucketInv, BucketOK, TypeOK
    <2>3. bctx[p][m] # Nil => /\ hroot'[p][bctx[p][m]] = hroot[p][bctx[p][m]]
                              /\ hname'[p][bctx[p][m]] = hname[p][bctx[p][m]]
      BY <1>0, <1>1, <2>2 DEF newBucket, TypeOK
    <2>4. base' = base
      BY Zenon DEF CreateBucket
    <2>5. VisibleRoot(p, m)' = VisibleRoot(p, m)
      BY <2>1, <2>3, <2>4, Zenon DEF VisibleRoot, rootView, baseState
    <2>6. VisibleRoot(p, m) # Nil => VisibleRoot(p, m) \in Nodes \ {o}
      BY <1>0, <1>3, <1>5, VisibleNodes
    <2>7. VisibleRoot(p, m) # Nil => heap'[VisibleRoot(p, m)] = heap[VisibleRoot(p, m)]
      BY <1>0, <1>1, <2>6 DEF TypeOK
    <2> QED BY <2>5, <2>7, Zenon DEF ContentsOf
  <1>10. viewBar' = [viewBar EXCEPT ![p][n] = Store!Empty]
    BY <1>4, <1>5, <1>8, <1>9, ViewAt
  <1>11. viewBar[p][n] = Absent
    BY <1>5, <1>6 DEF viewBar, ContentsOf
  <1>12. created'[p] = created[p] \cup {n}
    BY <1>0 DEF CreateBucket, TypeOK
  <1>13. freshBar' = [freshBar EXCEPT ![p] = @ \cup {n}]
    BY <1>4, <1>5, <1>12, FreshAt
  <1> QED BY <1>4, <1>5, <1>10, <1>11, <1>13 DEF Store!CreateBucket

\* A bucket that is there is not absent.
LEMMA PresentContents ==
    ASSUME TypeOK, NEW o \in Nodes
    PROVE  ContentsOf(o) = heap[o] /\ ContentsOf(o) # Absent /\ ContentsOf(o) \in Contents
  BY ConstantsAssumption, StoreAssumption DEF TypeOK, ContentsOf

\* DeleteBucket takes the bucket out of the view, or undoes its creation;
\* deleting it once more changes nothing.
LEMMA DeleteBucketRefines ==
    ASSUME IInv, NEW p \in Procs, NEW n \in Names, DeleteBucket(p, n)
    PROVE  Store!DeleteBucket(p, n) \/ UNCHANGED Store!svars
  <1>0. TypeOK /\ TxInv /\ BucketInv
    BY DEF IInv
  <1>1. pc[p] = "open" /\ writable[p] /\ UNCHANGED <<state, heap, pc, writable, base, hname, hroot>>
    BY DEF DeleteBucket
  <1>2. /\ dbBar' = dbBar /\ modeBar' = modeBar /\ snapBar' = snapBar
        /\ \A q \in Procs \ {p} : Kept(q)
    <2>1. \A q \in Procs \ {p} : /\ bctx'[q] = bctx[q]
                                 /\ created'[q] = created[q] /\ deleted'[q] = deleted[q]
      BY <1>0 DEF DeleteBucket, TypeOK
    <2>2. \A q \in Procs : Nil \notin TxNodes(q) /\ Nil \notin DirNodes(base[q])
      BY DEF TxNodes, DirNodes
    <2>3. Nil \notin DirNodes(state)
      BY DEF DirNodes
    <2> QED BY <1>0, <1>1, <2>1, <2>2, <2>3, CallFrame
  <1>3. modeBar[p] = "write" /\ base[p] # Nil
    BY <1>0, <1>1, OpenMode DEF TxInv, InTx
  <1>4. ASSUME NEW m \in Names \ {n}
        PROVE  ContentsOf(VisibleRoot(p, m))' = ContentsOf(VisibleRoot(p, m))
    <2>1. bctx'[p][m] = bctx[p][m]
      BY <1>0 DEF DeleteBucket, TypeOK
    <2>2. m \in deleted'[p] <=> m \in deleted[p]
      BY <1>0 DEF DeleteBucket, TypeOK
    <2>3. VisibleRoot(p, m)' = VisibleRoot(p, m)
      BY <1>1, <2>1, <2>2, Zenon DEF VisibleRoot, rootView, baseState
    <2> QED BY <1>1, <2>3 DEF ContentsOf
  <1>5. bctx'[p][n] = Nil
    BY <1>0 DEF DeleteBucket, TypeOK
  <1>6. viewBar[p][n] = ContentsOf(VisibleRoot(p, n)) /\ snapBar[p][n] = ContentsOf(base[p][n])
    BY <1>3 DEF viewBar, snapBar, StoreOf
  <1>7. created'[p] = created[p] \ {n} /\ freshBar[p] = created[p]
    BY <1>0, <1>2, <1>3, FreshAt DEF DeleteBucket, TypeOK
  <1>8. freshBar' = [freshBar EXCEPT ![p] = @ \ {n}]
    BY <1>2, <1>3, <1>7, FreshAt
  <1>9. CASE n \in created[p]
    <2>1. n \notin deleted'[p]
      BY <1>0, <1>9 DEF DeleteBucket, BucketInv, BucketOK
    <2>2. ContentsOf(VisibleRoot(p, n))' = ContentsOf(base[p][n])
      BY <1>1, <1>5, <2>1 DEF VisibleRoot, baseState, ContentsOf
    <2>3. VisibleRoot(p, n) \in Nodes
      BY <1>0, <1>3, <1>9, VisibleNodes, Zenon DEF BucketInv, BucketOK, VisibleRoot, rootView
    <2>4. viewBar' = [viewBar EXCEPT ![p][n] = ContentsOf(base[p][n])]
      BY <1>2, <1>3, <1>4, <2>2, ViewAt
    <2> QED BY <1>0, <1>2, <1>3, <1>6, <1>9, <1>7, <1>8, <2>3, <2>4, PresentContents DEF Store!DeleteBucket
  <1>10. CASE n \notin created[p]
    <2>1. n \in deleted'[p] /\ base[p][n] # Nil
      BY <1>0, <1>10 DEF DeleteBucket, TypeOK, bucketExistsCommitted
    <2>2. ContentsOf(VisibleRoot(p, n))' = Absent
      BY <1>5, <2>1, Zenon DEF VisibleRoot, ContentsOf
    <2>3. CASE n \in deleted[p]
      <3>1. ContentsOf(VisibleRoot(p, n)) = Absent
        BY <1>0, <2>3, Zenon DEF BucketInv, BucketOK, VisibleRoot, ContentsOf
      <3>2. \A m \in Names : ContentsOf(VisibleRoot(p, m))' = ContentsOf(VisibleRoot(p, m))
        BY <1>4, <2>2, <3>1
      <3>3. created'[p] = created[p]
        BY <1>10, <1>7
      <3> QED BY <1>2, <3>2, <3>3, SameView
    <2>4. CASE n \notin deleted[p]
      <3>1. VisibleRoot(p, n) # Nil
        BY <1>0, <2>1, <2>4, VisibleIs
      <3>2. VisibleRoot(p, n) \in Nodes
        BY <1>0, <1>3, <3>1, VisibleNodes
      <3>3. viewBar' = [viewBar EXCEPT ![p][n] = Absent]
        BY <1>2, <1>3, <1>4, <2>2, ViewAt
      <3> QED BY <1>0, <1>2, <1>3, <1>6, <1>10, <1>7, <1>8, <3>2, <3>3, PresentContents DEF Store!DeleteBucket
    <2> QED BY <2>3, <2>4
  <1> QED BY <1>9, <1>10

\* What the node holds that a write goes to.
Written(o, k, v) == [heap[o] EXCEPT ![k] = v]

\* A write goes to the root of the handle, which is copied before.
LEMMA WrittenContents ==
    ASSUME TypeOK, NEW p \in Procs, NEW h \in Handles, NEW k \in Keys, NEW v,
           writableRoot(p, h, k, v), rootView(p, h) # Nil
    PROVE  heap'[hroot'[p][h]] = Written(rootView(p, h), k, v)
  <1> USE DEF Written
  <1>1. CASE hroot[p][h] # Nil
    <2>1. hroot[p][h] \in Nodes
      BY <1>1 DEF TypeOK
    <2> QED BY <1>1, <2>1 DEF writableRoot, rootView, TypeOK
  <1>2. CASE hroot[p][h] = Nil
    <2>1. rootView(p, h) = baseState(p, hname[p][h])
      BY <1>2 DEF rootView
    <2>2. PICK o \in FreeNodes :
           /\ heap' = [heap EXCEPT ![o] = [heap[rootView(p, h)] EXCEPT ![k] = v]]
           /\ hroot' = [hroot EXCEPT ![p][h] = o]
      BY <1>2, <2>1 DEF writableRoot
    <2>3. o \in Nodes
      BY DEF FreeNodes
    <2> QED BY <2>2, <2>3 DEF TypeOK
  <1> QED BY <1>1, <1>2

\* A write leaves the buckets alone of which its handle is not the current one.
LEMMA WriteElsewhere ==
    ASSUME IInv, NEW p \in Procs, NEW h \in Handles, NEW o \in Nodes, WriteAt(p, h, o),
           NEW m \in Names, bctx[p][m] # h
    PROVE  ContentsOf(VisibleRoot(p, m))' = ContentsOf(VisibleRoot(p, m))
  <1>0. TypeOK /\ TxInv /\ BucketInv /\ LockInv /\ OwnInv
    BY DEF IInv
  <1>1. pc[p] = "open" /\ writable[p] /\ o # Nil
    BY ConstantsAssumption DEF WriteAt
  <1>2. bctx[p][m] # Nil => /\ bctx[p][m] \in Handles
                            /\ hroot'[p][bctx[p][m]] = hroot[p][bctx[p][m]]
    BY <1>0 DEF WriteAt, TypeOK
  <1>3. VisibleRoot(p, m)' = VisibleRoot(p, m)
    BY <1>2 DEF WriteAt, VisibleRoot, rootView, baseState
  <1>4. VisibleRoot(p, m) # o
    <2>1. o \notin DirNodes(base[p])
      BY <1>0, <1>1, NotReached DEF WriteAt
    <2>2. base[p] # Nil
      BY <1>0, <1>1, Zenon DEF TxInv, InTx
    <2>3. base[p][m] # o
      BY <1>1, <2>1, <2>2, Zenon DEF DirNodes, WriteAt
    <2>4. bctx[p][m] # Nil => hroot[p][bctx[p][m]] # o
      <3>1. CASE o = hroot[p][h]
        BY <1>0, <1>1, <1>2, <3>1, Zenon DEF OwnInv, OwnOK
      <3>2. CASE o \in FreeNodes
        BY <1>1, <1>2, <3>2 DEF FreeNodes, LiveNodes, TxNodes
      <3> QED BY <3>1, <3>2 DEF WriteAt
    <2> QED BY <1>0, <1>1, <2>3, <2>4, VisibleIs, Zenon
  <1>5. modeBar[p] # "none"
    BY <1>1, OpenMode, Zenon
  <1>6. VisibleRoot(p, m) # Nil => VisibleRoot(p, m) \in Nodes
    BY <1>0, <1>5, VisibleNodes
  <1> QED BY <1>3, <1>4, <1>6 DEF WriteAt, ContentsOf

\* A Put or a Delete writes to the bucket its handle is the current one of,
\* and to no bucket if that one has been deleted.
LEMMA WriteRefines ==
    ASSUME IInv, NEW p \in Procs, NEW h \in Handles, NEW k \in Keys,
           NEW v \in Vals \cup {NoVal}, NEW o \in Nodes, WriteAt(p, h, o),
           writableRoot(p, h, k, v)
    PROVE  (\E n \in Names : Store!Write(p, n, k, v)) \/ UNCHANGED Store!svars
  <1>0. TypeOK /\ TxInv /\ BucketInv /\ LockInv /\ OwnInv
    BY DEF IInv
  <1>1. pc[p] = "open" /\ writable[p] /\ modeBar[p] = "write"
    BY OpenMode DEF WriteAt
  <1>2. /\ dbBar' = dbBar /\ modeBar' = modeBar /\ snapBar' = snapBar
        /\ \A q \in Procs \ {p} : Kept(q)
    <2>1. \A q \in Procs \ {p} : hroot'[q] = hroot[q]
      BY <1>0 DEF WriteAt, TypeOK
    <2>2. /\ o \notin DirNodes(state) /\ o \notin DirNodes(base[p])
          /\ \A q \in Procs \ {p} : o \notin TxNodes(q)
      BY <1>0, <1>1, NotReached DEF WriteAt
    <2> QED BY <1>0, <2>1, <2>2, CallFrame DEF WriteAt
  <1>3. PICK n \in Names : hname[p][h] = n
    BY <1>0 DEF WriteAt, TypeOK
  <1>4. \A m \in Names \ {n} : bctx[p][m] # h
    <2>1. h # Nil
      BY ConstantsAssumption
    <2>2. \A m \in Names : bctx[p][m] # Nil => hname[p][bctx[p][m]] = m
      BY <1>0, Zenon DEF BucketInv, BucketOK
    <2> QED BY <1>3, <2>1, <2>2, Zenon
  <1>5. CASE bctx[p][n] # h
    <2>1. \A m \in Names : ContentsOf(VisibleRoot(p, m))' = ContentsOf(VisibleRoot(p, m))
      BY <1>4, <1>5, WriteElsewhere
    <2> QED BY <1>2, <2>1, SameView DEF WriteAt
  <1>6. CASE bctx[p][n] = h
    <2>1. h # Nil
      BY ConstantsAssumption
    <2>2. VisibleRoot(p, n) = rootView(p, h)
      BY <1>6, <2>1, Zenon DEF VisibleRoot
    <2>3. rootView(p, h) # Nil
      <3>1. BucketOK(p, n)
        BY <1>0, Zenon DEF BucketInv
      <3>2. hroot[p][h] # Nil \/ base[p][n] # Nil
        BY <1>6, <2>1, <3>1, Zenon DEF BucketOK
      <3> QED BY <1>3, <3>2, Zenon DEF rootView, baseState
    <2>4. rootView(p, h) \in Nodes
      BY <1>0, <1>1, <2>2, <2>3, VisibleNodes, Zenon
    <2>5. hroot'[p][h] = o /\ o # Nil
      BY <1>0, ConstantsAssumption DEF WriteAt, TypeOK
    <2>6. VisibleRoot(p, n)' = o
      BY <1>6, <2>1, <2>5 DEF WriteAt, VisibleRoot, rootView
    <2>7. heap'[o] = [heap[rootView(p, h)] EXCEPT ![k] = v]
      <3>1. heap'[hroot'[p][h]] = Written(rootView(p, h), k, v)
        BY <1>0, <2>3, WrittenContents, Zenon
      <3> QED BY <2>5, <3>1, Zenon DEF Written
    <2>8. viewBar[p][n] = heap[rootView(p, h)] /\ viewBar[p][n] # Absent
      <3>1. viewBar[p][n] = ContentsOf(rootView(p, h))
        BY <1>1, <2>2, Zenon DEF viewBar
      <3>2. /\ ContentsOf(rootView(p, h)) = heap[rootView(p, h)]
            /\ ContentsOf(rootView(p, h)) # Absent
        BY <1>0, <2>4, PresentContents, Zenon
      <3> QED BY <3>1, <3>2, Zenon
    <2>9. ContentsOf(VisibleRoot(p, n))' = [viewBar[p][n] EXCEPT ![k] = v]
      BY <2>5, <2>6, <2>7, <2>8, Zenon DEF ContentsOf
    <2>10. \A m \in Names \ {n} :
             ContentsOf(VisibleRoot(p, m))' = ContentsOf(VisibleRoot(p, m))
      BY <1>4, WriteElsewhere
    <2>11. viewBar' = [viewBar EXCEPT ![p][n] = [viewBar[p][n] EXCEPT ![k] = v]]
      BY <1>1, <1>2, <2>9, <2>10, ViewAt
    <2>12. viewBar' = [viewBar EXCEPT ![p][n][k] = v]
      BY <2>11
    <2>13. freshBar' = freshBar
      <3>1. modeBar' = modeBar /\ created' = created
        BY <1>2 DEF WriteAt
      <3> QED BY <3>1 DEF freshBar
    <2> QED BY <1>1, <1>2, <2>8, <2>12, <2>13, Zenon DEF Store!Write
  <1> QED BY <1>5, <1>6

\* Put and Delete.
LEMMA PutDeleteRefine ==
    ASSUME IInv, NEW p \in Procs, NEW h \in Handles, NEW k \in Keys,
           Delete(p, h, k) \/ \E v \in Vals : Put(p, h, k, v)
    PROVE  Store!Next \/ UNCHANGED Store!svars
  <1>1. PICK o \in Nodes : WriteAt(p, h, o)
    BY WriteEffect DEF IInv
  <1>2. PICK v \in Vals \cup {NoVal} : writableRoot(p, h, k, v)
    BY DEF Put, Delete
  <1> QED BY <1>1, <1>2, WriteRefines DEF Store!Next

\* Every call of a transaction.
LEMMA WorksRefine ==
    ASSUME IInv, NEW p \in Procs, Works(p)
    PROVE  Store!Next \/ UNCHANGED Store!svars
  <1>0. TypeOK /\ TxInv /\ BucketInv
    BY DEF IInv
  <1>1. ASSUME NEW n \in Names, Bucket(p, n)
        PROVE  UNCHANGED Store!svars
    BY <1>1, BucketRefines
  <1>2. ASSUME NEW n \in Names, CreateBucket(p, n)
        PROVE  Store!Next
    BY <1>2, CreateBucketRefines DEF Store!Next
  <1>3. ASSUME NEW n \in Names, CreateBucketIfNotExists(p, n)
        PROVE  Bucket(p, n) \/ CreateBucket(p, n)
    BY <1>3 DEF CreateBucketIfNotExists
  <1>4. ASSUME NEW n \in Names, DeleteBucket(p, n)
        PROVE  Store!Next \/ UNCHANGED Store!svars
    BY <1>4, DeleteBucketRefines DEF Store!Next
  <1>5. CASE OnCommit(p)
    <2>1. UNCHANGED <<state, heap>> /\ \A q \in Procs : SameTx(q)
      BY <1>5, Zenon DEF OnCommit, SameTx, modeBar
    <2> QED BY <1>0, <2>1, KeptIf, DbKept, Stutter
  <1> QED BY <1>1, <1>2, <1>3, <1>4, <1>5, PutDeleteRefine DEF Works

----------------------------------------------------------------------------
(* The end of a transaction, and Close.                                    *)

\* A step after which p has no transaction, and which keeps the rest.
LEMMA EndAt ==
    ASSUME NEW p \in Procs, \A q \in Procs \ {p} : Kept(q), modeBar'[p] = "none"
    PROVE  Store!End(p)
  <1>1. snapBar'[p] = NoTx /\ viewBar'[p] = NoTx /\ freshBar'[p] = {}
    BY DEF snapBar, viewBar, freshBar
  <1> QED BY <1>1, OnlyAt DEF Store!End

\* Commit publishes what the transaction sees.
LEMMA CommitRefines ==
    ASSUME IInv, NEW p \in Procs, Commit(p)
    PROVE  Store!Commit(p)
  <1> USE DEF Goto, txvars
  <1>0. TypeOK /\ TxInv /\ BucketInv /\ WriterOnLatest
    BY DEF IInv
  <1>1. pc[p] = "open" /\ writable[p] /\ base[p] = state /\ base[p] # Nil
    BY <1>0 DEF Commit, WriterOnLatest, TxInv, InTx
  <1>2. modeBar[p] = "write" /\ modeBar'[p] = "none"
    BY <1>0, <1>1 DEF Commit, modeBar, TypeOK
  <1>3. \A q \in Procs \ {p} : Kept(q)
    <2>1. \A q \in Procs \ {p} : SameTx(q)
      BY <1>0 DEF Commit, SameTx, modeBar, TypeOK
    <2> QED BY <1>0, <2>1, KeptIf
  <1>4. dbBar = snapBar[p]
    BY <1>1, <1>2 DEF dbBar, snapBar
  <1>5. newBuckets(p) # Nil
    BY <1>0, <1>1, NewBucketsType, ConstantsAssumption DEF Directories
  <1>6. ASSUME NEW n \in Names
        PROVE  newBuckets(p)[n] = VisibleRoot(p, n)
    BY <1>0 DEF newBuckets, publishRoot, VisibleRoot, baseState, BucketInv, BucketOK
  <1>7. state' = newBuckets(p) /\ heap' = heap
    BY DEF Commit
  <1>8. dbBar' = [n \in Names |-> ContentsOf(newBuckets(p)[n])]
    BY <1>5, <1>7 DEF dbBar, StoreOf, ContentsOf
  <1>9. dbBar' = viewBar[p]
    BY <1>2, <1>6, <1>8 DEF viewBar
  <1> QED BY <1>2, <1>3, <1>4, <1>9, EndAt DEF Store!Commit

\* Tx.close takes nothing from the store and the other transactions.
LEMMA CloseTxFrame ==
    ASSUME TypeOK, TxInv, BucketInv, NEW p \in Procs, closeTx(p), UNCHANGED state,
           pc' = [pc EXCEPT ![p] = "idle"]
    PROVE  /\ dbBar' = dbBar
           /\ \A q \in Procs \ {p} : Kept(q)
           /\ modeBar'[p] = "none"
  <1>1. ASSUME NEW x \in LiveWithout(p) \cap Nodes
        PROVE  heap'[x] = heap[x]
    BY DEF closeTx, dropTx
  <1>2. dbBar' = dbBar
    BY <1>1, ReachedAreNodes, DbKept DEF LiveWithout
  <1>3. ASSUME NEW q \in Procs \ {p}
        PROVE  Kept(q)
    <2>1. \A x \in TxNodes(q) : heap'[x] = heap[x]
      BY <1>1, ReachedAreNodes DEF LiveWithout
    <2>2. pc'[q] = pc[q] /\ writable'[q] = writable[q]
      BY DEF closeTx, dropTx, TypeOK
    <2>3. /\ base'[q] = base[q] /\ bctx'[q] = bctx[q]
          /\ created'[q] = created[q] /\ deleted'[q] = deleted[q]
          /\ hname'[q] = hname[q] /\ hroot'[q] = hroot[q]
      BY DEF closeTx, dropTx, TypeOK
    <2>4. modeBar'[q] = modeBar[q]
      BY <2>2 DEF modeBar
    <2> QED BY <2>1, <2>3, <2>4, KeptIf DEF SameTx
  <1>4. modeBar'[p] = "none"
    BY DEF modeBar, TypeOK
  <1> QED BY <1>2, <1>3, <1>4

\* Commit, Rollback and the commit handlers.
LEMMA EndsRefine ==
    ASSUME IInv, NEW p \in Procs, Ends(p)
    PROVE  Store!Next \/ UNCHANGED Store!svars
  <1> USE DEF Goto, txvars
  <1>0. TypeOK /\ TxInv /\ BucketInv
    BY DEF IInv
  <1>1. CASE Commit(p)
    BY <1>1, CommitRefines DEF Store!Next
  <1>2. CASE CommitClose(p)
    <2>1. /\ dbBar' = dbBar /\ modeBar'[p] = "none"
          /\ \A q \in Procs \ {p} : Kept(q)
      BY <1>0, <1>2, CloseTxFrame, Zenon DEF CommitClose
    <2>2. modeBar[p] = "none"
      BY <1>2 DEF CommitClose, modeBar
    <2>3. Kept(p)
      BY <2>1, <2>2, Zenon DEF Kept, snapBar, viewBar, freshBar
    <2> QED BY <2>1, <2>3, Stutter
  <1>3. CASE Rollback(p)
    <2>1. /\ dbBar' = dbBar /\ modeBar'[p] = "none"
          /\ \A q \in Procs \ {p} : Kept(q)
      BY <1>0, <1>3, CloseTxFrame, Zenon DEF Rollback
    <2>2. modeBar[p] # "none"
      BY <1>3 DEF Rollback, modeBar
    <2>3. Store!Rollback(p)
      BY <2>1, <2>2, EndAt DEF Store!Rollback
    <2> QED BY <2>3 DEF Store!Next
  <1>4. CASE RunHandler(p)
    <2>1. UNCHANGED <<state, heap>> /\ \A q \in Procs : SameTx(q)
      BY <1>4 DEF RunHandler, SameTx, modeBar
    <2> QED BY <1>0, <2>1, KeptIf, DbKept, Stutter
  <1> QED BY <1>1, <1>2, <1>3, <1>4 DEF Ends

\* DB.Close: the store is closed when the state is cleared.
LEMMA ClosesRefine ==
    ASSUME IInv, NEW p \in Procs, Closes(p)
    PROVE  Store!Next \/ UNCHANGED Store!svars
  <1> USE DEF Goto, txvars
  <1>0. TypeOK /\ TxInv /\ BucketInv /\ LockInv
    BY DEF IInv
  <1>1. UNCHANGED heap /\ \A q \in Procs : SameTx(q)
    BY <1>0, Zenon DEF Closes, Close, CloseLock, CloseMark, CloseState, SameTx, modeBar, TypeOK
  <1>2. \A q \in Procs : Kept(q)
    BY <1>0, <1>1, KeptIf
  <1>3. CASE UNCHANGED state
    BY <1>0, <1>1, <1>2, <1>3, DbKept, Stutter
  <1>4. CASE CloseState(p) /\ state # Nil
    <2>1. dbBar # Closed /\ dbBar' = Closed
      BY <1>0, <1>4, DbType DEF CloseState, dbBar
    <2>2. Store!NoWriter
      BY <1>0, <1>4, LockedNoWriter DEF CloseState
    <2>3. modeBar' = modeBar /\ snapBar' = snapBar /\ viewBar' = viewBar /\ freshBar' = freshBar
      <3>1. modeBar' = modeBar
        BY <1>2 DEF Kept, modeBar
      <3>2. snapBar' = snapBar
        BY <1>2 DEF Kept, snapBar
      <3>3. viewBar' = viewBar
        BY <1>2 DEF Kept, viewBar
      <3>4. freshBar' = freshBar
        BY <1>2 DEF Kept, freshBar
      <3> QED BY <3>1, <3>2, <3>3, <3>4
    <2>4. Store!Close
      BY <2>1, <2>2, <2>3 DEF Store!Close
    <2> QED BY <2>4 DEF Store!Next
  <1>5. UNCHANGED state \/ (CloseState(p) /\ state # Nil)
    BY DEF Closes, Close, CloseLock, CloseMark, CloseState
  <1> QED BY <1>3, <1>4, <1>5

----------------------------------------------------------------------------
\* vmbolt's transactions implement the snapshot store, whatever the number of
\* goroutines, buckets, keys, handles and nodes: begin, write, create, delete,
\* commit, rollback and close each take effect at one step of db.go or tx.go,
\* and every other step is invisible to the callers.
THEOREM Refinement == Spec => ImplementsSnapshotStore
  <1>1. Init => Store!Init
    <2> SUFFICES ASSUME Init
                 PROVE  Store!Init
      OBVIOUS
    <2>1. modeBar = [p \in Procs |-> "none"]
      BY DEF Init, modeBar
    <2>2. dbBar = [n \in Names |-> Absent]
      BY ConstantsAssumption DEF Init, dbBar, StoreOf, ContentsOf
    <2> QED BY <2>1, <2>2 DEF snapBar, viewBar, freshBar, Store!Init
  <1>2. IInv /\ [Next]_vars => [Store!Next]_(Store!svars)
    <2> SUFFICES ASSUME IInv, [Next]_vars
                 PROVE  Store!Next \/ UNCHANGED Store!svars
      OBVIOUS
    <2>0. TypeOK /\ TxInv /\ BucketInv
      BY DEF IInv
    <2>1. CASE UNCHANGED vars
      <3>1. UNCHANGED <<state, heap>> /\ \A q \in Procs : SameTx(q)
        BY <2>1 DEF vars, txvars, SameTx, modeBar
      <3> QED BY <2>0, <3>1, KeptIf, DbKept, Stutter
    <2>2. CASE Next
      BY <2>2, BeginsRefine, WorksRefine, EndsRefine, ClosesRefine DEF Next
    <2> QED BY <2>1, <2>2
  <1> QED BY <1>1, <1>2, Invariance, PTL DEF Spec, ImplementsSnapshotStore, Store!Spec

\* Commit loses nothing: what it stores is its transaction's view, for any number
\* of goroutines, buckets and nodes (tx.go:319-333).
THEOREM CommitLosesNothing == Spec => CommitPublishesView
  <1>1. IInv /\ [Next]_vars => [\A p \in Procs : Commit(p) => Store!Commit(p)]_vars
    BY CommitRefines
  <1> QED BY <1>1, Invariance, PTL DEF Spec, CommitPublishesView

----------------------------------------------------------------------------
(* The statistics of the database.                                         *)

\* Stats().OpenTxN is the number of open read transactions, whatever begins,
\* ends and closes concurrently (beginTx, Tx.close).
THEOREM ReadersCounted == ASSUME IsFiniteSet(Procs) PROVE Spec => []OpenTxNExact
  <1>1. Init => OpenTxNExact
    <2> HAVE Init
    <2>1. OpenReaders = {} /\ openTxN = 0
      BY DEF Init, OpenReaders
    <2> QED BY <2>1, FS_EmptySet DEF OpenTxNExact, OpenReaders
  <1>2. IInv /\ OpenTxNExact /\ [Next]_vars => OpenTxNExact'
    <2> SUFFICES ASSUME IInv, OpenTxNExact, [Next]_vars PROVE OpenTxNExact'
      OBVIOUS
    <2>1. OpenReaders \in SUBSET Procs
      BY DEF OpenReaders
    <2>2. IsFiniteSet(OpenReaders) /\ openTxN = Cardinality(OpenReaders)
      BY <2>1, FS_Subset DEF OpenTxNExact, OpenReaders
    <2>3. openTxN' = Cardinality(OpenReaders')
      <3>1. CASE OpenReaders' = OpenReaders /\ openTxN' = openTxN
        BY <2>2, <3>1
      <3>2. ASSUME NEW p, p \notin OpenReaders, OpenReaders' = OpenReaders \cup {p},
                   openTxN' = openTxN + 1
            PROVE  openTxN' = Cardinality(OpenReaders')
        BY <2>2, <3>2, FS_AddElement, Zenon
      <3>3. ASSUME NEW p, p \in OpenReaders, OpenReaders' = OpenReaders \ {p},
                   openTxN' = openTxN - 1
            PROVE  openTxN' = Cardinality(OpenReaders')
        BY <2>2, <3>3, FS_RemoveElement, Zenon
      <3> QED BY <3>1, <3>2, <3>3, ReadersStep
    <2> QED BY <2>3 DEF OpenTxNExact, OpenReaders
  <1> QED BY <1>1, <1>2, Invariance, PTL DEF Spec
============================================================================
