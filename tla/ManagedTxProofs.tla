-------------------------- MODULE ManagedTxProofs --------------------------
(***************************************************************************)
(* Every way out of Update, View and the Begin idiom releases the writer   *)
(* lock once, and publishes what it reports, for every number of           *)
(* goroutines, depth of nesting and number of handlers.                    *)
(***************************************************************************)
EXTENDS ManagedTx, FiniteSetTheorems, TLAPS

\* A View publishes nothing and never commits.
ViewFrame(f) == f.published = 0 /\ f.pc \in {"fn", "panic"} /\ f.panicIn \in {Nil, "fn"}

\* An Update is open from beginRWTx to Commit, whatever its function tries, and
\* has published when it has come to its handlers.
UpdateFrame(f) ==
    /\ f.pc \in {"fn", "commit"} => f.db
    /\ f.pc = "fn" => f.managed
    /\ f.pc \in {"beginRWTx", "handlers"} => ~f.db
    /\ f.published = IF "handlers" \in {f.pc, f.panicIn} THEN 1 ELSE 0

\* A transaction of Begin is open or published, never both, and Commit goes on
\* only with an open one.
BeginFrame(f) ==
    /\ f.db => f.published = 0
    /\ f.pc = "commit" => f.db
    /\ f.pc = "beginRWTx" => ~f.db /\ f.published = 0

Frames ==
    {f \in [kind : Kinds, pc : {"beginRWTx", "fn", "commit", "handlers", "panic"},
            panicIn : {Nil, "fn", "commit", "handlers"}, db : BOOLEAN, managed : BOOLEAN,
            handlers : Nat, published : {0, 1}] :
        /\ f.pc # "panic" => f.panicIn = Nil
        /\ f.kind = "View" => ViewFrame(f)
        /\ f.kind = "Update" => UpdateFrame(f)
        /\ f.kind = "Begin" => BeginFrame(f)}

\* The calls of a stack that hold the lock.
Holding(s) == {i \in 1..Len(s) : holdsLock(s[i])}

\* A call that has another call on top of it is in its function or a handler.
Waits(s) == \A i \in 1..(Len(s) - 1) : s[i].pc \in {"fn", "handlers"}

Stacks == {s \in Seq(Frames) : Waits(s)}

\* The inductive invariant.
ManagedInv ==
    /\ rwlock \in Procs \cup {Nil}
    /\ stack \in [Procs -> Stacks]
    /\ \A p \in Procs : IF rwlock = p THEN \E i \in 1..Len(stack[p]) : Holding(stack[p]) = {i}
                                      ELSE Holding(stack[p]) = {}

\* Front and Last take a stack apart, Append puts a call on it.
LEMMA Parts ==
  ASSUME NEW S, NEW s \in Seq(S), s # <<>>
  PROVE  /\ Len(s) \in Nat \ {0} /\ Last(s) = s[Len(s)] /\ Last(s) \in S
         /\ Front(s) \in Seq(S) /\ Len(Front(s)) = Len(s) - 1
         /\ \A i \in 1..(Len(s) - 1) : Front(s)[i] = s[i]
<1>1. Len(s) \in Nat \ {0}
  OBVIOUS
<1>2. s[Len(s)] \in S
  BY <1>1
<1> DEFINE n == Len(s) - 1
<1>3. n \in Nat /\ n <= Len(s) /\ n = Len(s) - 1
  BY <1>1
<1> HIDE DEF n
<1>4. SubSeq(s, 1, n) \in Seq(S)
  BY <1>3
<1>5. Len(SubSeq(s, 1, n)) = n /\ \A i \in 1..n : SubSeq(s, 1, n)[i] = s[i]
  BY <1>3
<1> QED
  BY <1>1, <1>2, <1>3, <1>4, <1>5 DEF Last, Front

\* What appending a frame does.
LEMMA Appended ==
  ASSUME NEW S, NEW s \in Seq(S), NEW g \in S
  PROVE  /\ Append(s, g) \in Seq(S) /\ Len(Append(s, g)) = Len(s) + 1 /\ Len(s) \in Nat
         /\ \A i \in 1..Len(s) : Append(s, g)[i] = s[i]
         /\ Append(s, g)[Len(s) + 1] = g
  OBVIOUS

\* A call on top of the others: they wait, and hold the lock or not as before.
LEMMA Pushed ==
  ASSUME NEW s \in Seq(Frames), NEW g \in Frames,
         \A i \in 1..Len(s) : s[i].pc \in {"fn", "handlers"}
  PROVE  /\ Append(s, g) \in Stacks
         /\ Len(Append(s, g)) = Len(s) + 1
         /\ Holding(Append(s, g)) = Holding(s) \cup (IF holdsLock(g) THEN {Len(s) + 1} ELSE {})
<1> DEFINE t == Append(s, g)
<1>1. /\ t \in Seq(Frames) /\ Len(t) = Len(s) + 1 /\ Len(s) \in Nat
      /\ \A i \in 1..Len(s) : t[i] = s[i]
      /\ t[Len(s) + 1] = g
  BY Appended
<1> HIDE DEF t
<1>2. Waits(t)
  BY <1>1 DEF Waits
<1>3. \A i : i \in Holding(t) <=> i \in Holding(s) \/ (i = Len(s) + 1 /\ holdsLock(g))
  <2> TAKE i
  <2>1. i \in 1..Len(t) <=> i \in 1..Len(s) \/ i = Len(s) + 1
    BY <1>1
  <2>2. CASE i = Len(s) + 1
    BY <1>1, <2>1, <2>2 DEF Holding
  <2>3. CASE i # Len(s) + 1
    <3>1. i \in 1..Len(s) => t[i] = s[i]
      BY <1>1
    <3> QED
      BY <2>1, <2>3, <3>1 DEF Holding
  <2> QED
    BY <2>2, <2>3
<1>4. Holding(t) = Holding(s) \cup (IF holdsLock(g) THEN {Len(s) + 1} ELSE {})
  BY <1>3, Zenon
<1> QED
  BY <1>1, <1>2, <1>4 DEF Stacks, t

\* The innermost call leaves the stack.
LEMMA Popped ==
  ASSUME NEW s \in Stacks, s # <<>>
  PROVE  /\ Front(s) \in Stacks /\ Front(s) \in Seq(Frames) /\ Last(s) \in Frames
         /\ Len(s) \in Nat \ {0} /\ Len(Front(s)) = Len(s) - 1 /\ Last(s) = s[Len(s)]
         /\ \A i \in 1..Len(Front(s)) : Front(s)[i].pc \in {"fn", "handlers"}
         /\ Holding(Front(s)) = Holding(s) \ {Len(s)}
         /\ Len(s) \in Holding(s) <=> holdsLock(Last(s))
<1> DEFINE t == Front(s)
<1>1. /\ s \in Seq(Frames) /\ Waits(s)
  BY DEF Stacks
<1>2. /\ Len(s) \in Nat \ {0} /\ Last(s) = s[Len(s)] /\ Last(s) \in Frames
      /\ t \in Seq(Frames) /\ Len(t) = Len(s) - 1
      /\ \A i \in 1..(Len(s) - 1) : t[i] = s[i]
  BY <1>1, Parts
<1> HIDE DEF t
<1>3. \A i \in 1..Len(t) : t[i].pc \in {"fn", "handlers"}
  BY <1>1, <1>2 DEF Waits
<1>4. t \in Stacks
  BY <1>2, <1>3 DEF Waits, Stacks
<1>5. \A i : i \in Holding(t) <=> i \in Holding(s) /\ i # Len(s)
  <2> TAKE i
  <2>1. i \in 1..Len(t) <=> i \in 1..Len(s) /\ i # Len(s)
    BY <1>2
  <2>2. i \in 1..Len(t) => t[i] = s[i]
    BY <1>2
  <2> QED
    BY <2>1, <2>2 DEF Holding
<1>6. Holding(t) = Holding(s) \ {Len(s)}
  BY <1>5, Zenon
<1>7. Len(s) \in Holding(s) <=> holdsLock(Last(s))
  BY <1>2 DEF Holding
<1> QED
  BY <1>2, <1>3, <1>4, <1>6, <1>7 DEF t

\* What the invariant says of one goroutine, and of the others after its step.
LEMMA OfOne ==
  ASSUME ManagedInv, NEW p \in Procs, stack[p] # <<>>
  PROVE  /\ stack[p] \in Stacks /\ top(p) \in Frames /\ p # Nil
         /\ rwlock = p \/ Holding(stack[p]) = {}
         /\ holdsLock(top(p)) => rwlock = p /\ Holding(stack[p]) = {Len(stack[p])}
<1>1. stack[p] \in Stacks /\ p # Nil
  BY ManagedAssumption DEF ManagedInv
<1>2. IF rwlock = p THEN \E i \in 1..Len(stack[p]) : Holding(stack[p]) = {i}
                    ELSE Holding(stack[p]) = {}
  BY DEF ManagedInv
<1>3. top(p) \in Frames /\ (holdsLock(top(p)) <=> Len(stack[p]) \in Holding(stack[p]))
  BY <1>1, Popped DEF top
<1> QED
  BY <1>1, <1>2, <1>3, Zenon

\* A step of one goroutine that takes, keeps or gives back the lock.
LEMMA OneStep ==
  ASSUME ManagedInv, NEW p \in Procs, NEW t \in Stacks, stack' = [stack EXCEPT ![p] = t],
         \/ rwlock' = rwlock /\ Holding(t) = Holding(stack[p])
         \/ rwlock = Nil /\ rwlock' = p /\ \E i \in 1..Len(t) : Holding(t) = {i}
         \/ rwlock = p /\ rwlock' = Nil /\ Holding(t) = {}
  PROVE  ManagedInv'
<1>1. rwlock' \in Procs \cup {Nil} /\ p # Nil
  BY ManagedAssumption DEF ManagedInv
<1>2. stack' \in [Procs -> Stacks] /\ stack'[p] = t /\ \A q \in Procs : q # p => stack'[q] = stack[q]
  BY DEF ManagedInv
<1>3. ASSUME NEW q \in Procs, q # p
      PROVE  IF rwlock' = q THEN \E i \in 1..Len(stack'[q]) : Holding(stack'[q]) = {i}
                            ELSE Holding(stack'[q]) = {}
  <2>1. q # Nil /\ stack'[q] = stack[q]
    BY <1>2, <1>3, ManagedAssumption
  <2>2. rwlock' = q <=> rwlock = q
    BY <1>3, <2>1
  <2>3. IF rwlock = q THEN \E i \in 1..Len(stack[q]) : Holding(stack[q]) = {i}
                      ELSE Holding(stack[q]) = {}
    BY DEF ManagedInv
  <2> QED
    BY <2>1, <2>2, <2>3, Zenon
<1>4. IF rwlock' = p THEN \E i \in 1..Len(t) : Holding(t) = {i} ELSE Holding(t) = {}
  <2>1. IF rwlock = p THEN \E i \in 1..Len(stack[p]) : Holding(stack[p]) = {i}
                      ELSE Holding(stack[p]) = {}
    BY DEF ManagedInv
  <2>2. CASE rwlock' = rwlock /\ Holding(t) = Holding(stack[p])
    <3>1. CASE rwlock = p
      <4>1. PICK i \in 1..Len(stack[p]) : Holding(t) = {i}
        BY <2>1, <2>2, <3>1, Zenon
      <4>2. i \in 1..Len(t)
        BY <4>1 DEF Holding
      <4> QED
        BY <2>2, <3>1, <4>1, <4>2, Zenon
    <3> QED
      BY <2>1, <2>2, <3>1, Zenon
  <2> QED
    BY <1>1, <2>2, Zenon
<1> QED
  BY <1>1, <1>2, <1>3, <1>4, Zenon DEF ManagedInv

\* The innermost call goes on as g, which may take the lock or release it.
LEMMA GoesOn ==
  ASSUME ManagedInv, NEW p \in Procs, stack[p] # <<>>, NEW g \in Frames, goesOn(p, g),
         \/ rwlock' = rwlock /\ (holdsLock(g) <=> holdsLock(top(p)))
         \/ rwlock = Nil /\ rwlock' = p /\ holdsLock(g)
         \/ rwlock' = Nil /\ holdsLock(top(p)) /\ ~holdsLock(g)
  PROVE  ManagedInv'
<1> DEFINE s == stack[p]
           t == Append(Front(s), g)
<1>1. /\ s \in Stacks /\ p # Nil /\ (rwlock = p \/ Holding(s) = {})
      /\ holdsLock(top(p)) => rwlock = p /\ Holding(s) = {Len(s)}
  BY OfOne, Zenon
<1>2. stack' = [stack EXCEPT ![p] = t]
  BY DEF goesOn
<1>3. /\ Front(s) \in Seq(Frames) /\ Len(s) \in Nat \ {0} /\ Len(Front(s)) = Len(s) - 1
      /\ \A i \in 1..Len(Front(s)) : Front(s)[i].pc \in {"fn", "handlers"}
      /\ Holding(Front(s)) = Holding(s) \ {Len(s)}
      /\ Len(s) \in Holding(s) <=> holdsLock(top(p))
  BY <1>1, Popped DEF top
<1>4. /\ t \in Stacks /\ Len(t) = Len(Front(s)) + 1
      /\ Holding(t) = Holding(Front(s)) \cup (IF holdsLock(g) THEN {Len(Front(s)) + 1} ELSE {})
  BY <1>3, Pushed
<1>5. Len(Front(s)) + 1 = Len(s) /\ Len(s) \in 1..Len(s)
  BY <1>3
<1> HIDE DEF s, t
<1>6. Len(t) = Len(s) /\ Holding(t) = (Holding(s) \ {Len(s)}) \cup (IF holdsLock(g) THEN {Len(s)} ELSE {})
  BY <1>3, <1>4, <1>5
<1>7. CASE rwlock' = rwlock /\ (holdsLock(g) <=> holdsLock(top(p)))
  <2>1. Holding(t) = Holding(s)
    BY <1>3, <1>6, <1>7, Zenon
  <2> QED
    BY <1>2, <1>4, <1>7, <2>1, OneStep, Zenon DEF s
<1>8. CASE rwlock = Nil /\ rwlock' = p /\ holdsLock(g)
  <2>1. Holding(t) = {Len(s)}
    BY <1>1, <1>6, <1>8, Zenon
  <2> QED
    BY <1>2, <1>4, <1>5, <1>6, <1>8, <2>1, OneStep, Zenon
<1>9. CASE rwlock' = Nil /\ holdsLock(top(p)) /\ ~holdsLock(g)
  <2>1. Holding(t) = {} /\ rwlock = p
    BY <1>1, <1>6, <1>9, Zenon
  <2> QED
    BY <1>2, <1>4, <1>9, <2>1, OneStep, Zenon
<1> QED
  BY <1>7, <1>8, <1>9

\* The innermost call ends and Tx.close releases the lock it may hold; the call
\* around it goes on, or panics.
LEMMA EndsClosed ==
  ASSUME ManagedInv, NEW p \in Procs, stack[p] # <<>>, close(top(p)),
         NEW t \in Stacks, stack' = [stack EXCEPT ![p] = t],
         Holding(t) = Holding(Front(stack[p]))
  PROVE  ManagedInv'
<1>1. /\ stack[p] \in Stacks /\ p # Nil
      /\ holdsLock(top(p)) => rwlock = p /\ Holding(stack[p]) = {Len(stack[p])}
  BY OfOne
<1>2. /\ Holding(t) = Holding(stack[p]) \ {Len(stack[p])}
      /\ Len(stack[p]) \in Holding(stack[p]) <=> holdsLock(top(p))
  BY <1>1, Popped DEF top
<1>3. CASE holdsLock(top(p))
  <2>1. rwlock' = Nil /\ rwlock = p /\ Holding(t) = {}
    BY <1>1, <1>2, <1>3, Zenon DEF close, holdsLock
  <2> QED
    BY <2>1, OneStep, Zenon
<1>4. CASE ~holdsLock(top(p))
  <2>1. rwlock' = rwlock /\ Holding(t) = Holding(stack[p])
    BY <1>2, <1>4, Zenon DEF close, holdsLock
  <2> QED
    BY <2>1, OneStep, Zenon
<1> QED
  BY <1>3, <1>4

\* A call that panics keeps its transaction as it is.
LEMMA PanicFrame ==
  ASSUME NEW f \in Frames, f.pc \in {"fn", "commit", "handlers"}
  PROVE  panics(f) \in Frames /\ (holdsLock(panics(f)) <=> holdsLock(f))
  BY ManagedAssumption, Zenon DEF Frames, panics, Kinds, ViewFrame, UpdateFrame, BeginFrame, holdsLock, writable

\* The calls that are made, begin, and count their handlers.
LEMMA CallFrame ==
  ASSUME NEW kind \in Kinds
  PROVE  call(kind) \in Frames /\ ~holdsLock(call(kind))
  BY ManagedAssumption, Zenon DEF Frames, call, Kinds, ViewFrame, UpdateFrame, BeginFrame, holdsLock, writable

\* A frame that has the lock and begins its transaction.
LEMMA BeginsFrame ==
  ASSUME NEW f \in Frames, f.pc = "beginRWTx"
  PROVE  /\ [f EXCEPT !.pc = "fn", !.db = TRUE, !.managed = f.kind = "Update"] \in Frames
         /\ holdsLock([f EXCEPT !.pc = "fn", !.db = TRUE, !.managed = f.kind = "Update"])
  BY ManagedAssumption, Zenon DEF Frames, Kinds, ViewFrame, UpdateFrame, BeginFrame, holdsLock, writable

\* A frame with another number of handlers.
LEMMA HandlersFrame ==
  ASSUME NEW f \in Frames, NEW n \in Nat
  PROVE  /\ [f EXCEPT !.handlers = n] \in Frames
         /\ holdsLock([f EXCEPT !.handlers = n]) <=> holdsLock(f)
  BY DEF Frames, Kinds, ViewFrame, UpdateFrame, BeginFrame, holdsLock, writable

\* Commit of a transaction of Begin, or of an Update whose function has returned.
LEMMA CommitFrame ==
  ASSUME NEW f \in Frames, f.pc = "fn", f.db, writable(f),
         NEW g, \/ f.kind = "Update" /\ g = [f EXCEPT !.managed = FALSE, !.pc = "commit"]
                \/ ~f.managed /\ g = [f EXCEPT !.pc = "commit"]
  PROVE  g \in Frames /\ (holdsLock(g) <=> holdsLock(f))
  BY ManagedAssumption, ZenonT(30) DEF Frames, Kinds, ViewFrame, UpdateFrame, BeginFrame, holdsLock, writable

\* Commit stores the state once, and closes.
LEMMA StoredFrame ==
  ASSUME NEW f \in Frames, f.pc = "commit",
         NEW g, g = [closed(f) EXCEPT !.pc = "handlers", !.published = @ + 1]
  PROVE  g \in Frames /\ ~holdsLock(g) /\ holdsLock(f)
<1>1. /\ f.published = 0 /\ f.panicIn = Nil /\ f.kind \in {"Update", "Begin"} /\ f.db
      /\ f.managed \in BOOLEAN /\ f.handlers \in Nat
  BY ManagedAssumption DEF Frames, Kinds, ViewFrame, UpdateFrame, BeginFrame
<1> DEFINE c == [f EXCEPT !.db = FALSE]
<1>3. c.published + 1 = 1 /\ g = [c EXCEPT !.pc = "handlers", !.published = c.published + 1]
  BY <1>1 DEF closed, Frames
<1>4. g = [c EXCEPT !.pc = "handlers", !.published = 1]
  BY <1>3, Zenon
<1>5. g = [f EXCEPT !.db = FALSE, !.pc = "handlers", !.published = 1]
  BY <1>4, Zenon
<1> HIDE DEF c
<1> QED
  BY <1>1, <1>5, ManagedAssumption, Zenon
     DEF Frames, Kinds, ViewFrame, UpdateFrame, BeginFrame, holdsLock, writable

\* Rollback closes; a managed transaction is not rolled back by its function.
LEMMA ClosedFrame ==
  ASSUME NEW f \in Frames, f.pc = "fn", ~f.managed
  PROVE  closed(f) \in Frames /\ ~holdsLock(closed(f))
  BY ManagedAssumption, Zenon DEF Frames, Kinds, ViewFrame, UpdateFrame, BeginFrame, holdsLock, writable, closed

\* The function that called Commit goes on.
LEMMA ReturnsFrame ==
  ASSUME NEW f \in Frames, f.pc = "handlers"
  PROVE  /\ ~f.db \/ f.kind = "Begin"
         /\ f.kind = "Begin" => /\ [f EXCEPT !.pc = "fn"] \in Frames
                                /\ holdsLock([f EXCEPT !.pc = "fn"]) <=> holdsLock(f)
  BY ManagedAssumption DEF Frames, Kinds, ViewFrame, UpdateFrame, BeginFrame, holdsLock, writable

\* No goroutine is in a call.
LEMMA ManagedInit == Init => ManagedInv
<1> SUFFICES ASSUME Init PROVE ManagedInv
  OBVIOUS
<1>1. << >> \in Stacks /\ Holding(<< >>) = {}
  BY DEF Stacks, Waits, Holding
<1>2. stack \in [Procs -> Stacks] /\ rwlock = Nil /\ \A p \in Procs : stack[p] = << >>
  BY <1>1 DEF Init
<1> QED
  BY <1>1, <1>2, ManagedAssumption DEF ManagedInv

\* What functions and handlers do before they end.
LEMMA CallStep ==
  ASSUME ManagedInv, NEW p \in Procs, NEW kind \in Kinds, Call(p, kind)
  PROVE  ManagedInv'
<1> DEFINE s == stack[p]
           t == Append(s, call(kind))
<1>1. s \in Stacks /\ s \in Seq(Frames)
  BY DEF ManagedInv, Stacks
<1>2. call(kind) \in Frames /\ ~holdsLock(call(kind))
  BY CallFrame
<1>3. \A i \in 1..Len(s) : s[i].pc \in {"fn", "handlers"}
  <2>1. CASE s = << >>
    BY <2>1
  <2>2. CASE s # << >>
    <3>1. Last(s).pc \in {"fn", "handlers"}
      BY <2>2 DEF Call, At, top
    <3>2. Len(s) \in Nat \ {0} /\ Last(s) = s[Len(s)]
      BY <1>1, <2>2, Popped
    <3>3. \A i \in 1..(Len(s) - 1) : s[i].pc \in {"fn", "handlers"}
      BY <1>1 DEF Stacks, Waits
    <3>4. \A i \in 1..Len(s) : i \in 1..(Len(s) - 1) \/ i = Len(s)
      BY <3>2
    <3> QED
      BY <3>1, <3>2, <3>3, <3>4, Zenon
  <2> QED
    BY <2>1, <2>2
<1>4. /\ t \in Stacks
      /\ Holding(t) = Holding(s) \cup (IF holdsLock(call(kind)) THEN {Len(s) + 1} ELSE {})
  BY <1>1, <1>2, <1>3, Pushed
<1>5. stack' = [stack EXCEPT ![p] = t] /\ rwlock' = rwlock
  BY DEF Call
<1> HIDE DEF t
<1>6. Holding(t) = Holding(s)
  BY <1>2, <1>4, Zenon
<1> QED
  BY <1>4, <1>5, <1>6, OneStep, Zenon

\* What a function does with its transaction.
LEMMA WorksStep ==
  ASSUME ManagedInv, NEW p \in Procs, OnCommit(p) \/ CallCommit(p) \/ CallRollback(p) \/ beginRWTx(p)
  PROVE  ManagedInv'
<1> DEFINE f == top(p)
<1>1. stack[p] # <<>> /\ f.pc \in {"fn", "beginRWTx"}
  BY DEF OnCommit, CallCommit, CallRollback, beginRWTx, At
<1>2. f \in Frames /\ (holdsLock(f) => rwlock = p)
  BY <1>1, OfOne
<1>3. f.handlers \in Nat /\ f.db \in BOOLEAN
  BY <1>2 DEF Frames
<1>4. CASE OnCommit(p)
  <2>1. goesOn(p, [f EXCEPT !.handlers = f.handlers + 1]) /\ rwlock' = rwlock
    BY <1>4 DEF OnCommit
  <2>2. f.handlers + 1 \in Nat
    BY <1>3
  <2> HIDE DEF f
  <2> QED
    BY <1>1, <1>2, <2>1, <2>2, HandlersFrame, GoesOn DEF f
<1>5. CASE CallCommit(p)
  <2>1. f.pc = "fn" /\ rwlock' = rwlock
    BY <1>5 DEF CallCommit, At
  <2>2. CASE goesOn(p, panics(f))
    BY <1>1, <1>2, <2>1, <2>2, PanicFrame, GoesOn
  <2>3. CASE ~f.managed /\ f.db /\ writable(f) /\ goesOn(p, [f EXCEPT !.pc = "commit"])
    BY <1>1, <1>2, <2>1, <2>3, CommitFrame, GoesOn, Zenon
  <2> QED
    BY <1>5, <2>2, <2>3 DEF CallCommit, asserts
<1>6. CASE CallRollback(p)
  <2>1. f.pc = "fn"
    BY <1>6 DEF CallRollback, At
  <2>2. CASE goesOn(p, panics(f)) /\ rwlock' = rwlock
    BY <1>1, <1>2, <2>1, <2>2, PanicFrame, GoesOn
  <2>3. CASE ~f.managed /\ f.db /\ goesOn(p, closed(f)) /\ close(f)
    <3>1. closed(f) \in Frames /\ ~holdsLock(closed(f))
      BY <1>2, <2>1, <2>3, ClosedFrame
    <3>2. IF holdsLock(f) THEN rwlock' = Nil ELSE rwlock' = rwlock
      BY <2>3 DEF close, holdsLock
    <3> QED
      BY <1>1, <2>3, <3>1, <3>2, GoesOn
  <2> QED
    BY <1>6, <2>2, <2>3 DEF CallRollback, asserts
<1>7. CASE beginRWTx(p)
  <2> DEFINE g == [f EXCEPT !.pc = "fn", !.db = TRUE, !.managed = f.kind = "Update"]
  <2>1. f.pc = "beginRWTx" /\ rwlock = Nil /\ rwlock' = p /\ goesOn(p, g)
    BY <1>7 DEF beginRWTx, At
  <2>2. g \in Frames /\ holdsLock(g)
    BY <1>2, <2>1, BeginsFrame, Zenon
  <2> HIDE DEF g
  <2> QED
    BY <1>1, <2>1, <2>2, GoesOn
<1> QED
  BY <1>4, <1>5, <1>6, <1>7

\* Commit, its panics, its handlers and its return.
LEMMA CommitStep ==
  ASSUME ManagedInv, NEW p \in Procs,
         FnReturnsNil(p) \/ Commit(p) \/ CommitPanics(p) \/ RunHandler(p) \/ CommitReturns(p)
  PROVE  ManagedInv'
<1> DEFINE f == top(p)
<1>1. stack[p] # <<>> /\ f.pc \in {"fn", "commit", "handlers"}
  BY DEF FnReturnsNil, Commit, CommitPanics, RunHandler, CommitReturns, At
<1>2. f \in Frames
  BY <1>1, OfOne
<1>3. f.handlers \in Nat
  BY <1>2 DEF Frames
<1>4. CASE FnReturnsNil(p)
  <2> DEFINE g == [f EXCEPT !.managed = FALSE, !.pc = "commit"]
  <2>1. f.pc = "fn" /\ f.kind = "Update" /\ rwlock' = rwlock /\ goesOn(p, g)
    BY <1>4 DEF FnReturnsNil, At
  <2>2. f.db /\ writable(f)
    BY <1>2, <2>1 DEF Frames, UpdateFrame, writable
  <2>3. g \in Frames /\ (holdsLock(g) <=> holdsLock(f))
    BY <1>2, <2>1, <2>2, CommitFrame, Zenon
  <2> HIDE DEF g
  <2> QED
    BY <1>1, <2>1, <2>3, GoesOn
<1>5. CASE Commit(p)
  <2> DEFINE g == [closed(f) EXCEPT !.pc = "handlers", !.published = @ + 1]
  <2>1. f.pc = "commit" /\ close(f) /\ goesOn(p, g)
    BY <1>5 DEF Commit, At
  <2>2. g \in Frames /\ ~holdsLock(g) /\ holdsLock(f)
    BY <1>2, <2>1, StoredFrame, Zenon
  <2>3. rwlock' = Nil
    BY <2>1, <2>2 DEF close, holdsLock
  <2> HIDE DEF g
  <2> QED
    BY <1>1, <2>1, <2>2, <2>3, GoesOn
<1>6. CASE goesOn(p, panics(f)) /\ rwlock' = rwlock
  BY <1>1, <1>2, <1>6, PanicFrame, GoesOn
<1>7. CASE RunHandler(p) /\ ~goesOn(p, panics(f))
  <2>1. f.handlers - 1 \in Nat /\ goesOn(p, [f EXCEPT !.handlers = f.handlers - 1]) /\ rwlock' = rwlock
    BY <1>3, <1>7 DEF RunHandler
  <2> HIDE DEF f
  <2> QED
    BY <1>1, <1>2, <2>1, HandlersFrame, GoesOn DEF f
<1>8. CASE CommitReturns(p)
  <2>1. f.pc = "handlers" /\ rwlock' = rwlock /\ uncounted' = uncounted
    BY <1>8 DEF CommitReturns, At
  <2>2. CASE f.kind = "Begin"
    <3>1. goesOn(p, [f EXCEPT !.pc = "fn"])
      BY <1>8, <2>2 DEF CommitReturns
    <3> QED
      BY <1>1, <1>2, <2>1, <2>2, <3>1, ReturnsFrame, GoesOn
  <2>3. CASE f.kind # "Begin"
    <3>1. stack' = [stack EXCEPT ![p] = Front(stack[p])]
      BY <1>8, <2>3 DEF CommitReturns, ends
    <3>2. close(f)
      BY <1>2, <2>1, <2>3, ReturnsFrame, Zenon DEF close
    <3>3. Front(stack[p]) \in Stacks
      BY <1>1, OfOne, Popped
    <3> QED
      BY <1>1, <3>1, <3>2, <3>3, EndsClosed, Zenon
  <2> QED
    BY <2>2, <2>3
<1> QED
  BY <1>4, <1>5, <1>6, <1>7, <1>8 DEF CommitPanics, RunHandler

\* A function that fails or panics, and a panic that leaves its call.
LEMMA EndStep ==
  ASSUME ManagedInv, NEW p \in Procs, FnRollsBack(p) \/ FnPanics(p) \/ Unwind(p)
  PROVE  ManagedInv'
<1> DEFINE f == top(p)
           st == Front(stack[p])
<1>1. stack[p] # <<>>
  BY DEF FnRollsBack, FnPanics, Unwind, At
<1>2. f \in Frames /\ stack[p] \in Stacks
  BY <1>1, OfOne
<1>3. /\ st \in Stacks /\ st \in Seq(Frames)
      /\ \A i \in 1..Len(st) : st[i].pc \in {"fn", "handlers"}
  BY <1>1, <1>2, Popped
<1>4. CASE FnPanics(p)
  <2>1. f.pc = "fn" /\ goesOn(p, panics(f)) /\ rwlock' = rwlock
    BY <1>4 DEF FnPanics, At
  <2> QED
    BY <1>1, <1>2, <2>1, PanicFrame, GoesOn
<1>5. CASE close(f) /\ stack' = [stack EXCEPT ![p] = st]
  BY <1>1, <1>3, <1>5, EndsClosed, Zenon
<1>6. CASE close(f) /\ st # <<>> /\ stack' = [stack EXCEPT ![p] = Append(Front(st), panics(Last(st)))]
  <2> DEFINE g == panics(Last(st))
             t == Append(Front(st), g)
  <2>1. /\ Front(st) \in Seq(Frames) /\ Last(st) \in Frames /\ Last(st) = st[Len(st)]
        /\ Len(st) \in Nat \ {0} /\ Len(Front(st)) = Len(st) - 1
        /\ \A i \in 1..Len(Front(st)) : Front(st)[i].pc \in {"fn", "handlers"}
        /\ Holding(Front(st)) = Holding(st) \ {Len(st)}
        /\ Len(st) \in Holding(st) <=> holdsLock(Last(st))
    BY <1>3, <1>6, Popped
  <2>2. Last(st).pc \in {"fn", "handlers"}
    BY <1>3, <2>1
  <2>3. g \in Frames /\ (holdsLock(g) <=> holdsLock(Last(st)))
    BY <2>1, <2>2, PanicFrame
  <2>4. /\ t \in Stacks
        /\ Holding(t) = Holding(Front(st)) \cup (IF holdsLock(g) THEN {Len(Front(st)) + 1} ELSE {})
    BY <2>1, <2>3, Pushed
  <2>5. Len(Front(st)) + 1 = Len(st)
    BY <2>1
  <2> HIDE DEF g, t
  <2>6. Holding(t) = Holding(st)
    BY <2>1, <2>3, <2>4, <2>5, Zenon
  <2>7. stack' = [stack EXCEPT ![p] = t]
    BY <1>6 DEF t, g
  <2> QED
    BY <1>1, <1>6, <2>4, <2>6, <2>7, EndsClosed, Zenon
<1>7. CASE Unwind(p)
  BY <1>5, <1>6, <1>7, Zenon DEF Unwind, deferred
<1>8. CASE FnRollsBack(p)
  BY <1>5, <1>8 DEF FnRollsBack, ends
<1> QED
  BY <1>4, <1>7, <1>8

\* Every step of every goroutine keeps the invariant.
LEMMA ManagedStep == ManagedInv /\ [Next]_vars => ManagedInv'
<1> SUFFICES ASSUME ManagedInv, [Next]_vars PROVE ManagedInv'
  OBVIOUS
<1>1. CASE UNCHANGED vars
  BY <1>1 DEF vars, ManagedInv
<1>2. ASSUME NEW p \in Procs, Works(p) \/ beginRWTx(p) PROVE ManagedInv'
  BY <1>2, CallStep, WorksStep DEF Works
<1>3. ASSUME NEW p \in Procs, FnEnds(p) \/ RunHandler(p) \/ Ends(p) PROVE ManagedInv'
  BY <1>3, CommitStep, EndStep DEF FnEnds, Ends
<1> QED
  BY <1>1, <1>2, <1>3 DEF Next

\* Where a call is tells whether its transaction is open and has published, and
\* the holder of rwlock has one open writable transaction on its stack.
THEOREM ManagedInvariance == Spec => []ManagedInv
  BY ManagedInit, ManagedStep, PTL DEF Spec

\* The writer lock is held exactly while its holder has one open write
\* transaction: whatever functions, commits and handlers return, panic or call,
\* the lock is neither kept nor released a second time.
THEOREM ManagedLock == Spec => []LockIsOpenWriter
<1>1. ManagedInv => LockIsOpenWriter
  <2> SUFFICES ASSUME ManagedInv, NEW p \in Procs
               PROVE  \/ rwlock = p /\ Cardinality(Holding(stack[p])) = 1
                      \/ rwlock # p /\ \A i \in 1..Len(stack[p]) : ~holdsLock(stack[p][i])
    BY Zenon DEF LockIsOpenWriter, Holding
  <2>1. IF rwlock = p THEN \E i \in 1..Len(stack[p]) : Holding(stack[p]) = {i}
                      ELSE Holding(stack[p]) = {}
    BY DEF ManagedInv
  <2>2. CASE rwlock = p
    <3>1. PICK i \in 1..Len(stack[p]) : Holding(stack[p]) = {i}
      BY <2>1, <2>2, Zenon
    <3> QED
      BY <2>2, <3>1, FS_Singleton, Zenon
  <2>3. CASE rwlock # p
    BY <2>1, <2>3 DEF Holding
  <2> QED
    BY <2>2, <2>3
<1> QED
  BY <1>1, ManagedInvariance, PTL

\* An Update that ends has published one state if it came to its handlers and
\* none otherwise, a View none, and no transaction more than one.
THEOREM ManagedPublished == Spec => PublishedOrNot
<1>1. ManagedInv /\ [Next]_vars =>
        [\A p \in Procs : Len(stack'[p]) < Len(stack[p]) =>
           \E f \in {top(p)} :
              /\ f.published \in {0, 1}
              /\ f.kind = "Update" =>
                    f.published = IF "handlers" \in {f.pc, f.panicIn} THEN 1 ELSE 0
              /\ f.kind = "View" => f.published = 0]_vars
  <2> SUFFICES ASSUME ManagedInv, [Next]_vars, NEW p \in Procs, Len(stack'[p]) < Len(stack[p])
               PROVE  /\ top(p).published \in {0, 1}
                      /\ top(p).kind = "Update" =>
                           top(p).published = IF "handlers" \in {top(p).pc, top(p).panicIn} THEN 1 ELSE 0
                      /\ top(p).kind = "View" => top(p).published = 0
    BY Zenon
  <2>1. stack[p] # << >>
    <3>1. ManagedInv'
      BY ManagedStep
    <3>2. stack'[p] \in Seq(Frames)
      BY <3>1 DEF ManagedInv, Stacks
    <3>3. Len(stack'[p]) \in Nat
      BY <3>2
    <3> QED
      BY <3>3
  <2>2. top(p) \in Frames
    BY <2>1, OfOne
  <2> QED
    BY <2>2 DEF Frames, UpdateFrame, ViewFrame
<1> QED
  BY <1>1, ManagedInvariance, PTL DEF Spec, PublishedOrNot
----------------------------------------------------------------------------
(* The counters of the transactions.                                       *)

\* The calls of a stack whose transactions are open.
OpenIn(s) == {i \in 1..Len(s) : s[i].db}

\* The stack of p becomes t: the step begins a transaction, closes one and adds
\* its counters, or does neither.
Counts(p, t) ==
    /\ stack' = [stack EXCEPT ![p] = t] /\ t \in Seq(Frames)
    /\ Len(t) <= MaxDepth
    /\ \/ OpenIn(t) = OpenIn(stack[p]) /\ uncounted' = uncounted
       \/ \E i \in 1..Len(t) : /\ i \notin OpenIn(stack[p]) /\ OpenIn(t) = OpenIn(stack[p]) \cup {i}
                               /\ uncounted' = uncounted + 1
       \/ \E i \in OpenIn(stack[p]) : /\ OpenIn(t) = OpenIn(stack[p]) \ {i}
                                      /\ uncounted' = uncounted - 1

\* A call on top of the others.
LEMMA OpenPushed ==
  ASSUME NEW s \in Seq(Frames), NEW g \in Frames
  PROVE  OpenIn(Append(s, g)) = OpenIn(s) \cup (IF g.db THEN {Len(s) + 1} ELSE {})
<1> DEFINE t == Append(s, g)
<1>1. /\ Len(t) = Len(s) + 1 /\ Len(s) \in Nat
      /\ \A i \in 1..Len(s) : t[i] = s[i]
      /\ t[Len(s) + 1] = g
  BY Appended
<1> HIDE DEF t
<1>2. \A i : i \in OpenIn(t) <=> i \in OpenIn(s) \/ (i = Len(s) + 1 /\ g.db)
  <2> TAKE i
  <2>1. i \in 1..Len(t) <=> i \in 1..Len(s) \/ i = Len(s) + 1
    BY <1>1
  <2>2. CASE i = Len(s) + 1
    BY <1>1, <2>1, <2>2 DEF OpenIn
  <2>3. CASE i # Len(s) + 1
    <3>1. i \in 1..Len(s) => t[i] = s[i]
      BY <1>1
    <3> QED
      BY <2>1, <2>3, <3>1 DEF OpenIn
  <2> QED
    BY <2>2, <2>3
<1> QED
  BY <1>2, Zenon DEF t

\* The innermost call leaves.
LEMMA OpenPopped ==
  ASSUME NEW s \in Seq(Frames), s # <<>>
  PROVE  /\ OpenIn(Front(s)) = OpenIn(s) \ {Len(s)}
         /\ Len(s) \in OpenIn(s) <=> Last(s).db
<1> DEFINE t == Front(s)
<1>1. /\ Len(s) \in Nat \ {0} /\ Last(s) = s[Len(s)] /\ Len(t) = Len(s) - 1
      /\ \A i \in 1..(Len(s) - 1) : t[i] = s[i]
  BY Parts
<1> HIDE DEF t
<1>2. \A i : i \in OpenIn(t) <=> i \in OpenIn(s) /\ i # Len(s)
  <2> TAKE i
  <2>1. i \in 1..Len(t) <=> i \in 1..Len(s) /\ i # Len(s)
    BY <1>1
  <2>2. i \in 1..Len(t) => t[i] = s[i]
    BY <1>1
  <2> QED
    BY <2>1, <2>2 DEF OpenIn
<1>3. OpenIn(t) = OpenIn(s) \ {Len(s)}
  BY <1>2, Zenon
<1>4. Len(s) \in OpenIn(s) <=> Last(s).db
  BY <1>1 DEF OpenIn
<1> QED
  BY <1>3, <1>4 DEF t

\* The innermost call goes on as g, whose transaction is open as before, begins
\* or is closed.
LEMMA CountGoesOn ==
  ASSUME ManagedInv, NEW p \in Procs, stack[p] # <<>>, Len(stack[p]) <= MaxDepth,
         NEW g \in Frames, goesOn(p, g),
         \/ uncounted' = uncounted /\ (g.db <=> top(p).db)
         \/ uncounted' = uncounted + 1 /\ g.db /\ ~top(p).db
         \/ uncounted' = uncounted - 1 /\ ~g.db /\ top(p).db
  PROVE  \E t : Counts(p, t)
<1> DEFINE s == stack[p]
           t == Append(Front(s), g)
<1>1. s \in Seq(Frames) /\ s # <<>>
  BY DEF ManagedInv, Stacks
<1>2. stack' = [stack EXCEPT ![p] = t]
  BY DEF goesOn
<1>3. /\ Len(s) \in Nat \ {0} /\ Front(s) \in Seq(Frames) /\ Len(Front(s)) = Len(s) - 1
      /\ OpenIn(Front(s)) = OpenIn(s) \ {Len(s)}
      /\ Len(s) \in OpenIn(s) <=> top(p).db
  BY <1>1, Parts, OpenPopped DEF top
<1>4. /\ t \in Seq(Frames) /\ Len(t) = Len(Front(s)) + 1
      /\ OpenIn(t) = OpenIn(Front(s)) \cup (IF g.db THEN {Len(Front(s)) + 1} ELSE {})
  BY <1>3, Appended, OpenPushed
<1>5. Len(Front(s)) + 1 = Len(s) /\ Len(t) = Len(s) /\ Len(s) \in 1..Len(t)
  BY <1>3, <1>4
<1> HIDE DEF s, t
<1>6. OpenIn(t) = (OpenIn(s) \ {Len(s)}) \cup (IF g.db THEN {Len(s)} ELSE {})
  BY <1>3, <1>4, <1>5, Zenon
<1>7. CASE uncounted' = uncounted /\ (g.db <=> top(p).db)
  <2>1. OpenIn(t) = OpenIn(s)
    BY <1>3, <1>6, <1>7, Zenon
  <2> QED
    BY <1>2, <1>4, <1>5, <1>7, <2>1, Zenon DEF Counts, s
<1>8. CASE uncounted' = uncounted + 1 /\ g.db /\ ~top(p).db
  <2>1. Len(s) \notin OpenIn(s) /\ OpenIn(t) = OpenIn(s) \cup {Len(s)}
    BY <1>3, <1>6, <1>8, Zenon
  <2> QED
    BY <1>2, <1>4, <1>5, <1>8, <2>1, Zenon DEF Counts, s
<1>9. CASE uncounted' = uncounted - 1 /\ ~g.db /\ top(p).db
  <2>1. Len(s) \in OpenIn(s) /\ OpenIn(t) = OpenIn(s) \ {Len(s)}
    BY <1>3, <1>6, <1>9, Zenon
  <2> QED
    BY <1>2, <1>4, <1>5, <1>9, <2>1, Zenon DEF Counts, s
<1> QED
  BY <1>7, <1>8, <1>9

\* The innermost call ends and Tx.close adds its counters, if its transaction is
\* open; the stack becomes t, in which the other transactions are open as before.
LEMMA CountEnds ==
  ASSUME ManagedInv, NEW p \in Procs, stack[p] # <<>>, Len(stack[p]) <= MaxDepth,
         NEW t \in Seq(Frames), stack' = [stack EXCEPT ![p] = t],
         Len(t) <= Len(stack[p]), OpenIn(t) = OpenIn(Front(stack[p])),
         uncounted' = IF top(p).db THEN uncounted - 1 ELSE uncounted
  PROVE  Counts(p, t)
<1> DEFINE s == stack[p]
<1>1. s \in Seq(Frames) /\ s # <<>>
  BY DEF ManagedInv, Stacks
<1>2. OpenIn(t) = OpenIn(s) \ {Len(s)} /\ (Len(s) \in OpenIn(s) <=> top(p).db)
  BY <1>1, OpenPopped DEF top
<1>3. Len(t) <= MaxDepth
  <2>1. Len(t) \in Nat /\ Len(s) \in Nat /\ MaxDepth \in Nat
    BY <1>1, ManagedAssumption
  <2> QED
    BY <2>1
<1> HIDE DEF s
<1>4. CASE top(p).db
  <2>1. Len(s) \in OpenIn(s) /\ uncounted' = uncounted - 1
    BY <1>2, <1>4
  <2> QED
    BY <1>2, <1>3, <2>1, Zenon DEF Counts, s
<1>5. CASE ~top(p).db
  <2>1. OpenIn(t) = OpenIn(s) /\ uncounted' = uncounted
    BY <1>2, <1>5, Zenon
  <2> QED
    BY <1>3, <2>1, Zenon DEF Counts, s
<1> QED
  BY <1>4, <1>5

\* What a call's frame is after a step of its function, Commit and handlers.
LEMMA CountWorks ==
  ASSUME ManagedInv, NEW p \in Procs, stack[p] # <<>>, Len(stack[p]) <= MaxDepth,
         \/ OnCommit(p) \/ CallCommit(p) \/ CallRollback(p) \/ beginRWTx(p)
         \/ FnReturnsNil(p) \/ FnPanics(p) \/ RunHandler(p) \/ Commit(p) \/ CommitPanics(p)
  PROVE  \E t : Counts(p, t)
<1> DEFINE f == top(p)
<1>1. f \in Frames
  BY OfOne, Zenon
<1>2. ASSUME f.pc \in {"fn", "commit", "handlers"}, goesOn(p, panics(f)), uncounted' = uncounted
      PROVE  \E t : Counts(p, t)
  <2>1. panics(f) \in Frames /\ (panics(f).db <=> f.db)
    BY <1>1, <1>2, PanicFrame DEF panics, Frames
  <2> QED
    BY <1>2, <2>1, CountGoesOn
<1>3. CASE OnCommit(p)
  <2>1. goesOn(p, [f EXCEPT !.handlers = f.handlers + 1]) /\ uncounted' = uncounted
    BY <1>3 DEF OnCommit
  <2>2. f.handlers + 1 \in Nat
    BY <1>1 DEF Frames
  <2>3. [f EXCEPT !.handlers = f.handlers + 1] \in Frames
    BY <1>1, <2>2, HandlersFrame
  <2>4. [f EXCEPT !.handlers = f.handlers + 1].db <=> f.db
    BY <1>1 DEF Frames
  <2> QED
    BY <2>1, <2>3, <2>4, CountGoesOn
<1>4. CASE CallCommit(p)
  <2>1. f.pc = "fn" /\ uncounted' = uncounted
    BY <1>4 DEF CallCommit, At
  <2>2. CASE goesOn(p, panics(f))
    BY <1>2, <2>1, <2>2
  <2>3. CASE ~f.managed /\ f.db /\ writable(f) /\ goesOn(p, [f EXCEPT !.pc = "commit"])
    <3>1. [f EXCEPT !.pc = "commit"] \in Frames
      BY <1>1, <2>1, <2>3, CommitFrame
    <3>2. [f EXCEPT !.pc = "commit"].db <=> f.db
      BY <1>1 DEF Frames
    <3> QED
      BY <2>1, <2>3, <3>1, <3>2, CountGoesOn
  <2> QED
    BY <1>4, <2>2, <2>3 DEF CallCommit, asserts
<1>5. CASE CallRollback(p)
  <2>1. f.pc = "fn"
    BY <1>5 DEF CallRollback, At
  <2>2. CASE goesOn(p, panics(f)) /\ uncounted' = uncounted
    BY <1>2, <2>1, <2>2
  <2>3. CASE ~f.managed /\ f.db /\ goesOn(p, closed(f)) /\ close(f)
    <3>1. closed(f) \in Frames
      BY <1>1, <2>1, <2>3, ClosedFrame
    <3>2. ~closed(f).db /\ uncounted' = uncounted - 1
      BY <1>1, <2>3 DEF closed, close, Frames
    <3> QED
      BY <2>3, <3>1, <3>2, CountGoesOn
  <2> QED
    BY <1>5, <2>2, <2>3 DEF CallRollback, asserts
<1>6. CASE beginRWTx(p)
  <2> DEFINE g == [f EXCEPT !.pc = "fn", !.db = TRUE, !.managed = f.kind = "Update"]
  <2>1. f.pc = "beginRWTx" /\ goesOn(p, g) /\ uncounted' = uncounted + 1
    BY <1>6 DEF beginRWTx, At
  <2>2. g \in Frames
    BY <1>1, <2>1, BeginsFrame
  <2>3. g.db /\ ~f.db
    BY <1>1, <2>1, ManagedAssumption DEF Frames, Kinds, ViewFrame, UpdateFrame, BeginFrame
  <2> HIDE DEF g
  <2> QED
    BY <2>1, <2>2, <2>3, CountGoesOn
<1>7. CASE FnReturnsNil(p)
  <2> DEFINE g == [f EXCEPT !.managed = FALSE, !.pc = "commit"]
  <2>1. f.pc = "fn" /\ f.kind = "Update" /\ goesOn(p, g) /\ uncounted' = uncounted
    BY <1>7 DEF FnReturnsNil, At
  <2>2. f.db /\ writable(f)
    BY <1>1, <2>1 DEF Frames, UpdateFrame, writable
  <2>3. g \in Frames
    BY <1>1, <2>1, <2>2, CommitFrame
  <2>4. g.db <=> f.db
    BY <1>1 DEF Frames
  <2> HIDE DEF g
  <2> QED
    BY <2>1, <2>3, <2>4, CountGoesOn
<1>8. CASE FnPanics(p) \/ CommitPanics(p)
  BY <1>2, <1>8 DEF FnPanics, CommitPanics, At
<1>9. CASE RunHandler(p)
  <2>1. f.pc = "handlers" /\ f.handlers > 0 /\ uncounted' = uncounted
    BY <1>9 DEF RunHandler, At
  <2>2. CASE goesOn(p, panics(f))
    BY <1>2, <2>1, <2>2
  <2>3. CASE goesOn(p, [f EXCEPT !.handlers = f.handlers - 1])
    <3>1. f.handlers - 1 \in Nat
      BY <1>1, <2>1 DEF Frames
    <3>2. [f EXCEPT !.handlers = f.handlers - 1] \in Frames
      BY <1>1, <3>1, HandlersFrame
    <3>3. [f EXCEPT !.handlers = f.handlers - 1].db <=> f.db
      BY <1>1 DEF Frames
    <3> QED
      BY <2>1, <2>3, <3>2, <3>3, CountGoesOn
  <2> QED
    BY <1>9, <2>2, <2>3 DEF RunHandler
<1>10. CASE Commit(p)
  <2> DEFINE g == [closed(f) EXCEPT !.pc = "handlers", !.published = @ + 1]
  <2>1. f.pc = "commit" /\ close(f) /\ goesOn(p, g)
    BY <1>10 DEF Commit, At
  <2>2. g \in Frames /\ holdsLock(f)
    BY <1>1, <2>1, StoredFrame
  <2>3. ~g.db /\ f.db /\ uncounted' = uncounted - 1
    BY <1>1, <2>1, <2>2 DEF closed, close, Frames, holdsLock
  <2> HIDE DEF g
  <2> QED
    BY <2>1, <2>2, <2>3, CountGoesOn
<1> QED
  BY <1>3, <1>4, <1>5, <1>6, <1>7, <1>8, <1>9, <1>10

\* A call is made; a View has its transaction at once.
LEMMA CountCall ==
  ASSUME ManagedInv, NEW p \in Procs, NEW kind \in Kinds, Call(p, kind)
  PROVE  \E t : Counts(p, t)
<1> DEFINE s == stack[p]
           g == call(kind)
           t == Append(s, g)
<1>1. s \in Seq(Frames) /\ g \in Frames /\ (g.db <=> kind = "View")
  BY CallFrame DEF ManagedInv, Stacks, call
<1>2. /\ stack' = [stack EXCEPT ![p] = t] /\ Len(s) < MaxDepth
      /\ uncounted' = IF kind = "View" THEN uncounted + 1 ELSE uncounted
  BY DEF Call
<1>3. /\ t \in Seq(Frames) /\ Len(t) = Len(s) + 1 /\ Len(s) \in Nat
      /\ OpenIn(t) = OpenIn(s) \cup (IF g.db THEN {Len(s) + 1} ELSE {})
  BY <1>1, Appended, OpenPushed
<1>4. Len(t) <= MaxDepth /\ Len(s) + 1 \in 1..Len(t) /\ Len(s) + 1 \notin 1..Len(s)
  BY <1>2, <1>3, ManagedAssumption
<1>5. Len(s) + 1 \notin OpenIn(s)
  BY <1>4, Zenon DEF OpenIn
<1> HIDE DEF s, g, t
<1>6. CASE kind = "View"
  <2>1. OpenIn(t) = OpenIn(s) \cup {Len(s) + 1} /\ uncounted' = uncounted + 1
    BY <1>1, <1>2, <1>3, <1>6, Zenon
  <2> QED
    BY <1>2, <1>3, <1>4, <1>5, <2>1, Zenon DEF Counts, s
<1>7. CASE kind # "View"
  <2>1. OpenIn(t) = OpenIn(s) /\ uncounted' = uncounted
    BY <1>1, <1>2, <1>3, <1>7, Zenon
  <2> QED
    BY <1>2, <1>3, <1>4, <2>1, Zenon DEF Counts, s
<1> QED
  BY <1>6, <1>7

\* The ends of a call.
LEMMA CountLeaves ==
  ASSUME ManagedInv, NEW p \in Procs, stack[p] # <<>>, Len(stack[p]) <= MaxDepth,
         FnRollsBack(p) \/ CommitReturns(p) \/ Unwind(p)
  PROVE  \E t : Counts(p, t)
<1> DEFINE f == top(p)
           st == Front(stack[p])
<1>1. f \in Frames /\ stack[p] \in Stacks
  BY OfOne
<1>2. /\ st \in Stacks /\ st \in Seq(Frames) /\ Len(stack[p]) \in Nat /\ Len(st) = Len(stack[p]) - 1
      /\ \A i \in 1..Len(st) : st[i].pc \in {"fn", "handlers"}
  BY <1>1, Popped
<1>3. Len(st) <= Len(stack[p])
  BY <1>2
<1>4. CASE close(f) /\ stack' = [stack EXCEPT ![p] = st]
  BY <1>2, <1>3, <1>4, CountEnds, Zenon DEF close
<1>5. CASE close(f) /\ st # <<>> /\ stack' = [stack EXCEPT ![p] = Append(Front(st), panics(Last(st)))]
  <2> DEFINE g == panics(Last(st))
             t == Append(Front(st), g)
  <2>1. /\ Front(st) \in Seq(Frames) /\ Last(st) \in Frames /\ Last(st) = st[Len(st)]
        /\ Len(st) \in Nat \ {0} /\ Len(Front(st)) = Len(st) - 1
        /\ OpenIn(Front(st)) = OpenIn(st) \ {Len(st)}
        /\ Len(st) \in OpenIn(st) <=> Last(st).db
    BY <1>2, <1>5, Popped, OpenPopped
  <2>2. Last(st).pc \in {"fn", "handlers"}
    BY <1>2, <2>1
  <2>3. g \in Frames /\ (g.db <=> Last(st).db)
    BY <2>1, <2>2, PanicFrame DEF panics, Frames
  <2>4. /\ t \in Seq(Frames) /\ Len(t) = Len(Front(st)) + 1
        /\ OpenIn(t) = OpenIn(Front(st)) \cup (IF g.db THEN {Len(Front(st)) + 1} ELSE {})
    BY <2>1, <2>3, Appended, OpenPushed
  <2>5. Len(Front(st)) + 1 = Len(st) /\ Len(t) <= Len(stack[p])
    BY <1>2, <2>1, <2>4
  <2> HIDE DEF g, t
  <2>6. OpenIn(t) = OpenIn(st)
    BY <2>1, <2>3, <2>4, <2>5, Zenon
  <2>7. stack' = [stack EXCEPT ![p] = t]
    BY <1>5 DEF t, g
  <2> QED
    BY <1>5, <2>4, <2>5, <2>6, <2>7, CountEnds, Zenon DEF close
<1>6. CASE Unwind(p)
  BY <1>4, <1>5, <1>6, Zenon DEF Unwind, deferred
<1>7. CASE FnRollsBack(p)
  BY <1>4, <1>7 DEF FnRollsBack, ends
<1>8. CASE CommitReturns(p)
  <2>1. f.pc = "handlers" /\ uncounted' = uncounted
    BY <1>8 DEF CommitReturns, At
  <2>2. CASE f.kind = "Begin"
    <3>1. goesOn(p, [f EXCEPT !.pc = "fn"])
      BY <1>8, <2>2 DEF CommitReturns
    <3>2. [f EXCEPT !.pc = "fn"] \in Frames
      BY <1>1, <2>1, <2>2, ReturnsFrame
    <3>3. [f EXCEPT !.pc = "fn"].db <=> f.db
      BY <1>1 DEF Frames
    <3> QED
      BY <2>1, <3>1, <3>2, <3>3, CountGoesOn
  <2>3. CASE f.kind # "Begin"
    <3>1. stack' = [stack EXCEPT ![p] = st]
      BY <1>8, <2>3 DEF CommitReturns, ends
    <3>2. ~f.db
      BY <1>1, <2>1, <2>3, ReturnsFrame
    <3> QED
      BY <1>2, <1>3, <2>1, <3>1, <3>2, CountEnds, Zenon
  <2> QED
    BY <2>2, <2>3
<1> QED
  BY <1>6, <1>7, <1>8

\* No goroutine is in more calls than MaxDepth.
Deep == \A p \in Procs : Len(stack[p]) <= MaxDepth

\* Every step begins one transaction, adds the counters of one, or does neither.
LEMMA CountStep ==
  ASSUME ManagedInv, Deep, Next
  PROVE  \E p \in Procs : \E t : Counts(p, t)
<1>1. PICK p \in Procs : Works(p) \/ beginRWTx(p) \/ FnEnds(p) \/ RunHandler(p) \/ Ends(p)
  BY DEF Next
<1>2. CASE \E kind \in Kinds : Call(p, kind)
  BY <1>2, CountCall
<1>3. CASE \/ OnCommit(p) \/ CallCommit(p) \/ CallRollback(p) \/ beginRWTx(p)
           \/ FnReturnsNil(p) \/ FnPanics(p) \/ RunHandler(p) \/ Commit(p) \/ CommitPanics(p)
  <2>1. stack[p] # <<>> /\ Len(stack[p]) <= MaxDepth
    BY <1>3 DEF Deep, At, OnCommit, CallCommit, CallRollback, beginRWTx, FnReturnsNil, FnPanics,
                RunHandler, Commit, CommitPanics
  <2> QED
    BY <1>3, <2>1, CountWorks, Zenon
<1>4. CASE FnRollsBack(p) \/ CommitReturns(p) \/ Unwind(p)
  <2>1. stack[p] # <<>> /\ Len(stack[p]) <= MaxDepth
    BY <1>4 DEF Deep, At, FnRollsBack, CommitReturns, Unwind
  <2> QED
    BY <1>4, <2>1, CountLeaves, Zenon
<1> QED
  BY <1>1, <1>2, <1>3, <1>4 DEF Works, FnEnds, Ends

\* What openTx is, stack by stack.
LEMMA OpenTxOf ==
  ASSUME NEW st \in [Procs -> Seq(Frames)], \A p \in Procs : Len(st[p]) <= MaxDepth
  PROVE  {x \in Procs \X (1..MaxDepth) : x[2] <= Len(st[x[1]]) /\ st[x[1]][x[2]].db}
           = {x \in Procs \X (1..MaxDepth) : x[2] \in OpenIn(st[x[1]])}
<1>1. ASSUME NEW x \in Procs \X (1..MaxDepth)
      PROVE  x[2] <= Len(st[x[1]]) /\ st[x[1]][x[2]].db <=> x[2] \in OpenIn(st[x[1]])
  <2>1. x[1] \in Procs /\ x[2] \in 1..MaxDepth
    OBVIOUS
  <2>2. st[x[1]] \in Seq(Frames)
    BY <2>1
  <2>3. Len(st[x[1]]) \in Nat
    BY <2>2
  <2>4. x[2] <= Len(st[x[1]]) <=> x[2] \in 1..Len(st[x[1]])
    BY <2>1, <2>3, ManagedAssumption
  <2> QED
    BY <2>4, Zenon DEF OpenIn
<1> QED
  BY <1>1

\* A step of p changes openTx at p only, as it changes what is open on p's stack.
LEMMA OpenTxStep ==
  ASSUME ManagedInv, Deep, NEW p \in Procs, NEW t, Counts(p, t)
  PROVE  /\ Deep'
         /\ \/ openTx' = openTx /\ uncounted' = uncounted
            \/ \E x : x \notin openTx /\ openTx' = openTx \cup {x} /\ uncounted' = uncounted + 1
            \/ \E x : x \in openTx /\ openTx' = openTx \ {x} /\ uncounted' = uncounted - 1
<1>1. /\ stack \in [Procs -> Seq(Frames)] /\ t \in Seq(Frames)
      /\ stack' = [stack EXCEPT ![p] = t] /\ Len(t) <= MaxDepth
  BY DEF ManagedInv, Stacks, Counts
<1>2. /\ stack' \in [Procs -> Seq(Frames)] /\ stack'[p] = t
      /\ \A q \in Procs \ {p} : stack'[q] = stack[q]
  BY <1>1
<1>3. \A q \in Procs : Len(stack'[q]) <= MaxDepth
  BY <1>1, <1>2 DEF Deep
<1>4. openTx = {x \in Procs \X (1..MaxDepth) : x[2] \in OpenIn(stack[x[1]])}
  BY <1>1, OpenTxOf, Zenon DEF openTx, Deep
<1>5. openTx' = {x \in Procs \X (1..MaxDepth) : x[2] \in OpenIn(stack'[x[1]])}
  BY <1>2, <1>3, OpenTxOf, Zenon DEF openTx
<1>6. \A q \in Procs, i \in 1..MaxDepth :
        /\ <<q, i>> \in openTx <=> i \in OpenIn(stack[q])
        /\ <<q, i>> \in openTx' <=> i \in OpenIn(stack'[q])
  BY <1>4, <1>5
<1>7. \A x \in openTx \cup openTx' : \E q \in Procs, i \in 1..MaxDepth : x = <<q, i>>
  BY <1>4, <1>5
<1>8. \A q \in Procs \ {p} : OpenIn(stack'[q]) = OpenIn(stack[q])
  BY <1>2
<1>9. OpenIn(t) \subseteq 1..MaxDepth /\ OpenIn(stack[p]) \subseteq 1..MaxDepth /\ 1..Len(t) \subseteq 1..MaxDepth
  <2>1. Len(t) \in Nat /\ Len(stack[p]) \in Nat /\ Len(stack[p]) <= MaxDepth
    BY <1>1 DEF Deep
  <2> QED
    BY <1>1, <2>1, ManagedAssumption DEF OpenIn
<1>10. CASE OpenIn(t) = OpenIn(stack[p]) /\ uncounted' = uncounted
  <2>1. \A q \in Procs : OpenIn(stack'[q]) = OpenIn(stack[q])
    BY <1>2, <1>8, <1>10
  <2>2. openTx' = openTx
    BY <1>4, <1>5, <2>1
  <2> QED
    BY <1>3, <1>10, <2>2 DEF Deep
<1>11. CASE \E i \in 1..Len(t) : /\ i \notin OpenIn(stack[p]) /\ OpenIn(t) = OpenIn(stack[p]) \cup {i}
                                 /\ uncounted' = uncounted + 1
  <2>1. PICK i \in 1..Len(t) : /\ i \notin OpenIn(stack[p]) /\ OpenIn(t) = OpenIn(stack[p]) \cup {i}
                               /\ uncounted' = uncounted + 1
    BY <1>11
  <2>2. i \in 1..MaxDepth
    BY <1>9, <2>1
  <2>3. <<p, i>> \notin openTx
    BY <1>6, <2>1, <2>2
  <2>4. \A q \in Procs, j \in 1..MaxDepth :
          <<q, j>> \in openTx' <=> <<q, j>> \in openTx \/ (q = p /\ j = i)
    BY <1>2, <1>6, <1>8, <2>1
  <2>5. openTx' = openTx \cup {<<p, i>>}
    BY <1>6, <1>7, <2>2, <2>4
  <2> QED
    BY <1>3, <2>1, <2>3, <2>5 DEF Deep
<1>12. CASE \E i \in OpenIn(stack[p]) : /\ OpenIn(t) = OpenIn(stack[p]) \ {i}
                                        /\ uncounted' = uncounted - 1
  <2>1. PICK i \in OpenIn(stack[p]) : OpenIn(t) = OpenIn(stack[p]) \ {i} /\ uncounted' = uncounted - 1
    BY <1>12
  <2>2. i \in 1..MaxDepth
    BY <1>9, <2>1
  <2>3. <<p, i>> \in openTx
    BY <1>6, <2>1, <2>2
  <2>4. \A q \in Procs, j \in 1..MaxDepth :
          <<q, j>> \in openTx' <=> <<q, j>> \in openTx /\ ~(q = p /\ j = i)
    BY <1>2, <1>6, <1>8, <2>1
  <2>5. openTx' = openTx \ {<<p, i>>}
    BY <1>6, <1>7, <2>2, <2>4
  <2> QED
    BY <1>3, <2>1, <2>3, <2>5 DEF Deep
<1> QED
  BY <1>10, <1>11, <1>12, Zenon DEF Counts

\* The counters of a transaction are added exactly once, whatever way out of
\* Update, View or the Begin idiom it takes, panics in fn, in Commit and in
\* handlers included, for any number of goroutines and depth of nesting.
THEOREM ManagedCounted == ASSUME IsFiniteSet(Procs) PROVE Spec => []CountedWhenClosed
<1> DEFINE Inv == Deep /\ CountedWhenClosed
<1>1. Init => Inv
  <2> SUFFICES ASSUME Init PROVE Deep /\ CountedWhenClosed
    OBVIOUS
  <2>1. \A p \in Procs : stack[p] = <<>> /\ Len(stack[p]) = 0
    BY DEF Init
  <2>2. openTx = {}
    BY <2>1, ManagedAssumption DEF openTx
  <2>3. uncounted = 0
    BY DEF Init
  <2> QED
    BY <2>1, <2>2, <2>3, FS_EmptySet, ManagedAssumption DEF Deep, CountedWhenClosed
<1>2. ManagedInv /\ Inv /\ [Next]_vars => Inv'
  <2> SUFFICES ASSUME ManagedInv, Deep, CountedWhenClosed, [Next]_vars
               PROVE  Deep' /\ CountedWhenClosed'
    OBVIOUS
  <2>1. CASE UNCHANGED vars
    BY <2>1 DEF vars, Deep, CountedWhenClosed, openTx
  <2>2. CASE Next
    <3>1. IsFiniteSet(openTx)
      <4>1. IsFiniteSet(1..MaxDepth)
        BY FS_Interval, ManagedAssumption
      <4>2. IsFiniteSet(Procs \X (1..MaxDepth))
        BY <4>1, FS_Product
      <4> QED
        BY <4>2, FS_Subset DEF openTx
    <3>2. PICK p \in Procs : \E t : Counts(p, t)
      BY <2>2, CountStep
    <3>3. PICK t : Counts(p, t)
      BY <3>2
    <3>4. /\ Deep'
          /\ \/ openTx' = openTx /\ uncounted' = uncounted
             \/ \E x : x \notin openTx /\ openTx' = openTx \cup {x} /\ uncounted' = uncounted + 1
             \/ \E x : x \in openTx /\ openTx' = openTx \ {x} /\ uncounted' = uncounted - 1
      BY <3>3, OpenTxStep
    <3>5. uncounted = Cardinality(openTx)
      BY DEF CountedWhenClosed
    <3>6. uncounted' = Cardinality(openTx')
      <4>1. ASSUME NEW x, x \notin openTx, openTx' = openTx \cup {x}, uncounted' = uncounted + 1
            PROVE  uncounted' = Cardinality(openTx')
        BY <3>1, <3>5, <4>1, FS_AddElement, Zenon
      <4>2. ASSUME NEW x, x \in openTx, openTx' = openTx \ {x}, uncounted' = uncounted - 1
            PROVE  uncounted' = Cardinality(openTx')
        BY <3>1, <3>5, <4>2, FS_RemoveElement, Zenon
      <4> QED
        BY <3>4, <3>5, <4>1, <4>2, Zenon
    <3> QED
      BY <3>4, <3>6 DEF CountedWhenClosed
  <2> QED
    BY <2>1, <2>2
<1> QED
  BY <1>1, <1>2, ManagedInvariance, PTL DEF Spec
=============================================================================
