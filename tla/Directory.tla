----------------------------- MODULE Directory -----------------------------
(***************************************************************************)
(* The ways to go through the buckets of a transaction while it creates    *)
(* and deletes buckets: the directory cursor of Tx.Cursor (cursor.go in    *)
(* directory mode) and Tx.ForEach, whose function may call CreateBucket    *)
(* and DeleteBucket itself.  Both work on names they have sorted at the    *)
(* start.  A bucket is its name here; positions count from 0, as in the    *)
(* code, so the name at position i is dir[i + 1].                          *)
(***************************************************************************)
EXTENDS Integers, SequencesExt, FiniteSetsExt

CONSTANTS
    Names,          \* bucket names, numbers for their order
    Nil,            \* nil
    MaxChanges,     \* bound: calls of CreateBucket and DeleteBucket
    Slack           \* bound: how far a position may run past either end

ASSUME DirectoryAssumption ==
    /\ Names \subseteq Nat /\ IsFiniteSet(Names) /\ Nil \notin Names \cup Seq(Names)
    /\ MaxChanges \in Nat /\ Slack \in Nat

VARIABLES
    base,           \* the names in tx.base.buckets
    created, deleted, bctx,
    open,           \* tx.db is not nil
    changes,
    dir, dirIdx,    \* the cursor
    ret,            \* what its last call returned
    each,           \* ForEach: the names still to visit, Nil outside of it
    \* History, for the properties:
    from,           \* the call that positioned the cursor, and which way since
    seen,           \* what the cursor has returned since then
    view,           \* the buckets of the transaction when the cursor was made
    start,          \* the buckets of the transaction when ForEach began
    visited,        \* the calls of fn: name, whether the bucket was not nil,
                    \* and whether the transaction was still open
    gone            \* the names deleted since ForEach began

txvars == <<base, created, deleted, bctx, open, changes>>
cursor == <<dir, dirIdx, ret, from, seen, view>>
loop   == <<each, start, visited, gone>>
vars   == <<txvars, cursor, loop>>

\* sort.Strings: every name as often as before, in order.
sort(s) ==
    CHOOSE t \in [1..Len(s) -> Range(s)] :
        /\ \A i, j \in 1..Len(s) : i < j => t[i] <= t[j]
        /\ \A n \in Range(s) :
              Cardinality({i \in 1..Len(s) : t[i] = n}) = Cardinality({i \in 1..Len(s) : s[i] = n})

sorted(names) == sort(SetToSeq(names))

----------------------------------------------------------------------------
(* The transaction's directory (tx.go).                                    *)

\* Tx.Bucket(n) is not nil.
Visible(n) == open /\ (n \in bctx \/ (n \notin deleted /\ n \in base))

Buckets == {n \in Names : Visible(n)}

Bucket(n) ==
    /\ Visible(n)
    /\ bctx' = bctx \cup {n}
    /\ UNCHANGED <<base, created, deleted, open, changes, cursor, loop>>

CreateBucket(n) ==
    /\ open /\ changes < MaxChanges
    /\ n \in deleted \/ n \notin created \cup base
    /\ created' = created \cup {n}
    /\ deleted' = deleted \ {n}
    /\ bctx' = bctx \cup {n}
    /\ changes' = changes + 1
    /\ UNCHANGED <<base, open, cursor, loop>>

DeleteBucket(n) ==
    /\ open /\ changes < MaxChanges
    /\ n \in created \cup base
    /\ bctx' = bctx \ {n}
    /\ created' = created \ {n}
    /\ deleted' = IF n \in created THEN deleted ELSE deleted \cup {n}
    /\ changes' = changes + 1
    /\ gone' = gone \cup {n}
    /\ UNCHANGED <<base, open, cursor, each, start, visited>>

\* Commit or Rollback; a cursor may be used after it.  On a transaction that was
\* begun by hand fn of ForEach may call them too, and the loop goes on.
CloseTx ==
    /\ open
    /\ open' = FALSE
    /\ base' = {} /\ created' = {} /\ deleted' = {} /\ bctx' = {}
    /\ UNCHANGED <<changes, cursor, loop>>

----------------------------------------------------------------------------
(* The directory cursor.                                                   *)

\* Mutant: the deleted names stay in.
nameSetKeepsDeleted == base \cup created

nameSet == (base \cup created) \ deleted

\* Tx.Cursor; on a closed transaction it is the zero Cursor.
Cursor ==
    /\ dir' = IF open THEN sorted(nameSet) ELSE <<>>
    /\ dirIdx' = IF open THEN -1 ELSE 0
    /\ ret' = Nil
    /\ from' = <<"new">> /\ seen' = <<>> /\ view' = Buckets
    /\ UNCHANGED <<txvars, loop>>

dirKeyValue(i) == IF i < 0 \/ i >= Len(dir) THEN Nil ELSE dir[i + 1]

\* The cursor moves to position i and returns what is there.
moveTo(i) ==
    /\ dirIdx' = i
    /\ ret' = dirKeyValue(i)
    /\ UNCHANGED <<dir, view, txvars, loop>>

\* A call that positions the cursor starts a new scan, one that steps goes on
\* with the scan or gives it up.
begins(f) == from' = f /\ seen' = IF ret' = Nil THEN <<>> ELSE <<ret'>>

steps(ways) ==
    IF from \in ways
    THEN UNCHANGED from /\ seen' = IF ret' = Nil THEN seen ELSE Append(seen, ret')
    ELSE from' = <<"mixed">> /\ seen' = <<>>

First == moveTo(0) /\ begins(<<"first">>)

Last_ == moveTo(IF dir = <<>> THEN 0 ELSE Len(dir) - 1) /\ begins(<<"last">>)

\* sort.Search: the first position whose name is not below n.
seekIdx(n) == Cardinality({i \in 1..Len(dir) : dir[i] < n})

Seek(n) == moveTo(seekIdx(n)) /\ begins(<<"seek", n>>)

\* A new cursor stands before the first name, so its first Next is First.
NextName ==
    /\ dirIdx < Len(dir) + Slack
    /\ moveTo(dirIdx + 1)
    /\ IF from = <<"new">> THEN begins(<<"first">>)
       ELSE steps({<<"first">>} \cup {<<"seek", n>> : n \in Names})

PrevName ==
    /\ dirIdx > - Slack - 1
    /\ moveTo(dirIdx - 1)
    /\ steps({<<"last">>})

----------------------------------------------------------------------------
(* Tx.ForEach.                                                             *)

\* The committed names that are not deleted, then the created ones; a name that
\* was deleted and created again is in both lists.
forEachNames == sort(SetToSeq(base \ deleted) \o SetToSeq(created))

ForEach ==
    /\ open /\ each = Nil
    /\ each' = forEachNames
    /\ start' = Buckets /\ visited' = <<>> /\ gone' = {}
    /\ UNCHANGED <<txvars, cursor>>

\* Mutant: a name listed twice is visited twice.
skipNone(n) == FALSE

\* The map seen of the loop.
skip(n) == \E i \in 1..Len(visited) : visited[i].name = n

\* One round of the loop: the next name, unless it was visited before, with
\* the bucket that Tx.Bucket returns for it now.
Visit ==
    /\ each # Nil /\ each # <<>>
    /\ each' = Tail(each)
    /\ \E n \in {Head(each)} :
          IF skip(n) THEN UNCHANGED <<visited, bctx>>
          ELSE /\ visited' = Append(visited, [name |-> n, bucket |-> Visible(n), open |-> open])
               /\ bctx' = IF Visible(n) THEN bctx \cup {n} ELSE bctx
    /\ UNCHANGED <<base, created, deleted, open, changes, cursor, start, gone>>

\* The loop is over, or fn has returned an error.
ForEachReturns ==
    /\ each # Nil
    /\ each = <<>> \/ visited # <<>>
    /\ each' = Nil
    /\ UNCHANGED <<txvars, cursor, start, visited, gone>>

----------------------------------------------------------------------------
Init ==
    /\ base \in SUBSET Names
    /\ created = {} /\ deleted = {} /\ bctx = {}
    /\ open = TRUE /\ changes = 0
    /\ dir = sorted(base) /\ dirIdx = -1 /\ ret = Nil
    /\ from = <<"new">> /\ seen = <<>> /\ view = base
    /\ each = Nil /\ start = {} /\ visited = <<>> /\ gone = {}

\* One goroutine, which may use the cursor inside fn too.
Next ==
    \/ \E n \in Names : Bucket(n) \/ CreateBucket(n) \/ DeleteBucket(n) \/ Seek(n)
    \/ CloseTx \/ Cursor \/ First \/ Last_ \/ NextName \/ PrevName
    \/ ForEach \/ Visit \/ ForEachReturns

Spec == Init /\ [][Next]_vars

----------------------------------------------------------------------------
(* Properties.                                                             *)

\* What a scan in the direction it began has to return.
due ==
    CASE from = <<"last">> -> Reverse(sorted(view))
      [] Head(from) = "seek" -> sorted({n \in view : n >= from[2]})
      [] OTHER -> sorted(view)

\* "enumerates the top-level bucket NAMES in sorted order" (cursor.go:16): a
\* scan from First, Last, Seek or a new cursor returns, without gap or
\* repetition, the buckets that Tx.Bucket found when the cursor was made,
\* whatever is created or deleted meanwhile and also after the transaction.
ScanIsView ==
    from # <<"mixed">> =>
        /\ IsPrefix(seen, due)
        /\ ret = Nil => seen = due \/ from = <<"new">>

\* The bucket of a call of fn is nil only if it has been deleted since the loop
\* began or the transaction was over by then, and always if it was over.
fitting(c) == IF c.open THEN c.bucket \/ c.name \in gone ELSE ~c.bucket

\* "ForEach executes a function for each top-level bucket" (tx.go:232): fn gets
\* each bucket the transaction had at the start once and in order, also one
\* that was deleted and created again (so that both lists have it), and also if
\* fn itself ends the transaction; it gets nil only for a bucket that is gone.
ForEachOnce ==
    /\ IsPrefix([i \in 1..Len(visited) |-> visited[i].name], sorted(start))
    /\ each = <<>> => Len(visited) = Cardinality(start)
    /\ \A i \in 1..Len(visited) : fitting(visited[i])
=============================================================================
