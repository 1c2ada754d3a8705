---------------------------- MODULE SnapshotFile ----------------------------
(***************************************************************************)
(* BMSP snapshots: Tx.CopyFile writes the view of a transaction to a file  *)
(* (snapshot.go, tx.go), DB.Restore reads one back in a single Update, and *)
(* Open restores the file at its path (db.go).  The process may crash at   *)
(* any step; its memory is lost, the file stays.                           *)
(*                                                                         *)
(* The database is SnapshotStore, which VmboltDB implements: the view that *)
(* CopyFile walks is a transaction's view there, Restore's Update is one   *)
(* of its write transactions.                                              *)
(*                                                                         *)
(* The file is a sequence of tokens.  A length and the bytes it announces  *)
(* are one token, because a reader that finds only the length, or only     *)
(* some of the bytes, fails exactly like one that finds nothing; a zero    *)
(* length is the token "end".  Less than the four bytes of the magic is    *)
(* the empty file, which Open treats alike.                                *)
(***************************************************************************)
EXTENDS SnapshotStore, Integers, Sequences, FiniteSets

CONSTANTS
    Writers,    \* the goroutines that write and call Restore
    NoFile,     \* there is no file at the path
    NoProc

Stores == [Names -> [Keys -> Vals \cup {NoVal}] \cup {Absent}]

Tokens ==
    [kind : {"foreign", "magic", "version", "reserved", "name", "key", "val", "end"},
     x : Nat \cup Vals]

\* Names and keys are numbers for their order.
ASSUME FileAssumption ==
    /\ Names \subseteq Nat /\ IsFiniteSet(Names)
    /\ Keys \subseteq Nat /\ IsFiniteSet(Keys)
    /\ Absent \notin [Keys -> Vals \cup {NoVal}]
    /\ Closed \notin Stores /\ NoTx \notin Stores
    /\ NoFile \notin Seq(Tokens)
    /\ Writers \subseteq Procs /\ Writers # {} /\ NoProc \notin Procs

VARIABLES
    process,    \* "down", "opening": Open has not returned, or "up"
    readOnly,   \* Options.ReadOnly
    file,       \* the file at the path
    out,        \* the running CopyFile
    in,         \* the running Restore
    saved       \* history: the view that CopyFile was called on, and whether it returned nil

filevars == <<process, readOnly, file, out, in, saved>>
allvars == <<svars, filevars>>

EmptyStore == [n \in Names |-> Absent]

----------------------------------------------------------------------------
(* The format.                                                             *)

Token(kind, x) == [kind |-> kind, x |-> x]

\* One Write of 16 bytes.
header == <<Token("magic", 0), Token("version", 1), Token("reserved", 0)>>
end == Token("end", 0)

isMagic(f) == f # NoFile /\ Len(f) > 0 /\ f[1].kind = "magic"

\* The i-th element of S is the one that has i of them up to itself.
sorted(S) ==
    [i \in 1..Cardinality(S) |-> CHOOSE x \in S : Cardinality({y \in S : y <= x}) = i]

dirNames(store) == sorted({n \in Names : store[n] # Absent})
pairKeys(store, n) == sorted({k \in Keys : store[n][k] # NoVal})

pair(store, n, k) == <<Token("key", k), Token("val", store[n][k])>>

----------------------------------------------------------------------------
NotCopying == [proc |-> NoProc, at |-> "none", dir |-> <<>>, keys |-> <<>>]
NotRestoring == [proc |-> NoProc, at |-> "none", pos |-> 0, bucket |-> 0]

Idle(p) == process = "up" /\ out.proc # p /\ in.proc # p

\* What may be at the path before the first CopyFile.
OtherFiles ==
    {NoFile, <<Token("foreign", 0)>>,
     <<Token("magic", 0), Token("version", 2), Token("reserved", 0), end>>}

FileInit ==
    /\ db = Closed
    /\ mode = [p \in Procs |-> "none"]
    /\ snap = [p \in Procs |-> NoTx]
    /\ view = [p \in Procs |-> NoTx]
    /\ fresh = [p \in Procs |-> {}]
    /\ process = "down"
    /\ readOnly = FALSE
    /\ file \in OtherFiles
    /\ out = NotCopying
    /\ in = NotRestoring
    /\ saved = [of |-> NoTx, done |-> FALSE]

----------------------------------------------------------------------------
(* The transactions of the program.                                        *)

Reading(p) == Idle(p) /\ Begin(p, "read")

Writing(p) ==
    /\ Idle(p)
    /\ p \in Writers
    /\ \/ ~readOnly /\ Begin(p, "write")
       \/ \E n \in Names :
            \/ \E k \in Keys, v \in Vals \cup {NoVal} : Write(p, n, k, v)
            \/ CreateBucket(p, n)
            \/ DeleteBucket(p, n)
       \/ Commit(p)

Ending(p) == Idle(p) /\ Rollback(p)

Transaction(p) ==
    /\ Reading(p) \/ Writing(p) \/ Ending(p)
    /\ UNCHANGED filevars

CloseDB ==
    /\ process = "up"
    /\ Close
    /\ UNCHANGED filevars

----------------------------------------------------------------------------
(* CopyFile: truncate, then serializeSnapshot writes record after record.  *)

\* Mutant: the buckets are read from the published state.
copiedCommitted(p) == IF db = Closed THEN EmptyStore ELSE db

\* What the directory cursor and Tx.Bucket of the transaction show.  On a
\* transaction that has ended the cursor is empty.
copied(p) == IF mode[p] = "none" THEN EmptyStore ELSE view[p]

CopyFile(p) ==
    /\ Idle(p)
    /\ out.proc = NoProc
    /\ in.proc = NoProc
    /\ file' = <<>>
    /\ out' = [NotCopying EXCEPT !.proc = p, !.at = "header"]
    /\ saved' = [of |-> copied(p), done |-> FALSE]
    /\ UNCHANGED <<svars, process, readOnly, in>>

\* What serializeSnapshot writes next.
nextWrite(p) ==
    CASE out.at = "header" -> header
      [] out.at = "dir" /\ out.dir # <<>> -> <<Token("name", Head(out.dir))>>
      [] out.at = "pairs" /\ out.keys # <<>> -> pair(copied(p), Head(out.dir), Head(out.keys))
      [] OTHER -> <<end>>

\* Where it is after that.
afterWrite(p) ==
    CASE out.at = "header" ->
           [out EXCEPT !.at = "dir", !.dir = dirNames(copied(p))]
      [] out.at = "dir" /\ out.dir # <<>> ->
           [out EXCEPT !.at = "pairs", !.keys = pairKeys(copied(p), Head(out.dir))]
      [] out.at = "pairs" /\ out.keys # <<>> ->
           [out EXCEPT !.keys = Tail(@)]
      [] out.at = "pairs" /\ out.keys = <<>> ->
           [out EXCEPT !.at = "dir", !.dir = Tail(@)]
      [] OTHER -> NotCopying

CopyWrite(p) ==
    /\ out.proc = p
    /\ file' = file \o nextWrite(p)
    /\ out' = afterWrite(p)
    /\ saved' = [saved EXCEPT !.done = out' = NotCopying]
    /\ UNCHANGED <<svars, process, readOnly, in>>

\* A Write fails, perhaps after some of its bytes: CopyFile returns the error.
CopyError(p) ==
    /\ out.proc = p
    /\ \E i \in 0..(Len(nextWrite(p)) - 1) : file' = file \o SubSeq(nextWrite(p), 1, i)
    /\ out' = NotCopying
    /\ UNCHANGED <<svars, process, readOnly, in, saved>>

----------------------------------------------------------------------------
(* Restore.                                                                *)

unread == SubSeq(file, in.pos + 1, Len(file))

reads(kind) == Len(unread) > 0 /\ unread[1].kind = kind

\* Mutant: a stream that ends between two buckets counts as complete.
endOfBucketsOrFile == in.at = "bucket" /\ (reads("end") \/ unread = <<>>)

endOfBuckets == in.at = "bucket" /\ reads("end")

StartRestore(p) == [NotRestoring EXCEPT !.proc = p, !.at = "header"]

Restore(p) ==
    /\ Idle(p)
    /\ p \in Writers
    /\ mode[p] = "none"
    /\ file # NoFile
    /\ out.proc = NoProc
    /\ in.proc = NoProc
    /\ in' = StartRestore(p)
    /\ UNCHANGED <<svars, process, readOnly, file, out, saved>>

headerOK == Len(file) >= Len(header) /\ SubSeq(file, 1, Len(header)) = header

RestoreHeader ==
    /\ in.at = "header"
    /\ headerOK
    /\ in' = [in EXCEPT !.at = "begin", !.pos = Len(header)]
    /\ UNCHANGED <<svars, process, readOnly, file, out, saved>>

RestoreBegin ==
    /\ in.at = "begin"
    /\ ~readOnly
    /\ Begin(in.proc, "write")
    /\ in' = [in EXCEPT !.at = "bucket"]
    /\ UNCHANGED <<process, readOnly, file, out, saved>>

RestoreBucket ==
    /\ in.at = "bucket"
    /\ reads("name")
    /\ CreateBucket(in.proc, unread[1].x)
    /\ in' = [in EXCEPT !.at = "pairs", !.pos = @ + 1, !.bucket = unread[1].x]
    /\ UNCHANGED <<process, readOnly, file, out, saved>>

RestorePair ==
    /\ in.at = "pairs"
    /\ reads("key")
    /\ Len(unread) > 1
    /\ Write(in.proc, in.bucket, unread[1].x, unread[2].x)
    /\ in' = [in EXCEPT !.pos = @ + 2]
    /\ UNCHANGED <<process, readOnly, file, out, saved>>

RestoreEndOfBucket ==
    /\ in.at = "pairs"
    /\ reads("end")
    /\ in' = [in EXCEPT !.at = "bucket", !.pos = @ + 1, !.bucket = 0]
    /\ UNCHANGED <<svars, process, readOnly, file, out, saved>>

\* Restore's function returns nil, Update commits; Open returns.
RestoreCommit ==
    /\ endOfBuckets
    /\ Commit(in.proc)
    /\ in' = NotRestoring
    /\ process' = "up"
    /\ UNCHANGED <<readOnly, file, out, saved>>

\* Mutant: Restore waits where Update refuses to begin.
restoreFailsLate ==
    \/ in.at = "header" /\ ~headerOK
    \/ in.at = "bucket" /\ ~reads("end")
         /\ ~(reads("name") /\ view[in.proc][unread[1].x] = Absent)
    \/ in.at = "pairs" /\ ~reads("end") /\ ~(reads("key") /\ Len(unread) > 1)

\* A short read, another format version, ErrDatabaseReadOnly,
\* ErrDatabaseNotOpen, ErrBucketExists.
restoreFails ==
    \/ in.at = "header" /\ ~headerOK
    \/ in.at = "begin" /\ (readOnly \/ db = Closed)
    \/ in.at = "bucket" /\ ~reads("end")
         /\ ~(reads("name") /\ view[in.proc][unread[1].x] = Absent)
    \/ in.at = "pairs" /\ ~reads("end") /\ ~(reads("key") /\ Len(unread) > 1)

\* Mutant: what was read before the failure is committed.
abandonCommitted(p) == IF mode[p] = "none" THEN UNCHANGED svars ELSE Commit(p)

\* Update rolls back when its function fails.
abandon(p) == IF mode[p] = "none" THEN UNCHANGED svars ELSE Rollback(p)

RestoreError ==
    /\ process = "up"
    /\ restoreFails
    /\ abandon(in.proc)
    /\ in' = NotRestoring
    /\ UNCHANGED <<process, readOnly, file, out, saved>>

----------------------------------------------------------------------------
(* Open and the end of the process.                                        *)

\* The goroutine that calls Open.
Opener == CHOOSE p \in Writers : TRUE

\* Open up to the look that maybeRestore takes at the file.  Without the magic
\* it returns an empty database.
Open ==
    /\ process = "down"
    /\ db' = EmptyStore
    /\ readOnly' \in BOOLEAN
    /\ IF isMagic(file)
       THEN process' = "opening" /\ in' = StartRestore(Opener)
       ELSE process' = "up" /\ UNCHANGED in
    /\ UNCHANGED <<mode, snap, view, fresh, file, out, saved>>

\* Everything in memory is gone.
lost ==
    /\ db' = Closed
    /\ mode' = [p \in Procs |-> "none"]
    /\ snap' = [p \in Procs |-> NoTx]
    /\ view' = [p \in Procs |-> NoTx]
    /\ fresh' = [p \in Procs |-> {}]
    /\ process' = "down"
    /\ readOnly' = FALSE
    /\ out' = NotCopying
    /\ in' = NotRestoring

\* Open whose Restore fails closes the database and returns the error.
OpenError ==
    /\ process = "opening"
    /\ restoreFails
    /\ lost
    /\ UNCHANGED <<file, saved>>

\* The process exits or crashes.
Crash ==
    /\ process # "down"
    /\ lost
    /\ UNCHANGED <<file, saved>>

RestoreStep ==
    \/ RestoreHeader \/ RestoreBegin \/ RestoreBucket \/ RestorePair
    \/ RestoreEndOfBucket \/ RestoreCommit \/ RestoreError \/ OpenError

CopyStep == \E p \in Procs : CopyWrite(p) \/ CopyError(p)

FileNext ==
    \/ \E p \in Procs : Transaction(p) \/ CopyFile(p) \/ Restore(p)
    \/ CloseDB
    \/ CopyStep
    \/ RestoreStep
    \/ Open
    \/ Crash

FileSpec == FileInit /\ [][FileNext]_allvars

\* The library's code runs on; sync.Mutex hands the lock to a starving
\* waiter; the function of an Update returns.
Fairness ==
    /\ WF_allvars(RestoreStep)
    /\ SF_allvars(RestoreBegin)
    /\ WF_allvars(CopyStep)
    /\ \A p \in Writers : SF_allvars(Idle(p) /\ mode[p] = "write"
                                         /\ (Commit(p) \/ Rollback(p)) /\ UNCHANGED filevars)

FairFileSpec == FileSpec /\ Fairness

----------------------------------------------------------------------------
(* Properties.                                                             *)

\* The sequences of s, one after the other.
Concat(s) ==
    LET upTo[i \in 0..Len(s)] == IF i = 0 THEN <<>> ELSE upTo[i - 1] \o s[i]
    IN  upTo[Len(s)]

\* The layout of snapshot.go:20: the first j pairs of a bucket, a bucket, the
\* first i buckets, and the file that belongs to a store.
Pairs(store, n, j) == Concat([l \in 1..j |-> pair(store, n, pairKeys(store, n)[l])])

BucketRecord(store, n) ==
    <<Token("name", n)>> \o Pairs(store, n, Len(pairKeys(store, n))) \o <<end>>

Buckets(store, i) == Concat([l \in 1..i |-> BucketRecord(store, dirNames(store)[l])])

Layout(store) == header \o Buckets(store, Len(dirNames(store))) \o <<end>>

CutOff(f, whole) == Len(f) < Len(whole) /\ f = SubSeq(whole, 1, Len(f))

\* serializeSnapshot walks the view of a transaction in many steps, while other
\* goroutines commit, close the database or crash the process: a file whose
\* CopyFile returned nil is exactly the one of the view it was called on, and any
\* other that a CopyFile has touched is a proper prefix of it (tx.go:398).
FileIsView ==
    saved.of # NoTx =>
        \E whole \in {Layout(saved.of)} :
            IF saved.done THEN file = whole ELSE CutOff(file, whole)

\* Open yields everything that the last CopyFile of the path was called on, or,
\* when that did not finish before the magic was written, an empty database
\* (db.go:129): never a part.  It fails only on an unfinished or foreign file or
\* on a read-only database.
OpenAllOrNothing ==
    [][/\ process # "up" /\ process' = "up" =>
            IF saved.done THEN db' = saved.of ELSE db' = EmptyStore /\ ~isMagic(file)
       /\ OpenError => readOnly \/ ~saved.done]_allvars

\* Restore on a running database (snapshot.go:126): until its last step nobody
\* sees anything of it, a Restore that fails leaves the published state alone, and
\* one that succeeds adds all buckets of a finished snapshot to it.
RestoreAllOrNothing ==
    [][process = "up" /\ RestoreStep /\ db' # db =>
         /\ saved.done
         /\ in' = NotRestoring
         /\ \A n \in Names : /\ db[n] = Absent \/ saved.of[n] = Absent
                             /\ db'[n] = IF db[n] = Absent THEN saved.of[n] ELSE db[n]]_allvars

\* Restore and Open return, also when a writer holds the lock, when Close comes
\* first, when the database is read-only and when the file is cut off.
RestoreReturns == in.proc # NoProc ~> in.proc = NoProc
=============================================================================
