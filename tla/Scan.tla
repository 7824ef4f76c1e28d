-------------------------------- MODULE Scan --------------------------------
(***************************************************************************)
(* scan.Walk and scan.Build: list the regular files of a directory, then   *)
(* hash them with a bounded pool of goroutines, while somebody else may    *)
(* edit, replace, create or remove any of them.                            *)
(*                                                                         *)
(* A path is a sequence of names.  The bytes of a file are the sequence of *)
(* its chunks, and a digest is what it is the digest of.  A change stamps  *)
(* the file with a time no earlier file had.  WalkDir lists every          *)
(* directory at once, when the walk begins, and then looks at each file.   *)
(***************************************************************************)
EXTENDS Integers, Sequences, FiniteSets

CONSTANTS
    Path,           \* every path a file may have
    Rank,           \* the position of each path in the order of a walk
    Chunk,          \* what a chunk may hold
    StateDir,       \* the name ".modelmove"
    HiddenNames,    \* names with a leading dot
    Forms,          \* [kind, bytes] a file may be given by a change
    Directories,    \* what the directory may hold at first
    BuildOptions,   \* Options: [hidden, follow, exclude]
    MaxChanges,     \* bounds the changes to the directory
    Jobs,           \* capacity of the semaphore
    None,           \* no file, no manifest
    Follow          \* the handle of a file that still has its name

\* "denied" is a regular file that cannot be opened, "link" a symbolic link to
\* a regular file, "dead" one to nothing, "loop" one that leads to itself.
Kind == {"file", "denied", "link", "dead", "loop"}

File == [kind : Kind, bytes : Seq(Chunk), mtime : Nat]

\* What is recorded of a file once it is hashed.
Result == [bytes : Seq(Chunk), mtime : Nat \union {None}]

ASSUME ScanAssumption ==
    /\ \A p \in Path : Len(p) > 0 /\ Rank[p] \in Nat
    /\ Forms \subseteq [kind : Kind, bytes : Seq(Chunk)]
    /\ Directories \subseteq [Path -> File \union {None}]
    /\ \A d \in Directories, p \in Path : d[p] # None => d[p].mtime = 0
    /\ None \notin File /\ None \notin Result /\ None \notin Nat
    /\ None \notin {"walk", "open", "cancelled"}
    /\ {None, Follow} \intersect Seq(Chunk) = {} /\ None # Follow
    /\ MaxChanges \in Nat /\ Jobs \in Nat \ {0}

VARIABLES
    dir,            \* each path's file: kind, bytes, mtime
    changes,        \* changes so far
    touched,        \* paths changed since the current task began
    pc,             \* where the task stands
    interrupted,    \* whether the caller's context is cancelled
    opt,            \* the options of the walk
    unseen,         \* listed paths the walk has not looked at
    entries,        \* what Walk has found: each file's time
    todo,           \* entries without a goroutine yet
    at,             \* where each file's goroutine stands
    got,            \* the chunks it has read
    handle,         \* its open file: followed, or as it was when unlinked
    files,          \* Build's results
    firstErr,       \* the error that is returned
    manifest        \* what Build returned

tree == <<dir, changes, touched>>
walk == <<opt, unseen, entries>>
pool == <<todo, at, got, handle>>
vars == <<tree, pc, interrupted, walk, pool, files, firstErr, manifest>>

-----------------------------------------------------------------------------
(* Walk.                                                                   *)

Base(p) == p[Len(p)]
Excludes(p) == p \in opt.exclude \/ <<Base(p)>> \in opt.exclude
Hides(p) == ~ opt.hidden /\ Base(p) \in HiddenNames

SkipsDir(p) == Base(p) = StateDir \/ Hides(p) \/ Excludes(p)
SkipsFile(p) == Hides(p) \/ Excludes(p)

Ancestors(p) == {SubSeq(p, 1, k) : k \in 1 .. Len(p) - 1}
Skipped(p) == SkipsFile(p) \/ \E d \in Ancestors(p) : SkipsDir(d)

Listing == {p \in Path : dir[p] # None /\ ~ Skipped(p)}

\* What is left once symbolic links are followed, or not.
Regular(f) == f.kind \in {"file", "denied"} \/ (f.kind = "link" /\ opt.follow)

\* The walk, and later the loops, go in order.
IsFirst(p, S) == p \in S /\ \A q \in S : Rank[p] <= Rank[q]

Look ==
    /\ \E p \in Path :
         /\ IsFirst(p, unseen) /\ dir[p] # None
         /\ entries' = [entries EXCEPT ![p] =
                           IF Regular(dir[p]) THEN dir[p].mtime ELSE @]
         /\ unseen' = unseen \ {p}
    /\ UNCHANGED opt

\* A file that is gone since the listing fails the walk.
Vanished == \E p \in unseen : IsFirst(p, unseen) /\ dir[p] = None

NoEntries == [p \in Path |-> None]
Found == {p \in Path : entries[p] # None}

-----------------------------------------------------------------------------
(* The pool: a goroutine per file, at most Jobs of them.                   *)

Running == {p \in Path : at[p] \notin {"idle", "done"}}
Idle == [p \in Path |-> "idle"]

\* The loop of Build and of Verify: a goroutine starts at the given step.
Spawn(start) ==
    /\ Cardinality(Running) < Jobs
    /\ \E p \in Path :
         /\ IsFirst(p, todo)
         /\ todo' = todo \ {p}
         /\ at' = [at EXCEPT ![p] = start]
    /\ UNCHANGED <<got, handle>>

\* ctx.Done ends the loop; what runs is waited for.
StopSpawning(cancelled) ==
    /\ todo # {} /\ cancelled
    /\ todo' = {}
    /\ UNCHANGED <<at, got, handle>>

PoolIsDone == todo = {} /\ Running = {}

CanOpen(p) == dir[p] # None /\ dir[p].kind \in {"file", "link"}
Bytes(p) == IF handle[p] = Follow THEN dir[p].bytes ELSE handle[p]

OpenToRead(p) ==
    /\ at[p] = "open" /\ CanOpen(p)
    /\ handle' = [handle EXCEPT ![p] = Follow]
    /\ at' = [at EXCEPT ![p] = "read"]
    /\ UNCHANGED <<todo, got>>

ReadNext(p) ==
    /\ at[p] = "read" /\ Len(got[p]) < Len(Bytes(p))
    /\ got' = [got EXCEPT ![p] = Append(@, Bytes(p)[Len(@) + 1])]
    /\ UNCHANGED <<todo, at, handle>>

AtEnd(p) == at[p] = "read" /\ Len(got[p]) >= Len(Bytes(p))

\* (Mutant: the goroutine's place is not given back.)
LeaveHolding(p) ==
    /\ at' = [at EXCEPT ![p] = "left"]
    /\ got' = [got EXCEPT ![p] = <<>>]
    /\ handle' = [handle EXCEPT ![p] = None]
    /\ UNCHANGED todo

\* The goroutine is done: its file is closed, its place in the pool free.
Leave(p) ==
    /\ at' = [at EXCEPT ![p] = "done"]
    /\ got' = [got EXCEPT ![p] = <<>>]
    /\ handle' = [handle EXCEPT ![p] = None]
    /\ UNCHANGED todo

-----------------------------------------------------------------------------
(* Build.                                                                  *)

\* Build's context is cancelled by its caller or by the first error.
Cancelled == interrupted \/ firstErr # None

WalkNext ==
    /\ pc = "walk" /\ Look
    /\ UNCHANGED <<tree, pc, interrupted, pool, files, firstErr, manifest>>

WalkFails ==
    /\ pc = "walk" /\ Vanished
    /\ pc' = "failed" /\ firstErr' = "walk"
    /\ UNCHANGED <<tree, interrupted, walk, pool, files, manifest>>

WalkEnds ==
    /\ pc = "walk" /\ unseen = {}
    /\ pc' = "hash" /\ todo' = Found
    /\ UNCHANGED <<tree, interrupted, walk, at, got, handle, files, firstErr,
                   manifest>>

HashLoop ==
    /\ pc = "hash"
    /\ \/ Spawn("open")
       \/ StopSpawning(Cancelled)
    /\ UNCHANGED <<tree, pc, interrupted, walk, files, firstErr, manifest>>

OpenFile(p) ==
    /\ pc = "hash" /\ OpenToRead(p)
    /\ UNCHANGED <<tree, pc, interrupted, walk, files, firstErr, manifest>>

ReadFile(p) ==
    /\ pc = "hash" /\ ReadNext(p)
    /\ UNCHANGED <<tree, pc, interrupted, walk, files, firstErr, manifest>>

\* (Mutant: every error is recorded, the last one stays.)
RecordLast(e) == firstErr' = e
Record(e) == firstErr' = IF firstErr = None THEN e ELSE firstErr

\* A file cannot be opened, or its hashing is cancelled.
HashFails(p) ==
    /\ pc = "hash"
    /\ \/ at[p] = "open" /\ ~ CanOpen(p) /\ Record("open")
       \/ at[p] = "read" /\ Cancelled /\ Record("cancelled")
    /\ Leave(p)
    /\ UNCHANGED <<tree, pc, interrupted, walk, files, manifest>>

\* (Mutant: the time is taken once the file has been hashed.)
HashedStampedLate(p, bytes) ==
    files' = [files EXCEPT ![p] =
        [bytes |-> bytes, mtime |-> IF dir[p] = None THEN 0 ELSE dir[p].mtime]]

\* The time in the manifest is the one the walk saw.
Hashed(p, bytes) ==
    files' = [files EXCEPT ![p] = [bytes |-> bytes, mtime |-> entries[p]]]

\* A cancelled Hash may also return a part of what it read and no error.
HashEnds(p) ==
    /\ pc = "hash"
    /\ \/ AtEnd(p) /\ Hashed(p, got[p])
       \/ /\ at[p] = "read" /\ Cancelled /\ got[p] # <<>>
          /\ \E n \in 0 .. Len(got[p]) : Hashed(p, SubSeq(got[p], 1, n))
    /\ Leave(p)
    /\ UNCHANGED <<tree, pc, interrupted, walk, firstErr, manifest>>

\* The first error, or else the caller's cancellation.
BuildFails ==
    /\ pc = "hash" /\ PoolIsDone /\ Cancelled
    /\ pc' = "failed"
    /\ firstErr' = IF firstErr # None THEN firstErr ELSE "cancelled"
    /\ UNCHANGED <<tree, interrupted, walk, pool, files, manifest>>

\* (Mutant: the context is not looked at again.)
BuildReturnsAnyway ==
    /\ pc = "hash" /\ PoolIsDone /\ firstErr = None
    /\ pc' = "built"
    /\ manifest' = [p \in Found |-> files[p]]
    /\ UNCHANGED <<tree, interrupted, walk, pool, files, firstErr>>

BuildReturns ==
    /\ pc = "hash" /\ PoolIsDone /\ ~ Cancelled
    /\ pc' = "built"
    /\ manifest' = [p \in Found |-> files[p]]
    /\ UNCHANGED <<tree, interrupted, walk, pool, files, firstErr>>

Hash(p) == OpenFile(p) \/ ReadFile(p) \/ HashFails(p) \/ HashEnds(p)
Build == WalkNext \/ WalkFails \/ WalkEnds \/ HashLoop \/ BuildFails \/ BuildReturns

-----------------------------------------------------------------------------
(* The directory and the user.                                             *)

\* A file is written in place, or its name is given another file, or none.
Change(p) ==
    /\ changes < MaxChanges
    /\ changes' = changes + 1
    /\ touched' = touched \union {p}
    /\ \/ \E f \in Forms, inPlace \in BOOLEAN :
            /\ inPlace => dir[p] # None /\ dir[p].kind = f.kind
            /\ dir' = [dir EXCEPT ![p] = [kind |-> f.kind, bytes |-> f.bytes,
                                          mtime |-> changes + 1]]
            /\ handle' = IF inPlace \/ handle[p] # Follow THEN handle
                         ELSE [handle EXCEPT ![p] = dir[p].bytes]
       \/ /\ dir[p] # None
          /\ dir' = [dir EXCEPT ![p] = None]
          /\ handle' = IF handle[p] # Follow THEN handle
                       ELSE [handle EXCEPT ![p] = dir[p].bytes]
    /\ UNCHANGED <<pc, interrupted, walk, todo, at, got, files, firstErr, manifest>>

Interrupt ==
    /\ pc \in {"walk", "hash"}
    /\ ~ interrupted /\ interrupted' = TRUE
    /\ UNCHANGED <<tree, pc, walk, pool, files, firstErr, manifest>>

Init ==
    /\ dir \in Directories /\ changes = 0 /\ touched = {}
    /\ pc = "walk" /\ interrupted = FALSE
    /\ opt \in BuildOptions /\ unseen = Listing /\ entries = NoEntries
    /\ todo = {} /\ at = Idle
    /\ got = [p \in Path |-> <<>>] /\ handle = [p \in Path |-> None]
    /\ files = NoEntries /\ firstErr = None /\ manifest = None

Next ==
    \/ Build
    \/ \E p \in Path : Hash(p) \/ Change(p)
    \/ Interrupt

Spec == Init /\ [][Next]_vars

-----------------------------------------------------------------------------
(* Properties.                                                             *)

SameTime(p) ==
    dir[p] # None /\ manifest[p] # None /\ dir[p].mtime = manifest[p].mtime

\* What --fast rests on (plan.go:132): a file with the time that a manifest
\* records for it has the bytes the manifest describes, whatever happened
\* while Build was reading it.  scan.go takes the time before it reads.
TimeTellsContent ==
    manifest # None =>
        \A p \in DOMAIN manifest : SameTime(p) => dir[p].bytes = manifest[p].bytes

\* A manifest lists exactly the wanted files, with their bytes and times, as
\* far as nobody touched them meanwhile (Build, scan.go:183): no goroutine's
\* result is missing, and a cancelled Hash's partial result is not taken.
ManifestIsSnapshot ==
    pc = "built" =>
        \A p \in Path \ touched :
            LET wanted == dir[p] # None /\ ~ Skipped(p) /\ Regular(dir[p]) IN
            /\ (p \in DOMAIN manifest) <=> wanted
            /\ wanted => manifest[p] = [bytes |-> dir[p].bytes, mtime |-> dir[p].mtime]

\* One file's error cancels the hashing of the others; what Build reports is
\* that error and not the cancellation it caused (scan.go:238).
BuildErrorIsCause == firstErr = "cancelled" => interrupted
=============================================================================
