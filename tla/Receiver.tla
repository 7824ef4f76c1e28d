------------------------------ MODULE Receiver ------------------------------
(***************************************************************************)
(* The receiving side of modelmove: internal/receiver.  A Receiver is      *)
(* given a manifest, works out which chunks the destination directory is   *)
(* missing (Plan), takes them file by file (BeginFile, Chunk, EndFile) and *)
(* ends with Finish or Abort.  Here its caller is arbitrary: any file of   *)
(* the plan, any chunk, in any order, any number of times.  An error from  *)
(* any call ends the session, as it does in both callers, the engine and   *)
(* the helper server.  Transfer restricts the caller to the engine.        *)
(*                                                                         *)
(* A file is the sequence of its chunks; a chunk is its digest and counts  *)
(* as one unit of length.  Staged bytes that were never written are Hole.  *)
(* The file system survives everything, a Receiver lives for one session.  *)
(***************************************************************************)
EXTENDS Integers, Sequences, FiniteSets

CONSTANTS
    Path,       \* relative paths of model files
    Chunk,      \* chunk digests
    Hole,       \* unwritten bytes of a staging file
    None,       \* no such file, location, manifest or active path
    Time,       \* modification times
    Now,        \* the modification time of whatever is written today
    MaxLen,     \* the longest file, in chunks
    MaxPending, \* bound: files held back for Finish, a file opened twice counted twice
    MaxUnsettled, \* bound: directory entries replaced that may come back at one time
    MaxUnread,  \* bound: files of the destination that cannot be hashed for a plan
    Manifests,  \* the manifests a sender may present
    Trees,      \* the destination directories a first run may find
    Options     \* the option records a session may be started with

Index == 1 .. MaxLen
Data == UNION {[1 .. n -> Chunk \union {Hole}] : n \in 0 .. MaxLen}
Content == UNION {[1 .. n -> Chunk] : n \in 0 .. MaxLen}
File == [bytes: Data, mtime: Time]

\* The choices an iteration order makes: pick[S] is the member of S met first.
Picks == {pick \in [(SUBSET Path) \ {{}} -> Path] :
            \A S, T \in (SUBSET Path) \ {{}} :
               /\ pick[S] \in S
               /\ (S \subseteq T /\ pick[T] \in S) => pick[S] = pick[T]}
Orders(S) == {r \in [S -> 1 .. Cardinality(S)] :
                \A p, q \in S : r[p] = r[q] => p = q}

CONSTANT ByPath \* the choice made by an iteration in path order

OptionRecord == [atomic: {"file", "model"}, dedupe: BOOLEAN, fast: BOOLEAN,
                 resume: BOOLEAN, delete: BOOLEAN, verify: BOOLEAN,
                 preserve: BOOLEAN]

Final(p) == <<"final", p>>
Stage(p) == <<"stage", p>>
Name == {"final", "stage"} \X Path
Loc == [name: Name, at: Index]

ASSUME ConstantsAssumption ==
    /\ IsFiniteSet(Path) /\ MaxLen \in Nat /\ MaxPending \in Nat
    /\ MaxUnsettled \in Nat /\ MaxUnread \in Nat
    /\ Now \in Time
    /\ None \notin Chunk \union Path \union Name \union Loc
    /\ \A m \in Manifests :
          /\ m # None /\ DOMAIN m \subseteq Path
          /\ m \in [DOMAIN m -> [bytes: Content, mtime: Time]]
    /\ Trees \subseteq [Path -> [bytes: Content, mtime: Time] \union {None}]
    /\ None \notin File
    /\ Options \subseteq OptionRecord /\ Options # {}
    /\ ByPath \in Picks

VARIABLES
    fs,        \* the destination: final files and .modelmove/stage
    dirty,     \* names whose bytes are not on stable storage yet
    recorded,  \* the manifest saved in .modelmove
    before,    \* what a final name may stand for again after a power loss
    former,    \* the manifests that may be the saved one again
    opt, manifest, plan,               \* what the session was started with
    global, staged, replaced, handle,  \* where chunks can be copied from
    phase, active, covered, pending,   \* where the session stands
    outcome    \* how the last session ended

\* Directory entries: which file a name stands for.
entries == <<recorded, before, former>>
disk == <<fs, dirty, entries>>
setup == <<opt, manifest, plan>>
sources == <<global, staged, replaced, handle>>
progress == <<active, covered, pending>>
vars == <<disk, setup, sources, phase, progress, outcome>>

Phases == {"idle", "ready", "open", "filling", "sealed", "finishing"}
Outcomes == {"none", "ok", "aborted", "missing", "gone", "changed"}

\* A file's size is the domain of its bytes.
SeqRange(s) == {s[i] : i \in DOMAIN s}
Whole(p) == manifest[p].bytes
Staged(p) == fs[Stage(p)]

-----------------------------------------------------------------------------
(* index.go: a digest is indexed once, at the place that was added first.  *)

NoEntry == [c \in Chunk |-> None]
Has(idx) == {c \in Chunk : idx[c] # None}
LocOf(n, bytes, c) ==
    [name |-> n, at |-> CHOOSE i \in DOMAIN bytes : bytes[i] = c]

AddFile(idx, n, bytes) ==
    [c \in Chunk |-> IF idx[c] = None /\ c \in SeqRange(bytes)
                       THEN LocOf(n, bytes, c) ELSE idx[c]]

DropPath(idx, n) ==
    [c \in Chunk |-> IF c \in Has(idx) /\ idx[c].name = n THEN None ELSE idx[c]]

\* The index of the files in the domain of held, met in the order of pick.
IndexOf(held, kind, pick) ==
    [c \in Chunk |->
        LET holders == {p \in DOMAIN held : c \in SeqRange(held[p])}
        IN  IF holders = {} THEN None
            ELSE LocOf(<<kind, pick[holders]>>, held[pick[holders]], c)]

\* readers.get: an open handle follows its inode, through a rename and after
\* an unlink, so it is the name that inode has now, or the bytes it kept.
Closed == [at |-> None, kept |-> <<>>]
OpenAt(n) == [at |-> n, kept |-> <<>>]

Readable(n) == handle[n] # Closed \/ fs[n] # None
BytesAt(n) ==
    CASE handle[n] = Closed -> fs[n].bytes
      [] handle[n] # Closed /\ handle[n].at = None -> handle[n].kept
      [] OTHER -> fs[handle[n].at].bytes

Renamed(h, from, to) ==
    [n \in Name |->
        IF h[n] # Closed /\ h[n].at = to
          THEN [at |-> None, kept |-> fs[to].bytes]
        ELSE IF h[n] # Closed /\ h[n].at = from THEN OpenAt(to)
        ELSE h[n]]

-----------------------------------------------------------------------------
(* plan.go: what the destination has, and what it therefore needs.         *)

Existing == {p \in Path : fs[Final(p)] # None}
Matching(m) == {p \in Existing \cap DOMAIN m : fs[Final(p)].bytes = m[p].bytes}

\* --fast takes size and mtime as proof that a file is the manifest's.
Trusted(m, o) ==
    {p \in Existing \cap DOMAIN m :
        /\ o.fast
        /\ DOMAIN fs[Final(p)].bytes = DOMAIN m[p].bytes
        /\ fs[Final(p)].mtime = m[p].mtime}

Skipped(m, o) == Trusted(m, o) \union Matching(m)

\* What Plan hashes and may go on without, with a warning, when it cannot.
Resumable(m) ==
    {p \in DOMAIN m : Staged(p) # None /\ DOMAIN Staged(p).bytes = DOMAIN m[p].bytes}
Expendable(m, o) ==
    {Final(p) : p \in {q \in Existing \ DOMAIN m : o.dedupe}}
    \union {Stage(p) : p \in {q \in Resumable(m) : o.resume}}

\* Files the manifest does not mention, as far as they could be hashed.
Strays(m, o, failed) == {p \in Existing \ DOMAIN m : o.dedupe /\ Final(p) \notin failed}

\* (Mutant: files to be replaced under AtomicFile are counted on as well.)
LastingAndReplaced(m, o, failed) ==
    Skipped(m, o)
    \union Strays(m, o, failed)
    \union (Existing \cap DOMAIN m)

\* (Mutant: files the manifest does not mention are hashed but not indexed.)
LastingInManifest(m, o, failed) ==
    Skipped(m, o) \union (IF o.atomic = "model" THEN Existing \cap DOMAIN m ELSE {})

\* Files whose contents the plan takes to last for the whole session.
Lasting(m, o, failed) ==
    Skipped(m, o)
    \union Strays(m, o, failed)
    \union (IF o.atomic = "model" THEN Existing \cap DOMAIN m ELSE {})

HeldBy(m, o, ps) ==
    [p \in ps |-> IF p \in Trusted(m, o) THEN m[p].bytes ELSE fs[Final(p)].bytes]

\* A file about to be replaced is a source of chunks for itself only.
ReplacedIndexes(m, o) ==
    [p \in Path |->
        IF o.atomic = "file" /\ p \in (Existing \cap DOMAIN m) \ Skipped(m, o)
          THEN AddFile(NoEntry, Final(p), fs[Final(p)].bytes)
          ELSE NoEntry]

\* indexStage: content-defined cuts are found again at least in the part of
\* the staging file before its first hole; beyond it they may or may not be.
\* (Mutant: a staging file of the right size is taken to be complete.)
CorrectBySize(m, p) == DOMAIN m[p].bytes
Correct(m, p) == {i \in DOMAIN m[p].bytes : Staged(p).bytes[i] = m[p].bytes[i]}
Intact(m, p) == {i \in Correct(m, p) : 1 .. i \subseteq Correct(m, p)}

\* The chunks found in staging files; in that of p, beyond its first hole, at
\* the places in recut[p].
StagedIndex(m, failed, recut) ==
    IndexOf([p \in {q \in Resumable(m) : Stage(q) \notin failed} |->
               [i \in DOMAIN m[p].bytes |->
                  IF i \in Intact(m, p) \union (recut[p] \cap Correct(m, p))
                    THEN m[p].bytes[i] ELSE None]],
            "stage", ByPath)

\* (Mutant: the chunks of files earlier in the plan are forgotten.)
NeedAlone(m, work, rank, p) ==
    SeqRange(m[p].bytes) \ (Has(global') \union Has(staged') \union Has(replaced'[p]))

\* (Mutant: what a file has already, in its old version, is sent again.)
NeedWithoutOwn(m, work, rank, p) ==
    SeqRange(m[p].bytes)
      \ (Has(global') \union Has(staged')
         \union UNION {SeqRange(m[q].bytes) : q \in {r \in work : rank[r] < rank[p]}})

\* A chunk is needed by the first file that has it and finds it nowhere.
Need(m, work, rank, p) ==
    SeqRange(m[p].bytes)
      \ (Has(global') \union Has(staged') \union Has(replaced'[p])
         \union UNION {SeqRange(m[q].bytes) : q \in {r \in work : rank[r] < rank[p]}})

Plan(m, o) ==
    /\ phase = "idle"
    /\ replaced' = ReplacedIndexes(m, o)
    /\ \E failed \in {f \in SUBSET Expendable(m, o) : Cardinality(f) <= MaxUnread} :
         LET held == HeldBy(m, o, Lasting(m, o, failed))
             work == DOMAIN m \ Skipped(m, o)
         IN  /\ global' \in {IndexOf(held, "final", pick) : pick \in Picks}
             /\ staged' \in (IF o.resume
                               THEN {StagedIndex(m, failed, recut) :
                                       recut \in [Resumable(m) -> SUBSET Index]}
                               ELSE {NoEntry})
             /\ \E rank \in Orders(work) :
                  plan' = [work |-> work, rank |-> rank,
                           need |-> [p \in work |-> Need(m, work, rank, p)],
                           deletes |-> IF o.delete THEN Existing \ DOMAIN m ELSE {},
                           unread |-> failed]
    /\ opt' = o /\ manifest' = m
    /\ handle' = [n \in Name |-> Closed]
    /\ phase' = "ready" /\ outcome' = "none"
    /\ UNCHANGED <<disk, progress>>

-----------------------------------------------------------------------------
(* receiver.go: one file at a time, through its staging file.              *)

\* A session that is over keeps nothing but its outcome.
NoPlan == [work |-> {}, rank |-> <<>>, need |-> <<>>, deletes |-> {}, unread |-> {}]
NoOption == CHOOSE o \in Options : TRUE
Ended(o) ==
    /\ phase' = "idle" /\ outcome' = o
    /\ opt' = NoOption /\ manifest' = None /\ plan' = NoPlan
    /\ global' = NoEntry /\ staged' = NoEntry
    /\ replaced' = [p \in Path |-> NoEntry]
    /\ handle' = [n \in Name |-> Closed]
    /\ active' = None /\ covered' = {} /\ pending' = <<>>

Reusable(p) ==
    opt.resume /\ Staged(p) # None /\ DOMAIN Staged(p).bytes = DOMAIN Whole(p)

BeginFile(p) ==
    /\ phase = "ready"
    /\ p \in plan.work
    /\ Len(pending) < MaxPending
    /\ IF Reusable(p) THEN UNCHANGED <<fs, dirty>>
       ELSE /\ fs' = [fs EXCEPT ![Stage(p)] =
                        [bytes |-> [i \in DOMAIN Whole(p) |-> Hole], mtime |-> Now]]
            /\ dirty' = dirty \union {Stage(p)}
    /\ phase' = "open" /\ active' = p /\ covered' = {}
    /\ UNCHANGED <<entries, setup, sources, pending, outcome>>

\* Writes chunk c at the given places of the active staging file.
Write(places, c) ==
    /\ fs' = [fs EXCEPT ![Stage(active)].bytes =
                [i \in DOMAIN @ |-> IF i \in places THEN c ELSE @[i]]]
    /\ dirty' = dirty \union {Stage(active)}
    /\ covered' = covered \union places

\* (Mutant: places are counted from zero.)
PlacesFromZero(c) == {i - 1 : i \in {j \in DOMAIN Whole(active) : Whole(active)[j] = c}}
PlacesOf(c) == {i \in DOMAIN Whole(active) : Whole(active)[i] = c}

\* (Mutant: the payload is not hashed.)
UncheckedChunkArrives(d, data) ==
    /\ phase = "open"
    /\ PlacesOf(d) # {}
    /\ Write(PlacesOf(d) \ covered, data)
    /\ UNCHANGED <<entries, setup, sources, phase, active, pending, outcome>>

ChunkArrives(d, data) ==
    /\ phase = "open"
    /\ data = d
    /\ PlacesOf(d) # {}
    /\ Write(PlacesOf(d) \ covered, data)
    /\ UNCHANGED <<entries, setup, sources, phase, active, pending, outcome>>

EndFile ==
    /\ phase = "open"
    /\ phase' = "filling"
    /\ UNCHANGED <<disk, setup, sources, progress, outcome>>

Lookup(p, c) ==
    IF replaced[p][c] # None THEN replaced[p][c]
    ELSE IF staged[c] # None THEN staged[c]
    ELSE global[c]

\* The first place of the active file that no chunk was written to.
NextGap(i) ==
    /\ i \in DOMAIN Whole(active) \ covered
    /\ \A j \in DOMAIN Whole(active) \ covered : i <= j

\* readers.fetch: the bytes at l, which may no longer be the chunk indexed.
FetchFails(l, c) ==
    IF l = None THEN "missing"
    ELSE IF ~ Readable(l.name) THEN "gone"
    ELSE IF l.at \notin DOMAIN BytesAt(l.name) \/ BytesAt(l.name)[l.at] # c
      THEN "changed"
    ELSE "no"

FillNext ==
    /\ phase = "filling"
    /\ \E i \in Index :
         /\ NextGap(i)
         /\ LET c == Whole(active)[i]
                l == Lookup(active, c)
            IN  /\ FetchFails(l, c) = "no"
                /\ Write({i}, c)
                /\ handle' = IF handle[l.name] = Closed
                               THEN [handle EXCEPT ![l.name] = OpenAt(l.name)]
                               ELSE handle
    /\ UNCHANGED <<entries, setup, global, staged, replaced, phase, active,
                   pending, outcome>>

\* (Mutant: the caller goes on after a failed EndFile.)
FillFailsAndGoesOn ==
    /\ phase = "filling"
    /\ \E i \in Index :
         /\ NextGap(i)
         /\ FetchFails(Lookup(active, Whole(active)[i]), Whole(active)[i]) # "no"
    /\ phase' = "ready" /\ active' = None /\ covered' = {}
    /\ UNCHANGED <<disk, setup, sources, pending, outcome>>

FillFails ==
    /\ phase = "filling"
    /\ \E i \in Index :
         /\ NextGap(i)
         /\ LET why == FetchFails(Lookup(active, Whole(active)[i]), Whole(active)[i])
            IN  why # "no" /\ Ended(why)
    /\ UNCHANGED disk

\* (Mutant: the staging file is closed without a sync.)
SealUnsynced ==
    /\ phase = "filling"
    /\ covered = DOMAIN Whole(active)
    /\ opt.verify => Staged(active).bytes = Whole(active)
    /\ phase' = "sealed"
    /\ UNCHANGED <<disk, setup, sources, progress, outcome>>

\* EndFile, once filled: verify, sync and close the staging file.
Seal ==
    /\ phase = "filling"
    /\ covered = DOMAIN Whole(active)
    /\ opt.verify => Staged(active).bytes = Whole(active)
    /\ dirty' = dirty \ {Stage(active)}
    /\ phase' = "sealed"
    /\ UNCHANGED <<fs, entries, setup, sources, progress, outcome>>

\* What an entry stood for may be back after a power loss until its directory
\* is on stable storage: from there on it is settled.
Room == Cardinality(before) + Cardinality(former) < MaxUnsettled
Settled(p) == before' = {e \in before : e[1] # p}
Unsettled(p) ==
    /\ Room /\ fs'[Final(p)] # fs[Final(p)]
    /\ before' = before \union {<<p, fs[Final(p)]>>}

\* commit: close the old file, rename the new one over it, set its times and
\* sync the directory, which may fail, or be new in one that is not synced.
Commit(p) ==
    /\ Staged(p) # None
    /\ fs' = [fs EXCEPT ![Final(p)] =
                [bytes |-> Staged(p).bytes,
                 mtime |-> IF opt.preserve THEN manifest[p].mtime ELSE Now],
              ![Stage(p)] = None]
    /\ dirty' = (dirty \ {Stage(p), Final(p)})
                  \union (IF Stage(p) \in dirty THEN {Final(p)} ELSE {})
    /\ handle' = Renamed([handle EXCEPT ![Final(p)] = Closed], Stage(p), Final(p))
    /\ Settled(p) \/ Unsettled(p)

\* indexFile: the chunks of p are now at n, and its old contents are gone.
IndexFile(n, p) ==
    /\ global' = AddFile(DropPath(global, Final(p)), n, Whole(p))
    /\ replaced' = [replaced EXCEPT ![p] = NoEntry]

\* EndFile under AtomicFile: the sealed file replaces its original.
Install ==
    /\ phase = "sealed" /\ opt.atomic = "file"
    /\ Commit(active)
    /\ IndexFile(Final(active), active)
    /\ phase' = "ready" /\ active' = None /\ covered' = {}
    /\ UNCHANGED <<recorded, former, setup, staged, pending, outcome>>

\* EndFile under AtomicModel: the sealed file waits for Finish.
Hold ==
    /\ phase = "sealed" /\ opt.atomic = "model"
    /\ IndexFile(Stage(active), active)
    /\ pending' = Append(pending, active)
    /\ phase' = "ready" /\ active' = None /\ covered' = {}
    /\ UNCHANGED <<disk, setup, staged, handle, outcome>>

Finish ==
    /\ phase = "ready"
    /\ phase' = "finishing"
    /\ UNCHANGED <<disk, setup, sources, progress, outcome>>

CommitPending ==
    /\ phase = "finishing" /\ pending # <<>>
    /\ Commit(Head(pending))
    /\ pending' = Tail(pending)
    /\ UNCHANGED <<recorded, former, setup, global, staged, replaced, phase,
                   active, covered, outcome>>

\* os.Remove, which may fail with a warning.  No sync follows; the directory may
\* be written back all the same.
Delete(p) ==
    /\ plan' = [plan EXCEPT !.deletes = @ \ {p}]
    /\ handle' = [handle EXCEPT ![Final(p)] = Closed]
    /\ \/ UNCHANGED <<fs, before>>
       \/ fs' = [fs EXCEPT ![Final(p)] = None] /\ (Settled(p) \/ Unsettled(p))

\* (Mutant: deletions come before the deferred renames.)
DeleteFirst ==
    /\ phase = "finishing"
    /\ \E p \in plan.deletes : Delete(p)
    /\ UNCHANGED <<dirty, recorded, former, opt, manifest, global, staged,
                   replaced, phase, progress, outcome>>

DeleteNext ==
    /\ phase = "finishing" /\ pending = <<>>
    /\ \E p \in plan.deletes : Delete(p)
    /\ UNCHANGED <<dirty, recorded, former, opt, manifest, global, staged,
                   replaced, phase, progress, outcome>>

\* The manifest's file is renamed into place and its directory is not synced.
SaveManifest ==
    /\ phase = "finishing" /\ pending = <<>> /\ plan.deletes = {}
    /\ recorded' = manifest
    /\ \/ former' = {}
       \/ Room /\ former' = former \union {recorded}
    /\ Ended("ok")
    /\ UNCHANGED <<fs, dirty, before>>

\* A refused call, an I/O error, a lost peer, a signal: the session is over
\* and the disk is as it stands.
Abort ==
    /\ phase # "idle"
    /\ Ended("aborted")
    /\ UNCHANGED disk

\* What is left of the file called n, if the places in kept[n] were written.
Torn(n, kept) ==
    IF n \notin dirty THEN fs[n]
    ELSE [fs[n] EXCEPT !.bytes = [i \in DOMAIN @ |-> IF i \in kept[n] THEN @[i] ELSE Hole]]

\* The machine stops.  Of bytes not on stable storage anything may be lost.
\* A rename or removal that is not settled may be undone, and with a rename
\* the staging file is back.  A staging file, whose directory is never
\* synced, may be gone, and the saved manifest may be an earlier one.
Undone(p, gone) == {e[2] : e \in {d \in gone : d[1] = p}}
PowerLoss ==
    /\ \E lost \in SUBSET {p \in Path : Staged(p) # None}, gone \in SUBSET before :
       \E kept \in [dirty \ {Stage(p) : p \in lost} -> SUBSET Index] :
         fs' = [n \in Name |->
                  LET old == Undone(n[2], gone)
                  IN  CASE n[1] = "final" /\ old # {} -> CHOOSE f \in old : TRUE
                        [] n[1] = "stage" /\ fs[n] # None /\ n[2] \in lost -> None
                        [] n[1] = "stage" /\ fs[n] = None /\ old # {} -> fs[Final(n[2])]
                        [] OTHER -> Torn(n, kept)]
    /\ dirty' = {}
    /\ recorded' \in {recorded} \union former
    /\ before' = {} /\ former' = {}
    /\ Ended("aborted")

-----------------------------------------------------------------------------
Init ==
    /\ \E tree \in Trees :
         fs = [n \in Name |-> IF n[1] = "final" THEN tree[n[2]] ELSE None]
    /\ dirty = {} /\ recorded = None
    /\ before = {} /\ former = {}
    /\ opt = NoOption /\ manifest = None /\ plan = NoPlan
    /\ global = NoEntry /\ staged = NoEntry
    /\ replaced = [p \in Path |-> NoEntry]
    /\ handle = [n \in Name |-> Closed]
    /\ phase = "idle" /\ active = None /\ covered = {} /\ pending = <<>>
    /\ outcome = "none"

Next ==
    \/ \E m \in Manifests, o \in Options : Plan(m, o)
    \/ \E p \in Path : BeginFile(p)
    \/ \E d, data \in Chunk : ChunkArrives(d, data)
    \/ EndFile \/ FillNext \/ FillFails \/ Seal \/ Install \/ Hold
    \/ Finish \/ CommitPending \/ DeleteNext \/ SaveManifest
    \/ Abort \/ PowerLoss

Spec == Init /\ [][Next]_vars

-----------------------------------------------------------------------------
(* Properties of a Receiver, whatever its caller does.                     *)

Entry == Loc \union {None}
PlanTyped ==
    /\ plan = [work |-> plan.work, rank |-> plan.rank, need |-> plan.need,
               deletes |-> plan.deletes, unread |-> plan.unread]
    /\ plan.work \in SUBSET Path /\ plan.deletes \in SUBSET Path
    /\ plan.unread \in SUBSET Name
    /\ plan.rank \in [plan.work -> Nat]
    /\ plan.need \in [plan.work -> SUBSET Chunk]

\* Every variable has its type; the session's files are files of its manifest.
TypeOK ==
    /\ fs \in [Name -> File \union {None}] /\ dirty \in SUBSET Name
    /\ recorded \in Manifests \union {None}
    /\ before \in SUBSET (Path \X (File \union {None}))
    /\ former \in SUBSET (Manifests \union {None})
    /\ manifest \in Manifests \union {None} /\ PlanTyped
    /\ opt \in OptionRecord
    /\ global \in [Chunk -> Entry] /\ staged \in [Chunk -> Entry]
    /\ replaced \in [Path -> [Chunk -> Entry]]
    /\ handle \in [Name -> [at: Name \union {None}, kept: Data]]
    /\ phase \in Phases /\ outcome \in Outcomes
    /\ active \in Path \union {None} /\ covered \in SUBSET Index
    /\ pending \in Seq(Path)

\* What a loader sees at the final paths is on stable storage: a file is
\* synced before the rename that makes it visible (EndFile, receiver.go:340).
VisibleIsDurable == \A p \in Path : Final(p) \notin dirty

\* Under AtomicModel every file EndFile reported ok and Finish has not yet
\* renamed is complete in its staging file, however often the caller reopens
\* files in between (receiver.go:367-369 against 477-481).
PendingIsWhole ==
    \A p \in SeqRange(pending) \ {active} :
        Staged(p) # None => /\ Staged(p).bytes = Whole(p)
                            /\ Stage(p) \notin dirty

\* Where a session stands: the file being assembled has the right size, every
\* place counted as covered holds the manifest's chunk, and once sealed it is
\* complete and synced.  With TypeOK, VisibleIsDurable and PendingIsWhole this
\* is inductive.
Busy == {"open", "filling", "sealed"}

SessionOK ==
    /\ \A n \in dirty : fs[n] # None
    /\ ~ (phase = "finishing" /\ pending = <<>>) =>
         \A n \in Name : handle[n].at # None => fs[handle[n].at] # None
    /\ (phase = "idle") <=> (manifest = None)
    /\ phase = "idle" => pending = <<>>
    /\ phase # "idle" =>
         /\ plan.work \subseteq DOMAIN manifest
         /\ SeqRange(pending) \subseteq DOMAIN manifest
         /\ plan.deletes \cap DOMAIN manifest = {}
         /\ plan.deletes # {} => opt.delete
    /\ phase \notin Busy => active = None
    /\ phase \in Busy =>
         /\ active \in DOMAIN manifest
         /\ Staged(active) # None
         /\ DOMAIN Staged(active).bytes = DOMAIN Whole(active)
         /\ covered \subseteq DOMAIN Whole(active)
         /\ \A i \in covered : Staged(active).bytes[i] = Whole(active)[i]
    /\ phase = "sealed" =>
         covered = DOMAIN Whole(active) /\ Stage(active) \notin dirty

IInv == TypeOK /\ SessionOK /\ VisibleIsDurable /\ PendingIsWhole

\* A file under its final name changes in one step to exactly what the
\* manifest of the session says, disappears because it is extraneous and
\* --delete was given, or is, after a power loss, what it was before: no step
\* of any session, abort or power loss leaves a half-written file where a
\* loader can find it (README "Verified before replace"; commit,
\* receiver.go:445).
ReplacedOnlyByWanted ==
    [][\A p \in Path :
         fs'[Final(p)] # fs[Final(p)] =>
           \/ /\ manifest # None /\ p \in DOMAIN manifest
              /\ fs'[Final(p)] # None /\ fs'[Final(p)].bytes = Whole(p)
           \/ /\ manifest # None /\ p \notin DOMAIN manifest
              /\ fs'[Final(p)] = None /\ opt.delete
           \/ <<p, fs'[Final(p)]>> \in before /\ phase' = "idle"]_vars
=============================================================================
