# Verification of modelmove

modelmove copies an LLM model directory from one machine to another and sends
only the chunks the other side lacks. These modules specify the parts that
decide whether the model arrives whole, TLC checks them on small instances, and
TLAPS proves for every instance the safety properties of the receiving side, of a
whole transfer and its plan, of the remote session, of the hashing pipeline, of the
chunker, of scan and verify, and of the manifests a scan makes.

## The system

    source directory -> scan (names -> layout, bytes -> chunker, hash) -> manifest
    manifest -> Session.Plan -> what is needed
             -> BeginFile, SendChunk..., EndFile (per file)
             -> Finish -> destination directory
    Session = Receiver in process (local.go)
            | Client -> ssh pipes -> Serve -> Receiver (ssh.go, protocol)

| Component (under `src/internal`) | State | Operations | What makes it correct |
| --- | --- | --- | --- |
| `receiver` | destination files, `.modelmove/stage`, the saved manifest; the plan, three chunk indexes, open handles; the file being assembled, files held back | Plan, BeginFile, Chunk, EndFile (fill, verify, sync, commit, index), Finish, Abort | a loader sees only whole, durable files; the plan's promise of local chunks can be kept; a failed or crashed run can be repeated |
| `engine` (run) | the source directory, its manifest, the place in the plan | Run, checkNotNested, transfer, sendFile | sends exactly what is missing; the first error ends the run; repeating converges |
| `chunk` (hash) | channels, pooled buffers with reference counts, goroutines | Hash | a complete signature or the error that caused the failure; no buffer reused under a reader; no hang |
| `protocol`, `transport/ssh` | two buffered pipes, the session's progress on both sides | NewClient, Plan, BeginFile, SendChunk, EndFile, Finish, Close; Serve | the same Receiver calls as in process; both ends finish |
| `chunk` (chunker, options) | a sliding buffer | NewChunker, Next; Normalized, Validate, OptionsForSize | boundaries depend on the bytes, not on the reads; both sides choose the same options; no word wraps |
| `scan` | a pool of hashing goroutines | Walk, Build | a manifest of everything, or an error, that Plan accepts |
| `engine` (verify) | a pool of hashing goroutines | Verify | ok exactly when the directory matches |
| `layout` | - | Detect, TransferOrder | a partial model looks partial; a shard set is complete when it is |
| `manifest` | the file it is saved in | Finalize, Validate, Compare, EncodeBinary, DecodeBinary, Save, Load | damage is told; a crash leaves the old or the new one; the price of a transfer adds up |
| `cli`, `progress`, `units` | - | flags, output | - |

What is hard here: a crash between any two file operations and a second run over
the leftovers; indexes computed while planning and used much later, when files
have been replaced, renamed or edited; the order of renames, deletions and the
recorded manifest; goroutines sharing buffers, channels and a writer; errors that
arrive late because calls are pipelined. `PROJECT.json` lists these hazards with
the line where each bites and the property that covers it.

## The modules

| Module | Models | Extends |
| --- | --- | --- |
| `Receiver` | `receiver.go`, `plan.go`, `index.go` under an arbitrary caller | |
| `ReceiverProofs` | theorems about `Receiver` | `Receiver` |
| `ModelSwap` | what a transfer promises about the directory; abstract | |
| `Transfer` | the engine's run, driving a `Receiver` | `Receiver`, instantiates `ModelSwap` |
| `TransferProofs` | that every transfer is a `Receiver` under some caller, and implements `ModelSwap`; that the plan asks for missing chunks only, and for enough | `Transfer`, `ReceiverProofs` |
| `HashPipeline` | `chunk.Hash` | |
| `HashProofs` | theorems about `HashPipeline` | `HashPipeline` |
| `Helper` | `Client`, `Serve` and ssh's pipes | |
| `HelperProofs` | that a remote Receiver is driven as one in process | `Helper` |
| `Scan` | `scan.Walk`, `scan.Build` in a directory that changes | |
| `Verify` | `engine.Verify` against the manifest a `Build` made | `Scan` |
| `VerifyProofs` | theorems about `Scan` and `Verify` | `Verify` |
| `Chunker` | `chunk.Chunker` and `chunk.Options` | |
| `ChunkerProofs` | a theorem about `Chunker`, lemmas about its options | `Chunker` |
| `Layout` | `layout.Detect`, `TransferOrder` | |
| `Manifest` | `manifest.go`, `diff.go` | `Layout` |
| `Binary` | `binary.go` | `Manifest` |
| `Describe` | the way from a directory to a saved or sent manifest: checkNotNested, roles, chunk sizes, cutting, Finalize, Save, Load | `Chunker`, `Binary` |
| `DescribeProofs` | theorems about the manifests that are made | `Describe`, `ChunkerProofs` |
| `CodecProofs` | that they are read as what was written, from disk and from a damaged copy | `DescribeProofs` |
| `MCReceiver`, `MCTransfer`, `MCHashPipeline`, `MCHelper`, `MCVerify`, `MCDescribe` | small instances for TLC | |

Operators with "Mutant" in their comment are defective variants of the operator
that follows. No specification uses them; substituting one for the operator it
precedes breaks a property, which shows that the property depends on that code.

### Receiver

A file is the sequence of its chunks and a chunk is its digest; a place in a
staging file that was never written holds `Hole`. `fs` maps final and staging
names to files, `dirty` the names whose bytes are not synced. `global`, `staged`
and `replaced` are the three indexes: each maps a chunk to the one place added
first. Iteration over a Go map is the choice of a `pick` function. `handle` is
the readers' cache: an open handle follows its file through a rename, and keeps
the bytes of one that was renamed over.

Each exported operation is an action. `EndFile` is several, `EndFile`,
`FillNext` per chunk copied, `Seal` (verify, sync, close), then `Install`
(commit and index) or `Hold`, since a crash may fall between any of them;
`Finish` is `Finish`, `CommitPending` per rename, `DeleteNext` per deletion and
`SaveManifest`. Every call may also fail, for reasons outside the model (a
refused argument, an I/O error), and every error ends the session in both
callers, the engine and the helper: that is `Abort`.

`PowerLoss` keeps any part of the bytes that are not synced, and may undo what
happened to directory entries. A rename is followed by a sync of its directory,
which may fail unnoticed (`syncDir`), and a directory made for the file is not
synced in its parent; a deletion is followed by no sync, but the system may write
the directory back at any time. Each rename and each deletion is therefore either
settled at once (`Settled`) or leaves in `before` what the path stood for
(`Unsettled`), and a power loss may bring any of that back: the old file, or none,
and with an undone rename the staging file. An entry of a staging file may be lost,
since nothing syncs that directory. The saved manifest is renamed into place with
no sync of its directory: `former` holds the records that may be back.

Abstractions, with the reason each is sound for the properties:

- Chunks have unit length, so offsets are places; sizes are numbers of chunks.
- A staging file is cut again with content-defined boundaries when a run
  resumes. Up to its first hole the cuts must come out as before; beyond it
  any of the remaining correct chunks may be found, in each file independently
  (`recut`).
- A file of the destination that Plan needs and cannot hash ends the session
  (`Abort`); one it can do without (a file outside the manifest, a staging file) is
  left out (`Expendable`), and the plan records which (`plan.unread`) for the sake of
  the properties alone.
- A rename, the setting of times and the sync of the directory are one step, as
  nothing looks in between; whether the sync worked is left open. Writing the
  manifest's file is one step with its rename: `Describe` has the steps of `Save`.
- The entries a power loss may bring back are settled at the commit or not until
  the next power loss or commit of the same path. That a directory is written back
  at some later time is covered: the outcomes are among those of one settled at once.
- Digests do not collide. Modes, empty directories and their pruning are left out.
- The transfer order is any total order of the files: the properties must not
  depend on the one `TransferOrder` gives.

### Transfer

`Transfer` adds the source (`src`), the files left (`todo`) and the chunks the
current file still needs (`wanting`). A run is planned against the model the
source has at that moment; afterwards the source may change, and the chunk read
then is no longer the one wanted, which ends the run. Runs follow one another,
each with any of the options, over whatever is on the disk.

`ModelSwap` is what a user may rely on: each path changes from old to new in one
step; extraneous files go, and the manifest is recorded, only when every file of
the manifest is in place; a crash brings back no more than what was not settled,
path by path. `Transfer` is checked to implement it under the
mapping in `Promise`. `--fast` takes a file of the recorded size and time for
the recorded file, without reading it; where that is wrong no promise about its
bytes can be kept, as the program's README says. `FastTells` states that it is
right for the manifest and the tree at hand. The instances of this run keep size
and time telling; the theorems assume `[]FastTells`, or no `--fast`.

### HashPipeline

Chunk `i` is the number `i` and so is its digest, so that a digest of a buffer
that was reused too early is the number of another chunk. The channels have
capacity `Depth` (twice the workers in the code). A `select` on a channel and
`ctx.Done` is two actions; when both are ready either may be taken. A check of
`ctx.Err` after a send and the checks that follow are one action,
`CancelNoticed`: a cancellation that comes later is the same as one noticed by
the next check. `sync.Pool` may hand out a returned buffer or a new one.

### Helper

A frame is its type. The client's buffered writer, the helper's stdin, the
helper's buffered writer and its stdout are four queues; a flush hands over
everything and returns when the pipe can hold what is left unread. The outcome
of every Receiver call, and of every check on a request (version, --allow-delete,
decoding), is left open. Warnings of the hashing goroutines are written in two
pieces by writers that do not exclude each other; the data race on the
`bufio.Writer` may also lose a piece. Elsewhere one goroutine warns, and `Finish`
may: those warnings come whole (`Warnings`). A signal kills ssh (`Interrupt`) and loses
any suffix of what was under way; the helper may be killed.

### Scan and Verify

A path is a sequence of names, so that hidden and state directories prune what is
below them. A file has a kind (regular, unreadable, a link to a file, a dead
link, a link that loops, of which `os.Stat` does not say that there is no file), its
chunks and a time; `Change` edits it in place, gives its name another
file or removes it, at any moment, and stamps it with a new time. `handle` is an
open file: it follows edits in place and keeps the bytes of a file that was
replaced or removed. `Walk` looks at one file per step; `Build` and `Verify` are
a loop that starts goroutines (`Spawn`), at most `Jobs` at a time, and one
action per system call of each goroutine. The deferred calls of a goroutine
(close, `<-sem`, `wg.Done`) and the update of the shared results under `mu` or
`errOnce` are one step, since nothing is read between them.

`Verify` begins where a `Build` ended, with whatever manifest it made, which may
be a torn one. As `HashPipeline` shows, a cancelled `Hash` may return a part and
no error; `HashEnds` therefore may too. `chunk.HashReader` never looks at the
context, `badChunks` does.

Abstractions: `WalkDir` reads each directory when it enters it, here all at
once when the walk begins; the bytes of one chunk are read in one step; a change
always gives a new time (a file whose old time is restored by hand defeats
`--fast`, as the program's README says).

### Chunker, Layout, Manifest, Binary and Describe

`Chunker` keeps the chunker's variables (`pos`, `buf`, `start`, `eof`, `off`) and
one action per step of `fill` and `Next`; a read returns any number of bytes, up
to the room in the buffer, or nothing, or an error. `FindCut` is `findCut`: the
rolling hash at a place is a function of the bytes before it, so the loops are
"the first place where the masked hash is zero". A machine word has `Width` bits
(32 and 64 in the code), sums and shifts wrap, and the gear table is a constant.

In `Layout` a path is its place in byte order, by which the code sorts; what the
tests on its name (suffixes, regular expressions, directories) would say is the
constant `Name`. Sorting is `SortedBy`, whose member `i` is the one with `i - 1`
members before it, so that theorems can speak of it. In `Manifest` a digest is what it is the digest of. `Binary`
writes a manifest as a sequence of units, each a number, a string or a digest,
and reads it back as `DecodeBinary` does: counts first, values it has not yet
checked used as it goes, the trailing digest last. Totals, offsets and file
counts are not written and are recomputed, as in the code. JSON is two units,
neither of any use without the other.

`Describe` composes them. A command names the directory, the pinned options,
both ends and the encoding. The directory is listed; a file may be edited
between the listing and its reading; every file is cut by `Chunker` with the
options its listed role and size call for; the manifest is finished and then
saved (temporary file, write, sync, close, rename, each of which may fail, and a
power loss that keeps any part of what is not synced and may undo the rename),
or copied elsewhere with some damage. A second command describes another state
of the model. Files are hashed one at a time here, since `Scan` and
`HashPipeline` have the goroutines.

## The runs

| Run | Instance | Shows |
| --- | --- | --- |
| `receiver` | 2 paths, 2 chunks, files up to 2 chunks, 2 manifests, one directory, an AtomicFile record that resumes and an AtomicModel record that deletes; one unsettled entry or record at a time; any number of sessions, aborts and power losses | `TypeOK`, `VisibleIsDurable`, `PendingIsWhole`, `ReplacedOnlyByWanted` |
| `transfer` | 3 paths, 3 chunks, 2 revisions of a model that move chunks between files, an empty, a full and a stray directory, five option records, one fault, one change of the source, one unsettled entry or record at a time, one file that cannot be hashed for a plan | `KeepsPromise`, `PlanSufficient`, `SendsOnlyMissing` |
| `transfer_live` | the same with the three AtomicFile records and every file readable, under fairness | `EventuallyArrives` |
| `hash` | 4 chunks, 2 workers, channels of capacity 1, file digest, failing sink, failing reader, cancellation | `NoReuseUnderReader`, `SignatureIsWhole`, `ErrorIsCause`, `Returns` |
| `helper` | a dry run, one file of 3 chunks, two files; two unreadable files; pipes of one frame; one fault | `DrivenAsInProcess`, `SessionEnds` |
| `verify` | a hidden file, one in a directory, one at the root and one under `.modelmove`; three directories with links, dead links and unreadable files; two sets of walk options; a change before, during or after a Build and a verification, both of which may be cancelled; 2 goroutines | `TimeTellsContent`, `ManifestIsSnapshot`, `BuildErrorIsCause`, `VerdictIsExact`, `BothReturn` |
| `describe` | 11 scripts of commands over a Hugging Face model and a retrained one, complete, incomplete and mixed shard sets, Ollama blobs, odd names, edited files and nested directories, and 12 pinned options up to the width of a word; 7 streams, every way to split reads | the nine properties below |
| `model_drops` | AtomicModel records | `NoChunkMissing` is violated |
| `resume_gone` | an interrupted and resumed AtomicFile run | `NoSourceGone` is violated |
| `fast_drift` | a file edited in place, its size and mtime kept | `FallsBackToNetwork` is violated |
| `model_mix` | AtomicModel records | `NeverMixed` is violated |
| `warn_garbled` | two unreadable files | `WarningsAreHarmless` is violated |

What `describe` checks: `CutsAreCanonical` (chunks do not depend on how reads are
split), `NothingWraps` (accepted options mean what they say), `LoadedIsOldOrNew`
(a saved manifest survives crashes), `DamageIsTold` (a damaged binary manifest is
refused, an undamaged one read back whole), `BuiltIsAccepted` (what `Build` makes,
`Plan` accepts), `SidesCutAlike` (the destination cuts known bytes as the source
did), `CompareIsExact` (the price of a transfer), `CompleteIsComplete` (shard
sets), `OrderTellsIncomplete` (an interrupted transfer does not look loadable).

`SendsOnlyMissing` compares each chunk that is sent with the destination as it is at
that moment (`Counted`): it is in no file of the manifest that is in place, not in the
old version of the file being sent, under AtomicModel not in any file still to be
replaced, with `--dedupe` in no hashed file outside the manifest, and, resuming, in no
staging file of the right size before its first hole (`Resumed`). It does not speak of
what could not be hashed, of what lies behind a hole, or under AtomicFile of the old
versions of other files: those are what the code does not count on either, and a
chunk may be sent that one of them holds. Three mutants of the plan break it:
`NeedWithoutOwn`, `NeedAlone` and `LastingInManifest`.

Bounds. Two chunks per file are the least that have an order, a first hole and a
repeated chunk; two work files are the least where one supplies the other;
the third path is the extraneous one. `MaxFaults` and `MaxChanges` are one each
in `transfer`: a fault leaves one set of leftovers, a change one stale revision,
and any number of runs follow. `MaxPending` bounds a caller that keeps reopening
files; an engine never reaches it. `MaxUnsettled` is one: an undone rename or
deletion concerns one path, and one record may be older than the files or newer;
theorems hold for any number. `MaxUnread` is one in `transfer`, where it decides what is
sent, and zero elsewhere. In `receiver` one manifest lists a file that is in place
already and the other leaves it out, so that a run of the second deletes it. Four chunks with channels of one are the
least where both workers hold a result, the channel is full and the scanner
waits; a pipe of one frame makes every writer of two wait.

In `describe` a word has 6 bits, chunks are 4 to 16 bytes and the thresholds for
larger chunks are 10 and 14, so that a stream of some thirty bytes fills the
largest buffer more than once and every preset occurs; the pinned averages lie on
both sides of every power of two and of the quarter of the word where four times
an average wraps. Two commands are the least with an old manifest on disk.

Three files for two goroutines
are the least where the loop has to wait while two of them fail or finish in any
order. `MaxChanges` is one in `verify`; the safety properties of that run are
proved for any number.

`hash`, `helper`, `verify` and `describe` do not check deadlock, because they stop
when they are done; that the first three do not stop earlier is `Returns`,
`SessionEnds` and `BothReturn`. The commands of `describe` are sequential and
have no waiting to get wrong.

Fairness. In `FairTransferSpec` the steps of a run are weakly fair (the engine is
one sequential goroutine whose calls return), and so is starting a run while the
model has not arrived (the user repeats the command, as the program's README
advises after an interruption); faults and changes are bounded, hence stop. In
`HashPipeline` every goroutine is weakly fair, as the Go scheduler is, and reads
return. In `Helper` both processes and the goroutine draining stdin are. In `Scan`
and `Verify` the loop and every goroutine are; whether the user verifies at all
is left open.

## Where the code and its comments disagree

1. `model_drops`. `indexFile` drops the old file's chunks from the index also
   under AtomicModel, where the old file is still there; a later file planned
   to copy one of them fails with "missing chunk". The comment at
   `receiver.go:30` and the README promise those chunks for the entire run.
2. `resume_gone`. `lookup` prefers a staged location to the global one, but
   under AtomicFile the staging file has been renamed away; the file that wants
   the chunk fails with "no such file". The next run succeeds, since the staging
   file is gone when it plans, which `transfer_live` confirms.
3. `fast_drift`. A chunk that no longer matches "must fall back to the network"
   (`index.go:101`); it ends the transfer.
4. `model_mix`. The swap at the end is a loop of renames; "never a mix"
   (`receiver.go:30`) does not hold during it, nor after a fault in it.
5. `warn_garbled`. Two unreadable files at a remote destination make two
   goroutines write to one `bufio.Writer`; the reply stream is garbled and the
   "non-fatal" warning ends the session.

Smaller ones, met while modelling and written into the properties as exceptions
or left aside:

- `checkNotNested` takes a relative path that begins with any dot for one that
  leads out (`engine.go:319`), so a destination `src/.cache` or a source inside a
  dotted directory of the destination is not refused; in the second case
  `--delete` lists the source's files. The comment (`engine.go:303`) makes no
  exception. `Nested` in `Describe` is the code's test; no property restates it, and
  what two directories that share files do to a transfer is not modelled.
- `plan.go:315` says the destination's guess gives the same options as the
  source's choice. It does not for files at least `LargeFileThreshold` long that
  are not weights, for files that crossed a threshold between walk and reading,
  and for pinned options over ssh, which `PlanRequest` (`protocol.go:112`) does not
  carry. `SidesCutAlike` says so; the cost is bytes sent again, never wrong ones.
- `layout.go:281` speaks of weights last, largest last; they are sorted by path.
- `ShardSet.Complete` counts parts (`layout.go:55`): with a part twice or beyond
  the total it may be wrong; `CompleteIsComplete` asks for regular names.
- A file whose name has a backslash, or that is called `.modelmove`, is
  listed and hashed, and the manifest is then refused by `Plan`
  (`BuiltIsAccepted`).
- A JSON manifest carries no checksum; only the binary one tells damage.
- `README.md:220` says `--delete` removes files the source no longer has; it
  removes what the manifest does not list, which with `--exclude` or without
  `--hidden` includes files the source still has.
- `cli/diff.go:25` calls `diff` the calculation a transfer performs; a transfer
  counts fewer reusable chunks where files are replaced before they are needed.

`PlanSufficient` holds with exactly the first two as exceptions, each confined
to its atomicity mode.

## Proofs

`ReceiverProofs` proves, for all values of the constants that satisfy
`ConstantsAssumption`, that `Spec` implies `[]TypeOK`, `[]VisibleIsDurable`,
`[]PendingIsWhole` and `ReplacedOnlyByWanted`.

None of the three invariants is inductive alone. `Commit` makes a staging file
visible, so that nothing dirty becomes visible needs "a sealed file is not
dirty", and for a deferred file `PendingIsWhole`; that a sealed file is whole
needs "what is covered holds the manifest's chunk", which chunk arrival and
filling keep because both compare digests before they write. `IInv` is `TypeOK`,
`VisibleIsDurable` and `PendingIsWhole` with `SessionOK`, which says this for
each phase. The proof has one lemma per action, `Init => IInv` and the step
theorem `IInv /\ [Next]_vars => IInv'`; lemmas about the indexes (`AddFile`,
`DropPath`, `IndexOf`, ...) give their types. `ReplacedOnlyByWanted` follows from
`IInv` action by action: only `Install`, `CommitPending`, `DeleteNext` and
`PowerLoss` touch the disk in a way that matters, and `PowerLoss` changes only bytes
that are dirty, which no visible file has, and entries back to what they were
(`AfterPowerLoss`).

`VerifyProofs` proves `[]TimeTellsContent` and `[]BuildErrorIsCause` of
`VerifySpec`, for any set of files, number of goroutines and bound on changes.
The invariant says, of every file that is still as the walk saw it, that an open
handle follows it and what has been read is a beginning of its bytes (`ReadOK`),
and that a recorded result is all of its bytes unless the hashing was cancelled
(`FileOK`). It is kept because no time seen by the walk is later than the last
change (`TreeOK`), so that a change makes a file differ from what the walk saw for good.

`VerifyProofs` also proves `[]ManifestIsSnapshot` and `[]VerdictIsExact`. Both speak
of the files that nobody touched, and so does the invariant `SInv`, which adds
two parts to the one above. `BuiltInv`: the walk has seen such a file as it is
(`Seen`), and unless the hashing was cancelled every file it found is still to do,
being read, or has its result (`CollectOK`), so that a `Build` that returns a
manifest lists them all. `CheckInv`: at each step of a file's verification what
the steps before have found is true of the file (`Known`), and the files counted
are the ones whose check ended without a problem (`CountOK`); when the pool is done
and nobody interrupted it, the report is therefore what the file deserves
(`ToldOK`). A change elsewhere disturbs none of this, whatever the number of them.

`TransferProofs` first shows that each step of `TransferSpec` is a step of
`Receiver`'s `Next` or leaves it alone (`DrivesReceiverSoundly`), given `IInv` and
that the source is a manifest; hence everything proved of a Receiver under any
caller holds in every transfer. The refinement of `ModelSwap` needs one more
invariant, `RunOK`: every file of the manifest is still to do, active, held back,
or standing under its final name with the manifest's bytes (`LeftOK`), and nothing
is left to do once `Finish` runs (`FinishingOK`). Then deletions and the recorded
manifest, which come after the last held file, find every file in place. What a
rename or deletion may leave behind, and what a power loss brings back, is the same
on both sides of the mapping (`Leaves`, `Crashes`): `ModelSwap` says that a crash restores
earlier contents path by path and never invents any. The
planning step establishes it because a skipped file either was read and matched,
or is one `--fast` trusted: `TransferKeepsPromise` assumes `[]FastTells`, and
`CarefulTransferKeepsPromise` needs no assumption when no option record has
`--fast`.

The second half of it is about the arithmetic of `Plan` against the run that carries
it out.
`OnlyMissingIsSent`: no chunk crosses the wire that a file the plan has counted on
holds, within the limits of `SendsOnlyMissing` above.
The invariant `PlanOK` says that files are done in the plan's order (`QueueOK`),
that no file asks for a chunk of a file left alone or done before it (`NeedOK`),
that a file which is still to be replaced differs from what it will be
(`NotYetOK`), that no file asks for a chunk it could copy from its own old version, from
another's under AtomicModel, or from a hashed file outside the manifest (`OldOK`), and
that what precedes the first hole of a staging file was not asked for (`ResumeOK`). The last needs `Hole \notin Chunk`: the code knows a hole by
its zero bytes, so a chunk of zeros looks like one and is asked for again.
`PlanSuffices`: under `[]FastTells` a chunk that was not asked for is found when its
file is filled, with the two exceptions of the findings. `SourcesOK` follows the
indexes through the run: which file an entry leads to and that the chunk is
still there (`GlobalOK`, `StagedOK`, `ReplacedOK`), what an open handle is on
(`HandlesOK`), and that each chunk of a file that is left is asked for, indexed, or
comes with a file before it (`EnoughOK`). Three theorems confine the findings:
under `[]FastTells` no chunk drifts (`OnlyFastDrifts`), none is missing but under
AtomicModel (`FileModeLacksNothing`), and no source is gone but after a resumption
under AtomicFile (`OnlyResumeLosesSources`).

`HelperProofs` proves `[]DrivenAsInProcess` for any files and any capacity of the
pipes. What is in the client's buffer and in the pipe is, in order, the stretch
of the session's script that begins where the helper has got to (`FlowOK`); the
calls made are the script's, and only the last may have failed (`CallsOK`); a
reply under way says what was done (`AnswersOK`), and so does the result
(`ResultOK`). That the script is the header, the manifest and then the calls takes
induction over the number of files.

`HashProofs` proves `[]NoReuseUnderReader`, `[]SignatureIsWhole` and
`[]ErrorIsCause` for any number of chunks and workers and any depth of the
channels. The invariant `HInv` accounts for the file hasher by order (what it has
hashed, holds and has queued are the chunks 1, 2, ... without a gap, `FileOK`), for
the workers by presence (a chunk is in one place until it is summed, `WorkOK`, and
until the run is cancelled it is somewhere, `CoverOK`), and for a buffer by the
number of sides that have still to read its chunk (`BufferOK`), so that the count
reaches zero only behind the last of them. `EndOK` says who has ended when the
channels are closed and empty, which turns "somewhere" into "in the signature"
when `Hash` returns.

`ChunkerProofs` proves `[]CutsAreCanonical`: for every stream, gear table, width
and all valid options, each chunk is the one `FindCut` finds in the stream itself.
The buffer between `start` and its end is always the stretch of the stream from
`off` on (`BufferOK`); a cut is sought only with a longest chunk ahead or at the
end of the stream (`FilledOK`); and `FindCut` looks at no more than that
(`FindCutLooksAhead`). Its lemma `NoneWrapped` says that options which `Validate`
accepts did not wrap: a word's worth of four times the average is what it seems,
since the largest chunk is bounded, and the two masks differ as they should.

`DescribeProofs` proves six of the nine properties of `describe`, and `CodecProofs`
the other three, for all names,
sizes, presets, pinned options and edits. The invariant `DescribeInv` says that the
chunker at work has the options the listing calls for (`HashingOK`) and cuts as
`ChunkerProofs` says (`CuttingOK`), that each described file has its listed role and
chunks in one row without a gap, each path once (`EntriesOK`), and that a manifest
is `Finalize` of these and describes every listed file (`DocOK`); no chunk of it
reaches beyond the end of its file (`ChunksOK`). On it rest:

- `ManifestsAreAccepted`: an edit meanwhile changes sizes and chunks, never their
  agreement; the names alone decide.
- `BothSidesCutAlike`: the recorded options are those the guess gives, size by
  size, but for the exceptions stated; normalizing twice changes nothing.
- `CompleteSetsAreComplete`: a set's parts are the sorted members of its family
  (`ShardsOfParts`), and as many regular parts as the total are all of them
  (`CountTellsAll`, by the pigeonhole principle).
- `OrderIsSafe`: the order puts weights last (`WeightsComeLast`), and a directory
  that lacks some file has no role `Detect` would not also give with it
  there (`PartsMakeNoWeights`).
- `PricesAreExact`: `[](LoadedIsOldOrNew => CompareIsExact)`; `CodecProofs` does
  away with the condition. `Total` counts a sum
  of sizes byte by byte, so that two sums are equal if there is a bijection of the
  bytes. The chunks of a file in one row hold each of its bytes once
  (`RowHoldsAll`, `ChunksHoldFiles`), hence what is reused and what is paid for
  add up to the model (`BytesAddUp`); each digest that is new has one first place
  (`FirstPlaceOf`), hence it is paid for once (`PaidOnce`); and files in the order
  of their paths with the same lines are the same, path by path (`SamePlaces`,
  `IdenticalIsTold`). The invariant `BegunOK` says that whatever Save was given was
  made so.
- `OptionsAreMeant`, `EveryCutIsCanonical`, from the guards and `ChunkerProofs`.

The lemma under all of them is `SortedByOrders`: what the given pairs put in a
strict total order is sorted, each member once, in their order. It counts
predecessors, by induction on a finite set.

`CodecProofs` is about the binary encoding. `RoundTrip`: what `EncodeBinary` wrote of a
manifest is decoded as that manifest, whatever comes after it. A manifest is five
things one after the other, two of them rows of pieces; `FlatIs` says where each
piece of a row begins, and `PiecesAreFound` that a reader who steps over each by the
width it reads there finds them all. `FileIsRead` and `ShardIsRead` say that this
width is right, and that the offsets, which are not written, come back because
chunks lie in one row (`ChunksAreRead`); so do the totals (`DecodedAgain`). Two
theorems need to know what the manifests of a run are like: `DocIsWhole` derives
it from `DescribeInv`, of every manifest that was built.

- `SavingIsSafe`: `[](SavedWithinLimits => LoadedIsOldOrNew)`. The invariant `SavingOK`
  says how far the temporary file is, and that whatever the manifest's path holds,
  or may hold again after a power loss, is complete, synced and was to be
  saved. The rename keeps it because the file was synced before; that the
  directory is not synced leads back to an older file, never to half of one.
- `PricesOfSavedAreExact`: with the above, `CompareIsExact` under the same condition.
- `DamageIsNoticed`: `[](CopyIsOfUnits => DamageIsTold)`, for any damage to the units of a
  copy, not only those `MCDamaged` lists. If something is read, the last unit read is the
  digest of all before it; a digest of units that was written is that of the body or
  that of the model, and the latter is one of lines, which no manifest begins
  with (`ReadIsWritten`); so what was read is what was written.

Their conditions. `SavedWithinLimits`: no manifest has more shards, parts, files or
chunks, or a longer chunk, than the reader accepts. Nothing in `EncodeBinary`
sees to that, so a larger manifest could be saved and not loaded; the limits
(`binary.go:29-38`) are far above any model. `CopyIsOfUnits`: what stands where a number
is read is a number, and no digest of other units appears that was not written, that
is, damage does not make up a BLAKE3 digest of its own result. The instance of
`describe` meets both, in every state.

Assumptions. `ConstantsAssumption` says that manifests and directories are
functions of the right kind, that `None` is no file, chunk, name or place, and that
iteration order is a choice. `TransferAssumption` says that no manifest's contents
are `None` and the bounds are numbers; `HashAssumption` that there are finitely many
workers, at least one, and channels have room; `HelperAssumption` that sessions
are finite and pipes have room. `ScanAssumption` says that files are of the
modelled kinds and `None` and `Follow` are no sequences or results;
`VerifyAssumption` that paths are sequences and `None` is no problem.
`ChunkerAssumption` says that chunks have at least four bytes and four of the
longest fit in a word, as the code's constants do; `PowersOfTwo` states what `2 ^ n`
means up to the width of a word, since the provers have no notion of powers.
`LayoutAssumption` says that a path is its place in byte order and that the name of
an Ollama blob, a bare digest, is not one the other tests know;
`DescribeAssumption` gives commands their types, trees a finite number of files,
and the thresholds the order the code's constants have. TLC evaluates them all in
the runs of these modules.

Induction is over the natural numbers as sets: the least member of a set of
counterexamples (`LeastMember`, `SetInduction`) does without the library theorems
that take an operator as a parameter. That reaches lengths and recursive functions.

Model-checked only: the liveness properties (`EventuallyArrives`, `Returns`,
`SessionEnds`, `BothReturn`), since fairness and ENABLED are outside the prover. Every
invariant and every action property of the passing runs is proved.

## Not modelled

- A source inside its destination or around it, which `checkNotNested` does not
  always refuse: a tree that is read and written at once.
- Two Receivers on one destination. Nothing keeps them apart, so there is no
  property of the two together that the code means to keep.
- What the client sees when the helper has exited while it still streams
  (`server.go:40`), beyond that the session ends with an error; and output the
  helper writes after `Close` stopped reading (`ssh.go:149`). Both depend on ssh's
  and the kernel's buffers, which the queues of `Helper` only approximate.
- Removal of empty directories and file modes in `Receiver`; times and modes in
  `Manifest`, whose use is `--fast`, modelled in `Receiver` and `Scan`.
- gzip and JSON byte formats, the tests on file names and the parsing of
  endpoints: text handling without state.
- Progress display, units and the command line: no part in what is transferred.
  A signal that cancels the context is a fault of `Transfer` and `Helper`, and
  `Interrupt` of `Scan`.
