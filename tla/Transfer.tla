------------------------------ MODULE Transfer ------------------------------
(***************************************************************************)
(* A Receiver driven by the engine (internal/engine/engine.go, Run,        *)
(* transfer and sendFile): scan the source, plan, stream the files of the  *)
(* plan in its order and the chunks each one needs, finish.  The first     *)
(* error closes the session; the user may run the command again, with      *)
(* other options, and the source may change at any time.                   *)
(***************************************************************************)
EXTENDS Receiver

CONSTANTS
    MaxFaults,  \* bound: interruptions and power losses
    MaxChanges  \* bound: changes of the source model

\* What a manifest says of the files' contents.
Contents(m) == IF m = None THEN None ELSE [p \in DOMAIN m |-> m[p].bytes]

ASSUME TransferAssumption ==
    /\ MaxFaults \in Nat /\ MaxChanges \in Nat
    /\ \A m \in Manifests : Contents(m) # None

VARIABLES
    src,      \* the model at the source
    todo,     \* files of the plan not begun yet
    wanting,  \* chunks the file being sent still needs
    faults, changes

engine == <<src, todo, wanting, faults, changes>>
allVars == <<vars, engine>>

Pass == UNCHANGED engine
Drop == todo' = {} /\ wanting' = {} /\ UNCHANGED src

StartRun ==
    /\ \E o \in Options : Plan(src, o)
    /\ todo' = plan'.work /\ wanting' = {}
    /\ UNCHANGED <<src, faults, changes>>

BeginNext ==
    /\ \E p \in todo :
         /\ \A q \in todo : plan.rank[p] <= plan.rank[q]
         /\ BeginFile(p)
         /\ todo' = todo \ {p}
         /\ wanting' = plan.need[p]
    /\ UNCHANGED <<src, faults, changes>>

\* The first place of chunk d in the file being sent.
FirstPlace(d) == CHOOSE i \in PlacesOf(d) : \A j \in PlacesOf(d) : i <= j
NextWanted(d) ==
    d \in wanting /\ \A e \in wanting : FirstPlace(d) <= FirstPlace(e)

\* The source is read again for every chunk, and must not have changed.
SourceHas(d) ==
    /\ active \in DOMAIN src
    /\ FirstPlace(d) \in DOMAIN src[active].bytes
    /\ src[active].bytes[FirstPlace(d)] = d

SendChunk ==
    /\ phase = "open"
    /\ \E d \in wanting :
         /\ NextWanted(d) /\ SourceHas(d)
         /\ ChunkArrives(d, d)
         /\ wanting' = wanting \ {d}
    /\ UNCHANGED <<src, todo, faults, changes>>

SourceChangedWhileReading ==
    /\ phase = "open"
    /\ \E d \in wanting : NextWanted(d) /\ ~ SourceHas(d)
    /\ Abort /\ Drop
    /\ UNCHANGED <<faults, changes>>

EndNext == wanting = {} /\ EndFile /\ Pass

FinishRun == todo = {} /\ Finish /\ Pass

Failed == FillFails /\ Drop /\ UNCHANGED <<faults, changes>>

Done == SaveManifest /\ Drop /\ UNCHANGED <<faults, changes>>

SourceChanges ==
    /\ changes < MaxChanges
    /\ src' \in Manifests \ {src}
    /\ changes' = changes + 1
    /\ UNCHANGED <<vars, todo, wanting, faults>>

Fault ==
    /\ faults < MaxFaults
    /\ Abort \/ PowerLoss
    /\ faults' = faults + 1
    /\ Drop /\ UNCHANGED changes

TransferInit ==
    /\ Init
    /\ src \in Manifests
    /\ todo = {} /\ wanting = {} /\ faults = 0 /\ changes = 0

\* The steps of a run, once it has started.
RunStep ==
    \/ BeginNext \/ SendChunk \/ SourceChangedWhileReading \/ EndNext
    \/ (FillNext /\ Pass) \/ (Seal /\ Pass) \/ (Install /\ Pass) \/ (Hold /\ Pass)
    \/ Failed \/ FinishRun \/ (CommitPending /\ Pass) \/ (DeleteNext /\ Pass)
    \/ Done

TransferNext == StartRun \/ RunStep \/ SourceChanges \/ Fault

TransferSpec == TransferInit /\ [][TransferNext]_allVars

InPlace(m) ==
    \A p \in DOMAIN m : fs[Final(p)] # None /\ fs[Final(p)].bytes = m[p].bytes
Arrived == InPlace(src) /\ recorded = src

\* A run that is not interrupted goes on, and a user whose model has not
\* arrived runs the command again.
FairTransferSpec ==
    /\ TransferSpec
    /\ WF_allVars(RunStep)
    /\ WF_allVars(~ Arrived /\ StartRun)

-----------------------------------------------------------------------------
(* Properties of a transfer.                                               *)

\* The plan's arithmetic is right: the chunks it asks the sender for, with
\* those it expects to copy locally, complete every file, whatever the order
\* in which files are replaced while the plan is carried out (plan.go:195-255
\* against fill, receiver.go:387).  Two exceptions are known: under AtomicModel
\* a chunk may have been dropped from the index, and a resumed run may look
\* for a staging file that has been renamed.
PlanSufficient ==
    [][phase = "filling" /\ phase' = "idle" /\ outcome' # "aborted" =>
         \/ opt.atomic = "model" /\ outcome' = "missing"
         \/ opt.atomic = "file" /\ opt.resume /\ outcome' = "gone"]_allVars

\* Under AtomicModel "every old file stays available as a source of reusable
\* chunks for the entire run" (receiver.go:32-34), so no file lacks a chunk.
NoChunkMissing == outcome # "missing"

\* "Each finished file makes its chunks available to the ones after it"
\* (plan.go:193-194), so no chunk is looked for in a file that is gone.
NoSourceGone == outcome # "gone"

\* A chunk that no longer matches is fetched over the network instead
\* (index.go:101-102), so it never ends the transfer.
FallsBackToNetwork == outcome # "changed"

\* "The directory is never a mix of old and new shards" under AtomicModel
\* (receiver.go:30-31): the files a run replaces are all old or all new.
NeverMixed ==
    manifest # None /\ opt.atomic = "model" =>
      LET new == {p \in plan.work : fs[Final(p)] # None
                                      /\ fs[Final(p)].bytes = Whole(p)}
      IN  new = {} \/ new = plan.work

\* The abstract promise: each path changes from old to new in one step, and
\* extraneous files are removed and the manifest recorded only when every
\* file of the manifest is in place (Finish, receiver.go:474).
Visible(file) == IF file = None THEN None ELSE file.bytes
Promise == INSTANCE ModelSwap WITH
    tree <- [p \in Path |-> Visible(fs[Final(p)])],
    target <- Contents(manifest),
    before <- {<<e[1], Visible(e[2])>> : e \in before},
    recorded <- Contents(recorded),
    former <- {Contents(m) : m \in former},
    Targets <- {Contents(m) : m \in Manifests},
    Directories <- {[p \in Path |-> Visible(t[p])] : t \in Trees}
KeepsPromise == Promise!Spec

\* What --fast takes for granted, and any session without it need not.
FastTells == \A m \in Manifests, o \in Options : Trusted(m, o) \subseteq Matching(m)

\* The files whose contents a run has taken stock of while p is being sent:
\* p itself, what is in place under the manifest, under AtomicModel what is
\* still to be replaced, and with --dedupe all others that could be hashed.
Counted(p) ==
    {q \in Existing :
        \/ q = p
        \/ q \in DOMAIN manifest /\ fs[Final(q)].bytes = Whole(q)
        \/ q \in plan.work /\ opt.atomic = "model"
        \/ q \notin DOMAIN manifest /\ opt.dedupe /\ Final(q) \notin plan.unread}

\* What a staging file of the right size held before its first hole when the
\* run began: in the active one, that it has not written itself.
Resumed(q) ==
    {i \in DOMAIN Whole(q) :
        /\ Stage(q) \notin plan.unread
        /\ Staged(q) # None /\ DOMAIN Staged(q).bytes = DOMAIN Whole(q)
        /\ \A j \in 1 .. i : /\ q = active => j \notin covered
                             /\ Staged(q).bytes[j] = Whole(q)[j]}

\* Only missing bytes are sent: never a chunk of a file counted on, the old
\* version of the file being sent included, and, resuming, never one that a
\* staging file still holds before its first hole (README "Plan"; plan.go:232).
SendsOnlyMissing ==
    [][\A d \in wanting \ wanting' :
         phase = "open" /\ phase' = "open" =>
           /\ \A q \in Counted(active) : d \notin SeqRange(fs[Final(q)].bytes)
           /\ opt.resume =>
                \A q \in DOMAIN manifest : \A i \in Resumed(q) : Whole(q)[i] # d]_allVars

\* Once interruptions and changes of the source stop, running the command
\* again and again brings the source's model into place and records it.
EventuallyArrives == <>[]Arrived
=============================================================================
