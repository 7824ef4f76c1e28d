--------------------------- MODULE TransferProofs ---------------------------
(***************************************************************************)
(* The engine drives a Receiver only as Receiver allows, so that all that  *)
(* is proved of a Receiver under any caller holds in a transfer; and a     *)
(* transfer implements ModelSwap as long as size and time tell files apart *)
(* wherever --fast relies on them.  Then the plan's arithmetic             *)
(* (plan.go:195-255) against the run that carries it out: the chunks the   *)
(* sender is asked for are missing chunks only, and with the chunks found  *)
(* locally they complete every file.                                       *)
(***************************************************************************)
EXTENDS Transfer, ReceiverProofs

RunTypeOK ==
    /\ src \in Manifests
    /\ IInv

-----------------------------------------------------------------------------
(* Each step of a transfer is a step of the Receiver, or none of it.       *)

LEMMA RunStepIsNext ==
    ASSUME RunTypeOK, RunStep
    PROVE  [Next]_vars
<1> USE DEF RunTypeOK, IInv
<1>1. CASE BeginNext
  <2>1. PICK p \in todo : BeginFile(p)  BY <1>1 DEF BeginNext
  <2>2. p \in Path  BY <2>1 DEF BeginFile, TypeOK, PlanTyped
  <2> QED  BY <2>1, <2>2 DEF Next
<1>2. CASE SendChunk
  <2>1. PICK d : phase = "open" /\ ChunkArrives(d, d)  BY <1>2 DEF SendChunk
  <2>2. d \in Chunk  BY <2>1, SessionFacts DEF ChunkArrives, PlacesOf, SessionOK, Busy
  <2> QED  BY <2>1, <2>2 DEF Next
<1>3. CASE SourceChangedWhileReading  BY <1>3 DEF SourceChangedWhileReading, Next
<1>4. CASE EndNext  BY <1>4 DEF EndNext, Next
<1>5. CASE FillNext /\ Pass  BY <1>5 DEF Next
<1>6. CASE Seal /\ Pass  BY <1>6 DEF Next
<1>7. CASE Install /\ Pass  BY <1>7 DEF Next
<1>8. CASE Hold /\ Pass  BY <1>8 DEF Next
<1>9. CASE Failed  BY <1>9 DEF Failed, Next
<1>10. CASE FinishRun  BY <1>10 DEF FinishRun, Next
<1>11. CASE CommitPending /\ Pass  BY <1>11 DEF Next
<1>12. CASE DeleteNext /\ Pass  BY <1>12 DEF Next
<1>13. CASE Done  BY <1>13 DEF Done, Next
<1> QED  BY <1>1, <1>2, <1>3, <1>4, <1>5, <1>6, <1>7, <1>8, <1>9, <1>10, <1>11,
            <1>12, <1>13 DEF RunStep

LEMMA TransferStepIsNext ==
    ASSUME RunTypeOK, [TransferNext]_allVars
    PROVE  [Next]_vars /\ src' \in Manifests
<1>1. CASE StartRun
  <2>1. PICK o \in Options : Plan(src, o)  BY <1>1 DEF StartRun
  <2>2. UNCHANGED src  BY <1>1 DEF StartRun
  <2> QED  BY <2>1, <2>2 DEF Next, RunTypeOK
<1>2. CASE RunStep
  <2>1. UNCHANGED src
        BY <1>2 DEF RunStep, BeginNext, SendChunk, SourceChangedWhileReading, EndNext,
                    Pass, Drop, engine, Failed, FinishRun, Done
  <2> QED  BY <1>2, <2>1, RunStepIsNext DEF RunTypeOK
<1>3. CASE SourceChanges  BY <1>3 DEF SourceChanges
<1>4. CASE Fault  BY <1>4 DEF Fault, Drop, Next, RunTypeOK
<1>5. CASE UNCHANGED allVars  BY <1>5 DEF allVars, engine, RunTypeOK
<1> QED  BY <1>1, <1>2, <1>3, <1>4, <1>5 DEF TransferNext

LEMMA RunTypeInvariance == TransferSpec => []RunTypeOK
<1>1. TransferInit => RunTypeOK  BY InitIsFine DEF TransferInit, RunTypeOK
<1>2. RunTypeOK /\ [TransferNext]_allVars => RunTypeOK'
      BY TransferStepIsNext, StepIsFine DEF RunTypeOK
<1> QED  BY <1>1, <1>2, PTL DEF TransferSpec

\* Run, transfer and sendFile (engine.go:93-287) make no call that Receiver
\* does not allow: what holds of a Receiver under any caller holds in every
\* transfer.
THEOREM DrivesReceiverSoundly == TransferSpec => Spec
<1>1. TransferInit => Init  BY DEF TransferInit
<1>2. RunTypeOK /\ [TransferNext]_allVars => [Next]_vars  BY TransferStepIsNext
<1> QED  BY <1>1, <1>2, RunTypeInvariance, PTL DEF TransferSpec, Spec

\* In every transfer, with any faults and changes of the source, no file
\* under a final name is anything but old, or the manifest's, or removed.
THEOREM TransferInstallsOnlyWanted == TransferSpec => ReplacedOnlyByWanted
BY DrivesReceiverSoundly, InstallsOnlyWanted, PTL

-----------------------------------------------------------------------------
(* What a run has left to do accounts for every file of the manifest.      *)

Standing(p) == fs[Final(p)] # None /\ fs[Final(p)].bytes = Whole(p)

LeftOK ==
    phase # "idle" =>
      \A p \in DOMAIN manifest :
         p \in todo \/ p = active \/ p \in SeqRange(pending) \/ Standing(p)
FinishingOK == phase = "finishing" => todo = {}

RunOK == RunTypeOK /\ LeftOK /\ FinishingOK

LEMMA HeadAndTail ==
    ASSUME NEW S, NEW s \in Seq(S), s # <<>>, NEW e \in SeqRange(s)
    PROVE  e = Head(s) \/ e \in SeqRange(Tail(s))
<1>1. PICK i \in 1 .. Len(s) : e = s[i]  BY DEF SeqRange
<1>2. CASE i = 1  BY <1>1, <1>2
<1>3. CASE i # 1
  <2>1. i - 1 \in 1 .. Len(s) - 1  BY <1>1, <1>3
  <2>2. /\ DOMAIN Tail(s) = 1 .. Len(s) - 1
        /\ Tail(s)[i - 1] = s[(i - 1) + 1]
        BY <2>1
  <2>3. (i - 1) + 1 = i  BY <1>1
  <2> QED  BY <1>1, <2>1, <2>2, <2>3 DEF SeqRange
<1> QED  BY <1>2, <1>3

\* A file in place stays in place for the rest of the run.
LEMMA StandingStays ==
    ASSUME RunTypeOK, [Next]_vars, phase # "idle", manifest' = manifest,
           NEW p \in DOMAIN manifest, Standing(p)
    PROVE  Standing(p)'
<1>1. p \in Path  BY SessionFacts DEF RunTypeOK
<1>2. SoundReplacement  BY StepReplacesSoundly DEF RunTypeOK
<1>3. phase' # "idle"
  <2>1. manifest # None  BY SessionFacts DEF RunTypeOK
  <2>2. SessionOK'  BY StepIsFine DEF RunTypeOK, IInv
  <2> QED  BY <2>1, <2>2 DEF SessionOK
<1> QED  BY <1>1, <1>2, <1>3 DEF SoundReplacement, Standing, Whole

\* Commit brings one file into place and touches no other final name.
LEMMA CommitBringsIntoPlace ==
    ASSUME RunTypeOK, phase \in {"sealed", "finishing"}, NEW p \in DOMAIN manifest,
           Commit(p), Stage(p) \notin dirty, Staged(p).bytes = Whole(p),
           phase = "finishing" => pending # <<>>
    PROVE  /\ fs'[Final(p)] # None /\ fs'[Final(p)].bytes = Whole(p)
           /\ \A q \in Path \ {p} : fs'[Final(q)] = fs[Final(q)]
<1>1. \A n \in Name : handle[n].at # None => fs[handle[n].at] # None
      BY DEF RunTypeOK, IInv, SessionOK
<1>2. /\ fs'[Final(p)] # None /\ fs'[Final(p)].bytes = Staged(p).bytes
      /\ \A n \in Name \ {Final(p), Stage(p)} : fs'[n] = fs[n]
      BY <1>1, CommitIsFine DEF RunTypeOK
<1>3. p \in Path  BY SessionFacts DEF RunTypeOK
<1> QED  BY <1>2, <1>3, NamesDiffer

\* A plan leaves out only files that are in place, where --fast tells.
LEMMA StartLeavesAll ==
    ASSUME RunTypeOK, FastTells, StartRun
    PROVE  LeftOK' /\ FinishingOK'
<1>1. PICK o \in Options : Plan(src, o)  BY DEF StartRun
<1>2. /\ manifest' = src /\ fs' = fs /\ phase' = "ready"
      /\ plan'.work = DOMAIN src \ Skipped(src, o)
      BY <1>1 DEF Plan, disk
<1>3. Skipped(src, o) = Matching(src)
      BY DEF Skipped, FastTells, RunTypeOK
<1>4. todo' = DOMAIN src \ Matching(src)  BY <1>2, <1>3 DEF StartRun
<1>5. \A p \in Matching(src) : Standing(p)'
      BY <1>2 DEF Matching, Existing, Standing, Whole
<1> QED  BY <1>2, <1>4, <1>5 DEF LeftOK, FinishingOK

LEMMA RunStepKeepsLeft ==
    ASSUME RunOK, RunStep
    PROVE  LeftOK' /\ FinishingOK'
<1> USE DEF RunOK
<1>n. [Next]_vars  BY RunStepIsNext
<1>e. ASSUME phase' = "idle" PROVE LeftOK' /\ FinishingOK'
      BY <1>e DEF LeftOK, FinishingOK
<1>s. ASSUME phase # "idle", UNCHANGED <<manifest, todo, active, pending>>,
             phase' # "finishing" \/ todo = {}
      PROVE  LeftOK' /\ FinishingOK'
      BY <1>n, <1>s, StandingStays DEF LeftOK, FinishingOK
<1>1. CASE BeginNext
  <2>1. PICK p \in todo : BeginFile(p) /\ todo' = todo \ {p}  BY <1>1 DEF BeginNext
  <2>2. /\ phase = "ready" /\ phase' = "open" /\ active' = p
        /\ manifest' = manifest /\ pending' = pending
        BY <2>1 DEF BeginFile, setup
  <2>3. active \notin DOMAIN manifest
        BY <2>2, SessionFacts, ConstantsAssumption DEF RunTypeOK, IInv, SessionOK, Busy
  <2> QED  BY <1>n, <2>1, <2>2, <2>3, StandingStays DEF LeftOK, FinishingOK
<1>2. CASE SendChunk
      BY <1>2, <1>s DEF SendChunk, ChunkArrives, setup
<1>3. CASE SourceChangedWhileReading
      BY <1>3, <1>e DEF SourceChangedWhileReading, Abort, Ended
<1>4. CASE EndNext  BY <1>4, <1>s DEF EndNext, Pass, engine, EndFile, setup, progress
<1>5. CASE FillNext /\ Pass  BY <1>5, <1>s DEF FillNext, Pass, engine, setup
<1>6. CASE Seal /\ Pass  BY <1>6, <1>s DEF Seal, Pass, engine, setup, progress
<1>7. CASE Install /\ Pass
  <2>1. /\ phase = "sealed" /\ phase' = "ready" /\ Commit(active)
        /\ UNCHANGED <<manifest, todo, pending>>
        BY <1>7 DEF Install, Pass, engine, setup
  <2>2. PICK p \in DOMAIN manifest : p = active
        BY <2>1, SealedIsWhole DEF RunTypeOK
  <2>3. fs'[Final(p)] # None /\ fs'[Final(p)].bytes = Whole(p)
        BY <2>1, <2>2, SealedIsWhole, CommitBringsIntoPlace DEF RunTypeOK
  <2>4. Standing(p)'  BY <2>1, <2>3 DEF Standing, Whole
  <2> QED  BY <1>n, <2>1, <2>2, <2>4, StandingStays DEF LeftOK, FinishingOK
<1>8. CASE Hold /\ Pass
  <2>1. /\ phase = "sealed" /\ phase' = "ready" /\ pending' = Append(pending, active)
        /\ UNCHANGED <<manifest, todo>>
        BY <1>8 DEF Hold, Pass, engine, setup
  <2>2. active \in Path  BY <2>1, SealedIsWhole DEF RunTypeOK
  <2>3. SeqRange(pending') = SeqRange(pending) \union {active}
        BY <2>1, <2>2, AppendRange DEF RunTypeOK, IInv, TypeOK
  <2> QED  BY <1>n, <2>1, <2>3, StandingStays DEF LeftOK, FinishingOK, SeqRange
<1>9. CASE Failed
  <2>1. PICK o : Ended(o)  BY <1>9 DEF Failed, FillFails
  <2> QED  BY <2>1, <1>e DEF Ended
<1>10. CASE FinishRun
      BY <1>10, <1>s DEF FinishRun, Pass, engine, Finish, setup, progress
<1>11. CASE CommitPending /\ Pass
  <2>1. /\ phase = "finishing" /\ pending # <<>> /\ pending' = Tail(pending)
        /\ UNCHANGED <<manifest, todo, active, phase>>
        BY <1>11 DEF CommitPending, Pass, engine, setup
  <2>2. PICK p \in DOMAIN manifest : p = Head(pending)
        BY <1>11, HeldIsWhole DEF RunTypeOK
  <2>3. fs'[Final(p)] # None /\ fs'[Final(p)].bytes = Whole(p)
        BY <1>11, <2>1, <2>2, HeldIsWhole, CommitBringsIntoPlace DEF RunTypeOK
  <2>4. Standing(p)'  BY <2>1, <2>3 DEF Standing, Whole
  <2>5. \A q \in SeqRange(pending) : q = p \/ q \in SeqRange(pending')
        BY <2>1, <2>2, HeadAndTail DEF RunTypeOK, IInv, TypeOK
  <2> QED  BY <1>n, <2>1, <2>4, <2>5, StandingStays DEF LeftOK, FinishingOK, SeqRange
<1>12. CASE DeleteNext /\ Pass
  <2>1. /\ phase = "finishing"
        /\ UNCHANGED <<manifest, todo, active, pending, phase>>
        BY <1>12 DEF DeleteNext, Pass, engine, progress
  <2> QED  BY <2>1, <1>s DEF FinishingOK
<1>13. CASE Done  BY <1>13, <1>e DEF Done, SaveManifest, Ended
<1> QED  BY <1>1, <1>2, <1>3, <1>4, <1>5, <1>6, <1>7, <1>8, <1>9, <1>10, <1>11,
            <1>12, <1>13 DEF RunStep

LEMMA RunInvariance == TransferSpec /\ []FastTells => []RunOK
<1>1. TransferInit => RunOK
      BY InitIsFine DEF TransferInit, Init, RunOK, RunTypeOK, LeftOK, FinishingOK
<1>2. RunOK /\ FastTells /\ [TransferNext]_allVars => RunOK'
  <2> SUFFICES ASSUME RunOK, FastTells, [TransferNext]_allVars PROVE RunOK'  OBVIOUS
  <2>1. RunTypeOK'  BY TransferStepIsNext, StepIsFine DEF RunOK, RunTypeOK
  <2>2. LeftOK' /\ FinishingOK'
    <3>1. CASE StartRun  BY <3>1, StartLeavesAll DEF RunOK
    <3>2. CASE RunStep  BY <3>2, RunStepKeepsLeft
    <3>3. CASE Fault
      <4>1. phase' = "idle"  BY <3>3 DEF Fault, Abort, PowerLoss, Ended
      <4> QED  BY <4>1 DEF LeftOK, FinishingOK
    <3>4. CASE SourceChanges \/ UNCHANGED allVars
      <4>1. UNCHANGED <<fs, manifest, todo, active, pending, phase>>
            BY <3>4 DEF SourceChanges, allVars, engine, vars, disk, setup, progress
      <4> QED
          BY <4>1 DEF RunOK, LeftOK, FinishingOK, Standing, Whole, SeqRange
    <3> QED  BY <3>1, <3>2, <3>3, <3>4 DEF TransferNext
  <2> QED  BY <2>1, <2>2 DEF RunOK
<1> QED  BY <1>1, <1>2, PTL DEF TransferSpec

-----------------------------------------------------------------------------
(* Each step of a transfer is a step of ModelSwap, or none of it.          *)

Swap == [p \in Path |-> Visible(fs[Final(p)])]

LEMMA Stutters ==
    ASSUME \A p \in Path : fs'[Final(p)] = fs[Final(p)], UNCHANGED <<manifest, entries>>
    PROVE  UNCHANGED Promise!vars
BY DEF Promise!vars, Visible, Contents, entries

\* What a rename or a removal leaves behind is what ModelSwap leaves behind.
LEMMA Leaves ==
    ASSUME IInv, NEW p \in Path, Settled(p) \/ Unsettled(p)
    PROVE  Promise!Leave(p)
<1> DEFINE past == {<<e[1], Visible(e[2])>> : e \in before}
<1>1. CASE Settled(p)
  <2>1. past' = {e \in past : e[1] # p}  BY <1>1 DEF Settled
  <2> QED  BY <2>1 DEF Promise!Leave
<1>2. CASE Unsettled(p)
  <2>1. before' = before \union {<<p, fs[Final(p)]>>}  BY <1>2 DEF Unsettled
  <2> DEFINE e0 == <<p, fs[Final(p)]>>
  <2>3. e0[1] = p /\ e0[2] = fs[Final(p)]  OBVIOUS
  <2>4. past' = {<<e[1], Visible(e[2])>> : e \in before'}  BY DEF Visible
  <2>5. before' = before \union {e0}  BY <2>1
  <2> HIDE DEF e0
  <2>6. past' = past \union {<<e0[1], Visible(e0[2])>>}  BY <2>4, <2>5
  <2>2. past' = past \union {<<p, Visible(fs[Final(p)])>>}  BY <2>3, <2>6
  <2> QED  BY <2>2 DEF Promise!Leave
<1> QED  BY <1>1, <1>2

LEMMA Replaces ==
    ASSUME RunTypeOK, phase # "idle", UNCHANGED <<manifest, recorded, former>>,
           NEW p \in DOMAIN manifest,
           fs'[Final(p)] # None, fs'[Final(p)].bytes = Whole(p),
           \A q \in Path \ {p} : fs'[Final(q)] = fs[Final(q)],
           Settled(p) \/ Unsettled(p)
    PROVE  Promise!Replace(p) /\ p \in Path
<1>1. /\ p \in Path /\ manifest \in Manifests /\ manifest # None
      BY SessionFacts DEF RunTypeOK
<1>2. Contents(manifest) # None /\ Contents(manifest) = [q \in DOMAIN manifest |-> manifest[q].bytes]
      BY <1>1, TransferAssumption DEF Contents
<1>3. Contents(manifest)[p] = Whole(p) /\ p \in DOMAIN Contents(manifest)
      BY <1>2 DEF Whole
<1>4. Swap' = [Swap EXCEPT ![p] = Contents(manifest)[p]]
      BY <1>1, <1>3 DEF Swap, Visible
<1>5. UNCHANGED <<Contents(manifest), Contents(recorded), {Contents(m) : m \in former}>>
      BY DEF Contents
<1>6. Promise!Leave(p)  BY <1>1, Leaves DEF RunTypeOK
<1> QED  BY <1>1, <1>2, <1>3, <1>4, <1>5, <1>6 DEF Promise!Replace, Swap

LEMMA Stops ==
    ASSUME \A p \in Path : fs'[Final(p)] = fs[Final(p)], manifest' = None,
           UNCHANGED entries
    PROVE  Promise!Stop
BY DEF Promise!Stop, Visible, Contents, entries

\* A power loss brings back no more than ModelSwap's crash.
LEMMA Crashes ==
    ASSUME IInv, PowerLoss
    PROVE  Promise!Crash
<1>1. /\ manifest' = None /\ before' = {} /\ former' = {}
      /\ recorded' \in {recorded} \union former
      BY DEF PowerLoss, Ended
<1>2. \A p \in Path : fs'[Final(p)] # fs[Final(p)] => <<p, fs'[Final(p)]>> \in before
      BY AfterPowerLoss
<1>3. \A p \in Path : Visible(fs'[Final(p)]) # Visible(fs[Final(p)]) =>
         <<p, Visible(fs'[Final(p)])>> \in {<<e[1], Visible(e[2])>> : e \in before}
  <2> SUFFICES ASSUME NEW p \in Path, fs'[Final(p)] # fs[Final(p)]
               PROVE  <<p, Visible(fs'[Final(p)])>> \in {<<e[1], Visible(e[2])>> : e \in before}
      OBVIOUS
  <2> DEFINE e0 == <<p, fs'[Final(p)]>>
  <2>1. e0 \in before /\ e0[1] = p /\ e0[2] = fs'[Final(p)]  BY <1>2
  <2> HIDE DEF e0
  <2>2. <<e0[1], Visible(e0[2])>> \in {<<e[1], Visible(e[2])>> : e \in before}
        BY <2>1
  <2> QED  BY <2>1, <2>2
<1>4. \A p \in Path : Swap'[p] # Swap[p] =>
         <<p, Swap'[p]>> \in {<<e[1], Visible(e[2])>> : e \in before}
      BY <1>3 DEF Swap, Visible
<1>5. Contents(manifest)' = None
      /\ Contents(recorded)' \in {Contents(recorded)} \union {Contents(m) : m \in former}
      BY <1>1 DEF Contents
<1>6. {<<e[1], Visible(e[2])>> : e \in before}' = {} /\ {Contents(m) : m \in former}' = {}
      BY <1>1
<1>7. Swap' = [p \in Path |-> Swap'[p]]  BY DEF Swap
<1> QED  BY <1>4, <1>5, <1>6, <1>7 DEF Promise!Crash, Swap

\* Deletions and the record come when nothing is left to do.
LEMMA FinishedIsInPlace ==
    ASSUME RunOK, phase = "finishing", pending = <<>>
    PROVE  Promise!InPlace
<1>1. /\ manifest \in Manifests /\ manifest # None /\ DOMAIN manifest \subseteq Path
      BY SessionFacts DEF RunOK, RunTypeOK
<1>2. active \notin DOMAIN manifest
      BY <1>1, ConstantsAssumption DEF RunOK, RunTypeOK, IInv, SessionOK, Busy
<1>3. \A p \in DOMAIN manifest : Standing(p)
      BY <1>2 DEF RunOK, LeftOK, FinishingOK, SeqRange
<1>4. Contents(manifest) = [q \in DOMAIN manifest |-> manifest[q].bytes]
      BY <1>1 DEF Contents
<1> QED  BY <1>1, <1>3, <1>4 DEF Promise!InPlace, Standing, Visible, Whole

LEMMA RunStepKeepsPromise ==
    ASSUME RunOK, RunStep
    PROVE  [Promise!Next]_(Promise!vars)
<1> USE DEF RunOK, RunTypeOK
<1>f. fs \in [Name -> File \union {None}]  BY DEF IInv, TypeOK
<1>w. ASSUME NEW c, NEW places, Write(places, c), phase \in {"open", "filling"},
             UNCHANGED <<manifest, entries>>
      PROVE  UNCHANGED Promise!vars
  <2>1. active \in Path  BY <1>w, SessionFacts DEF IInv, SessionOK, Busy
  <2>2. \A p \in Path : fs'[Final(p)] = fs[Final(p)]
        BY <1>w, <1>f, <2>1, NamesDiffer DEF Write
  <2> QED  BY <1>w, <2>2, Stutters
<1>1. CASE BeginNext
  <2>1. PICK p \in todo : BeginFile(p)  BY <1>1 DEF BeginNext
  <2>2. p \in Path  BY <2>1 DEF BeginFile, IInv, TypeOK, PlanTyped
  <2>3. \A q \in Path : fs'[Final(q)] = fs[Final(q)]
        BY <2>1, <2>2, <1>f, NamesDiffer DEF BeginFile
  <2> QED  BY <2>1, <2>3, Stutters DEF BeginFile, setup
<1>2. CASE SendChunk
  <2>1. PICK d : phase = "open" /\ ChunkArrives(d, d)  BY <1>2 DEF SendChunk
  <2> QED  BY <2>1, <1>w DEF ChunkArrives, setup
<1>3. CASE SourceChangedWhileReading
      BY <1>3, Stops DEF SourceChangedWhileReading, Abort, Ended, disk, entries, Promise!Next
<1>4. CASE EndNext \/ FinishRun
      BY <1>4, Stutters DEF EndNext, EndFile, FinishRun, Finish, disk, entries, setup
<1>5. CASE FillNext /\ Pass
  <2>1. PICK i, c : Write({i}, c)  BY <1>5 DEF FillNext
  <2> QED  BY <1>5, <2>1, <1>w DEF FillNext, setup
<1>6. CASE Seal \/ Hold  BY <1>6, Stutters DEF Seal, Hold, disk, entries, setup
<1>7. CASE Install
  <2>1. PICK p \in DOMAIN manifest : p = active
        BY <1>7, SealedIsWhole DEF Install
  <2>2. /\ fs'[Final(p)] # None /\ fs'[Final(p)].bytes = Whole(p)
        /\ \A q \in Path \ {p} : fs'[Final(q)] = fs[Final(q)]
        BY <1>7, <2>1, SealedIsWhole, CommitBringsIntoPlace DEF Install
  <2> QED  BY <1>7, <2>1, <2>2, Replaces DEF Install, Commit, setup, Promise!Next
<1>8. CASE Failed
  <2>1. PICK o : Ended(o)  BY <1>8 DEF Failed, FillFails
  <2> QED  BY <1>8, <2>1, Stops DEF Failed, FillFails, Ended, disk, entries, Promise!Next
<1>9. CASE CommitPending
  <2>1. PICK p \in DOMAIN manifest : p = Head(pending)
        BY <1>9, HeldIsWhole
  <2>2. /\ fs'[Final(p)] # None /\ fs'[Final(p)].bytes = Whole(p)
        /\ \A q \in Path \ {p} : fs'[Final(q)] = fs[Final(q)]
        BY <1>9, <2>1, HeldIsWhole, CommitBringsIntoPlace DEF CommitPending
  <2> QED  BY <1>9, <2>1, <2>2, Replaces DEF CommitPending, Commit, setup, Promise!Next
<1>10. CASE DeleteNext
  <2>1. PICK p \in plan.deletes :
          \/ UNCHANGED <<fs, before>>
          \/ fs' = [fs EXCEPT ![Final(p)] = None] /\ (Settled(p) \/ Unsettled(p))
        BY <1>10 DEF DeleteNext, Delete
  <2>2. /\ phase = "finishing" /\ pending = <<>> /\ UNCHANGED <<manifest, recorded, former>>
        BY <1>10 DEF DeleteNext
  <2>3. /\ p \in Path /\ p \notin DOMAIN manifest
        /\ manifest \in Manifests /\ manifest # None
        BY <2>2, SessionFacts DEF IInv, TypeOK, PlanTyped, SessionOK
  <2>4. CASE UNCHANGED <<fs, before>>  BY <2>2, <2>4, Stutters DEF entries
  <2>5. CASE fs' = [fs EXCEPT ![Final(p)] = None] /\ (Settled(p) \/ Unsettled(p))
    <3>1. /\ Contents(manifest) # None
          /\ p \notin DOMAIN Contents(manifest)
          BY <2>3, TransferAssumption DEF Contents
    <3>2. Swap' = [Swap EXCEPT ![p] = None]
          BY <1>f, <2>3, <2>5, NamesDiffer DEF Swap, Visible
    <3>3. UNCHANGED <<Contents(manifest), Contents(recorded), {Contents(m) : m \in former}>>
          BY <2>2 DEF Contents
    <3>5. Promise!Leave(p)  BY <2>3, <2>5, Leaves
    <3>4. Promise!Remove(p)
          BY <2>2, <3>1, <3>2, <3>3, <3>5, FinishedIsInPlace DEF Promise!Remove, Swap
    <3> QED  BY <2>3, <3>4 DEF Promise!Next
  <2> QED  BY <2>1, <2>4, <2>5
<1>11. CASE Done
  <2>1. /\ phase = "finishing" /\ pending = <<>>
        /\ recorded' = manifest /\ manifest' = None /\ fs' = fs /\ before' = before
        /\ former' \in {{}, former \union {recorded}}
        BY <1>11 DEF Done, SaveManifest, Ended
  <2>2. Contents(manifest) # None
        BY <2>1, SessionFacts, TransferAssumption
  <2>3. /\ Contents(manifest)' = None /\ Contents(recorded)' = Contents(manifest)
        /\ Swap' = Swap
        BY <2>1 DEF Contents, Swap, Visible
  <2>5. /\ {Contents(m) : m \in former}' \in
             {{}, {Contents(m) : m \in former} \union {Contents(recorded)}}
        /\ {<<e[1], Visible(e[2])>> : e \in before}' = {<<e[1], Visible(e[2])>> : e \in before}
        BY <2>1 DEF Visible
  <2>4. Promise!Record
        BY <2>1, <2>2, <2>3, <2>5, FinishedIsInPlace DEF Promise!Record, Swap
  <2> QED  BY <2>4 DEF Promise!Next
<1> QED  BY <1>1, <1>2, <1>3, <1>4, <1>5, <1>6, <1>7, <1>8, <1>9, <1>10, <1>11 DEF RunStep

LEMMA StepKeepsPromise ==
    ASSUME RunOK, [TransferNext]_allVars
    PROVE  [Promise!Next]_(Promise!vars)
<1> USE DEF RunOK, RunTypeOK
<1>1. CASE StartRun
  <2>1. PICK o \in Options : Plan(src, o)  BY <1>1 DEF StartRun
  <2>2. manifest = None /\ manifest' = src /\ UNCHANGED <<fs, entries>>
        BY <2>1 DEF Plan, disk, entries, IInv, SessionOK
  <2>3. /\ Contents(manifest) = None
        /\ Contents(manifest)' \in {Contents(m) : m \in Manifests}
        /\ Contents(recorded)' = Contents(recorded)
        /\ {Contents(m) : m \in former}' = {Contents(m) : m \in former}
        /\ {<<e[1], Visible(e[2])>> : e \in before}' = {<<e[1], Visible(e[2])>> : e \in before}
        BY <2>2 DEF Contents, Visible, entries
  <2>4. Swap' = Swap  BY <2>2 DEF Swap, Visible
  <2>5. Promise!Start  BY <2>3, <2>4 DEF Promise!Start, Swap
  <2> QED  BY <2>5 DEF Promise!Next
<1>2. CASE RunStep  BY <1>2, RunStepKeepsPromise
<1>3. CASE SourceChanges \/ UNCHANGED allVars
      BY <1>3, Stutters DEF SourceChanges, allVars, vars, disk, entries, setup
<1>4. CASE Fault
  <2>1. CASE Abort
        BY <2>1, Stops DEF Abort, Ended, disk, Promise!Next
  <2>2. CASE PowerLoss  BY <2>2, Crashes DEF Promise!Next
  <2> QED  BY <1>4, <2>1, <2>2 DEF Fault
<1> QED  BY <1>1, <1>2, <1>3, <1>4 DEF TransferNext

LEMMA InitKeepsPromise ==
    ASSUME TransferInit
    PROVE  Promise!Init
<1>1. PICK t \in Trees :
         fs = [n \in Name |-> IF n[1] = "final" THEN t[n[2]] ELSE None]
      BY DEF TransferInit, Init
<1>2. \A p \in Path : fs[Final(p)] = t[p]  BY <1>1 DEF Final, Name
<1>3. Swap = [p \in Path |-> Visible(t[p])]  BY <1>2 DEF Swap
<1>4. /\ Contents(manifest) = None /\ Contents(recorded) = None
      /\ {Contents(m) : m \in former} = {}
      /\ {<<e[1], Visible(e[2])>> : e \in before} = {}
      BY DEF TransferInit, Init, Contents
<1> QED  BY <1>3, <1>4 DEF Promise!Init, Swap

\* A transfer implements ModelSwap: whatever is interrupted or changes, each
\* file of the model turns from old to new in one step, and deletions and the
\* record of the manifest (Finish, receiver.go:474-518) come only when every
\* file is in place; a power loss brings back what was, path by path.  What
\* --fast takes for granted is the one assumption.
THEOREM TransferKeepsPromise == TransferSpec /\ []FastTells => KeepsPromise
<1>1. TransferInit => Promise!Init  BY InitKeepsPromise
<1>2. RunOK /\ [TransferNext]_allVars => [Promise!Next]_(Promise!vars)
      BY StepKeepsPromise
<1> QED  BY <1>1, <1>2, RunInvariance, PTL DEF TransferSpec, KeepsPromise, Promise!Spec

\* Without --fast, it needs no assumption (skipDecision, plan.go:297-327).
THEOREM CarefulTransferKeepsPromise ==
    (\A o \in Options : ~ o.fast) => (TransferSpec => KeepsPromise)
<1> SUFFICES ASSUME \A o \in Options : ~ o.fast PROVE TransferSpec => KeepsPromise
    OBVIOUS
<1>1. FastTells  BY DEF FastTells, Trusted
<1> QED  BY <1>1, TransferKeepsPromise, PTL

-----------------------------------------------------------------------------
(* The plan.                                                              *)

Moving == phase \in {"ready", "open", "filling", "sealed"}

\* The files of the plan that are not finished yet.
Left == todo \union {active}

-----------------------------------------------------------------------------
(* The kinds of step a run that goes on can take.                          *)

\* Steps that move the run on and leave files, plan and sources alone.
Quiet ==
    /\ Moving
    /\ UNCHANGED <<fs, setup, sources, active, covered, todo, wanting>>
    /\ phase' # phase => /\ phase' # "open"
                         /\ phase' \in Busy => phase \in Busy
                         /\ wanting = {} \/ phase # "open"

\* Steps that write chunks of the manifest into the active staging file.
Writes(places, c) ==
    /\ phase \in {"open", "filling"} /\ phase' = phase
    /\ c \in Chunk /\ places \subseteq PlacesOf(c)
    /\ Write(places, c)
    /\ UNCHANGED <<setup, global, staged, replaced, active, todo>>

LEMMA StepKinds ==
    ASSUME RunTypeOK, [TransferNext]_allVars, Moving'
    PROVE  \/ StartRun \/ BeginNext \/ SendChunk \/ (FillNext /\ Pass)
           \/ (Install /\ Pass) \/ (Hold /\ Pass) \/ Quiet
<1>1. CASE EndNext \/ (Seal /\ Pass)
      BY <1>1 DEF EndNext, Seal, EndFile, Pass, engine, Quiet, Moving, Busy, disk, progress
<1>2. CASE SourceChangedWhileReading \/ Failed \/ FinishRun \/ Done \/ Fault
  <2>1. phase' \in {"idle", "finishing"}
        BY <1>2 DEF SourceChangedWhileReading, Failed, FillFails, FinishRun, Finish, Done,
                    SaveManifest, Fault, Abort, PowerLoss, Ended
  <2> QED  BY <2>1 DEF Moving
<1>3. CASE (CommitPending /\ Pass) \/ (DeleteNext /\ Pass)
      BY <1>3 DEF CommitPending, DeleteNext, Moving
<1>4. CASE SourceChanges \/ UNCHANGED allVars
      BY <1>4 DEF SourceChanges, allVars, vars, engine, disk, progress, Quiet, Moving
<1> QED  BY <1>1, <1>2, <1>3, <1>4 DEF TransferNext, RunStep

\* In each of them the session it leaves is the one it found.
LEMMA SessionStands ==
    ASSUME RunTypeOK, Moving
    PROVE  /\ manifest \in Manifests /\ manifest # None /\ DOMAIN manifest \subseteq Path
           /\ plan.work \subseteq DOMAIN manifest /\ plan.work \subseteq Path
           /\ None \notin Path
           /\ plan.rank \in [plan.work -> Nat] /\ plan.need \in [plan.work -> SUBSET Chunk]
           /\ fs \in [Name -> File \union {None}]
           /\ phase = "ready" => active = None
           /\ phase # "ready" => active \in DOMAIN manifest /\ active \in Path
<1>1. phase # "idle"  BY DEF Moving
<1> QED  BY <1>1, SessionFacts, ConstantsAssumption
         DEF RunTypeOK, IInv, TypeOK, PlanTyped, SessionOK, Busy, Moving

\* What Plan comes to, for the files that it could not hash.
LEMMA PlanFacts ==
    ASSUME NEW m, NEW o, Plan(m, o)
    PROVE  /\ plan'.work = DOMAIN m \ Skipped(m, o)
           /\ plan'.rank \in Orders(plan'.work)
           /\ plan'.need = [p \in plan'.work |-> Need(m, plan'.work, plan'.rank, p)]
           /\ \E pick \in Picks :
                global' = IndexOf(HeldBy(m, o, Lasting(m, o, plan'.unread)), "final", pick)
           /\ o.resume => \E recut \in [Resumable(m) -> SUBSET Index] :
                             staged' = StagedIndex(m, plan'.unread, recut)
<1> DEFINE work == DOMAIN m \ Skipped(m, o)
<1>1. PICK failed \in SUBSET Expendable(m, o) :
        /\ global' \in {IndexOf(HeldBy(m, o, Lasting(m, o, failed)), "final", pick) :
                          pick \in Picks}
        /\ o.resume => staged' \in {StagedIndex(m, failed, recut) :
                                       recut \in [Resumable(m) -> SUBSET Index]}
        /\ \E rank \in Orders(work) :
             plan' = [work |-> work, rank |-> rank,
                      need |-> [p \in work |-> Need(m, work, rank, p)],
                      deletes |-> IF o.delete THEN Existing \ DOMAIN m ELSE {},
                      unread |-> failed]
      BY DEF Plan
<1>2. PICK rank \in Orders(work) :
        plan' = [work |-> work, rank |-> rank,
                 need |-> [p \in work |-> Need(m, work, rank, p)],
                 deletes |-> IF o.delete THEN Existing \ DOMAIN m ELSE {},
                 unread |-> failed]
      BY <1>1
<1>3. /\ plan'.work = work /\ plan'.rank = rank /\ plan'.unread = failed
      /\ plan'.need = [p \in work |-> Need(m, work, rank, p)]
      BY <1>2
<1> QED  BY <1>1, <1>3

LEMMA StartFacts ==
    ASSUME RunTypeOK, StartRun
    PROVE  /\ \E o \in Options : Plan(src, o)
           /\ manifest' = src /\ src \in Manifests /\ DOMAIN src \subseteq Path
           /\ opt' \in Options /\ fs' = fs
           /\ plan'.work = DOMAIN src \ Skipped(src, opt')
           /\ plan'.rank \in Orders(plan'.work)
           /\ plan'.need = [p \in plan'.work |-> Need(src, plan'.work, plan'.rank, p)]
           /\ todo' = plan'.work /\ active' = None /\ covered' = covered /\ wanting' = {}
           /\ phase' = "ready" /\ handle' = [n \in Name |-> Closed]
           /\ \A p : Whole(p)' = src[p].bytes
           /\ None \notin Path
<1>1. PICK o \in Options : Plan(src, o)  BY DEF StartRun
<1>3. /\ phase = "idle" /\ opt' = o /\ manifest' = src /\ fs' = fs
      /\ active' = active /\ covered' = covered
      /\ handle' = [n \in Name |-> Closed] /\ phase' = "ready"
      BY <1>1 DEF Plan, disk, progress
<1>4. src \in Manifests /\ DOMAIN src \subseteq Path /\ None \notin Path
      BY ConstantsAssumption DEF RunTypeOK
<1>5. active = None  BY <1>3 DEF RunTypeOK, IInv, SessionOK, Busy
<1>6. /\ plan'.work = DOMAIN src \ Skipped(src, o)
      /\ plan'.rank \in Orders(plan'.work)
      /\ plan'.need = [p \in plan'.work |-> Need(src, plan'.work, plan'.rank, p)]
      BY <1>1, PlanFacts
<1>7. todo' = plan'.work /\ wanting' = {}  BY DEF StartRun
<1>8. \A p : Whole(p)' = src[p].bytes  BY <1>3 DEF Whole
<1> QED  BY <1>1, <1>3, <1>4, <1>5, <1>6, <1>7, <1>8

LEMMA BeginFacts ==
    ASSUME RunTypeOK, BeginNext
    PROVE  \E p \in todo :
             /\ p \in plan.work /\ p \in Path
             /\ \A q \in todo : plan.rank[p] <= plan.rank[q]
             /\ phase = "ready" /\ phase' = "open" /\ active = None /\ active' = p
             /\ todo' = todo \ {p} /\ wanting' = plan.need[p] /\ covered' = {}
             /\ UNCHANGED <<setup, sources>>
             /\ \A n \in Name \ {Stage(p)} : fs'[n] = fs[n]
             /\ Reusable(p) => fs' = fs
             /\ ~ Reusable(p) =>
                  /\ fs'[Stage(p)] # None
                  /\ fs'[Stage(p)].bytes = [i \in DOMAIN Whole(p) |-> Hole]
<1>1. PICK p \in todo : /\ \A q \in todo : plan.rank[p] <= plan.rank[q]
                        /\ BeginFile(p) /\ todo' = todo \ {p} /\ wanting' = plan.need[p]
      BY DEF BeginNext
<1>2. p \in plan.work /\ phase = "ready"  BY <1>1 DEF BeginFile
<1>3. p \in Path /\ active = None /\ fs \in [Name -> File \union {None}] /\ p \in DOMAIN manifest
      BY <1>2, SessionStands DEF Moving
<1>4. Stage(p) \in Name  BY <1>3, NamesDiffer
<1>5. CASE Reusable(p)
      BY <1>1, <1>2, <1>3, <1>5 DEF BeginFile
<1>6. CASE ~ Reusable(p)
  <2> DEFINE b == [i \in DOMAIN Whole(p) |-> Hole]
             f == [bytes |-> b, mtime |-> Now]
  <2>1. fs' = [fs EXCEPT ![Stage(p)] = f]  BY <1>1, <1>6 DEF BeginFile
  <2>2. b \in Data  BY <1>2, <1>3, SessionFacts, RewrittenType DEF RunTypeOK
  <2>3. f \in File  BY <2>2, ConstantsAssumption DEF File
  <2>4. f # None /\ f.bytes = b  BY <2>3, ConstantsAssumption
  <2> HIDE DEF b, f
  <2>5. fs'[Stage(p)] = f /\ \A n \in Name \ {Stage(p)} : fs'[n] = fs[n]
        BY <2>1, <1>3, <1>4
  <2>6. fs'[Stage(p)] # None /\ fs'[Stage(p)].bytes = b  BY <2>4, <2>5
  <2> QED  BY <1>1, <1>2, <1>3, <1>6, <2>5, <2>6 DEF BeginFile, b
<1> QED  BY <1>5, <1>6

LEMMA SendFacts ==
    ASSUME RunTypeOK, SendChunk
    PROVE  \E d \in wanting :
             /\ d \in Chunk /\ phase = "open"
             /\ wanting' = wanting \ {d} /\ handle' = handle
             /\ Writes(PlacesOf(d) \ covered, d)
<1>1. PICK d \in wanting : /\ phase = "open" /\ ChunkArrives(d, d)
                           /\ wanting' = wanting \ {d} /\ todo' = todo
      BY DEF SendChunk
<1>2. d \in Chunk  BY <1>1, SessionFacts DEF ChunkArrives, PlacesOf, RunTypeOK, IInv, SessionOK, Busy
<1> QED  BY <1>1, <1>2 DEF ChunkArrives, Writes, sources

LEMMA FillFacts ==
    ASSUME RunTypeOK, FillNext, Pass
    PROVE  \E i \in DOMAIN Whole(active) : LET c == Whole(active)[i] IN
             /\ phase = "filling" /\ wanting' = wanting
             /\ Writes({i}, c)
             /\ FetchFails(Lookup(active, c), c) = "no"
             /\ handle' = IF handle[Lookup(active, c).name] = Closed
                            THEN [handle EXCEPT ![Lookup(active, c).name] =
                                                  OpenAt(Lookup(active, c).name)]
                            ELSE handle
<1>1. PICK i \in Index :
        LET c == Whole(active)[i]  l == Lookup(active, c)
        IN  /\ NextGap(i) /\ FetchFails(l, c) = "no" /\ Write({i}, c)
            /\ handle' = IF handle[l.name] = Closed
                           THEN [handle EXCEPT ![l.name] = OpenAt(l.name)] ELSE handle
      BY DEF FillNext
<1>2. i \in DOMAIN Whole(active)  BY <1>1 DEF NextGap
<1>3. /\ phase = "filling" /\ phase' = phase /\ wanting' = wanting
      /\ UNCHANGED <<setup, global, staged, replaced, active, todo>>
      BY DEF FillNext, Pass, engine
<1>4. Whole(active)[i] \in Chunk
      BY <1>2, <1>3, SessionStands, SessionFacts DEF Moving, RunTypeOK
<1> QED  BY <1>1, <1>2, <1>3, <1>4 DEF Writes, PlacesOf

\* What a write leaves of the file system.
LEMMA WritesFacts ==
    ASSUME RunTypeOK, NEW places, NEW c, Writes(places, c)
    PROVE  /\ active \in DOMAIN manifest /\ active \in Path /\ Moving
           /\ covered' = covered \union places
           /\ \A n \in Name \ {Stage(active)} : fs'[n] = fs[n]
           /\ Staged(active) # None /\ fs'[Stage(active)] # None
           /\ DOMAIN Staged(active).bytes = DOMAIN Whole(active)
           /\ DOMAIN fs'[Stage(active)].bytes = DOMAIN Whole(active)
           /\ \A i \in DOMAIN Whole(active) :
                fs'[Stage(active)].bytes[i] =
                   IF i \in places THEN c ELSE Staged(active).bytes[i]
           /\ \A i \in places : i \in DOMAIN Whole(active) /\ Whole(active)[i] = c
<1>1. Moving  BY DEF Writes, Moving
<1>2. /\ active \in DOMAIN manifest /\ active \in Path
      /\ fs \in [Name -> File \union {None}]
      BY <1>1, SessionStands DEF Writes
<1>3. Staged(active) # None /\ DOMAIN Staged(active).bytes = DOMAIN Whole(active)
      BY DEF Writes, RunTypeOK, IInv, SessionOK, Busy
<1> DEFINE old == Staged(active)
           b == [i \in DOMAIN old.bytes |-> IF i \in places THEN c ELSE old.bytes[i]]
           f == [old EXCEPT !.bytes = b]
<1>4. Stage(active) \in Name /\ old \in File
      BY <1>2, <1>3, NamesDiffer DEF Staged
<1>5. fs' = [fs EXCEPT ![Stage(active)] = f] /\ covered' = covered \union places
      BY DEF Write, Writes, Staged
<1>6. f.bytes = b  BY <1>4 DEF File
<1>7. \A i \in places : i \in DOMAIN Whole(active) /\ Whole(active)[i] = c
      BY DEF Writes, PlacesOf
<1>8. /\ DOMAIN b = DOMAIN Whole(active)
      /\ \A i \in DOMAIN Whole(active) : b[i] = IF i \in places THEN c ELSE old.bytes[i]
      BY <1>3
<1>9. b \in Data
  <2>1. old.bytes \in Data  BY <1>4 DEF File
  <2>2. \A i \in DOMAIN old.bytes : b[i] \in Chunk \union {Hole}
        BY <2>1, DataType DEF Writes
  <2>3. b = [i \in DOMAIN old.bytes |-> b[i]]  OBVIOUS
  <2> HIDE DEF b
  <2> QED  BY <2>1, <2>2, <2>3, RewrittenType
<1>10. f \in File  BY <1>4, <1>9 DEF File
<1>11. f # None  BY <1>10, ConstantsAssumption
<1> HIDE DEF f, b
<1>12. fs'[Stage(active)] = f /\ \A n \in Name \ {Stage(active)} : fs'[n] = fs[n]
       BY <1>2, <1>4, <1>5
<1> QED  BY <1>1, <1>2, <1>3, <1>5, <1>6, <1>7, <1>8, <1>11, <1>12

LEMMA InstallFacts ==
    ASSUME RunTypeOK, Install, Pass
    PROVE  /\ phase = "sealed" /\ phase' = "ready" /\ opt.atomic = "file"
           /\ active \in DOMAIN manifest /\ active \in Path
           /\ active' = None /\ covered' = {} /\ todo' = todo
           /\ UNCHANGED <<setup, staged>>
           /\ IndexFile(Final(active), active)
           /\ handle' = Renamed([handle EXCEPT ![Final(active)] = Closed],
                                Stage(active), Final(active))
           /\ fs'[Final(active)] # None /\ fs'[Final(active)].bytes = Whole(active)
           /\ fs'[Stage(active)] = None
           /\ \A n \in Name \ {Final(active), Stage(active)} : fs'[n] = fs[n]
<1>1. /\ phase = "sealed" /\ phase' = "ready" /\ opt.atomic = "file" /\ Commit(active)
      /\ active' = None /\ covered' = {} /\ todo' = todo
      /\ UNCHANGED <<setup, staged>> /\ IndexFile(Final(active), active)
      BY DEF Install, Pass, engine
<1>2. /\ active \in DOMAIN manifest /\ active \in Path
      /\ Staged(active).bytes = Whole(active) /\ Stage(active) \notin dirty
      BY <1>1, SealedIsWhole DEF RunTypeOK
<1>3. \A n \in Name : handle[n].at # None => fs[handle[n].at] # None
      BY <1>1 DEF RunTypeOK, IInv, SessionOK
<1>4. /\ fs'[Final(active)] # None /\ fs'[Final(active)].bytes = Staged(active).bytes
      /\ fs'[Stage(active)] = None
      /\ \A n \in Name \ {Final(active), Stage(active)} : fs'[n] = fs[n]
      BY <1>1, <1>2, <1>3, CommitIsFine DEF RunTypeOK
<1> QED  BY <1>1, <1>2, <1>4 DEF Commit

LEMMA HoldFacts ==
    ASSUME RunTypeOK, Hold, Pass
    PROVE  /\ phase = "sealed" /\ phase' = "ready" /\ opt.atomic = "model"
           /\ active \in DOMAIN manifest /\ active \in Path
           /\ active' = None /\ covered' = {} /\ todo' = todo
           /\ UNCHANGED <<fs, setup, staged, handle>>
           /\ IndexFile(Stage(active), active)
           /\ Staged(active) # None /\ Staged(active).bytes = Whole(active)
<1>1. phase = "sealed"  BY DEF Hold
<1> QED  BY <1>1, SealedIsWhole DEF Hold, Pass, engine, disk, RunTypeOK

-----------------------------------------------------------------------------
(* Only missing bytes are sent.                                            *)

\* The files done come before those left, and the active one before the rest.
QueueOK ==
    /\ todo \subseteq plan.work /\ active \notin todo
    /\ active # None => active \in plan.work
    /\ \A p, q \in plan.work : plan.rank[p] = plan.rank[q] => p = q
    /\ \A q \in plan.work \ Left, p \in plan.work \cap Left :
          plan.rank[q] < plan.rank[p]
    /\ \A q \in todo : active # None => plan.rank[active] < plan.rank[q]

\* No chunk is asked for that a file left alone, or one before it, has.
NeedOK ==
    \A p \in plan.work : \A d \in plan.need[p] :
       /\ \A q \in DOMAIN manifest \ plan.work : d \notin SeqRange(Whole(q))
       /\ \A q \in plan.work :
             plan.rank[q] < plan.rank[p] => d \notin SeqRange(Whole(q))

\* What the plan says is to be replaced is not in place before it is.
NotYetOK ==
    \A q \in plan.work : opt.atomic = "model" \/ q \in Left => ~ Standing(q)

\* The other files p can copy from while it is left, its old version included.
OldFor(p) ==
    {q \in Existing :
        \/ q = p
        \/ q \in plan.work /\ opt.atomic = "model"
        \/ q \notin DOMAIN manifest /\ opt.dedupe /\ Final(q) \notin plan.unread}

\* No chunk is asked for that one of them has.
OldOK ==
    \A p \in plan.work \cap Left : \A q \in OldFor(p) : \A d \in plan.need[p] :
       d \notin SeqRange(fs[Final(q)].bytes)

\* What precedes the first hole of a staging file is not asked for, until that
\* file is done, as long as a hole is told from a chunk.
ResumeOK ==
    Hole \notin Chunk /\ opt.resume =>
      \A p \in plan.work \cap Left : \A q \in DOMAIN manifest :
         (q \in plan.work => q \in Left) =>
            \A i \in Resumed(q) : Whole(q)[i] \notin plan.need[p]

WantedOK == phase = "open" => wanting \subseteq plan.need[active]

PlanOK == Moving => QueueOK /\ NeedOK /\ NotYetOK /\ OldOK /\ ResumeOK /\ WantedOK

\* An index of files has every chunk of each of them.
LEMMA IndexOfHas ==
    ASSUME NEW held, DOMAIN held \subseteq Path,
           \A p \in DOMAIN held : DOMAIN held[p] \subseteq Index,
           NEW kind \in {"final", "stage"}, NEW pick \in Picks,
           NEW p \in DOMAIN held, NEW c \in SeqRange(held[p]), c \in Chunk
    PROVE  IndexOf(held, kind, pick)[c] # None
<1> DEFINE holders == {q \in DOMAIN held : c \in SeqRange(held[q])}
<1>1. p \in holders  OBVIOUS
<1>2. holders \in (SUBSET Path) \ {{}}
  <2>1. holders \subseteq DOMAIN held  OBVIOUS
  <2> QED  BY <2>1, <1>1
<1>3. pick[holders] \in holders  BY <1>2 DEF Picks
<1> DEFINE q == pick[holders]
<1>4. q \in DOMAIN held /\ c \in SeqRange(held[q])  BY <1>3
<1>5. <<kind, q>> \in Name  BY <1>4 DEF Name
<1>6. LocOf(<<kind, q>>, held[q], c) \in Loc  BY <1>4, <1>5, LocOfType
<1>7. IndexOf(held, kind, pick)[c] = LocOf(<<kind, q>>, held[q], c)
      BY <1>1 DEF IndexOf
<1> QED  BY <1>6, <1>7, ConstantsAssumption

LEMMA HeldByType ==
    ASSUME RunTypeOK, NEW o \in Options, NEW failed
    PROVE  LET held == HeldBy(src, o, Lasting(src, o, failed))
           IN  /\ DOMAIN held \subseteq Existing /\ DOMAIN held \subseteq Path
               /\ \A p \in DOMAIN held : DOMAIN held[p] \subseteq Index
<1> DEFINE held == HeldBy(src, o, Lasting(src, o, failed))
<1>d. \A p \in Path : fs[Final(p)] # None => DOMAIN fs[Final(p)].bytes \subseteq Index
      BY NamesDiffer, DataType DEF RunTypeOK, IInv, TypeOK, File
<1>1. Lasting(src, o, failed) \subseteq Existing
      BY DEF Lasting, Strays, Skipped, Trusted, Matching
<1>2. DOMAIN held \subseteq Path /\ DOMAIN held \subseteq Existing
      BY <1>1 DEF HeldBy, Existing
<1>3. ASSUME NEW p \in DOMAIN held PROVE DOMAIN held[p] \subseteq Index
  <2>1. p \in Existing  BY <1>1 DEF HeldBy
  <2>2. p \in Trusted(src, o) => DOMAIN src[p].bytes \subseteq Index
        BY ManifestFacts DEF Trusted, RunTypeOK
  <2> QED  BY <2>1, <2>2, <1>d DEF HeldBy, Existing
<1> QED  BY <1>2, <1>3

\* The chunks of the files a plan counts on are all in the index.
LEMMA LastingIsHeld ==
    ASSUME RunTypeOK, NEW o \in Options, Plan(src, o),
           NEW q \in Lasting(src, o, plan'.unread),
           NEW c \in Chunk,
           c \in SeqRange(IF q \in Trusted(src, o) THEN src[q].bytes ELSE fs[Final(q)].bytes)
    PROVE  c \in Has(global')
<1> DEFINE held == HeldBy(src, o, Lasting(src, o, plan'.unread))
<1>1. PICK pick \in Picks : global' = IndexOf(held, "final", pick)
      BY PlanFacts
<1>2. /\ DOMAIN held \subseteq Path
      /\ \A p \in DOMAIN held : DOMAIN held[p] \subseteq Index
      BY HeldByType
<1>3. q \in DOMAIN held /\ c \in SeqRange(held[q])  BY DEF HeldBy
<1> HIDE DEF held
<1>4. IndexOf(held, "final", pick)[c] # None  BY <1>2, <1>3, IndexOfHas
<1> QED  BY <1>1, <1>4 DEF Has

\* Among them, those of the files it leaves alone.
LEMMA SkippedIsHeld ==
    ASSUME RunTypeOK, NEW o \in Options, Plan(src, o),
           NEW q \in Skipped(src, o), NEW c \in SeqRange(src[q].bytes)
    PROVE  c \in Has(global')
<1>1. q \in DOMAIN src  BY DEF Skipped, Trusted, Matching
<1>2. c \in Chunk  BY <1>1, ManifestFacts DEF RunTypeOK, SeqRange
<1>3. q \in Lasting(src, o, plan'.unread)  BY DEF Lasting
<1>4. c \in SeqRange(IF q \in Trusted(src, o) THEN src[q].bytes ELSE fs[Final(q)].bytes)
      BY DEF Skipped, Matching
<1> QED  BY <1>2, <1>3, <1>4, LastingIsHeld

\* The old version of a file about to be replaced is indexed for that file.
LEMMA OwnIsHeld ==
    ASSUME RunTypeOK, NEW o, Plan(src, o), o.atomic = "file",
           NEW p \in (Existing \cap DOMAIN src) \ Skipped(src, o),
           NEW c \in Chunk, c \in SeqRange(fs[Final(p)].bytes)
    PROVE  c \in Has(replaced'[p])
<1>1. p \in Path /\ fs[Final(p)] # None  BY DEF Existing
<1>2. DOMAIN fs[Final(p)].bytes \subseteq Index
      BY <1>1, NamesDiffer, DataType DEF RunTypeOK, IInv, TypeOK, File
<1>3. replaced'[p] = AddFile(NoEntry, Final(p), fs[Final(p)].bytes)
      BY <1>1 DEF Plan, ReplacedIndexes
<1>4. replaced'[p][c] = LocOf(Final(p), fs[Final(p)].bytes, c)
      BY <1>3 DEF AddFile, NoEntry
<1>5. replaced'[p][c] \in Loc  BY <1>1, <1>2, <1>4, NamesDiffer, LocOfType
<1> QED  BY <1>5, ConstantsAssumption DEF Has

\* A resumed plan finds every chunk a staging file holds before its first hole.
LEMMA IntactIsStaged ==
    ASSUME RunTypeOK, NEW o \in Options, Plan(src, o), o.resume,
           NEW p \in Resumable(src), Stage(p) \notin plan'.unread,
           NEW i \in Intact(src, p)
    PROVE  src[p].bytes[i] \in Has(staged')
<1>1. PICK recut \in [Resumable(src) -> SUBSET Index] :
        staged' = StagedIndex(src, plan'.unread, recut)
      BY PlanFacts
<1> DEFINE held == [q \in {r \in Resumable(src) : Stage(r) \notin plan'.unread} |->
               [j \in DOMAIN src[q].bytes |->
                  IF j \in Intact(src, q) \union (recut[q] \cap Correct(src, q))
                    THEN src[q].bytes[j] ELSE None]]
<1>2. DOMAIN held \subseteq DOMAIN src  BY DEF Resumable
<1>3. \A q \in DOMAIN held : DOMAIN held[q] \subseteq Index
      BY <1>2, ManifestFacts DEF RunTypeOK
<1>4. DOMAIN held \subseteq Path  BY <1>2, ConstantsAssumption DEF RunTypeOK
<1>5. i \in DOMAIN src[p].bytes  BY DEF Intact, Correct
<1>6. p \in DOMAIN held /\ held[p][i] = src[p].bytes[i] /\ i \in DOMAIN held[p]
      BY <1>5
<1>7. src[p].bytes[i] \in Chunk  BY <1>2, <1>5, ManifestFacts DEF RunTypeOK
<1>8. staged' = IndexOf(held, "stage", ByPath)  BY <1>1 DEF StagedIndex
<1> HIDE DEF held
<1>9. src[p].bytes[i] \in SeqRange(held[p])  BY <1>6 DEF SeqRange
<1>10. IndexOf(held, "stage", ByPath)[src[p].bytes[i]] # None
       BY <1>3, <1>4, <1>6, <1>7, <1>9, IndexOfHas, ConstantsAssumption
<1> QED  BY <1>7, <1>8, <1>10 DEF Has

LEMMA StartPlansOnlyMissing ==
    ASSUME RunTypeOK, StartRun
    PROVE  PlanOK'
<1> DEFINE o == opt'
           work == plan'.work
           rank == plan'.rank
<1>1. /\ manifest' = src /\ src \in Manifests /\ o \in Options /\ fs' = fs
      /\ work = DOMAIN src \ Skipped(src, o)
      /\ rank \in Orders(work)
      /\ plan'.need = [p \in work |-> Need(src, work, rank, p)]
      /\ todo' = work /\ active' = None /\ covered' = covered
      /\ phase' = "ready" /\ (\A p : Whole(p)' = src[p].bytes)
      /\ None \notin Path /\ DOMAIN src \subseteq Path
      BY StartFacts
<1>p. Plan(src, o)
  <2>1. PICK x \in Options : Plan(src, x)  BY StartFacts
  <2>2. opt' = x  BY <2>1 DEF Plan
  <2> QED  BY <2>1, <2>2
<1>l. Left' = work \union {None} /\ None \notin work
      BY <1>1 DEF Left
<1>2. QueueOK'
  <2>1. \A p, q \in work : rank[p] = rank[q] => p = q  BY <1>1 DEF Orders
  <2> QED  BY <1>1, <1>l, <2>1 DEF QueueOK
<1>3. NeedOK'
  <2> SUFFICES ASSUME NEW p \in work, NEW d \in Need(src, work, rank, p)
               PROVE  /\ \A q \in DOMAIN src \ work : d \notin SeqRange(src[q].bytes)
                      /\ \A q \in work : rank[q] < rank[p] => d \notin SeqRange(src[q].bytes)
      BY <1>1 DEF NeedOK, SeqRange
  <2>1. ASSUME NEW q \in DOMAIN src \ work PROVE d \notin SeqRange(src[q].bytes)
    <3>1. q \in Skipped(src, o)  BY <1>1
    <3> QED  BY <1>1, <1>p, <3>1, SkippedIsHeld DEF Need
  <2>2. ASSUME NEW q \in work, rank[q] < rank[p] PROVE d \notin SeqRange(src[q].bytes)
        BY <2>2 DEF Need
  <2> QED  BY <2>1, <2>2
<1>4. NotYetOK'
      BY <1>1 DEF NotYetOK, Standing, Skipped, Matching, Existing
<1>o. OldOK'
  <2> SUFFICES ASSUME NEW p \in work, NEW q \in Existing,
                      \/ q = p
                      \/ q \in work /\ o.atomic = "model"
                      \/ q \notin DOMAIN src /\ o.dedupe /\ Final(q) \notin plan'.unread,
                      NEW d \in Need(src, work, rank, p), d \in SeqRange(fs[Final(q)].bytes)
               PROVE  FALSE
      BY <1>1 DEF OldOK, OldFor, Existing, SeqRange
  <2>1. d \in Chunk /\ p \in DOMAIN src /\ p \notin Skipped(src, o)
        BY <1>1, ManifestFacts DEF Need, RunTypeOK, SeqRange
  <2>2. o.atomic \in {"file", "model"}  BY <1>1, ConstantsAssumption DEF OptionRecord
  <2>3. d \notin Has(global') /\ d \notin Has(replaced'[p])  BY DEF Need
  <2>4. CASE q = p /\ o.atomic = "file"
        BY <1>p, <2>1, <2>3, <2>4, OwnIsHeld
  <2>5. CASE q \in work /\ o.atomic = "model"
    <3>1. q \in Lasting(src, o, plan'.unread) /\ q \notin Trusted(src, o)
          BY <1>1, <2>5 DEF Lasting, Skipped
    <3> QED  BY <1>1, <1>p, <2>1, <2>3, <3>1, LastingIsHeld
  <2>6. CASE q \notin DOMAIN src /\ o.dedupe /\ Final(q) \notin plan'.unread
    <3>1. q \in Lasting(src, o, plan'.unread) /\ q \notin Trusted(src, o)
          BY <2>6 DEF Lasting, Strays, Trusted
    <3> QED  BY <1>1, <1>p, <2>1, <2>3, <3>1, LastingIsHeld
  <2> QED  BY <2>2, <2>4, <2>5, <2>6
<1>5. ASSUME o.resume, NEW p \in work, NEW q \in DOMAIN src,
             Stage(q) \notin plan'.unread, Staged(q) # None,
             DOMAIN Staged(q).bytes = DOMAIN src[q].bytes,
             NEW i \in DOMAIN src[q].bytes,
             \A j \in 1 .. i : Staged(q).bytes[j] = src[q].bytes[j]
      PROVE  src[q].bytes[i] \notin Need(src, work, rank, p)
  <2>1. q \in Resumable(src)  BY <1>1, <1>5 DEF Resumable
  <2>2. PICK n \in 0 .. MaxLen : DOMAIN src[q].bytes = 1 .. n
    <3>1. src[q].bytes \in Data  BY <1>1, ManifestFacts
    <3> QED  BY <3>1 DEF Data
  <2>3. n \in Nat  BY ConstantsAssumption
  <2>4. i \in 1 .. n  BY <2>2
  <2>5. 1 .. i \subseteq 1 .. n  BY <2>3, <2>4
  <2>6. i \in 1 .. i  BY <2>3, <2>4
  <2>7. \A j \in 1 .. i : j \in Correct(src, q)  BY <1>5, <2>2, <2>5 DEF Correct
  <2>8. i \in Intact(src, q)  BY <2>6, <2>7 DEF Intact
  <2>9. src[q].bytes[i] \in Has(staged')  BY <1>1, <1>5, <1>p, <2>1, <2>8, IntactIsStaged
  <2> QED  BY <2>9 DEF Need
<1>6. ResumeOK'
  <2> SUFFICES ASSUME opt'.resume, NEW p \in plan'.work \cap Left', NEW q \in DOMAIN src,
                      NEW i \in Resumed(q)'
               PROVE  Whole(q)'[i] \notin plan'.need[p]
      BY <1>1 DEF ResumeOK
  <2>1. Staged(q)' = Staged(q) /\ Whole(q)' = src[q].bytes  BY <1>1 DEF Staged
  <2>2. p \in work  OBVIOUS
  <2>3. plan'.need[p] = Need(src, work, rank, p)  BY <1>1, <2>2
  <2>4. /\ Stage(q) \notin plan'.unread /\ Staged(q) # None
        /\ DOMAIN Staged(q).bytes = DOMAIN src[q].bytes /\ i \in DOMAIN src[q].bytes
        /\ \A j \in 1 .. i : Staged(q).bytes[j] = src[q].bytes[j]
        BY <2>1 DEF Resumed
  <2> HIDE DEF o, work, rank
  <2> QED  BY <1>5, <2>1, <2>2, <2>3, <2>4 DEF o
<1>7. WantedOK'  BY <1>1 DEF WantedOK
<1> QED  BY <1>2, <1>3, <1>4, <1>o, <1>6, <1>7 DEF PlanOK

\* What a plan says of files it does not touch stays true while they do not change.
LEMMA NeedStays ==
    ASSUME NeedOK, UNCHANGED setup
    PROVE  NeedOK'
BY DEF NeedOK, setup, Whole, SeqRange

LEMMA OldStays ==
    ASSUME OldOK, UNCHANGED setup, plan.work \cap Left' \subseteq Left,
           \A p \in plan.work \cap Left', q \in Path :
              q = p \/ opt.atomic = "model" \/ q \notin DOMAIN manifest
                 => fs'[Final(q)] = fs[Final(q)]
    PROVE  OldOK'
<1> SUFFICES ASSUME NEW p \in plan.work \cap Left', NEW q \in OldFor(p)',
                    NEW d \in plan.need[p]
             PROVE  d \notin SeqRange(fs'[Final(q)].bytes)
    BY DEF OldOK, setup, SeqRange
<1>1. q \in Path /\ fs'[Final(q)] = fs[Final(q)]
      BY DEF OldFor, Existing, setup
<1>2. q \in OldFor(p)  BY <1>1 DEF OldFor, Existing, setup
<1> QED  BY <1>1, <1>2 DEF OldOK, SeqRange

LEMMA QuietKeepsPlan ==
    ASSUME RunTypeOK, PlanOK, Quiet
    PROVE  PlanOK'
<1>1. QueueOK /\ NeedOK /\ NotYetOK /\ OldOK /\ ResumeOK /\ WantedOK  BY DEF PlanOK, Quiet
<1>2. /\ UNCHANGED <<fs, opt, manifest, plan, active, covered, todo, wanting>>
      /\ phase' = "open" => phase = "open"
      BY DEF Quiet, setup
<1>3. QueueOK'  BY <1>1, <1>2 DEF QueueOK, Left
<1>4. NeedOK'  BY <1>1, <1>2, NeedStays DEF setup
<1>5. NotYetOK'  BY <1>1, <1>2 DEF NotYetOK, Standing, Left, Whole
<1>6. ResumeOK'  BY <1>1, <1>2 DEF ResumeOK, Resumed, Staged, Whole, Left
<1>7. WantedOK'  BY <1>1, <1>2 DEF WantedOK
<1>8. OldOK'  BY <1>1, <1>2, OldStays DEF setup, Left
<1> QED  BY <1>3, <1>4, <1>5, <1>6, <1>7, <1>8 DEF PlanOK

LEMMA BeginKeepsPlan ==
    ASSUME RunTypeOK, PlanOK, BeginNext
    PROVE  PlanOK'
<1>1. PICK p \in todo :
        /\ p \in plan.work /\ p \in Path
        /\ \A q \in todo : plan.rank[p] <= plan.rank[q]
        /\ phase = "ready" /\ phase' = "open" /\ active = None /\ active' = p
        /\ todo' = todo \ {p} /\ wanting' = plan.need[p] /\ covered' = {}
        /\ UNCHANGED <<setup, sources>>
        /\ \A n \in Name \ {Stage(p)} : fs'[n] = fs[n]
        /\ Reusable(p) => fs' = fs
        /\ ~ Reusable(p) => /\ fs'[Stage(p)] # None
                            /\ fs'[Stage(p)].bytes = [i \in DOMAIN Whole(p) |-> Hole]
      BY BeginFacts
<1>2. QueueOK /\ NeedOK /\ NotYetOK /\ OldOK /\ ResumeOK  BY <1>1 DEF PlanOK, Moving
<1>3. /\ plan.work \subseteq Path /\ None \notin Path /\ plan.rank \in [plan.work -> Nat]
      /\ p \in DOMAIN manifest
      BY <1>1, SessionStands DEF Moving
<1>u. UNCHANGED <<opt, manifest, plan>> /\ \A q : Whole(q)' = Whole(q)
      BY <1>1 DEF setup, Whole
<1>l. /\ plan.work \cap Left' = plan.work \cap Left
      /\ plan.work \ Left' = plan.work \ Left
      /\ plan.work \cap Left = todo
      BY <1>1, <1>2, <1>3 DEF Left, QueueOK
<1>4. QueueOK'
  <2>1. \A q \in todo \ {p} : plan.rank[p] < plan.rank[q]
        BY <1>1, <1>2, <1>3 DEF QueueOK
  <2> QED  BY <1>1, <1>2, <1>u, <1>l, <2>1 DEF QueueOK
<1>5. NeedOK'  BY <1>1, <1>2, NeedStays
<1>6. NotYetOK'
  <2>1. \A q \in plan.work : fs'[Final(q)] = fs[Final(q)]
        BY <1>1, <1>3, NamesDiffer
  <2> QED  BY <1>2, <1>u, <1>l, <2>1 DEF NotYetOK, Standing
<1>7. ResumeOK'
  <2> SUFFICES ASSUME Hole \notin Chunk, opt.resume, NEW r \in plan.work \cap Left,
                      NEW q \in DOMAIN manifest, q \in plan.work => q \in Left,
                      NEW i \in Resumed(q)'
               PROVE  Whole(q)[i] \notin plan.need[r]
      BY <1>u, <1>l DEF ResumeOK
  <2>0. q \in Path  BY <1>1, SessionStands DEF Moving
  <2>1. CASE Staged(q)' = Staged(q)
    <3>1. i \in Resumed(q)  BY <1>1, <1>3, <1>u, <2>0, <2>1 DEF Resumed
    <3> QED  BY <1>2, <3>1 DEF ResumeOK
  <2>2. CASE Staged(q)' # Staged(q)
    <3>1. q = p
          BY <1>1, <1>3, <2>0, <2>2, NamesDiffer DEF Staged
    <3>2. ~ Reusable(p)  BY <1>1, <2>2 DEF Staged
    <3>3. PICK n \in 0 .. MaxLen : DOMAIN Whole(p) = 1 .. n
      <4>1. Whole(p) \in Data  BY <1>1, <1>3, SessionFacts DEF RunTypeOK
      <4> QED  BY <4>1 DEF Data
    <3>4. n \in Nat  BY ConstantsAssumption
    <3>9. i \in DOMAIN Whole(p)  BY <1>u, <3>1 DEF Resumed
    <3>5. 1 \in DOMAIN Whole(p) /\ 1 \in 1 .. i  BY <3>3, <3>4, <3>9
    <3>6. (Staged(p)').bytes[1] = Hole  BY <1>1, <3>2, <3>5 DEF Staged
    <3>7. Whole(p)[1] \in Chunk  BY <1>1, <1>3, <3>5, SessionFacts DEF RunTypeOK
    <3>8. (Staged(p)').bytes[1] = Whole(p)[1]  BY <1>u, <3>1, <3>5 DEF Resumed
    <3> QED  BY <3>6, <3>7, <3>8
  <2> QED  BY <2>1, <2>2
<1>8. WantedOK'  BY <1>1, <1>u DEF WantedOK
<1>9. OldOK'
  <2>1. \A q \in Path : fs'[Final(q)] = fs[Final(q)]  BY <1>1, <1>3, NamesDiffer
  <2> QED  BY <1>1, <1>2, <1>l, <2>1, OldStays
<1> QED  BY <1>4, <1>5, <1>6, <1>7, <1>8, <1>9 DEF PlanOK

LEMMA WriteKeepsPlan ==
    ASSUME RunTypeOK, PlanOK, NEW places, NEW c, Writes(places, c),
           wanting' \subseteq wanting
    PROVE  PlanOK'
<1>1. /\ active \in DOMAIN manifest /\ active \in Path /\ Moving
      /\ covered' = covered \union places
      /\ \A n \in Name \ {Stage(active)} : fs'[n] = fs[n]
      /\ Staged(active) # None /\ fs'[Stage(active)] # None
      /\ DOMAIN Staged(active).bytes = DOMAIN Whole(active)
      /\ DOMAIN fs'[Stage(active)].bytes = DOMAIN Whole(active)
      /\ \A i \in DOMAIN Whole(active) :
           fs'[Stage(active)].bytes[i] =
              IF i \in places THEN c ELSE Staged(active).bytes[i]
      /\ \A i \in places : i \in DOMAIN Whole(active) /\ Whole(active)[i] = c
      BY WritesFacts
<1>2. QueueOK /\ NeedOK /\ NotYetOK /\ OldOK /\ ResumeOK /\ WantedOK  BY <1>1 DEF PlanOK
<1>3. plan.work \subseteq Path  BY <1>1, SessionStands
<1>u. /\ UNCHANGED <<opt, manifest, plan, active, todo, phase>>
      /\ (\A q : Whole(q)' = Whole(q)) /\ Left' = Left
      BY DEF Writes, setup, Whole, Left
<1>4. QueueOK'  BY <1>2, <1>u DEF QueueOK
<1>5. NeedOK'  BY <1>2, <1>u, NeedStays DEF setup
<1>6. NotYetOK'
  <2>1. \A q \in plan.work : fs'[Final(q)] = fs[Final(q)]
        BY <1>1, <1>3, NamesDiffer
  <2> QED  BY <1>2, <1>u, <2>1 DEF NotYetOK, Standing
<1>7. ResumeOK'
  <2> SUFFICES ASSUME Hole \notin Chunk, opt.resume, NEW r \in plan.work \cap Left,
                      NEW q \in DOMAIN manifest, q \in plan.work => q \in Left,
                      NEW i \in Resumed(q)'
               PROVE  Whole(q)[i] \notin plan.need[r]
      BY <1>u DEF ResumeOK
  <2>1. CASE q = active
    <3>1. PICK n \in 0 .. MaxLen : DOMAIN Whole(q) = 1 .. n
      <4>1. Whole(q) \in Data  BY <1>1, <2>1, SessionFacts DEF Moving, RunTypeOK
      <4> QED  BY <4>1 DEF Data
    <3>2. n \in Nat  BY ConstantsAssumption
    <3>6. i \in DOMAIN Whole(q) /\ Stage(q) \notin plan.unread
          BY <1>u DEF Resumed
    <3>3. 1 .. i \subseteq DOMAIN Whole(q)  BY <3>1, <3>2, <3>6
    <3>4. ASSUME NEW j \in 1 .. i
          PROVE  j \notin covered /\ Staged(q).bytes[j] = Whole(q)[j]
      <4>1. j \notin covered' /\ (Staged(q)').bytes[j] = Whole(q)[j]
            BY <1>u, <2>1 DEF Resumed
      <4>2. j \notin covered /\ j \notin places  BY <4>1, <1>1
      <4> QED  BY <1>1, <2>1, <3>3, <4>1, <4>2 DEF Staged
    <3>5. i \in Resumed(q)  BY <1>1, <2>1, <3>4, <3>6 DEF Resumed
    <3> QED  BY <1>2, <3>5 DEF ResumeOK
  <2>2. CASE q # active
    <3>0. q \in Path  BY <1>1, SessionStands
    <3>1. Staged(q)' = Staged(q)  BY <1>1, <2>2, <3>0, NamesDiffer DEF Staged
    <3>2. i \in Resumed(q)  BY <1>u, <2>2, <3>1 DEF Resumed
    <3> QED  BY <1>2, <3>2 DEF ResumeOK
  <2> QED  BY <2>1, <2>2
<1>8. WantedOK'  BY <1>2, <1>u DEF WantedOK
<1>9. OldOK'
  <2>1. \A q \in Path : fs'[Final(q)] = fs[Final(q)]  BY <1>1, NamesDiffer
  <2> QED  BY <1>2, <1>u, <2>1, OldStays DEF setup
<1> QED  BY <1>4, <1>5, <1>6, <1>7, <1>8, <1>9 DEF PlanOK

\* The active file is done; nothing else changes but its own names.
LEMMA DoneKeepsPlan ==
    ASSUME RunTypeOK, PlanOK, phase = "sealed", phase' = "ready",
           active' = None, todo' = todo, UNCHANGED setup,
           \A n \in Name \ {Final(active), Stage(active)} : fs'[n] = fs[n],
           opt.atomic = "file" \/ fs' = fs
    PROVE  PlanOK'
<1>1. /\ active \in DOMAIN manifest /\ active \in Path /\ None \notin Path
      /\ plan.work \subseteq Path
      BY SessionStands DEF Moving
<1>2. QueueOK /\ NeedOK /\ NotYetOK /\ OldOK /\ ResumeOK  BY DEF PlanOK, Moving
<1>u. /\ UNCHANGED <<opt, manifest, plan, todo>> /\ \A q : Whole(q)' = Whole(q)
      BY DEF setup, Whole
<1>l. /\ plan.work \cap Left' = todo /\ plan.work \cap Left = todo \union {active}
      /\ plan.work \ Left' = (plan.work \ Left) \union {active}
      /\ active \notin Left'
      BY <1>1, <1>2 DEF Left, QueueOK
<1>3. QueueOK'  BY <1>1, <1>2, <1>u, <1>l DEF QueueOK
<1>4. NeedOK'  BY <1>2, NeedStays
<1>s. \A q \in Path \ {active} : fs'[Final(q)] = fs[Final(q)] /\ Staged(q)' = Staged(q)
      BY <1>1, NamesDiffer DEF Staged
<1>5. NotYetOK'
  <2> SUFFICES ASSUME NEW q \in plan.work, opt.atomic = "model" \/ q \in Left'
               PROVE  ~ Standing(q)'
      BY <1>u DEF NotYetOK
  <2>1. CASE q \in Left'
    <3>1. q # active /\ q \in Left  BY <1>l, <2>1
    <3> QED  BY <1>1, <1>2, <1>s, <1>u, <3>1 DEF NotYetOK, Standing
  <2>2. CASE opt.atomic = "model"
        BY <1>2, <1>u, <2>2 DEF NotYetOK, Standing
  <2> QED  BY <2>1, <2>2
<1>6. ResumeOK'
  <2> SUFFICES ASSUME Hole \notin Chunk, opt.resume, NEW r \in todo,
                      NEW q \in DOMAIN manifest, q \in plan.work => q \in Left',
                      NEW i \in Resumed(q)'
               PROVE  Whole(q)[i] \notin plan.need[r]
      BY <1>u, <1>l DEF ResumeOK
  <2>0. q \in Path /\ active \in plan.work  BY <1>1, <1>2, SessionStands DEF Moving, QueueOK
  <2>1. q # active /\ (q \in plan.work => q \in Left)  BY <1>l, <2>0
  <2>2. Staged(q)' = Staged(q)  BY <1>s, <2>0, <2>1
  <2>3. i \in Resumed(q)  BY <1>u, <2>1, <2>2 DEF Resumed
  <2>4. r \in plan.work \cap Left  BY <1>l
  <2> QED  BY <1>2, <2>1, <2>3, <2>4 DEF ResumeOK
<1>7. WantedOK'  BY DEF WantedOK
<1>8. OldOK'
  <2>1. plan.work \cap Left' \subseteq Left  BY <1>l
  <2>2. ASSUME NEW p \in plan.work \cap Left', NEW q \in Path,
               q = p \/ opt.atomic = "model" \/ q \notin DOMAIN manifest
        PROVE  fs'[Final(q)] = fs[Final(q)]
        BY <1>1, <1>l, <1>s, <2>2
  <2> QED  BY <1>2, <2>1, <2>2, OldStays
<1> QED  BY <1>3, <1>4, <1>5, <1>6, <1>7, <1>8 DEF PlanOK

LEMMA StepKeepsPlan ==
    ASSUME RunTypeOK, PlanOK, [TransferNext]_allVars
    PROVE  PlanOK'
<1> SUFFICES ASSUME Moving' PROVE PlanOK'  BY DEF PlanOK
<1>1. CASE StartRun  BY <1>1, StartPlansOnlyMissing
<1>2. CASE BeginNext  BY <1>2, BeginKeepsPlan
<1>3. CASE SendChunk
  <2>1. PICK d \in wanting : /\ wanting' = wanting \ {d}
                             /\ Writes(PlacesOf(d) \ covered, d)
        BY <1>3, SendFacts
  <2>2. wanting' \subseteq wanting  BY <2>1
  <2> QED  BY <2>1, <2>2, WriteKeepsPlan
<1>4. CASE FillNext /\ Pass
  <2>1. PICK i, c : wanting' = wanting /\ Writes({i}, c)  BY <1>4, FillFacts
  <2> QED  BY <2>1, WriteKeepsPlan
<1>5. CASE Install /\ Pass  BY <1>5, InstallFacts, DoneKeepsPlan
<1>6. CASE Hold /\ Pass  BY <1>6, HoldFacts, DoneKeepsPlan
<1>7. CASE Quiet  BY <1>7, QuietKeepsPlan
<1> QED  BY <1>1, <1>2, <1>3, <1>4, <1>5, <1>6, <1>7, StepKinds

LEMMA PlanInvariance == TransferSpec => []PlanOK
<1>1. TransferInit => PlanOK  BY DEF TransferInit, Init, PlanOK, Moving
<1>2. RunTypeOK /\ PlanOK /\ [TransferNext]_allVars => PlanOK'  BY StepKeepsPlan
<1> QED  BY <1>1, <1>2, RunTypeInvariance, PTL DEF TransferSpec

\* What a step sends is missing at the destination.
SendsMissing ==
    \A d \in wanting \ wanting' :
       phase = "open" /\ phase' = "open" =>
         /\ \A q \in Counted(active) : d \notin SeqRange(fs[Final(q)].bytes)
         /\ opt.resume =>
              \A q \in DOMAIN manifest : \A i \in Resumed(q) : Whole(q)[i] # d

LEMMA PlanSendsMissing ==
    ASSUME RunTypeOK, PlanOK, Hole \notin Chunk
    PROVE  SendsMissing
<1> SUFFICES ASSUME NEW d \in wanting, phase = "open"
             PROVE  /\ \A q \in Counted(active) : d \notin SeqRange(fs[Final(q)].bytes)
                    /\ opt.resume =>
                         \A q \in DOMAIN manifest : \A i \in Resumed(q) : Whole(q)[i] # d
    BY DEF SendsMissing
<1>1. QueueOK /\ NeedOK /\ NotYetOK /\ OldOK /\ ResumeOK /\ WantedOK  BY DEF PlanOK, Moving
<1>2. active \in Path /\ None \notin Path /\ opt.atomic \in {"file", "model"}
      BY SessionStands DEF Moving, RunTypeOK, IInv, TypeOK, OptionRecord
<1>3. active \in plan.work /\ active \in Left  BY <1>1, <1>2 DEF QueueOK, Left
<1>4. d \in plan.need[active]  BY <1>1 DEF WantedOK
<1>5. ASSUME NEW q \in DOMAIN manifest, Standing(q) PROVE d \notin SeqRange(Whole(q))
  <2>1. CASE q \notin plan.work  BY <1>1, <1>3, <1>4, <2>1 DEF NeedOK
  <2>2. CASE q \in plan.work
    <3>1. q \notin Left  BY <1>1, <1>5, <2>2 DEF NotYetOK
    <3>2. plan.rank[q] < plan.rank[active]  BY <1>1, <1>3, <2>2, <3>1 DEF QueueOK
    <3> QED  BY <1>1, <1>3, <1>4, <2>2, <3>2 DEF NeedOK
  <2> QED  BY <2>1, <2>2
<1>7. ASSUME opt.resume, NEW q \in DOMAIN manifest, NEW i \in Resumed(q)
      PROVE  Whole(q)[i] # d
  <2>1. CASE q \in plan.work => q \in Left
        BY <1>1, <1>3, <1>4, <1>7, <2>1 DEF ResumeOK
  <2>2. CASE q \in plan.work \ Left
    <3>1. plan.rank[q] < plan.rank[active]  BY <1>1, <1>3, <2>2 DEF QueueOK
    <3>2. Whole(q)[i] \in SeqRange(Whole(q))  BY DEF Resumed, SeqRange
    <3> QED  BY <1>1, <1>3, <1>4, <2>2, <3>1, <3>2 DEF NeedOK
  <2> QED  BY <2>1, <2>2
<1>8. ASSUME NEW q \in Counted(active) PROVE d \notin SeqRange(fs[Final(q)].bytes)
  <2>1. CASE q \in OldFor(active)  BY <1>1, <1>3, <1>4, <2>1 DEF OldOK
  <2>2. CASE q \in DOMAIN manifest /\ Standing(q)
        BY <1>5, <2>2 DEF Standing
  <2> QED  BY <2>1, <2>2 DEF Counted, OldFor, Existing, Standing
<1> QED  BY <1>7, <1>8

\* Only missing bytes are sent, whatever is interrupted and however the source
\* and the options change between runs: a chunk Plan asks for (plan.go:195-255)
\* is, when it is sent, in no file of the manifest that is in place, in no old
\* version the file being sent can copy from (its own, and under AtomicModel
\* every other), with --dedupe in no other file that could be hashed, nor,
\* resuming, in a staging file before its first hole (indexStage).  A chunk
\* must be told from a hole: one of zero bytes would look like one.
THEOREM OnlyMissingIsSent == Hole \notin Chunk => (TransferSpec => SendsOnlyMissing)
<1> SUFFICES ASSUME Hole \notin Chunk PROVE TransferSpec => SendsOnlyMissing  OBVIOUS
<1>1. RunTypeOK /\ PlanOK /\ [TransferNext]_allVars => [SendsMissing]_allVars
      BY PlanSendsMissing
<1> QED  BY <1>1, RunTypeInvariance, PlanInvariance, PTL
         DEF TransferSpec, SendsOnlyMissing, SendsMissing

-----------------------------------------------------------------------------
(* What is not sent is found where the indexes say.                        *)

Installed(q) == opt.atomic = "file" /\ q \in plan.work \ Left

FinalHolds(q, i, c) ==
    fs[Final(q)] # None /\ i \in DOMAIN fs[Final(q)].bytes /\ fs[Final(q)].bytes[i] = c
StageHolds(q, i, c) ==
    Staged(q) # None /\ i \in DOMAIN Staged(q).bytes /\ Staged(q).bytes[i] = c
At(l, n, i) == l = [name |-> n, at |-> i]

\* A handle on a staging file is on the file itself, until it is installed.
HandlesOK ==
    \A q \in Path :
       /\ handle[Final(q)] \in {Closed, OpenAt(Final(q))}
       /\ handle[Stage(q)] \in {Closed, OpenAt(Stage(q)), OpenAt(Final(q))}
       /\ handle[Stage(q)] = OpenAt(Stage(q)) => ~ Installed(q)
       /\ handle[Stage(q)] = OpenAt(Final(q)) => Installed(q)

InstalledOK ==
    \A q \in Path : Installed(q) => Staged(q) = None /\ Standing(q)

\* The index of final files names none that is still to be replaced.
GlobalOK ==
    \A c \in Chunk : global[c] # None =>
       \E q \in Path, i \in Index :
          \/ /\ At(global[c], Final(q), i) /\ FinalHolds(q, i, c)
             /\ opt.atomic = "file" => q \notin Left
          \/ /\ At(global[c], Stage(q), i) /\ StageHolds(q, i, c)
             /\ opt.atomic = "model" /\ q \notin Left
StagedOK ==
    \A c \in Chunk : staged[c] # None =>
       /\ opt.resume
       /\ \E q \in DOMAIN manifest : \E i \in DOMAIN Whole(q) :
             /\ At(staged[c], Stage(q), i) /\ Whole(q)[i] = c
             /\ ~ Installed(q) =>
                  StageHolds(q, i, c) /\ DOMAIN Staged(q).bytes = DOMAIN Whole(q)

\* A file about to be replaced is a source for itself alone.
ReplacedOK ==
    \A p \in Path, c \in Chunk : replaced[p][c] # None =>
       /\ opt.atomic = "file" /\ p \in Left
       /\ \E i \in Index : At(replaced[p][c], Final(p), i) /\ FinalHolds(p, i, c)

\* Each chunk of a file that is left is asked for, indexed, or comes with a
\* file before it.
EnoughOK ==
    opt.atomic = "file" =>
      \A p \in plan.work \cap Left : \A c \in SeqRange(Whole(p)) :
         \/ c \in plan.need[p] \/ global[c] # None \/ staged[c] # None
         \/ replaced[p][c] # None
         \/ \E q \in plan.work \cap Left :
               plan.rank[q] < plan.rank[p] /\ c \in SeqRange(Whole(q))
SentOK ==
    /\ phase \in Busy =>
         \A c \in plan.need[active] : c \in wanting \/ PlacesOf(c) \subseteq covered
    /\ phase \in {"filling", "sealed"} => wanting = {}

SourcesOK ==
    Moving => /\ HandlesOK /\ InstalledOK /\ GlobalOK /\ StagedOK /\ ReplacedOK
              /\ EnoughOK /\ SentOK

LEMMA LocOfHolds ==
    ASSUME NEW n, NEW bytes, DOMAIN bytes \subseteq Index, NEW c \in SeqRange(bytes)
    PROVE  \E i \in Index : /\ At(LocOf(n, bytes, c), n, i)
                            /\ i \in DOMAIN bytes /\ bytes[i] = c
<1>1. PICK i \in DOMAIN bytes : bytes[i] = c  BY DEF SeqRange
<1> DEFINE k == CHOOSE j \in DOMAIN bytes : bytes[j] = c
<1>2. k \in DOMAIN bytes /\ bytes[k] = c  BY <1>1
<1>3. LocOf(n, bytes, c) = [name |-> n, at |-> k]  BY DEF LocOf
<1> HIDE DEF k
<1> QED  BY <1>2, <1>3 DEF At

\* Whatever an index of files says of a chunk is so.
LEMMA IndexOfHolds ==
    ASSUME NEW held, DOMAIN held \subseteq Path,
           \A p \in DOMAIN held : DOMAIN held[p] \subseteq Index,
           NEW kind \in {"final", "stage"}, NEW pick \in Picks,
           NEW c \in Chunk, IndexOf(held, kind, pick)[c] # None
    PROVE  \E p \in DOMAIN held, i \in Index :
             /\ At(IndexOf(held, kind, pick)[c], <<kind, p>>, i)
             /\ i \in DOMAIN held[p] /\ held[p][i] = c
<1> DEFINE holders == {q \in DOMAIN held : c \in SeqRange(held[q])}
<1>1. holders # {}  BY DEF IndexOf
<1>2. holders \in (SUBSET Path) \ {{}}
  <2>1. holders \subseteq DOMAIN held  OBVIOUS
  <2> QED  BY <2>1, <1>1
<1>3. pick[holders] \in holders  BY <1>2 DEF Picks
<1> DEFINE q == pick[holders]
<1>4. q \in DOMAIN held /\ c \in SeqRange(held[q])  BY <1>3
<1>5. IndexOf(held, kind, pick)[c] = LocOf(<<kind, q>>, held[q], c)
      BY <1>1 DEF IndexOf
<1> HIDE DEF q
<1>6. \E i \in Index : /\ At(LocOf(<<kind, q>>, held[q], c), <<kind, q>>, i)
                       /\ i \in DOMAIN held[q] /\ held[q][i] = c
      BY <1>4, LocOfHolds
<1> QED  BY <1>4, <1>5, <1>6

LEMMA ExistingBytes ==
    ASSUME RunTypeOK, NEW p \in Path, fs[Final(p)] # None
    PROVE  fs[Final(p)].bytes \in Data /\ DOMAIN fs[Final(p)].bytes \subseteq Index
BY NamesDiffer, DataType DEF RunTypeOK, IInv, TypeOK, File

LEMMA StartIndexesFinal ==
    ASSUME RunTypeOK, FastTells, StartRun
    PROVE  GlobalOK'
<1> DEFINE o == opt'
<1>1. /\ manifest' = src /\ src \in Manifests /\ o \in Options /\ fs' = fs
      /\ plan'.work = DOMAIN src \ Skipped(src, o)
      /\ todo' = plan'.work /\ active' = None /\ None \notin Path
      BY StartFacts
<1>2. PICK x \in Options : Plan(src, x)  BY StartFacts
<1>3. opt' = x  BY <1>2 DEF Plan
<1> DEFINE held == HeldBy(src, o, Lasting(src, o, plan'.unread))
<1>4. PICK pick \in Picks : global' = IndexOf(held, "final", pick)
      BY <1>2, <1>3, PlanFacts
<1>5. /\ DOMAIN held \subseteq Path /\ DOMAIN held \subseteq Existing
      /\ \A p \in DOMAIN held : DOMAIN held[p] \subseteq Index
      BY <1>1, HeldByType
<1>6. \A q \in DOMAIN held : held[q] = fs[Final(q)].bytes
      BY <1>1, <1>5 DEF HeldBy, FastTells, Matching, RunTypeOK
<1>7. o.atomic = "file" => DOMAIN held \cap plan'.work = {}
      BY <1>1 DEF HeldBy, Lasting, Strays
<1>g. global' = IndexOf(held, "final", pick)  BY <1>4
<1> HIDE DEF held
<1> SUFFICES ASSUME NEW c \in Chunk, global'[c] # None
             PROVE  \E q \in Path, i \in Index :
                      /\ At(global'[c], Final(q), i) /\ FinalHolds(q, i, c)'
                      /\ o.atomic = "file" => q \notin Left'
    BY DEF GlobalOK
<1>8. PICK q \in DOMAIN held, i \in Index :
        /\ At(IndexOf(held, "final", pick)[c], <<"final", q>>, i)
        /\ i \in DOMAIN held[q] /\ held[q][i] = c
  <2>1. IndexOf(held, "final", pick)[c] # None  BY <1>g
  <2>2. "final" \in {"final", "stage"}  OBVIOUS
  <2> HIDE DEF At
  <2> QED  BY <2>1, <2>2, <1>5, IndexOfHolds
<1>9. FinalHolds(q, i, c)'
      BY <1>1, <1>5, <1>6, <1>8 DEF FinalHolds, Existing
<1>10. o.atomic = "file" => q \notin Left'
       BY <1>1, <1>5, <1>7 DEF Left
<1> QED  BY <1>g, <1>5, <1>8, <1>9, <1>10 DEF Final

LEMMA StartIndexesStages ==
    ASSUME RunTypeOK, StartRun
    PROVE  StagedOK'
<1> DEFINE o == opt'
<1>1. /\ manifest' = src /\ src \in Manifests /\ fs' = fs /\ \A p : Whole(p)' = src[p].bytes
      /\ DOMAIN src \subseteq Path
      BY StartFacts
<1>2. PICK x \in Options : Plan(src, x)  BY StartFacts
<1>3. opt' = x  BY <1>2 DEF Plan
<1> SUFFICES ASSUME NEW c \in Chunk, staged'[c] # None
             PROVE  o.resume /\ \E q \in DOMAIN src : \E i \in DOMAIN src[q].bytes :
                      /\ At(staged'[c], Stage(q), i) /\ src[q].bytes[i] = c
                      /\ StageHolds(q, i, c)
                      /\ DOMAIN Staged(q).bytes = DOMAIN src[q].bytes
  <2>1. \A q, i, c : StageHolds(q, i, c)' = StageHolds(q, i, c) /\ Staged(q)' = Staged(q)
        BY <1>1 DEF StageHolds, Staged
  <2> QED  BY <1>1, <2>1 DEF StagedOK
<1>4. o.resume  BY <1>2, <1>3 DEF Plan, NoEntry
<1>5. PICK recut \in [Resumable(src) -> SUBSET Index] :
        staged' = StagedIndex(src, plan'.unread, recut)
      BY <1>2, <1>3, <1>4, PlanFacts
<1> DEFINE held == [q \in {r \in Resumable(src) : Stage(r) \notin plan'.unread} |->
               [j \in DOMAIN src[q].bytes |->
                  IF j \in Intact(src, q) \union (recut[q] \cap Correct(src, q))
                    THEN src[q].bytes[j] ELSE None]]
<1>6. DOMAIN held \subseteq DOMAIN src  BY DEF Resumable
<1>7. \A q \in DOMAIN held : DOMAIN held[q] \subseteq Index
      BY <1>1, <1>6, ManifestFacts
<1>8. DOMAIN held \subseteq Path  BY <1>1, <1>6
<1>9. staged' = IndexOf(held, "stage", ByPath)  BY <1>5 DEF StagedIndex
<1>10. \A q \in DOMAIN held : DOMAIN held[q] = DOMAIN src[q].bytes
       OBVIOUS
<1>11. ASSUME NEW q \in DOMAIN held, NEW i \in DOMAIN src[q].bytes, held[q][i] = c
       PROVE  i \in Correct(src, q) /\ src[q].bytes[i] = c
       BY <1>11, ConstantsAssumption DEF Intact
<1>12. \A q \in DOMAIN held :
          Staged(q) # None /\ DOMAIN Staged(q).bytes = DOMAIN src[q].bytes
       BY DEF Resumable
<1> HIDE DEF held
<1>13. PICK q \in DOMAIN held, i \in Index :
         /\ At(IndexOf(held, "stage", ByPath)[c], <<"stage", q>>, i)
         /\ i \in DOMAIN held[q] /\ held[q][i] = c
  <2>1. IndexOf(held, "stage", ByPath)[c] # None  BY <1>9
  <2>2. "stage" \in {"final", "stage"} /\ ByPath \in Picks  BY ConstantsAssumption
  <2> QED  BY <2>1, <2>2, <1>7, <1>8, IndexOfHolds
<1>14. i \in DOMAIN src[q].bytes  BY <1>10, <1>13
<1>15. i \in Correct(src, q) /\ src[q].bytes[i] = c  BY <1>11, <1>13, <1>14
<1>16. StageHolds(q, i, c)  BY <1>12, <1>14, <1>15 DEF StageHolds, Correct
<1> QED  BY <1>4, <1>6, <1>9, <1>12, <1>13, <1>14, <1>15, <1>16 DEF Stage

\* The chunks of a file that AddFile says, it has, and the others stay.
LEMMA AddFileHolds ==
    ASSUME NEW idx, NEW n \in Name, NEW bytes, DOMAIN bytes \subseteq Index, NEW c \in Chunk
    PROVE  /\ AddFile(idx, n, bytes)[c] # None =>
                \/ AddFile(idx, n, bytes)[c] = idx[c] /\ idx[c] # None
                \/ \E i \in Index : /\ At(AddFile(idx, n, bytes)[c], n, i)
                                    /\ i \in DOMAIN bytes /\ bytes[i] = c
           /\ idx[c] # None => AddFile(idx, n, bytes)[c] = idx[c]
           /\ c \in SeqRange(bytes) => AddFile(idx, n, bytes)[c] # None
<1>1. CASE idx[c] = None /\ c \in SeqRange(bytes)
  <2>1. AddFile(idx, n, bytes)[c] = LocOf(n, bytes, c)  BY <1>1 DEF AddFile
  <2>2. \E i \in Index : /\ At(LocOf(n, bytes, c), n, i)
                         /\ i \in DOMAIN bytes /\ bytes[i] = c
        BY <1>1, LocOfHolds
  <2>3. LocOf(n, bytes, c) # None
        BY <1>1, LocOfType, ConstantsAssumption
  <2> QED  BY <1>1, <2>1, <2>2, <2>3
<1>2. CASE ~ (idx[c] = None /\ c \in SeqRange(bytes))
      BY <1>2 DEF AddFile
<1> QED  BY <1>1, <1>2

LEMMA StartIndexesReplaced ==
    ASSUME RunTypeOK, StartRun
    PROVE  ReplacedOK'
<1> DEFINE o == opt'
<1>1. /\ manifest' = src /\ src \in Manifests /\ fs' = fs
      /\ plan'.work = DOMAIN src \ Skipped(src, o)
      /\ todo' = plan'.work
      BY StartFacts
<1>2. PICK x \in Options : Plan(src, x)  BY StartFacts
<1>3. opt' = x /\ replaced' = ReplacedIndexes(src, x)  BY <1>2 DEF Plan
<1> SUFFICES ASSUME NEW p \in Path, NEW c \in Chunk, replaced'[p][c] # None
             PROVE  /\ o.atomic = "file" /\ p \in Left'
                    /\ \E i \in Index : /\ At(replaced'[p][c], Final(p), i)
                                        /\ FinalHolds(p, i, c)
  <2>1. \A p, i, c : FinalHolds(p, i, c)' = FinalHolds(p, i, c)
        BY <1>1 DEF FinalHolds
  <2> QED  BY <2>1 DEF ReplacedOK
<1>4. NoEntry[c] = None  BY DEF NoEntry
<1>5. o.atomic = "file" /\ p \in (Existing \cap DOMAIN src) \ Skipped(src, o)
      BY <1>3, <1>4 DEF ReplacedIndexes
<1>6. replaced'[p] = AddFile(NoEntry, Final(p), fs[Final(p)].bytes)
      BY <1>3, <1>5 DEF ReplacedIndexes
<1>7. fs[Final(p)] # None /\ DOMAIN fs[Final(p)].bytes \subseteq Index
      BY <1>5, ExistingBytes DEF Existing
<1>8. PICK i \in Index : /\ At(replaced'[p][c], Final(p), i)
                         /\ i \in DOMAIN fs[Final(p)].bytes /\ fs[Final(p)].bytes[i] = c
      BY <1>4, <1>6, <1>7, AddFileHolds, NamesDiffer
<1> QED  BY <1>1, <1>5, <1>7, <1>8 DEF FinalHolds, Left

LEMMA StartPlansEnough ==
    ASSUME RunTypeOK, FastTells, StartRun
    PROVE  SourcesOK'
<1> DEFINE work == plan'.work
<1>1. /\ work \subseteq Path /\ plan'.rank \in Orders(work)
      /\ plan'.need = [p \in work |-> Need(src, work, plan'.rank, p)]
      /\ todo' = work /\ active' = None /\ None \notin Path
      /\ phase' = "ready" /\ handle' = [n \in Name |-> Closed]
      /\ \A p : Whole(p)' = src[p].bytes
      BY StartFacts
<1>l. Left' = work \union {None}  BY <1>1 DEF Left
<1>2. HandlesOK'
  <2>1. \A n \in Name : Closed # OpenAt(n)
        BY ConstantsAssumption DEF Closed, OpenAt
  <2> QED  BY <1>1, <2>1, NamesDiffer DEF HandlesOK
<1>3. InstalledOK'  BY <1>1, <1>l DEF InstalledOK, Installed
<1>4. EnoughOK'
  <2> SUFFICES ASSUME NEW p \in work, NEW c \in SeqRange(src[p].bytes)
               PROVE  \/ c \in plan'.need[p] \/ global'[c] # None \/ staged'[c] # None
                      \/ replaced'[p][c] # None
                      \/ \E q \in work : plan'.rank[q] < plan'.rank[p]
                                         /\ c \in SeqRange(src[q].bytes)
    <3>1. work \cap (work \union {None}) = work  OBVIOUS
    <3>2. \A p : SeqRange(Whole(p))' = SeqRange(src[p].bytes)  BY <1>1 DEF SeqRange
    <3> QED  BY <1>1, <1>l, <3>1, <3>2 DEF EnoughOK
  <2>1. plan'.need[p] = Need(src, work, plan'.rank, p)  BY <1>1
  <2> QED  BY <2>1 DEF Need, Has
<1>5. SentOK'  BY <1>1 DEF SentOK, Busy
<1> QED  BY <1>2, <1>3, <1>4, <1>5, StartIndexesFinal, StartIndexesStages,
            StartIndexesReplaced DEF SourcesOK

LEMMA QuietKeepsSources ==
    ASSUME RunTypeOK, SourcesOK, Quiet
    PROVE  SourcesOK'
<1>1. HandlesOK /\ InstalledOK /\ GlobalOK /\ StagedOK /\ ReplacedOK /\ EnoughOK /\ SentOK
      BY DEF SourcesOK, Quiet
<1>2. /\ UNCHANGED <<fs, opt, manifest, plan, global, staged, replaced, handle, active,
                     covered, todo, wanting>>
      BY DEF Quiet, setup, sources
<1>3. HandlesOK'  BY <1>1, <1>2 DEF HandlesOK, Installed, Left
<1>4. InstalledOK'  BY <1>1, <1>2 DEF InstalledOK, Installed, Left, Staged, Standing, Whole
<1>5. GlobalOK'  BY <1>1, <1>2 DEF GlobalOK, FinalHolds, StageHolds, Staged, Left
<1>6. StagedOK'  BY <1>1, <1>2 DEF StagedOK, StageHolds, Staged, Whole, Installed, Left
<1>7. ReplacedOK'  BY <1>1, <1>2 DEF ReplacedOK, FinalHolds, Left
<1>8. EnoughOK'  BY <1>1, <1>2 DEF EnoughOK, Whole, Left, SeqRange
<1>9. SentOK'
  <2>1. /\ phase' \in Busy => phase \in Busy
        /\ phase' \in {"filling", "sealed"} => phase \in {"filling", "sealed"} \/ wanting = {}
        BY DEF Quiet, Moving, Busy
  <2> QED  BY <1>1, <1>2, <2>1 DEF SentOK, PlacesOf, Whole
<1> QED  BY <1>3, <1>4, <1>5, <1>6, <1>7, <1>8, <1>9 DEF SourcesOK

LEMMA BeginKeepsSources ==
    ASSUME RunTypeOK, PlanOK, SourcesOK, BeginNext
    PROVE  SourcesOK'
<1>1. PICK p \in todo :
        /\ p \in plan.work /\ p \in Path
        /\ phase = "ready" /\ phase' = "open" /\ active = None /\ active' = p
        /\ todo' = todo \ {p} /\ wanting' = plan.need[p] /\ covered' = {}
        /\ UNCHANGED <<setup, sources>>
        /\ \A n \in Name \ {Stage(p)} : fs'[n] = fs[n]
        /\ Reusable(p) => fs' = fs
      BY BeginFacts
<1>2. /\ HandlesOK /\ InstalledOK /\ GlobalOK /\ StagedOK /\ ReplacedOK /\ EnoughOK
      /\ QueueOK
      BY <1>1 DEF SourcesOK, PlanOK, Moving
<1>3. /\ plan.work \subseteq Path /\ None \notin Path /\ DOMAIN manifest \subseteq Path
      BY <1>1, SessionStands DEF Moving
<1>u. /\ UNCHANGED <<opt, manifest, plan, global, staged, replaced, handle>>
      /\ \A q : Whole(q)' = Whole(q)
      BY <1>1 DEF setup, sources, Whole
<1>l. /\ \A q \in Path : q \in Left' <=> q \in Left
      /\ plan.work \cap Left' = plan.work \cap Left
      /\ p \in Left
      BY <1>1, <1>3 DEF Left
<1>i. \A q \in Path : Installed(q)' <=> Installed(q)
      BY <1>u, <1>l DEF Installed
<1>f. \A q \in Path : fs'[Final(q)] = fs[Final(q)]
      BY <1>1, NamesDiffer
<1>s. \A q \in Path \ {p} : Staged(q)' = Staged(q)
      BY <1>1, NamesDiffer DEF Staged
<1>4. HandlesOK'  BY <1>2, <1>u, <1>i DEF HandlesOK
<1>5. InstalledOK'
  <2>1. ~ Installed(p)  BY <1>l DEF Installed
  <2> QED  BY <1>2, <1>u, <1>i, <1>f, <1>s, <2>1 DEF InstalledOK, Standing
<1>6. GlobalOK'
  <2>1. \A q \in Path : \A i, c : FinalHolds(q, i, c) => FinalHolds(q, i, c)'
        BY <1>f DEF FinalHolds
  <2>2. \A q \in Path \ Left : \A i, c : StageHolds(q, i, c) => StageHolds(q, i, c)'
        BY <1>s, <1>l DEF StageHolds
  <2> QED  BY <1>2, <1>u, <1>l, <2>1, <2>2 DEF GlobalOK
<1>7. StagedOK'
  <2> SUFFICES ASSUME NEW c \in Chunk, staged[c] # None
               PROVE  /\ opt.resume
                      /\ \E q \in DOMAIN manifest : \E i \in DOMAIN Whole(q) :
                           /\ At(staged[c], Stage(q), i) /\ Whole(q)[i] = c
                           /\ ~ Installed(q)' =>
                                /\ StageHolds(q, i, c)'
                                /\ DOMAIN (Staged(q)').bytes = DOMAIN Whole(q)
      BY <1>u DEF StagedOK
  <2>1. opt.resume  BY <1>2 DEF StagedOK
  <2>2. PICK q \in DOMAIN manifest : \E i \in DOMAIN Whole(q) :
             /\ At(staged[c], Stage(q), i) /\ Whole(q)[i] = c
             /\ ~ Installed(q) =>
                  StageHolds(q, i, c) /\ DOMAIN Staged(q).bytes = DOMAIN Whole(q)
        BY <1>2 DEF StagedOK
  <2>3. PICK i \in DOMAIN Whole(q) :
             /\ At(staged[c], Stage(q), i) /\ Whole(q)[i] = c
             /\ ~ Installed(q) =>
                  StageHolds(q, i, c) /\ DOMAIN Staged(q).bytes = DOMAIN Whole(q)
        BY <2>2
  <2>4. q \in Path /\ (Installed(q)' <=> Installed(q))  BY <1>3, <1>i
  <2>5. ASSUME ~ Installed(q) PROVE Staged(q)' = Staged(q)
    <3>1. CASE q = p
      <4>1. Reusable(p)  BY <2>1, <2>3, <2>5, <3>1 DEF Reusable, StageHolds
      <4> QED  BY <1>1, <3>1, <4>1 DEF Staged
    <3>2. CASE q # p  BY <1>s, <2>4, <3>2
    <3> QED  BY <3>1, <3>2
  <2>6. ~ Installed(q) => StageHolds(q, i, c)' /\ DOMAIN (Staged(q)').bytes = DOMAIN Whole(q)
        BY <2>3, <2>5 DEF StageHolds
  <2> QED  BY <2>1, <2>3, <2>4, <2>6
<1>8. ReplacedOK'
      BY <1>2, <1>u, <1>l, <1>f DEF ReplacedOK, FinalHolds
<1>9. EnoughOK'
      BY <1>2, <1>u, <1>l DEF EnoughOK, SeqRange
<1>10. SentOK'
      BY <1>1, <1>u DEF SentOK
<1> QED  BY <1>4, <1>5, <1>6, <1>7, <1>8, <1>9, <1>10 DEF SourcesOK

\* What a chunk is looked up as is a final or a staging file.
LEMMA LookupNames ==
    ASSUME GlobalOK, StagedOK, ReplacedOK, NEW p \in Path, NEW c \in Chunk,
           Lookup(p, c) # None, DOMAIN manifest \subseteq Path
    PROVE  \E q \in Path : Lookup(p, c).name \in {Final(q), Stage(q)}
<1>1. CASE replaced[p][c] # None
  <2>1. Lookup(p, c) = replaced[p][c]  BY <1>1 DEF Lookup
  <2>2. PICK i : At(replaced[p][c], Final(p), i)  BY <1>1 DEF ReplacedOK
  <2> QED  BY <2>1, <2>2 DEF At
<1>2. CASE replaced[p][c] = None /\ staged[c] # None
  <2>1. Lookup(p, c) = staged[c]  BY <1>2 DEF Lookup
  <2>2. PICK q \in DOMAIN manifest : \E i : At(staged[c], Stage(q), i)
        BY <1>2 DEF StagedOK
  <2> QED  BY <2>1, <2>2 DEF At
<1>3. CASE replaced[p][c] = None /\ staged[c] = None
  <2>1. Lookup(p, c) = global[c]  BY <1>3 DEF Lookup
  <2>2. PICK q \in Path : \E i : At(global[c], Final(q), i) \/ At(global[c], Stage(q), i)
        BY <2>1 DEF GlobalOK
  <2> QED  BY <2>1, <2>2 DEF At
<1> QED  BY <1>1, <1>2, <1>3

LEMMA WriteKeepsSources ==
    ASSUME RunTypeOK, PlanOK, SourcesOK, NEW places, NEW c, Writes(places, c),
           HandlesOK', SentOK'
    PROVE  SourcesOK'
<1>1. /\ active \in DOMAIN manifest /\ active \in Path /\ Moving
      /\ \A n \in Name \ {Stage(active)} : fs'[n] = fs[n]
      /\ Staged(active) # None /\ fs'[Stage(active)] # None
      /\ DOMAIN Staged(active).bytes = DOMAIN Whole(active)
      /\ DOMAIN fs'[Stage(active)].bytes = DOMAIN Whole(active)
      /\ \A i \in DOMAIN Whole(active) :
           fs'[Stage(active)].bytes[i] =
              IF i \in places THEN c ELSE Staged(active).bytes[i]
      /\ \A i \in places : i \in DOMAIN Whole(active) /\ Whole(active)[i] = c
      BY WritesFacts
<1>2. /\ HandlesOK /\ InstalledOK /\ GlobalOK /\ StagedOK /\ ReplacedOK /\ EnoughOK
      BY <1>1 DEF SourcesOK
<1>3. DOMAIN manifest \subseteq Path  BY <1>1, SessionStands
<1>u. /\ UNCHANGED <<opt, manifest, plan, global, staged, replaced, active, todo, phase>>
      /\ (\A q : Whole(q)' = Whole(q)) /\ Left' = Left
      BY DEF Writes, setup, Whole, Left
<1>l. active \in Left  BY DEF Left
<1>i. \A q : Installed(q)' <=> Installed(q)  BY <1>u DEF Installed
<1>f. \A q \in Path : fs'[Final(q)] = fs[Final(q)]
      BY <1>1, NamesDiffer
<1>s. \A q \in Path \ {active} : Staged(q)' = Staged(q)
      BY <1>1, NamesDiffer DEF Staged
<1>4. InstalledOK'
  <2>1. ~ Installed(active)  BY <1>l DEF Installed
  <2> QED  BY <1>2, <1>u, <1>i, <1>f, <1>s, <2>1 DEF InstalledOK, Standing
<1>5. GlobalOK'
  <2>1. \A q \in Path : \A i, d : FinalHolds(q, i, d) => FinalHolds(q, i, d)'
        BY <1>f DEF FinalHolds
  <2>2. \A q \in Path \ Left : \A i, d : StageHolds(q, i, d) => StageHolds(q, i, d)'
        BY <1>s, <1>l DEF StageHolds
  <2> QED  BY <1>2, <1>u, <2>1, <2>2 DEF GlobalOK
<1>6. StagedOK'
  <2>1. ASSUME NEW q \in DOMAIN manifest, NEW i \in DOMAIN Whole(q), NEW d,
               Whole(q)[i] = d, StageHolds(q, i, d),
               DOMAIN Staged(q).bytes = DOMAIN Whole(q)
        PROVE  StageHolds(q, i, d)' /\ DOMAIN (Staged(q)').bytes = DOMAIN Whole(q)
    <3>1. CASE q = active  BY <1>1, <2>1, <3>1 DEF StageHolds, Staged
    <3>2. CASE q # active  BY <1>3, <1>s, <2>1, <3>2 DEF StageHolds
    <3> QED  BY <3>1, <3>2
  <2> QED  BY <1>2, <1>u, <1>i, <2>1 DEF StagedOK
<1>7. ReplacedOK'  BY <1>2, <1>u, <1>f DEF ReplacedOK, FinalHolds
<1>8. EnoughOK'  BY <1>2, <1>u DEF EnoughOK, SeqRange
<1> QED  BY <1>4, <1>5, <1>6, <1>7, <1>8 DEF SourcesOK

LEMMA SendKeepsSources ==
    ASSUME RunTypeOK, PlanOK, SourcesOK, SendChunk
    PROVE  SourcesOK'
<1>1. PICK d \in wanting : /\ d \in Chunk /\ phase = "open"
                           /\ wanting' = wanting \ {d} /\ handle' = handle
                           /\ Writes(PlacesOf(d) \ covered, d)
      BY SendFacts
<1>2. HandlesOK /\ SentOK  BY <1>1 DEF SourcesOK, Moving
<1>u. /\ UNCHANGED <<opt, manifest, plan, active, todo, phase>>
      /\ (\A q : PlacesOf(q)' = PlacesOf(q)) /\ Left' = Left
      /\ covered' = covered \union (PlacesOf(d) \ covered)
      BY <1>1, WritesFacts DEF Writes, setup, Left, PlacesOf, Whole
<1>3. HandlesOK'  BY <1>1, <1>2, <1>u DEF HandlesOK, Installed
<1>4. SentOK'
  <2>1. \A e \in plan.need[active] : e \in wanting' \/ PlacesOf(e) \subseteq covered'
        BY <1>1, <1>2, <1>u DEF SentOK, Busy
  <2> QED  BY <1>1, <1>u, <2>1 DEF SentOK
<1> QED  BY <1>1, <1>3, <1>4, WriteKeepsSources

LEMMA FillKeepsSources ==
    ASSUME RunTypeOK, PlanOK, SourcesOK, FillNext, Pass
    PROVE  SourcesOK'
<1>1. PICK i \in DOMAIN Whole(active) : LET c == Whole(active)[i] IN
        /\ phase = "filling" /\ wanting' = wanting
        /\ Writes({i}, c)
        /\ FetchFails(Lookup(active, c), c) = "no"
        /\ handle' = IF handle[Lookup(active, c).name] = Closed
                       THEN [handle EXCEPT ![Lookup(active, c).name] =
                                             OpenAt(Lookup(active, c).name)]
                       ELSE handle
      BY FillFacts
<1> DEFINE c == Whole(active)[i]
           l == Lookup(active, c)
<1>2. /\ HandlesOK /\ InstalledOK /\ GlobalOK /\ StagedOK /\ ReplacedOK /\ SentOK
      BY <1>1 DEF SourcesOK, Moving
<1>3. /\ active \in Path /\ DOMAIN manifest \subseteq Path /\ c \in Chunk
      BY <1>1, SessionStands DEF Moving, Writes
<1>u. /\ UNCHANGED <<opt, manifest, plan, active, todo, phase>>
      /\ (\A q : PlacesOf(q)' = PlacesOf(q)) /\ Left' = Left
      /\ covered' = covered \union {i}
      BY <1>1, WritesFacts DEF Writes, setup, Left, PlacesOf, Whole
<1>i. \A q : Installed(q)' <=> Installed(q)  BY <1>u DEF Installed
<1>4. l # None /\ Readable(l.name)  BY <1>1 DEF FetchFails
<1>5. PICK p \in Path : l.name \in {Final(p), Stage(p)}
      BY <1>2, <1>3, <1>4, LookupNames
<1>h. handle \in HandleType /\ handle' = IF handle[l.name] = Closed
                                 THEN [handle EXCEPT ![l.name] = OpenAt(l.name)]
                                 ELSE handle
      BY <1>1 DEF RunTypeOK, IInv, TypeOK, HandleType
<1> HIDE DEF l, c
<1>6. HandlesOK'
  <2>1. CASE handle[l.name] # Closed  BY <1>2, <1>h, <1>i, <2>1 DEF HandlesOK
  <2>2. CASE handle[l.name] = Closed
    <3>1. l.name \in Name  BY <1>5, NamesDiffer
    <3>2. /\ handle'[l.name] = OpenAt(l.name)
          /\ \A n \in Name \ {l.name} : handle'[n] = handle[n]
          BY <1>h, <2>2, <3>1 DEF HandleType
    <3>3. \A m, n : OpenAt(m) = OpenAt(n) => m = n  BY DEF OpenAt
    <3> SUFFICES ASSUME NEW q \in Path
                 PROVE  /\ handle'[Final(q)] \in {Closed, OpenAt(Final(q))}
                        /\ handle'[Stage(q)] \in {Closed, OpenAt(Stage(q)), OpenAt(Final(q))}
                        /\ handle'[Stage(q)] = OpenAt(Stage(q)) => ~ Installed(q)
                        /\ handle'[Stage(q)] = OpenAt(Final(q)) => Installed(q)
        BY <1>i DEF HandlesOK
    <3>4. handle'[Final(q)] \in {Closed, OpenAt(Final(q))}
          BY <1>2, <3>2, NamesDiffer DEF HandlesOK
    <3>5. CASE Stage(q) = l.name
      <4>1. fs[Stage(q)] # None  BY <1>4, <2>2, <3>5 DEF Readable
      <4>2. ~ Installed(q)  BY <1>2, <4>1 DEF InstalledOK, Staged
      <4>3. handle'[Stage(q)] # OpenAt(Final(q))
            BY <3>2, <3>3, <3>5, NamesDiffer
      <4> QED  BY <3>2, <3>4, <3>5, <4>2, <4>3
    <3>6. CASE Stage(q) # l.name
          BY <1>2, <3>2, <3>4, <3>6, NamesDiffer DEF HandlesOK
    <3> QED  BY <3>5, <3>6
  <2> QED  BY <2>1, <2>2
<1>7. SentOK'
  <2>1. \A e \in plan.need[active] : e \in wanting \/ PlacesOf(e) \subseteq covered'
        BY <1>1, <1>2, <1>u DEF SentOK, Busy
  <2> QED  BY <1>1, <1>2, <1>u, <2>1 DEF SentOK
<1> QED  BY <1>1, <1>6, <1>7, WriteKeepsSources

LEMMA InstallKeepsSources ==
    ASSUME RunTypeOK, PlanOK, SourcesOK, Install, Pass
    PROVE  SourcesOK'
<1>1. /\ phase = "sealed" /\ phase' = "ready" /\ opt.atomic = "file"
      /\ active \in DOMAIN manifest /\ active \in Path
      /\ active' = None /\ covered' = {} /\ todo' = todo
      /\ UNCHANGED <<setup, staged>>
      /\ IndexFile(Final(active), active)
      /\ handle' = Renamed([handle EXCEPT ![Final(active)] = Closed],
                           Stage(active), Final(active))
      /\ fs'[Final(active)] # None /\ fs'[Final(active)].bytes = Whole(active)
      /\ fs'[Stage(active)] = None
      /\ \A n \in Name \ {Final(active), Stage(active)} : fs'[n] = fs[n]
      BY InstallFacts
<1>2. /\ HandlesOK /\ InstalledOK /\ GlobalOK /\ StagedOK /\ ReplacedOK /\ EnoughOK
      /\ QueueOK
      BY <1>1 DEF SourcesOK, PlanOK, Moving
<1>3. /\ plan.work \subseteq Path /\ None \notin Path /\ DOMAIN manifest \subseteq Path
      BY <1>1, SessionStands DEF Moving
<1>w. DOMAIN Whole(active) \subseteq Index
      BY <1>1, SessionFacts DEF RunTypeOK
<1>u. /\ UNCHANGED <<opt, manifest, plan, staged>> /\ \A q : Whole(q)' = Whole(q)
      BY <1>1 DEF setup, Whole
<1>l. /\ active \in plan.work /\ active \in Left /\ active \notin Left'
      /\ \A q \in Path \ {active} : q \in Left' <=> q \in Left
      /\ plan.work \cap Left' = todo /\ todo \subseteq plan.work
      /\ plan.work \cap Left = todo \union {active} /\ active \notin todo
      BY <1>1, <1>2, <1>3 DEF Left, QueueOK
<1>i. /\ \A q \in Path : q = active => Installed(q)' /\ ~ Installed(q)
      /\ \A q \in Path \ {active} : Installed(q)' <=> Installed(q)
      BY <1>1, <1>u, <1>l DEF Installed
<1>s. \A q \in Path \ {active} : fs'[Final(q)] = fs[Final(q)] /\ Staged(q)' = Staged(q)
      BY <1>1, NamesDiffer DEF Staged
<1>4. HandlesOK'
  <2> DEFINE h == [handle EXCEPT ![Final(active)] = Closed]
  <2>1. h \in HandleType /\ handle \in HandleType
        BY <1>1, NamesDiffer, OpenAtType DEF RunTypeOK, IInv, TypeOK, HandleType
  <2>2. h[Final(active)] = Closed /\ \A n \in Name \ {Final(active)} : h[n] = handle[n]
        BY <1>1, <2>1, NamesDiffer DEF HandleType
  <2>3. handle' = Renamed(h, Stage(active), Final(active))  BY <1>1
  <2> HIDE DEF h
  <2>4. ASSUME NEW n \in Name, h[n] = Closed PROVE handle'[n] = Closed
        BY <2>3, <2>4 DEF Renamed
  <2>5. ASSUME NEW n \in Name, NEW m \in Name \ {Final(active), Stage(active)},
               h[n] = OpenAt(m)
        PROVE  handle'[n] = OpenAt(m)
    <3>1. h[n].at = m  BY <2>5 DEF OpenAt
    <3> QED  BY <2>3, <2>5, <3>1 DEF Renamed
  <2>6. ASSUME NEW n \in Name, h[n] = OpenAt(Stage(active))
        PROVE  handle'[n] = OpenAt(Final(active))
    <3>1. h[n].at = Stage(active) /\ h[n] # Closed
          BY <2>6, <1>1, NamesDiffer DEF OpenAt, Closed
    <3>2. Stage(active) # Final(active)  BY <1>1, NamesDiffer
    <3> QED  BY <2>3, <3>1, <3>2 DEF Renamed
  <2>7. \A q \in Path \ {active} :
           /\ Final(q) \in Name \ {Final(active), Stage(active)}
           /\ Stage(q) \in Name \ {Final(active), Stage(active)}
        BY <1>1, NamesDiffer
  <2>8. ASSUME NEW q \in Path \ {active}
        PROVE  handle'[Final(q)] = handle[Final(q)] /\ handle'[Stage(q)] = handle[Stage(q)]
    <3>1. /\ handle[Final(q)] \in {Closed, OpenAt(Final(q))}
          /\ handle[Stage(q)] \in {Closed, OpenAt(Stage(q)), OpenAt(Final(q))}
          BY <1>2 DEF HandlesOK
    <3>2. h[Final(q)] = handle[Final(q)] /\ h[Stage(q)] = handle[Stage(q)]
          BY <2>2, <2>7
    <3> QED  BY <2>4, <2>5, <2>7, <3>1, <3>2
  <2>9. handle'[Final(active)] = Closed  BY <1>1, <2>2, <2>4, NamesDiffer
  <2>10. handle'[Stage(active)] \in {Closed, OpenAt(Final(active))}
    <3>1. handle[Stage(active)] \in {Closed, OpenAt(Stage(active))}
          BY <1>1, <1>2, <1>i DEF HandlesOK
    <3>2. Stage(active) \in Name /\ h[Stage(active)] = handle[Stage(active)]
          BY <1>1, <2>2, NamesDiffer
    <3> QED  BY <2>4, <2>6, <3>1, <3>2
  <2>11. OpenAt(Final(active)) # OpenAt(Stage(active)) /\ Closed # OpenAt(Stage(active))
         BY <1>1, NamesDiffer DEF OpenAt, Closed
  <2> SUFFICES ASSUME NEW q \in Path
               PROVE  /\ handle'[Final(q)] \in {Closed, OpenAt(Final(q))}
                      /\ handle'[Stage(q)] \in {Closed, OpenAt(Stage(q)), OpenAt(Final(q))}
                      /\ handle'[Stage(q)] = OpenAt(Stage(q)) => ~ Installed(q)'
                      /\ handle'[Stage(q)] = OpenAt(Final(q)) => Installed(q)'
      BY DEF HandlesOK
  <2>12. CASE q = active  BY <1>i, <2>9, <2>10, <2>11, <2>12
  <2>13. CASE q # active  BY <1>2, <1>i, <2>8, <2>13 DEF HandlesOK
  <2> QED  BY <2>12, <2>13
<1>5. InstalledOK'
  <2>1. \A q : q = active => Staged(q)' = None /\ Standing(q)'
        BY <1>1, <1>u DEF Staged, Standing
  <2>2. \A q \in Path \ {active} : Standing(q)' <=> Standing(q)
        BY <1>s, <1>u DEF Standing
  <2> QED  BY <1>2, <1>i, <1>s, <2>1, <2>2 DEF InstalledOK
<1>g. ASSUME NEW c \in Chunk, global[c] # None
      PROVE  \E q \in Path \ Left, i \in Index : At(global[c], Final(q), i) /\ FinalHolds(q, i, c)
      BY <1>1, <1>2, <1>g DEF GlobalOK
<1>d. ASSUME NEW c \in Chunk
      PROVE  DropPath(global, Final(active))[c] = global[c]
  <2>1. CASE global[c] = None  BY <2>1 DEF DropPath, Has
  <2>2. CASE global[c] # None
    <3>1. PICK q \in Path \ Left : \E i : At(global[c], Final(q), i)  BY <1>g, <2>2
    <3>2. global[c].name = Final(q)  BY <3>1 DEF At
    <3>3. q # active  BY <1>l, <3>1
    <3>4. global[c].name # Final(active)  BY <1>1, <3>1, <3>2, <3>3, NamesDiffer
    <3> QED  BY <3>4 DEF DropPath, Has
  <2> QED  BY <2>1, <2>2
<1>a. ASSUME NEW c \in Chunk
      PROVE  /\ global'[c] # None =>
                  \/ global'[c] = global[c] /\ global[c] # None
                  \/ \E i \in Index : /\ At(global'[c], Final(active), i)
                                      /\ i \in DOMAIN Whole(active) /\ Whole(active)[i] = c
             /\ global[c] # None => global'[c] = global[c]
             /\ c \in SeqRange(Whole(active)) => global'[c] # None
  <2>1. global' = AddFile(DropPath(global, Final(active)), Final(active), Whole(active))
        BY <1>1 DEF IndexFile
  <2>2. DropPath(global, Final(active))[c] = global[c]  BY <1>d
  <2> QED  BY <1>1, <1>w, <2>1, <2>2, AddFileHolds, NamesDiffer
<1>6. GlobalOK'
  <2> SUFFICES ASSUME NEW c \in Chunk, global'[c] # None
               PROVE  \E q \in Path, i \in Index :
                        /\ At(global'[c], Final(q), i) /\ FinalHolds(q, i, c)'
                        /\ q \notin Left'
      BY DEF GlobalOK
  <2>1. CASE global'[c] = global[c] /\ global[c] # None
    <3>1. PICK q \in Path \ Left, i \in Index : At(global[c], Final(q), i) /\ FinalHolds(q, i, c)
          BY <1>g, <2>1
    <3>2. q \in Path \ {active}  BY <1>l, <3>1
    <3>3. FinalHolds(q, i, c)' /\ q \notin Left'
          BY <1>s, <1>l, <3>1, <3>2 DEF FinalHolds
    <3> QED  BY <2>1, <3>1, <3>3
  <2>2. CASE \E i \in Index : /\ At(global'[c], Final(active), i)
                              /\ i \in DOMAIN Whole(active) /\ Whole(active)[i] = c
        BY <1>1, <1>l, <2>2 DEF FinalHolds
  <2> QED  BY <1>a, <2>1, <2>2
<1>7. StagedOK'
  <2> SUFFICES ASSUME NEW c \in Chunk, staged[c] # None
               PROVE  /\ opt.resume
                      /\ \E q \in DOMAIN manifest : \E i \in DOMAIN Whole(q) :
                           /\ At(staged[c], Stage(q), i) /\ Whole(q)[i] = c
                           /\ ~ Installed(q)' =>
                                /\ StageHolds(q, i, c)'
                                /\ DOMAIN (Staged(q)').bytes = DOMAIN Whole(q)
      BY <1>u DEF StagedOK
  <2>1. opt.resume /\ \E q \in DOMAIN manifest : \E i \in DOMAIN Whole(q) :
             /\ At(staged[c], Stage(q), i) /\ Whole(q)[i] = c
             /\ ~ Installed(q) =>
                  StageHolds(q, i, c) /\ DOMAIN Staged(q).bytes = DOMAIN Whole(q)
        BY <1>2 DEF StagedOK
  <2>2. PICK q \in DOMAIN manifest : \E i \in DOMAIN Whole(q) :
             /\ At(staged[c], Stage(q), i) /\ Whole(q)[i] = c
             /\ ~ Installed(q) =>
                  StageHolds(q, i, c) /\ DOMAIN Staged(q).bytes = DOMAIN Whole(q)
        BY <2>1
  <2>3. CASE q = active  BY <1>1, <1>i, <2>1, <2>2, <2>3
  <2>4. CASE q # active
    <3>1. q \in Path \ {active}  BY <1>3, <2>4
    <3> QED  BY <1>i, <1>s, <2>1, <2>2, <3>1 DEF StageHolds
  <2> QED  BY <2>3, <2>4
<1>8. ReplacedOK'
  <2> SUFFICES ASSUME NEW p \in Path, NEW c \in Chunk, replaced'[p][c] # None
               PROVE  /\ p \in Left'
                      /\ \E i \in Index : At(replaced'[p][c], Final(p), i) /\ FinalHolds(p, i, c)'
      BY <1>1, <1>u DEF ReplacedOK
  <2>1. replaced' = [replaced EXCEPT ![active] = NoEntry]  BY <1>1 DEF IndexFile
  <2>2. replaced \in [Path -> [Chunk -> Entry]]  BY DEF RunTypeOK, IInv, TypeOK
  <2>3. p # active  BY <1>1, <2>1, <2>2 DEF NoEntry
  <2>4. replaced'[p] = replaced[p]  BY <2>1, <2>2, <2>3
  <2> QED  BY <1>2, <1>l, <1>s, <2>3, <2>4 DEF ReplacedOK, FinalHolds
<1>9. EnoughOK'
  <2> SUFFICES ASSUME NEW p \in todo, NEW c \in SeqRange(Whole(p))
               PROVE  \/ c \in plan.need[p] \/ global'[c] # None \/ staged[c] # None
                      \/ replaced'[p][c] # None
                      \/ \E q \in todo : plan.rank[q] < plan.rank[p] /\ c \in SeqRange(Whole(q))
      BY <1>u, <1>l DEF EnoughOK, SeqRange
  <2>1. p \in plan.work /\ p # active /\ p \in Left  BY <1>l DEF Left
  <2>2. c \in Chunk
        BY <1>1, <1>3, <2>1, SessionFacts, SessionStands DEF SeqRange, RunTypeOK, Moving
  <2>3. replaced'[p] = replaced[p]  BY <1>1, <2>1 DEF IndexFile, RunTypeOK, IInv, TypeOK
  <2>4. \/ c \in plan.need[p] \/ global[c] # None \/ staged[c] # None
        \/ replaced[p][c] # None
        \/ \E q \in todo \union {active} :
              plan.rank[q] < plan.rank[p] /\ c \in SeqRange(Whole(q))
        BY <1>1, <1>2, <1>l, <2>1 DEF EnoughOK
  <2> QED  BY <1>a, <2>2, <2>3, <2>4
<1>10. SentOK'  BY <1>1 DEF SentOK, Busy
<1> QED  BY <1>4, <1>5, <1>6, <1>7, <1>8, <1>9, <1>10 DEF SourcesOK

LEMMA HoldKeepsSources ==
    ASSUME RunTypeOK, PlanOK, SourcesOK, Hold, Pass
    PROVE  SourcesOK'
<1>1. /\ phase = "sealed" /\ phase' = "ready" /\ opt.atomic = "model"
      /\ active \in DOMAIN manifest /\ active \in Path
      /\ active' = None /\ covered' = {} /\ todo' = todo
      /\ UNCHANGED <<fs, setup, staged, handle>>
      /\ IndexFile(Stage(active), active)
      /\ Staged(active) # None /\ Staged(active).bytes = Whole(active)
      BY HoldFacts
<1>2. /\ HandlesOK /\ GlobalOK /\ StagedOK /\ ReplacedOK /\ QueueOK
      BY <1>1 DEF SourcesOK, PlanOK, Moving
<1>3. None \notin Path  BY <1>1, SessionStands DEF Moving
<1>w. DOMAIN Whole(active) \subseteq Index
      BY <1>1, SessionFacts DEF RunTypeOK
<1>u. /\ UNCHANGED <<fs, opt, manifest, plan, staged, handle>>
      /\ \A q : Whole(q)' = Whole(q) /\ Staged(q)' = Staged(q)
      BY <1>1 DEF setup, Whole, Staged
<1>l. active \notin Left' /\ \A q \in Path : q \notin Left => q \notin Left'
      BY <1>1, <1>2, <1>3 DEF Left, QueueOK
<1>i. \A q : ~ Installed(q) /\ ~ Installed(q)'
      BY <1>1, <1>u DEF Installed
<1>4. HandlesOK'  BY <1>2, <1>u, <1>i DEF HandlesOK
<1>5. InstalledOK'  BY <1>i DEF InstalledOK
<1>6. GlobalOK'
  <2> SUFFICES ASSUME NEW c \in Chunk, global'[c] # None
               PROVE  \E q \in Path, i \in Index :
                        \/ At(global'[c], Final(q), i) /\ FinalHolds(q, i, c)
                        \/ At(global'[c], Stage(q), i) /\ StageHolds(q, i, c) /\ q \notin Left'
    <3>1. \A q, i, c : FinalHolds(q, i, c)' = FinalHolds(q, i, c)
          BY <1>u DEF FinalHolds
    <3>2. \A q, i, c : StageHolds(q, i, c)' = StageHolds(q, i, c)
          BY <1>u DEF StageHolds
    <3> QED  BY <1>1, <1>u, <3>1, <3>2 DEF GlobalOK
  <2>1. global' = AddFile(DropPath(global, Final(active)), Stage(active), Whole(active))
        BY <1>1 DEF IndexFile
  <2>2. \/ /\ global'[c] = DropPath(global, Final(active))[c]
           /\ DropPath(global, Final(active))[c] # None
        \/ \E i \in Index : /\ At(global'[c], Stage(active), i)
                            /\ i \in DOMAIN Whole(active) /\ Whole(active)[i] = c
        BY <1>1, <1>w, <2>1, AddFileHolds, NamesDiffer
  <2>3. CASE /\ global'[c] = DropPath(global, Final(active))[c]
             /\ DropPath(global, Final(active))[c] # None
    <3>1. global'[c] = global[c] /\ global[c] # None  BY <2>3 DEF DropPath, Has
    <3>2. \E q \in Path, i \in Index :
             \/ At(global[c], Final(q), i) /\ FinalHolds(q, i, c)
             \/ At(global[c], Stage(q), i) /\ StageHolds(q, i, c) /\ q \notin Left
          BY <1>2, <3>1 DEF GlobalOK
    <3> QED  BY <1>l, <3>1, <3>2
  <2>4. CASE \E i \in Index : /\ At(global'[c], Stage(active), i)
                              /\ i \in DOMAIN Whole(active) /\ Whole(active)[i] = c
        BY <1>1, <1>l, <2>4 DEF StageHolds
  <2> QED  BY <2>2, <2>3, <2>4
<1>7. StagedOK'
  <2>1. \A q, i, c : StageHolds(q, i, c)' = StageHolds(q, i, c)
        BY <1>u DEF StageHolds
  <2> QED  BY <1>2, <1>u, <1>i, <2>1 DEF StagedOK
<1>8. ReplacedOK'
  <2>1. \A p \in Path, c \in Chunk : replaced[p][c] = None
        BY <1>1, <1>2 DEF ReplacedOK
  <2>2. replaced' = [replaced EXCEPT ![active] = NoEntry]  BY <1>1 DEF IndexFile
  <2>3. replaced \in [Path -> [Chunk -> Entry]]  BY DEF RunTypeOK, IInv, TypeOK
  <2>4. \A p \in Path, c \in Chunk : replaced'[p][c] = None
        BY <2>1, <2>2, <2>3 DEF NoEntry
  <2> QED  BY <2>4 DEF ReplacedOK
<1>9. EnoughOK'  BY <1>1, <1>u DEF EnoughOK
<1>10. SentOK'  BY <1>1 DEF SentOK, Busy
<1> QED  BY <1>4, <1>5, <1>6, <1>7, <1>8, <1>9, <1>10 DEF SourcesOK

LEMMA StepKeepsSources ==
    ASSUME RunTypeOK, PlanOK, SourcesOK, [TransferNext]_allVars, FastTells
    PROVE  SourcesOK'
<1> SUFFICES ASSUME Moving' PROVE SourcesOK'  BY DEF SourcesOK
<1>1. CASE StartRun  BY <1>1, StartPlansEnough
<1>2. CASE BeginNext  BY <1>2, BeginKeepsSources
<1>3. CASE SendChunk  BY <1>3, SendKeepsSources
<1>4. CASE FillNext /\ Pass  BY <1>4, FillKeepsSources
<1>5. CASE Install /\ Pass  BY <1>5, InstallKeepsSources
<1>6. CASE Hold /\ Pass  BY <1>6, HoldKeepsSources
<1>7. CASE Quiet  BY <1>7, QuietKeepsSources
<1> QED  BY <1>1, <1>2, <1>3, <1>4, <1>5, <1>6, <1>7, StepKinds

\* What an open handle or a file under the name of an entry still holds.
LEMMA FinalIsRead ==
    ASSUME HandlesOK, NEW q \in Path, NEW i, NEW c, FinalHolds(q, i, c)
    PROVE  /\ Readable(Final(q))
           /\ i \in DOMAIN BytesAt(Final(q)) /\ BytesAt(Final(q))[i] = c
<1>1. handle[Final(q)] \in {Closed, OpenAt(Final(q))}  BY DEF HandlesOK
<1>2. BytesAt(Final(q)) = fs[Final(q)].bytes
      BY <1>1, NamesDiffer DEF BytesAt, OpenAt, Closed
<1> QED  BY <1>2 DEF FinalHolds, Readable

LEMMA StageIsRead ==
    ASSUME HandlesOK, InstalledOK, NEW q \in Path, NEW i, NEW c,
           Readable(Stage(q)),
           IF Installed(q) THEN i \in DOMAIN Whole(q) /\ Whole(q)[i] = c
                           ELSE StageHolds(q, i, c)
    PROVE  i \in DOMAIN BytesAt(Stage(q)) /\ BytesAt(Stage(q))[i] = c
<1>1. CASE ~ Installed(q)
  <2>1. handle[Stage(q)] \in {Closed, OpenAt(Stage(q))}
        BY <1>1, NamesDiffer DEF HandlesOK
  <2>2. BytesAt(Stage(q)) = fs[Stage(q)].bytes
        BY <2>1, NamesDiffer DEF BytesAt, OpenAt, Closed
  <2> QED  BY <1>1, <2>2 DEF StageHolds, Staged
<1>2. CASE Installed(q)
  <2>1. fs[Stage(q)] = None /\ Standing(q)  BY <1>2 DEF InstalledOK, Staged
  <2>2. handle[Stage(q)] # Closed  BY <2>1 DEF Readable
  <2>3. handle[Stage(q)] = OpenAt(Final(q))  BY <1>2, <2>2 DEF HandlesOK
  <2>4. BytesAt(Stage(q)) = fs[Final(q)].bytes
        BY <2>2, <2>3, NamesDiffer DEF BytesAt, OpenAt
  <2> QED  BY <1>2, <2>1, <2>4 DEF Standing
<1> QED  BY <1>1, <1>2

\* Why a chunk can fail to be copied while a file is filled.
LEMMA FetchFailsWhen ==
    ASSUME RunTypeOK, PlanOK, SourcesOK, phase = "filling",
           NEW i \in DOMAIN Whole(active) \ covered
    PROVE  LET why == FetchFails(Lookup(active, Whole(active)[i]), Whole(active)[i])
           IN  \/ why = "no"
               \/ opt.atomic = "model" /\ why = "missing"
               \/ opt.atomic = "file" /\ opt.resume /\ why = "gone"
<1> DEFINE c == Whole(active)[i]
           l == Lookup(active, c)
           why == FetchFails(l, c)
<1> SUFFICES \/ why = "no"
             \/ opt.atomic = "model" /\ why = "missing"
             \/ opt.atomic = "file" /\ opt.resume /\ why = "gone"
    OBVIOUS
<1>1. /\ HandlesOK /\ InstalledOK /\ GlobalOK /\ StagedOK /\ ReplacedOK /\ EnoughOK
      /\ SentOK /\ QueueOK
      BY DEF SourcesOK, PlanOK, Moving
<1>2. /\ active \in DOMAIN manifest /\ active \in Path /\ DOMAIN manifest \subseteq Path
      /\ None \notin Path /\ plan.work \subseteq Path
      /\ plan.rank \in [plan.work -> Nat]
      BY SessionStands DEF Moving
<1>3. c \in Chunk  BY <1>2, SessionFacts DEF RunTypeOK
<1>4. active \in plan.work \cap Left  BY <1>1, <1>2 DEF QueueOK, Left
<1>5. c \in SeqRange(Whole(active)) /\ i \in PlacesOf(c) /\ i \notin covered
      BY DEF SeqRange, PlacesOf
<1>t. opt.atomic \in {"file", "model"}  BY DEF RunTypeOK, IInv, TypeOK, OptionRecord
<1>6. c \notin plan.need[active]  BY <1>1, <1>5 DEF SentOK, Busy
<1>7. ~ \E q \in plan.work \cap Left :
          plan.rank[q] < plan.rank[active] /\ c \in SeqRange(Whole(q))
  <2> SUFFICES ASSUME NEW q \in plan.work \cap Left, plan.rank[q] < plan.rank[active]
               PROVE  FALSE
      OBVIOUS
  <2>1. plan.rank[q] \in Nat /\ plan.rank[active] \in Nat  BY <1>2, <1>4
  <2>2. q \in todo \/ q = active  BY DEF Left
  <2>3. q \in todo => plan.rank[active] < plan.rank[q]  BY <1>1, <1>2 DEF QueueOK
  <2> QED  BY <2>1, <2>2, <2>3
<1>8. opt.atomic = "file" => l # None
  <2>1. opt.atomic = "file" =>
           global[c] # None \/ staged[c] # None \/ replaced[active][c] # None
        BY <1>1, <1>4, <1>5, <1>6, <1>7 DEF EnoughOK
  <2> QED  BY <2>1 DEF Lookup
<1> HIDE DEF c
<1>9. CASE l = None  BY <1>t, <1>8, <1>9 DEF FetchFails
<1>10. CASE l # None /\ replaced[active][c] # None
  <2>1. l = replaced[active][c]  BY <1>10 DEF Lookup
  <2>2. PICK j \in Index : At(l, Final(active), j) /\ FinalHolds(active, j, c)
        BY <1>1, <1>2, <1>3, <1>10, <2>1 DEF ReplacedOK
  <2>3. l.name = Final(active) /\ l.at = j  BY <2>2 DEF At
  <2>4. Readable(l.name) /\ l.at \in DOMAIN BytesAt(l.name) /\ BytesAt(l.name)[l.at] = c
        BY <1>1, <1>2, <2>2, <2>3, FinalIsRead
  <2> QED  BY <1>10, <2>4 DEF FetchFails
<1>11. CASE l # None /\ replaced[active][c] = None /\ staged[c] # None
  <2>1. l = staged[c]  BY <1>11 DEF Lookup
  <2>2. opt.resume /\ \E q \in DOMAIN manifest : \E j \in DOMAIN Whole(q) :
           /\ At(staged[c], Stage(q), j) /\ Whole(q)[j] = c
           /\ ~ Installed(q) =>
                StageHolds(q, j, c) /\ DOMAIN Staged(q).bytes = DOMAIN Whole(q)
        BY <1>1, <1>3, <1>11 DEF StagedOK
  <2>3. PICK q \in DOMAIN manifest : \E j \in DOMAIN Whole(q) :
           /\ At(staged[c], Stage(q), j) /\ Whole(q)[j] = c
           /\ ~ Installed(q) => StageHolds(q, j, c)
        BY <2>2
  <2>4. PICK j \in DOMAIN Whole(q) :
           /\ At(l, Stage(q), j) /\ Whole(q)[j] = c
           /\ ~ Installed(q) => StageHolds(q, j, c)
        BY <2>1, <2>3
  <2>5. q \in Path /\ l.name = Stage(q) /\ l.at = j  BY <1>2, <2>4 DEF At
  <2>6. CASE Readable(l.name)
    <3>1. l.at \in DOMAIN BytesAt(l.name) /\ BytesAt(l.name)[l.at] = c
          BY <1>1, <2>4, <2>5, <2>6, StageIsRead
    <3> QED  BY <1>11, <2>6, <3>1 DEF FetchFails
  <2>7. CASE ~ Readable(l.name)
    <3>1. fs[Stage(q)] = None  BY <2>5, <2>7 DEF Readable
    <3>2. Installed(q)  BY <2>4, <3>1 DEF StageHolds, Staged
    <3> QED  BY <1>11, <2>2, <2>7, <3>2 DEF FetchFails, Installed
  <2> QED  BY <2>6, <2>7
<1>12. CASE l # None /\ replaced[active][c] = None /\ staged[c] = None
  <2>1. l = global[c]  BY <1>12 DEF Lookup
  <2>2. PICK q \in Path, j \in Index :
          \/ At(l, Final(q), j) /\ FinalHolds(q, j, c)
          \/ At(l, Stage(q), j) /\ StageHolds(q, j, c) /\ opt.atomic = "model"
        BY <1>1, <1>3, <1>12, <2>1 DEF GlobalOK
  <2>3. CASE At(l, Final(q), j) /\ FinalHolds(q, j, c)
    <3>1. l.name = Final(q) /\ l.at = j  BY <2>3 DEF At
    <3>2. Readable(l.name) /\ l.at \in DOMAIN BytesAt(l.name) /\ BytesAt(l.name)[l.at] = c
          BY <1>1, <2>3, <3>1, FinalIsRead
    <3> QED  BY <1>12, <3>2 DEF FetchFails
  <2>4. CASE At(l, Stage(q), j) /\ StageHolds(q, j, c) /\ opt.atomic = "model"
    <3>1. l.name = Stage(q) /\ l.at = j  BY <2>4 DEF At
    <3>2. ~ Installed(q)  BY <2>4 DEF Installed
    <3>3. Readable(l.name)  BY <2>4, <3>1 DEF Readable, StageHolds, Staged
    <3>4. l.at \in DOMAIN BytesAt(l.name) /\ BytesAt(l.name)[l.at] = c
          BY <1>1, <2>4, <3>1, <3>2, <3>3, StageIsRead
    <3> QED  BY <1>12, <3>3, <3>4 DEF FetchFails
  <2> QED  BY <2>2, <2>3, <2>4
<1> QED  BY <1>9, <1>10, <1>11, <1>12

\* How a step can end a session, and on whose account.
EndsWell ==
    \/ outcome' = outcome /\ (phase = "filling" => phase' # "idle")
    \/ outcome' = "aborted"
    \/ outcome' \in {"none", "ok"} /\ phase # "filling"
    \/ phase = "filling" /\ opt.atomic = "model" /\ outcome' = "missing"
    \/ phase = "filling" /\ opt.atomic = "file" /\ opt.resume /\ outcome' = "gone"

LEMMA StepEndsWell ==
    ASSUME RunTypeOK, PlanOK, SourcesOK, [TransferNext]_allVars
    PROVE  EndsWell
<1>1. CASE StartRun
  <2>1. PICK o \in Options : Plan(src, o)  BY <1>1 DEF StartRun
  <2> QED  BY <2>1 DEF Plan, EndsWell
<1>2. CASE Failed
  <2>1. PICK i \in Index :
          /\ phase = "filling" /\ NextGap(i)
          /\ FetchFails(Lookup(active, Whole(active)[i]), Whole(active)[i]) # "no"
          /\ outcome' = FetchFails(Lookup(active, Whole(active)[i]), Whole(active)[i])
        BY <1>2 DEF Failed, FillFails, Ended
  <2>2. i \in DOMAIN Whole(active) \ covered  BY <2>1 DEF NextGap
  <2> QED  BY <2>1, <2>2, FetchFailsWhen DEF EndsWell
<1>3. CASE SourceChangedWhileReading \/ Fault
      BY <1>3 DEF SourceChangedWhileReading, Fault, Abort, PowerLoss, Ended, EndsWell
<1>4. CASE Done  BY <1>4 DEF Done, SaveManifest, Ended, EndsWell
<1>5. CASE BeginNext  BY <1>5 DEF BeginNext, BeginFile, EndsWell
<1>6. CASE SendChunk  BY <1>6 DEF SendChunk, ChunkArrives, EndsWell
<1>7. CASE EndNext \/ FinishRun  BY <1>7 DEF EndNext, EndFile, FinishRun, Finish, EndsWell
<1>8. CASE FillNext \/ Seal \/ Install \/ Hold
      BY <1>8 DEF FillNext, Seal, Install, Hold, EndsWell
<1>9. CASE CommitPending \/ DeleteNext
      BY <1>9 DEF CommitPending, DeleteNext, progress, EndsWell
<1>10. CASE SourceChanges \/ UNCHANGED allVars
       BY <1>10 DEF SourceChanges, allVars, vars, EndsWell
<1> QED  BY <1>1, <1>2, <1>3, <1>4, <1>5, <1>6, <1>7, <1>8, <1>9, <1>10
         DEF TransferNext, RunStep

LEMMA SourcesInvariance == TransferSpec /\ []FastTells => []SourcesOK
<1>1. TransferInit => SourcesOK  BY DEF TransferInit, Init, SourcesOK, Moving
<1>2. RunTypeOK /\ PlanOK /\ SourcesOK /\ FastTells /\ [TransferNext]_allVars => SourcesOK'
      BY StepKeepsSources
<1> QED  BY <1>1, <1>2, RunTypeInvariance, PlanInvariance, PTL DEF TransferSpec

\* The plan's arithmetic is right: with the chunks asked for and those found
\* locally every file can be completed (plan.go:195-255 against fill,
\* receiver.go:387), but for the two known exceptions.  What --fast takes for
\* granted is the one assumption.
THEOREM PlanSuffices == TransferSpec /\ []FastTells => PlanSufficient
<1> DEFINE Fills ==
      phase = "filling" /\ phase' = "idle" /\ outcome' # "aborted" =>
         \/ opt.atomic = "model" /\ outcome' = "missing"
         \/ opt.atomic = "file" /\ opt.resume /\ outcome' = "gone"
<1>1. RunTypeOK /\ PlanOK /\ SourcesOK /\ [TransferNext]_allVars => EndsWell
      BY StepEndsWell
<1>2. EndsWell => Fills  BY DEF EndsWell
<1>3. PlanSufficient <=> [][Fills]_allVars  BY DEF PlanSufficient
<1> HIDE DEF Fills
<1> QED  BY <1>1, <1>2, <1>3, RunTypeInvariance, PlanInvariance, SourcesInvariance, PTL
         DEF TransferSpec

\* Without --fast, it needs no assumption.
THEOREM CarefulPlanSuffices == (\A o \in Options : ~ o.fast) => (TransferSpec => PlanSufficient)
<1> SUFFICES ASSUME \A o \in Options : ~ o.fast PROVE TransferSpec => PlanSufficient
    OBVIOUS
<1>1. FastTells  BY DEF FastTells, Trusted
<1> QED  BY <1>1, PlanSuffices, PTL

\* A chunk that was indexed never turns out to have changed when it is copied
\* (index.go:101-102), where size and time tell files apart: --fast is the
\* only way to the failure that the run fast_drift shows.
THEOREM OnlyFastDrifts == TransferSpec /\ []FastTells => []FallsBackToNetwork
<1>1. TransferInit => FallsBackToNetwork
      BY DEF TransferInit, Init, FallsBackToNetwork
<1>2. FallsBackToNetwork /\ EndsWell => FallsBackToNetwork'
      BY DEF EndsWell, FallsBackToNetwork
<1>3. RunTypeOK /\ PlanOK /\ SourcesOK /\ [TransferNext]_allVars => EndsWell
      BY StepEndsWell
<1> QED  BY <1>1, <1>2, <1>3, RunTypeInvariance, PlanInvariance, SourcesInvariance, PTL
         DEF TransferSpec

OptionOK == opt \in Options

LEMMA OptionInvariance == TransferSpec => []OptionOK
<1>1. TransferInit => OptionOK  BY NoOptionType DEF TransferInit, Init, OptionOK
<1>2. ASSUME RunTypeOK, OptionOK, [TransferNext]_allVars PROVE OptionOK'
  <2>1. [Next]_vars  BY <1>2, TransferStepIsNext
  <2>2. CASE \E m \in Manifests, o \in Options : Plan(m, o)  BY <2>2 DEF Plan, OptionOK
  <2>3. CASE FillFails \/ SaveManifest \/ Abort \/ PowerLoss
        BY <2>3, NoOptionType DEF FillFails, SaveManifest, Abort, PowerLoss, Ended, OptionOK
  <2>4. CASE UNCHANGED opt  BY <1>2, <2>4 DEF OptionOK
  <2> QED
      BY <2>1, <2>2, <2>3, <2>4
      DEF Next, BeginFile, ChunkArrives, EndFile, FillNext, Seal, Install, Hold, Finish,
          CommitPending, DeleteNext, setup, vars
<1> QED  BY <1>1, <1>2, RunTypeInvariance, PTL DEF TransferSpec

\* In AtomicFile mode no chunk is ever missing: dropping files from the index
\* under AtomicModel is the only way to the failure that model_drops shows.
THEOREM FileModeLacksNothing ==
    (\A o \in Options : o.atomic = "file") =>
       (TransferSpec /\ []FastTells => []NoChunkMissing)
<1> SUFFICES ASSUME \A o \in Options : o.atomic = "file"
             PROVE  TransferSpec /\ []FastTells => []NoChunkMissing
    OBVIOUS
<1>1. TransferInit => NoChunkMissing
      BY DEF TransferInit, Init, NoChunkMissing
<1>2. OptionOK /\ NoChunkMissing /\ EndsWell => NoChunkMissing'
      BY DEF EndsWell, NoChunkMissing, OptionOK
<1>3. RunTypeOK /\ PlanOK /\ SourcesOK /\ [TransferNext]_allVars => EndsWell
      BY StepEndsWell
<1> QED  BY <1>1, <1>2, <1>3, RunTypeInvariance, PlanInvariance, SourcesInvariance,
            OptionInvariance, PTL
         DEF TransferSpec

\* Only a resumed AtomicFile run looks for a chunk in a file that is gone: the
\* staging file it was indexed in has been renamed, as resume_gone shows.
THEOREM OnlyResumeLosesSources ==
    (\A o \in Options : o.atomic = "model" \/ ~ o.resume) =>
       (TransferSpec /\ []FastTells => []NoSourceGone)
<1> SUFFICES ASSUME \A o \in Options : o.atomic = "model" \/ ~ o.resume
             PROVE  TransferSpec /\ []FastTells => []NoSourceGone
    OBVIOUS
<1>1. TransferInit => NoSourceGone
      BY DEF TransferInit, Init, NoSourceGone
<1>2. OptionOK /\ NoSourceGone /\ EndsWell => NoSourceGone'
      BY DEF EndsWell, NoSourceGone, OptionOK
<1>3. RunTypeOK /\ PlanOK /\ SourcesOK /\ [TransferNext]_allVars => EndsWell
      BY StepEndsWell
<1> QED  BY <1>1, <1>2, <1>3, RunTypeInvariance, PlanInvariance, SourcesInvariance,
            OptionInvariance, PTL
         DEF TransferSpec
=============================================================================
