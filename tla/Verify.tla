------------------------------- MODULE Verify -------------------------------
(***************************************************************************)
(* engine.Verify, after a Build that made the manifest: every file of the  *)
(* manifest is checked by a goroutine of its own, at most Jobs at a time,  *)
(* in a directory that may go on changing; a file whose digest differs is  *)
(* probed chunk by chunk; on request the directory is walked for files the *)
(* manifest does not know.                                                 *)
(***************************************************************************)
EXTENDS Scan

CONSTANT VerifyOptions      \* VerifyConfig: [quick, extra]

\* FileProblem.
Problem == [kind : {"missing", "size", "unreadable", "digest"}, bad : SUBSET Nat]

ASSUME VerifyAssumption ==
    /\ None \notin Problem
    /\ \A p \in Path : p \in Seq({p[k] : k \in DOMAIN p})

VARIABLES
    cfg,            \* the options of this verification
    probed,         \* for each file being probed, whether each chunk matched
    problem,        \* FileProblems: kind and bad chunks, or None
    okFiles,        \* files found to match
    extra           \* files the manifest does not know

report == <<problem, okFiles, extra>>
verifyVars == <<cfg, probed, report>>
allVars == <<vars, verifyVars>>

\* What a verification leaves alone.
built == <<files, firstErr, manifest>>

-----------------------------------------------------------------------------
(* The loop.                                                               *)

VerifyWithoutManifest ==
    /\ pc = "failed" /\ manifest = None
    /\ pc' = "no manifest"
    /\ UNCHANGED <<tree, interrupted, walk, pool, built, verifyVars>>

VerifyBegins ==
    /\ pc = "built"
    /\ pc' = "check" /\ cfg' \in VerifyOptions
    /\ todo' = DOMAIN manifest /\ at' = Idle
    /\ touched' = {}
    /\ UNCHANGED <<dir, changes, interrupted, walk, got, handle, built, probed,
                   report>>

CheckLoop ==
    /\ pc = "check"
    /\ \/ Spawn("stat")
       \/ StopSpawning(interrupted)
    /\ UNCHANGED <<tree, pc, interrupted, walk, built, verifyVars>>

-----------------------------------------------------------------------------
(* verifyFile.                                                             *)

\* Under mu: one more file is done.
Matches(p) ==
    /\ okFiles' = okFiles + 1
    /\ Leave(p)
    /\ UNCHANGED <<probed, problem, extra>>

Reports(p, kind, bad) ==
    /\ problem' = [problem EXCEPT ![p] = [kind |-> kind, bad |-> bad]]
    /\ probed' = [probed EXCEPT ![p] = <<>>]
    /\ Leave(p)
    /\ UNCHANGED <<okFiles, extra>>

\* Whether os.Stat finds the file; otherwise, whether it says that there is none.
Resolves(p) == dir[p] # None /\ dir[p].kind \notin {"dead", "loop"}
Missing(p) == dir[p] # None => dir[p].kind = "dead"

Stat(p) ==
    /\ at[p] = "stat"
    /\ \/ Missing(p) /\ Reports(p, "missing", {})
       \/ ~ Missing(p) /\ ~ Resolves(p) /\ Reports(p, "unreadable", {})
       \/ /\ Resolves(p) /\ Len(dir[p].bytes) # Len(manifest[p].bytes)
          /\ Reports(p, "size", {})
       \/ /\ Resolves(p) /\ Len(dir[p].bytes) = Len(manifest[p].bytes)
          /\ at' = [at EXCEPT ![p] = "open"]
          /\ UNCHANGED <<todo, got, handle, probed, report>>

Open(p) ==
    \/ OpenToRead(p) /\ UNCHANGED <<probed, report>>
    \/ at[p] = "open" /\ ~ CanOpen(p) /\ Reports(p, "unreadable", {})

\* chunk.HashReader; it does not look at the context.
Read(p) == ReadNext(p) /\ UNCHANGED <<probed, report>>

Compare(p) ==
    /\ AtEnd(p)
    /\ \/ got[p] = manifest[p].bytes /\ Matches(p)
       \/ got[p] # manifest[p].bytes /\ cfg.quick /\ Reports(p, "digest", {})
       \/ /\ got[p] # manifest[p].bytes /\ ~ cfg.quick
          /\ at' = [at EXCEPT ![p] = "probe"]
          /\ UNCHANGED <<todo, got, handle, probed, report>>

\* badChunks: chunk.HashAt of each range the manifest records; a range past
\* the end is an error, hence bad.
Probe(p) ==
    /\ at[p] = "probe"
    /\ LET i == Len(probed[p]) + 1 IN
         /\ i <= Len(manifest[p].bytes)
         /\ probed' = [probed EXCEPT ![p] =
                Append(@, i <= Len(Bytes(p)) /\ Bytes(p)[i] = manifest[p].bytes[i])]
    /\ UNCHANGED <<pool, report>>

\* The probing also ends when the context is cancelled.
ProbeEnds(p) ==
    /\ at[p] = "probe"
    /\ Len(probed[p]) = Len(manifest[p].bytes) \/ interrupted
    /\ Reports(p, "digest", {i \in DOMAIN probed[p] : ~ probed[p][i]})

VerifyFile(p) ==
    /\ pc = "check"
    /\ Stat(p) \/ Open(p) \/ Read(p) \/ Compare(p) \/ Probe(p) \/ ProbeEnds(p)
    /\ UNCHANGED <<tree, pc, interrupted, walk, built, cfg>>

-----------------------------------------------------------------------------
(* The verdict, and extraFiles.                                            *)

GiveUp ==
    /\ pc = "check" /\ PoolIsDone /\ interrupted
    /\ pc' = "gave up"
    /\ UNCHANGED <<tree, interrupted, walk, pool, built, verifyVars>>

\* (Mutant: the verdict is given without another look at the context.)
VerdictAnyway ==
    /\ pc = "check" /\ PoolIsDone /\ ~ cfg.extra
    /\ pc' = "verdict"
    /\ UNCHANGED <<tree, interrupted, walk, pool, built, verifyVars>>

Verdict ==
    /\ pc = "check" /\ PoolIsDone /\ ~ interrupted /\ ~ cfg.extra
    /\ pc' = "verdict"
    /\ UNCHANGED <<tree, interrupted, walk, pool, built, verifyVars>>

ExtraOptions == [hidden |-> TRUE, follow |-> FALSE, exclude |-> {}]

ExtraBegins ==
    /\ pc = "check" /\ PoolIsDone /\ ~ interrupted /\ cfg.extra
    /\ pc' = "extra"
    /\ UNCHANGED <<tree, interrupted, pool, built, verifyVars>>
    /\ opt' = ExtraOptions /\ unseen' = Listing' /\ entries' = NoEntries

ExtraNext ==
    /\ pc = "extra" /\ Look
    /\ UNCHANGED <<tree, pc, interrupted, pool, built, verifyVars>>

ExtraFails ==
    /\ pc = "extra" /\ Vanished
    /\ pc' = "gave up"
    /\ UNCHANGED <<tree, interrupted, walk, pool, built, verifyVars>>

ExtraEnds ==
    /\ pc = "extra" /\ unseen = {}
    /\ pc' = "verdict"
    /\ extra' = Found \ DOMAIN manifest
    /\ UNCHANGED <<tree, interrupted, walk, pool, built, cfg, probed, problem,
                   okFiles>>

InterruptVerify ==
    /\ pc \in {"check", "extra"}
    /\ ~ interrupted /\ interrupted' = TRUE
    /\ UNCHANGED <<tree, pc, walk, pool, built, verifyVars>>

-----------------------------------------------------------------------------
Ends ==
    GiveUp \/ Verdict \/ ExtraBegins \/ ExtraFails \/ ExtraEnds

VerifyInit ==
    /\ Init
    /\ cfg = None
    /\ probed = [p \in Path |-> <<>>] /\ problem = [p \in Path |-> None]
    /\ okFiles = 0 /\ extra = {}

\* A Build, and a verification against the manifest it made.
VerifyNext ==
    \/ Next /\ UNCHANGED verifyVars
    \/ VerifyWithoutManifest \/ VerifyBegins
    \/ CheckLoop \/ ExtraNext \/ Ends
    \/ \E p \in Path : VerifyFile(p)
    \/ InterruptVerify

VerifySpec == VerifyInit /\ [][VerifyNext]_allVars

\* Every goroutine runs, and reads return.
FairVerifySpec ==
    /\ VerifySpec
    /\ WF_allVars(Build /\ UNCHANGED verifyVars)
    /\ WF_allVars(CheckLoop \/ ExtraNext \/ Ends)
    /\ \A p \in Path : WF_allVars(Hash(p) /\ UNCHANGED verifyVars)
    /\ \A p \in Path : WF_allVars(VerifyFile(p))

-----------------------------------------------------------------------------
(* Properties.                                                             *)

\* What should be said of a file: the reference for the verdict.
Expected(p) ==
    LET d == dir[p]
        f == manifest[p]
        differ == {i \in DOMAIN f.bytes : d.bytes[i] # f.bytes[i]}
    IN  IF d = None \/ d.kind = "dead" THEN [kind |-> "missing", bad |-> {}]
        ELSE IF d.kind = "loop" THEN [kind |-> "unreadable", bad |-> {}]
        ELSE IF Len(d.bytes) # Len(f.bytes) THEN [kind |-> "size", bad |-> {}]
        ELSE IF ~ CanOpen(p) THEN [kind |-> "unreadable", bad |-> {}]
        ELSE IF differ = {} THEN None
        ELSE [kind |-> "digest", bad |-> IF cfg.quick THEN {} ELSE differ]

\* A verdict is exact for all that nobody touched meanwhile (Verify,
\* verify.go:100): the right problem, all the bad chunks and no other
\* ("names the exact byte ranges", README.md:128), all the extra files and
\* no other, and each file of the manifest counted once.
VerdictIsExact ==
    pc = "verdict" =>
        /\ \A p \in DOMAIN manifest \ touched : problem[p] = Expected(p)
        /\ cfg.extra => \A p \in Path \ (touched \union DOMAIN manifest) :
              p \in extra <=>
                /\ dir[p] # None /\ dir[p].kind \in {"file", "denied"}
                /\ \A k \in 1 .. Len(p) - 1 : p[k] # StateDir
        /\ okFiles = Cardinality({p \in DOMAIN manifest : problem[p] = None})

\* Whatever fails, changes or is cancelled, both commands come to an end: no
\* loop waits for a place in the pool, and no result is waited for, in vain.
BothReturn ==
    /\ <>(pc \in {"built", "failed"})
    /\ pc = "check" ~> pc \in {"verdict", "gave up"}
=============================================================================
