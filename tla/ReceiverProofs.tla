--------------------------- MODULE ReceiverProofs ---------------------------
(***************************************************************************)
(* Proofs about Receiver, for every set of paths, chunks, manifests and    *)
(* options and for a caller that may do anything: IInv is inductive, and   *)
(* under it every step that changes a visible file installs exactly what   *)
(* the manifest says.                                                      *)
(***************************************************************************)
EXTENDS Receiver, TLAPS

-----------------------------------------------------------------------------
(* The operators of index.go and readers have the types TypeOK says.       *)

\* The place an index records for a chunk is a place of the file that has it.
LEMMA LocOfType ==
    ASSUME NEW n \in Name, NEW bytes, DOMAIN bytes \subseteq Index,
           NEW c \in SeqRange(bytes)
    PROVE  LocOf(n, bytes, c) \in Loc
<1>1. PICK i \in DOMAIN bytes : bytes[i] = c  BY DEF SeqRange
<1>2. (CHOOSE j \in DOMAIN bytes : bytes[j] = c) \in DOMAIN bytes  BY <1>1
<1> QED  BY <1>2 DEF LocOf, Loc

\* index.add and index.dropPath keep an index an index.
LEMMA AddFileType ==
    ASSUME NEW idx \in [Chunk -> Entry], NEW n \in Name, NEW bytes,
           DOMAIN bytes \subseteq Index
    PROVE  AddFile(idx, n, bytes) \in [Chunk -> Entry]
BY LocOfType DEF AddFile, Entry

LEMMA DropPathType ==
    ASSUME NEW idx \in [Chunk -> Entry], NEW n
    PROVE  DropPath(idx, n) \in [Chunk -> Entry]
BY DEF DropPath, Entry

LEMMA NoEntryType == NoEntry \in [Chunk -> Entry]
BY DEF NoEntry, Entry

\* An index built from any of the destination's files is an index.
LEMMA IndexOfType ==
    ASSUME NEW held, DOMAIN held \subseteq Path,
           \A p \in DOMAIN held : DOMAIN held[p] \subseteq Index,
           NEW kind \in {"final", "stage"}, NEW pick \in Picks
    PROVE  IndexOf(held, kind, pick) \in [Chunk -> Entry]
<1> SUFFICES ASSUME NEW c \in Chunk
             PROVE  IndexOf(held, kind, pick)[c] \in Entry
    BY DEF IndexOf
<1> DEFINE holders == {p \in DOMAIN held : c \in SeqRange(held[p])}
<1>1. CASE holders = {}
      BY <1>1 DEF IndexOf, Entry
<1>2. CASE holders # {}
  <2>1. holders \in (SUBSET Path) \ {{}}
    <3>1. holders \subseteq DOMAIN held  OBVIOUS
    <3>2. holders \subseteq Path  BY <3>1
    <3> QED  BY <3>2, <1>2
  <2>2. pick[holders] \in holders  BY <2>1 DEF Picks
  <2> DEFINE p == pick[holders]
  <2>3. p \in DOMAIN held /\ c \in SeqRange(held[p])  BY <2>2
  <2>4. <<kind, p>> \in Name  BY <2>3 DEF Name
  <2>5. LocOf(<<kind, p>>, held[p], c) \in Loc  BY <2>3, <2>4, LocOfType
  <2>6. IndexOf(held, kind, pick)[c] = LocOf(<<kind, p>>, held[p], c)
        BY <1>2 DEF IndexOf
  <2> QED  BY <2>5, <2>6 DEF Entry
<1> QED  BY <1>1, <1>2

LEMMA DataType ==
    ASSUME NEW b \in Data
    PROVE  DOMAIN b \subseteq Index /\ b \in [DOMAIN b -> Chunk \union {Hole}]
<1>1. PICK n \in 0 .. MaxLen : b \in [1 .. n -> Chunk \union {Hole}]  BY DEF Data
<1> QED  BY <1>1, ConstantsAssumption DEF Index

LEMMA ContentIsData == Content \subseteq Data
<1> SUFFICES ASSUME NEW b \in Content PROVE b \in Data  OBVIOUS
<1>1. PICK n \in 0 .. MaxLen : b \in [1 .. n -> Chunk]  BY DEF Content
<1>2. b \in [1 .. n -> Chunk \union {Hole}]  BY <1>1
<1> QED  BY <1>2 DEF Data

\* A file rewritten in place, at any of its places, is still a file.
LEMMA RewrittenType ==
    ASSUME NEW b \in Data, NEW g, g = [i \in DOMAIN b |-> g[i]],
           \A i \in DOMAIN b : g[i] \in Chunk \union {Hole}
    PROVE  g \in Data
<1>1. PICK n \in 0 .. MaxLen : b \in [1 .. n -> Chunk \union {Hole}]  BY DEF Data
<1>2. g \in [1 .. n -> Chunk \union {Hole}]  BY <1>1
<1> QED  BY <1>2 DEF Data

HandleType == [Name -> [at: Name \union {None}, kept: Data]]

LEMMA EmptyIsData == <<>> \in Data
<1>1. 0 \in 0 .. MaxLen  BY ConstantsAssumption
<1>2. <<>> \in [1 .. 0 -> Chunk \union {Hole}]  OBVIOUS
<1> QED  BY <1>1, <1>2 DEF Data

LEMMA OpenAtType ==
    /\ Closed \in [at: Name \union {None}, kept: Data]
    /\ \A n \in Name : OpenAt(n) \in [at: Name \union {None}, kept: Data]
BY EmptyIsData DEF Closed, OpenAt

LEMMA RenamedType ==
    ASSUME NEW h \in HandleType, NEW from \in Name, NEW to \in Name,
           fs \in [Name -> File \union {None}],
           \A n \in Name : h[n] # Closed /\ h[n].at = to => fs[to] # None
    PROVE  Renamed(h, from, to) \in HandleType
<1> SUFFICES ASSUME NEW n \in Name
             PROVE  Renamed(h, from, to)[n] \in [at: Name \union {None}, kept: Data]
    BY DEF Renamed, HandleType
<1>1. CASE h[n] # Closed /\ h[n].at = to
      BY <1>1 DEF Renamed, File
<1>2. CASE ~ (h[n] # Closed /\ h[n].at = to)
      BY <1>2, OpenAtType DEF Renamed, HandleType
<1> QED  BY <1>1, <1>2

-----------------------------------------------------------------------------
(* The inductive invariant.                                                *)

\* What Validate guarantees of a manifest: its entries are files.
LEMMA ManifestFacts ==
    ASSUME NEW m \in Manifests, NEW p \in DOMAIN m
    PROVE  /\ m # None /\ p \in Path
           /\ m[p].bytes \in Data /\ m[p].mtime \in Time
           /\ DOMAIN m[p].bytes \subseteq Index
           /\ \A i \in DOMAIN m[p].bytes : m[p].bytes[i] \in Chunk
<1>1. m \in [DOMAIN m -> [bytes: Content, mtime: Time]] /\ m # None /\ DOMAIN m \subseteq Path
      BY ConstantsAssumption
<1>2. m[p].bytes \in Content /\ m[p].mtime \in Time  BY <1>1
<1>3. PICK n \in 0 .. MaxLen : m[p].bytes \in [1 .. n -> Chunk]  BY <1>2 DEF Content
<1>4. m[p].bytes \in Data  BY <1>2, ContentIsData
<1> QED  BY <1>1, <1>2, <1>3, <1>4, DataType

LEMMA NamesDiffer ==
    \A p, q \in Path : /\ Final(p) \in Name /\ Stage(p) \in Name
                       /\ Final(p) # Stage(q)
                       /\ (Final(p) = Final(q) => p = q)
                       /\ (Stage(p) = Stage(q) => p = q)
                       /\ Final(p) # None /\ Stage(p) # None
BY ConstantsAssumption DEF Final, Stage, Name

LEMMA NoOptionType == NoOption \in Options /\ NoOption \in OptionRecord
BY ConstantsAssumption DEF NoOption

\* A session that ends leaves the invariant to the disk alone.
LEMMA EndedIsFine ==
    ASSUME NEW o \in Outcomes, Ended(o),
           fs' \in [Name -> File \union {None}],
           dirty' \in SUBSET Name, recorded' \in Manifests \union {None},
           before' \in SUBSET (Path \X (File \union {None})),
           former' \in SUBSET (Manifests \union {None}),
           \A n \in dirty' : fs'[n] # None,
           VisibleIsDurable'
    PROVE  IInv'
<1> USE DEF Ended
<1>1. TypeOK'
  <2>1. PlanTyped'  BY DEF PlanTyped, NoPlan
  <2>2. opt' \in OptionRecord  BY NoOptionType
  <2>3. replaced' \in [Path -> [Chunk -> Entry]]  BY NoEntryType
  <2>4. handle' \in HandleType  BY OpenAtType DEF HandleType
  <2>5. pending' \in Seq(Path)  OBVIOUS
  <2> QED  BY <2>1, <2>2, <2>3, <2>4, <2>5, NoEntryType DEF TypeOK, Phases, HandleType
<1>2. SessionOK'
  <2>1. \A n \in Name : handle'[n].at = None  BY DEF Closed
  <2> QED  BY <2>1 DEF SessionOK, Busy
<1>3. PendingIsWhole'  BY DEF PendingIsWhole, SeqRange
<1> QED  BY <1>1, <1>2, <1>3 DEF IInv

LEMMA InitIsFine == Init => IInv
<1> SUFFICES ASSUME Init PROVE IInv  OBVIOUS
<1> USE DEF Init
<1>1. fs \in [Name -> File \union {None}]
  <2>1. PICK tree \in Trees :
          fs = [n \in Name |-> IF n[1] = "final" THEN tree[n[2]] ELSE None]
        OBVIOUS
  <2>2. \A p \in Path : tree[p] \in File \union {None}
        BY ConstantsAssumption, ContentIsData DEF File
  <2> QED  BY <2>1, <2>2 DEF Name
<1>2. TypeOK
  <2>1. PlanTyped  BY DEF PlanTyped, NoPlan
  <2>2. opt \in OptionRecord  BY NoOptionType
  <2>3. replaced \in [Path -> [Chunk -> Entry]]  BY NoEntryType
  <2>4. handle \in HandleType  BY OpenAtType DEF HandleType
  <2> QED  BY <1>1, <2>1, <2>2, <2>3, <2>4, NoEntryType
           DEF TypeOK, Phases, Outcomes, HandleType
<1>3. SessionOK
  <2>1. \A n \in Name : handle[n].at = None  BY DEF Closed
  <2> QED  BY <2>1 DEF SessionOK, Busy
<1>4. PendingIsWhole  BY DEF PendingIsWhole, SeqRange
<1>5. VisibleIsDurable  BY DEF VisibleIsDurable
<1> QED  BY <1>2, <1>3, <1>4, <1>5 DEF IInv

\* Plan reads the disk and writes only the session's own state.
LEMMA PlanIsFine ==
    ASSUME IInv, NEW m \in Manifests, NEW o \in Options, Plan(m, o)
    PROVE  IInv'
<1> USE DEF IInv
<1>0. /\ phase = "idle" /\ UNCHANGED <<disk, progress>>
      /\ opt' = o /\ manifest' = m /\ handle' = [n \in Name |-> Closed]
      /\ phase' = "ready" /\ outcome' = "none" /\ replaced' = ReplacedIndexes(m, o)
      BY DEF Plan
<1>m. m # None /\ DOMAIN m \subseteq Path
      BY ConstantsAssumption
<1>d. \A p \in Path : fs[Final(p)] # None =>
         fs[Final(p)].bytes \in Data /\ DOMAIN fs[Final(p)].bytes \subseteq Index
      BY NamesDiffer, DataType DEF TypeOK, File
<1> DEFINE work == DOMAIN m \ Skipped(m, o)
<1>p. PICK failed \in SUBSET Expendable(m, o), pick \in Picks, rank \in Orders(work) :
        /\ global' = IndexOf(HeldBy(m, o, Lasting(m, o, failed)), "final", pick)
        /\ staged' \in (IF o.resume
                          THEN {StagedIndex(m, failed, recut) :
                                  recut \in [Resumable(m) -> SUBSET Index]}
                          ELSE {NoEntry})
        /\ plan' = [work |-> work, rank |-> rank,
                    need |-> [p \in work |-> Need(m, work, rank, p)],
                    deletes |-> IF o.delete THEN Existing \ DOMAIN m ELSE {},
                    unread |-> failed]
      BY DEF Plan
<1>1. global' \in [Chunk -> Entry]
  <2> DEFINE held == HeldBy(m, o, Lasting(m, o, failed))
  <2>2. Lasting(m, o, failed) \subseteq Existing
        BY DEF Lasting, Strays, Skipped, Trusted, Matching
  <2>3. DOMAIN held \subseteq Path  BY <2>2 DEF HeldBy, Existing
  <2>4. ASSUME NEW p \in DOMAIN held PROVE DOMAIN held[p] \subseteq Index
    <3>1. p \in Existing  BY <2>2 DEF HeldBy
    <3>2. p \in Trusted(m, o) => DOMAIN m[p].bytes \subseteq Index
          BY ManifestFacts DEF Trusted
    <3> QED  BY <3>1, <3>2, <1>d DEF HeldBy, Existing
  <2> QED  BY <1>p, <2>3, <2>4, IndexOfType
<1>2. staged' \in [Chunk -> Entry]
  <2>1. CASE ~ o.resume  BY <2>1, <1>p, NoEntryType
  <2>2. CASE o.resume
    <3>1. PICK recut \in [Resumable(m) -> SUBSET Index] :
            staged' = StagedIndex(m, failed, recut)
          BY <2>2, <1>p
    <3> DEFINE held == [p \in {q \in Resumable(m) : Stage(q) \notin failed} |->
               [i \in DOMAIN m[p].bytes |->
                  IF i \in Intact(m, p) \union (recut[p] \cap Correct(m, p))
                    THEN m[p].bytes[i] ELSE None]]
    <3>2. DOMAIN held \subseteq DOMAIN m  BY DEF Resumable
    <3>3. \A p \in DOMAIN held : DOMAIN held[p] \subseteq Index
          BY <3>2, ManifestFacts
    <3>4. DOMAIN held \subseteq Path  BY <3>2, <1>m
    <3>5. IndexOf(held, "stage", ByPath) \in [Chunk -> Entry]
          BY <3>3, <3>4, ConstantsAssumption, IndexOfType
    <3> QED  BY <3>1, <3>5 DEF StagedIndex
  <2> QED  BY <2>1, <2>2
<1>3. replaced' \in [Path -> [Chunk -> Entry]]
  <2> SUFFICES ASSUME NEW p \in Path
               PROVE  ReplacedIndexes(m, o)[p] \in [Chunk -> Entry]
      BY <1>0 DEF ReplacedIndexes
  <2>1. CASE o.atomic = "file" /\ p \in (Existing \cap DOMAIN m) \ Skipped(m, o)
    <3>1. AddFile(NoEntry, Final(p), fs[Final(p)].bytes) \in [Chunk -> Entry]
          BY <2>1, <1>d, NoEntryType, NamesDiffer, AddFileType DEF Existing
    <3> QED  BY <2>1, <3>1 DEF ReplacedIndexes
  <2>2. CASE ~ (o.atomic = "file" /\ p \in (Existing \cap DOMAIN m) \ Skipped(m, o))
        BY <2>2, NoEntryType DEF ReplacedIndexes
  <2> QED  BY <2>1, <2>2
<1>4. /\ PlanTyped' /\ plan'.work \subseteq DOMAIN m
      /\ plan'.deletes \cap DOMAIN m = {} /\ (plan'.deletes # {} => o.delete)
  <2>1. plan' = [work |-> work, rank |-> rank,
                 need |-> [p \in work |-> Need(m, work, rank, p)],
                 deletes |-> IF o.delete THEN Existing \ DOMAIN m ELSE {},
                 unread |-> failed]
        BY <1>p
  <2>2. rank \in [work -> Nat]  BY DEF Orders
  <2>3. \A p \in work : Need(m, work, rank, p) \in SUBSET Chunk
        BY ManifestFacts DEF Need, SeqRange
  <2>4. work \in SUBSET Path  BY <1>m
  <2>5. [p \in work |-> Need(m, work, rank, p)] \in [work -> SUBSET Chunk]  BY <2>3
  <2>6. plan'.work = work /\ plan'.rank = rank
        /\ plan'.need = [p \in work |-> Need(m, work, rank, p)]
        /\ plan'.deletes = (IF o.delete THEN Existing \ DOMAIN m ELSE {})
        /\ plan'.unread = failed
        BY <2>1
  <2>8. failed \in SUBSET Name
        BY <1>m, NamesDiffer DEF Expendable, Existing, Resumable
  <2>7. PlanTyped'
        BY ONLY <2>1, <2>2, <2>4, <2>5, <2>6, <2>8 DEF PlanTyped, Existing
  <2> QED  BY <2>6, <2>7
<1>5. TypeOK'
  <2>1. handle' \in HandleType  BY <1>0, OpenAtType DEF HandleType
  <2>2. opt' \in OptionRecord  BY <1>0, ConstantsAssumption
  <2> QED  BY <1>0, <1>1, <1>2, <1>3, <1>4, <2>1, <2>2
           DEF TypeOK, disk, entries, progress, Phases, Outcomes, HandleType
<1>6. SessionOK'
  <2>1. \A n \in Name : handle'[n].at = None  BY <1>0 DEF Closed
  <2> QED  BY <1>0, <1>m, <1>4, <2>1 DEF SessionOK, Busy, disk, entries, progress, SeqRange
<1>7. PendingIsWhole'
      BY <1>0 DEF SessionOK, PendingIsWhole, SeqRange, progress
<1>8. VisibleIsDurable'  BY <1>0 DEF VisibleIsDurable, disk, entries
<1> QED  BY <1>5, <1>6, <1>7, <1>8

\* What IInv says of a session in progress.
LEMMA SessionFacts ==
    ASSUME IInv, phase # "idle"
    PROVE  /\ manifest \in Manifests /\ manifest # None
           /\ DOMAIN manifest \subseteq Path
           /\ \A p \in DOMAIN manifest :
                /\ Whole(p) \in Data /\ DOMAIN Whole(p) \subseteq Index
                /\ \A i \in DOMAIN Whole(p) : Whole(p)[i] \in Chunk
<1>1. manifest \in Manifests /\ manifest # None
      BY DEF IInv, TypeOK, SessionOK
<1>2. DOMAIN manifest \subseteq Path  BY <1>1, ConstantsAssumption
<1> QED  BY <1>1, <1>2, ManifestFacts DEF Whole

LEMMA BeginFileIsFine ==
    ASSUME IInv, NEW p \in Path, BeginFile(p)
    PROVE  IInv'
<1> USE DEF IInv
<1>0. /\ phase = "ready" /\ p \in plan.work
      /\ phase' = "open" /\ active' = p /\ covered' = {}
      /\ UNCHANGED <<recorded, before, former, opt, manifest, plan, global, staged, replaced,
                     handle, pending, outcome>>
      BY DEF BeginFile, entries, setup, sources
<1>1. p \in DOMAIN manifest  BY <1>0 DEF SessionOK
<1>w. Whole(p)' = Whole(p)  BY <1>0 DEF Whole
<1>2. /\ fs' \in [Name -> File \union {None}] /\ dirty' \in SUBSET Name
      /\ fs'[Stage(p)] # None
      /\ DOMAIN fs'[Stage(p)].bytes = DOMAIN Whole(p)
      /\ \A n \in Name \ {Stage(p)} : fs'[n] = fs[n]
      /\ \A n \in Name : fs[n] # None => fs'[n] # None
      /\ dirty' \subseteq dirty \union {Stage(p)}
  <2>1. CASE Reusable(p)
        BY <2>1 DEF BeginFile, TypeOK, Reusable, Staged
  <2>2. CASE ~ Reusable(p)
    <3> DEFINE b == [i \in DOMAIN Whole(p) |-> Hole]
               f == [bytes |-> b, mtime |-> Now]
    <3>1. fs' = [fs EXCEPT ![Stage(p)] = f] /\ dirty' = dirty \union {Stage(p)}
          BY <2>2 DEF BeginFile
    <3>2. Whole(p) \in Data  BY <1>0, <1>1, SessionFacts
    <3>3. b \in Data  BY <3>2, RewrittenType
    <3>4. f \in File  BY <3>3, ConstantsAssumption DEF File
    <3>5. f # None  BY <3>4, ConstantsAssumption
    <3>6. Stage(p) \in Name  BY NamesDiffer
    <3>7. fs \in [Name -> File \union {None}] /\ dirty \in SUBSET Name  BY DEF TypeOK
    <3>8. fs'[Stage(p)] = f  BY <3>1, <3>6, <3>7
    <3>9. f.bytes = b /\ DOMAIN b = DOMAIN Whole(p)  OBVIOUS
    <3> HIDE DEF b, f
    <3> QED  BY <3>1, <3>4, <3>5, <3>6, <3>7, <3>8, <3>9
  <2> QED  BY <2>1, <2>2
<1>3. TypeOK'
  <2>1. PlanTyped'  BY <1>0 DEF TypeOK, PlanTyped
  <2> QED  BY <1>0, <1>2, <2>1 DEF TypeOK, Phases
<1>4. SessionOK'
      BY <1>0, <1>1, <1>w, <1>2 DEF SessionOK, Busy, TypeOK, Staged, SeqRange
<1>5. VisibleIsDurable'
      BY <1>2, NamesDiffer DEF VisibleIsDurable
<1>6. PendingIsWhole'
  <2> SUFFICES ASSUME NEW q \in SeqRange(pending) \ {p}, fs'[Stage(q)] # None
               PROVE  fs'[Stage(q)].bytes = Whole(q)' /\ Stage(q) \notin dirty'
      BY <1>0 DEF PendingIsWhole, Staged, SeqRange
  <2>1. q \in DOMAIN manifest /\ q \in Path  BY <1>0, SessionFacts DEF SessionOK
  <2>2. Stage(q) # Stage(p)  BY <2>1, NamesDiffer
  <2>3. q # active  BY <1>0, <2>1, SessionFacts, ConstantsAssumption DEF SessionOK, Busy
  <2>4. Whole(q)' = Whole(q)  BY <1>0 DEF Whole
  <2>5. fs'[Stage(q)] = fs[Stage(q)]  BY <1>2, <2>1, <2>2, NamesDiffer
  <2> QED  BY <1>2, <2>2, <2>3, <2>4, <2>5 DEF PendingIsWhole, Staged
<1> QED  BY <1>3, <1>4, <1>5, <1>6

\* WriteAt: places of the active file that hold chunk c get chunk c.
LEMMA WriteIsFine ==
    ASSUME IInv, phase \in {"open", "filling"}, NEW c \in Chunk,
           NEW places, places \subseteq DOMAIN Whole(active),
           \A i \in places : Whole(active)[i] = c,
           Write(places, c),
           UNCHANGED <<entries, setup, global, staged, replaced, phase,
                       active, pending, outcome>>,
           handle' \in HandleType,
           \A n \in Name : handle'[n].at # None => fs[handle'[n].at] # None
    PROVE  IInv'
<1> USE DEF IInv
<1>0. /\ active \in DOMAIN manifest /\ active \in Path
      /\ Staged(active) # None
      /\ DOMAIN Staged(active).bytes = DOMAIN Whole(active)
      BY SessionFacts DEF SessionOK, Busy
<1>w. \A q : Whole(q)' = Whole(q)  BY DEF Whole, setup
<1> DEFINE old == Staged(active)
           b == [i \in DOMAIN old.bytes |-> IF i \in places THEN c ELSE old.bytes[i]]
           f == [old EXCEPT !.bytes = b]
<1>1. Stage(active) \in Name /\ old \in File
      BY <1>0, NamesDiffer DEF TypeOK, Staged
<1>2. fs' = [fs EXCEPT ![Stage(active)] = f] /\ dirty' = dirty \union {Stage(active)}
      /\ covered' = covered \union places
      BY DEF Write, Staged
<1>3. b \in Data
  <2>1. old.bytes \in Data  BY <1>1 DEF File
  <2>2. \A i \in DOMAIN old.bytes : b[i] \in Chunk \union {Hole}
        BY <2>1, DataType
  <2>3. b = [i \in DOMAIN old.bytes |-> b[i]]  OBVIOUS
  <2> HIDE DEF b
  <2> QED  BY <2>1, <2>2, <2>3, RewrittenType
<1>4. f \in File /\ f.bytes = b  BY <1>1, <1>3 DEF File
<1>5. f # None  BY <1>4, ConstantsAssumption
<1>6. DOMAIN b = DOMAIN Whole(active)  BY <1>0
<1>7. \A i \in DOMAIN Whole(active) : b[i] = IF i \in places THEN c ELSE old.bytes[i]
      BY <1>0
<1> HIDE DEF f, b
<1>8. /\ fs' \in [Name -> File \union {None}] /\ fs'[Stage(active)] = f
      /\ \A n \in Name \ {Stage(active)} : fs'[n] = fs[n]
      BY <1>1, <1>2, <1>4 DEF TypeOK
<1>9. covered \subseteq DOMAIN Whole(active)
      /\ \A i \in covered : old.bytes[i] = Whole(active)[i]
      BY DEF SessionOK, Busy
<1>10. TypeOK'
  <2>1. PlanTyped'  BY DEF TypeOK, PlanTyped, setup
  <2>2. covered' \subseteq Index  BY <1>2, <1>9, <1>0, SessionFacts
  <2>3. dirty' \in SUBSET Name  BY <1>1, <1>2 DEF TypeOK
  <2> QED  BY <1>8, <2>1, <2>2, <2>3 DEF TypeOK, entries, setup, HandleType
<1>11. SessionOK'
  <2>1. \A n \in dirty' : fs'[n] # None
        BY <1>1, <1>2, <1>5, <1>8 DEF SessionOK, TypeOK
  <2>2. \A n \in Name : handle'[n].at # None => fs'[handle'[n].at] # None
        BY <1>5, <1>8, ConstantsAssumption DEF HandleType, Name
  <2>3. \A i \in covered' : fs'[Stage(active)].bytes[i] = Whole(active)[i]
        BY <1>2, <1>4, <1>7, <1>8, <1>9
  <2>4. covered' \subseteq DOMAIN Whole(active)  BY <1>2, <1>9
  <2>5. Staged(active)' = f  BY <1>8 DEF Staged
  <2>6. phase' = phase /\ active' = active /\ manifest' = manifest
        /\ plan' = plan /\ opt' = opt /\ pending' = pending
        BY DEF setup
  <2> QED  BY <1>0, <1>w, <1>4, <1>5, <1>6, <1>8, <2>1, <2>2, <2>3, <2>4, <2>5, <2>6
           DEF SessionOK, Busy, SeqRange, Staged
<1>12. VisibleIsDurable'
       BY <1>0, <1>2, NamesDiffer DEF VisibleIsDurable
<1>13. PendingIsWhole'
  <2> SUFFICES ASSUME NEW q \in SeqRange(pending) \ {active}, fs'[Stage(q)] # None
               PROVE  fs'[Stage(q)].bytes = Whole(q) /\ Stage(q) \notin dirty'
      BY <1>w DEF PendingIsWhole, Staged, SeqRange
  <2>1. q \in Path  BY SessionFacts DEF SessionOK
  <2>2. Stage(q) # Stage(active) /\ Stage(q) \in Name  BY <1>0, <2>1, NamesDiffer
  <2> QED  BY <1>2, <1>8, <2>2 DEF PendingIsWhole, Staged
<1> QED  BY <1>10, <1>11, <1>12, <1>13

LEMMA ChunkArrivesIsFine ==
    ASSUME IInv, NEW d \in Chunk, NEW data \in Chunk, ChunkArrives(d, data)
    PROVE  IInv'
<1> DEFINE places == PlacesOf(d) \ covered
<1>1. phase = "open" /\ data = d /\ Write(places, d)
      /\ UNCHANGED <<entries, setup, sources, phase, active, pending, outcome>>
      BY DEF ChunkArrives
<1>2. places \subseteq DOMAIN Whole(active) /\ \A i \in places : Whole(active)[i] = d
      BY DEF PlacesOf
<1>3. handle' \in HandleType /\ handle' = handle  BY <1>1 DEF sources, IInv, TypeOK, HandleType
<1>4. \A n \in Name : handle'[n].at # None => fs[handle'[n].at] # None
      BY <1>1, <1>3 DEF IInv, SessionOK
<1> HIDE DEF places
<1> QED  BY <1>1, <1>2, <1>3, <1>4, WriteIsFine DEF sources

LEMMA FillNextIsFine ==
    ASSUME IInv, FillNext
    PROVE  IInv'
<1>1. PICK i \in Index :
        /\ NextGap(i)
        /\ LET c == Whole(active)[i]
               l == Lookup(active, c)
           IN  /\ FetchFails(l, c) = "no"
               /\ Write({i}, c)
               /\ handle' = IF handle[l.name] = Closed
                              THEN [handle EXCEPT ![l.name] = OpenAt(l.name)]
                              ELSE handle
      BY DEF FillNext
<1> DEFINE c == Whole(active)[i]
           l == Lookup(active, c)
<1>2. phase = "filling" /\ active \in DOMAIN manifest /\ active \in Path
      /\ i \in DOMAIN Whole(active)
      BY <1>1, SessionFacts DEF FillNext, IInv, SessionOK, Busy, NextGap
<1>3. c \in Chunk  BY <1>2, SessionFacts
<1>4. l # None /\ Readable(l.name)  BY <1>1 DEF FetchFails
<1>5. l \in Loc
  <2>1. replaced[active][c] \in Entry /\ staged[c] \in Entry /\ global[c] \in Entry
        BY <1>2, <1>3 DEF IInv, TypeOK
  <2> QED  BY <2>1, <1>4 DEF Lookup, Entry
<1>6. l.name \in Name  BY <1>5 DEF Loc
<1>7. handle' \in HandleType
      BY <1>1, <1>6, OpenAtType DEF IInv, TypeOK, HandleType
<1>8. \A n \in Name : handle'[n].at # None => fs[handle'[n].at] # None
  <2>1. \A n \in Name : handle[n].at # None => fs[handle[n].at] # None
        BY <1>2 DEF IInv, SessionOK
  <2>2. CASE handle[l.name] = Closed
        BY <1>1, <1>4, <1>6, <2>1, <2>2 DEF Readable, OpenAt, IInv, TypeOK
  <2>3. CASE handle[l.name] # Closed  BY <1>1, <2>1, <2>3
  <2> QED  BY <2>2, <2>3
<1>9. Write({i}, c)  BY <1>1
<1>10. UNCHANGED <<entries, setup, global, staged, replaced, phase, active,
                   pending, outcome>>
       BY DEF FillNext
<1> HIDE DEF c, l
<1>11. \A j \in {i} : Whole(active)[j] = c  BY DEF c
<1> QED  BY <1>2, <1>3, <1>7, <1>8, <1>9, <1>10, <1>11, WriteIsFine

\* Steps that move the session along and leave files and indexes alone.
LEMMA EndFileIsFine ==
    ASSUME IInv, EndFile
    PROVE  IInv'
<1> USE DEF IInv, EndFile, disk, entries, setup, sources, progress
<1>1. TypeOK'
  <2>1. PlanTyped'  BY DEF TypeOK, PlanTyped
  <2> QED  BY <2>1 DEF TypeOK, Phases
<1>2. SessionOK'  BY DEF SessionOK, Busy, Staged, Whole, SeqRange
<1>3. VisibleIsDurable' /\ PendingIsWhole'
      BY DEF VisibleIsDurable, PendingIsWhole, Staged, Whole, SeqRange
<1> QED  BY <1>1, <1>2, <1>3

LEMMA FinishIsFine ==
    ASSUME IInv, Finish
    PROVE  IInv'
<1> USE DEF IInv, Finish, disk, entries, setup, sources, progress
<1>1. TypeOK'
  <2>1. PlanTyped'  BY DEF TypeOK, PlanTyped
  <2> QED  BY <2>1 DEF TypeOK, Phases
<1>2. SessionOK'  BY DEF SessionOK, Busy, Staged, Whole, SeqRange
<1>3. VisibleIsDurable' /\ PendingIsWhole'
      BY DEF VisibleIsDurable, PendingIsWhole, Staged, Whole, SeqRange
<1> QED  BY <1>1, <1>2, <1>3

LEMMA SealIsFine ==
    ASSUME IInv, Seal
    PROVE  IInv'
<1> USE DEF IInv, Seal, entries, setup, sources, progress
<1>1. TypeOK'
  <2>1. PlanTyped'  BY DEF TypeOK, PlanTyped
  <2> QED  BY <2>1 DEF TypeOK, Phases
<1>2. SessionOK'  BY DEF SessionOK, Busy, Staged, Whole, SeqRange
<1>3. VisibleIsDurable' /\ PendingIsWhole'
      BY DEF VisibleIsDurable, PendingIsWhole, Staged, Whole, SeqRange
<1> QED  BY <1>1, <1>2, <1>3

\* The active file, once sealed, is the manifest's file.
LEMMA SealedIsWhole ==
    ASSUME IInv, phase = "sealed"
    PROVE  /\ active \in DOMAIN manifest /\ active \in Path
           /\ Staged(active) # None /\ Staged(active).bytes = Whole(active)
           /\ Stage(active) \notin dirty
<1>1. /\ active \in DOMAIN manifest /\ active \in Path
      /\ Staged(active) # None
      /\ DOMAIN Staged(active).bytes = DOMAIN Whole(active)
      /\ \A i \in DOMAIN Whole(active) : Staged(active).bytes[i] = Whole(active)[i]
      /\ Stage(active) \notin dirty
      BY SessionFacts DEF IInv, SessionOK, Busy
<1>2. Staged(active) \in File  BY <1>1, NamesDiffer DEF IInv, TypeOK, Staged
<1>3. Staged(active).bytes \in [DOMAIN Whole(active) -> Chunk \union {Hole}]
      BY <1>1, <1>2, DataType DEF File
<1>4. Whole(active) \in [DOMAIN Whole(active) -> Chunk \union {Hole}]
      BY <1>1, SessionFacts, DataType
<1> QED  BY <1>1, <1>3, <1>4

\* What may come back is a file that was there, or no file.
LEMMA BeforeType ==
    ASSUME TypeOK, NEW p \in Path, Settled(p) \/ Unsettled(p)
    PROVE  before' \in SUBSET (Path \X (File \union {None}))
<1>1. fs[Final(p)] \in File \union {None}  BY NamesDiffer DEF TypeOK
<1>2. <<p, fs[Final(p)]>> \in Path \X (File \union {None})  BY <1>1
<1> QED  BY <1>2 DEF TypeOK, Settled, Unsettled

\* commit renames a complete, synced staging file: the disk stays sound.
LEMMA CommitIsFine ==
    ASSUME IInv, phase # "idle", NEW p \in DOMAIN manifest, Commit(p),
           Stage(p) \notin dirty,
           \A n \in Name : handle[n].at # None => fs[handle[n].at] # None
    PROVE  /\ fs' \in [Name -> File \union {None}]
           /\ dirty' \subseteq dirty /\ handle' \in HandleType
           /\ \A n \in dirty' : fs'[n] # None
           /\ VisibleIsDurable'
           /\ \A n \in Name : handle'[n].at # None => fs'[handle'[n].at] # None
           /\ fs'[Final(p)] # None /\ fs'[Final(p)].bytes = Staged(p).bytes
           /\ fs'[Stage(p)] = None
           /\ \A n \in Name \ {Final(p), Stage(p)} : fs'[n] = fs[n]
           /\ before' \in SUBSET (Path \X (File \union {None}))
<1> USE DEF IInv
<1> DEFINE f == [bytes |-> Staged(p).bytes,
                 mtime |-> IF opt.preserve THEN manifest[p].mtime ELSE Now]
           h == [handle EXCEPT ![Final(p)] = Closed]
<1>1. p \in Path /\ manifest[p].mtime \in Time  BY SessionFacts, ManifestFacts
<1>2. /\ Staged(p) # None
      /\ fs' = [fs EXCEPT ![Final(p)] = f, ![Stage(p)] = None]
      /\ dirty' = dirty \ {Stage(p), Final(p)}
      /\ handle' = Renamed(h, Stage(p), Final(p))
      BY DEF Commit
<1>3. Final(p) \in Name /\ Stage(p) \in Name /\ Final(p) # Stage(p)
      BY <1>1, NamesDiffer
<1>4. f \in File /\ f # None
  <2>1. Staged(p).bytes \in Data  BY <1>2, <1>3 DEF TypeOK, Staged, File
  <2>2. f \in File  BY <1>1, <2>1, ConstantsAssumption DEF File
  <2> QED  BY <2>2, ConstantsAssumption
<1>5. f.bytes = Staged(p).bytes  OBVIOUS
<1> HIDE DEF f
<1>6. /\ fs' \in [Name -> File \union {None}]
      /\ fs'[Final(p)] = f /\ fs'[Stage(p)] = None
      /\ \A n \in Name \ {Final(p), Stage(p)} : fs'[n] = fs[n]
      BY <1>2, <1>3, <1>4 DEF TypeOK
<1>7. \A n \in dirty' : fs'[n] # None
      BY <1>2, <1>6 DEF SessionOK, TypeOK
<1>8. VisibleIsDurable'  BY <1>2 DEF VisibleIsDurable
<1>9. h \in HandleType  BY <1>3, OpenAtType DEF TypeOK, HandleType
<1>10. \A n \in Name : h[n].at # None => fs[h[n].at] # None
       BY <1>3 DEF TypeOK, Closed
<1>11. handle' \in HandleType
  <2>1. \A n \in Name : h[n] # Closed /\ h[n].at = Final(p) => fs[Final(p)] # None
        BY <1>10, <1>1, NamesDiffer
  <2> HIDE DEF h
  <2> QED  BY <1>2, <1>3, <1>9, <2>1, RenamedType DEF TypeOK
<1>12. ASSUME NEW n \in Name, handle'[n].at # None
       PROVE  fs'[handle'[n].at] # None
  <2> HIDE DEF h
  <2>1. handle'[n] = IF h[n] # Closed /\ h[n].at = Final(p)
                       THEN [at |-> None, kept |-> fs[Final(p)].bytes]
                     ELSE IF h[n] # Closed /\ h[n].at = Stage(p) THEN OpenAt(Final(p))
                     ELSE h[n]
        BY <1>2 DEF Renamed
  <2>2. CASE h[n] # Closed /\ h[n].at = Final(p)
        BY <2>1, <2>2, <1>12
  <2>3. CASE h[n] # Closed /\ h[n].at = Stage(p) /\ h[n].at # Final(p)
        BY <2>1, <2>3, <1>4, <1>6 DEF OpenAt
  <2>4. CASE ~ (h[n] # Closed /\ h[n].at \in {Final(p), Stage(p)})
    <3>1. handle'[n] = h[n]  BY <2>1, <2>4
    <3>2. h[n] # Closed  BY <3>1, <1>12 DEF Closed
    <3>3. h[n].at \in Name \ {Final(p), Stage(p)}
          BY <2>4, <3>1, <3>2, <1>9, <1>12 DEF HandleType
    <3> QED  BY <3>1, <3>3, <1>6, <1>10, <1>12
  <2> QED  BY <2>2, <2>3, <2>4
<1>13. before' \in SUBSET (Path \X (File \union {None}))
       BY <1>1, <1>3, BeforeType DEF Commit
<1> QED  BY <1>2, <1>4, <1>5, <1>6, <1>7, <1>8, <1>11, <1>12, <1>13

LEMMA IndexFileType ==
    ASSUME IInv, phase # "idle", NEW p \in DOMAIN manifest, NEW n \in Name,
           IndexFile(n, p)
    PROVE  global' \in [Chunk -> Entry] /\ replaced' \in [Path -> [Chunk -> Entry]]
<1>1. DropPath(global, Final(p)) \in [Chunk -> Entry]
      BY DropPathType DEF IInv, TypeOK
<1>2. DOMAIN Whole(p) \subseteq Index  BY SessionFacts
<1>3. AddFile(DropPath(global, Final(p)), n, Whole(p)) \in [Chunk -> Entry]
      BY <1>1, <1>2, AddFileType
<1> QED  BY <1>3, NoEntryType DEF IndexFile, IInv, TypeOK

LEMMA InstallIsFine ==
    ASSUME IInv, Install
    PROVE  IInv'
<1> USE DEF IInv
<1>0. /\ phase = "sealed" /\ Commit(active) /\ IndexFile(Final(active), active)
      /\ phase' = "ready" /\ active' = None /\ covered' = {}
      /\ UNCHANGED <<recorded, former, opt, manifest, plan, staged, pending, outcome>>
      BY DEF Install, setup
<1>1. active \in DOMAIN manifest /\ active \in Path /\ Stage(active) \notin dirty
      BY <1>0, SealedIsWhole
<1>2. \A n \in Name : handle[n].at # None => fs[handle[n].at] # None
      BY <1>0 DEF SessionOK
<1>3. /\ fs' \in [Name -> File \union {None}]
      /\ dirty' \subseteq dirty /\ handle' \in HandleType
      /\ \A n \in dirty' : fs'[n] # None
      /\ VisibleIsDurable'
      /\ \A n \in Name : handle'[n].at # None => fs'[handle'[n].at] # None
      /\ fs'[Stage(active)] = None
      /\ \A n \in Name \ {Final(active), Stage(active)} : fs'[n] = fs[n]
      /\ before' \in SUBSET (Path \X (File \union {None}))
      BY <1>0, <1>1, <1>2, CommitIsFine
<1>4. global' \in [Chunk -> Entry] /\ replaced' \in [Path -> [Chunk -> Entry]]
      BY <1>0, <1>1, NamesDiffer, IndexFileType
<1>5. TypeOK'
  <2>1. PlanTyped'  BY <1>0 DEF TypeOK, PlanTyped
  <2> QED  BY <1>0, <1>3, <1>4, <2>1 DEF TypeOK, Phases, HandleType
<1>6. SessionOK'
      BY <1>0, <1>3 DEF SessionOK, Busy, SeqRange
<1>7. PendingIsWhole'
  <2> SUFFICES ASSUME NEW q \in SeqRange(pending), fs'[Stage(q)] # None
               PROVE  fs'[Stage(q)].bytes = Whole(q) /\ Stage(q) \notin dirty'
      BY <1>0 DEF PendingIsWhole, Staged, Whole, SeqRange
  <2>1. q \in Path  BY <1>0, SessionFacts DEF SessionOK
  <2>2. q # active  BY <1>3
  <2>3. Stage(q) \in Name \ {Final(active), Stage(active)}
        BY <1>1, <2>1, <2>2, NamesDiffer
  <2> QED  BY <1>3, <2>2, <2>3 DEF PendingIsWhole, Staged
<1> QED  BY <1>3, <1>5, <1>6, <1>7

LEMMA AppendRange ==
    ASSUME NEW S, NEW s \in Seq(S), NEW e \in S
    PROVE  Append(s, e) \in Seq(S) /\ SeqRange(Append(s, e)) = SeqRange(s) \union {e}
<1>1. Append(s, e) \in Seq(S) /\ DOMAIN Append(s, e) = 1 .. Len(s) + 1
      /\ DOMAIN s = 1 .. Len(s) /\ Len(s) \in Nat
      OBVIOUS
<1>2. \A i \in 1 .. Len(s) : Append(s, e)[i] = s[i]  OBVIOUS
<1>3. Append(s, e)[Len(s) + 1] = e  OBVIOUS
<1>4. 1 .. Len(s) + 1 = (1 .. Len(s)) \union {Len(s) + 1}  BY <1>1
<1> QED  BY <1>1, <1>2, <1>3, <1>4 DEF SeqRange

LEMMA TailRange ==
    ASSUME NEW S, NEW s \in Seq(S), s # <<>>
    PROVE  /\ Head(s) \in SeqRange(s) /\ Tail(s) \in Seq(S)
           /\ SeqRange(Tail(s)) \subseteq SeqRange(s)
<1>1. DOMAIN s = 1 .. Len(s) /\ Len(s) \in Nat /\ Len(s) > 0  OBVIOUS
<1>2. Tail(s) \in Seq(S) /\ DOMAIN Tail(s) = 1 .. Len(s) - 1
      /\ \A i \in 1 .. Len(s) - 1 : Tail(s)[i] = s[i + 1]
      BY <1>1
<1>3. Head(s) = s[1] /\ 1 \in DOMAIN s  BY <1>1
<1>4. \A i \in DOMAIN Tail(s) : i + 1 \in DOMAIN s  BY <1>1, <1>2
<1> QED  BY <1>2, <1>3, <1>4 DEF SeqRange

LEMMA HoldIsFine ==
    ASSUME IInv, Hold
    PROVE  IInv'
<1> USE DEF IInv
<1>0. /\ phase = "sealed" /\ IndexFile(Stage(active), active)
      /\ pending' = Append(pending, active)
      /\ phase' = "ready" /\ active' = None /\ covered' = {}
      /\ UNCHANGED <<fs, dirty, recorded, before, former, opt, manifest, plan, staged, handle, outcome>>
      BY DEF Hold, disk, entries, setup
<1>1. /\ active \in DOMAIN manifest /\ active \in Path
      /\ Staged(active).bytes = Whole(active) /\ Stage(active) \notin dirty
      BY <1>0, SealedIsWhole
<1>2. global' \in [Chunk -> Entry] /\ replaced' \in [Path -> [Chunk -> Entry]]
      BY <1>0, <1>1, NamesDiffer, IndexFileType
<1>3. pending' \in Seq(Path) /\ SeqRange(pending') = SeqRange(pending) \union {active}
      BY <1>0, <1>1, AppendRange DEF TypeOK
<1>4. TypeOK'
  <2>1. PlanTyped'  BY <1>0 DEF TypeOK, PlanTyped
  <2> QED  BY <1>0, <1>2, <1>3, <2>1 DEF TypeOK, Phases
<1>5. SessionOK'  BY <1>0, <1>1, <1>3 DEF SessionOK, Busy
<1>6. VisibleIsDurable'  BY <1>0 DEF VisibleIsDurable
<1>7. PendingIsWhole'
      BY <1>0, <1>1, <1>3 DEF PendingIsWhole, Staged, Whole
<1> QED  BY <1>4, <1>5, <1>6, <1>7

\* Finish renames a file that was held back: it is complete and synced.
LEMMA HeldIsWhole ==
    ASSUME IInv, CommitPending
    PROVE  LET p == Head(pending)
           IN  /\ p \in DOMAIN manifest /\ p \in Path /\ Commit(p)
               /\ Staged(p).bytes = Whole(p) /\ Stage(p) \notin dirty
<1> USE DEF IInv
<1>1. phase = "finishing" /\ pending # <<>> /\ Commit(Head(pending))
      BY DEF CommitPending
<1>2. Head(pending) \in SeqRange(pending)  BY <1>1, TailRange DEF TypeOK
<1>3. Head(pending) \in DOMAIN manifest /\ Head(pending) \in Path /\ active = None
      BY <1>1, <1>2, SessionFacts DEF SessionOK, Busy
<1>4. Head(pending) # active /\ Staged(Head(pending)) # None
      BY <1>1, <1>3, ConstantsAssumption DEF Commit
<1> QED  BY <1>1, <1>2, <1>3, <1>4 DEF PendingIsWhole

LEMMA CommitPendingIsFine ==
    ASSUME IInv, CommitPending
    PROVE  IInv'
<1> USE DEF IInv
<1> DEFINE p == Head(pending)
<1>0. /\ phase = "finishing" /\ pending # <<>> /\ pending' = Tail(pending)
      /\ UNCHANGED <<recorded, former, opt, manifest, plan, global, staged, replaced,
                     phase, active, covered, outcome>>
      BY DEF CommitPending, setup
<1>1. p \in DOMAIN manifest /\ p \in Path /\ Commit(p) /\ Stage(p) \notin dirty
      BY HeldIsWhole
<1>2. \A n \in Name : handle[n].at # None => fs[handle[n].at] # None
      BY <1>0 DEF SessionOK
<1> HIDE DEF p
<1>3. /\ fs' \in [Name -> File \union {None}]
      /\ dirty' \subseteq dirty /\ handle' \in HandleType
      /\ \A n \in dirty' : fs'[n] # None
      /\ VisibleIsDurable'
      /\ \A n \in Name : handle'[n].at # None => fs'[handle'[n].at] # None
      /\ fs'[Stage(p)] = None
      /\ \A n \in Name \ {Final(p), Stage(p)} : fs'[n] = fs[n]
      /\ before' \in SUBSET (Path \X (File \union {None}))
      BY <1>0, <1>1, <1>2, CommitIsFine
<1>4. pending' \in Seq(Path) /\ SeqRange(pending') \subseteq SeqRange(pending)
      BY <1>0, TailRange DEF TypeOK
<1>5. TypeOK'
  <2>1. PlanTyped'  BY <1>0 DEF TypeOK, PlanTyped
  <2> QED  BY <1>0, <1>3, <1>4, <2>1 DEF TypeOK, HandleType
<1>6. SessionOK'
      BY <1>0, <1>3, <1>4 DEF SessionOK, Busy
<1>7. PendingIsWhole'
  <2> SUFFICES ASSUME NEW q \in SeqRange(pending) \ {active}, fs'[Stage(q)] # None
               PROVE  fs'[Stage(q)].bytes = Whole(q) /\ Stage(q) \notin dirty'
      BY <1>0, <1>4 DEF PendingIsWhole, Staged, Whole
  <2>1. q \in Path  BY <1>0, SessionFacts DEF SessionOK
  <2>2. Stage(q) \in Name \ {Final(p), Stage(p)}
        BY <1>1, <1>3, <2>1, NamesDiffer
  <2> QED  BY <1>3, <2>2 DEF PendingIsWhole, Staged
<1> QED  BY <1>3, <1>5, <1>6, <1>7

LEMMA DeleteNextIsFine ==
    ASSUME IInv, DeleteNext
    PROVE  IInv'
<1> USE DEF IInv
<1>1. PICK p \in plan.deletes :
        /\ plan' = [plan EXCEPT !.deletes = @ \ {p}]
        /\ handle' = [handle EXCEPT ![Final(p)] = Closed]
        /\ fs' \in {fs, [fs EXCEPT ![Final(p)] = None]}
        /\ before' = before \/ Settled(p) \/ Unsettled(p)
      BY DEF DeleteNext, Delete
<1>0. /\ phase = "finishing" /\ pending = <<>>
      /\ UNCHANGED <<dirty, recorded, former, opt, manifest, global, staged, replaced,
                     phase, active, covered, pending, outcome>>
      BY DEF DeleteNext, progress
<1>2. p \in Path /\ Final(p) \in Name /\ Final(p) \notin dirty
      BY NamesDiffer DEF TypeOK, PlanTyped, VisibleIsDurable
<1>3. fs' \in [Name -> File \union {None}] /\ \A n \in dirty : fs'[n] = fs[n]
      BY <1>1, <1>2 DEF TypeOK
<1>4. handle' \in HandleType  BY <1>1, <1>2, OpenAtType DEF TypeOK, HandleType
<1>5. PlanTyped' /\ plan'.work = plan.work /\ plan'.deletes \subseteq plan.deletes
  <2>1. plan = [work |-> plan.work, rank |-> plan.rank, need |-> plan.need,
                deletes |-> plan.deletes, unread |-> plan.unread]
        BY DEF TypeOK, PlanTyped
  <2>2. plan' = [work |-> plan.work, rank |-> plan.rank, need |-> plan.need,
                 deletes |-> plan.deletes \ {p}, unread |-> plan.unread]
        BY <1>1, <2>1
  <2> QED  BY <2>2 DEF TypeOK, PlanTyped
<1>9. before' \in SUBSET (Path \X (File \union {None}))
      BY <1>1, <1>2, BeforeType DEF TypeOK
<1>6. TypeOK'  BY <1>0, <1>3, <1>4, <1>5, <1>9 DEF TypeOK, HandleType
<1>7. SessionOK'  BY <1>0, <1>3, <1>5 DEF SessionOK, Busy
<1>8. VisibleIsDurable' /\ PendingIsWhole'
      BY <1>0 DEF VisibleIsDurable, PendingIsWhole, SeqRange
<1> QED  BY <1>6, <1>7, <1>8

LEMMA SaveManifestIsFine ==
    ASSUME IInv, SaveManifest
    PROVE  IInv'
<1>1. phase = "finishing" /\ recorded' = manifest /\ Ended("ok")
      /\ former' \in {{}, former \union {recorded}}
      /\ UNCHANGED <<fs, dirty, before>>
      BY DEF SaveManifest
<1>2. manifest \in Manifests  BY <1>1, SessionFacts
<1> QED  BY <1>1, <1>2, EndedIsFine
         DEF IInv, TypeOK, SessionOK, VisibleIsDurable, Outcomes

LEMMA FillFailsIsFine ==
    ASSUME IInv, FillFails
    PROVE  IInv'
<1>1. PICK i \in Index :
        LET why == FetchFails(Lookup(active, Whole(active)[i]), Whole(active)[i])
        IN  why # "no" /\ Ended(why)
      BY DEF FillFails
<1> DEFINE why == FetchFails(Lookup(active, Whole(active)[i]), Whole(active)[i])
<1>2. why \in Outcomes /\ Ended(why)  BY <1>1 DEF FetchFails, Outcomes
<1>3. UNCHANGED <<fs, dirty, recorded, before, former>>  BY DEF FillFails, disk, entries
<1> HIDE DEF why
<1> QED  BY <1>2, <1>3, EndedIsFine DEF IInv, TypeOK, SessionOK, VisibleIsDurable

LEMMA AbortIsFine ==
    ASSUME IInv, Abort
    PROVE  IInv'
BY EndedIsFine DEF Abort, disk, entries, IInv, TypeOK, SessionOK, VisibleIsDurable, Outcomes

\* What is left of a file is a file.
LEMMA TornType ==
    ASSUME IInv, NEW n \in Name, NEW kept, n \notin dirty \/ kept[n] \subseteq Index
    PROVE  Torn(n, kept) \in File \union {None}
<1> USE DEF IInv
<1>1. CASE n \notin dirty  BY <1>1 DEF TypeOK, Torn
<1>2. CASE n \in dirty
  <2> DEFINE old == fs[n].bytes
             b == [i \in DOMAIN old |-> IF i \in kept[n] THEN old[i] ELSE Hole]
  <2>1. fs[n] \in File  BY <1>2 DEF TypeOK, SessionOK
  <2>2. old \in Data /\ \A i \in DOMAIN old : b[i] \in Chunk \union {Hole}
        BY <2>1, DataType DEF File
  <2>3. b = [i \in DOMAIN old |-> b[i]]  OBVIOUS
  <2>4. Torn(n, kept) = [fs[n] EXCEPT !.bytes = b]  BY <1>2 DEF Torn
  <2> HIDE DEF b
  <2>5. b \in Data  BY <2>2, <2>3, RewrittenType
  <2> QED  BY <2>1, <2>4, <2>5 DEF File
<1> QED  BY <1>1, <1>2

\* Every name then stands for nothing, for a file it stood for before, or for
\* what is left of its own.
LEMMA AfterPowerLoss ==
    ASSUME IInv, PowerLoss
    PROVE  /\ fs' \in [Name -> File \union {None}]
           /\ \A p \in Path : fs'[Final(p)] # fs[Final(p)] =>
                <<p, fs'[Final(p)]>> \in before
<1> USE DEF IInv
<1>0. PICK lost \in SUBSET Path, gone \in SUBSET before :
        \E kept \in [dirty \ {Stage(p) : p \in lost} -> SUBSET Index] :
         fs' = [n \in Name |->
                 LET old == Undone(n[2], gone)
                 IN  CASE n[1] = "final" /\ old # {} -> CHOOSE f \in old : TRUE
                       [] n[1] = "stage" /\ fs[n] # None /\ n[2] \in lost -> None
                       [] n[1] = "stage" /\ fs[n] = None /\ old # {} -> fs[Final(n[2])]
                       [] OTHER -> Torn(n, kept)]
      BY DEF PowerLoss
<1>1. PICK kept \in [dirty \ {Stage(p) : p \in lost} -> SUBSET Index] :
         fs' = [n \in Name |->
                 LET old == Undone(n[2], gone)
                 IN  CASE n[1] = "final" /\ old # {} -> CHOOSE f \in old : TRUE
                       [] n[1] = "stage" /\ fs[n] # None /\ n[2] \in lost -> None
                       [] n[1] = "stage" /\ fs[n] = None /\ old # {} -> fs[Final(n[2])]
                       [] OTHER -> Torn(n, kept)]
      BY <1>0
<1>2. \A p \in Path : Undone(p, gone) # {} =>
         LET f == CHOOSE f \in Undone(p, gone) : TRUE
         IN  <<p, f>> \in before /\ f \in File \union {None}
  <2> SUFFICES ASSUME NEW p \in Path, Undone(p, gone) # {}
               PROVE  LET f == CHOOSE f \in Undone(p, gone) : TRUE
                      IN  <<p, f>> \in before /\ f \in File \union {None}
      OBVIOUS
  <2> DEFINE f == CHOOSE f \in Undone(p, gone) : TRUE
  <2>1. f \in Undone(p, gone)  OBVIOUS
  <2>2. PICK e \in gone : e[1] = p /\ f = e[2]  BY <2>1 DEF Undone
  <2>3. e \in before /\ e \in Path \X (File \union {None})  BY <2>2 DEF TypeOK
  <2>4. e = <<e[1], e[2]>> /\ e[2] \in File \union {None}  BY <2>3
  <2> QED  BY <2>2, <2>3, <2>4
<1>3. \A p \in Path :
        /\ Final(p)[1] = "final" /\ Final(p)[2] = p
        /\ Stage(p)[1] = "stage" /\ Stage(p)[2] = p
      BY DEF Final, Stage
<1>4. \A n \in Name : \E p \in Path : n = Final(p) \/ n = Stage(p)
      BY DEF Name, Final, Stage
<1>5. ASSUME NEW p \in Path
      PROVE  fs'[Final(p)] = IF Undone(p, gone) # {}
                               THEN CHOOSE f \in Undone(p, gone) : TRUE ELSE fs[Final(p)]
  <2>1. Final(p) \in Name /\ Final(p) \notin dirty
        BY NamesDiffer DEF VisibleIsDurable
  <2>2. Torn(Final(p), kept) = fs[Final(p)]  BY <2>1 DEF Torn
  <2>3. CASE Undone(p, gone) # {}
    <3> DEFINE old == Undone(p, gone)
    <3> HIDE DEF old
    <3>1. old = Undone(Final(p)[2], gone)  BY <1>3 DEF old
    <3>2. fs'[Final(p)] = CHOOSE f \in old : TRUE
          BY <1>1, <1>3, <2>1, <2>3, <3>1 DEF old
    <3> QED  BY <2>3, <3>2 DEF old
  <2>4. CASE Undone(p, gone) = {}
        BY <1>1, <1>3, <2>1, <2>2, <2>4
  <2> QED  BY <2>3, <2>4
<1>6. ASSUME NEW p \in Path
      PROVE  \/ fs'[Stage(p)] \in {None, fs[Final(p)]}
             \/ /\ fs'[Stage(p)] = Torn(Stage(p), kept)
                /\ fs[Stage(p)] = None \/ p \notin lost
  <2>1. Stage(p) \in Name  BY NamesDiffer
  <2> QED  BY <1>1, <1>3, <2>1
<1>7. ASSUME NEW n \in Name PROVE fs'[n] \in File \union {None}
  <2>1. PICK p \in Path : n = Final(p) \/ n = Stage(p)  BY <1>4
  <2>2. fs[Final(p)] \in File \union {None}  BY NamesDiffer DEF TypeOK
  <2>3. CASE n = Final(p)  BY <2>2, <2>3, <1>2, <1>5
  <2>4. CASE n = Stage(p)
    <3>1. ASSUME fs[Stage(p)] = None \/ p \notin lost, Stage(p) \in dirty
          PROVE  kept[Stage(p)] \subseteq Index
      <4>1. p \notin lost  BY <3>1 DEF SessionOK
      <4>2. Stage(p) \notin {Stage(q) : q \in lost}  BY <4>1, NamesDiffer
      <4> QED  BY <3>1, <4>2
    <3>2. ASSUME fs[Stage(p)] = None \/ p \notin lost
          PROVE  Torn(Stage(p), kept) \in File \union {None}
      <4>1. Stage(p) \notin dirty \/ kept[Stage(p)] \subseteq Index  BY <3>1, <3>2
      <4>2. Stage(p) \in Name  BY NamesDiffer
      <4> HIDE DEF IInv
      <4> QED  BY <4>1, <4>2, TornType
    <3> QED  BY <2>2, <2>4, <3>2, <1>6
  <2> QED  BY <2>1, <2>3, <2>4
<1> QED  BY <1>1, <1>2, <1>5, <1>7

\* Power is lost: unsynced staging files lose places, visible files do not.
LEMMA PowerLossIsFine ==
    ASSUME IInv, PowerLoss
    PROVE  IInv'
<1>1. /\ dirty' = {} /\ Ended("aborted") /\ recorded' \in {recorded} \union former
      /\ before' = {} /\ former' = {}
      BY DEF PowerLoss
<1>2. fs' \in [Name -> File \union {None}]  BY AfterPowerLoss
<1>3. VisibleIsDurable'  BY <1>1 DEF VisibleIsDurable
<1>4. recorded' \in Manifests \union {None}  BY <1>1 DEF IInv, TypeOK
<1> QED  BY <1>1, <1>2, <1>3, <1>4, EndedIsFine DEF Outcomes

LEMMA StepIsFine ==
    ASSUME IInv, [Next]_vars
    PROVE  IInv'
<1>1. ASSUME NEW m \in Manifests, NEW o \in Options, Plan(m, o) PROVE IInv'
      BY <1>1, PlanIsFine
<1>2. ASSUME NEW p \in Path, BeginFile(p) PROVE IInv'
      BY <1>2, BeginFileIsFine
<1>3. ASSUME NEW d \in Chunk, NEW data \in Chunk, ChunkArrives(d, data) PROVE IInv'
      BY <1>3, ChunkArrivesIsFine
<1>4. CASE EndFile  BY <1>4, EndFileIsFine
<1>5. CASE FillNext  BY <1>5, FillNextIsFine
<1>6. CASE FillFails  BY <1>6, FillFailsIsFine
<1>7. CASE Seal  BY <1>7, SealIsFine
<1>8. CASE Install  BY <1>8, InstallIsFine
<1>9. CASE Hold  BY <1>9, HoldIsFine
<1>10. CASE Finish  BY <1>10, FinishIsFine
<1>11. CASE CommitPending  BY <1>11, CommitPendingIsFine
<1>12. CASE DeleteNext  BY <1>12, DeleteNextIsFine
<1>13. CASE SaveManifest  BY <1>13, SaveManifestIsFine
<1>14. CASE Abort  BY <1>14, AbortIsFine
<1>15. CASE PowerLoss  BY <1>15, PowerLossIsFine
<1>16. CASE UNCHANGED vars
  <2>1. UNCHANGED <<fs, dirty, recorded, before, former, opt, manifest, plan, global, staged, replaced,
                    handle, phase, active, covered, pending, outcome>>
        BY <1>16 DEF vars, disk, entries, setup, sources, progress
  <2>2. TypeOK'  BY <2>1 DEF IInv, TypeOK, PlanTyped
  <2>3. SessionOK'  BY <2>1 DEF IInv, SessionOK, SeqRange, Staged, Whole
  <2>4. VisibleIsDurable' /\ PendingIsWhole'
        BY <2>1 DEF IInv, VisibleIsDurable, PendingIsWhole, SeqRange, Staged, Whole
  <2> QED  BY <2>2, <2>3, <2>4 DEF IInv
<1> QED  BY <1>1, <1>2, <1>3, <1>4, <1>5, <1>6, <1>7, <1>8, <1>9, <1>10, <1>11,
            <1>12, <1>13, <1>14, <1>15, <1>16 DEF Next

\* The invariant holds in every state of every behaviour of a Receiver,
\* whatever its caller asks and wherever it is interrupted.
THEOREM Invariance == Spec => []IInv
<1>1. Init => IInv  BY InitIsFine
<1>2. IInv /\ [Next]_vars => IInv'  BY StepIsFine
<1> QED  BY <1>1, <1>2, PTL DEF Spec

\* Type correctness of the receiver's state (Receiver struct, receiver.go:129).
THEOREM TypeCorrectness == Spec => []TypeOK
<1>1. IInv => TypeOK  BY DEF IInv
<1> QED  BY <1>1, Invariance, PTL

\* Every visible file is on stable storage (Sync before rename, receiver.go:340).
THEOREM VisibleDurability == Spec => []VisibleIsDurable
<1>1. IInv => VisibleIsDurable  BY DEF IInv
<1> QED  BY <1>1, Invariance, PTL

\* What AtomicModel holds back for Finish is complete (receiver.go:367, 477).
THEOREM PendingWholeness == Spec => []PendingIsWhole
<1>1. IInv => PendingIsWhole  BY DEF IInv
<1> QED  BY <1>1, Invariance, PTL

-----------------------------------------------------------------------------
(* What a step may do to the files a loader can see.                       *)

SoundReplacement ==
    \A p \in Path :
         fs'[Final(p)] # fs[Final(p)] =>
           \/ /\ manifest # None /\ p \in DOMAIN manifest
              /\ fs'[Final(p)] # None /\ fs'[Final(p)].bytes = Whole(p)
           \/ /\ manifest # None /\ p \notin DOMAIN manifest
              /\ fs'[Final(p)] = None /\ opt.delete
           \/ <<p, fs'[Final(p)]>> \in before /\ phase' = "idle"

\* A commit of a complete staging file touches its own final name only.
LEMMA CommitReplacesSoundly ==
    ASSUME IInv, phase \in {"sealed", "finishing"}, NEW p \in DOMAIN manifest,
           Commit(p), Stage(p) \notin dirty, Staged(p).bytes = Whole(p),
           phase = "finishing" => pending # <<>>
    PROVE  SoundReplacement
<1>1. \A n \in Name : handle[n].at # None => fs[handle[n].at] # None
      BY DEF IInv, SessionOK
<1>2. /\ fs'[Final(p)] # None /\ fs'[Final(p)].bytes = Whole(p)
      /\ \A n \in Name \ {Final(p), Stage(p)} : fs'[n] = fs[n]
      BY <1>1, CommitIsFine
<1>3. p \in Path /\ manifest # None  BY SessionFacts
<1> SUFFICES ASSUME NEW q \in Path, fs'[Final(q)] # fs[Final(q)] PROVE q = p
    BY <1>2, <1>3 DEF SoundReplacement
<1>4. Final(q) \in {Final(p), Stage(p)}  BY <1>2, NamesDiffer
<1> QED  BY <1>3, <1>4, NamesDiffer

\* A step that writes only the staging file of an existing path is sound.
LEMMA StagingOnlyIsSound ==
    ASSUME NEW p \in Path, \A n \in Name \ {Stage(p)} : fs'[n] = fs[n]
    PROVE  SoundReplacement
BY NamesDiffer DEF SoundReplacement

LEMMA StepReplacesSoundly ==
    ASSUME IInv, [Next]_vars
    PROVE  SoundReplacement
<1> USE DEF IInv
<1>u. ASSUME fs' = fs PROVE SoundReplacement  BY <1>u DEF SoundReplacement
<1>1. ASSUME NEW m \in Manifests, NEW o \in Options, Plan(m, o) PROVE SoundReplacement
      BY <1>1, <1>u DEF Plan, disk, entries
<1>2. ASSUME NEW p \in Path, BeginFile(p) PROVE SoundReplacement
  <2>1. \A n \in Name \ {Stage(p)} : fs'[n] = fs[n]
        BY <1>2 DEF BeginFile, TypeOK
  <2> QED  BY <2>1, StagingOnlyIsSound
<1>w. ASSUME NEW c, NEW places, Write(places, c), phase \in {"open", "filling"}
      PROVE  SoundReplacement
  <2>1. active \in Path  BY <1>w, SessionFacts DEF SessionOK, Busy
  <2>2. \A n \in Name \ {Stage(active)} : fs'[n] = fs[n]
        BY <1>w DEF Write, TypeOK
  <2> QED  BY <2>1, <2>2, StagingOnlyIsSound
<1>3. ASSUME NEW d \in Chunk, NEW data \in Chunk, ChunkArrives(d, data)
      PROVE  SoundReplacement
      BY <1>3, <1>w DEF ChunkArrives
<1>4. CASE FillNext  BY <1>4, <1>w DEF FillNext
<1>5. CASE Install
      BY <1>5, SealedIsWhole, CommitReplacesSoundly DEF Install
<1>6. CASE CommitPending
      BY <1>6, HeldIsWhole, CommitReplacesSoundly DEF CommitPending
<1>7. CASE DeleteNext
  <2>1. PICK p \in plan.deletes : fs' \in {fs, [fs EXCEPT ![Final(p)] = None]}
        BY <1>7 DEF DeleteNext, Delete
  <2>2. /\ p \in Path /\ p \notin DOMAIN manifest /\ manifest # None /\ opt.delete
        BY <1>7, SessionFacts DEF DeleteNext, TypeOK, PlanTyped, SessionOK
  <2>3. \A q \in Path \ {p} : fs'[Final(q)] = fs[Final(q)]
        BY <2>1, <2>2, NamesDiffer DEF TypeOK
  <2>4. fs'[Final(p)] \in {fs[Final(p)], None}
        BY <2>1, <2>2, NamesDiffer DEF TypeOK
  <2> QED  BY <2>2, <2>3, <2>4 DEF SoundReplacement
<1>8. CASE PowerLoss
      BY <1>8, AfterPowerLoss DEF SoundReplacement, PowerLoss, Ended
<1>9. CASE EndFile \/ FillFails \/ Abort \/ Hold \/ Finish
      BY <1>9, <1>u DEF EndFile, FillFails, Abort, Hold, Finish, disk, entries
<1>10. CASE Seal \/ SaveManifest  BY <1>10, <1>u DEF Seal, SaveManifest
<1>11. CASE UNCHANGED vars  BY <1>11, <1>u DEF vars, disk, entries
<1> QED  BY <1>1, <1>2, <1>3, <1>4, <1>5, <1>6, <1>7, <1>8, <1>9, <1>10, <1>11 DEF Next

\* No step of any session, abort or power loss leaves anything under a final
\* name but the old file, the manifest's file, nothing, if it was deleted, or,
\* a rename or removal being undone, what was there before.
THEOREM InstallsOnlyWanted == Spec => ReplacedOnlyByWanted
<1>1. IInv /\ [Next]_vars => [SoundReplacement]_vars
      BY StepReplacesSoundly
<1> QED  BY <1>1, Invariance, PTL DEF Spec, ReplacedOnlyByWanted, SoundReplacement
=============================================================================
