------------------------------ MODULE Describe ------------------------------
(***************************************************************************)
(* A model is described: its directory is listed, the names are classified *)
(* (Layout), each file is cut into chunks with the options its role and    *)
(* size call for (Chunker), the manifest is finished, and saved by         *)
(* manifest.Save, which a crash may interrupt, or sent; and again later,   *)
(* when the directory has changed.  Files are hashed here one at a time;   *)
(* Scan has the goroutines.                                                *)
(***************************************************************************)
EXTENDS Chunker, Binary

CONSTANTS
    Large, Huge,                        \* the presets for larger files
    LargeFileThreshold, HugeFileThreshold,
    Commands,       \* commands one after the other: [tree, edits, pin, source,
                    \* dest, encoding]; tree has the bytes of each path,
                    \* edits those a file may be given while the command runs
    Dotted,         \* names with a leading dot
    Remote,         \* a destination on another machine
    Damaged(_),     \* what may become of the units of a manifest
    None

NoOptions == [avg |-> 0, min |-> 0, max |-> 0]
Bytes(t) == {t[p] : p \in DOMAIN t}

ASSUME DescribeAssumption ==
    /\ {Large, Huge} \subseteq Options
    /\ \A cs \in Commands : cs \in Seq(Range(cs)) /\ \A c \in Range(cs) :
         /\ DOMAIN c.tree \subseteq Path /\ IsFiniteSet(DOMAIN c.tree)
         /\ Bytes(c.tree) \union c.edits \subseteq Streams
         /\ c.pin \in Options /\ c.source \in Seq(STRING) /\ c.dest \in Seq(STRING)
    /\ LargeFileThreshold \in Nat /\ HugeFileThreshold \in Nat
    /\ LargeFileThreshold <= HugeFileThreshold
    /\ None \notin Path

-----------------------------------------------------------------------------
(* The choice of options.                                                  *)

OptionsForSize(size) ==
    IF size >= HugeFileThreshold THEN Huge
    ELSE IF size >= LargeFileThreshold THEN Large ELSE Small

ChunkOptionsFor(role, size, pin) ==
    IF pin # NoOptions THEN Normalized(pin)
    ELSE IF role = "weight" THEN OptionsForSize(size) ELSE Small

\* (Mutant: the destination takes every file for a small one.)
roleGuessOther(size) == "other"
roleGuess(size) == IF size >= LargeFileThreshold THEN "weight" ELSE "other"

\* The header's options: those of the largest weight.
defaultChunker(listing, roles, pin) ==
    LET sizes == {listing[p] : p \in {q \in DOMAIN listing : roles[q] = "weight"}}
    IN  IF pin # NoOptions THEN Normalized(pin)
        ELSE IF sizes \subseteq {0} THEN Small
        ELSE OptionsForSize(CHOOSE n \in sizes : \A k \in sizes : k <= n)

\* hashDest: with the options the source recorded for the path, or with a
\* guess and the options pinned here; a helper is not told of any.
HashDestOptions(m, p, size, pin) ==
    Normalized(IF p \in PathsOf(m) THEN Lookup(m, p).chunker
               ELSE ChunkOptionsFor(roleGuess(size), size, pin))

-----------------------------------------------------------------------------
(* checkNotNested.                                                         *)

Inside(inner, outer) == Len(inner) > Len(outer) /\ SubSeq(inner, 1, Len(outer)) = outer
Rel(outer, inner) == SubSeq(inner, Len(outer) + 1, Len(inner))

\* A relative path with a leading dot is taken for one that leads out.
Encloses(outer, inner) == Inside(inner, outer) /\ Head(Rel(outer, inner)) \notin Dotted

Nested(src, dst) == src = dst \/ Encloses(src, dst) \/ Encloses(dst, src)

-----------------------------------------------------------------------------
VARIABLES
    pc,         \* where the run stands
    asked,      \* the commands to come
    config,     \* the one that is running
    tree,       \* the directory
    listing,    \* what Walk has found: each file's size
    edited,     \* whether a file has changed since
    hashing,    \* the file that is being cut
    entries,    \* the files described so far
    doc,        \* the manifest
    temp,       \* Save's temporary file
    disk,       \* what the manifest's path holds
    past,       \* what it may hold again after a power loss
    begun,      \* the manifests whose saving began
    wire        \* a copy of the manifest, in units, as it is found

saving == <<temp, disk, past, begun>>
building == <<listing, edited, hashing, entries, doc>>
run == <<asked, config, tree>>
describeVars == <<chunkerVars, pc, run, building, saving, wire>>

-----------------------------------------------------------------------------
(* Run, or the manifest command, as far as Build.                          *)

Begin ==
    /\ pc \in {"ready", "saved", "failed"} /\ asked # <<>>
    /\ config' = Head(asked) /\ asked' = Tail(asked) /\ tree' = config'.tree
    /\ IF config'.dest # Remote /\ Nested(config'.source, config'.dest)
         THEN pc' = "refused" /\ UNCHANGED listing
         ELSE pc' = "hash" /\ listing' = [p \in DOMAIN tree' |-> Len(tree'[p])]
    /\ edited' = FALSE /\ hashing' = None /\ entries' = {} /\ doc' = None
    /\ UNCHANGED <<chunkerVars, saving, wire>>

Described == {f.path : f \in entries}

\* A file is changed after it has been listed and before it is opened.
Edit(p) ==
    /\ pc = "hash" /\ ~ edited /\ p \notin Described \union {hashing}
    /\ \E b \in config.edits : tree' = [tree EXCEPT ![p] = b]
    /\ edited' = TRUE
    /\ UNCHANGED <<chunkerVars, pc, asked, config, listing, hashing, entries, doc, saving, wire>>

info == Detect(listing)

\* hashEntry: the role and the options are those of the file that was listed.
HashEntry(p) ==
    /\ pc = "hash" /\ hashing = None /\ p \notin Described
    /\ hashing' = p
    /\ NewChunker(tree[p], ChunkOptionsFor(info.roles[p], listing[p], config.pin))
    /\ UNCHANGED <<pc, run, listing, edited, entries, doc, saving, wire>>

ChunkerStep ==
    /\ pc = "hash" /\ hashing # None
    /\ ChunkerNext
    /\ UNCHANGED <<pc, run, building, saving, wire>>

ChunksOf(bytes) ==
    [k \in DOMAIN cuts |->
        [offset |-> cuts[k].off, length |-> cuts[k].len,
         digest |-> Sum(SubSeq(bytes, cuts[k].off + 1, cuts[k].off + cuts[k].len))]]

\* (Mutant: the size is the one that was listed.)
EntryListedSize(p) ==
    [path |-> p, size |-> listing[p], role |-> info.roles[p], digest |-> Sum(stream),
     chunker |-> request, chunks |-> ChunksOf(stream)]
Entry(p) ==
    [path |-> p, size |-> off, role |-> info.roles[p], digest |-> Sum(stream),
     chunker |-> request, chunks |-> ChunksOf(stream)]

EntryEnds ==
    /\ pc = "hash" /\ hashing # None /\ at = "eof"
    /\ entries' = entries \union {Entry(hashing)} /\ hashing' = None
    /\ UNCHANGED <<chunkerVars, pc, run, listing, edited, doc, saving, wire>>

BuildFails ==
    /\ pc = "hash" /\ hashing # None /\ at \in {"failed", "refused"}
    /\ pc' = "failed" /\ hashing' = None
    /\ UNCHANGED <<chunkerVars, run, listing, edited, entries, doc, saving, wire>>

BuildEnds ==
    /\ pc = "hash" /\ Described = DOMAIN listing
    /\ pc' = "built"
    /\ doc' = Finalize(defaultChunker(listing, info.roles, config.pin), entries, info)
    /\ UNCHANGED <<chunkerVars, run, listing, edited, hashing, entries, saving, wire>>

-----------------------------------------------------------------------------
(* Save and Load.  A file is the number of units it keeps of an encoded    *)
(* manifest, and whether they are synced; JSON is two units, neither of    *)
(* any use without the other.                                              *)

Size(m, encoding) == IF encoding = "binary" THEN Len(EncodeBinary(m)) ELSE 2

\* Read: without the magic it is taken for JSON.
ReadUnits(u) == IF u # <<>> /\ u[1] = Magic THEN DecodeBinary(u, Nil) ELSE Nil
ReadManifest(file) ==
    IF file.encoding = "binary" THEN ReadUnits(SubSeq(EncodeBinary(file.of), 1, file.kept))
    ELSE IF file.kept = 2 THEN file.of ELSE Nil

SaveBegins ==
    /\ pc = "built" /\ pc' = "temp"
    /\ temp' = [encoding |-> config.encoding, of |-> doc, kept |-> 0, synced |-> FALSE]
    /\ begun' = begun \union {doc}
    /\ UNCHANGED <<chunkerVars, run, building, disk, past, wire>>

SaveWrites ==
    /\ pc = "temp" /\ pc' = "written"
    /\ temp' = [temp EXCEPT !.kept = Size(doc, temp.encoding)]
    /\ UNCHANGED <<chunkerVars, run, building, disk, past, begun, wire>>

SaveSyncs ==
    /\ pc = "written" /\ pc' = "synced"
    /\ temp' = [temp EXCEPT !.synced = TRUE]
    /\ UNCHANGED <<chunkerVars, run, building, disk, past, begun, wire>>

\* (Mutant: renamed as soon as it is written.)
SaveRenamesEarly ==
    /\ pc \in {"written", "synced"} /\ pc' = "saved"
    /\ disk' = temp /\ past' = past \union {disk} /\ temp' = None
    /\ UNCHANGED <<chunkerVars, run, building, begun, wire>>

\* The directory is not synced: the name may yet lead to the old file.
SaveRenames ==
    /\ pc = "synced" /\ pc' = "saved"
    /\ disk' = temp /\ past' = past \union {disk} /\ temp' = None
    /\ UNCHANGED <<chunkerVars, run, building, begun, wire>>

\* Any call may fail; the temporary file is removed.
SaveFails ==
    /\ pc \in {"built", "temp", "written", "synced"} /\ pc' = "failed"
    /\ temp' = None
    /\ UNCHANGED <<chunkerVars, run, building, disk, past, begun, wire>>

\* What is not synced keeps any part of itself.
AfterPowerLoss(file) ==
    IF file = None \/ file.synced THEN {file}
    ELSE {[file EXCEPT !.kept = n, !.synced = TRUE] : n \in 0 .. file.kept}

\* The temporary file is left behind, under a name no other run takes.
PowerLoss ==
    /\ pc \in {"temp", "written", "synced", "saved"} /\ pc' = "failed"
    /\ disk' \in UNION {AfterPowerLoss(file) : file \in past \union {disk}}
    /\ past' = {} /\ temp' = None
    /\ UNCHANGED <<chunkerVars, run, building, begun, wire>>

\* A binary manifest is kept or sent elsewhere, and comes to harm or not.
Copy ==
    /\ pc = "built" /\ config.encoding = "binary" /\ pc' = "copied"
    /\ wire' \in Damaged(EncodeBinary(doc))
    /\ UNCHANGED <<chunkerVars, run, building, saving>>

-----------------------------------------------------------------------------
DescribeInit ==
    /\ request = Small /\ opt = Small /\ stream = <<>>
    /\ pos = 0 /\ buf = <<>> /\ start = 0 /\ eof = FALSE /\ off = 0 /\ cuts = <<>>
    /\ at = "idle"
    /\ pc = "ready" /\ asked \in Commands /\ config = None /\ tree = <<>>
    /\ listing = <<>> /\ edited = FALSE /\ hashing = None /\ entries = {} /\ doc = None
    /\ temp = None /\ disk = None /\ past = {} /\ begun = {} /\ wire = <<>>

DescribeNext ==
    \/ Begin \/ ChunkerStep \/ EntryEnds \/ BuildFails \/ BuildEnds
    \/ \E p \in DOMAIN listing : Edit(p) \/ HashEntry(p)
    \/ SaveBegins \/ SaveWrites \/ SaveSyncs \/ SaveRenames \/ SaveFails
    \/ PowerLoss \/ Copy

DescribeSpec == DescribeInit /\ [][DescribeNext]_describeVars

-----------------------------------------------------------------------------
(* Properties.                                                             *)

\* The options a chunker works with are those that were meant: a default of
\* four times the average is not a wrapped product (chunk.go:168), nor one of a
\* quarter nothing, nor the number of bits of the lenient mask a wrapped
\* difference (chunker.go:36).
NothingWraps ==
    hashing # None /\ at # "refused" /\ config.pin # NoOptions =>
        /\ config.pin.max = 0 => opt.max = 4 * opt.avg
        /\ config.pin.min = 0 => opt.min > 0 /\ opt.min <= opt.avg \div 4
        /\ LenientMask(opt) < StrictMask(opt)

\* A crashed or failed run never leaves a half-written manifest behind
\* (Save, io.go:87-89): whatever happens, the manifest's path holds nothing
\* or loads as a manifest that was to be saved there, whole, in either
\* encoding and with the totals that the binary one leaves out; after a Save
\* that returned without an error, as the one it was given.
LoadedIsOldOrNew ==
    /\ disk # None => ReadManifest(disk) \in begun
    /\ pc = "saved" => ReadManifest(disk) = doc

\* A binary manifest that is cut short, or has lost, gained, repeated or
\* altered something, is refused; it is read as what was written exactly if
\* that is what it begins with (DecodeBinary, binary.go:279-381).
DamageIsTold ==
    pc = "copied" =>
        LET whole == EncodeBinary(doc) IN
        ReadUnits(wire) = IF SubSeq(wire, 1, AtMost(Len(whole), Len(wire))) = whole
                          THEN doc ELSE Nil

\* A manifest that Build made is one that Plan accepts, whatever happened to
\* the files in the meantime (manifest.go:228, plan.go:91), unless a name
\* holds a backslash or the model has a file called .modelmove.
BuiltIsAccepted ==
    doc # None => (Validate(doc) <=> \A p \in DOMAIN listing : Name[p].form = "clean")

\* Bytes of the model that lie at the destination are cut there as they were
\* here (plan.go:313-322), so that their chunks are found: under their own
\* path always; under a path the manifest does not know, unless the options
\* were pinned and the destination is remote, or the file is large and not a
\* weight, or it crossed a threshold between the walk and the reading.
SidesCutAlike ==
    doc # None => \A f \in Range(doc.files) :
        LET pin == IF config.dest = Remote THEN NoOptions ELSE config.pin
            odd == \/ f.role # "weight" /\ f.size >= LargeFileThreshold
                   \/ OptionsForSize(f.size) # OptionsForSize(listing[f.path])
            stranger == 0
        IN  /\ HashDestOptions(doc, f.path, f.size, pin) = Normalized(f.chunker)
            /\ config.pin = pin /\ (pin # NoOptions \/ ~ odd) =>
                   HashDestOptions(doc, stranger, f.size, pin) = Normalized(f.chunker)

\* Compare against the manifest that is on disk: every byte is paid for or
\* reused; each new chunk is paid for once; and the two are called identical
\* exactly if the models have the same digest.  On an empty destination the
\* price is UniqueChunks (diff.go:58, manifest.go:144).
CompareIsExact ==
    doc # None =>
        LET old == IF disk = None THEN Nil ELSE ReadManifest(disk)
            d == Compare(old, doc)
        IN  /\ d.reusable + d.transfer = doc.model.size
            /\ d.transfer = Total(Digests(doc) \ Digests(old), LAMBDA x : Len(x.nums))
            /\ old # Nil => (d.identical <=> old.model.digest = doc.model.digest)
            /\ Compare(Nil, doc).transfer = UniqueChunks(doc).bytes

\* A shard set is complete exactly if every declared part is present
\* (layout.go:55), as long as the names are regular: the weights of a family
\* are in one set, each once, and no other file is.  Names are not regular
\* if parts declare different totals, or have a number twice or beyond the
\* total.
CompleteIsComplete ==
    doc # None =>
        LET weights == {p \in DOMAIN listing : info.roles[p] = "weight" /\ Name[p].total > 1}
            regular(F) ==
                /\ \A p, q \in F : /\ Name[p].total = Name[q].total
                                   /\ Name[p].part = Name[q].part => p = q
                /\ \A p \in F : Name[p].part \in 1 .. Name[p].total
        IN  \A F \in {{q \in weights : Name[q].family = Name[p].family} : p \in weights} :
                regular(F) =>
                    \E s \in Range(doc.model.shards) :
                        /\ Range(s.parts) = F
                        /\ Complete(s) <=>
                             {Name[p].part : p \in F} = 1 .. Name[CHOOSE p \in F : TRUE].total

\* An interrupted transfer leaves a directory that is obviously incomplete
\* rather than one that looks loadable (layout.go:279-281): as long as
\* anything but weights is missing there, what has landed holds no weights,
\* in the eyes of Detect at the destination, which sees a part of the files.
OrderTellsIncomplete ==
    doc # None /\ ~ edited =>
        LET roles == [p \in DOMAIN listing |-> info.roles[p]]
            order == TransferOrder(roles)
        IN  \A n \in 0 .. Len(order) :
                LET landed == [p \in Range(SubSeq(order, 1, n)) |-> listing[p]] IN
                "weight" \in Range(RolesOf(landed)) =>
                    \A p \in DOMAIN roles \ DOMAIN landed : roles[p] = "weight"
=============================================================================
