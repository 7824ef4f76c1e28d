------------------------------ MODULE Manifest ------------------------------
(***************************************************************************)
(* Manifests: Finalize, Recount, Validate, and Compare of two of them.     *)
(* A manifest is a record [chunker, model, files]; the schema's names, the *)
(* tool, the name of the model, times and modes are left out.  A digest is *)
(* what it is the digest of: a unit that holds bytes, or other units.      *)
(***************************************************************************)
EXTENDS Layout

\* What a written manifest consists of: numbers, strings and digests.
Unit(kind, nums, string, units) ==
    [kind |-> kind, nums |-> nums, string |-> string, units |-> units]
Num(n) == Unit("num", <<n>>, "", <<>>)
Str(s) == Unit("str", <<>>, s, <<>>)
Sum(bytes) == Unit("digest", bytes, "", <<>>)
SumOf(units) == Unit("digest", <<>>, "", units)

\* The manifest where there is none.
Nil == [files |-> <<>>]

-----------------------------------------------------------------------------
(* manifest.go.                                                            *)

\* The sum of sizes, one by one.
Total(S, size(_)) == Cardinality(UNION {{x} \X (1 .. size(x)) : x \in S})

TotalOf(files, S) == Total(S, LAMBDA i : files[i].size)
Weights(files) == {i \in DOMAIN files : files[i].role = "weight"}

\* The model's totals, from its files.
Recount(m) ==
    [m EXCEPT !.model =
        [@ EXCEPT !.files = Len(m.files),
                  !.size = TotalOf(m.files, DOMAIN m.files),
                  !.weightFiles = Cardinality(Weights(m.files)),
                  !.weightBytes = TotalOf(m.files, Weights(m.files))]]

\* Files by path, whatever order they were hashed in.
Sorted(files) == SortedBy(files, {e \in files \X files : e[1].path < e[2].path})

\* The digest of a line for each file.
ModelDigest(files) ==
    SumOf([i \in DOMAIN files |-> <<files[i].path, files[i].size, files[i].digest>>])

\* New, the files that Build has hashed, and Finalize.
Finalize(chunker, files, info) ==
    Recount([chunker |-> chunker,
             files |-> Sorted(files),
             model |-> [kind |-> info.kind, shards |-> info.shards,
                        digest |-> ModelDigest(Sorted(files)),
                        files |-> 0, size |-> 0, weightFiles |-> 0, weightBytes |-> 0]])

End(c) == c.offset + c.length

ValidatePath(p) == p \in Path /\ Name[p].form = "clean"

validateFile(f) ==
    /\ ValidatePath(f.path)
    /\ \A i \in DOMAIN f.chunks :
         /\ f.chunks[i].offset = IF i = 1 THEN 0 ELSE End(f.chunks[i - 1])
         /\ f.chunks[i].length # 0
    /\ f.size = IF f.chunks = <<>> THEN 0 ELSE End(f.chunks[Len(f.chunks)])

Validate(m) ==
    /\ \A i \in DOMAIN m.files : validateFile(m.files[i])
    /\ \A i, j \in DOMAIN m.files : m.files[i].path = m.files[j].path => i = j

-----------------------------------------------------------------------------
(* Chunks by their place: file and number within it.                       *)

Places(m) == UNION {{<<i, k>> : k \in DOMAIN m.files[i].chunks} : i \in DOMAIN m.files}
ChunkAt(m, x) == m.files[x[1]].chunks[x[2]]
Digests(m) == {ChunkAt(m, x).digest : x \in Places(m)}
Before(x, y) == x[1] < y[1] \/ (x[1] = y[1] /\ x[2] < y[2])
BytesAt(m, S) == Total(S, LAMBDA x : ChunkAt(m, x).length)

\* The places of the chunks not in have that no earlier place holds.
\* (Mutant: every place of a chunk counts.)
FirstPlacesAll(m, have) == {x \in Places(m) : ChunkAt(m, x).digest \notin have}
FirstPlaces(m, have) ==
    {x \in Places(m) :
        /\ ChunkAt(m, x).digest \notin have
        /\ \A y \in Places(m) : Before(y, x) => ChunkAt(m, y).digest # ChunkAt(m, x).digest}

UniqueChunks(m) ==
    [count |-> Cardinality(FirstPlaces(m, {})), bytes |-> BytesAt(m, FirstPlaces(m, {}))]

-----------------------------------------------------------------------------
(* diff.go.                                                                *)

PathsOf(m) == {m.files[i].path : i \in DOMAIN m.files}
Lookup(m, p) == m.files[CHOOSE i \in DOMAIN m.files : m.files[i].path = p]

Change(old, f) ==
    IF f.path \notin PathsOf(old) THEN "added"
    ELSE IF Lookup(old, f.path).digest = f.digest /\ Lookup(old, f.path).size = f.size
    THEN "unchanged" ELSE "modified"

\* Compare: what is paid for, and what is there or was paid for already.
Compare(old, want) ==
    LET paid == FirstPlaces(want, Digests(old))
        change == [p \in PathsOf(want) \union PathsOf(old) |->
                      IF p \in PathsOf(want) THEN Change(old, Lookup(want, p)) ELSE "removed"]
    IN  [change |-> change,
         oldBytes |-> TotalOf(old.files, DOMAIN old.files),
         newBytes |-> TotalOf(want.files, DOMAIN want.files),
         reusable |-> BytesAt(want, Places(want) \ paid),
         transfer |-> BytesAt(want, paid),
         identical |-> \A p \in DOMAIN change : change[p] = "unchanged"]
=============================================================================
