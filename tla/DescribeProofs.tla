--------------------------- MODULE DescribeProofs ---------------------------
(***************************************************************************)
(* What a description of a model says, for every set of names, sizes,      *)
(* presets, pinned options and changes to the files meanwhile: the         *)
(* manifest is one that is accepted, its chunks are those that the other   *)
(* side cuts, its shard sets and its order of transfer are the layout's.   *)
(***************************************************************************)
EXTENDS Describe, ChunkerProofs, FiniteSetTheorems

-----------------------------------------------------------------------------
(* Sorting.                                                                *)

\* The pairs order S.
Orders(pairs, S) ==
    /\ \A x \in S : <<x, x>> \notin pairs
    /\ \A x, y, z \in S : <<x, y>> \in pairs /\ <<y, z>> \in pairs => <<x, z>> \in pairs
    /\ \A x, y \in S : x # y => <<x, y>> \in pairs \/ <<y, x>> \in pairs

\* A set that the pairs order is sorted: each member once, in their order.
LEMMA SortedByOrders ==
    ASSUME NEW S, NEW pairs, IsFiniteSet(S), Orders(pairs, S)
    PROVE  /\ SortedBy(S, pairs) \in Seq(S) /\ Len(SortedBy(S, pairs)) = Cardinality(S)
           /\ Cardinality(S) \in Nat
           /\ \A x \in S : \E i \in 1 .. Cardinality(S) : SortedBy(S, pairs)[i] = x
           /\ \A i, j \in 1 .. Cardinality(S) :
                i < j => <<SortedBy(S, pairs)[i], SortedBy(S, pairs)[j]>> \in pairs
  <1> DEFINE n == Cardinality(S)
             below(x) == {y \in S : <<y, x>> \in pairs}
             f == [x \in S |-> Cardinality(below(x)) + 1]
             s == SortedBy(S, pairs)
  <1>1. n \in Nat
    BY FS_CardinalityType
  <1>2. ASSUME NEW x \in S
        PROVE  /\ IsFiniteSet(below(x)) /\ Cardinality(below(x)) \in Nat
               /\ f[x] = Cardinality(below(x)) + 1 /\ f[x] \in 1 .. n
    <2>1. below(x) \in SUBSET (S \ {x})
      BY DEF Orders
    <2>2. IsFiniteSet(S \ {x}) /\ Cardinality(S \ {x}) = n - 1
      BY FS_RemoveElement
    <2>3. IsFiniteSet(below(x)) /\ Cardinality(below(x)) <= n - 1
      <3> DEFINE T == S \ {x}
                 B == below(x)
      <3>1. B \in SUBSET T /\ IsFiniteSet(T) /\ Cardinality(T) = n - 1
        BY <2>1, <2>2
      <3> HIDE DEF T, B
      <3>2. IsFiniteSet(B) /\ Cardinality(B) <= Cardinality(T)
        BY <3>1, FS_Subset
      <3> QED BY <3>1, <3>2 DEF B
    <2>4. Cardinality(below(x)) \in Nat
      BY <2>3, FS_CardinalityType
    <2>5. f[x] = Cardinality(below(x)) + 1
      OBVIOUS
    <2> QED BY <1>1, <2>3, <2>4, <2>5
  <1>3. ASSUME NEW x \in S, NEW y \in S, <<x, y>> \in pairs PROVE f[x] < f[y]
    <2>1. below(x) \in SUBSET (below(y) \ {x}) /\ x \in below(y)
      BY <1>3 DEF Orders
    <2>2. IsFiniteSet(below(y) \ {x}) /\ Cardinality(below(y) \ {x}) = Cardinality(below(y)) - 1
      BY <1>2, <2>1, FS_RemoveElement
    <2>3. Cardinality(below(x)) <= Cardinality(below(y)) - 1
      <3> DEFINE T == below(y) \ {x}
                 B == below(x)
      <3>1. B \in SUBSET T /\ IsFiniteSet(T)
        BY <2>1, <2>2
      <3> HIDE DEF T, B
      <3>2. Cardinality(B) <= Cardinality(T)
        BY <3>1, FS_Subset
      <3> QED BY <2>2, <3>2 DEF T, B
    <2>4. /\ f[x] = Cardinality(below(x)) + 1 /\ Cardinality(below(x)) \in Nat
          /\ f[y] = Cardinality(below(y)) + 1 /\ Cardinality(below(y)) \in Nat
      BY <1>2
    <2> HIDE DEF f, below
    <2> QED BY <2>3, <2>4
  <1>4. f \in [S -> 1 .. n]
    BY <1>2
  <1>5. \A x, y \in S : f[x] = f[y] => x = y
    <2> SUFFICES ASSUME NEW x \in S, NEW y \in S, f[x] = f[y], x # y PROVE FALSE
      OBVIOUS
    <2>1. f[x] < f[y] \/ f[y] < f[x]
      BY <1>3 DEF Orders
    <2>2. f[x] \in Nat /\ f[y] \in Nat
      BY <1>2
    <2> HIDE DEF f
    <2> QED BY <2>1, <2>2
  <1> HIDE DEF f
  <1>6. f \in Surjection(S, 1 .. n)
    <2>1. f \in Injection(S, 1 .. n)
      BY <1>4, <1>5 DEF Injection, IsInjective
    <2>2. IsFiniteSet(1 .. n) /\ Cardinality(1 .. n) = n
      BY <1>1, FS_Interval
    <2> QED BY <2>1, <2>2, FS_Injection
  <1>7. \A i \in 1 .. n : \E x \in S : f[x] = i
    BY <1>6 DEF Surjection
  <1> DEFINE g(i) == CHOOSE x \in S : Cardinality(below(x)) = i - 1
  <1>8. s = [i \in 1 .. n |-> g(i)]
    BY DEF SortedBy
  <1> HIDE DEF s, n
  <1>9. \A i \in 1 .. n : s[i] \in S /\ f[s[i]] = i
    <2> SUFFICES ASSUME NEW i \in 1 .. n PROVE s[i] \in S /\ f[s[i]] = i
      OBVIOUS
    <2>1. PICK x \in S : f[x] = i
      BY <1>7
    <2>2. Cardinality(below(x)) = i - 1
      BY <1>2, <2>1
    <2>3. g(i) \in S /\ Cardinality(below(g(i))) = i - 1
      <3> HIDE DEF below
      <3> QED BY <2>2
    <2> HIDE DEF g
    <2>4. f[g(i)] = Cardinality(below(g(i))) + 1
      BY <1>2, <2>3
    <2>5. s[i] = g(i)
      BY <1>8
    <2>6. f[g(i)] = i
      BY <1>1, <2>3, <2>4
    <2> QED BY <2>3, <2>5, <2>6
  <1>10. s \in Seq(S) /\ Len(s) = n
    <2> HIDE DEF g
    <2>1. \A i \in 1 .. n : g(i) \in S
      BY <1>8, <1>9
    <2>2. s \in [1 .. n -> S]
      BY <1>8, <2>1
    <2>3. s \in Seq(S)
      BY <1>1, <2>2
    <2> QED BY <1>1, <2>2, <2>3
  <1>11. \A x \in S : \E i \in 1 .. n : s[i] = x
    <2> SUFFICES ASSUME NEW x \in S PROVE s[f[x]] = x /\ f[x] \in 1 .. n
      OBVIOUS
    <2>1. f[x] \in 1 .. n
      BY <1>4
    <2>2. s[f[x]] \in S /\ f[s[f[x]]] = f[x]
      BY <1>9, <2>1
    <2> QED BY <1>5, <2>1, <2>2
  <1>12. ASSUME NEW i \in 1 .. n, NEW j \in 1 .. n, i < j PROVE <<s[i], s[j]>> \in pairs
    <2>1. s[i] \in S /\ f[s[i]] = i /\ s[j] \in S /\ f[s[j]] = j
      BY <1>9
    <2>2. s[i] # s[j] /\ ~ (f[s[j]] < f[s[i]])
      BY <1>1, <1>12, <2>1
    <2> QED BY <1>3, <2>1, <2>2 DEF Orders
  <1> QED BY <1>1, <1>10, <1>11, <1>12 DEF s, n

-----------------------------------------------------------------------------
(* The invariant.                                                          *)

AnyCommand == UNION {Range(cs) : cs \in Commands}
CommandOK(c) ==
    /\ DOMAIN c.tree \subseteq Path /\ IsFiniteSet(DOMAIN c.tree)
    /\ (\A p \in DOMAIN c.tree : c.tree[p] \in Streams) /\ c.edits \subseteq Streams
    /\ c.pin \in Options /\ c.source \in Seq(STRING) /\ c.dest \in Seq(STRING)

Underway == pc \notin {"ready", "refused"}

\* The commands are those that were given.
RunOK ==
    /\ asked \in Seq(AnyCommand)
    /\ pc # "ready" => config \in AnyCommand

ListingOK ==
    Underway =>
        /\ DOMAIN tree = DOMAIN config.tree /\ DOMAIN listing = DOMAIN config.tree
        /\ \A p \in DOMAIN listing : tree[p] \in Streams /\ listing[p] \in Nat

OptionsOf(p) == ChunkOptionsFor(info.roles[p], listing[p], config.pin)

\* The chunker at work has the options that the listing calls for.
HashingOK ==
    hashing # None =>
        /\ Underway /\ at # "idle" /\ hashing \in (DOMAIN listing) \ Described
        /\ request = OptionsOf(hashing) /\ opt = Normalized(request)
        /\ at # "refused" => Valid(opt)

InOneRow(f) ==
    /\ \A i \in DOMAIN f.chunks :
         /\ f.chunks[i].offset = IF i = 1 THEN 0 ELSE End(f.chunks[i - 1])
         /\ f.chunks[i].length # 0
    /\ f.size = IF f.chunks = <<>> THEN 0 ELSE End(f.chunks[Len(f.chunks)])

\* Each chunk has the digest of as many bytes as it is long.
ChunksOK(f) ==
    /\ DOMAIN f.chunks = 1 .. Len(f.chunks) /\ Len(f.chunks) \in Nat
    /\ \A k \in DOMAIN f.chunks :
         /\ f.chunks[k].offset \in Nat /\ f.chunks[k].length \in Nat
         /\ Len(f.chunks[k].digest.nums) = f.chunks[k].length

DescribedOK(f) ==
    /\ f.path \in DOMAIN listing /\ f.size \in Nat
    /\ f.role = info.roles[f.path] /\ f.chunker = OptionsOf(f.path)
    /\ InOneRow(f) /\ ChunksOK(f)

\* A path is described once.
EntriesOK ==
    Underway =>
        /\ IsFiniteSet(entries)
        /\ \A f \in entries : DescribedOK(f)
        /\ \A f, g \in entries : f.path = g.path => f = g

\* A manifest is made of what was described, and that is all there is.
HasDoc == doc # None \/ pc = "built"
DocOK ==
    HasDoc =>
        /\ Underway /\ pc # "hash" /\ Described = DOMAIN listing
        /\ doc = Finalize(defaultChunker(listing, info.roles, config.pin), entries, info)

\* The chunker has been at work, or not yet.
CuttingOK == IF at = "idle" THEN cuts = <<>> /\ off = 0 ELSE ChunkerInv

DescribeInv == CuttingOK /\ RunOK /\ ListingOK /\ HashingOK /\ EntriesOK /\ DocOK

-----------------------------------------------------------------------------
(* What the parts of a command are.                                        *)

LEMMA Commanded == ASSUME NEW c \in AnyCommand PROVE CommandOK(c)
  <1>1. PICK cs \in Commands : c \in Range(cs)
    BY DEF AnyCommand
  <1>2. /\ DOMAIN c.tree \subseteq Path /\ IsFiniteSet(DOMAIN c.tree)
        /\ Bytes(c.tree) \union c.edits \subseteq Streams
        /\ c.pin \in Options /\ c.source \in Seq(STRING) /\ c.dest \in Seq(STRING)
    BY <1>1, DescribeAssumption
  <1>3. \A p \in DOMAIN c.tree : c.tree[p] \in Streams
    BY <1>2 DEF Bytes
  <1> QED BY <1>2, <1>3 DEF CommandOK

LEMMA AskedCommands == ASSUME NEW cs \in Commands PROVE cs \in Seq(AnyCommand)
  <1>1. cs \in Seq(Range(cs))
    BY DescribeAssumption
  <1>2. Range(cs) \subseteq AnyCommand
    BY DEF AnyCommand
  <1> HIDE DEF AnyCommand
  <1>3. Len(cs) \in Nat /\ cs \in [1 .. Len(cs) -> Range(cs)]
    BY <1>1
  <1>4. cs \in [1 .. Len(cs) -> AnyCommand]
    BY <1>2, <1>3
  <1> QED BY <1>3, <1>4

\* Options that have been completed are options, and left as they are.
LEMMA NormalizedOptions ==
    ASSUME NEW o \in Options
    PROVE  Normalized(o) \in Options /\ Normalized(Normalized(o)) = Normalized(o)
  <1> DEFINE avg == IF o.avg = 0 THEN Small.avg ELSE o.avg
             min == IF o.min = 0 THEN avg \div 4 ELSE o.min
             max == IF o.max = 0 THEN (avg * 4) % Word ELSE o.max
             avg2 == IF avg = 0 THEN Small.avg ELSE avg
             min2 == IF min = 0 THEN avg2 \div 4 ELSE min
             max2 == IF max = 0 THEN (avg2 * 4) % Word ELSE max
  <1>1. Word \in Nat \ {0} /\ Small \in Options
    BY ChunkerAssumption
  <1>2. avg \in 0 .. Word - 1 /\ o.min \in 0 .. Word - 1 /\ o.max \in 0 .. Word - 1
    BY <1>1 DEF Options
  <1>3. Normalized(o) = [avg |-> avg, min |-> min, max |-> max]
    BY DEF Normalized
  <1>4. avg2 = avg
    OBVIOUS
  <1>5. Normalized([avg |-> avg, min |-> min, max |-> max])
          = [avg |-> avg2, min |-> min2, max |-> max2]
    BY DEF Normalized
  <1> HIDE DEF avg, avg2
  <1>6. min2 = min /\ max2 = max
    BY <1>4
  <1>7. min \in 0 .. Word - 1
    <2>1. avg \div 4 \in 0 .. Word - 1
      BY <1>1, <1>2
    <2> QED BY <1>2, <2>1
  <1>8. max \in 0 .. Word - 1
    <2> DEFINE x == avg * 4
    <2>1. x \in Nat
      BY <1>2
    <2> HIDE DEF x
    <2>2. x % Word \in 0 .. Word - 1
      BY <1>1, <2>1
    <2> QED BY <1>2, <2>2 DEF x
  <1> HIDE DEF min, max, min2, max2
  <1>9. Normalized(o) \in Options
    BY <1>2, <1>3, <1>7, <1>8 DEF Options
  <1> QED BY <1>3, <1>4, <1>5, <1>6, <1>9

\* The presets, and what was pinned, are options.
LEMMA ChosenOptions ==
    ASSUME NEW role, NEW size, NEW pin \in Options
    PROVE  ChunkOptionsFor(role, size, pin) \in Options
  <1>1. {Small, Large, Huge} \subseteq Options
    BY ChunkerAssumption, DescribeAssumption
  <1> QED BY <1>1, NormalizedOptions DEF ChunkOptionsFor, OptionsForSize

-----------------------------------------------------------------------------
(* The invariant holds at first, and every step keeps it.                  *)

LEMMA DescribeStarts == DescribeInit => DescribeInv
  <1> SUFFICES ASSUME DescribeInit PROVE DescribeInv
    OBVIOUS
  <1>1. /\ pc = "ready" /\ asked \in Commands /\ hashing = None /\ doc = None
        /\ at = "idle" /\ cuts = <<>> /\ off = 0
    BY DEF DescribeInit
  <1>2. asked \in Seq(AnyCommand)
    BY <1>1, AskedCommands
  <1>3. CuttingOK /\ RunOK
    BY <1>1, <1>2 DEF CuttingOK, RunOK, Underway
  <1>4. ListingOK /\ HashingOK /\ EntriesOK /\ DocOK
    BY <1>1 DEF ListingOK, HashingOK, EntriesOK, DocOK, HasDoc, Underway
  <1> QED BY <1>3, <1>4 DEF DescribeInv

\* A chunker that is given a stream starts as ChunkerInit says.
LEMMA NewChunkerStarts ==
    ASSUME NEW s \in Streams, NEW o \in Options, NewChunker(s, o)
    PROVE  /\ ChunkerInv' /\ at' # "idle" /\ request' = o /\ opt' = Normalized(o)
           /\ at' # "refused" => Valid(opt')
  <1>1. /\ request' = o /\ opt' = Normalized(o) /\ stream' = s
        /\ pos' = 0 /\ buf' = <<>> /\ start' = 0 /\ eof' = FALSE /\ off' = 0 /\ cuts' = <<>>
        /\ at' = IF Valid(Normalized(o)) THEN "next" ELSE "refused"
    BY DEF NewChunker
  <1>2. CASE Valid(Normalized(o))
    <2>1. at' = "next" /\ s \in Seq(Byte)
      BY <1>1, <1>2, ChunkerAssumption
    <2>2. OptOK'
      BY <1>1, <1>2, ValidOptions DEF OptOK
    <2>3. BufferOK'
      BY <1>1, <2>1 DEF BufferOK, InRange, Aligned
    <2>4. FilledOK'
      BY <1>1, <2>1 DEF FilledOK
    <2>5. CutsOK'
      BY <1>1 DEF CutsOK
    <2> QED BY <1>1, <1>2, <2>1, <2>2, <2>3, <2>4, <2>5 DEF ChunkerInv, Running
  <1>3. CASE ~ Valid(Normalized(o))
    BY <1>1, <1>3 DEF ChunkerInv, Running
  <1> QED BY <1>2, <1>3

\* What a chunker at work was given it keeps.
LEMMA ChunkerKeeps ==
    ASSUME ChunkerNext
    PROVE  /\ request' = request /\ opt' = opt /\ stream' = stream
           /\ at \notin {"refused", "idle"} /\ at' \notin {"refused", "idle"}
  BY DEF ChunkerNext, BeginFill, Cut, NoMore, Read, ReadEnds, ReadFails, Take

\* Steps that leave the description alone, wherever they lead from there.
LEMMA QuietSteps ==
    ASSUME DescribeInv, UNCHANGED <<chunkerVars, run, building>>,
           Underway, Underway', pc' = "hash" => pc = "hash", pc' = "built" => pc = "built"
    PROVE  DescribeInv'
  <1>1. UNCHANGED <<request, opt, stream, cutter, at, asked, config, tree, listing,
                    edited, hashing, entries, doc>>
    BY DEF chunkerVars, run, building
  <1>2. CuttingOK'
    <2>1. ChunkerInv => ChunkerInv'
      BY StepStutter
    <2> QED BY <1>1, <2>1 DEF DescribeInv, CuttingOK, cutter
  <1>3. RunOK'
    BY <1>1 DEF DescribeInv, RunOK, Underway
  <1>4. ListingOK'
    BY <1>1 DEF DescribeInv, ListingOK, Underway
  <1>5. Described' = Described /\ info' = info /\ \A p : OptionsOf(p)' = OptionsOf(p)
    BY <1>1 DEF Described, info, OptionsOf
  <1>6. HashingOK'
    BY <1>1, <1>5 DEF DescribeInv, HashingOK, Underway
  <1>7. EntriesOK'
    <2>1. \A f : DescribedOK(f) => DescribedOK(f)'
      BY <1>1, <1>5 DEF DescribedOK
    <2> QED BY <1>1, <2>1 DEF DescribeInv, EntriesOK, Underway
  <1>8. DocOK'
    BY <1>1, <1>5 DEF DescribeInv, DocOK, HasDoc, Underway
  <1> QED BY <1>2, <1>3, <1>4, <1>6, <1>7, <1>8 DEF DescribeInv

LEMMA StepBegin == ASSUME DescribeInv, Begin PROVE DescribeInv'
  <1>1. /\ pc \in {"ready", "saved", "failed"} /\ asked # <<>>
        /\ config' = Head(asked) /\ asked' = Tail(asked) /\ tree' = config'.tree
        /\ hashing' = None /\ entries' = {} /\ doc' = None /\ UNCHANGED chunkerVars
    BY DEF Begin
  <1>2. IF config'.dest # Remote /\ Nested(config'.source, config'.dest)
        THEN pc' = "refused"
        ELSE pc' = "hash" /\ listing' = [p \in DOMAIN tree' |-> Len(tree'[p])]
    BY DEF Begin
  <1>3. asked' \in Seq(AnyCommand) /\ config' \in AnyCommand
    <2>1. asked \in Seq(AnyCommand)
      BY DEF DescribeInv, RunOK
    <2> HIDE DEF AnyCommand
    <2> QED BY <1>1, <2>1
  <1>4. CommandOK(config')
    BY <1>3, Commanded
  <1>5. CuttingOK'
    <2>1. ChunkerInv => ChunkerInv'
      BY <1>1, StepStutter
    <2> QED BY <1>1, <2>1 DEF DescribeInv, CuttingOK, chunkerVars, cutter
  <1>6. RunOK'
    BY <1>2, <1>3 DEF RunOK, Underway
  <1>7. ListingOK'
    <2> SUFFICES ASSUME Underway' PROVE ListingOK'
      BY DEF ListingOK
    <2>1. listing' = [p \in DOMAIN tree' |-> Len(tree'[p])] /\ tree' = config'.tree
      BY <1>1, <1>2 DEF Underway
    <2>2. \A p \in DOMAIN tree' : tree'[p] \in Streams /\ Len(tree'[p]) \in Nat
      BY <1>4, <2>1, ChunkerAssumption DEF CommandOK
    <2> QED BY <2>1, <2>2 DEF ListingOK
  <1>8. HashingOK' /\ EntriesOK' /\ DocOK'
    <2>1. IsFiniteSet({})
      BY FS_EmptySet
    <2>2. pc' # "built"
      BY <1>2
    <2> QED BY <1>1, <2>1, <2>2 DEF HashingOK, EntriesOK, DocOK, HasDoc
  <1> QED BY <1>5, <1>6, <1>7, <1>8 DEF DescribeInv

LEMMA StepEdit == ASSUME DescribeInv, NEW p \in DOMAIN listing, Edit(p) PROVE DescribeInv'
  <1>1. PICK b \in config.edits : tree' = [tree EXCEPT ![p] = b]
    BY DEF Edit
  <1>2. UNCHANGED <<chunkerVars, pc, asked, config, listing, hashing, entries, doc>>
        /\ pc = "hash"
    BY DEF Edit
  <1>3. CuttingOK'
    <2>1. ChunkerInv => ChunkerInv'
      BY <1>2, StepStutter
    <2> QED BY <1>2, <2>1 DEF DescribeInv, CuttingOK, chunkerVars, cutter
  <1>4. RunOK'
    BY <1>2 DEF DescribeInv, RunOK, Underway
  <1>5. ListingOK'
    <2>1. config \in AnyCommand /\ Underway
      BY <1>2 DEF DescribeInv, RunOK, Underway
    <2>2. b \in Streams
      BY <2>1, Commanded DEF CommandOK
    <2>3. /\ DOMAIN tree = DOMAIN config.tree /\ DOMAIN listing = DOMAIN config.tree
          /\ \A q \in DOMAIN listing : tree[q] \in Streams /\ listing[q] \in Nat
      BY <2>1 DEF DescribeInv, ListingOK
    <2>4. DOMAIN tree' = DOMAIN tree /\ \A q \in DOMAIN tree : tree'[q] \in Streams
      BY <1>1, <2>2, <2>3
    <2> QED BY <1>2, <2>3, <2>4 DEF ListingOK
  <1>6. Described' = Described /\ info' = info /\ \A q : OptionsOf(q)' = OptionsOf(q)
    BY <1>2 DEF Described, info, OptionsOf
  <1>7. HashingOK'
    BY <1>2, <1>6 DEF DescribeInv, HashingOK, Underway, chunkerVars
  <1>8. EntriesOK'
    <2>1. \A f : DescribedOK(f) => DescribedOK(f)'
      BY <1>2, <1>6 DEF DescribedOK
    <2> QED BY <1>2, <2>1 DEF DescribeInv, EntriesOK, Underway
  <1>9. DocOK'
    BY <1>2, <1>6 DEF DescribeInv, DocOK, HasDoc, Underway
  <1> QED BY <1>3, <1>4, <1>5, <1>7, <1>8, <1>9 DEF DescribeInv

LEMMA StepHashEntry ==
    ASSUME DescribeInv, NEW p \in DOMAIN listing, HashEntry(p)
    PROVE  DescribeInv'
  <1>1. /\ pc = "hash" /\ p \notin Described /\ hashing' = p
        /\ NewChunker(tree[p], OptionsOf(p))
        /\ UNCHANGED <<pc, run, listing, edited, entries, doc>>
    BY DEF HashEntry, OptionsOf
  <1>2. config \in AnyCommand /\ Underway /\ tree[p] \in Streams
    BY <1>1 DEF DescribeInv, RunOK, ListingOK, Underway
  <1>3. OptionsOf(p) \in Options
    BY <1>2, Commanded, ChosenOptions DEF CommandOK, OptionsOf
  <1>4. /\ ChunkerInv' /\ at' # "idle" /\ request' = OptionsOf(p)
        /\ opt' = Normalized(OptionsOf(p)) /\ (at' # "refused" => Valid(opt'))
    BY <1>1, <1>2, <1>3, NewChunkerStarts
  <1>5. UNCHANGED <<pc, asked, config, tree, listing, entries, doc>>
    BY <1>1 DEF run
  <1>6. CuttingOK' /\ RunOK' /\ ListingOK'
    BY <1>4, <1>5 DEF DescribeInv, CuttingOK, RunOK, ListingOK, Underway
  <1>7. Described' = Described /\ info' = info /\ \A q : OptionsOf(q)' = OptionsOf(q)
    BY <1>5 DEF Described, info, OptionsOf
  <1>8. HashingOK'
    <2>1. OptionsOf(hashing)' = OptionsOf(p)
      BY <1>1, <1>5 DEF info, OptionsOf
    <2> QED BY <1>1, <1>2, <1>4, <1>5, <1>7, <2>1 DEF HashingOK, Underway
  <1>9. EntriesOK'
    <2>1. \A f : DescribedOK(f) => DescribedOK(f)'
      BY <1>5, <1>7 DEF DescribedOK
    <2> QED BY <1>5, <2>1 DEF DescribeInv, EntriesOK, Underway
  <1>10. DocOK'
    BY <1>5, <1>7 DEF DescribeInv, DocOK, HasDoc, Underway
  <1> QED BY <1>6, <1>8, <1>9, <1>10 DEF DescribeInv

LEMMA StepChunker == ASSUME DescribeInv, ChunkerStep PROVE DescribeInv'
  <1>1. pc = "hash" /\ hashing # None /\ ChunkerNext /\ UNCHANGED <<pc, run, building>>
    BY DEF ChunkerStep
  <1>2. /\ request' = request /\ opt' = opt
        /\ at \notin {"refused", "idle"} /\ at' \notin {"refused", "idle"}
    BY <1>1, ChunkerKeeps
  <1>3. UNCHANGED <<pc, asked, config, tree, listing, hashing, entries, doc>>
    BY <1>1 DEF run, building
  <1>4. CuttingOK'
    <2>1. ChunkerInv
      BY <1>2 DEF DescribeInv, CuttingOK
    <2>2. ChunkerInv'
      BY <1>1, <2>1, InvStep
    <2> QED BY <1>2, <2>2 DEF CuttingOK
  <1>5. RunOK' /\ ListingOK'
    BY <1>3 DEF DescribeInv, RunOK, ListingOK, Underway
  <1>6. Described' = Described /\ info' = info /\ \A q : OptionsOf(q)' = OptionsOf(q)
    BY <1>3 DEF Described, info, OptionsOf
  <1>7. HashingOK'
    <2>1. OptionsOf(hashing)' = OptionsOf(hashing)
      BY <1>3 DEF info, OptionsOf
    <2>2. HashingOK
      BY DEF DescribeInv
    <2>3. /\ Underway' /\ at' # "idle" /\ hashing' \in (DOMAIN listing') \ Described'
          /\ request' = OptionsOf(hashing)' /\ opt' = Normalized(request') /\ Valid(opt')
      BY <1>1, <1>2, <1>3, <1>6, <2>1, <2>2 DEF HashingOK, Underway
    <2> QED BY <2>3 DEF HashingOK
  <1>8. EntriesOK'
    <2>1. \A f : DescribedOK(f) => DescribedOK(f)'
      BY <1>3, <1>6 DEF DescribedOK
    <2> QED BY <1>3, <2>1 DEF DescribeInv, EntriesOK, Underway
  <1>9. DocOK'
    BY <1>3, <1>6 DEF DescribeInv, DocOK, HasDoc, Underway
  <1> QED BY <1>4, <1>5, <1>7, <1>8, <1>9 DEF DescribeInv

\* The chunks of a file that has been read to its end lie in one row.
LEMMA EntryInOneRow ==
    ASSUME ChunkerInv, at = "eof", NEW p
    PROVE  InOneRow(Entry(p)) /\ off \in Nat
  <1> DEFINE chunks == ChunksOf(stream)
             n == Len(cuts)
  <1>1. CutsOK /\ off \in Nat
    BY DEF ChunkerInv, Running, BufferOK, InRange
  <1>2. cuts \in Seq([off : Nat, len : Nat]) /\ n \in Nat /\ DOMAIN cuts = 1 .. n
    BY <1>1 DEF CutsOK
  <1>3. \A k \in 1 .. n : chunks[k].offset = cuts[k].off /\ chunks[k].length = cuts[k].len
    BY <1>2 DEF ChunksOf
  <1>4. \A k \in 1 .. n :
            /\ cuts[k].len > 0 /\ cuts[k].off \in Nat /\ cuts[k].len \in Nat
            /\ cuts[k].off + cuts[k].len = IF k = n THEN off ELSE cuts[k + 1].off
    <2>1. \A k \in 1 .. n : cuts[k] \in [off : Nat, len : Nat]
      <3>1. cuts \in Seq([off : Nat, len : Nat])
        BY <1>2
      <3> QED BY <3>1, ElementOfSeq
    <2>2. \A k \in 1 .. n : CutOK(k)
      BY <1>1 DEF CutsOK
    <2> QED BY <2>1, <2>2 DEF CutOK
  <1>5. IF cuts = <<>> THEN off = 0 ELSE cuts[1].off = 0
    BY <1>1 DEF CutsOK
  <1>6. DOMAIN chunks = 1 .. n /\ Len(chunks) = n
    <2>1. chunks = [k \in 1 .. n |->
                      [offset |-> cuts[k].off, length |-> cuts[k].len,
                       digest |-> Sum(SubSeq(stream, cuts[k].off + 1, cuts[k].off + cuts[k].len))]]
      BY <1>2 DEF ChunksOf
    <2> HIDE DEF chunks, n
    <2>2. DOMAIN chunks = 1 .. n
      BY <2>1
    <2> QED BY <1>2, <2>2
  <1>7. chunks = <<>> <=> n = 0
    <2>1. chunks = [k \in 1 .. n |->
                      [offset |-> cuts[k].off, length |-> cuts[k].len,
                       digest |-> Sum(SubSeq(stream, cuts[k].off + 1, cuts[k].off + cuts[k].len))]]
      BY <1>2 DEF ChunksOf
    <2> HIDE DEF chunks, n
    <2>2. CASE n = 0
      <3>1. 1 .. n = {}
        BY <2>2
      <3> QED BY <2>1, <2>2, <3>1
    <2>3. CASE n # 0
      <3>1. 1 \in DOMAIN chunks
        BY <1>2, <1>6, <2>3
      <3> QED BY <2>3, <3>1
    <2> QED BY <2>2, <2>3
  <1>8. cuts = <<>> <=> n = 0
    BY <1>2
  <1> HIDE DEF chunks, n
  <1>9. \A i \in 1 .. n :
          /\ chunks[i].offset = IF i = 1 THEN 0 ELSE End(chunks[i - 1])
          /\ chunks[i].length # 0
    <2> SUFFICES ASSUME NEW i \in 1 .. n
                 PROVE  /\ chunks[i].offset = IF i = 1 THEN 0 ELSE End(chunks[i - 1])
                        /\ chunks[i].length # 0
      OBVIOUS
    <2>1. chunks[i].length # 0
      BY <1>3, <1>4
    <2>2. CASE i = 1
      <3>1. cuts[1].off = 0 /\ 1 \in 1 .. n
        BY <1>2, <1>5, <1>8, <2>2
      <3>2. chunks[1].offset = 0
        BY <1>3, <3>1
      <3> QED BY <2>1, <2>2, <3>2
    <2>3. CASE i # 1
      <3>1. i - 1 \in 1 .. n /\ i - 1 # n /\ (i - 1) + 1 = i
        BY <1>2, <2>3
      <3>2. cuts[i - 1].off + cuts[i - 1].len = cuts[i].off
        BY <1>4, <3>1
      <3> QED BY <1>3, <2>1, <2>3, <3>1, <3>2 DEF End
    <2> QED BY <2>1, <2>2, <2>3
  <1>10. off = IF chunks = <<>> THEN 0 ELSE End(chunks[n])
    <2>1. CASE n = 0
      BY <1>5, <1>7, <1>8, <2>1
    <2>2. CASE n # 0
      <3>1. n \in 1 .. n
        BY <1>2, <2>2
      <3>2. cuts[n].off + cuts[n].len = off
        BY <1>4, <3>1
      <3> QED BY <1>3, <1>7, <2>2, <3>1, <3>2 DEF End
    <2> QED BY <2>1, <2>2
  <1>11. Entry(p).chunks = chunks /\ Entry(p).size = off
    BY DEF Entry, chunks
  <1> QED BY <1>1, <1>6, <1>9, <1>10, <1>11 DEF InOneRow

\* No chunk reaches beyond the end of the stream.
LEMMA ChunksAreWhole ==
    ASSUME ChunkerInv, at = "eof", NEW p
    PROVE  ChunksOK(Entry(p))
  <1> DEFINE chunks == ChunksOf(stream)
             n == Len(cuts)
             bytes(k) == SubSeq(stream, cuts[k].off + 1, cuts[k].off + cuts[k].len)
  <1>1. OptOK /\ CutsOK /\ stream \in Seq(Byte)
    BY DEF ChunkerInv, Running, BufferOK, InRange
  <1>2. cuts \in Seq([off : Nat, len : Nat]) /\ n \in Nat /\ DOMAIN cuts = 1 .. n
    BY <1>1 DEF CutsOK
  <1>3. ASSUME NEW k \in 1 .. n
        PROVE  /\ cuts[k].off \in Nat /\ cuts[k].len \in Nat
               /\ Len(bytes(k)) = cuts[k].len
    <2> DEFINE o == cuts[k].off
               l == cuts[k].len
               w == Window(o)
               z == Len(stream)
               e == AtMost(o + opt.max, z)
    <2>1. o \in Nat /\ l \in Nat
      <3>1. cuts[k] \in [off : Nat, len : Nat]
        BY <1>2, ElementOfSeq
      <3> QED BY <3>1
    <2>2. l = FindCut(w, opt) /\ l > 0
      BY <1>1 DEF CutsOK, CutOK
    <2>3. opt.min \in Nat \ {0} /\ opt.max \in Nat /\ opt.min <= opt.max
      BY <1>1 DEF OptOK
    <2>4. z \in Nat
      BY <1>1
    <2>5. w = SubSeq(stream, o + 1, e)
      BY DEF Window
    <2>6. bytes(k) = SubSeq(stream, o + 1, o + l)
      OBVIOUS
    <2> SUFFICES Len(SubSeq(stream, o + 1, o + l)) = l
      BY <2>1, <2>6
    <2> HIDE DEF o, l
    <2>7. e \in Nat /\ e <= z
      BY <2>1, <2>3, <2>4 DEF AtMost
    <2> HIDE DEF e
    <2>8. w # <<>>
      <3>1. FindCut(<<>>, opt) = 0
        BY <2>3 DEF FindCut, AtMost
      <3> HIDE DEF w
      <3> QED BY <2>2, <3>1
    <2>9. o <= e
      <3>1. ~ (o <= e) => SubSeq(stream, o + 1, e) = <<>>
        BY <1>1, <2>1, <2>7
      <3> HIDE DEF w
      <3> QED BY <2>5, <2>8, <3>1
    <2>10. w \in Seq(Byte) /\ Len(w) = e - o
      <3> HIDE DEF w, z
      <3>1. e <= Len(stream)
        BY <2>7 DEF z
      <3> QED BY <1>1, <2>1, <2>5, <2>7, <2>9, <3>1, Stretch
    <2> HIDE DEF w
    <2>11. l \in 1 .. AtMost(Len(w), opt.max)
      BY <2>2, <2>3, <2>8, <2>10, FindCutRange
    <2>12. o + l <= z /\ o + l \in Nat /\ o <= o + l
      BY <2>1, <2>3, <2>4, <2>7, <2>9, <2>10, <2>11 DEF AtMost
    <2>13. Len(SubSeq(stream, o + 1, o + l)) = (o + l) - o
      BY <1>1, <2>1, <2>12, Stretch DEF z
    <2> QED BY <2>1, <2>13
  <1>4. chunks = [k \in 1 .. n |-> [offset |-> cuts[k].off, length |-> cuts[k].len,
                                   digest |-> Sum(bytes(k))]]
    BY <1>2 DEF ChunksOf
  <1> HIDE DEF chunks, n
  <1>5. DOMAIN chunks = 1 .. n /\ Len(chunks) = n
    BY <1>2, <1>4
  <1>6. ASSUME NEW k \in 1 .. n
        PROVE  /\ chunks[k].offset \in Nat /\ chunks[k].length \in Nat
               /\ Len(chunks[k].digest.nums) = chunks[k].length
    <2> DEFINE b == bytes(k)
    <2>1. /\ chunks[k].offset = cuts[k].off /\ chunks[k].length = cuts[k].len
          /\ chunks[k].digest = Sum(b)
      BY <1>4
    <2>2. Len(b) = cuts[k].len /\ cuts[k].off \in Nat /\ cuts[k].len \in Nat
      BY <1>3
    <2> HIDE DEF b
    <2>3. Sum(b).nums = b
      BY DEF Sum, Unit
    <2> QED BY <2>1, <2>2, <2>3
  <1>7. Entry(p).chunks = chunks
    BY DEF Entry, chunks
  <1> QED BY <1>2, <1>5, <1>6, <1>7 DEF ChunksOK

LEMMA StepEntryEnds == ASSUME DescribeInv, EntryEnds PROVE DescribeInv'
  <1>1. /\ pc = "hash" /\ hashing # None /\ at = "eof"
        /\ entries' = entries \union {Entry(hashing)} /\ hashing' = None
        /\ UNCHANGED <<chunkerVars, pc, run, listing, edited, doc>>
    BY DEF EntryEnds
  <1>2. UNCHANGED <<pc, asked, config, tree, listing, doc>>
    BY <1>1 DEF run
  <1>3. CuttingOK'
    <2>1. ChunkerInv => ChunkerInv'
      BY <1>1, StepStutter
    <2> QED BY <1>1, <2>1 DEF DescribeInv, CuttingOK, chunkerVars, cutter
  <1>4. RunOK' /\ ListingOK' /\ HashingOK'
    BY <1>1, <1>2 DEF DescribeInv, RunOK, ListingOK, HashingOK, Underway
  <1>5. info' = info /\ \A q : OptionsOf(q)' = OptionsOf(q)
    BY <1>2 DEF info, OptionsOf
  <1>6. DescribedOK(Entry(hashing))
    <2>1. ChunkerInv
      BY <1>1 DEF DescribeInv, CuttingOK
    <2>2. InOneRow(Entry(hashing)) /\ off \in Nat /\ ChunksOK(Entry(hashing))
      BY <1>1, <2>1, EntryInOneRow, ChunksAreWhole
    <2>3. hashing \in DOMAIN listing /\ request = OptionsOf(hashing)
      BY <1>1 DEF DescribeInv, HashingOK
    <2>4. /\ Entry(hashing).path = hashing /\ Entry(hashing).size = off
          /\ Entry(hashing).role = info.roles[hashing] /\ Entry(hashing).chunker = request
      BY DEF Entry
    <2> QED BY <2>2, <2>3, <2>4 DEF DescribedOK
  <1>7. EntriesOK'
    <2>1. /\ IsFiniteSet(entries)
          /\ \A f \in entries : DescribedOK(f)
          /\ \A f, g \in entries : f.path = g.path => f = g
      BY <1>1 DEF DescribeInv, EntriesOK, Underway
    <2>2. \A f : DescribedOK(f) => DescribedOK(f)'
      BY <1>2, <1>5 DEF DescribedOK
    <2>3. IsFiniteSet(entries')
      BY <1>1, <2>1, FS_AddElement
    <2>4. \A f \in entries' : DescribedOK(f)'
      BY <1>1, <1>6, <2>1, <2>2
    <2>5. \A f \in entries : f.path # Entry(hashing).path
      <3>1. hashing \notin Described
        BY <1>1 DEF DescribeInv, HashingOK
      <3>2. Entry(hashing).path = hashing
        BY DEF Entry
      <3> QED BY <3>1, <3>2 DEF Described
    <2>6. \A f, g \in entries' : f.path = g.path => f = g
      BY <1>1, <2>1, <2>5
    <2> QED BY <2>3, <2>4, <2>6 DEF EntriesOK
  <1>8. DocOK'
    BY <1>1, <1>2 DEF DescribeInv, DocOK, HasDoc
  <1> QED BY <1>3, <1>4, <1>7, <1>8 DEF DescribeInv

LEMMA StepBuildFails == ASSUME DescribeInv, BuildFails PROVE DescribeInv'
  <1>1. /\ pc = "hash" /\ pc' = "failed" /\ hashing' = None
        /\ UNCHANGED <<chunkerVars, run, listing, edited, entries, doc>>
    BY DEF BuildFails
  <1>2. UNCHANGED <<asked, config, tree, listing, entries, doc>>
    BY <1>1 DEF run
  <1>3. CuttingOK'
    <2>1. ChunkerInv => ChunkerInv'
      BY <1>1, StepStutter
    <2> QED BY <1>1, <2>1 DEF DescribeInv, CuttingOK, chunkerVars, cutter
  <1>4. RunOK' /\ ListingOK' /\ HashingOK'
    BY <1>1, <1>2 DEF DescribeInv, RunOK, ListingOK, HashingOK, Underway
  <1>5. info' = info /\ \A q : OptionsOf(q)' = OptionsOf(q)
    BY <1>2 DEF info, OptionsOf
  <1>6. EntriesOK'
    <2>1. \A f : DescribedOK(f) => DescribedOK(f)'
      BY <1>2, <1>5 DEF DescribedOK
    <2> QED BY <1>1, <1>2, <2>1 DEF DescribeInv, EntriesOK, Underway
  <1>7. DocOK'
    BY <1>1, <1>2 DEF DescribeInv, DocOK, HasDoc
  <1> QED BY <1>3, <1>4, <1>6, <1>7 DEF DescribeInv

LEMMA StepBuildEnds == ASSUME DescribeInv, BuildEnds PROVE DescribeInv'
  <1>1. /\ pc = "hash" /\ pc' = "built" /\ Described = DOMAIN listing
        /\ doc' = Finalize(defaultChunker(listing, info.roles, config.pin), entries, info)
        /\ UNCHANGED <<chunkerVars, run, listing, edited, hashing, entries>>
    BY DEF BuildEnds
  <1>2. UNCHANGED <<asked, config, tree, listing, hashing, entries>>
    BY <1>1 DEF run
  <1>3. CuttingOK'
    <2>1. ChunkerInv => ChunkerInv'
      BY <1>1, StepStutter
    <2> QED BY <1>1, <2>1 DEF DescribeInv, CuttingOK, chunkerVars, cutter
  <1>4. RunOK' /\ ListingOK'
    BY <1>1, <1>2 DEF DescribeInv, RunOK, ListingOK, Underway
  <1>5. /\ Described' = Described /\ info' = info /\ \A q : OptionsOf(q)' = OptionsOf(q)
        /\ UNCHANGED <<request, opt, at>>
    BY <1>1, <1>2 DEF Described, info, OptionsOf, chunkerVars
  <1>6. HashingOK'
    BY <1>1, <1>2, <1>5 DEF DescribeInv, HashingOK, Underway
  <1>7. EntriesOK'
    <2>1. \A f : DescribedOK(f) => DescribedOK(f)'
      BY <1>2, <1>5 DEF DescribedOK
    <2> QED BY <1>1, <1>2, <2>1 DEF DescribeInv, EntriesOK, Underway
  <1>8. DocOK'
    <2>1. Described' = DOMAIN listing'
      BY <1>1, <1>2, <1>5
    <2>2. defaultChunker(listing, info.roles, config.pin)' = defaultChunker(listing, info.roles, config.pin)
      BY <1>2, <1>5 DEF defaultChunker
    <2>3. doc' = Finalize(defaultChunker(listing, info.roles, config.pin)', entries', info')
      BY <1>1, <1>2, <1>5, <2>2
    <2> QED BY <1>1, <2>1, <2>3 DEF DocOK, HasDoc, Underway
  <1> QED BY <1>3, <1>4, <1>6, <1>7, <1>8 DEF DescribeInv

LEMMA DescribeKeeps == DescribeInv /\ [DescribeNext]_describeVars => DescribeInv'
  <1> SUFFICES ASSUME DescribeInv, [DescribeNext]_describeVars PROVE DescribeInv'
    OBVIOUS
  <1>1. CASE Begin
    BY <1>1, StepBegin
  <1>2. CASE ChunkerStep
    BY <1>2, StepChunker
  <1>3. CASE EntryEnds
    BY <1>3, StepEntryEnds
  <1>4. CASE BuildFails
    BY <1>4, StepBuildFails
  <1>5. CASE BuildEnds
    BY <1>5, StepBuildEnds
  <1>6. ASSUME NEW p \in DOMAIN listing, Edit(p) \/ HashEntry(p) PROVE DescribeInv'
    BY <1>6, StepEdit, StepHashEntry
  <1>7. CASE SaveBegins \/ SaveWrites \/ SaveSyncs \/ SaveRenames \/ SaveFails \/ PowerLoss \/ Copy
    <2>1. /\ UNCHANGED <<chunkerVars, run, building>> /\ Underway /\ Underway'
          /\ pc' \notin {"hash", "built"}
      BY <1>7 DEF SaveBegins, SaveWrites, SaveSyncs, SaveRenames, SaveFails, PowerLoss, Copy,
                  Underway
    <2> QED BY <2>1, QuietSteps
  <1>8. CASE UNCHANGED describeVars
    <2>1. UNCHANGED <<chunkerVars, run, building, pc>>
      BY <1>8 DEF describeVars
    <2>2. CASE Underway
      BY <2>1, <2>2, QuietSteps DEF Underway
    <2>3. CASE ~ Underway
      <3>1. UNCHANGED <<asked, config, hashing, doc, at, cuts, off>>
        BY <2>1 DEF run, building, chunkerVars, cutter
      <3>2. ChunkerInv => ChunkerInv'
        BY <2>1, StepStutter
      <3>3. CuttingOK' /\ RunOK'
        BY <2>1, <2>3, <3>1, <3>2 DEF DescribeInv, CuttingOK, RunOK, Underway
      <3>4. hashing = None /\ doc = None
        BY <2>3 DEF DescribeInv, HashingOK, DocOK, HasDoc
      <3>5. ~ Underway' /\ pc' # "built"
        BY <2>1, <2>3 DEF Underway
      <3> QED BY <3>1, <3>3, <3>4, <3>5
              DEF DescribeInv, ListingOK, HashingOK, EntriesOK, DocOK, HasDoc
    <2> QED BY <2>2, <2>3
  <1> QED BY <1>1, <1>2, <1>3, <1>4, <1>5, <1>6, <1>7, <1>8 DEF DescribeNext

\* The invariant holds in every state.
THEOREM DescribeInvariance == DescribeSpec => []DescribeInv
  BY DescribeStarts, DescribeKeeps, PTL DEF DescribeSpec

-----------------------------------------------------------------------------
(* A manifest that was made.                                               *)

\* The files of a manifest are in the order of their paths, and its digest is
\* that of their lines.
MadeOK(m) ==
    /\ DOMAIN m.files = 1 .. Len(m.files) /\ Len(m.files) \in Nat
    /\ \A i \in DOMAIN m.files : m.files[i].path \in Nat
    /\ \A i, j \in DOMAIN m.files : i < j => m.files[i].path < m.files[j].path
    /\ m.model.digest = ModelDigest(m.files)

\* Its files are what was described, each once, in the order of the paths.
LEMMA FilesOfDoc ==
    ASSUME DescribeInv, HasDoc
    PROVE  /\ DOMAIN doc.files = 1 .. Len(doc.files) /\ Len(doc.files) \in Nat
           /\ \A i \in DOMAIN doc.files : doc.files[i] \in entries
           /\ \A f \in entries : \E i \in DOMAIN doc.files : doc.files[i] = f
           /\ \A i, j \in DOMAIN doc.files :
                doc.files[i].path = doc.files[j].path => i = j
           /\ doc.model.shards = info.shards /\ MadeOK(doc)
           /\ doc.model.size = TotalOf(doc.files, DOMAIN doc.files)
  <1> DEFINE pairs == {e \in entries \X entries : e[1].path < e[2].path}
             n == Cardinality(entries)
             s == SortedBy(entries, pairs)
  <1>1. /\ Underway
        /\ doc = Finalize(defaultChunker(listing, info.roles, config.pin), entries, info)
    BY DEF DescribeInv, DocOK
  <1>2. /\ doc.files = s /\ doc.model.shards = info.shards
        /\ doc.model.digest = ModelDigest(doc.files)
        /\ doc.model.size = TotalOf(doc.files, DOMAIN doc.files)
    <2> DEFINE d == Finalize(defaultChunker(listing, info.roles, config.pin), entries, info)
    <2>1. /\ d.files = Sorted(entries) /\ d.model.shards = info.shards
          /\ d.model.digest = ModelDigest(Sorted(entries))
          /\ d.model.size = TotalOf(Sorted(entries), DOMAIN Sorted(entries))
      <3> DEFINE files == Sorted(entries)
                 model == [kind |-> info.kind, shards |-> info.shards, digest |-> ModelDigest(files),
                           files |-> 0, size |-> 0, weightFiles |-> 0, weightBytes |-> 0]
                 chunker == defaultChunker(listing, info.roles, config.pin)
                 m == [chunker |-> chunker, files |-> files, model |-> model]
      <3>1. d = Recount(m)
        BY DEF Finalize
      <3> HIDE DEF files, chunker
      <3>2. model.shards = info.shards /\ model.digest = ModelDigest(files)
        OBVIOUS
      <3>3. /\ m.files = files /\ m.model = model
            /\ DOMAIN m = {"chunker", "files", "model"} /\ {"shards", "digest", "size"} \subseteq DOMAIN model
        OBVIOUS
      <3> HIDE DEF m, model
      <3>4. /\ Recount(m).files = files /\ Recount(m).model.shards = info.shards
            /\ Recount(m).model.digest = ModelDigest(files)
            /\ Recount(m).model.size = TotalOf(files, DOMAIN files)
        BY <3>2, <3>3 DEF Recount
      <3> HIDE DEF d
      <3> QED BY <3>1, <3>4 DEF files
    <2>2. Sorted(entries) = s
      BY DEF Sorted
    <2>3. doc = d
      BY <1>1
    <2> HIDE DEF d, s
    <2> QED BY <2>1, <2>2, <2>3
  <1>3. /\ IsFiniteSet(entries) /\ \A f \in entries : DescribedOK(f)
        /\ \A f, g \in entries : f.path = g.path => f = g
    BY <1>1 DEF DescribeInv, EntriesOK
  <1>4. DOMAIN listing \subseteq Path
    BY <1>1, Commanded DEF DescribeInv, RunOK, ListingOK, CommandOK, Underway
  <1>5. \A f \in entries : f.path \in Nat
    BY <1>3, <1>4, LayoutAssumption DEF DescribedOK
  <1>6. \A f, g \in entries : <<f, g>> \in pairs <=> f.path < g.path
    OBVIOUS
  <1> HIDE DEF pairs
  <1>7. Orders(pairs, entries)
    <2>1. \A x \in entries : <<x, x>> \notin pairs
      BY <1>5, <1>6
    <2>2. ASSUME NEW x \in entries, NEW y \in entries, NEW z \in entries,
                 <<x, y>> \in pairs, <<y, z>> \in pairs
          PROVE  <<x, z>> \in pairs
      <3>1. x.path < y.path /\ y.path < z.path
        BY <1>6, <2>2
      <3>2. x.path \in Nat /\ y.path \in Nat /\ z.path \in Nat
        BY <1>5
      <3> QED BY <1>6, <3>1, <3>2
    <2>3. ASSUME NEW x \in entries, NEW y \in entries, x # y
          PROVE  <<x, y>> \in pairs \/ <<y, x>> \in pairs
      <3>1. x.path # y.path /\ x.path \in Nat /\ y.path \in Nat
        BY <1>3, <1>5, <2>3
      <3> QED BY <1>6, <3>1
    <2> QED BY <2>1, <2>2, <2>3 DEF Orders
  <1>8. /\ s \in Seq(entries) /\ Len(s) = n /\ n \in Nat
        /\ \A x \in entries : \E i \in 1 .. n : s[i] = x
        /\ \A i, j \in 1 .. n : i < j => <<s[i], s[j]>> \in pairs
    BY <1>3, <1>7, SortedByOrders
  <1> HIDE DEF s, n
  <1>9. DOMAIN s = 1 .. n /\ \A i \in 1 .. n : s[i] \in entries
    BY <1>8, ElementOfSeq
  <1>10. ASSUME NEW i \in 1 .. n, NEW j \in 1 .. n, i # j PROVE s[i].path # s[j].path
    <2>1. i < j \/ j < i
      BY <1>8, <1>10
    <2>2. s[i].path < s[j].path \/ s[j].path < s[i].path
      BY <1>6, <1>8, <1>9, <2>1
    <2>3. s[i].path \in Nat /\ s[j].path \in Nat
      BY <1>5, <1>9
    <2> QED BY <2>2, <2>3
  <1>11. MadeOK(doc)
    <2>1. \A i \in 1 .. n : s[i].path \in Nat
      BY <1>5, <1>9
    <2>2. \A i, j \in 1 .. n : i < j => s[i].path < s[j].path
      BY <1>6, <1>8, <1>9
    <2>3. DOMAIN doc.files = 1 .. Len(doc.files) /\ Len(doc.files) = n
      BY <1>2, <1>8, <1>9
    <2> QED BY <1>2, <1>8, <2>1, <2>2, <2>3 DEF MadeOK
  <1> QED BY <1>2, <1>8, <1>9, <1>10, <1>11

\* What the invariant says of the listing when there is a manifest.
LEMMA ListedFacts ==
    ASSUME DescribeInv, HasDoc
    PROVE  /\ DOMAIN listing \subseteq Path /\ IsFiniteSet(DOMAIN listing)
           /\ \A p \in DOMAIN listing : p \in Nat /\ p # 0 /\ listing[p] \in Nat
           /\ \A p \in DOMAIN listing : \E f \in entries : f.path = p
           /\ \A f \in entries : DescribedOK(f)
           /\ \A f, g \in entries : f.path = g.path => f = g
           /\ config.pin \in Options
  <1>1. Underway /\ Described = DOMAIN listing
    BY DEF DescribeInv, DocOK
  <1>2. CommandOK(config)
    BY <1>1, Commanded DEF DescribeInv, RunOK, Underway
  <1>3. DOMAIN listing = DOMAIN config.tree /\ \A p \in DOMAIN listing : listing[p] \in Nat
    BY <1>1 DEF DescribeInv, ListingOK
  <1>4. DOMAIN listing \subseteq Path /\ IsFiniteSet(DOMAIN listing) /\ config.pin \in Options
    BY <1>2, <1>3 DEF CommandOK
  <1>5. \A p \in DOMAIN listing : p \in Nat /\ p # 0
    BY <1>4, LayoutAssumption
  <1>6. \A p \in DOMAIN listing : \E f \in entries : f.path = p
    BY <1>1 DEF Described
  <1>7. /\ \A f \in entries : DescribedOK(f)
        /\ \A f, g \in entries : f.path = g.path => f = g
    BY <1>1 DEF DescribeInv, EntriesOK
  <1> QED BY <1>3, <1>4, <1>5, <1>6, <1>7

-----------------------------------------------------------------------------
(* Layout.                                                                 *)

\* Numbers are sorted, each once.
LEMMA AscendingOrders ==
    ASSUME NEW S \in SUBSET Nat, IsFiniteSet(S)
    PROVE  /\ Len(Ascending(S)) = Cardinality(S) /\ Cardinality(S) \in Nat
           /\ Range(Ascending(S)) = S /\ Ascending(S) \in Seq(S)
  <1> DEFINE pairs == {e \in S \X S : e[1] < e[2]}
             s == SortedBy(S, pairs)
  <1>1. \A x, y \in S : <<x, y>> \in pairs <=> x < y
    OBVIOUS
  <1>2. Ascending(S) = s
    BY DEF Ascending
  <1> HIDE DEF pairs
  <1>3. Orders(pairs, S)
    BY <1>1 DEF Orders
  <1>4. /\ s \in Seq(S) /\ Len(s) = Cardinality(S) /\ Cardinality(S) \in Nat
        /\ \A x \in S : \E i \in 1 .. Cardinality(S) : s[i] = x
    BY <1>3, SortedByOrders
  <1> HIDE DEF s
  <1>5. DOMAIN s = 1 .. Cardinality(S) /\ \A i \in 1 .. Cardinality(S) : s[i] \in S
    BY <1>4, ElementOfSeq
  <1> QED BY <1>2, <1>4, <1>5 DEF Range

\* A part of a listing makes no weight of a file that is none.
LEMMA PartsMakeNoWeights ==
    ASSUME NEW whole, NEW part, DOMAIN part \subseteq DOMAIN whole, DOMAIN whole \subseteq Path,
           \A p \in DOMAIN part : part[p] = whole[p],
           NEW p \in DOMAIN part, RolesOf(part)[p] = "weight"
    PROVE  RolesOf(whole)[p] = "weight"
  <1>1. /\ RolesOf(part)[p] =
             IF Name[p].blob /\ KindOf(part) = "ollama"
             THEN IF part[p] >= BlobWeight THEN "weight" ELSE "metadata"
             ELSE roleFor(p, part[p])
        /\ RolesOf(whole)[p] =
             IF Name[p].blob /\ KindOf(whole) = "ollama"
             THEN IF whole[p] >= BlobWeight THEN "weight" ELSE "metadata"
             ELSE roleFor(p, whole[p])
    BY DEF RolesOf
  <1>2. CASE Name[p].blob
    <2>1. Name[p].special = "none" /\ Name[p].ext = "none"
      BY <1>2, LayoutAssumption
    <2>2. roleFor(p, part[p]) = "other"
      BY <2>1 DEF roleFor
    <2>3. KindOf(part) = "ollama" /\ part[p] >= BlobWeight
      BY <1>1, <1>2, <2>2
    <2>4. {"blob", "listed"} \subseteq UNION {Marks(q) : q \in DOMAIN part}
      BY <2>3 DEF KindOf
    <2>5. {"blob", "listed"} \subseteq UNION {Marks(q) : q \in DOMAIN whole}
      BY <2>4
    <2>6. KindOf(whole) = "ollama"
      BY <2>5 DEF KindOf
    <2> QED BY <1>1, <1>2, <2>3, <2>6
  <1>3. CASE ~ Name[p].blob
    BY <1>1, <1>3
  <1> QED BY <1>2, <1>3

\* The shard sets of some parts, in the order of their families.
ShardSetsOf(list, sharded) == {ShardSet(list, G) : G \in Families(sharded)}

LEMMA ShardsInARow ==
    ASSUME NEW list, NEW sharded \in SUBSET Path, IsFiniteSet(sharded)
    PROVE  /\ ByName(ShardSetsOf(list, sharded)) \in Seq(ShardSetsOf(list, sharded))
           /\ \A x \in ShardSetsOf(list, sharded) : x \in Range(ByName(ShardSetsOf(list, sharded)))
  <1> DEFINE shards == {ShardSet(list, G) : G \in Families(sharded)}
             pairs == {e \in shards \X shards : e[1].name < e[2].name}
             of(p) == {q \in sharded : Name[q].family = Name[p].family}
             s == SortedBy(shards, pairs)
  <1>1. ASSUME NEW p \in sharded
        PROVE  /\ p \in of(p) /\ of(p) \subseteq sharded
               /\ ShardSet(list, of(p)).name = Name[p].family
    <2>1. p \in of(p) /\ of(p) \in SUBSET Nat
      BY LayoutAssumption
    <2>2. \E q \in of(p) : \A r \in of(p) : q <= r
      <3> HIDE DEF of
      <3> QED BY <2>1, LeastMember
    <2>3. FirstPath(of(p)) \in of(p)
      <3> HIDE DEF of
      <3> QED BY <2>2 DEF FirstPath
    <2>4. Name[FirstPath(of(p))].family = Name[p].family
      BY <2>3
    <2>5. ShardSet(list, of(p)).name = Name[FirstPath(of(p))].family
      BY DEF ShardSet
    <2> QED BY <2>1, <2>4, <2>5
  <1>2. Families(sharded) = {of(p) : p \in sharded}
    BY DEF Families
  <1>3. \A x \in shards : \E p \in sharded : x = ShardSet(list, of(p))
    BY <1>2
  <1>4. \A p \in sharded : ShardSet(list, of(p)) \in shards
    BY <1>2
  <1>5. \A x \in shards : x.name \in Nat
    <2>1. \A p \in sharded : Name[p].family \in Nat
      BY LayoutAssumption DEF NameForm
    <2> HIDE DEF shards, of
    <2> QED BY <1>1, <1>3, <2>1
  <1>6. \A p, q \in sharded : Name[p].family = Name[q].family => of(p) = of(q)
    OBVIOUS
  <1>7. \A x, y \in shards : <<x, y>> \in pairs <=> x.name < y.name
    OBVIOUS
  <1> HIDE DEF of, pairs
  <1>8. \A x, y \in shards : x.name = y.name => x = y
    BY <1>1, <1>3, <1>6
  <1>9. IsFiniteSet(shards)
    <2> DEFINE f == [p \in sharded |-> ShardSet(list, of(p))]
    <2> HIDE DEF shards
    <2>1. f \in Surjection(sharded, shards)
      BY <1>3, <1>4 DEF Surjection
    <2> QED BY <2>1, FS_Surjection
  <1> HIDE DEF shards
  <1>10. Orders(pairs, shards)
    <2>1. \A x \in shards : <<x, x>> \notin pairs
      BY <1>5, <1>7
    <2>2. ASSUME NEW x \in shards, NEW y \in shards, NEW z \in shards,
                 <<x, y>> \in pairs, <<y, z>> \in pairs
          PROVE  <<x, z>> \in pairs
      <3>1. x.name < y.name /\ y.name < z.name
        BY <1>7, <2>2
      <3>2. x.name \in Nat /\ y.name \in Nat /\ z.name \in Nat
        BY <1>5
      <3> QED BY <1>7, <3>1, <3>2
    <2>3. ASSUME NEW x \in shards, NEW y \in shards, x # y
          PROVE  <<x, y>> \in pairs \/ <<y, x>> \in pairs
      <3>1. x.name # y.name /\ x.name \in Nat /\ y.name \in Nat
        BY <1>5, <1>8, <2>3
      <3> QED BY <1>7, <3>1
    <2> QED BY <2>1, <2>2, <2>3 DEF Orders
  <1>11. /\ s \in Seq(shards) /\ Len(s) = Cardinality(shards)
         /\ \A x \in shards : \E i \in 1 .. Cardinality(shards) : s[i] = x
    BY <1>9, <1>10, SortedByOrders
  <1>12. ByName(shards) = s
    BY DEF ByName, pairs
  <1> HIDE DEF s
  <1>13. ASSUME NEW x \in shards PROVE x \in Range(s)
    <2>1. PICK i \in 1 .. Len(s) : s[i] = x
      BY <1>11
    <2>2. i \in DOMAIN s
      BY <1>11
    <2> QED BY <2>1, <2>2 DEF Range
  <1>14. shards = ShardSetsOf(list, sharded)
    BY DEF shards, ShardSetsOf
  <1> QED BY <1>11, <1>12, <1>13, <1>14

\* The shard sets of some parts: one for each family, of all its parts.
LEMMA ShardsOfParts ==
    ASSUME NEW list, NEW sharded \in SUBSET Path, IsFiniteSet(sharded),
           NEW F \in Families(sharded)
    PROVE  /\ F \subseteq sharded /\ F # {}
           /\ \E s \in Range(ByName({ShardSet(list, G) : G \in Families(sharded)})) :
                s = ShardSet(list, F)
  <1>1. F \subseteq sharded /\ F # {}
    BY DEF Families
  <1>2. ShardSet(list, F) \in ShardSetsOf(list, sharded)
    BY DEF ShardSetsOf
  <1>3. ShardSet(list, F) \in Range(ByName(ShardSetsOf(list, sharded)))
    BY <1>2, ShardsInARow
  <1> QED BY <1>1, <1>3 DEF ShardSetsOf

\* Some parts, each with a number of its own up to their total: they are as
\* many as the total exactly if no number is missing.
LEMMA CountTellsAll ==
    ASSUME NEW F, NEW total \in Nat, IsFiniteSet(F),
           \A p \in F : Name[p].part \in 1 .. total,
           \A p, q \in F : Name[p].part = Name[q].part => p = q
    PROVE  Cardinality(F) = total <=> {Name[p].part : p \in F} = 1 .. total
  <1> DEFINE g == [p \in F |-> Name[p].part]
  <1>1. g \in Injection(F, 1 .. total)
    <2>1. g \in [F -> 1 .. total]
      OBVIOUS
    <2>2. \A p, q \in F : g[p] = g[q] => p = q
      OBVIOUS
    <2> HIDE DEF g
    <2> QED BY <2>1, <2>2 DEF Injection, IsInjective
  <1>2. IsFiniteSet(1 .. total) /\ Cardinality(1 .. total) = total
    BY FS_Interval
  <1>3. Cardinality(F) = total <=> g \in Surjection(F, 1 .. total)
    BY <1>1, <1>2, FS_Injection
  <1>4. g \in Surjection(F, 1 .. total) <=> {Name[p].part : p \in F} = 1 .. total
    <2>1. g \in [F -> 1 .. total] /\ \A p \in F : g[p] = Name[p].part
      OBVIOUS
    <2> HIDE DEF g
    <2>2. g \in Surjection(F, 1 .. total) <=> \A t \in 1 .. total : \E p \in F : g[p] = t
      BY <2>1 DEF Surjection
    <2>3. {Name[p].part : p \in F} \subseteq 1 .. total
      OBVIOUS
    <2>4. {Name[p].part : p \in F} = 1 .. total
            <=> \A t \in 1 .. total : \E p \in F : Name[p].part = t
      <3> DEFINE numbers == 1 .. total
                 parts == {Name[p].part : p \in F}
      <3>1. \A t : t \in parts <=> \E p \in F : Name[p].part = t
        BY ZenonT(20)
      <3>2. parts \subseteq numbers
        BY <2>3
      <3> SUFFICES parts = numbers <=> \A t \in numbers : \E p \in F : Name[p].part = t
        OBVIOUS
      <3> HIDE DEF numbers, parts
      <3>3. parts = numbers <=> \A t \in numbers : t \in parts
        BY <3>2
      <3>4. parts = numbers <=> \A t \in numbers : \E p \in F : Name[p].part = t
        BY <3>1, <3>3
      <3> QED BY <3>4
    <2>5. (\A t \in 1 .. total : \E p \in F : g[p] = t)
            <=> \A t \in 1 .. total : \E p \in F : Name[p].part = t
      BY <2>1
    <2> QED BY ONLY <2>2, <2>4, <2>5
  <1> QED BY <1>3, <1>4

\* Weights come last.
LEMMA WeightsComeLast ==
    ASSUME NEW roles, DOMAIN roles \subseteq Nat, IsFiniteSet(DOMAIN roles)
    PROVE  LET order == TransferOrder(roles) IN
           /\ order \in Seq(DOMAIN roles)
           /\ \A p \in DOMAIN roles : \E i \in 1 .. Len(order) : order[i] = p
           /\ \A i, j \in 1 .. Len(order) :
                i < j /\ roles[order[i]] = "weight" => roles[order[j]] = "weight"
  <1> DEFINE D == DOMAIN roles
             rank(p) == Rank(roles[p])
             pairs == {e \in D \X D : \/ rank(e[1]) < rank(e[2])
                                      \/ rank(e[1]) = rank(e[2]) /\ e[1] < e[2]}
             s == SortedBy(D, pairs)
  <1>1. \A p, q \in D : <<p, q>> \in pairs <=> \/ rank(p) < rank(q)
                                               \/ rank(p) = rank(q) /\ p < q
    OBVIOUS
  <1>2. TransferOrder(roles) = s
    BY DEF TransferOrder
  <1>3. \A p \in D : rank(p) \in 0 .. 5 /\ (rank(p) = 5 <=> roles[p] = "weight")
    BY DEF Rank
  <1> HIDE DEF pairs, rank
  <1>4. Orders(pairs, D)
    <2>1. \A x \in D : <<x, x>> \notin pairs
      BY <1>1, <1>3
    <2>2. ASSUME NEW x \in D, NEW y \in D, NEW z \in D, <<x, y>> \in pairs, <<y, z>> \in pairs
          PROVE  <<x, z>> \in pairs
      <3>1. x \in Nat /\ y \in Nat /\ z \in Nat
        OBVIOUS
      <3>2. rank(x) \in 0 .. 5 /\ rank(y) \in 0 .. 5 /\ rank(z) \in 0 .. 5
        BY <1>3
      <3>3. /\ rank(x) < rank(y) \/ (rank(x) = rank(y) /\ x < y)
            /\ rank(y) < rank(z) \/ (rank(y) = rank(z) /\ y < z)
        BY <1>1, <2>2
      <3> QED BY <1>1, <3>1, <3>2, <3>3
    <2>3. ASSUME NEW x \in D, NEW y \in D, x # y
          PROVE  <<x, y>> \in pairs \/ <<y, x>> \in pairs
      <3>1. x \in Nat /\ y \in Nat
        OBVIOUS
      <3>2. rank(x) \in 0 .. 5 /\ rank(y) \in 0 .. 5
        BY <1>3
      <3> QED BY <1>1, <2>3, <3>1, <3>2
    <2> QED BY <2>1, <2>2, <2>3 DEF Orders
  <1>5. /\ s \in Seq(D) /\ Len(s) = Cardinality(D) /\ Cardinality(D) \in Nat
        /\ \A x \in D : \E i \in 1 .. Cardinality(D) : s[i] = x
        /\ \A i, j \in 1 .. Cardinality(D) : i < j => <<s[i], s[j]>> \in pairs
    BY <1>4, SortedByOrders
  <1> HIDE DEF s
  <1>6. ASSUME NEW i \in 1 .. Len(s), NEW j \in 1 .. Len(s), i < j, roles[s[i]] = "weight"
        PROVE  roles[s[j]] = "weight"
    <2>1. s[i] \in D /\ s[j] \in D
      BY <1>5, ElementOfSeq
    <2>2. rank(s[i]) = 5 /\ rank(s[j]) \in 0 .. 5 /\ (rank(s[j]) = 5 <=> roles[s[j]] = "weight")
      BY <1>3, <1>6, <2>1
    <2>3. rank(s[i]) < rank(s[j]) \/ rank(s[i]) = rank(s[j])
      BY <1>1, <1>5, <1>6, <2>1
    <2> QED BY <2>2, <2>3
  <1> QED BY <1>2, <1>5, <1>6

-----------------------------------------------------------------------------
(* The theorems.                                                           *)

\* Pinned options that are accepted are those that were meant.
THEOREM OptionsAreMeant == DescribeSpec => []NothingWraps
  <1>1. DescribeInv => NothingWraps
    <2> SUFFICES ASSUME DescribeInv, hashing # None, at # "refused", config.pin # NoOptions
                 PROVE  NoneWrapped(config.pin, opt)
      BY DEF NothingWraps, NoneWrapped
    <2>1. Underway /\ opt = Normalized(OptionsOf(hashing)) /\ Valid(opt)
      BY DEF DescribeInv, HashingOK
    <2>2. config.pin \in Options
      BY <2>1, Commanded DEF DescribeInv, RunOK, CommandOK, Underway
    <2>3. OptionsOf(hashing) = Normalized(config.pin)
      BY DEF OptionsOf, ChunkOptionsFor
    <2>4. opt = Normalized(config.pin)
      BY <2>1, <2>2, <2>3, NormalizedOptions
    <2> QED BY <2>1, <2>2, <2>4, ValidOptionsAreMeant
  <1> QED BY <1>1, DescribeInvariance, PTL

\* One chunker after the other, each cuts where its stream says.
THEOREM EveryCutIsCanonical == DescribeSpec => []CutsAreCanonical
  <1>1. DescribeInv => CutsAreCanonical
    <2> SUFFICES ASSUME CuttingOK PROVE CutsAreCanonical
      BY DEF DescribeInv
    <2>1. CASE at = "idle"
      BY <2>1 DEF CuttingOK, CutsAreCanonical
    <2>2. CASE at # "idle"
      BY <2>2, InvIsCanonical DEF CuttingOK
    <2> QED BY <2>1, <2>2
  <1> QED BY <1>1, DescribeInvariance, PTL

\* A manifest that was made is accepted, whatever happened to the files.
THEOREM ManifestsAreAccepted == DescribeSpec => []BuiltIsAccepted
  <1>1. DescribeInv => BuiltIsAccepted
    <2> SUFFICES ASSUME DescribeInv, doc # None
                 PROVE  Validate(doc) <=> \A p \in DOMAIN listing : Name[p].form = "clean"
      BY DEF BuiltIsAccepted
    <2>1. /\ \A i \in DOMAIN doc.files : doc.files[i] \in entries
          /\ \A f \in entries : \E i \in DOMAIN doc.files : doc.files[i] = f
          /\ \A i, j \in DOMAIN doc.files : doc.files[i].path = doc.files[j].path => i = j
      BY FilesOfDoc DEF HasDoc
    <2>2. /\ DOMAIN listing \subseteq Path
          /\ \A p \in DOMAIN listing : \E f \in entries : f.path = p
          /\ \A f \in entries : DescribedOK(f)
      BY ListedFacts DEF HasDoc
    <2>3. \A f \in entries : validateFile(f) <=> Name[f.path].form = "clean"
      <3> SUFFICES ASSUME NEW f \in entries
                   PROVE  validateFile(f) <=> Name[f.path].form = "clean"
        OBVIOUS
      <3>1. f.path \in Path /\ InOneRow(f)
        BY <2>2 DEF DescribedOK
      <3> QED BY <3>1 DEF validateFile, ValidatePath, InOneRow
    <2>4. Validate(doc) <=> \A i \in DOMAIN doc.files : validateFile(doc.files[i])
      BY <2>1 DEF Validate
    <2>5. Validate(doc) <=> \A f \in entries : Name[f.path].form = "clean"
      BY <2>1, <2>3, <2>4
    <2>6. \A f \in entries : f.path \in DOMAIN listing
      BY <2>2 DEF DescribedOK
    <2> QED BY <2>2, <2>5, <2>6
  <1> QED BY <1>1, DescribeInvariance, PTL

\* The destination cuts the same bytes in the same places.
THEOREM BothSidesCutAlike == DescribeSpec => []SidesCutAlike
  <1>1. DescribeInv => SidesCutAlike
    <2> SUFFICES ASSUME DescribeInv, doc # None, NEW f \in Range(doc.files)
                 PROVE  LET pin == IF config.dest = Remote THEN NoOptions ELSE config.pin
                            odd == \/ f.role # "weight" /\ f.size >= LargeFileThreshold
                                   \/ OptionsForSize(f.size) # OptionsForSize(listing[f.path])
                        IN  /\ HashDestOptions(doc, f.path, f.size, pin) = Normalized(f.chunker)
                            /\ config.pin = pin /\ (pin # NoOptions \/ ~ odd) =>
                                 HashDestOptions(doc, 0, f.size, pin) = Normalized(f.chunker)
      BY DEF SidesCutAlike
    <2> DEFINE pin == IF config.dest = Remote THEN NoOptions ELSE config.pin
    <2>1. /\ \A i \in DOMAIN doc.files : doc.files[i] \in entries
          /\ \A i, j \in DOMAIN doc.files : doc.files[i].path = doc.files[j].path => i = j
      BY FilesOfDoc DEF HasDoc
    <2>2. /\ \A p \in DOMAIN listing : p # 0 /\ listing[p] \in Nat
          /\ \A g \in entries : DescribedOK(g)
      BY ListedFacts DEF HasDoc
    <2>3. PICK i \in DOMAIN doc.files : doc.files[i] = f
      BY DEF Range
    <2>4. /\ f.path \in DOMAIN listing /\ f.size \in Nat /\ f.role = info.roles[f.path]
          /\ f.chunker = ChunkOptionsFor(f.role, listing[f.path], config.pin)
      BY <2>1, <2>2, <2>3 DEF DescribedOK, OptionsOf
    <2>5. HashDestOptions(doc, f.path, f.size, pin) = Normalized(f.chunker)
      <3>1. f.path \in PathsOf(doc)
        BY <2>3 DEF PathsOf
      <3>2. Lookup(doc, f.path) = f
        <4>1. \A j \in DOMAIN doc.files : doc.files[j].path = f.path => j = i
          BY <2>1, <2>3
        <4>2. (CHOOSE j \in DOMAIN doc.files : doc.files[j].path = f.path) = i
          BY <2>3, <4>1
        <4> QED BY <2>3, <4>2 DEF Lookup
      <3> QED BY <3>1, <3>2 DEF HashDestOptions
    <2>6. 0 \notin PathsOf(doc)
      BY <2>1, <2>2 DEF PathsOf, DescribedOK
    <2>7. HashDestOptions(doc, 0, f.size, pin)
            = Normalized(ChunkOptionsFor(roleGuess(f.size), f.size, pin))
      BY <2>6 DEF HashDestOptions
    <2> HIDE DEF pin
    <2>8. ASSUME config.pin = pin, pin # NoOptions
          PROVE  HashDestOptions(doc, 0, f.size, pin) = Normalized(f.chunker)
      BY <2>4, <2>7, <2>8 DEF ChunkOptionsFor
    <2>9. ASSUME config.pin = pin, pin = NoOptions,
                 f.role = "weight" \/ ~ (f.size >= LargeFileThreshold),
                 OptionsForSize(f.size) = OptionsForSize(listing[f.path])
          PROVE  HashDestOptions(doc, 0, f.size, pin) = Normalized(f.chunker)
      <3>1. /\ LargeFileThreshold \in Nat /\ HugeFileThreshold \in Nat
            /\ LargeFileThreshold <= HugeFileThreshold
        BY DescribeAssumption
      <3>2. f.chunker = IF f.role = "weight" THEN OptionsForSize(f.size) ELSE Small
        BY <2>4, <2>9 DEF ChunkOptionsFor
      <3>3. f.size < LargeFileThreshold => OptionsForSize(f.size) = Small
        BY <2>4, <3>1 DEF OptionsForSize
      <3>4. ChunkOptionsFor(roleGuess(f.size), f.size, pin)
              = IF f.size >= LargeFileThreshold THEN OptionsForSize(f.size) ELSE Small
        BY <2>9 DEF ChunkOptionsFor, roleGuess
      <3>5. ChunkOptionsFor(roleGuess(f.size), f.size, pin) = f.chunker
        <4>1. CASE f.size >= LargeFileThreshold
          BY <2>9, <3>2, <3>4, <4>1
        <4>2. CASE ~ (f.size >= LargeFileThreshold)
          <5>1. f.size < LargeFileThreshold
            BY <2>4, <3>1, <4>2
          <5> QED BY <3>2, <3>3, <3>4, <4>2, <5>1
        <4> QED BY <4>1, <4>2
      <3> QED BY <2>7, <3>5
    <2> QED BY <2>5, <2>8, <2>9 DEF pin
  <1> QED BY <1>1, DescribeInvariance, PTL

\* What has landed of an interrupted transfer looks like a model without its
\* weights until nothing but weights is missing.
THEOREM OrderIsSafe == DescribeSpec => []OrderTellsIncomplete
  <1>1. DescribeInv => OrderTellsIncomplete
    <2> SUFFICES ASSUME DescribeInv, doc # None
                 PROVE  LET roles == [p \in DOMAIN listing |-> info.roles[p]]
                            order == TransferOrder(roles)
                        IN  \A n \in 0 .. Len(order) :
                              LET landed == [p \in Range(SubSeq(order, 1, n)) |-> listing[p]] IN
                              "weight" \in Range(RolesOf(landed)) =>
                                \A p \in DOMAIN roles \ DOMAIN landed : roles[p] = "weight"
      BY DEF OrderTellsIncomplete
    <2> DEFINE roles == [p \in DOMAIN listing |-> info.roles[p]]
               order == TransferOrder(roles)
               landed(n) == [p \in Range(SubSeq(order, 1, n)) |-> listing[p]]
    <2>1. /\ DOMAIN listing \subseteq Path /\ IsFiniteSet(DOMAIN listing)
          /\ DOMAIN listing \subseteq Nat
      BY ListedFacts DEF HasDoc
    <2>2. DOMAIN roles = DOMAIN listing /\ \A p \in DOMAIN listing : roles[p] = RolesOf(listing)[p]
      BY DEF info, Detect
    <2> HIDE DEF roles
    <2>3. /\ order \in Seq(DOMAIN listing)
          /\ \A p \in DOMAIN listing : \E i \in 1 .. Len(order) : order[i] = p
          /\ \A i, j \in 1 .. Len(order) :
               i < j /\ roles[order[i]] = "weight" => roles[order[j]] = "weight"
      BY <2>1, <2>2, WeightsComeLast
    <2> HIDE DEF order
    <2> SUFFICES ASSUME NEW n \in 0 .. Len(order), "weight" \in Range(RolesOf(landed(n))),
                        NEW q \in DOMAIN listing, q \notin DOMAIN landed(n)
                 PROVE  roles[q] = "weight"
      BY <2>2 DEF roles, order
    <2>4. Len(order) \in Nat /\ \A i \in 1 .. Len(order) : order[i] \in DOMAIN listing
      <3> DEFINE D == DOMAIN listing
      <3> HIDE DEF D
      <3>1. order \in Seq(D)
        BY <2>3 DEF D
      <3>2. Len(order) \in Nat /\ \A i \in 1 .. Len(order) : order[i] \in D
        BY <3>1, ElementOfSeq
      <3> QED BY <3>2 DEF D
    <2>5. /\ DOMAIN SubSeq(order, 1, n) = 1 .. n
          /\ \A i \in 1 .. n : SubSeq(order, 1, n)[i] = order[i]
      <3>1. n \in Nat /\ n <= Len(order)
        BY <2>4
      <3> QED BY <2>3, <3>1
    <2>6. Range(SubSeq(order, 1, n)) = {order[i] : i \in 1 .. n}
      BY <2>5 DEF Range
    <2>7. /\ DOMAIN landed(n) = {order[i] : i \in 1 .. n}
          /\ \A p \in DOMAIN landed(n) : landed(n)[p] = listing[p]
      BY <2>6
    <2>8. DOMAIN landed(n) \subseteq DOMAIN listing
      BY <2>4, <2>7
    <2> HIDE DEF landed
    <2>9. PICK p \in DOMAIN landed(n) : RolesOf(landed(n))[p] = "weight"
      BY DEF Range, RolesOf
    <2>10. RolesOf(listing)[p] = "weight"
      BY <2>1, <2>7, <2>8, <2>9, PartsMakeNoWeights
    <2>11. PICK i \in 1 .. n : order[i] = p
      BY <2>7
    <2>12. PICK j \in 1 .. Len(order) : order[j] = q
      BY <2>3
    <2>13. j \notin 1 .. n
      BY <2>7, <2>12
    <2>14. i \in 1 .. Len(order) /\ i < j
      BY <2>4, <2>13
    <2>15. roles[p] = "weight"
      BY <2>2, <2>8, <2>10
    <2> QED BY <2>3, <2>11, <2>12, <2>14, <2>15
  <1> QED BY <1>1, DescribeInvariance, PTL

\* As long as names are regular, a shard set is called complete exactly if it is.
THEOREM CompleteSetsAreComplete == DescribeSpec => []CompleteIsComplete
  <1>1. DescribeInv => CompleteIsComplete
    <2> DEFINE weights == {p \in DOMAIN listing : info.roles[p] = "weight" /\ Name[p].total > 1}
    <2> SUFFICES ASSUME DescribeInv, doc # None,
                        NEW F \in {{q \in weights : Name[q].family = Name[p].family} : p \in weights},
                        \A p, q \in F : /\ Name[p].total = Name[q].total
                                        /\ Name[p].part = Name[q].part => p = q,
                        \A p \in F : Name[p].part \in 1 .. Name[p].total
                 PROVE  \E s \in Range(doc.model.shards) :
                          /\ Range(s.parts) = F
                          /\ Complete(s) <=>
                               {Name[p].part : p \in F} = 1 .. Name[CHOOSE p \in F : TRUE].total
      BY DEF CompleteIsComplete
    <2>1. DOMAIN listing \subseteq Path /\ IsFiniteSet(DOMAIN listing)
      BY ListedFacts DEF HasDoc
    <2>2. weights \in SUBSET Path /\ IsFiniteSet(weights)
      BY <2>1, FS_Subset
    <2>3. doc.model.shards = ByName({ShardSet(listing, G) : G \in Families(weights)})
      <3>1. doc.model.shards = detectShards(listing, RolesOf(listing)) /\ info.roles = RolesOf(listing)
        BY FilesOfDoc DEF info, Detect, HasDoc
      <3> QED BY <3>1 DEF detectShards
    <2>4. F \in Families(weights) /\ \A p \in weights : Name[p].total > 1
      BY DEF Families
    <2> HIDE DEF weights
    <2>5. F \subseteq weights /\ F # {} /\ ShardSet(listing, F) \in Range(doc.model.shards)
      BY <2>2, <2>3, <2>4, ShardsOfParts
    <2> DEFINE s == ShardSet(listing, F)
               total == Name[CHOOSE p \in F : TRUE].total
    <2>6. /\ s.parts = Ascending(F) /\ s.total = Name[FirstPath(F)].total
          /\ FirstPath(F) \in F /\ (CHOOSE p \in F : TRUE) \in F
      <3>1. F \in SUBSET Nat
        BY <2>2, <2>5, LayoutAssumption
      <3>2. \E q \in F : \A r \in F : q <= r
        BY <2>5, <3>1, LeastMember
      <3> QED BY <2>5, <3>2 DEF FirstPath, ShardSet
    <2>7. total \in Nat /\ total > 1 /\ s.total = total /\ \A p \in F : Name[p].total = total
      <3>1. \A p \in F : Name[p].total \in Nat
        BY <2>2, <2>5, LayoutAssumption DEF NameForm
      <3> QED BY <2>4, <2>5, <2>6, <3>1
    <2>8. Range(s.parts) = F /\ Len(s.parts) = Cardinality(F)
      <3>1. F \in SUBSET Nat /\ IsFiniteSet(F)
        BY <2>2, <2>5, LayoutAssumption, FS_Subset
      <3> QED BY <2>6, <3>1, AscendingOrders
    <2> HIDE DEF s, total
    <2>9. Complete(s) <=> {Name[p].part : p \in F} = 1 .. total
      <3>1. IsFiniteSet(F)
        BY <2>2, <2>5, FS_Subset
      <3>2. Cardinality(F) = total <=> {Name[p].part : p \in F} = 1 .. total
        BY <2>7, <3>1, CountTellsAll
      <3> QED BY <2>7, <2>8, <3>2 DEF Complete
    <2> QED BY <2>5, <2>8, <2>9 DEF s, total
  <1> QED BY <1>1, DescribeInvariance, PTL


-----------------------------------------------------------------------------
(* The bytes of a manifest's chunks.                                       *)

\* What the chunks of a file in one row hold: all of its bytes, each once.
LEMMA RowHoldsAll ==
    ASSUME NEW f, ChunksOK(f), InOneRow(f), f.size \in Nat
    PROVE  /\ \A k, l \in DOMAIN f.chunks : k < l => End(f.chunks[k]) <= f.chunks[l].offset
           /\ \A k \in DOMAIN f.chunks : End(f.chunks[k]) <= f.size
           /\ \A b \in 1 .. f.size : \E k \in DOMAIN f.chunks :
                 f.chunks[k].offset < b /\ b <= End(f.chunks[k])
  <1> DEFINE n == Len(f.chunks)
             first == [k \in DOMAIN f.chunks |-> f.chunks[k].offset]
             last == [k \in DOMAIN f.chunks |-> End(f.chunks[k])]
             size == f.size
  <1>1. /\ n \in Nat /\ DOMAIN f.chunks = 1 .. n /\ size \in Nat
        /\ \A k \in 1 .. n : /\ first[k] = f.chunks[k].offset /\ last[k] = End(f.chunks[k])
                             /\ first[k] \in Nat /\ last[k] \in Nat /\ first[k] <= last[k]
    <2>1. n \in Nat /\ DOMAIN f.chunks = 1 .. n /\ size \in Nat
      BY DEF ChunksOK
    <2>2. ASSUME NEW k \in 1 .. n
          PROVE  /\ first[k] = f.chunks[k].offset /\ last[k] = End(f.chunks[k])
                 /\ first[k] \in Nat /\ last[k] \in Nat /\ first[k] <= last[k]
      <3>1. f.chunks[k].offset \in Nat /\ f.chunks[k].length \in Nat
        BY <2>1 DEF ChunksOK
      <3>2. End(f.chunks[k]) \in Nat /\ f.chunks[k].offset <= End(f.chunks[k])
        BY <3>1 DEF End
      <3> QED BY <2>1, <3>1, <3>2
    <2> QED BY <2>1, <2>2
  <1>2. \A k \in 1 .. n : first[k] = IF k = 1 THEN 0 ELSE last[k - 1]
    <2> SUFFICES ASSUME NEW k \in 1 .. n PROVE first[k] = IF k = 1 THEN 0 ELSE last[k - 1]
      OBVIOUS
    <2>1. f.chunks[k].offset = IF k = 1 THEN 0 ELSE End(f.chunks[k - 1])
      BY <1>1 DEF InOneRow
    <2>2. k # 1 => k - 1 \in 1 .. n
      BY <1>1
    <2> HIDE DEF first, last
    <2> QED BY <1>1, <2>1, <2>2
  <1>3. size = IF n = 0 THEN 0 ELSE last[n]
    <2>1. size = IF f.chunks = <<>> THEN 0 ELSE End(f.chunks[n])
      BY DEF InOneRow
    <2>2. CASE n = 0
      <3>1. 1 .. n = {}
        BY <2>2
      <3>2. f.chunks = <<>> \/ f.chunks # <<>>
        OBVIOUS
      <3> QED BY <2>1, <2>2, <3>1
    <2>3. CASE n # 0
      <3>1. n \in 1 .. n
        BY <1>1, <2>3
      <3>2. f.chunks # <<>>
        BY <2>3
      <3> QED BY <1>1, <2>1, <2>3, <3>1, <3>2
    <2> QED BY <2>2, <2>3
  <1> HIDE DEF first, last, n, size
  <1>4. \A k, l \in 1 .. n : k < l => last[k] <= first[l]
    <2> DEFINE late == {l \in 1 .. n : \E k \in 1 .. n : k < l /\ ~ (last[k] <= first[l])}
    <2>1. ASSUME late # {} PROVE FALSE
      <3>1. late \in SUBSET Nat /\ late # {}
        BY <1>1, <2>1
      <3> HIDE DEF late
      <3>2. PICK l \in late : \A j \in late : l <= j
        BY <3>1, LeastMember
      <3>3. l \in 1 .. n
        BY <3>2 DEF late
      <3>4. PICK k \in 1 .. n : k < l /\ ~ (last[k] <= first[l])
        BY <3>2 DEF late
      <3>5. /\ l - 1 \in 1 .. n /\ l # 1 /\ ~ (l <= l - 1) /\ k \in Nat
            /\ k = l - 1 \/ k < l - 1
        BY <1>1, <3>3, <3>4
      <3>6. first[l] = last[l - 1]
        BY <1>2, <3>3, <3>5
      <3>7. l - 1 \notin late
        BY <3>2, <3>5
      <3>8. CASE k = l - 1
        <4>1. last[k] \in Nat
          BY <1>1, <3>4
        <4> QED BY <3>4, <3>6, <3>8, <4>1
      <3>9. CASE k < l - 1
        <4>1. last[k] <= first[l - 1]
          BY <3>4, <3>5, <3>7, <3>9 DEF late
        <4>2. last[k] \in Nat /\ first[l - 1] \in Nat /\ last[l - 1] \in Nat /\ first[l - 1] <= last[l - 1]
          BY <1>1, <3>4, <3>5
        <4> QED BY <3>4, <3>6, <4>1, <4>2
      <3> QED BY <3>5, <3>8, <3>9
    <2> QED BY <2>1 DEF late
  <1>5. \A k \in 1 .. n : last[k] <= size
    <2> SUFFICES ASSUME NEW k \in 1 .. n PROVE last[k] <= size
      OBVIOUS
    <2>1. n \in 1 .. n /\ n # 0 /\ (k = n \/ k < n)
      BY <1>1
    <2>2. last[k] \in Nat /\ last[n] \in Nat /\ first[n] \in Nat /\ first[n] <= last[n] /\ size = last[n]
      BY <1>1, <1>3, <2>1
    <2>3. CASE k = n
      BY <2>2, <2>3
    <2>4. CASE k < n
      <3>1. last[k] <= first[n]
        BY <1>4, <2>1, <2>4
      <3> QED BY <2>2, <3>1
    <2> QED BY <2>1, <2>3, <2>4
  <1>6. ASSUME NEW b \in 1 .. size PROVE \E k \in 1 .. n : first[k] < b /\ b <= last[k]
    <2> DEFINE reach == {k \in 1 .. n : b <= last[k]}
    <2>1. b \in Nat /\ b <= size /\ 1 <= b
      BY <1>1
    <2>2. n # 0
      BY <1>3, <2>1
    <2>3. n \in 1 .. n
      BY <1>1, <2>2
    <2>4. n \in reach
      BY <1>3, <2>1, <2>2, <2>3
    <2>5. reach \in SUBSET Nat /\ reach # {}
      BY <1>1, <2>4
    <2> HIDE DEF reach
    <2>6. PICK k \in reach : \A j \in reach : k <= j
      BY <2>5, LeastMember
    <2>7. k \in 1 .. n /\ b <= last[k] /\ k \in Nat
      BY <1>1, <2>6 DEF reach
    <2>8. first[k] < b
      <3>1. CASE k = 1
        <4>1. first[k] = 0
          BY <1>2, <2>7, <3>1
        <4> QED BY <2>1, <4>1
      <3>2. CASE k # 1
        <4>1. k - 1 \in 1 .. n /\ ~ (k <= k - 1)
          BY <1>1, <2>7, <3>2
        <4>2. ~ (b <= last[k - 1])
          BY <2>6, <4>1 DEF reach
        <4>3. first[k] = last[k - 1] /\ last[k - 1] \in Nat
          BY <1>1, <1>2, <2>7, <3>2, <4>1
        <4> QED BY <2>1, <4>2, <4>3
      <3> QED BY <3>1, <3>2
    <2> QED BY <2>7, <2>8
  <1>7. \A k, l \in 1 .. n : k < l => End(f.chunks[k]) <= f.chunks[l].offset
    BY <1>1, <1>4
  <1>8. \A k \in 1 .. n : End(f.chunks[k]) <= f.size
    BY <1>1, <1>5 DEF size
  <1>9. \A b \in 1 .. f.size : \E k \in 1 .. n :
           f.chunks[k].offset < b /\ b <= End(f.chunks[k])
    BY <1>1, <1>6 DEF size
  <1> QED BY <1>1, <1>7, <1>8, <1>9

\* Files as Build describes them.
FilesOK(files) ==
    /\ DOMAIN files = 1 .. Len(files) /\ Len(files) \in Nat
    /\ \A i \in DOMAIN files : ChunksOK(files[i]) /\ InOneRow(files[i]) /\ files[i].size \in Nat

FileBytes(files) == UNION {{i} \X (1 .. files[i].size) : i \in DOMAIN files}
ChunkBytes(m, S) == UNION {{x} \X (1 .. ChunkAt(m, x).length) : x \in S}

LEMMA FileBytesFinite ==
    ASSUME NEW files, FilesOK(files)
    PROVE  IsFiniteSet(FileBytes(files))
  <1> DEFINE D == DOMAIN files
             row(i) == {i} \X (1 .. files[i].size)
             rows == {row(i) : i \in D}
             f == [i \in D |-> row(i)]
  <1>1. IsFiniteSet(D)
    <2> DEFINE n == Len(files)
    <2>1. n \in Nat /\ D = 1 .. n
      BY DEF FilesOK
    <2> HIDE DEF n, D
    <2> QED BY <2>1, FS_Interval
  <1>2. f \in Surjection(D, rows)
    <2>1. f \in [D -> rows] /\ \A r \in rows : \E i \in D : f[i] = r
      OBVIOUS
    <2> HIDE DEF f, rows, D
    <2> QED BY <2>1 DEF Surjection
  <1>3. IsFiniteSet(rows)
    <2> HIDE DEF f, rows, D
    <2> QED BY <1>1, <1>2, FS_Surjection
  <1>4. ASSUME NEW i \in D PROVE IsFiniteSet(row(i))
    <2> DEFINE bytes == 1 .. files[i].size
               this == {i}
    <2>1. files[i].size \in Nat
      BY DEF FilesOK
    <2>2. IsFiniteSet(bytes)
      BY <2>1, FS_Interval
    <2>3. IsFiniteSet(this)
      BY FS_Singleton
    <2> HIDE DEF bytes, this
    <2>4. IsFiniteSet(this \X bytes)
      BY <2>2, <2>3, FS_Product
    <2> QED BY <2>4 DEF this, bytes
  <1>5. \A r \in rows : IsFiniteSet(r)
    BY <1>4
  <1> HIDE DEF rows
  <1>6. IsFiniteSet(UNION rows)
    BY <1>3, <1>5, FS_UNION
  <1> QED BY <1>6 DEF rows, FileBytes

\* The places of the chunks, and what is there.
LEMMA PlacesAre ==
    ASSUME NEW m, FilesOK(m.files)
    PROVE  /\ \A x : x \in Places(m) <=> \E i \in DOMAIN m.files : \E k \in DOMAIN m.files[i].chunks :
                                            x = <<i, k>>
           /\ \A i \in DOMAIN m.files : \A k \in DOMAIN m.files[i].chunks :
                /\ <<i, k>> \in Places(m) /\ i \in Nat /\ k \in Nat
                /\ ChunkAt(m, <<i, k>>) = m.files[i].chunks[k]
  <1>1. \A x : x \in Places(m) <=> \E i \in DOMAIN m.files : \E k \in DOMAIN m.files[i].chunks :
                                     x = <<i, k>>
    BY DEF Places
  <1>2. ASSUME NEW i \in DOMAIN m.files, NEW k \in DOMAIN m.files[i].chunks
        PROVE  /\ <<i, k>> \in Places(m) /\ i \in Nat /\ k \in Nat
               /\ ChunkAt(m, <<i, k>>) = m.files[i].chunks[k]
    <2>1. i \in Nat
      BY DEF FilesOK
    <2>2. k \in Nat
      BY DEF FilesOK, ChunksOK
    <2> QED BY <1>1, <2>1, <2>2 DEF ChunkAt
  <1> QED BY <1>1, <1>2

\* All chunks together hold the bytes of all files.
LEMMA ChunksHoldFiles ==
    ASSUME NEW m, FilesOK(m.files)
    PROVE  /\ IsFiniteSet(ChunkBytes(m, Places(m)))
           /\ Cardinality(ChunkBytes(m, Places(m))) = Cardinality(FileBytes(m.files))
  <1> DEFINE D == DOMAIN m.files
             B == ChunkBytes(m, Places(m))
             F == FileBytes(m.files)
             chunks(i) == m.files[i].chunks
             offset(i, k) == chunks(i)[k].offset
             length(i, k) == chunks(i)[k].length
             h == [y \in B |-> <<y[1][1], ChunkAt(m, y[1]).offset + y[2]>>]
  <1>1. ASSUME NEW i \in D, NEW k \in DOMAIN chunks(i)
        PROVE  /\ offset(i, k) \in Nat /\ length(i, k) \in Nat /\ m.files[i].size \in Nat
               /\ offset(i, k) + length(i, k) <= m.files[i].size
    <2>1. ChunksOK(m.files[i]) /\ InOneRow(m.files[i]) /\ m.files[i].size \in Nat
      BY DEF FilesOK
    <2>2. End(chunks(i)[k]) <= m.files[i].size
      BY <2>1, RowHoldsAll
    <2> QED BY <2>1, <2>2 DEF ChunksOK, End
  <1>2. ASSUME NEW i \in D, NEW k \in DOMAIN chunks(i), NEW l \in DOMAIN chunks(i), k < l
        PROVE  offset(i, k) + length(i, k) <= offset(i, l)
    <2>1. ChunksOK(m.files[i]) /\ InOneRow(m.files[i]) /\ m.files[i].size \in Nat
      BY DEF FilesOK
    <2>2. End(chunks(i)[k]) <= offset(i, l)
      BY <1>2, <2>1, RowHoldsAll
    <2> QED BY <2>2 DEF End
  <1>3. ASSUME NEW i \in D, NEW b \in 1 .. m.files[i].size
        PROVE  \E k \in DOMAIN chunks(i) : offset(i, k) < b /\ b <= offset(i, k) + length(i, k)
    <2>1. ChunksOK(m.files[i]) /\ InOneRow(m.files[i]) /\ m.files[i].size \in Nat
      BY DEF FilesOK
    <2>2. \E k \in DOMAIN chunks(i) : offset(i, k) < b /\ b <= End(chunks(i)[k])
      BY <2>1, RowHoldsAll
    <2> QED BY <2>2 DEF End
  <1>4. ASSUME NEW y \in B
        PROVE  \E i \in D : \E k \in DOMAIN chunks(i) : \E b \in 1 .. length(i, k) :
                  y = <<<<i, k>>, b>> /\ h[y] = <<i, offset(i, k) + b>>
    <2>0. PICK x \in Places(m) : y \in {x} \X (1 .. ChunkAt(m, x).length)
      BY DEF ChunkBytes
    <2>1. PICK b \in 1 .. ChunkAt(m, x).length : y = <<x, b>>
      BY <2>0
    <2>2. PICK i \in D : \E k \in DOMAIN chunks(i) : x = <<i, k>>
      BY PlacesAre
    <2>3. PICK k \in DOMAIN chunks(i) : x = <<i, k>>
      BY <2>2
    <2>4. ChunkAt(m, x) = chunks(i)[k]
      BY <2>3, PlacesAre
    <2>5. h[y] = <<x[1], ChunkAt(m, x).offset + b>>
      BY <2>1
    <2>6. b \in 1 .. length(i, k) /\ y = <<<<i, k>>, b>> /\ h[y] = <<i, offset(i, k) + b>>
      BY <2>1, <2>3, <2>4, <2>5
    <2> QED BY <2>6
  <1>5. ASSUME NEW i \in D, NEW k \in DOMAIN chunks(i), NEW b \in 1 .. length(i, k)
        PROVE  <<<<i, k>>, b>> \in B /\ h[<<<<i, k>>, b>>] = <<i, offset(i, k) + b>>
    <2>1. <<i, k>> \in Places(m) /\ ChunkAt(m, <<i, k>>) = chunks(i)[k]
      BY PlacesAre
    <2>2. <<<<i, k>>, b>> \in B
      BY <2>1 DEF ChunkBytes
    <2> QED BY <2>1, <2>2
  <1>6. \A z : z \in F <=> \E i \in D : \E b \in 1 .. m.files[i].size : z = <<i, b>>
    BY DEF FileBytes
  <1> HIDE DEF B, F, h
  <1>7. h \in [B -> F]
    <2>1. \A y \in B : h[y] \in F
      <3> SUFFICES ASSUME NEW y \in B PROVE h[y] \in F
        OBVIOUS
      <3>1. PICK i \in D : \E k \in DOMAIN chunks(i) : \E b \in 1 .. length(i, k) :
                  y = <<<<i, k>>, b>> /\ h[y] = <<i, offset(i, k) + b>>
        BY <1>4
      <3>2. PICK k \in DOMAIN chunks(i) : \E b \in 1 .. length(i, k) :
                  y = <<<<i, k>>, b>> /\ h[y] = <<i, offset(i, k) + b>>
        BY <3>1
      <3>3. PICK b \in 1 .. length(i, k) : h[y] = <<i, offset(i, k) + b>>
        BY <3>2
      <3>4. offset(i, k) + b \in 1 .. m.files[i].size
        <4> DEFINE o == offset(i, k)
                   l == length(i, k)
                   s == m.files[i].size
        <4>1. o \in Nat /\ l \in Nat /\ s \in Nat /\ o + l <= s
          BY <1>1
        <4> HIDE DEF o, l, s
        <4>2. b \in 1 .. l
          BY DEF l
        <4>3. o + b \in 1 .. s
          BY <4>1, <4>2
        <4> QED BY <4>3 DEF o, s
      <3> QED BY <1>6, <3>3, <3>4
    <2>2. DOMAIN h = B /\ h = [y \in B |-> h[y]]
      BY DEF h
    <2> QED BY <2>1, <2>2
  <1>8. ASSUME NEW y \in B, NEW z \in B, h[y] = h[z] PROVE y = z
    <2>a. PICK i \in D : \E k \in DOMAIN chunks(i) : \E b \in 1 .. length(i, k) :
              y = <<<<i, k>>, b>> /\ h[y] = <<i, offset(i, k) + b>>
      BY <1>4
    <2>b. PICK k \in DOMAIN chunks(i) : \E b \in 1 .. length(i, k) :
              y = <<<<i, k>>, b>> /\ h[y] = <<i, offset(i, k) + b>>
      BY <2>a
    <2>1. PICK b \in 1 .. length(i, k) : y = <<<<i, k>>, b>> /\ h[y] = <<i, offset(i, k) + b>>
      BY <2>b
    <2>c. PICK j \in D : \E l \in DOMAIN chunks(j) : \E c \in 1 .. length(j, l) :
              z = <<<<j, l>>, c>> /\ h[z] = <<j, offset(j, l) + c>>
      BY <1>4
    <2>d. PICK l \in DOMAIN chunks(j) : \E c \in 1 .. length(j, l) :
              z = <<<<j, l>>, c>> /\ h[z] = <<j, offset(j, l) + c>>
      BY <2>c
    <2>2. PICK c \in 1 .. length(j, l) : z = <<<<j, l>>, c>> /\ h[z] = <<j, offset(j, l) + c>>
      BY <2>d
    <2>3. i = j /\ offset(i, k) + b = offset(j, l) + c
      BY <1>8, <2>1, <2>2
    <2> DEFINE ok == offset(i, k)
               lk == length(i, k)
               ol == offset(i, l)
               ll == length(i, l)
    <2>4. /\ ok \in Nat /\ lk \in Nat /\ ol \in Nat /\ ll \in Nat
          /\ k \in Nat /\ l \in Nat /\ b \in 1 .. lk /\ c \in 1 .. ll /\ ok + b = ol + c
      BY <1>1, <2>1, <2>2, <2>3, PlacesAre
    <2>5. k < l => ok + lk <= ol
      BY <1>2, <2>3
    <2>6. l < k => ol + ll <= ok
      BY <1>2, <2>3
    <2>7. k = l => ok = ol
      OBVIOUS
    <2> HIDE DEF ok, lk, ol, ll
    <2>8. k = l
      BY <2>4, <2>5, <2>6
    <2>9. b = c
      BY <2>4, <2>7, <2>8
    <2> QED BY <2>1, <2>2, <2>3, <2>8, <2>9
  <1>9. ASSUME NEW z \in F PROVE \E y \in B : h[y] = z
    <2>0. PICK i \in D : \E b \in 1 .. m.files[i].size : z = <<i, b>>
      BY <1>6
    <2>1. PICK b \in 1 .. m.files[i].size : z = <<i, b>>
      BY <2>0
    <2>2. PICK k \in DOMAIN chunks(i) : offset(i, k) < b /\ b <= offset(i, k) + length(i, k)
      BY <1>3
    <2> DEFINE o == offset(i, k)
               l == length(i, k)
               c == b - o
    <2>3. o \in Nat /\ l \in Nat /\ b \in Nat
      BY <1>1
    <2>4. o < b /\ b <= o + l
      BY <2>2
    <2> HIDE DEF o, l
    <2>5. c \in 1 .. l /\ o + c = b
      BY <2>3, <2>4
    <2> HIDE DEF c
    <2>6. <<<<i, k>>, c>> \in B /\ h[<<<<i, k>>, c>>] = <<i, o + c>>
      BY <1>5, <2>5 DEF o, l
    <2> QED BY <2>1, <2>5, <2>6
  <1>10. h \in Injection(B, F) /\ h \in Surjection(B, F)
    BY <1>7, <1>8, <1>9 DEF Injection, IsInjective, Surjection
  <1>11. IsFiniteSet(F)
    BY FileBytesFinite DEF F
  <1>12. IsFiniteSet(B) /\ Cardinality(B) = Cardinality(F)
    BY <1>10, <1>11, FS_Injection
  <1> QED BY <1>12 DEF B, F

\* What is paid for and what is not add up.
LEMMA BytesAddUp ==
    ASSUME NEW m, FilesOK(m.files), NEW paid \in SUBSET Places(m)
    PROVE  /\ BytesAt(m, Places(m) \ paid) + BytesAt(m, paid) = TotalOf(m.files, DOMAIN m.files)
           /\ IsFiniteSet(ChunkBytes(m, paid))
  <1> DEFINE B == ChunkBytes(m, Places(m))
             P == ChunkBytes(m, paid)
             R == ChunkBytes(m, Places(m) \ paid)
  <1>1. BytesAt(m, paid) = Cardinality(P) /\ BytesAt(m, Places(m) \ paid) = Cardinality(R)
    BY DEF BytesAt, Total, ChunkBytes
  <1>2. TotalOf(m.files, DOMAIN m.files) = Cardinality(FileBytes(m.files))
    BY DEF TotalOf, Total, FileBytes
  <1>3. IsFiniteSet(B) /\ Cardinality(B) = Cardinality(FileBytes(m.files))
    BY ChunksHoldFiles
  <1>4. P \union R = B /\ P \cap R = {}
    BY DEF ChunkBytes
  <1> HIDE DEF B, P, R
  <1>5. IsFiniteSet(P) /\ IsFiniteSet(R)
    BY <1>3, <1>4, FS_Subset
  <1>6. Cardinality(B) = Cardinality(P) + Cardinality(R) - Cardinality(P \cap R)
    BY <1>4, <1>5, FS_Union
  <1>7. Cardinality(P \cap R) = 0 /\ Cardinality(P) \in Nat /\ Cardinality(R) \in Nat
    BY <1>4, <1>5, FS_EmptySet, FS_CardinalityType
  <1>8. Cardinality(R) + Cardinality(P) = Cardinality(B)
    BY <1>6, <1>7
  <1> QED BY <1>1, <1>2, <1>3, <1>5, <1>8 DEF P

\* Every chunk has a first place.
LEMMA FirstPlaceOf ==
    ASSUME NEW m, FilesOK(m.files), NEW d \in Digests(m)
    PROVE  \E x \in Places(m) :
              /\ ChunkAt(m, x).digest = d
              /\ \A y \in Places(m) : Before(y, x) => ChunkAt(m, y).digest # d
  <1> DEFINE D == DOMAIN m.files
             chunks(i) == m.files[i].chunks
             has(i, k) == chunks(i)[k].digest = d
             rows == {i \in D : \E k \in DOMAIN chunks(i) : has(i, k)}
  <1>1. rows \in SUBSET Nat /\ rows # {}
    <2>1. PICK x \in Places(m) : ChunkAt(m, x).digest = d
      BY DEF Digests
    <2>2. PICK i \in D : \E k \in DOMAIN chunks(i) : x = <<i, k>>
      BY PlacesAre
    <2>3. PICK k \in DOMAIN chunks(i) : x = <<i, k>>
      BY <2>2
    <2>4. has(i, k)
      BY <2>1, <2>3, PlacesAre
    <2>5. D \subseteq Nat
      BY DEF FilesOK
    <2> QED BY <2>4, <2>5
  <1>2. PICK i \in rows : \A j \in rows : i <= j
    <2> HIDE DEF rows
    <2> QED BY <1>1, LeastMember
  <1> DEFINE hits == {k \in DOMAIN chunks(i) : has(i, k)}
  <1>3. hits \in SUBSET Nat /\ hits # {} /\ i \in D
    BY <1>2, PlacesAre
  <1>4. PICK k \in hits : \A l \in hits : k <= l
    <2> HIDE DEF hits
    <2> QED BY <1>3, LeastMember
  <1>5. k \in DOMAIN chunks(i) /\ has(i, k)
    BY <1>4
  <1>6. <<i, k>> \in Places(m) /\ ChunkAt(m, <<i, k>>).digest = d
    BY <1>3, <1>5, PlacesAre
  <1>7. ASSUME NEW y \in Places(m), Before(y, <<i, k>>) PROVE ChunkAt(m, y).digest # d
    <2>1. PICK j \in D : \E l \in DOMAIN chunks(j) : y = <<j, l>>
      BY PlacesAre
    <2>2. PICK l \in DOMAIN chunks(j) : y = <<j, l>>
      BY <2>1
    <2>3. ChunkAt(m, y) = chunks(j)[l]
      BY <2>2, PlacesAre
    <2>4. i \in Nat /\ k \in Nat /\ j \in Nat /\ l \in Nat
      BY <1>3, <1>5, PlacesAre
    <2>5. j < i \/ (j = i /\ l < k)
      BY <1>7, <2>2 DEF Before
    <2>6. has(j, l) => i <= j
      BY <1>2
    <2>7. has(j, l) /\ j = i => k <= l
      BY <1>4
    <2> HIDE DEF has
    <2>8. ~ has(j, l)
      BY <2>4, <2>5, <2>6, <2>7
    <2> QED BY <2>3, <2>8 DEF has
  <1> QED BY <1>6, <1>7

DigestBytes(D) == UNION {{d} \X (1 .. Len(d.nums)) : d \in D}

\* Each chunk that is new is paid for once.
LEMMA PaidOnce ==
    ASSUME NEW m, FilesOK(m.files), NEW have
    PROVE  BytesAt(m, FirstPlaces(m, have))
              = Total(Digests(m) \ have, LAMBDA d : Len(d.nums))
  <1> DEFINE P == FirstPlaces(m, have)
             B == ChunkBytes(m, P)
             N == Digests(m) \ have
             C == DigestBytes(N)
             h == [y \in B |-> <<ChunkAt(m, y[1]).digest, y[2]>>]
  <1>1. ASSUME NEW x \in Places(m)
        PROVE  /\ \E i, k \in Nat : x = <<i, k>>
               /\ ChunkAt(m, x).length = Len(ChunkAt(m, x).digest.nums)
    <2>1. PICK i \in DOMAIN m.files : \E k \in DOMAIN m.files[i].chunks : x = <<i, k>>
      BY PlacesAre
    <2>2. PICK k \in DOMAIN m.files[i].chunks : x = <<i, k>>
      BY <2>1
    <2>3. i \in Nat /\ k \in Nat /\ ChunkAt(m, x) = m.files[i].chunks[k]
      BY <2>2, PlacesAre
    <2>4. ChunksOK(m.files[i])
      BY DEF FilesOK
    <2>5. Len(m.files[i].chunks[k].digest.nums) = m.files[i].chunks[k].length
      BY <2>4 DEF ChunksOK
    <2> QED BY <2>2, <2>3, <2>5
  <1>2. \A x \in P : /\ x \in Places(m) /\ ChunkAt(m, x).digest \in N
                     /\ \A y \in Places(m) : Before(y, x) =>
                           ChunkAt(m, y).digest # ChunkAt(m, x).digest
    BY DEF FirstPlaces, Digests
  <1>3. \A x, y \in P : ChunkAt(m, x).digest = ChunkAt(m, y).digest => x = y
    <2> SUFFICES ASSUME NEW x \in P, NEW y \in P, ChunkAt(m, x).digest = ChunkAt(m, y).digest
                 PROVE  x = y
      OBVIOUS
    <2>1. ~ Before(x, y) /\ ~ Before(y, x) /\ x \in Places(m) /\ y \in Places(m)
      BY <1>2
    <2> HIDE DEF P
    <2>2. PICK i \in Nat, k \in Nat : x = <<i, k>>
      BY <1>1, <2>1
    <2>3. PICK j \in Nat, l \in Nat : y = <<j, l>>
      BY <1>1, <2>1
    <2>4. i = j /\ k = l
      BY <2>1, <2>2, <2>3 DEF Before
    <2> QED BY <2>2, <2>3, <2>4
  <1>4. \A d \in N : \E x \in P : ChunkAt(m, x).digest = d
    <2> SUFFICES ASSUME NEW d \in N PROVE \E x \in P : ChunkAt(m, x).digest = d
      OBVIOUS
    <2>1. PICK x \in Places(m) :
              /\ ChunkAt(m, x).digest = d
              /\ \A y \in Places(m) : Before(y, x) => ChunkAt(m, y).digest # d
      BY FirstPlaceOf
    <2> QED BY <2>1 DEF FirstPlaces
  <1>5. P \in SUBSET Places(m)
    BY DEF FirstPlaces
  <1> HIDE DEF P
  <1>6. IsFiniteSet(B)
    BY <1>5, BytesAddUp
  <1>7. \A z : z \in B <=> \E x \in P : \E b \in 1 .. ChunkAt(m, x).length : z = <<x, b>>
    BY DEF ChunkBytes
  <1>8. \A z : z \in C <=> \E d \in N : \E b \in 1 .. Len(d.nums) : z = <<d, b>>
    BY DEF DigestBytes
  <1>9. \A x \in P : \A b : <<x, b>> \in B => h[<<x, b>>] = <<ChunkAt(m, x).digest, b>>
    OBVIOUS
  <1>10. DOMAIN h = B /\ h = [y \in B |-> h[y]]
    OBVIOUS
  <1> HIDE DEF B, C, N, h
  <1>11. h \in [B -> C]
    <2>1. ASSUME NEW z \in B PROVE h[z] \in C
      <3>1. PICK x \in P : \E b \in 1 .. ChunkAt(m, x).length : z = <<x, b>>
        BY <1>7
      <3>2. PICK b \in 1 .. ChunkAt(m, x).length : z = <<x, b>>
        BY <3>1
      <3>3. h[z] = <<ChunkAt(m, x).digest, b>>
        BY <1>9, <3>2
      <3>4. b \in 1 .. Len(ChunkAt(m, x).digest.nums) /\ ChunkAt(m, x).digest \in N
        BY <1>1, <1>2
      <3> QED BY <1>8, <3>3, <3>4
    <2> QED BY <1>10, <2>1
  <1>12. ASSUME NEW y \in B, NEW z \in B, h[y] = h[z] PROVE y = z
    <2>1. PICK u \in P : \E b \in 1 .. ChunkAt(m, u).length : y = <<u, b>>
      BY <1>7
    <2>2. PICK v \in P : \E b \in 1 .. ChunkAt(m, v).length : z = <<v, b>>
      BY <1>7
    <2>3. PICK b : y = <<u, b>>
      BY <2>1
    <2>4. PICK c : z = <<v, c>>
      BY <2>2
    <2>5. ChunkAt(m, u).digest = ChunkAt(m, v).digest /\ b = c
      BY <1>9, <1>12, <2>3, <2>4
    <2> QED BY <1>3, <2>3, <2>4, <2>5
  <1>13. ASSUME NEW z \in C PROVE \E y \in B : h[y] = z
    <2>1. PICK d \in N : \E b \in 1 .. Len(d.nums) : z = <<d, b>>
      BY <1>8
    <2>2. PICK b \in 1 .. Len(d.nums) : z = <<d, b>>
      BY <2>1
    <2>3. PICK x \in P : ChunkAt(m, x).digest = d
      BY <1>4
    <2>4. b \in 1 .. ChunkAt(m, x).length
      BY <1>1, <1>2, <2>3
    <2>5. <<x, b>> \in B
      BY <1>7, <2>4
    <2> QED BY <1>9, <2>2, <2>3, <2>5
  <1>14. h \in Surjection(B, C) /\ h \in Injection(B, C)
    BY <1>11, <1>12, <1>13 DEF Surjection, Injection, IsInjective
  <1>15. Cardinality(C) = Cardinality(B)
    BY <1>6, <1>14, FS_Surjection
  <1>16. BytesAt(m, P) = Cardinality(B)
    BY DEF BytesAt, Total, ChunkBytes, B
  <1>17. Total(N, LAMBDA d : Len(d.nums)) = Cardinality(C)
    BY DEF Total, DigestBytes, C
  <1> QED BY <1>15, <1>16, <1>17 DEF P, N


Ascends(s, n) ==
    /\ \A i \in 1 .. n : s[i] \in Nat
    /\ \A i, j \in 1 .. n : i < j => s[i] < s[j]
FoundIn(s, n, t, k) == \A i \in 1 .. n : \E j \in 1 .. k : t[j] = s[i]
AtTheSamePlaces(s, n, t, k) == \A i \in 1 .. n : i <= k /\ s[i] = t[i]

\* Numbers that ascend, in two sequences: the same numbers are in the same places.
LEMMA SamePlaces ==
    ASSUME NEW n \in Nat, NEW k \in Nat, NEW s, NEW t,
           Ascends(s, n), Ascends(t, k), FoundIn(s, n, t, k), FoundIn(t, k, s, n)
    PROVE  AtTheSamePlaces(s, n, t, k)
  <1>0. /\ \A i \in 1 .. n : s[i] \in Nat
        /\ \A i \in 1 .. k : t[i] \in Nat
        /\ \A i, j \in 1 .. n : i < j => s[i] < s[j]
        /\ \A i, j \in 1 .. k : i < j => t[i] < t[j]
        /\ \A i \in 1 .. n : \E j \in 1 .. k : t[j] = s[i]
        /\ \A i \in 1 .. k : \E j \in 1 .. n : s[j] = t[i]
    BY DEF Ascends, FoundIn
  <1> DEFINE odd == {i \in 1 .. n : ~ (i <= k /\ s[i] = t[i])}
  <1>1. ASSUME odd # {} PROVE FALSE
    <2>1. odd \in SUBSET Nat
      OBVIOUS
    <2>2. PICK i \in odd : \A j \in odd : i <= j
      <3> HIDE DEF odd
      <3> QED BY <1>1, <2>1, LeastMember
    <2>3. i \in 1 .. n /\ ~ (i <= k /\ s[i] = t[i])
      BY <2>2
    <2>4. \A j \in 1 .. n : j < i => j <= k /\ s[j] = t[j]
      BY <2>2
    <2> HIDE DEF odd
    <2>5. PICK j \in 1 .. k : t[j] = s[i]
      BY <1>0, <2>3
    <2>6. i \in Nat /\ j \in Nat /\ s[i] \in Nat
      BY <1>0, <2>3
    <2>7. ~ (j < i)
      <3> SUFFICES ASSUME j < i PROVE FALSE
        OBVIOUS
      <3>1. j \in 1 .. n
        BY <2>3, <2>6
      <3>2. s[j] = t[j] /\ s[j] < s[i]
        BY <1>0, <2>3, <2>4, <3>1
      <3> QED BY <2>5, <2>6, <3>2
    <2>8. j # i
      BY <1>0, <2>3, <2>5, <2>6
    <2>9. i \in 1 .. k /\ i < j
      BY <2>3, <2>6, <2>7, <2>8
    <2>10. t[i] < s[i] /\ t[i] \in Nat
      BY <1>0, <2>3, <2>5, <2>9
    <2>11. PICK l \in 1 .. n : s[l] = t[i]
      BY <1>0, <2>9
    <2>12. l < i \/ l = i \/ i < l
      BY <2>6
    <2>13. CASE l < i
      <3>1. l \in 1 .. k
        BY <2>4, <2>11, <2>13
      <3>2. s[l] = t[l] /\ t[l] < t[i]
        BY <1>0, <2>4, <2>9, <2>13, <3>1
      <3> QED BY <2>10, <2>11, <3>2
    <2>14. CASE l = i
      BY <2>6, <2>10, <2>11, <2>14
    <2>15. CASE i < l
      <3>1. s[i] < s[l]
        BY <1>0, <2>3, <2>15
      <3> QED BY <2>6, <2>10, <2>11, <3>1
    <2> QED BY <2>12, <2>13, <2>14, <2>15
  <1> QED BY <1>1 DEF odd, AtTheSamePlaces

LEMMA LookupFinds ==
    ASSUME NEW m, MadeOK(m), NEW i \in DOMAIN m.files
    PROVE  Lookup(m, m.files[i].path) = m.files[i] /\ m.files[i].path \in PathsOf(m)
  <1> DEFINE j == CHOOSE j \in DOMAIN m.files : m.files[j].path = m.files[i].path
  <1>1. j \in DOMAIN m.files /\ m.files[j].path = m.files[i].path
    OBVIOUS
  <1>2. Lookup(m, m.files[i].path) = m.files[j]
    BY DEF Lookup
  <1> HIDE DEF j
  <1>3. j = i
    <2>1. i \in Nat /\ j \in Nat /\ m.files[i].path \in Nat
      BY <1>1 DEF MadeOK
    <2>2. ~ (i < j) /\ ~ (j < i)
      <3>1. i < j => m.files[i].path < m.files[j].path
        BY <1>1 DEF MadeOK
      <3>2. j < i => m.files[j].path < m.files[i].path
        BY <1>1 DEF MadeOK
      <3> QED BY <1>1, <2>1, <3>1, <3>2
    <2> QED BY <2>1, <2>2
  <1> QED BY <1>2, <1>3 DEF PathsOf

Line(f) == <<f.path, f.size, f.digest>>

\* Two manifests have the same digest if they have the same lines.
LEMMA DigestTellsLines ==
    ASSUME NEW m, NEW w, MadeOK(m), MadeOK(w)
    PROVE  m.model.digest = w.model.digest <=>
              /\ DOMAIN m.files = DOMAIN w.files
              /\ \A i \in DOMAIN m.files : Line(m.files[i]) = Line(w.files[i])
  <1> DEFINE lines(x) == [i \in DOMAIN x.files |-> Line(x.files[i])]
  <1>1. m.model.digest = SumOf(lines(m)) /\ w.model.digest = SumOf(lines(w))
    BY DEF MadeOK, ModelDigest, Line
  <1>2. SumOf(lines(m)) = SumOf(lines(w)) <=> lines(m) = lines(w)
    <2> DEFINE a == lines(m)
               b == lines(w)
    <2> SUFFICES SumOf(a) = SumOf(b) <=> a = b
      OBVIOUS
    <2> HIDE DEF a, b
    <2>1. SumOf(a).units = a /\ SumOf(b).units = b
      BY DEF SumOf, Unit
    <2> QED BY <2>1
  <1>3. lines(m) = lines(w) <=>
              /\ DOMAIN m.files = DOMAIN w.files
              /\ \A i \in DOMAIN m.files : Line(m.files[i]) = Line(w.files[i])
    <2> DEFINE a == lines(m)
               b == lines(w)
    <2>1. /\ DOMAIN a = DOMAIN m.files /\ \A i \in DOMAIN m.files : a[i] = Line(m.files[i])
          /\ DOMAIN b = DOMAIN w.files /\ \A i \in DOMAIN w.files : b[i] = Line(w.files[i])
          /\ a = [i \in DOMAIN a |-> a[i]] /\ b = [i \in DOMAIN b |-> b[i]]
      OBVIOUS
    <2> SUFFICES a = b <=> /\ DOMAIN m.files = DOMAIN w.files
                           /\ \A i \in DOMAIN m.files : Line(m.files[i]) = Line(w.files[i])
      OBVIOUS
    <2> HIDE DEF a, b
    <2> QED BY <2>1
  <1> QED BY <1>1, <1>2, <1>3

\* Compare calls two manifests identical exactly if they have the same digest.
LEMMA IdenticalIsTold ==
    ASSUME NEW old, NEW want, MadeOK(old), MadeOK(want)
    PROVE  Compare(old, want).identical <=> old.model.digest = want.model.digest
  <1> DEFINE O == old.files
             W == want.files
             same == /\ DOMAIN O = DOMAIN W
                     /\ \A i \in DOMAIN O : Line(O[i]) = Line(W[i])
             all == PathsOf(want) \union PathsOf(old)
             change == [p \in all |->
                          IF p \in PathsOf(want) THEN Change(old, Lookup(want, p)) ELSE "removed"]
  <1>1. Compare(old, want).identical <=> \A p \in all : change[p] = "unchanged"
    BY DEF Compare
  <1>2. (\A p \in all : change[p] = "unchanged") <=>
           /\ PathsOf(want) = PathsOf(old)
           /\ \A p \in PathsOf(want) : Change(old, Lookup(want, p)) = "unchanged"
    <2>1. \A p \in PathsOf(want) : Change(old, Lookup(want, p)) = "unchanged" => p \in PathsOf(old)
      <3> SUFFICES ASSUME NEW p \in PathsOf(want), Change(old, Lookup(want, p)) = "unchanged"
                   PROVE  p \in PathsOf(old)
        OBVIOUS
      <3>1. Lookup(want, p).path \in PathsOf(old)
        BY DEF Change
      <3>2. PICK i \in DOMAIN W : W[i].path = p
        BY DEF PathsOf
      <3>3. Lookup(want, p) = W[i]
        BY <3>2, LookupFinds
      <3> QED BY <3>1, <3>2, <3>3
    <2>2. \A p \in all : change[p] = IF p \in PathsOf(want) THEN Change(old, Lookup(want, p))
                                     ELSE "removed"
      OBVIOUS
    <2> HIDE DEF change
    <2> QED BY <2>1, <2>2
  <1>3. ASSUME same
        PROVE  /\ PathsOf(want) = PathsOf(old)
               /\ \A p \in PathsOf(want) : Change(old, Lookup(want, p)) = "unchanged"
    <2>1. DOMAIN O = DOMAIN W /\ \A i \in DOMAIN O : /\ O[i].path = W[i].path /\ O[i].size = W[i].size
                                                     /\ O[i].digest = W[i].digest
      BY <1>3 DEF Line
    <2>2. PathsOf(want) = PathsOf(old)
      BY <2>1 DEF PathsOf
    <2>3. ASSUME NEW p \in PathsOf(want) PROVE Change(old, Lookup(want, p)) = "unchanged"
      <3>1. PICK i \in DOMAIN W : W[i].path = p
        BY DEF PathsOf
      <3>2. Lookup(want, p) = W[i] /\ Lookup(old, p) = O[i]
        BY <2>1, <3>1, LookupFinds
      <3> QED BY <2>1, <2>2, <3>1, <3>2 DEF Change
    <2> QED BY <2>2, <2>3
  <1>4. ASSUME PathsOf(want) = PathsOf(old),
               \A p \in PathsOf(want) : Change(old, Lookup(want, p)) = "unchanged"
        PROVE  same
    <2> DEFINE n == Len(O)
               k == Len(W)
               s == [i \in DOMAIN O |-> O[i].path]
               t == [i \in DOMAIN W |-> W[i].path]
    <2>1. n \in Nat /\ k \in Nat /\ DOMAIN O = 1 .. n /\ DOMAIN W = 1 .. k
      BY DEF MadeOK
    <2>2. /\ \A i \in DOMAIN O : s[i] = O[i].path /\ s[i] \in Nat
          /\ \A i \in DOMAIN W : t[i] = W[i].path /\ t[i] \in Nat
      BY DEF MadeOK
    <2>3. /\ \A i, j \in DOMAIN O : i < j => s[i] < s[j]
          /\ \A i, j \in DOMAIN W : i < j => t[i] < t[j]
      BY DEF MadeOK
    <2>4. /\ \A i \in DOMAIN O : \E j \in DOMAIN W : t[j] = s[i]
          /\ \A i \in DOMAIN W : \E j \in DOMAIN O : s[j] = t[i]
      BY <1>4 DEF PathsOf
    <2> HIDE DEF n, k, s, t, O, W
    <2>5. Ascends(s, n) /\ Ascends(t, k)
      BY <2>1, <2>2, <2>3 DEF Ascends
    <2>6. FoundIn(s, n, t, k) /\ FoundIn(t, k, s, n)
      BY <2>1, <2>4 DEF FoundIn
    <2>9. AtTheSamePlaces(s, n, t, k) /\ AtTheSamePlaces(t, k, s, n)
      BY <2>1, <2>5, <2>6, SamePlaces
    <2> USE DEF O, W
    <2>7. n = k
      <3>1. n # 0 => n \in 1 .. n
        BY <2>1
      <3>2. k # 0 => k \in 1 .. k
        BY <2>1
      <3>3. n <= k /\ k <= n
        BY <2>1, <2>9, <3>1, <3>2 DEF AtTheSamePlaces
      <3> QED BY <2>1, <3>3
    <2>8. ASSUME NEW i \in DOMAIN O PROVE Line(O[i]) = Line(W[i])
      <3>1. i \in DOMAIN W /\ O[i].path = W[i].path
        BY <2>1, <2>2, <2>7, <2>8, <2>9 DEF AtTheSamePlaces
      <3>2. /\ Lookup(want, W[i].path) = W[i] /\ W[i].path \in PathsOf(want)
            /\ Lookup(old, O[i].path) = O[i]
        BY <3>1, LookupFinds
      <3>3. Change(old, W[i]) = "unchanged"
        BY <1>4, <3>2
      <3>4. O[i].digest = W[i].digest /\ O[i].size = W[i].size
        BY <3>1, <3>2, <3>3 DEF Change
      <3> QED BY <3>1, <3>4 DEF Line
    <2> QED BY <2>1, <2>7, <2>8
  <1>5. same <=> old.model.digest = want.model.digest
    BY DigestTellsLines
  <1> QED BY <1>1, <1>2, <1>3, <1>4, <1>5

-----------------------------------------------------------------------------
(* What Compare says.                                                      *)

\* Every manifest whose saving began was made.
BegunOK == \A m \in begun : MadeOK(m)

LEMMA BegunStays ==
    DescribeInv /\ BegunOK /\ [DescribeNext]_describeVars => BegunOK'
  <1> SUFFICES ASSUME DescribeInv, BegunOK, [DescribeNext]_describeVars PROVE BegunOK'
    OBVIOUS
  <1>1. CASE SaveBegins
    <2>1. begun' = begun \union {doc} /\ HasDoc
      BY <1>1 DEF SaveBegins, HasDoc
    <2>2. MadeOK(doc)
      BY <2>1, FilesOfDoc
    <2> QED BY <2>1, <2>2 DEF BegunOK
  <1>2. CASE ~ SaveBegins
    <2>1. begun' = begun
      BY <1>2 DEF DescribeNext, describeVars, saving, Begin, ChunkerStep, EntryEnds, BuildFails,
                  BuildEnds, Edit, HashEntry, SaveWrites, SaveSyncs, SaveRenames, SaveFails,
                  PowerLoss, Copy
    <2> QED BY <2>1 DEF BegunOK
  <1> QED BY <1>1, <1>2
\* The chunks of a manifest that was made hold the bytes of its files.
LEMMA DescribedFilesOK ==
    ASSUME DescribeInv, HasDoc
    PROVE  FilesOK(doc.files)
  <1>1. /\ DOMAIN doc.files = 1 .. Len(doc.files) /\ Len(doc.files) \in Nat
        /\ \A i \in DOMAIN doc.files : doc.files[i] \in entries
    BY FilesOfDoc
  <1>2. \A f \in entries : DescribedOK(f)
    BY ListedFacts
  <1>3. \A i \in DOMAIN doc.files : ChunksOK(doc.files[i]) /\ InOneRow(doc.files[i])
                                 /\ doc.files[i].size \in Nat
    BY <1>1, <1>2 DEF DescribedOK
  <1> QED BY <1>1, <1>3 DEF FilesOK

\* What Compare says is exact as long as the manifest's path holds nothing or
\* loads as a manifest that was to be saved there.
THEOREM PricesAreExact == DescribeSpec => [](LoadedIsOldOrNew => CompareIsExact)
  <1>1. DescribeInv /\ BegunOK => (LoadedIsOldOrNew => CompareIsExact)
    <2> SUFFICES ASSUME DescribeInv, BegunOK, LoadedIsOldOrNew, doc # None
                 PROVE  CompareIsExact
      BY DEF CompareIsExact
    <2> DEFINE old == IF disk = None THEN Nil ELSE ReadManifest(disk)
               d == Compare(old, doc)
               have == Digests(old)
               paid == FirstPlaces(doc, have)
    <2>1. /\ FilesOK(doc.files) /\ MadeOK(doc)
          /\ doc.model.size = TotalOf(doc.files, DOMAIN doc.files)
      BY FilesOfDoc, DescribedFilesOK DEF HasDoc
    <2>2. old # Nil => MadeOK(old)
      BY DEF LoadedIsOldOrNew, BegunOK
    <2>3. Digests(Nil) = {}
      <3>1. Nil.files = <<>> /\ DOMAIN <<>> = {}
        BY DEF Nil
      <3>2. Places(Nil) = {}
        BY <3>1 DEF Places
      <3> QED BY <3>2 DEF Digests
    <2> HIDE DEF old
    <2>4. d.reusable = BytesAt(doc, Places(doc) \ paid) /\ d.transfer = BytesAt(doc, paid)
      BY DEF Compare
    <2>5. d.reusable + d.transfer = doc.model.size
      <3>1. paid \in SUBSET Places(doc)
        BY DEF FirstPlaces
      <3> HIDE DEF paid, d
      <3> QED BY <2>1, <2>4, <3>1, BytesAddUp
    <2>6. d.transfer = Total(Digests(doc) \ Digests(old), LAMBDA x : Len(x.nums))
      <3> HIDE DEF d
      <3> QED BY <2>1, <2>4, PaidOnce
    <2>7. old # Nil => (d.identical <=> old.model.digest = doc.model.digest)
      BY <2>1, <2>2, IdenticalIsTold
    <2>8. Compare(Nil, doc).transfer = UniqueChunks(doc).bytes
      <3>1. Compare(Nil, doc).transfer = BytesAt(doc, FirstPlaces(doc, Digests(Nil)))
        BY DEF Compare
      <3>2. UniqueChunks(doc).bytes = BytesAt(doc, FirstPlaces(doc, {}))
        BY DEF UniqueChunks
      <3> QED BY <2>3, <3>1, <3>2
    <2> HIDE DEF d
    <2> QED BY <2>5, <2>6, <2>7, <2>8 DEF CompareIsExact, d, old
  <1>2. DescribeInit => BegunOK
    BY DEF DescribeInit, BegunOK
  <1>3. DescribeInv /\ DescribeInv' /\ BegunOK /\ [DescribeNext]_describeVars => BegunOK'
    BY BegunStays
  <1> QED BY <1>1, <1>2, <1>3, DescribeInvariance, PTL DEF DescribeSpec
=============================================================================
