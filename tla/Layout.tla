------------------------------- MODULE Layout -------------------------------
(***************************************************************************)
(* layout.Detect and TransferOrder.  A path is its place in byte order, by *)
(* which directories are sorted; what the tests on its name would say is a *)
(* constant.  A listing maps each path to the size of its file.            *)
(***************************************************************************)
EXTENDS Integers, Sequences, FiniteSets, FiniteSetsExt, SequencesExt

CONSTANTS
    Path,           \* numbers from 1, in the order of the names they stand for
    Name,           \* what a path looks like
    BlobWeight,     \* the size from which an Ollama blob is a weight
    ModelWeight     \* the size from which a .model file is a weight

\* special: the first test on the whole base name that holds; ext: the class
\* of the extension; blob: an Ollama blob's name, below blobs/; listed: below
\* manifests/; family, part, total: what shardRe captures (a family is numbered
\* like the paths), total 0 when the name does not match; form: what
\* ValidatePath finds.
NameForm ==
    [special : {"index", "config.json", "config", "tokenizer", "license", "none"},
     ext : {"safetensors", "gguf", "model", "weight", "text", "none"},
     blob : BOOLEAN, listed : BOOLEAN,
     family : Nat, part : Nat, total : Nat,
     form : {"clean", "backslash", "state", "escapes"}]

Role == {"config", "index", "tokenizer", "metadata", "other", "weight"}
Kind == {"ollama", "gguf", "huggingface", "generic"}

\* A blob's name, sha256 and a digest, has no extension and is no other.
ASSUME LayoutAssumption ==
    /\ Path \subseteq Nat \ {0} /\ \A p \in Path : Name[p] \in NameForm
    /\ \A p \in Path : Name[p].blob => Name[p].special = "none" /\ Name[p].ext = "none"
    /\ BlobWeight \in Nat /\ ModelWeight \in Nat

-----------------------------------------------------------------------------
(* Sorting.  (Not SetToSortSeq, which the provers cannot look into.)       *)

\* The members of S one after the other, given the pairs that are in order.
SortedBy(S, pairs) ==
    [i \in 1 .. Cardinality(S) |->
        CHOOSE x \in S : Cardinality({y \in S : <<y, x>> \in pairs}) = i - 1]

Ascending(S) == SortedBy(S, {e \in S \X S : e[1] < e[2]})
ByName(shards) == SortedBy(shards, {e \in shards \X shards : e[1].name < e[2].name})

-----------------------------------------------------------------------------
(* Detect.                                                                 *)

roleFor(p, size) ==
    LET n == Name[p] IN
    CASE n.special = "index" -> "index"
      [] n.special \in {"config.json", "config"} -> "config"
      [] n.special = "tokenizer" -> "tokenizer"
      [] n.special = "license" \/ (n.special = "none" /\ n.ext = "text") -> "metadata"
      [] n.special = "none" /\ n.ext = "model" /\ size < ModelWeight -> "tokenizer"
      [] n.special = "none" /\ n.ext = "none" -> "other"
      [] OTHER -> "weight"

\* The marks Detect counts: a name that says more is not asked its extension.
Marks(p) ==
    LET n == Name[p] IN
    {IF n.special \in {"config.json", "index"} THEN n.special ELSE n.ext}
        \union (IF n.blob THEN {"blob"} ELSE {})
        \union (IF n.listed THEN {"listed"} ELSE {})

KindOf(listing) ==
    LET marks == UNION {Marks(p) : p \in DOMAIN listing} IN
    IF {"blob", "listed"} \subseteq marks THEN "ollama"
    ELSE IF "gguf" \in marks /\ "safetensors" \notin marks THEN "gguf"
    ELSE IF marks \intersect {"safetensors", "index"} # {} THEN "huggingface" ELSE "generic"

\* Blobs have no extension.
RolesOf(listing) ==
    [p \in DOMAIN listing |->
        IF Name[p].blob /\ KindOf(listing) = "ollama"
        THEN IF listing[p] >= BlobWeight THEN "weight" ELSE "metadata"
        ELSE roleFor(p, listing[p])]

\* The first of a family, in the order of the listing, says how many there are.
FirstPath(S) == CHOOSE p \in S : \A q \in S : p <= q

ShardSet(listing, parts) ==
    [name |-> Name[FirstPath(parts)].family,
     parts |-> Ascending(parts),
     total |-> Name[FirstPath(parts)].total,
     size |-> MapThenSumSet(LAMBDA p : listing[p], parts)]

Families(sharded) == {{q \in sharded : Name[q].family = Name[p].family} : p \in sharded}

\* (Mutant: parts are grouped whatever they hold.)
detectShardsAny(listing, roles) ==
    ByName({ShardSet(listing, F) : F \in Families({p \in DOMAIN listing : Name[p].total > 1})})

\* Of the weights, those named as one part of several.
detectShards(listing, roles) ==
    LET sharded == {p \in DOMAIN listing : roles[p] = "weight" /\ Name[p].total > 1}
    IN  ByName({ShardSet(listing, F) : F \in Families(sharded)})

Complete(s) == s.total > 0 /\ Len(s.parts) = s.total

Detect(listing) ==
    [kind |-> KindOf(listing), roles |-> RolesOf(listing),
     shards |-> detectShards(listing, RolesOf(listing))]

-----------------------------------------------------------------------------
(* TransferOrder.                                                          *)

\* A role that is not known counts as the first.
Rank(role) ==
    CASE role = "index" -> 1 [] role = "tokenizer" -> 2 [] role = "metadata" -> 3
      [] role = "other" -> 4 [] role = "weight" -> 5 [] OTHER -> 0

\* (Mutant: by path alone.)
TransferOrderByPath(roles) == Ascending(DOMAIN roles)
TransferOrder(roles) ==
    SortedBy(DOMAIN roles,
        {e \in (DOMAIN roles) \X (DOMAIN roles) :
            \/ Rank(roles[e[1]]) < Rank(roles[e[2]])
            \/ Rank(roles[e[1]]) = Rank(roles[e[2]]) /\ e[1] < e[2]})

=============================================================================
