-------------------------------- MODULE Binary --------------------------------
(***************************************************************************)
(* The binary encoding of a manifest: numbers, strings and digests one     *)
(* after the other, and at the end the digest of them all.  A unit that is *)
(* read as one of another kind stands for bytes that make no sense there.  *)
(***************************************************************************)
EXTENDS Manifest

CONSTANTS
    MaxCount,       \* the limits of the counts, taken as one
    MaxLength       \* what a chunk's length may not exceed

\* Magic, version, hash and chunker of the format; the flags are zero.
Magic == Str("MMM1")
Algorithms == Unit("num", <<1, 1, 1>>, "", <<>>)

Sizes(o) == Unit("num", <<o.avg, o.min, o.max>>, "", <<>>)

\* Sequences one after the other.
Flat(ss) ==
    LET upTo[k \in 0 .. Len(ss)] == IF k = 0 THEN <<>> ELSE upTo[k - 1] \o ss[k]
    IN  upTo[Len(ss)]

EncodeShard(s) ==
    <<Num(s.name), Num(s.total), Num(s.size), Num(Len(s.parts))>>
        \o [k \in DOMAIN s.parts |-> Num(s.parts[k])]

EncodeFile(f) ==
    <<Num(f.path), Num(f.size), Str(f.role), f.digest, Sizes(f.chunker), Num(Len(f.chunks))>>
        \o Flat([k \in DOMAIN f.chunks |-> <<Num(f.chunks[k].length), f.chunks[k].digest>>])

EncodeHeader(m) ==
    <<Magic, Algorithms, Num(0), Sizes(m.chunker), Str(m.model.kind), m.model.digest>>

\* The totals and the offsets are not written.
EncodeBody(m) ==
    EncodeHeader(m)
        \o <<Num(Len(m.model.shards))>>
        \o Flat([i \in DOMAIN m.model.shards |-> EncodeShard(m.model.shards[i])])
        \o <<Num(Len(m.files))>>
        \o Flat([i \in DOMAIN m.files |-> EncodeFile(m.files[i])])

EncodeBinary(m) == Append(EncodeBody(m), SumOf(EncodeBody(m)))

-----------------------------------------------------------------------------
(* The reader stops at the first unit that is not what it must be; then    *)
(* nothing has been read.  A place is the number of units before it.       *)

\* Whether the units from place p on are of the given kinds.
Follows(u, p, kinds) ==
    p + Len(kinds) <= Len(u) /\ \A k \in DOMAIN kinds : u[p + k].kind = kinds[k]
Value(u, p) == u[p + 1].nums[1]

\* A count beyond the limit is refused before anything is read.
HasCount(u, p) == Follows(u, p, <<"num">>) /\ Value(u, p) <= MaxCount

\* Where n things begin that are width[p] long if they begin at place p, and
\* where the last one ends.
Starts(n, first, width) ==
    LET at[k \in 0 .. n] == IF k = 0 THEN first ELSE at[k - 1] + width[at[k - 1]] IN at

IsShard(u, p) ==
    /\ Follows(u, p, <<"num", "num", "num">>) /\ HasCount(u, p + 3)
    /\ \A k \in 1 .. Value(u, p + 3) : Follows(u, p + 3 + k, <<"num">>)
ShardAt(u, p) ==
    [name |-> Value(u, p), total |-> Value(u, p + 1), size |-> Value(u, p + 2),
     parts |-> [k \in 1 .. Value(u, p + 3) |-> Value(u, p + 3 + k)]]
ShardWidth(u) == [p \in Nat |-> IF IsShard(u, p) THEN 4 + Value(u, p + 3) ELSE 0]

SizesOf(unit) == [avg |-> unit.nums[1], min |-> unit.nums[2], max |-> unit.nums[3]]

\* A chunk's length may be zero.
ChunkPlace(p, k) == p + 2 * (k - 1)
IsFile(u, p) ==
    /\ Follows(u, p, <<"num", "num", "str", "digest", "num">>) /\ Len(u[p + 5].nums) = 3
    /\ HasCount(u, p + 5)
    /\ \A k \in 1 .. Value(u, p + 5) :
         /\ Follows(u, ChunkPlace(p + 6, k), <<"num", "digest">>)
         /\ Value(u, ChunkPlace(p + 6, k)) <= MaxLength

\* The offsets are put back.
ChunksAt(u, p, n) ==
    LET from[k \in 1 .. n] ==
            IF k = 1 THEN 0 ELSE from[k - 1] + Value(u, ChunkPlace(p, k - 1))
    IN  [k \in 1 .. n |-> [offset |-> from[k], length |-> Value(u, ChunkPlace(p, k)),
                           digest |-> u[ChunkPlace(p, k) + 2]]]
FileAt(u, p) ==
    [path |-> Value(u, p), size |-> Value(u, p + 1), role |-> u[p + 3].string,
     digest |-> u[p + 4], chunker |-> SizesOf(u[p + 5]),
     chunks |-> ChunksAt(u, p + 6, Value(u, p + 5))]
FileWidth(u) == [p \in Nat |-> IF IsFile(u, p) THEN 6 + 2 * Value(u, p + 5) ELSE 0]

\* Other versions and algorithms are refused, flags are not looked at.
GoodHeader(u) ==
    /\ Follows(u, 0, <<"str", "num", "num", "num", "str", "digest">>)
    /\ u[1] = Magic /\ u[2] = Algorithms /\ Len(u[4].nums) = 3

ShardStarts(u) == Starts(Value(u, 6), 7, ShardWidth(u))
FileCount(u) == ShardStarts(u)[Value(u, 6)]
FileStarts(u) == Starts(Value(u, FileCount(u)), FileCount(u) + 1, FileWidth(u))
BodyEnd(u) == FileStarts(u)[Value(u, FileCount(u))]

Readable(u) ==
    /\ GoodHeader(u)
    /\ HasCount(u, 6) /\ \A k \in 0 .. Value(u, 6) - 1 : IsShard(u, ShardStarts(u)[k])
    /\ HasCount(u, FileCount(u))
    /\ \A k \in 0 .. Value(u, FileCount(u)) - 1 : IsFile(u, FileStarts(u)[k])

Decoded(u) ==
    Recount([chunker |-> SizesOf(u[4]),
             files |-> [k \in 1 .. Value(u, FileCount(u)) |-> FileAt(u, FileStarts(u)[k - 1])],
             model |-> [kind |-> u[5].string,
                        shards |-> [k \in 1 .. Value(u, 6) |-> ShardAt(u, ShardStarts(u)[k - 1])],
                        digest |-> u[6],
                        files |-> 0, size |-> 0, weightFiles |-> 0, weightBytes |-> 0]])

\* (Mutant: the digest at the end is not compared.)
DecodeBinaryUnchecked(u, error) ==
    IF Readable(u) /\ BodyEnd(u) < Len(u) THEN Decoded(u) ELSE error

\* The digest of what was read must follow; what comes after it is not read.
DecodeBinary(u, error) ==
    IF Readable(u) /\ BodyEnd(u) < Len(u) /\ u[BodyEnd(u) + 1] = SumOf(SubSeq(u, 1, BodyEnd(u)))
    THEN Decoded(u) ELSE error
=============================================================================
