------------------------------- MODULE Chunker -------------------------------
(***************************************************************************)
(* chunk.Chunker: FastCDC over a stream whose reader returns as little or  *)
(* as much as it likes, with io.EOF alone or beside the last bytes, or an  *)
(* error.  The bytes between start and end slide through a buffer of twice *)
(* the maximum chunk size; what lies beyond end is never looked at.        *)
(* Machine words have Width bits, 32 in the code.                          *)
(***************************************************************************)
EXTENDS Integers, Sequences

CONSTANTS
    Byte,           \* the bytes a stream is made of
    Gear,           \* the substitution table
    Width,          \* bits of an unsigned word
    MinChunkSize, MaxChunkSize,
    Small,          \* the preset for small files: [avg, min, max]
    Streams,        \* the streams to be cut
    Requests        \* the options a caller may ask for, 0 for a default

Word == 2 ^ Width
Options == [avg : 0 .. Word - 1, min : 0 .. Word - 1, max : 0 .. Word - 1]

ASSUME ChunkerAssumption ==
    /\ Width \in Nat \ {0} /\ Word \in Nat \ {0} /\ Gear \in [Byte -> Nat]
    /\ MinChunkSize \in Nat /\ 4 <= MinChunkSize /\ MaxChunkSize \in Nat
    /\ 4 * MaxChunkSize <= Word
    /\ Streams \subseteq Seq(Byte)
    /\ Requests \subseteq Options /\ Small \in Options

\* What 2 ^ n means, as far as a word goes: the provers have no notion of it.
ASSUME PowersOfTwo == \A n \in 0 .. Width : 2 ^ n \in Nat /\ 2 ^ (n + 1) = 2 * 2 ^ n

AtMost(a, b) == IF a <= b THEN a ELSE b

-----------------------------------------------------------------------------
(* chunk.go: parameters.                                                   *)

Normalized(o) ==
    LET avg == IF o.avg = 0 THEN Small.avg ELSE o.avg IN
    [avg |-> avg,
     min |-> IF o.min = 0 THEN avg \div 4 ELSE o.min,
     max |-> IF o.max = 0 THEN (avg * 4) % Word ELSE o.max]

\* (Mutant: no upper bound.)
ValidUnbounded(o) == MinChunkSize <= o.min /\ o.min <= o.avg /\ o.avg <= o.max
Valid(o) ==
    /\ MinChunkSize <= o.min /\ o.max <= MaxChunkSize
    /\ o.min <= o.avg /\ o.avg <= o.max

-----------------------------------------------------------------------------
(* findCut.                                                                *)

normalizationLevel == 2
Log2(v) == IF v = 0 THEN 0 ELSE CHOOSE n \in 0 .. Width - 1 : 2 ^ n <= v /\ v < 2 ^ (n + 1)

\* The value modulo which a hash must vanish: the low bits of a mask.
Mask(bits) ==
    2 ^ (IF bits < 1 THEN 1 ELSE IF bits > Width - 1 THEN Width - 1 ELSE bits)
StrictMask(o) == Mask(Log2(o.avg) + normalizationLevel)
LenientMask(o) == Mask((Log2(o.avg) - normalizationLevel) % Word)

\* The first member of S, or n if there is none.
FirstIn(S, n) ==
    IF \E i \in S : \A j \in S : i <= j THEN CHOOSE i \in S : \A j \in S : i <= j ELSE n

\* The offsets of data at which the gear hash, begun at the minimum size,
\* lets a chunk end.
CutPoints(data, o) ==
    LET h[i \in o.min - 1 .. Len(data) - 1] ==
            IF i < o.min THEN 0 ELSE (2 * h[i - 1] + Gear[data[i + 1]]) % Word
    IN  {i \in o.min .. Len(data) - 1 :
            h[i] % (IF i < o.avg THEN StrictMask(o) ELSE LenientMask(o)) = 0}

FindCut(data, o) ==
    LET n == AtMost(Len(data), o.max)
    IN  IF n <= o.min THEN n ELSE FirstIn(CutPoints(SubSeq(data, 1, n), o), n)

-----------------------------------------------------------------------------
VARIABLES
    request,    \* the options the caller asked for
    opt,        \* the parameters in use
    stream,     \* what the reader reads
    pos,        \* how much of it has been read
    buf,        \* the bytes of the buffer below end
    start,      \* where the bytes not yet returned begin
    eof,        \* whether the reader has said so
    off,        \* the offset of the next chunk
    cuts,       \* the chunks returned: offset and length
    at          \* "next", "fill", "cut", "eof", "failed", "refused"

cutter == <<pos, buf, start, eof, off, cuts>>
chunkerVars == <<request, opt, stream, cutter, at>>

Ahead == SubSeq(buf, start + 1, Len(buf))

\* NewChunker, after Validate (hash.go:80): on stream s with options o.
NewChunker(s, o) ==
    /\ request' = o /\ opt' = Normalized(o) /\ stream' = s
    /\ pos' = 0 /\ buf' = <<>> /\ start' = 0 /\ eof' = FALSE
    /\ off' = 0 /\ cuts' = <<>>
    /\ at' = IF Valid(Normalized(o)) THEN "next" ELSE "refused"

\* fill: nothing to do, or the bytes left are moved to the front.
BeginFill ==
    /\ at = "next"
    /\ IF eof \/ Len(buf) - start >= opt.max
         THEN at' = "cut" /\ UNCHANGED <<buf, start>>
         ELSE at' = "fill" /\ buf' = Ahead /\ start' = 0
    /\ UNCHANGED <<request, opt, stream, pos, eof, off, cuts>>

\* Takes n bytes from the reader.
Take(n) ==
    /\ at = "fill"
    /\ pos + n <= Len(stream) /\ Len(buf) + n <= 2 * opt.max
    /\ buf' = buf \o SubSeq(stream, pos + 1, pos + n)
    /\ pos' = pos + n
    /\ UNCHANGED <<request, opt, stream, start, off, cuts>>

\* (Mutant: any bytes at all end the loop.)
ReadOnce(n) ==
    /\ n > 0 /\ Take(n) /\ UNCHANGED eof
    /\ at' = "cut"

\* A read without bytes and without an error changes nothing.
Read(n) ==
    /\ n > 0 /\ Take(n) /\ UNCHANGED eof
    /\ at' = IF Len(buf') >= opt.max THEN "cut" ELSE "fill"

ReadEnds(n) ==
    /\ Take(n) /\ pos' = Len(stream)
    /\ eof' = TRUE /\ at' = "cut"

ReadFails(n) == Take(n) /\ at' = "failed" /\ UNCHANGED eof

Cut ==
    /\ at = "cut" /\ start < Len(buf)
    /\ LET n == FindCut(Ahead, opt) IN
         /\ cuts' = Append(cuts, [off |-> off, len |-> n])
         /\ start' = start + n /\ off' = off + n
    /\ at' = "next"
    /\ UNCHANGED <<request, opt, stream, pos, buf, eof>>

NoMore ==
    /\ at = "cut" /\ start = Len(buf)
    /\ at' = "eof"
    /\ UNCHANGED <<request, opt, stream, cutter>>

ChunkerInit ==
    /\ request \in Requests /\ stream \in Streams
    /\ opt = Normalized(request)
    /\ pos = 0 /\ buf = <<>> /\ start = 0 /\ eof = FALSE /\ off = 0 /\ cuts = <<>>
    /\ at = IF Valid(Normalized(request)) THEN "next" ELSE "refused"

ChunkerNext ==
    \/ BeginFill \/ Cut \/ NoMore
    \/ \E n \in 0 .. Len(stream) : Read(n) \/ ReadEnds(n) \/ ReadFails(n)

ChunkerSpec == ChunkerInit /\ [][ChunkerNext]_chunkerVars

-----------------------------------------------------------------------------
(* Properties.                                                             *)

\* What a cut at offset o may depend on: the longest chunk from there.
Window(o) == SubSeq(stream, o + 1, AtMost(o + opt.max, Len(stream)))

\* Where chunks end is a function of the bytes alone: however the reader
\* splits its reads, wherever the buffer ends and whatever was moved in it,
\* each chunk is the one findCut finds looking at the stream itself, the
\* chunks follow one another, and at the end they are all of it (fill and
\* Next, chunker.go:48-90).
CutsAreCanonical ==
    /\ \A k \in DOMAIN cuts :
         /\ cuts[k].len = FindCut(Window(cuts[k].off), opt)
         /\ cuts[k].len > 0
         /\ cuts[k].off + cuts[k].len =
                IF k = Len(cuts) THEN off ELSE cuts[k + 1].off
    /\ off = 0 \/ (cuts # <<>> /\ cuts[1].off = 0)
    /\ at = "eof" => off = Len(stream)
=============================================================================
