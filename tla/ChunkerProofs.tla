---------------------------- MODULE ChunkerProofs ----------------------------
(***************************************************************************)
(* For every table of bytes, word width and set of options, and for every  *)
(* stream: the cuts do not depend on how the stream was read.              *)
(***************************************************************************)
EXTENDS Chunker, SequenceTheorems, WellFoundedInduction, TLAPS

\* The parameters are numbers, as long as the chunker runs.
OptOK ==
    /\ opt.min \in Nat \ {0} /\ opt.avg \in Nat /\ opt.max \in Nat
    /\ opt.min <= opt.max

\* What lies between start and end is the stretch of the stream from off on.
InRange ==
    /\ stream \in Seq(Byte) /\ buf \in Seq(Byte)
    /\ pos \in 0 .. Len(stream) /\ start \in 0 .. Len(buf) /\ off \in Nat
    /\ off + Len(buf) - start = pos
Aligned == \A i \in 1 .. Len(buf) - start : buf[start + i] = stream[off + i]
BufferOK == InRange /\ Aligned

\* findCut is called with at least the longest chunk, or with all there is.
FilledOK ==
    /\ eof \in BOOLEAN /\ (eof => pos = Len(stream))
    /\ at = "cut" => eof \/ Len(buf) - start >= opt.max
    /\ at = "eof" => start = Len(buf) /\ eof
    /\ at = "fill" => start = 0

CutOK(k) ==
    /\ cuts[k].len = FindCut(Window(cuts[k].off), opt)
    /\ cuts[k].len > 0
    /\ cuts[k].off + cuts[k].len = IF k = Len(cuts) THEN off ELSE cuts[k + 1].off

CutsOK ==
    /\ cuts \in Seq([off : Nat, len : Nat])
    /\ \A k \in 1 .. Len(cuts) : CutOK(k)
    /\ IF cuts = <<>> THEN off = 0 ELSE cuts[1].off = 0

Running == at # "refused"
ChunkerInv ==
    /\ Running => OptOK /\ BufferOK /\ FilledOK /\ CutsOK
    /\ ~ Running => cuts = <<>> /\ off = 0

-----------------------------------------------------------------------------

\* The stretch of a sequence from an offset on.
LEMMA Stretch ==
    ASSUME NEW s \in Seq(Byte), NEW a \in Nat, NEW b \in Nat, a <= b, b <= Len(s)
    PROVE  /\ SubSeq(s, a + 1, b) \in Seq(Byte)
           /\ Len(SubSeq(s, a + 1, b)) = b - a
           /\ \A i \in 1 .. b - a : SubSeq(s, a + 1, b)[i] = s[a + i]
  <1>1. \A i \in a + 1 .. b : s[i] \in Byte
    OBVIOUS
  <1>2. /\ SubSeq(s, a + 1, b) \in Seq(Byte)
        /\ Len(SubSeq(s, a + 1, b)) = IF a + 1 <= b THEN b - (a + 1) + 1 ELSE 0
        /\ \A i \in 1 .. b - (a + 1) + 1 : SubSeq(s, a + 1, b)[i] = s[(a + 1) + i - 1]
    BY <1>1, SubSeqProperties
  <1>3. \A i \in 1 .. b - a : (a + 1) + i - 1 = a + i
    OBVIOUS
  <1> QED BY <1>2, <1>3

\* The first member of a set of numbers below n, or n.
LEMMA FirstInRange ==
    ASSUME NEW S, NEW n, NEW T, S \subseteq T, n \in T
    PROVE  FirstIn(S, n) \in T
  BY DEF FirstIn

\* A chunk is not empty and not longer than the data or the maximum.
LEMMA FindCutRange ==
    ASSUME NEW data \in Seq(Byte), data # <<>>,
           NEW o, o.min \in Nat \ {0}, o.max \in Nat, o.min <= o.max
    PROVE  FindCut(data, o) \in 1 .. AtMost(Len(data), o.max)
  <1> DEFINE n == AtMost(Len(data), o.max)
             first == SubSeq(data, 1, n)
  <1>1. n \in Nat /\ 1 <= n /\ n <= Len(data)
    BY DEF AtMost
  <1>2. first \in Seq(Byte) /\ Len(first) = n
    BY <1>1
  <1>3. CutPoints(first, o) \subseteq o.min .. Len(first) - 1
    BY DEF CutPoints
  <1>4. CutPoints(first, o) \subseteq 1 .. n
    BY <1>1, <1>2, <1>3
  <1>5. FirstIn(CutPoints(first, o), n) \in 1 .. n
    <2> n \in 1 .. n
      BY <1>1
    <2> HIDE DEF n, first
    <2> QED BY <1>4, FirstInRange
  <1>6. FindCut(data, o) = IF n <= o.min THEN n ELSE FirstIn(CutPoints(first, o), n)
    BY DEF FindCut
  <1> QED BY <1>1, <1>5, <1>6

\* findCut looks at the beginning of its data only, as far as the longest chunk.
LEMMA FindCutLooksAhead ==
    ASSUME NEW d \in Seq(Byte), NEW e \in Seq(Byte),
           NEW o, o.max \in Nat,
           AtMost(Len(d), o.max) = AtMost(Len(e), o.max),
           \A i \in 1 .. AtMost(Len(d), o.max) : d[i] = e[i]
    PROVE  FindCut(d, o) = FindCut(e, o)
  <1> DEFINE n == AtMost(Len(d), o.max)
  <1>1. n \in Nat /\ n <= Len(d) /\ n <= Len(e)
    BY DEF AtMost
  <1>2. SubSeq(d, 1, n) = SubSeq(e, 1, n)
    BY <1>1
  <1> QED BY <1>2 DEF FindCut

-----------------------------------------------------------------------------
(* The invariant.                                                          *)

\* Options that Validate accepts are numbers in the right order.
LEMMA ValidOptions ==
    ASSUME NEW r \in Options, Valid(Normalized(r))
    PROVE  /\ Normalized(r).min \in Nat \ {0} /\ Normalized(r).avg \in Nat
           /\ Normalized(r).max \in Nat
           /\ Normalized(r).min <= Normalized(r).max
  <1> DEFINE avg == IF r.avg = 0 THEN Small.avg ELSE r.avg
  <1>1. avg \in Nat /\ r.min \in Nat /\ r.max \in Nat
    BY ChunkerAssumption DEF Options
  <1>2. (avg * 4) % Word \in Nat /\ avg \div 4 \in Nat
    BY <1>1, ChunkerAssumption
  <1>3. /\ Normalized(r).avg = avg
        /\ Normalized(r).min = IF r.min = 0 THEN avg \div 4 ELSE r.min
        /\ Normalized(r).max = IF r.max = 0 THEN (avg * 4) % Word ELSE r.max
    BY DEF Normalized
  <1>4. /\ MinChunkSize <= Normalized(r).min
        /\ Normalized(r).min <= Normalized(r).avg /\ Normalized(r).avg <= Normalized(r).max
    BY DEF Valid
  <1>5. MinChunkSize \in Nat /\ 4 <= MinChunkSize
    BY ChunkerAssumption
  <1> HIDE DEF avg
  <1>6. Normalized(r).min \in Nat /\ Normalized(r).avg \in Nat /\ Normalized(r).max \in Nat
    BY <1>1, <1>2, <1>3
  <1> QED BY <1>4, <1>5, <1>6

LEMMA InvInit == ChunkerInit => ChunkerInv
  <1> SUFFICES ASSUME ChunkerInit, Running PROVE OptOK /\ BufferOK /\ FilledOK /\ CutsOK
    BY DEF ChunkerInv, ChunkerInit
  <1>1. request \in Options /\ stream \in Seq(Byte)
    BY ChunkerAssumption DEF ChunkerInit
  <1>2. Valid(Normalized(request)) /\ opt = Normalized(request) /\ at = "next"
    BY DEF ChunkerInit, Running
  <1>3. OptOK
    BY <1>1, <1>2, ValidOptions DEF OptOK
  <1>4. /\ pos = 0 /\ buf = <<>> /\ start = 0 /\ eof = FALSE /\ off = 0
        /\ cuts = <<>>
    BY DEF ChunkerInit
  <1>5. BufferOK
    BY <1>1, <1>4 DEF BufferOK, InRange, Aligned
  <1>6. FilledOK
    BY <1>2, <1>4 DEF FilledOK
  <1>7. CutsOK
    BY <1>4 DEF CutsOK
  <1> QED BY <1>3, <1>5, <1>6, <1>7

\* Steps that return no chunk leave the cuts as they are.
LEMMA CutsStay ==
    ASSUME CutsOK, UNCHANGED <<opt, stream, off, cuts>>
    PROVE  CutsOK'
  <1>1. \A k \in 1 .. Len(cuts) : CutOK(k)'
    BY DEF CutsOK, CutOK, Window
  <1> QED BY <1>1 DEF CutsOK

LEMMA StepBeginFill == ASSUME ChunkerInv, BeginFill PROVE ChunkerInv'
  <1>1. OptOK /\ BufferOK /\ FilledOK /\ CutsOK
    BY DEF ChunkerInv, Running, BeginFill
  <1>2. OptOK' /\ CutsOK'
    BY <1>1, CutsStay DEF BeginFill, OptOK
  <1>3. CASE eof \/ Len(buf) - start >= opt.max
    <2>1. BufferOK'
      BY <1>1, <1>3 DEF BeginFill, BufferOK, InRange, Aligned
    <2>2. FilledOK' /\ Running'
      BY <1>1, <1>3 DEF BeginFill, FilledOK, Running
    <2> QED BY <1>2, <2>1, <2>2 DEF ChunkerInv
  <1>4. CASE ~ (eof \/ Len(buf) - start >= opt.max)
    <2>1. /\ start \in Nat /\ Len(buf) \in Nat /\ start <= Len(buf) /\ buf \in Seq(Byte)
          /\ off + Len(buf) - start = pos /\ off \in Nat
      BY <1>1 DEF BufferOK, InRange
    <2>2. /\ Ahead \in Seq(Byte) /\ Len(Ahead) = Len(buf) - start
          /\ \A i \in 1 .. Len(buf) - start : Ahead[i] = buf[start + i]
      BY <2>1, Stretch DEF Ahead
    <2>3. buf' = Ahead /\ start' = 0 /\ at' = "fill"
      BY <1>4 DEF BeginFill
    <2>4. UNCHANGED <<stream, pos, off>>
      BY DEF BeginFill
    <2>5. /\ buf' \in Seq(Byte) /\ Len(buf') = Len(buf) - start
          /\ off' + Len(buf') - start' = pos'
      BY <2>1, <2>2, <2>3, <2>4
    <2>6. ASSUME NEW i \in 1 .. Len(buf') - start'
          PROVE  buf'[start' + i] = stream'[off' + i]
      <3>1. i \in 1 .. Len(buf) - start /\ buf'[start' + i] = Ahead[i]
        BY <2>1, <2>3, <2>5
      <3> QED BY <1>1, <2>2, <2>4, <3>1 DEF BufferOK, Aligned
    <2>7. BufferOK'
      BY <1>1, <2>1, <2>3, <2>4, <2>5, <2>6 DEF BufferOK, InRange, Aligned
    <2>8. FilledOK' /\ Running'
      BY <1>1, <2>3 DEF BeginFill, FilledOK, Running
    <2> QED BY <1>2, <2>7, <2>8 DEF ChunkerInv
  <1> QED BY <1>3, <1>4

\* Bytes that are read are the next of the stream.
LEMMA TakeAppends ==
    ASSUME OptOK, BufferOK, CutsOK, NEW n \in Nat, Take(n)
    PROVE  /\ OptOK' /\ BufferOK' /\ CutsOK'
           /\ pos' = pos + n /\ at = "fill"
  <1> DEFINE new == SubSeq(stream, pos + 1, pos + n)
  <1>0. /\ start \in Nat /\ off \in Nat /\ pos \in Nat /\ Len(buf) \in Nat
        /\ Len(stream) \in Nat /\ start <= Len(buf) /\ off + Len(buf) - start = pos
        /\ stream \in Seq(Byte) /\ buf \in Seq(Byte)
    BY DEF BufferOK, InRange
  <1>1. pos + n <= Len(stream) /\ buf' = buf \o new /\ pos' = pos + n /\ at = "fill"
    BY DEF Take
  <1>2. UNCHANGED <<opt, stream, start, off, cuts>>
    BY DEF Take
  <1>3. /\ new \in Seq(Byte) /\ Len(new) = n
        /\ \A i \in 1 .. n : new[i] = stream[pos + i]
    <2> DEFINE b == pos + n
               bytes == SubSeq(stream, pos + 1, b)
    <2>1. b \in Nat /\ pos <= b /\ b <= Len(stream) /\ b - pos = n
      BY <1>0, <1>1
    <2>2. pos \in Nat /\ stream \in Seq(Byte)
      BY <1>0
    <2> HIDE DEF b
    <2>3. /\ bytes \in Seq(Byte) /\ Len(bytes) = b - pos
          /\ \A i \in 1 .. b - pos : bytes[i] = stream[pos + i]
      BY <2>1, <2>2, Stretch
    <2> QED BY <2>1, <2>3 DEF b
  <1> HIDE DEF new
  <1>4. /\ buf' \in Seq(Byte) /\ Len(buf') = Len(buf) + n
        /\ \A i \in 1 .. Len(buf) : buf'[i] = buf[i]
        /\ \A i \in 1 .. n : buf'[Len(buf) + i] = new[i]
    <2>1. /\ buf \o new \in Seq(Byte) /\ Len(buf \o new) = Len(buf) + Len(new)
          /\ \A i \in 1 .. Len(buf) + Len(new) :
                (buf \o new)[i] = IF i <= Len(buf) THEN buf[i] ELSE new[i - Len(buf)]
      BY <1>0, <1>3, ConcatProperties
    <2>2. \A i \in 1 .. Len(buf) : i \in 1 .. Len(buf) + n /\ i <= Len(buf)
      BY <1>0
    <2>3. \A i \in 1 .. n : /\ Len(buf) + i \in 1 .. Len(buf) + n
                            /\ ~ (Len(buf) + i <= Len(buf)) /\ (Len(buf) + i) - Len(buf) = i
      BY <1>0
    <2> QED BY <1>1, <1>3, <2>1, <2>2, <2>3
  <1>5. OptOK' /\ CutsOK'
    BY <1>2, CutsStay DEF OptOK
  <1>6. ASSUME NEW i \in 1 .. Len(buf') - start'
        PROVE  buf'[start' + i] = stream'[off' + i]
    <2>1. CASE i <= Len(buf) - start
      <3>1. i \in 1 .. Len(buf) - start /\ start + i \in 1 .. Len(buf)
        BY <1>0, <1>2, <1>4, <2>1
      <3> QED BY <1>2, <1>4, <3>1 DEF BufferOK, Aligned
    <2>2. CASE i > Len(buf) - start
      <3> DEFINE b == Len(buf)
                 j == start + i - b
      <3>1. i \in Nat /\ i <= b + n - start
        BY <1>0, <1>2, <1>4
      <3>2. /\ b \in Nat /\ start \in Nat /\ off \in Nat /\ pos \in Nat /\ n \in Nat
            /\ off + b - start = pos /\ i > b - start
        BY <1>0, <2>2
      <3> HIDE DEF b
      <3>3. j \in 1 .. n /\ start + i = b + j /\ off + i = pos + j
        BY <3>1, <3>2
      <3>4. j \in 1 .. n /\ start + i = Len(buf) + j /\ off + i = pos + j
        BY <3>3 DEF b
      <3> HIDE DEF j
      <3> QED BY <1>2, <1>3, <1>4, <3>4
    <2> QED BY <1>0, <1>2, <1>4, <2>1, <2>2
  <1>7. /\ stream' \in Seq(Byte) /\ buf' \in Seq(Byte) /\ off' \in Nat
        /\ pos' \in 0 .. Len(stream') /\ start' \in 0 .. Len(buf')
        /\ off' + Len(buf') - start' = pos'
    <2> DEFINE b == Len(buf)
               b1 == Len(buf')
               all == Len(stream)
    <2>1. /\ stream' = stream /\ start' = start /\ off' = off /\ pos' = pos + n
          /\ pos + n <= all /\ b1 = b + n /\ b \in Nat /\ all \in Nat
          /\ start \in Nat /\ off \in Nat /\ pos \in Nat /\ start <= b /\ off + b - start = pos
      BY <1>0, <1>1, <1>2, <1>4
    <2>2. stream' \in Seq(Byte) /\ buf' \in Seq(Byte)
      BY <1>0, <1>2, <1>4
    <2> HIDE DEF b, b1, all
    <2>3. pos' \in 0 .. all /\ start' \in 0 .. b1 /\ off' \in Nat /\ off' + b1 - start' = pos'
      BY <2>1
    <2> QED BY <2>1, <2>2, <2>3 DEF b1, all
  <1>8. BufferOK'
    BY <1>6, <1>7 DEF BufferOK, InRange, Aligned
  <1> QED BY <1>1, <1>5, <1>8

LEMMA StepReads ==
    ASSUME ChunkerInv, NEW n \in Nat, Read(n) \/ ReadEnds(n) \/ ReadFails(n)
    PROVE  ChunkerInv'
  <1>1. Take(n) /\ at = "fill"
    BY DEF Read, ReadEnds, ReadFails, Take
  <1>2. OptOK /\ BufferOK /\ FilledOK /\ CutsOK
    BY <1>1 DEF ChunkerInv, Running
  <1>3. OptOK' /\ BufferOK' /\ CutsOK' /\ pos' = pos + n
    BY <1>1, <1>2, TakeAppends
  <1>4. UNCHANGED <<opt, stream, start>> /\ pos + n <= Len(stream)
    BY <1>1 DEF Take
  <1>5. eof => n = 0
    BY <1>2, <1>4 DEF FilledOK, BufferOK, InRange
  <1>6. FilledOK'
    <2>1. CASE Read(n)
      <3>1. start' = 0 /\ Len(buf') \in Nat /\ opt' = opt /\ opt.max \in Nat
        BY <1>1, <1>2, <1>3, <1>4 DEF FilledOK, BufferOK, InRange, OptOK
      <3>2. eof' = FALSE /\ at' = IF Len(buf') >= opt.max THEN "cut" ELSE "fill"
        BY <1>2, <1>5, <2>1 DEF Read, FilledOK
      <3>3. at' = "cut" => eof' \/ Len(buf') - start' >= opt'.max
        BY <3>1, <3>2
      <3> QED BY <3>1, <3>2, <3>3 DEF FilledOK
    <2>2. CASE ReadEnds(n)
      BY <1>3, <1>4, <2>2 DEF ReadEnds, FilledOK
    <2>3. CASE ReadFails(n)
      BY <1>2, <1>3, <1>4, <1>5, <2>3 DEF ReadFails, FilledOK, BufferOK, InRange
    <2> QED BY <2>1, <2>2, <2>3
  <1>7. Running'
    BY DEF Read, ReadEnds, ReadFails, Running
  <1> QED BY <1>3, <1>6, <1>7 DEF ChunkerInv

LEMMA StepNoMore == ASSUME ChunkerInv, NoMore PROVE ChunkerInv'
  <1>1. OptOK /\ BufferOK /\ FilledOK /\ CutsOK
    BY DEF ChunkerInv, Running, NoMore
  <1>2. OptOK' /\ BufferOK' /\ CutsOK'
    BY <1>1, CutsStay DEF NoMore, cutter, OptOK, BufferOK, InRange, Aligned
  <1>3. FilledOK'
    <2>1. eof \/ Len(buf) - start >= opt.max
      BY <1>1 DEF NoMore, FilledOK
    <2>2. start = Len(buf) /\ Len(buf) \in Nat /\ opt.max \in Nat /\ opt.max > 0
      BY <1>1 DEF NoMore, BufferOK, InRange, OptOK
    <2> QED BY <1>1, <2>1, <2>2 DEF NoMore, cutter, FilledOK
  <1>4. Running'
    BY DEF NoMore, Running
  <1> QED BY <1>2, <1>3, <1>4 DEF ChunkerInv

\* The cut: what findCut is shown agrees with the stream as far as it looks.
LEMMA StepCut == ASSUME ChunkerInv, Cut PROVE ChunkerInv'
  <1> DEFINE n == FindCut(Ahead, opt)
             this == [off |-> off, len |-> n]
  <1>1. OptOK /\ BufferOK /\ FilledOK /\ CutsOK /\ at = "cut" /\ start < Len(buf)
    BY DEF ChunkerInv, Running, Cut
  <1>2. /\ UNCHANGED <<request, opt, stream, pos, buf, eof>> /\ at' = "next"
        /\ start' = start + n /\ off' = off + n /\ cuts' = Append(cuts, this)
    BY DEF Cut
  <1>3. /\ start \in Nat /\ off \in Nat /\ pos \in Nat /\ Len(buf) \in Nat
        /\ Len(stream) \in Nat /\ pos <= Len(stream)
        /\ off + Len(buf) - start = pos
        /\ buf \in Seq(Byte) /\ stream \in Seq(Byte)
        /\ opt.min \in Nat \ {0} /\ opt.max \in Nat /\ opt.min <= opt.max
    BY <1>1 DEF BufferOK, InRange, OptOK
  <1>4. /\ Ahead \in Seq(Byte) /\ Len(Ahead) = Len(buf) - start
        /\ \A i \in 1 .. Len(buf) - start : Ahead[i] = buf[start + i]
    <2> DEFINE b == Len(buf)
               ahead == SubSeq(buf, start + 1, b)
    <2>1. b \in Nat /\ start <= b
      BY <1>1, <1>3
    <2> HIDE DEF b
    <2>2. b <= Len(buf)
      BY <1>3 DEF b
    <2>3. /\ ahead \in Seq(Byte) /\ Len(ahead) = b - start
          /\ \A i \in 1 .. b - start : ahead[i] = buf[start + i]
      BY <1>3, <2>1, <2>2, Stretch
    <2> QED BY <2>3 DEF Ahead, b
  <1>5. n \in 1 .. AtMost(Len(buf) - start, opt.max)
    <2>1. Ahead # <<>>
      BY <1>1, <1>3, <1>4
    <2> QED BY <1>3, <1>4, <2>1, FindCutRange
  <1>6. n \in Nat /\ n > 0 /\ n <= Len(buf) - start
    BY <1>3, <1>5 DEF AtMost
  <1>7. n = FindCut(Window(off), opt)
    <2> DEFINE last == AtMost(off + opt.max, Len(stream))
    <2>1. last \in Nat /\ off <= last /\ last <= Len(stream)
      BY <1>1, <1>3 DEF AtMost
    <2>2. /\ Window(off) \in Seq(Byte) /\ Len(Window(off)) = last - off
          /\ \A i \in 1 .. last - off : Window(off)[i] = stream[off + i]
      <3> DEFINE seen == SubSeq(stream, off + 1, last)
      <3>1. Window(off) = seen
        BY DEF Window
      <3> HIDE DEF last
      <3>2. /\ seen \in Seq(Byte) /\ Len(seen) = last - off
            /\ \A i \in 1 .. last - off : seen[i] = stream[off + i]
        <4>1. stream \in Seq(Byte) /\ off \in Nat
          BY <1>3
        <4> QED BY <4>1, <2>1, Stretch
      <3> QED BY <3>1, <3>2
    <2> DEFINE m == AtMost(Len(Ahead), opt.max)
    <2>3. eof => pos = Len(stream)
      BY <1>1 DEF FilledOK
    <2>4. eof \/ Len(buf) - start >= opt.max
      BY <1>1 DEF FilledOK
    <2>5. /\ m = AtMost(last - off, opt.max) /\ m \in Nat
          /\ m <= Len(buf) - start /\ m <= last - off
      <3>1. m = IF Len(buf) - start <= opt.max THEN Len(buf) - start ELSE opt.max
        BY <1>4 DEF AtMost
      <3>2. last = IF off + opt.max <= Len(stream) THEN off + opt.max ELSE Len(stream)
        BY DEF AtMost
      <3>3. \A a : AtMost(a, opt.max) = IF a <= opt.max THEN a ELSE opt.max
        BY DEF AtMost
      <3>4. start < Len(buf)
        BY <1>1
      <3> DEFINE rest == Len(buf) - start
      <3>5. /\ rest \in Nat /\ off + rest = pos /\ (rest < opt.max => pos = Len(stream))
            /\ m = IF rest <= opt.max THEN rest ELSE opt.max
        BY <1>3, <2>3, <2>4, <3>1, <3>4
      <3> DEFINE max == opt.max
                 all == Len(stream)
      <3>7. /\ off \in Nat /\ max \in Nat /\ all \in Nat /\ pos \in Nat /\ last \in Nat
            /\ pos <= all /\ last = IF off + max <= all THEN off + max ELSE all
            /\ rest \in Nat /\ off + rest = pos /\ (rest < max => pos = all)
            /\ m = IF rest <= max THEN rest ELSE max
        BY <1>3, <2>1, <3>2, <3>5
      <3> HIDE DEF m, last, rest, max, all
      <3>6. /\ m = IF last - off <= max THEN last - off ELSE max
            /\ m \in Nat /\ m <= rest /\ m <= last - off
        <4>1. CASE rest < max
          BY <3>7, <4>1
        <4>2. CASE rest >= max
          BY <3>7, <4>2
        <4> QED BY <3>7, <4>1, <4>2
      <3> QED BY <3>3, <3>6 DEF rest, max
    <2> HIDE DEF m, last
    <2>7. ASSUME NEW i \in 1 .. m PROVE Ahead[i] = Window(off)[i]
      <3>1. i \in 1 .. Len(buf) - start /\ i \in 1 .. last - off
        BY <1>3, <2>1, <2>5
      <3>2. buf[start + i] = stream[off + i]
        BY <1>1, <3>1 DEF BufferOK, Aligned
      <3> QED BY <1>4, <2>2, <3>1, <3>2
    <2>8. AtMost(Len(Ahead), opt.max) = m /\ AtMost(Len(Window(off)), opt.max) = m
      BY <2>2, <2>5 DEF m
    <2>9. FindCut(Ahead, opt) = FindCut(Window(off), opt)
      <3>1. \A i \in 1 .. AtMost(Len(Ahead), opt.max) : Ahead[i] = Window(off)[i]
        BY <2>7, <2>8
      <3>2. AtMost(Len(Ahead), opt.max) = AtMost(Len(Window(off)), opt.max)
        BY <2>8
      <3>3. Ahead \in Seq(Byte) /\ Window(off) \in Seq(Byte) /\ opt.max \in Nat
        BY <1>3, <1>4, <2>2
      <3> HIDE DEF n
      <3> QED BY ONLY <3>1, <3>2, <3>3, FindCutLooksAhead
    <2> QED BY <2>9
  <1> HIDE DEF n
  <1>12. this.off = off /\ this.len = n /\ this \in [off : Nat, len : Nat]
    BY <1>3, <1>6
  <1> HIDE DEF this
  <1>8. OptOK'
    BY <1>1, <1>2 DEF OptOK
  <1>9. BufferOK'
    <2>1. /\ stream' \in Seq(Byte) /\ buf' \in Seq(Byte) /\ off' \in Nat
          /\ pos' \in 0 .. Len(stream') /\ start' \in 0 .. Len(buf')
          /\ off' + Len(buf') - start' = pos'
      <3>1. start + n \in 0 .. Len(buf) /\ off + n \in Nat
            /\ (off + n) + Len(buf) - (start + n) = pos
        BY <1>3, <1>6
      <3>2. buf' = buf /\ stream' = stream /\ pos' = pos /\ start' = start + n /\ off' = off + n
        BY <1>2
      <3> QED BY <1>3, <3>1, <3>2
    <2>2. ASSUME NEW i \in 1 .. Len(buf') - start'
          PROVE  buf'[start' + i] = stream'[off' + i]
      <3> DEFINE j == n + i
      <3>1. /\ j \in 1 .. Len(buf) - start
            /\ start' + i = start + j /\ off' + i = off + j
        BY <1>2, <1>3, <1>6
      <3> HIDE DEF j
      <3> QED BY <1>1, <1>2, <3>1 DEF BufferOK, Aligned
    <2> QED BY <2>1, <2>2 DEF BufferOK, InRange, Aligned
  <1>10. FilledOK' /\ Running'
    BY <1>1, <1>2 DEF FilledOK, Running
  <1>11. CutsOK'
    <2>1. cuts \in Seq([off : Nat, len : Nat]) /\ Len(cuts) \in Nat
      BY <1>1 DEF CutsOK
    <2>2. /\ cuts' \in Seq([off : Nat, len : Nat]) /\ Len(cuts') = Len(cuts) + 1
          /\ \A k \in 1 .. Len(cuts) : cuts'[k] = cuts[k]
          /\ cuts'[Len(cuts) + 1] = this
      BY <1>2, <1>12, <2>1, AppendProperties
    <2> DEFINE W(o) == SubSeq(stream', o + 1, AtMost(o + opt'.max, Len(stream')))
    <2>3. \A o : W(o) = Window(o)
      BY <1>2 DEF Window
    <2>4. ASSUME NEW k \in 1 .. Len(cuts') PROVE CutOK(k)'
      <3>1. CASE k = Len(cuts')
        <4>1. cuts'[k].off = off /\ cuts'[k].len = n
          BY <1>12, <2>2, <3>1
        <4>2. cuts'[k].len = FindCut(W(cuts'[k].off), opt') /\ cuts'[k].len > 0
          BY <1>2, <1>6, <1>7, <2>3, <4>1
        <4>3. cuts'[k].off + cuts'[k].len = off'
          BY <1>2, <4>1
        <4> QED BY <3>1, <4>2, <4>3 DEF CutOK, Window
      <3>2. CASE k # Len(cuts')
        <4>1. k \in 1 .. Len(cuts) /\ cuts'[k] = cuts[k]
          <5> DEFINE before == Len(cuts)
                     after == Len(cuts')
          <5>1. before \in Nat /\ after = before + 1 /\ k \in 1 .. after /\ k # after
            BY <2>1, <2>2, <3>2
          <5> HIDE DEF before, after
          <5>2. k \in 1 .. before
            BY <5>1
          <5> QED BY <2>2, <5>2 DEF before
        <4>2. /\ cuts[k].len = FindCut(Window(cuts[k].off), opt) /\ cuts[k].len > 0
              /\ cuts[k].off + cuts[k].len = IF k = Len(cuts) THEN off ELSE cuts[k + 1].off
          BY <1>1, <4>1 DEF CutsOK, CutOK
        <4>3. /\ cuts'[k].len = FindCut(W(cuts'[k].off), opt')
              /\ cuts'[k].len > 0
          BY <1>2, <2>3, <4>1, <4>2
        <4>4. cuts'[k].off + cuts'[k].len = cuts'[k + 1].off
          <5>1. CASE k = Len(cuts)
            BY <1>12, <2>2, <4>1, <4>2, <5>1
          <5>2. CASE k # Len(cuts)
            <6>1. k + 1 \in 1 .. Len(cuts)
              BY <2>1, <4>1, <5>2
            <6> QED BY <2>2, <4>1, <4>2, <5>2, <6>1
          <5> QED BY <5>1, <5>2
        <4> QED BY <3>2, <4>3, <4>4 DEF CutOK, Window
      <3> QED BY <3>1, <3>2
    <2>5. cuts' # <<>> /\ cuts'[1].off = 0
      <3>1. CASE cuts = <<>>
        <4>1. off = 0 /\ Len(cuts) = 0
          BY <1>1, <3>1 DEF CutsOK
        <4> QED BY <1>12, <2>2, <4>1
      <3>2. CASE cuts # <<>>
        <4>1. 1 \in 1 .. Len(cuts) /\ cuts[1].off = 0
          BY <1>1, <2>1, <3>2 DEF CutsOK
        <4> QED BY <2>1, <2>2, <4>1
      <3> QED BY <3>1, <3>2
    <2> QED BY <2>2, <2>4, <2>5 DEF CutsOK
  <1> QED BY <1>8, <1>9, <1>10, <1>11 DEF ChunkerInv

LEMMA StepStutter == ASSUME ChunkerInv, UNCHANGED chunkerVars PROVE ChunkerInv'
  <1>1. UNCHANGED <<opt, stream, pos, buf, start, eof, off, cuts, at>>
    BY DEF chunkerVars, cutter
  <1>2. CutsOK => CutsOK'
    BY <1>1, CutsStay
  <1> QED BY <1>1, <1>2 DEF ChunkerInv, Running, OptOK, BufferOK, InRange, Aligned, FilledOK

LEMMA InvStep == ChunkerInv /\ [ChunkerNext]_chunkerVars => ChunkerInv'
  <1> SUFFICES ASSUME ChunkerInv, [ChunkerNext]_chunkerVars PROVE ChunkerInv'
    OBVIOUS
  <1>1. CASE BeginFill
    BY <1>1, StepBeginFill
  <1>2. CASE Cut
    BY <1>2, StepCut
  <1>3. CASE NoMore
    BY <1>3, StepNoMore
  <1>4. ASSUME NEW n \in 0 .. Len(stream), Read(n) \/ ReadEnds(n) \/ ReadFails(n)
        PROVE  ChunkerInv'
    <2>1. n \in Nat
      OBVIOUS
    <2> QED BY <1>4, <2>1, StepReads
  <1>5. CASE UNCHANGED chunkerVars
    BY <1>5, StepStutter
  <1> QED BY <1>1, <1>2, <1>3, <1>4, <1>5 DEF ChunkerNext

-----------------------------------------------------------------------------
(* The options.                                                            *)

LEMMA LeastMember ==
    ASSUME NEW T \in SUBSET Nat, T # {}
    PROVE  \E n \in T : \A k \in T : n <= k
  <1> DEFINE R == OpToRel(<, Nat)
  <1>1. IsWellFoundedOn(R, Nat)
    BY NatLessThanWellFounded
  <1> HIDE DEF R
  <1>2. PICK n \in T : \A k \in T : ~ (<<k, n>> \in R)
    BY <1>1, WFMin
  <1>3. \A k \in T : k < n => <<k, n>> \in R
    BY DEF R, OpToRel
  <1>4. ASSUME NEW k \in T PROVE n <= k
    <2>1. k \in Nat /\ n \in Nat
      OBVIOUS
    <2>2. ~ (k < n)
      BY <1>2, <1>3
    <2> QED BY <2>1, <2>2
  <1> QED BY <1>4

\* Induction, over a set of numbers.
LEMMA SetInduction ==
    ASSUME NEW S \in SUBSET Nat, 0 \in S, \A n \in S : n + 1 \in S
    PROVE  S = Nat
  <1>1. CASE Nat \ S # {}
    <2>1. PICK n \in Nat \ S : \A k \in Nat \ S : n <= k
      BY <1>1, LeastMember
    <2>2. n # 0
      BY <2>1
    <2>3. n - 1 \in S
      BY <2>1, <2>2
    <2> QED BY <2>1, <2>3
  <1> QED BY <1>1

\* A larger exponent, a larger power; and more than the exponent.
LEMMA PowersGrow ==
    \A n \in 0 .. Width :
        /\ 2 ^ n \in Nat /\ n < 2 ^ n
        /\ \A a \in 0 .. Width : a < n => 2 ^ a < 2 ^ n
  <1> DEFINE Q(n) == /\ n < 2 ^ n
                     /\ \A a \in 0 .. Width : a < n => 2 ^ a < 2 ^ n
             S == {n \in Nat : n <= Width => Q(n)}
  <1>1. Width \in Nat
    BY ChunkerAssumption
  <1>2. \A n \in 0 .. Width : 2 ^ n \in Nat /\ 2 ^ (n + 1) = 2 * 2 ^ n
    BY PowersOfTwo
  <1>3. 0 \in S
    <2>1. 2 ^ 0 = 1
      OBVIOUS
    <2> QED BY <1>1, <2>1
  <1>4. ASSUME NEW n \in S PROVE n + 1 \in S
    <2> SUFFICES ASSUME n + 1 <= Width PROVE Q(n + 1)
      OBVIOUS
    <2>1. n \in 0 .. Width /\ n + 1 \in 0 .. Width
      BY <1>1
    <2>2. 2 ^ n \in Nat /\ 2 ^ (n + 1) = 2 * 2 ^ n
      BY <1>2, <2>1
    <2>3. Q(n)
      BY <1>1, <2>1
    <2>4. ASSUME NEW a \in 0 .. Width, a < n + 1 PROVE 2 ^ a < 2 ^ (n + 1)
      <3>1. 2 ^ a <= 2 ^ n
        <4>1. CASE a = n
          BY <4>1, <2>2
        <4>2. CASE a # n
          <5>1. a < n
            BY <2>4, <4>2
          <5>2. 2 ^ a < 2 ^ n /\ 2 ^ a \in Nat
            BY <1>2, <2>3, <5>1
          <5> QED BY <5>2, <2>2
        <4> QED BY <4>1, <4>2
      <3>2. n < 2 ^ n /\ 2 ^ a \in Nat
        BY <2>3, <1>2
      <3> QED BY <2>1, <2>2, <3>1, <3>2
    <2>5. n + 1 < 2 ^ (n + 1)
      <3>1. n < 2 ^ n
        BY <2>3
      <3> QED BY <2>1, <2>2, <3>1
    <2> QED BY <2>4, <2>5
  <1> HIDE DEF Q
  <1>5. S \in SUBSET Nat
    OBVIOUS
  <1> HIDE DEF S
  <1>6. S = Nat
    BY <1>3, <1>4, <1>5, SetInduction
  <1>7. \A n \in 0 .. Width : Q(n)
    BY <1>1, <1>6 DEF S
  <1> QED BY <1>2, <1>7 DEF Q

\* log2 is the number of the highest bit.
LEMMA Log2Bounds ==
    ASSUME NEW v \in Nat, v # 0, v < 2 ^ Width
    PROVE  /\ Log2(v) \in 0 .. Width - 1
           /\ 2 ^ Log2(v) <= v /\ v < 2 ^ (Log2(v) + 1)
  <1> DEFINE T == {n \in Nat : n <= Width - 1 /\ v < 2 ^ (n + 1)}
  <1>1. Width \in Nat \ {0}
    BY ChunkerAssumption
  <1>2. Width - 1 \in T
    <2>1. (Width - 1) + 1 = Width /\ Width - 1 \in Nat
      BY <1>1
    <2> QED BY <2>1
  <1>3. T \in SUBSET Nat /\ T # {}
    BY <1>2
  <1>4. PICK n \in T : \A k \in T : n <= k
    BY <1>3, LeastMember
  <1>5. n \in 0 .. Width - 1 /\ v < 2 ^ (n + 1)
    BY <1>1, <1>4
  <1>6. 2 ^ n <= v
    <2>1. CASE n = 0
      <3>1. 2 ^ 0 = 1
        OBVIOUS
      <3> QED BY <2>1, <3>1
    <2>2. CASE n # 0
      <3>1. n - 1 \in Nat /\ n - 1 <= Width - 1 /\ (n - 1) + 1 = n /\ ~ (n <= n - 1)
        BY <1>1, <1>5, <2>2
      <3>2. n - 1 \notin T
        BY <1>4, <3>1
      <3>3. ~ (v < 2 ^ n)
        BY <3>1, <3>2
      <3>4. 2 ^ n \in Nat
        BY <1>1, <1>5, PowersGrow
      <3> QED BY <3>3, <3>4
    <2> QED BY <2>1, <2>2
  <1>7. Log2(v) = CHOOSE i \in 0 .. Width - 1 : 2 ^ i <= v /\ v < 2 ^ (i + 1)
    BY DEF Log2
  <1> HIDE DEF T
  <1> QED BY <1>5, <1>6, <1>7

\* Options that Validate accepts are those that were meant: nothing that
\* is computed of them has wrapped around.
NoneWrapped(r, o) ==
    /\ r.max = 0 => o.max = 4 * o.avg
    /\ r.min = 0 => o.min > 0 /\ o.min <= o.avg \div 4
    /\ LenientMask(o) < StrictMask(o)

LEMMA ValidOptionsAreMeant ==
    ASSUME NEW r \in Options, Valid(Normalized(r))
    PROVE  NoneWrapped(r, Normalized(r))
  <1> DEFINE o == Normalized(r)
             avg == o.avg
             level == Log2(avg)
  <1>1. /\ o.min \in Nat \ {0} /\ avg \in Nat /\ o.max \in Nat
        /\ 4 <= o.min /\ o.min <= avg /\ avg <= o.max /\ 4 * o.max <= Word
    <2>1. o.min \in Nat \ {0} /\ avg \in Nat /\ o.max \in Nat
      BY ValidOptions
    <2>2. MinChunkSize <= o.min /\ o.max <= MaxChunkSize /\ o.min <= avg /\ avg <= o.max
      BY DEF Valid
    <2>3. /\ MinChunkSize \in Nat /\ 4 <= MinChunkSize /\ MaxChunkSize \in Nat
          /\ 4 * MaxChunkSize <= Word /\ Word \in Nat
      BY ChunkerAssumption
    <2> HIDE DEF o, avg
    <2> QED BY <2>1, <2>2, <2>3
  <1>2. /\ r.max = 0 => o.max = (avg * 4) % Word
        /\ r.min = 0 => o.min = avg \div 4
    BY DEF Normalized
  <1>3. Word = 2 ^ Width /\ Word \in Nat \ {0} /\ Width \in Nat \ {0}
    BY ChunkerAssumption DEF Word
  <1>4. LenientMask(o) = Mask((level - 2) % Word) /\ StrictMask(o) = Mask(level + 2)
    BY DEF LenientMask, StrictMask, normalizationLevel
  <1> HIDE DEF o
  <1>5. r.max = 0 => o.max = 4 * avg
    <2> SUFFICES ASSUME r.max = 0 PROVE o.max = 4 * avg
      OBVIOUS
    <2> DEFINE x == avg * 4
    <2>1. x \in Nat /\ x <= Word /\ 0 < x /\ x = 4 * avg
      BY <1>1, <1>3
    <2>2. o.max = x % Word /\ o.max # 0
      BY <1>1, <1>2
    <2> HIDE DEF x
    <2>3. x % Word = IF x = Word THEN 0 ELSE x
      BY <1>3, <2>1
    <2> QED BY <2>1, <2>2, <2>3
  <1> HIDE DEF avg, level
  <1>6. 2 ^ level <= avg /\ avg < 2 ^ (level + 1) /\ level \in 0 .. Width - 1
    <2>1. avg < 2 ^ Width /\ avg # 0
      BY <1>1, <1>3
    <2> QED BY <1>1, <2>1, Log2Bounds DEF level
  <1>7. level + 2 <= Width
    <2>1. 2 ^ level \in Nat /\ 2 ^ (level + 1) = 2 * 2 ^ level
      BY <1>3, <1>6, PowersOfTwo
    <2>2. CASE level + 1 = Width
      <3>1. 2 ^ (level + 1) = Word
        BY <2>2, <1>3
      <3> QED BY <1>1, <1>3, <1>6, <2>1, <3>1
    <2> QED BY <1>3, <1>6, <2>2
  <1>8. 2 <= level
    <2> SUFFICES ASSUME level < 2 PROVE FALSE
      BY <1>6
    <2>1. 2 ^ 2 = 4
      OBVIOUS
    <2>2. level + 1 = 2 \/ level + 1 < 2
      BY <1>6
    <2>3. 2 \in 0 .. Width /\ level + 1 \in 0 .. Width
      BY <1>3, <1>6, <1>7
    <2>4. 2 ^ (level + 1) \in Nat /\ (level + 1 < 2 => 2 ^ (level + 1) < 2 ^ 2)
      BY <2>3, PowersGrow
    <2>5. 2 ^ (level + 1) <= 4
      <3>1. CASE level + 1 = 2
        <4>1. 2 ^ (level + 1) = 2 ^ 2
          BY ONLY <3>1, Zenon
        <4>2. 2 ^ (level + 1) = 4
          BY ONLY <4>1, <2>1, Zenon
        <4> QED BY <4>2
      <3>2. CASE level + 1 < 2
        <4>1. 2 ^ (level + 1) < 2 ^ 2
          BY <2>4, <3>2
        <4>2. 2 ^ (level + 1) < 4
          BY ONLY <4>1, <2>1, Zenon
        <4> QED BY <4>2, <2>4
      <3> QED BY <2>2, <3>1, <3>2
    <2> QED BY <1>1, <1>6, <2>4, <2>5
  <1>9. (level - 2) % Word = level - 2
    <2>1. Width < Word
      BY <1>3, PowersGrow
    <2>2. level - 2 \in Nat /\ level - 2 < Word
      BY <1>3, <1>6, <1>8, <2>1
    <2> QED BY <1>3, <2>2
  <1>10. PICK a \in 0 .. Width, b \in 0 .. Width :
            /\ a < b /\ LenientMask(o) = 2 ^ a /\ StrictMask(o) = 2 ^ b
    <2> DEFINE a == IF level - 2 < 1 THEN 1 ELSE IF level - 2 > Width - 1 THEN Width - 1 ELSE level - 2
               b == IF level + 2 < 1 THEN 1 ELSE IF level + 2 > Width - 1 THEN Width - 1 ELSE level + 2
    <2>1. LenientMask(o) = 2 ^ a /\ StrictMask(o) = 2 ^ b
      BY <1>4, <1>9 DEF Mask
    <2>2. a \in 0 .. Width /\ b \in 0 .. Width /\ a < b
      BY <1>3, <1>6, <1>7, <1>8
    <2> HIDE DEF a, b
    <2> QED BY <2>1, <2>2
  <1>11. LenientMask(o) < StrictMask(o)
    BY <1>10, PowersGrow
  <1>12. r.min = 0 => o.min > 0 /\ o.min <= avg \div 4
    BY <1>1, <1>2
  <1> QED BY <1>5, <1>11, <1>12 DEF o, avg, NoneWrapped

-----------------------------------------------------------------------------
(* The theorems.                                                           *)

LEMMA InvIsCanonical == ChunkerInv => CutsAreCanonical
  <1> SUFFICES ASSUME ChunkerInv PROVE CutsAreCanonical
    OBVIOUS
  <1>1. CASE Running
    <2>1. CutsOK /\ DOMAIN cuts = 1 .. Len(cuts)
      BY <1>1 DEF ChunkerInv, CutsOK
    <2>2. at = "eof" => off = Len(stream)
      BY <1>1 DEF ChunkerInv, BufferOK, InRange, FilledOK
    <2> QED BY <2>1, <2>2 DEF CutsOK, CutOK, CutsAreCanonical
  <1>2. CASE ~ Running
    BY <1>2 DEF ChunkerInv, Running, CutsAreCanonical
  <1> QED BY <1>1, <1>2

\* However a stream is read, its chunks are those findCut finds in it.
THEOREM CutsAreCanonicalTheorem == ChunkerSpec => []CutsAreCanonical
  BY InvIsCanonical, InvInit, InvStep, PTL DEF ChunkerSpec
=============================================================================
