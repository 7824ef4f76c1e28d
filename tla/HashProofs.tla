----------------------------- MODULE HashProofs -----------------------------
(***************************************************************************)
(* Proofs about chunk.Hash, for every stream, number of workers and depth  *)
(* of the channels.  The file hasher is accounted for by order: what it    *)
(* has hashed, what it holds and what is queued are the chunks 1, 2, ...   *)
(* without a gap.  The workers are accounted for by presence: a chunk is   *)
(* at one place at most until it is summed, and until the run is cancelled *)
(* it is somewhere.  The buffers follow: each block is counted once for    *)
(* every side that has still to read it.                                   *)
(***************************************************************************)
EXTENDS HashPipeline, TLAPS

Number == 0 .. Length
Scanners == {"next", "file", "work", "closed", "returned"}
Over == {"closed", "returned"}

\* Every variable has its type.
TypeOK ==
    /\ scanner \in Scanners /\ read \in Number
    /\ buf \in [Block -> Number] /\ refs \in [Block -> Int]
    /\ content \in [Buffer -> Number] /\ pool \in SUBSET Buffer
    /\ work \in Seq(Block) /\ fileCh \in Seq(Block)
    /\ results \in Seq(Number \X Number)
    /\ job \in [Worker -> Number] /\ sum \in [Worker -> Number \X Number]
    /\ exited \in SUBSET Worker
    /\ hashing \in Number /\ hashed \in Seq(Number)
    /\ chunks \in SUBSET (Number \X Number)
    /\ firstErr \in {"none", "read", "sink", "cancelled"}
    /\ cancelled \in BOOLEAN /\ parent \in BOOLEAN

\* ctx is done if the caller cancelled or something failed (fail, hash.go:106).
ErrorOK ==
    /\ cancelled <=> (parent \/ firstErr # "none")
    /\ ErrorIsCause

Held == IF hashing = None THEN 0 ELSE 1
Filed == Len(hashed) + Held + Len(fileCh)

\* The file hasher's chunks are in order, and none is left out.
FileOK ==
    /\ \A i \in DOMAIN hashed : hashed[i] = i
    /\ hashing # None => hashing = Len(hashed) + 1
    /\ \A i \in DOMAIN fileCh : fileCh[i] = Len(hashed) + Held + i
    /\ Filed <= read
    /\ scanner = "file" => Filed = read - 1 /\ WithFileDigest
    /\ WithFileDigest /\ scanner # "file" /\ (scanner \in Over => ~ cancelled)
          => Filed = read

\* A chunk is queued once, and a worker has a chunk of its own.
WorkOK ==
    /\ \A i, j \in DOMAIN work : work[i] = work[j] => i = j
    /\ \A w \in Worker : job[w] \notin Elements(work)
    /\ \A w, v \in Worker : job[w] = job[v] /\ job[w] # None => w = v
    /\ \A b \in ToSum : b <= read /\ (scanner \in {"file", "work"} => b < read)

\* Blocks the file hasher, and the workers, have still to read, with the one
\* the scanner has read and not sent on yet.
FileSide == ToHash \union (IF scanner = "file" THEN {read} ELSE {})
SumSide == ToSum \union (IF scanner \in {"file", "work"} THEN {read} ELSE {})

\* A block is counted at least once for each side that has still to read it,
\* and holds its buffer as long.
BufferOK ==
    /\ \A b \in FileSide \union SumSide :
         /\ b \in 1 .. read /\ buf[b] \in Buffer
         /\ buf[b] \notin pool /\ content[buf[b]] = b
         /\ refs[b] >= 1
    /\ \A b \in FileSide \cap SumSide : refs[b] >= 2

\* Every digest is of the chunk whose number it carries.
Exact == {<<b, b>> : b \in 1 .. read}
Gathered == Elements(results) \union chunks \union {sum[w] : w \in Worker}
ExactOK == Gathered \ {NoSum} \subseteq Exact

\* Only digests are sent.
SentOK == NoSum \notin Elements(results) \union chunks

\* Until the run is cancelled no chunk is lost between the goroutines.
CoverOK ==
    ~ cancelled => \A b \in 1 .. read : b \in SumSide \/ <<b, b>> \in Gathered

\* Who has left holds nothing, and leaves early only if cancelled.
EndOK ==
    /\ \A w \in exited : job[w] = None /\ sum[w] = NoSum
    /\ \A w \in Worker : job[w] # None => sum[w] = NoSum
    /\ ~ cancelled /\ exited # {} => scanner \in Over /\ work = <<>>
    /\ ~ cancelled /\ scanner \in Over => read = Length
    /\ scanner = "returned" =>
         exited = Worker /\ results = <<>> /\ fileCh = <<>> /\ hashing = None

HInv ==
    /\ TypeOK /\ ErrorOK /\ FileOK /\ WorkOK /\ BufferOK
    /\ ExactOK /\ SentOK /\ CoverOK /\ EndOK

-----------------------------------------------------------------------------
(* Queues.                                                                 *)

LEMMA AppendFacts ==
    ASSUME NEW S, NEW s \in Seq(S), NEW e \in S
    PROVE  /\ Append(s, e) \in Seq(S) /\ Len(Append(s, e)) = Len(s) + 1
           /\ DOMAIN Append(s, e) = 1 .. Len(s) + 1 /\ DOMAIN s = 1 .. Len(s)
           /\ \A i \in DOMAIN s : Append(s, e)[i] = s[i]
           /\ Append(s, e)[Len(s) + 1] = e
           /\ Elements(Append(s, e)) = Elements(s) \union {e}
<1>1. /\ Append(s, e) \in Seq(S) /\ Len(Append(s, e)) = Len(s) + 1
      /\ DOMAIN Append(s, e) = 1 .. Len(s) + 1
      /\ DOMAIN s = 1 .. Len(s) /\ Len(s) \in Nat
      /\ \A i \in 1 .. Len(s) : Append(s, e)[i] = s[i]
      /\ Append(s, e)[Len(s) + 1] = e
      OBVIOUS
<1>2. 1 .. Len(s) + 1 = (1 .. Len(s)) \union {Len(s) + 1}  BY <1>1
<1> QED  BY <1>1, <1>2 DEF Elements

LEMMA TailFacts ==
    ASSUME NEW S, NEW s \in Seq(S), s # <<>>
    PROVE  /\ Head(s) \in S /\ Head(s) = s[1] /\ 1 \in DOMAIN s
           /\ Tail(s) \in Seq(S) /\ Len(Tail(s)) = Len(s) - 1 /\ Len(s) \in Nat
           /\ \A i \in DOMAIN Tail(s) : i \in Nat /\ i + 1 \in DOMAIN s /\ Tail(s)[i] = s[i + 1]
           /\ Elements(s) = Elements(Tail(s)) \union {Head(s)}
<1>1. /\ Head(s) = s[1] /\ Tail(s) \in Seq(S) /\ Len(Tail(s)) = Len(s) - 1
      /\ DOMAIN Tail(s) = 1 .. Len(s) - 1
      /\ DOMAIN s = 1 .. Len(s) /\ Len(s) \in Nat \ {0}
      /\ \A i \in 1 .. Len(s) - 1 : Tail(s)[i] = s[i + 1]
      OBVIOUS
<1>2. Head(s) \in S /\ 1 \in DOMAIN s  BY <1>1
<1>3. \A i \in 1 .. Len(s) - 1 : i \in Nat /\ i + 1 \in 1 .. Len(s)  BY <1>1
<1>4. Elements(s) = Elements(Tail(s)) \union {Head(s)}
  <2>1. ASSUME NEW j \in 1 .. Len(s) PROVE s[j] \in Elements(Tail(s)) \union {Head(s)}
    <3>1. CASE j = 1  BY <1>1, <3>1
    <3>2. CASE j # 1
      <4>1. j - 1 \in 1 .. Len(s) - 1 /\ (j - 1) + 1 = j  BY <1>1, <3>2
      <4>2. s[j] = Tail(s)[j - 1] /\ j - 1 \in DOMAIN Tail(s)  BY <1>1, <4>1
      <4> QED  BY <4>2 DEF Elements
    <3> QED  BY <3>1, <3>2
  <2>2. Elements(Tail(s)) \subseteq Elements(s)  BY <1>1, <1>3 DEF Elements
  <2> QED  BY <1>1, <1>2, <2>1, <2>2 DEF Elements
<1> QED  BY <1>1, <1>2, <1>3, <1>4

LEMMA TailOnce ==
    ASSUME NEW S, NEW s \in Seq(S), s # <<>>,
           \A i, j \in DOMAIN s : s[i] = s[j] => i = j
    PROVE  /\ Head(s) \notin Elements(Tail(s))
           /\ \A i, j \in DOMAIN Tail(s) : Tail(s)[i] = Tail(s)[j] => i = j
<1>1. ASSUME NEW i \in DOMAIN Tail(s)
      PROVE  /\ i \in Nat /\ i # 0 /\ i + 1 \in DOMAIN s /\ Tail(s)[i] = s[i + 1]
  <2>1. DOMAIN Tail(s) = 1 .. Len(Tail(s)) /\ Len(Tail(s)) \in Nat  BY TailFacts
  <2> QED  BY <1>1, <2>1, TailFacts
<1>2. Head(s) = s[1] /\ 1 \in DOMAIN s  BY TailFacts
<1> QED  BY <1>1, <1>2 DEF Elements

LEMMA EmptyFacts ==
    ASSUME NEW S
    PROVE  <<>> \in Seq(S) /\ Len(<<>>) = 0 /\ DOMAIN <<>> = {} /\ Elements(<<>>) = {}
BY DEF Elements

-----------------------------------------------------------------------------
(* Types and errors.                                                       *)

LEMMA BlockIsNumber ==
    Length \in Nat /\ Block \subseteq Number /\ Buffer = Block /\ None \in Number /\ NoSum \in Number \X Number
BY HashAssumption DEF Block, Buffer, Number, None, NoSum

LEMMA ReleaseType ==
    ASSUME TypeOK, NEW b \in Block, buf[b] \in Buffer, Release(b)
    PROVE  /\ refs' \in [Block -> Int] /\ pool' \in SUBSET Buffer
           /\ UNCHANGED <<buf, content>>
BY DEF TypeOK, Release

LEMMA TypeStep ==
    ASSUME HInv, [Next]_vars
    PROVE  TypeOK'
<1> USE BlockIsNumber
<1>t. TypeOK  BY DEF HInv
<1>b. BufferOK  BY DEF HInv
<1>r. read \in Nat /\ 1 .. read \subseteq Block  BY <1>t DEF TypeOK, Number, Block
<1>h. \A b \in FileSide \union SumSide : b \in Block /\ buf[b] \in Buffer /\ content[buf[b]] = b
      BY <1>b, <1>r DEF BufferOK
<1>1. CASE ReadChunk
  <2>1. read + 1 \in Block  BY <1>1, <1>t DEF ReadChunk, TypeOK, Block, Number
  <2>2. PICK b \in Get :
          /\ buf' = [buf EXCEPT ![read + 1] = b]
          /\ content' = [content EXCEPT ![b] = read + 1]
          /\ pool' = pool \ {b}
        BY <1>1 DEF ReadChunk
  <2>3. b \in Buffer  BY <1>t DEF Get, Lowest, TypeOK
  <2>4. /\ buf' \in [Block -> Number] /\ content' \in [Buffer -> Number]
        /\ pool' \in SUBSET Buffer /\ read' \in Number /\ refs' \in [Block -> Int]
        BY <1>1, <1>t, <2>1, <2>2, <2>3 DEF ReadChunk, TypeOK, Readers
  <2>5. scanner' \in Scanners  BY <1>1 DEF ReadChunk, Scanners
  <2> QED  BY <1>1, <1>t, <2>4, <2>5 DEF ReadChunk, TypeOK, channels, workers, outputs, errors
<1>2. CASE EndOfStream \/ ReadFails \/ CancelNoticed
  <2>1. UNCHANGED <<read, buf, refs, content, pool, work, fileCh, results, job, sum, exited,
                    hashing, hashed, chunks, parent>> /\ scanner' = "closed"
        BY <1>2 DEF EndOfStream, ReadFails, CancelNoticed, Stop, Fail, buffers, channels,
                    workers, outputs, errors
  <2>2. /\ firstErr' \in {"none", "read", "sink", "cancelled"}
        /\ cancelled' \in BOOLEAN
        BY <1>2, <1>t DEF EndOfStream, ReadFails, CancelNoticed, Fail, errors, TypeOK
  <2> QED  BY <1>t, <2>1, <2>2 DEF TypeOK, Scanners
<1>3. CASE SendToFile
  <2>1. read \in Block  BY <1>3, <1>h DEF SendToFile, FileSide
  <2>2. fileCh' \in Seq(Block)  BY <1>3, <1>t, <2>1, AppendFacts DEF SendToFile, TypeOK
  <2> QED  BY <1>3, <1>t, <2>2 DEF SendToFile, TypeOK, Scanners, buffers, workers, outputs, errors
<1>4. CASE SendToWork
  <2>1. read \in Block  BY <1>4, <1>h DEF SendToWork, SumSide
  <2>2. work' \in Seq(Block)  BY <1>4, <1>t, <2>1, AppendFacts DEF SendToWork, TypeOK
  <2> QED  BY <1>4, <1>t, <2>2 DEF SendToWork, TypeOK, Scanners, buffers, workers, outputs, errors
<1>5. CASE Return
      BY <1>5, <1>t DEF Return, TypeOK, Scanners, buffers, channels, workers, outputs, errors
<1>6. CASE TakeToHash
  <2>1. hashing' \in Number /\ fileCh' \in Seq(Block)
        BY <1>6, <1>t, TailFacts DEF TakeToHash, TypeOK
  <2> QED  BY <1>6, <1>t, <2>1 DEF TakeToHash, TypeOK, buffers, workers, errors
<1>7. CASE HashBlock
  <2>1. hashing \in FileSide  BY <1>7 DEF HashBlock, FileSide, ToHash
  <2>2. hashed' \in Seq(Number)
        BY <1>7, <1>h, <1>t, <2>1, AppendFacts DEF HashBlock, TypeOK
  <2> QED  BY <1>7, <1>h, <1>t, <2>1, <2>2, ReleaseType
           DEF HashBlock, TypeOK, channels, workers, errors
<1>8. ASSUME NEW w \in Worker, TakeWork(w) PROVE TypeOK'
  <2>1. job' \in [Worker -> Number] /\ work' \in Seq(Block)
        BY <1>8, <1>t, TailFacts DEF TakeWork, TypeOK
  <2> QED  BY <1>8, <1>t, <2>1 DEF TakeWork, TypeOK, buffers, outputs, errors
<1>j. ASSUME NEW w \in Worker, job[w] # None PROVE job[w] \in SumSide
      BY <1>j DEF SumSide, ToSum
<1>9. ASSUME NEW w \in Worker, Sum(w) PROVE TypeOK'
  <2>1. job[w] \in SumSide  BY <1>9, <1>j DEF Sum
  <2>2. /\ sum' \in [Worker -> Number \X Number] /\ job' \in [Worker -> Number]
        BY <1>9, <1>h, <1>t, <2>1 DEF Sum, TypeOK
  <2> QED  BY <1>9, <1>h, <1>t, <2>1, <2>2, ReleaseType DEF Sum, TypeOK, channels, outputs, errors
<1>10. ASSUME NEW w \in Worker, SinkFails(w) PROVE TypeOK'
  <2>1. job[w] \in SumSide  BY <1>10, <1>j DEF SinkFails
  <2>2. job' \in [Worker -> Number]  BY <1>10, <1>t DEF SinkFails, TypeOK
  <2>3. /\ firstErr' \in {"none", "read", "sink", "cancelled"}
        /\ cancelled' \in BOOLEAN /\ parent' = parent
        BY <1>10, <1>t DEF SinkFails, Fail, TypeOK
  <2> QED  BY <1>10, <1>h, <1>t, <2>1, <2>2, <2>3, ReleaseType
           DEF SinkFails, TypeOK, channels, outputs
<1>11. ASSUME NEW w \in Worker, SendResult(w) PROVE TypeOK'
  <2>1. results' \in Seq(Number \X Number) /\ sum' \in [Worker -> Number \X Number]
        BY <1>11, <1>t, AppendFacts DEF SendResult, TypeOK
  <2> QED  BY <1>11, <1>t, <2>1 DEF SendResult, TypeOK, buffers, outputs, errors
<1>12. ASSUME NEW w \in Worker, Leave(w) PROVE TypeOK'
  <2>1. exited' \in SUBSET Worker /\ sum' \in [Worker -> Number \X Number]
        BY <1>12, <1>t DEF Leave, TypeOK
  <2> QED  BY <1>12, <1>t, <2>1 DEF Leave, TypeOK, buffers, channels, outputs, errors
<1>13. CASE Collect
  <2>1. Head(results) \in Number \X Number /\ results' \in Seq(Number \X Number)
        BY <1>13, <1>t, TailFacts DEF Collect, TypeOK
  <2> QED  BY <1>13, <1>t, <2>1 DEF Collect, TypeOK, buffers, workers, errors
<1>14. CASE CallerCancels
      BY <1>14, <1>t DEF CallerCancels, TypeOK, buffers, channels, workers, outputs
<1>15. CASE UNCHANGED vars
      BY <1>15, <1>t DEF vars, TypeOK, buffers, channels, workers, outputs, errors
<1> QED  BY <1>1, <1>2, <1>3, <1>4, <1>5, <1>6, <1>7, <1>8, <1>9, <1>10, <1>11, <1>12,
            <1>13, <1>14, <1>15 DEF Next, Scan, HashFile, Work

LEMMA ErrorStep ==
    ASSUME HInv, [Next]_vars
    PROVE  ErrorOK'
<1>t. ErrorOK /\ TypeOK  BY DEF HInv
<1>u. ASSUME UNCHANGED errors PROVE ErrorOK'
      BY <1>u, <1>t DEF errors, ErrorOK, ErrorIsCause
<1>f. ASSUME NEW e \in {"read", "sink", "cancelled"}, Fail(e), e = "cancelled" => cancelled
      PROVE  ErrorOK'
      BY <1>f, <1>t DEF Fail, ErrorOK, ErrorIsCause, TypeOK
<1>1. CASE ReadChunk \/ EndOfStream \/ SendToFile \/ SendToWork \/ Return
      BY <1>1, <1>u DEF ReadChunk, EndOfStream, SendToFile, SendToWork, Return
<1>2. CASE ReadFails \/ CancelNoticed  BY <1>2, <1>u, <1>f DEF ReadFails, CancelNoticed
<1>3. CASE HashFile \/ Collect
      BY <1>3, <1>u DEF HashFile, TakeToHash, HashBlock, Collect
<1>4. ASSUME NEW w \in Worker, Work(w) PROVE ErrorOK'
      BY <1>4, <1>u, <1>f DEF Work, TakeWork, Sum, SinkFails, SendResult, Leave
<1>5. CASE CallerCancels  BY <1>5, <1>t DEF CallerCancels, ErrorOK, ErrorIsCause
<1>6. CASE UNCHANGED vars  BY <1>6, <1>u DEF vars
<1> QED  BY <1>1, <1>2, <1>3, <1>4, <1>5, <1>6 DEF Next, Scan

-----------------------------------------------------------------------------
(* The file hasher's order, and the workers' chunks.                       *)

LEMMA FileStep ==
    ASSUME HInv, [Next]_vars
    PROVE  FileOK'
<1> USE BlockIsNumber
<1>t. TypeOK /\ FileOK  BY DEF HInv
<1>n. /\ Len(hashed) \in Nat /\ Len(fileCh) \in Nat /\ Held \in {0, 1}
      /\ read \in Nat /\ hashing \in Nat /\ Filed \in Nat
      BY <1>t DEF TypeOK, Number, Held, Filed
<1>q. ASSUME UNCHANGED <<hashed, hashing, fileCh>> PROVE Held' = Held /\ Filed' = Filed
      BY <1>q DEF Held, Filed
<1>s. ASSUME UNCHANGED <<hashed, hashing, fileCh, read>>,
             \/ scanner' \in Over /\ cancelled'
             \/ scanner' = scanner /\ (cancelled => cancelled')
             \/ scanner \in {"next", "work"} /\ scanner' # "file"
             \/ scanner = "closed" /\ scanner' = "returned" /\ cancelled' = cancelled
      PROVE  FileOK'
      BY <1>t, <1>q, <1>s DEF FileOK, Over
<1>1. CASE ReadChunk
  <2>1. /\ scanner = "next" /\ read' = read + 1
        /\ scanner' = IF WithFileDigest THEN "file" ELSE "work"
        /\ UNCHANGED <<hashed, hashing, fileCh>>
        BY <1>1 DEF ReadChunk, channels, outputs
  <2>2. Held' = Held /\ Filed' = Filed  BY <2>1, <1>q
  <2>3. /\ (\A i \in DOMAIN hashed : hashed[i] = i)'
        /\ (hashing # None => hashing = Len(hashed) + 1)'
        /\ (\A i \in DOMAIN fileCh : fileCh[i] = Len(hashed) + Held + i)'
        BY <1>t, <2>1, <2>2 DEF FileOK
  <2>4. WithFileDigest => Filed = read  BY <1>t, <2>1 DEF FileOK, Over
  <2>5. Filed' <= read'  BY <1>t, <1>n, <2>1, <2>2 DEF FileOK
  <2>6. scanner' = "file" => Filed' = read' - 1 /\ WithFileDigest
        BY <1>n, <2>1, <2>2, <2>4
  <2>7. ~ (WithFileDigest /\ scanner' # "file")  BY <2>1
  <2> QED  BY <2>3, <2>5, <2>6, <2>7 DEF FileOK
<1>2. CASE EndOfStream \/ CancelNoticed \/ Return
  <2>1. UNCHANGED <<hashed, hashing, fileCh, read>>
        BY <1>2 DEF EndOfStream, CancelNoticed, Return, Stop, channels, outputs
  <2>2. CASE EndOfStream
        BY <2>1, <2>2, <1>s DEF EndOfStream, Stop
  <2>3. CASE CancelNoticed
        BY <2>1, <2>3, <1>s DEF CancelNoticed, Stop, Fail, Over, errors
  <2>4. CASE Return  BY <2>1, <2>4, <1>s DEF Return, errors
  <2> QED  BY <1>2, <2>2, <2>3, <2>4
<1>3. CASE ReadFails
  <2>1. UNCHANGED <<hashed, hashing, fileCh, read>> /\ scanner = "next" /\ scanner' = "closed"
        BY <1>3 DEF ReadFails, Stop, channels, outputs
  <2> QED  BY <2>1, <1>s
<1>4. CASE SendToFile
  <2>1. /\ scanner = "file" /\ scanner' = "work" /\ read' = read
        /\ fileCh' = Append(fileCh, read) /\ UNCHANGED <<hashed, hashing>>
        BY <1>4 DEF SendToFile, outputs
  <2>2. Filed = read - 1 /\ WithFileDigest  BY <1>t, <2>1 DEF FileOK
  <2>3. read \in Block  BY <1>n, <1>t, <2>2 DEF Block, TypeOK, Number
  <2>4. /\ Len(fileCh') = Len(fileCh) + 1 /\ DOMAIN fileCh' = 1 .. Len(fileCh) + 1
        /\ DOMAIN fileCh = 1 .. Len(fileCh)
        /\ \A i \in DOMAIN fileCh : fileCh'[i] = fileCh[i]
        /\ fileCh'[Len(fileCh) + 1] = read
        BY <1>t, <2>1, <2>3, AppendFacts DEF TypeOK
  <2>5. Held' = Held  BY <2>1 DEF Held
  <2>6. Filed' = read  BY <1>n, <2>1, <2>2, <2>4, <2>5 DEF Filed
  <2>7. read = Len(hashed) + Held + (Len(fileCh) + 1)  BY <1>n, <2>2 DEF Filed
  <2>8. ASSUME NEW i \in DOMAIN fileCh' PROVE fileCh'[i] = Len(hashed) + Held + i
    <3>1. CASE i \in DOMAIN fileCh  BY <1>t, <2>4, <3>1 DEF FileOK
    <3>2. CASE i \notin DOMAIN fileCh
      <4>1. i = Len(fileCh) + 1  BY <1>n, <2>4, <2>8, <3>2
      <4> QED  BY <4>1, <2>4, <2>7
    <3> QED  BY <3>1, <3>2
  <2> QED  BY <1>n, <1>t, <2>1, <2>2, <2>5, <2>6, <2>8 DEF FileOK
<1>5. CASE TakeToHash
  <2>1. /\ hashing = None /\ fileCh # <<>>
        /\ hashing' = Head(fileCh) /\ fileCh' = Tail(fileCh)
        /\ UNCHANGED <<scanner, read, hashed, cancelled>>
        BY <1>5 DEF TakeToHash, errors
  <2>2. /\ Head(fileCh) = fileCh[1] /\ 1 \in DOMAIN fileCh /\ Head(fileCh) \in Block
        /\ Len(Tail(fileCh)) = Len(fileCh) - 1
        /\ \A i \in DOMAIN Tail(fileCh) :
              i \in Nat /\ i + 1 \in DOMAIN fileCh /\ Tail(fileCh)[i] = fileCh[i + 1]
        BY <1>t, <2>1, TailFacts DEF TypeOK
  <2>3. Held = 0 /\ Held' = 1  BY <2>1, <2>2 DEF Held, Block, None
  <2>4. Filed' = Filed  BY <1>n, <2>1, <2>2, <2>3 DEF Filed
  <2>5. hashing' = Len(hashed) + 1
        BY <1>n, <1>t, <2>1, <2>2, <2>3 DEF FileOK
  <2>6. ASSUME NEW i \in DOMAIN fileCh' PROVE fileCh'[i] = Len(hashed) + Held' + i
    <3>1. i \in Nat /\ i + 1 \in DOMAIN fileCh /\ fileCh'[i] = fileCh[i + 1]
          BY <2>1, <2>2, <2>6
    <3>2. fileCh[i + 1] = Len(hashed) + Held + (i + 1)  BY <1>t, <3>1 DEF FileOK
    <3> QED  BY <1>n, <2>3, <3>1, <3>2
  <2> QED  BY <1>t, <2>1, <2>4, <2>5, <2>6 DEF FileOK
<1>6. CASE HashBlock
  <2>1. /\ hashing # None /\ hashing' = None
        /\ hashed' = Append(hashed, content[buf[hashing]])
        /\ UNCHANGED <<scanner, read, fileCh, cancelled>>
        BY <1>6 DEF HashBlock, channels, errors
  <2>2. content[buf[hashing]] = hashing
        BY <2>1 DEF HInv, BufferOK, FileSide, ToHash
  <2>3. hashing = Len(hashed) + 1  BY <1>t, <2>1 DEF FileOK
  <2>4. /\ Len(hashed') = Len(hashed) + 1 /\ DOMAIN hashed' = 1 .. Len(hashed) + 1
        /\ DOMAIN hashed = 1 .. Len(hashed)
        /\ \A i \in DOMAIN hashed : hashed'[i] = hashed[i]
        /\ hashed'[Len(hashed) + 1] = hashing
        BY <1>t, <2>1, <2>2, AppendFacts DEF TypeOK
  <2>5. Held = 1 /\ Held' = 0  BY <2>1 DEF Held
  <2>6. Filed' = Filed  BY <1>n, <2>1, <2>4, <2>5 DEF Filed
  <2>7. ASSUME NEW i \in DOMAIN hashed' PROVE hashed'[i] = i
    <3>1. CASE i \in DOMAIN hashed  BY <1>t, <2>4, <3>1 DEF FileOK
    <3>2. CASE i \notin DOMAIN hashed
      <4>1. i = Len(hashed) + 1  BY <1>n, <2>4, <2>7, <3>2
      <4> QED  BY <4>1, <2>3, <2>4
    <3> QED  BY <3>1, <3>2
  <2>8. \A i \in DOMAIN fileCh : fileCh[i] = Len(hashed') + Held' + i
    <3>1. Len(hashed') + Held' = Len(hashed) + Held  BY <1>n, <2>4, <2>5
    <3> QED  BY <1>t, <3>1 DEF FileOK
  <2> QED  BY <1>t, <2>1, <2>6, <2>7, <2>8 DEF FileOK
<1>7. CASE SendToWork
  <2>1. UNCHANGED <<hashed, hashing, fileCh, read>> /\ scanner = "work" /\ scanner' = "next"
        BY <1>7 DEF SendToWork, outputs
  <2> QED  BY <2>1, <1>s
<1>8. ASSUME NEW w \in Worker, Work(w) PROVE FileOK'
  <2>1. UNCHANGED <<hashed, hashing, fileCh, read, scanner>>
        BY <1>8 DEF Work, TakeWork, Sum, SinkFails, SendResult, Leave, channels, outputs
  <2>2. cancelled => cancelled'
        BY <1>8 DEF Work, TakeWork, Sum, SinkFails, SendResult, Leave, errors, Fail
  <2> QED  BY <2>1, <2>2, <1>s
<1>9. CASE Collect \/ CallerCancels \/ UNCHANGED vars
  <2>1. UNCHANGED <<hashed, hashing, fileCh, read, scanner>> /\ (cancelled => cancelled')
        BY <1>9 DEF Collect, CallerCancels, vars, channels, outputs, errors
  <2> QED  BY <2>1, <1>s
<1> QED  BY <1>1, <1>2, <1>3, <1>4, <1>5, <1>6, <1>7, <1>8, <1>9 DEF Next, Scan, HashFile

LEMMA WorkStep ==
    ASSUME HInv, [Next]_vars
    PROVE  WorkOK'
<1> USE BlockIsNumber
<1>t. TypeOK /\ WorkOK  BY DEF HInv
<1>n. read \in Nat /\ ToSum \subseteq Nat
  <2>1. Number \subseteq Nat  BY DEF Number
  <2>2. read \in Number /\ Elements(work) \subseteq Number /\ \A w \in Worker : job[w] \in Number
        BY <1>t DEF TypeOK, Elements
  <2> QED  BY <2>1, <2>2 DEF ToSum
<1>s. ASSUME UNCHANGED <<work, job, read>>, scanner' \in {"file", "work"} => scanner \in {"file", "work"}
      PROVE  WorkOK'
      BY <1>t, <1>s DEF WorkOK, ToSum, Elements
<1>1. CASE ReadChunk
  <2>1. UNCHANGED <<work, job>> /\ read' = read + 1  BY <1>1 DEF ReadChunk, channels, workers
  <2>2. \A b \in ToSum : b <= read' /\ b < read'  BY <1>t, <1>n, <2>1 DEF WorkOK
  <2> QED  BY <1>t, <2>1, <2>2 DEF WorkOK, ToSum, Elements
<1>2. CASE EndOfStream \/ ReadFails \/ CancelNoticed \/ Return
      BY <1>2, <1>s DEF EndOfStream, ReadFails, CancelNoticed, Return, Stop, channels, workers
<1>3. CASE SendToFile \/ HashFile \/ Collect \/ CallerCancels \/ UNCHANGED vars
  <2>1. UNCHANGED <<work, job, read>>
        BY <1>3 DEF SendToFile, HashFile, TakeToHash, HashBlock, Collect, CallerCancels, vars,
                    channels, workers
  <2>2. scanner' \in {"file", "work"} => scanner \in {"file", "work"}
        BY <1>3 DEF SendToFile, HashFile, TakeToHash, HashBlock, Collect, CallerCancels, vars
  <2> QED  BY <2>1, <2>2, <1>s
<1>4. CASE SendToWork
  <2>1. /\ scanner = "work" /\ scanner' = "next" /\ work' = Append(work, read)
        /\ UNCHANGED <<read, job>>
        BY <1>4 DEF SendToWork, workers
  <2>2. read \notin ToSum  BY <1>t, <1>n, <2>1 DEF WorkOK
  <2>3. read \in Block
    <3>1. BufferOK  BY DEF HInv
    <3>2. read \in 1 .. read  BY <2>1, <3>1 DEF BufferOK, SumSide
    <3> QED  BY <1>t, <3>2 DEF TypeOK, Number, Block
  <2>4. /\ DOMAIN work' = 1 .. Len(work) + 1 /\ DOMAIN work = 1 .. Len(work)
        /\ \A i \in DOMAIN work : work'[i] = work[i]
        /\ work'[Len(work) + 1] = read
        /\ Elements(work') = Elements(work) \union {read}
        BY <1>t, <2>1, <2>3, AppendFacts DEF TypeOK
  <2>5. read \notin Elements(work) /\ \A w \in Worker : job[w] # read
        BY <1>n, <2>2, <2>3 DEF ToSum, None, Block
  <2>6. \A i \in DOMAIN work : work[i] # read  BY <2>5 DEF Elements
  <2>7. \A i \in DOMAIN work' : i \in DOMAIN work \/ i = Len(work) + 1
    <3> DEFINE n == Len(work)
    <3>1. n \in Nat  BY <1>t DEF TypeOK
    <3>2. DOMAIN work' = 1 .. n + 1 /\ DOMAIN work = 1 .. n  BY <2>4
    <3> HIDE DEF n
    <3>3. \A i \in DOMAIN work' : i \in DOMAIN work \/ i = n + 1  BY <3>1, <3>2
    <3> QED  BY <3>3 DEF n
  <2>8. \A i, j \in DOMAIN work' : work'[i] = work'[j] => i = j
        BY <1>t, <2>4, <2>6, <2>7 DEF WorkOK
  <2>9. ToSum' \subseteq ToSum \union {read}  BY <2>1, <2>4 DEF ToSum
  <2> QED  BY <1>t, <1>n, <2>1, <2>4, <2>5, <2>8, <2>9 DEF WorkOK
<1>5. ASSUME NEW w \in Worker, TakeWork(w) PROVE WorkOK'
  <2>1. /\ work # <<>> /\ job' = [job EXCEPT ![w] = Head(work)] /\ work' = Tail(work)
        /\ UNCHANGED <<read, scanner>>
        BY <1>5 DEF TakeWork
  <2>2. /\ Head(work) \in Block
        /\ Elements(work) = Elements(work') \union {Head(work)}
        BY <1>t, <2>1, TailFacts DEF TypeOK
  <2>3. /\ Head(work) \notin Elements(work')
        /\ \A i, j \in DOMAIN work' : work'[i] = work'[j] => i = j
        BY <1>t, <2>1, TailOnce DEF TypeOK, WorkOK
  <2>4. \A v \in Worker : job'[v] = IF v = w THEN Head(work) ELSE job[v]
        BY <1>t, <2>1 DEF TypeOK
  <2>5. \A v \in Worker : job[v] # Head(work)  BY <1>t, <2>2 DEF WorkOK
  <2>6. ToSum' \subseteq ToSum  BY <2>2, <2>4 DEF ToSum, None, Block
  <2>7. \A v \in Worker : job'[v] \notin Elements(work')
        BY <1>t, <2>2, <2>3, <2>4 DEF WorkOK
  <2>8. \A v, u \in Worker : job'[v] = job'[u] /\ job'[v] # None => v = u
        BY <1>t, <2>4, <2>5 DEF WorkOK
  <2> QED  BY <1>t, <2>1, <2>3, <2>6, <2>7, <2>8 DEF WorkOK
<1>6. ASSUME NEW w \in Worker, Sum(w) \/ SinkFails(w) PROVE WorkOK'
  <2>1. /\ job' = [job EXCEPT ![w] = None] /\ UNCHANGED <<work, read, scanner>>
        BY <1>6 DEF Sum, SinkFails, channels
  <2>2. \A v \in Worker : job'[v] = IF v = w THEN None ELSE job[v]
        BY <1>t, <2>1 DEF TypeOK
  <2>3. None \notin Elements(work)  BY <1>t DEF TypeOK, Elements, Block, None
  <2>4. ToSum' \subseteq ToSum  BY <2>1, <2>2 DEF ToSum, Elements
  <2> QED  BY <1>t, <2>1, <2>2, <2>3, <2>4 DEF WorkOK, Elements
<1>7. ASSUME NEW w \in Worker, SendResult(w) \/ Leave(w) PROVE WorkOK'
      BY <1>7, <1>s DEF SendResult, Leave, channels
<1> QED  BY <1>1, <1>2, <1>3, <1>4, <1>5, <1>6, <1>7 DEF Next, Scan, Work

-----------------------------------------------------------------------------
(* The buffers.                                                            *)

\* Reading no more blocks takes no more buffers.
LEMMA BufferShrinks ==
    ASSUME BufferOK, UNCHANGED <<buf, refs, content, pool, read>>,
           FileSide' \subseteq FileSide, SumSide' \subseteq SumSide
    PROVE  BufferOK'
BY DEF BufferOK

\* A side that lets go of a block leaves the other side's buffer alone.
LEMMA ReleaseKeeps ==
    ASSUME TypeOK, BufferOK, NEW b \in FileSide \union SumSide, Release(b), read' = read,
           FileSide' \subseteq FileSide, SumSide' \subseteq SumSide,
           \/ b \in FileSide /\ b \notin FileSide'
           \/ b \in SumSide /\ b \notin SumSide'
    PROVE  BufferOK'
<1>1. /\ buf' = buf /\ content' = content
      /\ refs' = [refs EXCEPT ![b] = @ - 1]
      /\ pool' = IF refs[b] = 1 THEN pool \union {buf[b]} ELSE pool
      BY DEF Release
<1>2. ASSUME NEW c \in FileSide \union SumSide
      PROVE  /\ c \in 1 .. read /\ c \in Block /\ buf[c] \in Buffer /\ refs[c] \in Int
             /\ buf[c] \notin pool /\ content[buf[c]] = c /\ refs[c] >= 1
  <2>1. read \in Nat /\ read <= Length  BY DEF TypeOK, Number
  <2>2. c \in 1 .. read  BY DEF BufferOK
  <2>3. c \in Block  BY <2>1, <2>2, HashAssumption DEF Block
  <2>4. buf[c] \in Buffer /\ buf[c] \notin pool /\ content[buf[c]] = c /\ refs[c] >= 1
        BY DEF BufferOK
  <2> QED  BY <2>2, <2>3, <2>4 DEF TypeOK
<1>3. ASSUME NEW c \in FileSide' \union SumSide', c # b
      PROVE  /\ c \in 1 .. read' /\ buf'[c] \in Buffer /\ buf'[c] \notin pool'
             /\ content'[buf'[c]] = c /\ refs'[c] >= 1 /\ refs'[c] = refs[c]
  <2>1. c \in FileSide \union SumSide  BY <1>3
  <2>2. refs'[c] = refs[c]  BY <1>1, <1>2, <1>3, <2>1 DEF TypeOK
  <2>3. buf[c] # buf[b]  BY <1>2, <1>3, <2>1
  <2> QED  BY <1>1, <1>2, <2>1, <2>2, <2>3
<1>4. ASSUME b \in FileSide' \union SumSide'
      PROVE  /\ b \in 1 .. read' /\ buf'[b] \in Buffer /\ buf'[b] \notin pool'
             /\ content'[buf'[b]] = b /\ refs'[b] >= 1
  <2>1. b \in FileSide \cap SumSide  BY <1>4
  <2>2. refs[b] >= 2  BY <2>1 DEF BufferOK
  <2>3. refs'[b] = refs[b] - 1 /\ refs[b] \in Int
        BY <1>1, <1>2 DEF TypeOK
  <2>4. refs'[b] >= 1 /\ refs[b] # 1  BY <2>2, <2>3
  <2> QED  BY <1>1, <1>2, <2>4
<1>5. ASSUME NEW c \in FileSide' \cap SumSide' PROVE refs'[c] >= 2
  <2>1. c # b /\ c \in FileSide \cap SumSide  BY <1>5
  <2>2. refs[c] >= 2  BY <2>1 DEF BufferOK
  <2> QED  BY <1>3, <2>1, <2>2
<1>6. ASSUME NEW c \in FileSide' \union SumSide'
      PROVE  /\ c \in 1 .. read' /\ buf'[c] \in Buffer
             /\ buf'[c] \notin pool' /\ content'[buf'[c]] = c
             /\ refs'[c] >= 1
      BY <1>3, <1>4, <1>6
<1> QED  BY <1>5, <1>6 DEF BufferOK, Buffer

LEMMA ReadChunkBuffers ==
    ASSUME TypeOK, FileOK, WorkOK, BufferOK, ReadChunk
    PROVE  BufferOK'
<1> USE BlockIsNumber
<1>1. PICK b \in Get :
        /\ buf' = [buf EXCEPT ![read + 1] = b]
        /\ content' = [content EXCEPT ![b] = read + 1]
        /\ pool' = pool \ {b}
      BY DEF ReadChunk
<1>2. /\ read < Length /\ read' = read + 1 /\ scanner = "next"
      /\ refs' = [refs EXCEPT ![read + 1] = Readers]
      /\ scanner' = (IF WithFileDigest THEN "file" ELSE "work")
      /\ UNCHANGED <<work, fileCh, job, hashing>>
      BY DEF ReadChunk, channels, workers, outputs
<1>3. read \in Nat /\ read + 1 \in Block
      BY <1>2 DEF TypeOK, Number, Block
<1>4. /\ FileSide = ToHash /\ SumSide = ToSum
      /\ FileSide' = FileSide \union (IF WithFileDigest THEN {read + 1} ELSE {})
      /\ SumSide' = SumSide \union {read + 1}
      BY <1>2 DEF FileSide, SumSide, ToHash, ToSum, Elements
<1>5. b \in Buffer /\ \A c \in 1 .. read : buf[c] \in pool \/ buf[c] # b \/ b \in pool
      BY DEF Get, Lowest, TypeOK
<1>6. ASSUME NEW c \in FileSide \union SumSide
      PROVE  /\ c \in 1 .. read' /\ c # read + 1 /\ buf'[c] \in Buffer
             /\ buf'[c] \notin pool' /\ content'[buf'[c]] = c
             /\ refs'[c] >= 1 /\ refs'[c] = refs[c]
  <2>1. c \in 1 .. read /\ buf[c] \in Buffer /\ buf[c] \notin pool
        /\ content[buf[c]] = c /\ refs[c] >= 1
        BY DEF BufferOK
  <2>2. c \in 1 .. read' /\ c # read + 1 /\ c \in Block
        BY <1>2, <1>3, <2>1 DEF Block
  <2>3. buf'[c] = buf[c] /\ refs'[c] = refs[c]  BY <1>1, <1>2, <2>2 DEF TypeOK
  <2>4. buf[c] # b  BY <1>5, <2>1 DEF Get, Lowest
  <2>5. content'[buf[c]] = c  BY <1>1, <2>1, <2>4 DEF TypeOK
  <2> QED  BY <1>1, <2>1, <2>2, <2>3, <2>5
<1>7. /\ read + 1 \in 1 .. read' /\ buf'[read + 1] \in Buffer
      /\ buf'[read + 1] \notin pool' /\ content'[buf'[read + 1]] = read + 1
      /\ refs'[read + 1] = Readers
  <2>1. read + 1 \in 1 .. read'  BY <1>2, <1>3
  <2>2. buf'[read + 1] = b /\ refs'[read + 1] = Readers
        BY <1>1, <1>2, <1>3 DEF TypeOK
  <2>3. content'[b] = read + 1  BY <1>1, <1>5 DEF TypeOK
  <2> QED  BY <1>1, <1>5, <2>1, <2>2, <2>3
<1>8. Readers >= 1 /\ (WithFileDigest => Readers >= 2)  BY DEF Readers
<1>9. \A c \in FileSide' \union SumSide' :
        /\ c \in 1 .. read' /\ buf'[c] \in Buffer
        /\ buf'[c] \notin pool' /\ content'[buf'[c]] = c
        /\ refs'[c] >= 1
  <2> SUFFICES ASSUME NEW c \in FileSide' \union SumSide'
               PROVE  /\ c \in 1 .. read' /\ buf'[c] \in Buffer
                      /\ buf'[c] \notin pool' /\ content'[buf'[c]] = c
                      /\ refs'[c] >= 1
      OBVIOUS
  <2>1. c \in FileSide \union SumSide \/ c = read + 1  BY <1>4
  <2> QED  BY <1>6, <1>7, <1>8, <2>1
<1>10. \A c \in FileSide' \cap SumSide' : refs'[c] >= 2
  <2> SUFFICES ASSUME NEW c \in FileSide' \cap SumSide' PROVE refs'[c] >= 2  OBVIOUS
  <2>1. CASE c = read + 1
    <3>1. read + 1 \notin FileSide
          BY <1>6
    <3>2. WithFileDigest  BY <1>4, <2>1, <3>1
    <3> QED  BY <1>7, <1>8, <2>1, <3>2
  <2>2. CASE c # read + 1
    <3>1. c \in FileSide \cap SumSide  BY <1>4, <2>2
    <3>2. refs[c] >= 2  BY <3>1 DEF BufferOK
    <3> QED  BY <1>6, <3>1, <3>2
  <2> QED  BY <2>1, <2>2
<1> QED  BY <1>9, <1>10 DEF BufferOK, Buffer

LEMMA BufferStep ==
    ASSUME HInv, [Next]_vars
    PROVE  BufferOK'
<1> USE BlockIsNumber
<1>t. TypeOK /\ FileOK /\ WorkOK /\ BufferOK  BY DEF HInv
<1>n. read \in Nat /\ hashing \in Nat  BY <1>t DEF TypeOK, Number
<1>f. ASSUME UNCHANGED <<fileCh, hashing, read>>, scanner' = "file" => scanner = "file"
      PROVE  FileSide' \subseteq FileSide
      BY <1>f DEF FileSide, ToHash, Elements
<1>w. ASSUME UNCHANGED <<work, job, read>>, scanner' \in {"file", "work"} => scanner \in {"file", "work"}
      PROVE  SumSide' \subseteq SumSide
      BY <1>w DEF SumSide, ToSum, Elements
<1>1. CASE ReadChunk  BY <1>1, <1>t, ReadChunkBuffers
<1>2. CASE EndOfStream \/ ReadFails \/ CancelNoticed \/ Return
  <2>1. UNCHANGED <<fileCh, hashing, read, work, job, buf, refs, content, pool>>
        BY <1>2 DEF EndOfStream, ReadFails, CancelNoticed, Return, Stop, channels, workers,
                    buffers, outputs
  <2>2. scanner' \in {"closed", "returned"}
        BY <1>2 DEF EndOfStream, ReadFails, CancelNoticed, Return, Stop
  <2> QED  BY <1>t, <1>f, <1>w, <2>1, <2>2, BufferShrinks
<1>3. CASE SendToFile
  <2>1. /\ scanner = "file" /\ scanner' = "work" /\ fileCh' = Append(fileCh, read)
        /\ UNCHANGED <<hashing, read, work, job, buf, refs, content, pool>>
        BY <1>3 DEF SendToFile, workers, buffers, outputs
  <2>2. read \in FileSide  BY <2>1 DEF FileSide
  <2>3. read \in Block
    <3>1. read \in 1 .. read  BY <1>t, <2>2 DEF BufferOK
    <3> QED  BY <1>t, <3>1 DEF TypeOK, Number, Block
  <2>4. Elements(fileCh') = Elements(fileCh) \union {read}
        BY <1>t, <2>1, <2>3, AppendFacts DEF TypeOK
  <2>5. FileSide' \subseteq FileSide  BY <2>1, <2>4 DEF FileSide, ToHash
  <2> QED  BY <1>t, <1>w, <2>1, <2>5, BufferShrinks
<1>4. CASE SendToWork
  <2>1. /\ scanner = "work" /\ scanner' = "next" /\ work' = Append(work, read)
        /\ UNCHANGED <<fileCh, hashing, read, job, buf, refs, content, pool>>
        BY <1>4 DEF SendToWork, workers, buffers, outputs
  <2>2. read \in SumSide  BY <2>1 DEF SumSide
  <2>3. read \in Block
    <3>1. read \in 1 .. read  BY <1>t, <2>2 DEF BufferOK
    <3> QED  BY <1>t, <3>1 DEF TypeOK, Number, Block
  <2>4. Elements(work') = Elements(work) \union {read}
        BY <1>t, <2>1, <2>3, AppendFacts DEF TypeOK
  <2>5. SumSide' \subseteq SumSide  BY <2>1, <2>4 DEF SumSide, ToSum
  <2> QED  BY <1>t, <1>f, <2>1, <2>5, BufferShrinks
<1>5. CASE TakeToHash
  <2>1. /\ fileCh # <<>> /\ hashing' = Head(fileCh) /\ fileCh' = Tail(fileCh)
        /\ UNCHANGED <<scanner, read, work, job, buf, refs, content, pool>>
        BY <1>5 DEF TakeToHash, workers, buffers
  <2>2. Elements(fileCh) = Elements(fileCh') \union {hashing'}
        BY <1>t, <2>1, TailFacts DEF TypeOK
  <2>3. FileSide' \subseteq FileSide  BY <2>1, <2>2 DEF FileSide, ToHash
  <2> QED  BY <1>t, <1>w, <2>1, <2>3, BufferShrinks
<1>6. CASE HashBlock
  <2>1. /\ hashing # None /\ hashing' = None /\ Release(hashing)
        /\ UNCHANGED <<scanner, read, fileCh, work, job>>
        BY <1>6 DEF HashBlock, channels, workers
  <2>2. hashing \in FileSide  BY <2>1 DEF FileSide, ToHash
  <2>3. FileSide' \subseteq FileSide /\ SumSide' \subseteq SumSide
        BY <2>1, <1>w DEF FileSide, ToHash, Elements
  <2>4. hashing \notin Elements(fileCh)
    <3> SUFFICES ASSUME NEW i \in DOMAIN fileCh PROVE fileCh[i] # hashing  BY DEF Elements
    <3>1. i \in Nat /\ i >= 1 /\ Len(hashed) \in Nat  BY <1>t DEF TypeOK
    <3>2. hashing = Len(hashed) + 1 /\ fileCh[i] = Len(hashed) + Held + i
          BY <1>t, <2>1 DEF FileOK
    <3>3. Held = 1  BY <2>1 DEF Held
    <3> QED  BY <3>1, <3>2, <3>3
  <2>5. scanner = "file" => hashing # read
    <3>1. Len(fileCh) \in Nat /\ Len(hashed) \in Nat  BY <1>t DEF TypeOK
    <3>2. hashing = Len(hashed) + 1 /\ Held = 1  BY <1>t, <2>1 DEF FileOK, Held
    <3>3. scanner = "file" => Filed = read - 1  BY <1>t DEF FileOK
    <3> QED  BY <1>n, <3>1, <3>2, <3>3 DEF Filed
  <2>6. hashing \notin FileSide'
        BY <2>1, <2>4, <2>5 DEF FileSide, ToHash, Elements
  <2> QED  BY <1>t, <2>1, <2>2, <2>3, <2>6, ReleaseKeeps
<1>7. ASSUME NEW w \in Worker, TakeWork(w) PROVE BufferOK'
  <2>1. /\ work # <<>> /\ job' = [job EXCEPT ![w] = Head(work)] /\ work' = Tail(work)
        /\ UNCHANGED <<scanner, read, fileCh, hashing, buf, refs, content, pool>>
        BY <1>7 DEF TakeWork, buffers, outputs
  <2>2. Elements(work) = Elements(work') \union {Head(work)}
        BY <1>t, <2>1, TailFacts DEF TypeOK
  <2>3. \A v \in Worker : job'[v] = IF v = w THEN Head(work) ELSE job[v]
        BY <1>t, <2>1 DEF TypeOK
  <2>4. ToSum' \subseteq ToSum  BY <2>2, <2>3 DEF ToSum
  <2>5. SumSide' \subseteq SumSide  BY <2>1, <2>4 DEF SumSide
  <2> QED  BY <1>t, <1>f, <2>1, <2>5, BufferShrinks
<1>8. ASSUME NEW w \in Worker, Sum(w) \/ SinkFails(w) PROVE BufferOK'
  <2>1. /\ job[w] # None /\ job' = [job EXCEPT ![w] = None] /\ Release(job[w])
        /\ UNCHANGED <<scanner, read, fileCh, hashing, work>>
        BY <1>8 DEF Sum, SinkFails, channels, outputs
  <2>2. \A v \in Worker : job'[v] = IF v = w THEN None ELSE job[v]
        BY <1>t, <2>1 DEF TypeOK
  <2>3. job[w] \in ToSum /\ job[w] \in SumSide  BY <2>1 DEF ToSum, SumSide
  <2>4. ToSum' \subseteq ToSum  BY <2>1, <2>2 DEF ToSum, Elements
  <2>5. SumSide' \subseteq SumSide  BY <2>1, <2>4 DEF SumSide
  <2>6. job[w] \notin Elements(work) /\ \A v \in Worker : job'[v] # job[w]
        BY <1>t, <2>1, <2>2 DEF WorkOK
  <2>7. scanner \in {"file", "work"} => job[w] # read
        BY <1>t, <1>n, <2>3 DEF WorkOK
  <2>8. job[w] \notin SumSide'
        BY <2>1, <2>6, <2>7 DEF SumSide, ToSum, Elements
  <2> QED  BY <1>t, <1>f, <2>1, <2>3, <2>5, <2>8, ReleaseKeeps
<1>9. ASSUME NEW w \in Worker, SendResult(w) \/ Leave(w) PROVE BufferOK'
  <2>1. UNCHANGED <<scanner, read, fileCh, hashing, work, job, buf, refs, content, pool>>
        BY <1>9 DEF SendResult, Leave, channels, outputs, buffers
  <2> QED  BY <1>t, <1>f, <1>w, <2>1, BufferShrinks
<1>10. CASE Collect \/ CallerCancels \/ UNCHANGED vars
  <2>1. UNCHANGED <<scanner, read, fileCh, hashing, work, job, buf, refs, content, pool>>
        BY <1>10 DEF Collect, CallerCancels, vars, channels, workers, outputs, buffers
  <2> QED  BY <1>t, <1>f, <1>w, <2>1, BufferShrinks
<1> QED  BY <1>1, <1>2, <1>3, <1>4, <1>5, <1>6, <1>7, <1>8, <1>9, <1>10
         DEF Next, Scan, HashFile, Work

-----------------------------------------------------------------------------
(* The digests.                                                            *)

LEMMA ExactKeeps ==
    ASSUME ExactOK, read' = read, Gathered' \subseteq Gathered \union {NoSum}
    PROVE  ExactOK'
BY DEF ExactOK, Exact

LEMMA CoverKeeps ==
    ASSUME CoverOK, read' = read, read \in Nat, cancelled => cancelled',
           SumSide \subseteq SumSide', Gathered \subseteq Gathered' \union {NoSum}
    PROVE  CoverOK'
<1>1. \A b \in 1 .. read : <<b, b>> # NoSum  BY DEF NoSum, None
<1> QED  BY <1>1 DEF CoverOK

LEMMA CancelledCovers ==
    ASSUME cancelled' PROVE CoverOK'
BY DEF CoverOK

LEMMA DigestStep ==
    ASSUME HInv, [Next]_vars
    PROVE  ExactOK' /\ CoverOK'
<1> USE BlockIsNumber
<1>t. TypeOK /\ ErrorOK /\ WorkOK /\ BufferOK /\ ExactOK /\ CoverOK /\ EndOK  BY DEF HInv
<1>n. read \in Nat /\ cancelled \in BOOLEAN  BY <1>t DEF TypeOK, Number
<1>g. ASSUME UNCHANGED <<results, chunks, sum>> PROVE Gathered' = Gathered
      BY <1>g DEF Gathered, Elements
<1>p. ASSUME UNCHANGED <<work, job, read>>,
             scanner \in {"file", "work"} => scanner' \in {"file", "work"}
      PROVE  SumSide \subseteq SumSide'
      BY <1>p DEF SumSide, ToSum, Elements
<1>s. ASSUME UNCHANGED <<results, chunks, sum, work, job, read>>, cancelled => cancelled',
             scanner \in {"file", "work"} => scanner' \in {"file", "work"} \/ cancelled
      PROVE  ExactOK' /\ CoverOK'
  <2>1. ExactOK'  BY <1>t, <1>s, <1>g, ExactKeeps
  <2>2. CASE cancelled  BY <1>s, <2>1, <2>2, CancelledCovers
  <2>3. CASE ~ cancelled
        BY <1>t, <1>n, <1>s, <1>g, <1>p, <2>1, <2>3, CoverKeeps
  <2> QED  BY <1>n, <2>2, <2>3
<1>1. CASE ReadChunk
  <2>1. /\ read' = read + 1 /\ scanner = "next" /\ scanner' \in {"file", "work"}
        /\ UNCHANGED <<results, chunks, sum, work, job, cancelled>>
        BY <1>1 DEF ReadChunk, channels, workers, outputs, errors
  <2>2. Gathered' = Gathered  BY <2>1, <1>g
  <2>3. Exact \subseteq Exact'  BY <1>n, <2>1 DEF Exact
  <2>4. SumSide' = SumSide \union {read'}
        BY <2>1 DEF SumSide, ToSum, Elements
  <2>5. \A b \in 1 .. read' : b \in 1 .. read \/ b = read'  BY <1>n, <2>1
  <2>6. ExactOK'  BY <1>t, <2>2, <2>3 DEF ExactOK
  <2>7. CoverOK'  BY <1>t, <2>1, <2>2, <2>4, <2>5 DEF CoverOK
  <2> QED  BY <2>6, <2>7
<1>2. CASE EndOfStream \/ CancelNoticed \/ Return
  <2>1. UNCHANGED <<results, chunks, sum, work, job, read>>
        BY <1>2 DEF EndOfStream, CancelNoticed, Return, Stop, channels, workers, outputs
  <2>2. cancelled => cancelled'
        BY <1>2 DEF EndOfStream, CancelNoticed, Return, Fail, errors
  <2>3. scanner \in {"file", "work"} => cancelled
        BY <1>2 DEF EndOfStream, CancelNoticed, Return
  <2> QED  BY <1>s, <2>1, <2>2, <2>3
<1>3. CASE ReadFails
  <2>1. UNCHANGED <<results, chunks, sum, work, job, read>>
        BY <1>3 DEF ReadFails, Stop, channels, workers, outputs
  <2>2. (cancelled => cancelled') /\ scanner = "next"
        BY <1>3 DEF ReadFails, Fail
  <2> QED  BY <1>s, <2>1, <2>2
<1>4. CASE SendToFile \/ HashFile \/ CallerCancels \/ UNCHANGED vars
  <2>1. UNCHANGED <<results, chunks, sum, work, job, read>> /\ (cancelled => cancelled')
        BY <1>4 DEF SendToFile, HashFile, TakeToHash, HashBlock, CallerCancels, vars,
                    channels, workers, outputs, errors
  <2>2. scanner \in {"file", "work"} => scanner' \in {"file", "work"}
        BY <1>4 DEF SendToFile, HashFile, TakeToHash, HashBlock, CallerCancels, vars
  <2> QED  BY <1>s, <2>1, <2>2
<1>5. CASE SendToWork
  <2>1. /\ scanner = "work" /\ work' = Append(work, read)
        /\ UNCHANGED <<results, chunks, sum, job, read, cancelled>>
        BY <1>5 DEF SendToWork, workers, outputs, errors
  <2>2. read \in SumSide  BY <2>1 DEF SumSide
  <2>3. read \in Block /\ read # None
    <3>1. read \in 1 .. read  BY <1>t, <2>2 DEF BufferOK
    <3> QED  BY <1>t, <3>1 DEF TypeOK, Number, Block, None
  <2>4. Elements(work') = Elements(work) \union {read}
        BY <1>t, <2>1, <2>3, AppendFacts DEF TypeOK
  <2>5. SumSide \subseteq SumSide'  BY <2>1, <2>3, <2>4 DEF SumSide, ToSum
  <2> QED  BY <1>t, <1>n, <1>g, <2>1, <2>5, ExactKeeps, CoverKeeps
<1>6. ASSUME NEW w \in Worker, TakeWork(w) PROVE ExactOK' /\ CoverOK'
  <2>1. /\ work # <<>> /\ job[w] = None /\ job' = [job EXCEPT ![w] = Head(work)]
        /\ work' = Tail(work)
        /\ UNCHANGED <<results, chunks, sum, read, scanner, cancelled>>
        BY <1>6 DEF TakeWork, Idle, outputs, errors
  <2>2. Elements(work) = Elements(work') \union {Head(work)}
        BY <1>t, <2>1, TailFacts DEF TypeOK
  <2>3. \A v \in Worker : job'[v] = IF v = w THEN Head(work) ELSE job[v]
        BY <1>t, <2>1 DEF TypeOK
  <2>4. ToSum \subseteq ToSum'
    <3> SUFFICES ASSUME NEW b \in ToSum PROVE b \in ToSum'  OBVIOUS
    <3>1. CASE b \in Elements(work)  BY <2>2, <2>3, <3>1 DEF ToSum
    <3>2. CASE \E v \in Worker : b = job[v]
      <4>1. PICK v \in Worker : b = job[v]  BY <3>2
      <4>2. v # w /\ b # None  BY <2>1, <4>1 DEF ToSum
      <4> QED  BY <2>3, <4>1, <4>2 DEF ToSum
    <3> QED  BY <3>1, <3>2 DEF ToSum
  <2>5. SumSide \subseteq SumSide'  BY <2>1, <2>4 DEF SumSide
  <2> QED  BY <1>t, <1>n, <1>g, <2>1, <2>5, ExactKeeps, CoverKeeps
<1>7. ASSUME NEW w \in Worker, Sum(w) PROVE ExactOK' /\ CoverOK'
  <2>1. /\ job[w] # None /\ job' = [job EXCEPT ![w] = None]
        /\ sum' = [sum EXCEPT ![w] = <<job[w], content[buf[job[w]]]>>]
        /\ UNCHANGED <<results, chunks, read, scanner, work, cancelled>>
        BY <1>7 DEF Sum, channels, outputs, errors
  <2>2. PICK j \in 1 .. read : j = job[w] /\ content[buf[j]] = j
        BY <1>t, <2>1 DEF BufferOK, SumSide, ToSum
  <2>3. sum[w] = NoSum  BY <1>t, <2>1 DEF EndOK
  <2>4. \A v \in Worker : /\ sum'[v] = (IF v = w THEN <<j, j>> ELSE sum[v])
                          /\ job'[v] = (IF v = w THEN None ELSE job[v])
        BY <1>t, <2>1, <2>2 DEF TypeOK
  <2>5. /\ Gathered' \subseteq Gathered \union {<<j, j>>}
        /\ Gathered \subseteq Gathered' \union {NoSum} /\ <<j, j>> \in Gathered'
        BY <2>1, <2>3, <2>4 DEF Gathered, Elements
  <2>6. SumSide \subseteq SumSide' \union {j}
    <3> SUFFICES ASSUME NEW b \in SumSide, b # j PROVE b \in SumSide'  OBVIOUS
    <3>1. CASE \E v \in Worker : b = job[v] /\ b # None
      <4>1. PICK v \in Worker : b = job[v] /\ b # None  BY <3>1
      <4>2. b = job'[v]  BY <2>2, <2>4, <4>1
      <4> QED  BY <4>1, <4>2 DEF SumSide, ToSum
    <3>2. CASE ~ \E v \in Worker : b = job[v] /\ b # None
          BY <2>1, <3>2 DEF SumSide, ToSum, Elements
    <3> QED  BY <3>1, <3>2
  <2>7. Exact' = Exact /\ <<j, j>> \in Exact  BY <2>1, <2>2 DEF Exact
  <2>8. ExactOK'  BY <1>t, <2>5, <2>7 DEF ExactOK
  <2>9. \A b \in 1 .. read : <<b, b>> # NoSum  BY <1>n DEF NoSum, None
  <2>10. CoverOK'  BY <1>t, <2>1, <2>5, <2>6, <2>9 DEF CoverOK
  <2> QED  BY <2>8, <2>10
<1>8. ASSUME NEW w \in Worker, SinkFails(w) PROVE ExactOK' /\ CoverOK'
  <2>1. UNCHANGED <<results, chunks, sum, read>> /\ cancelled'
        BY <1>8, <1>t DEF SinkFails, Fail, ErrorOK, channels, outputs, TypeOK
  <2> QED  BY <1>t, <1>g, <2>1, ExactKeeps, CancelledCovers
<1>9. ASSUME NEW w \in Worker, SendResult(w) PROVE ExactOK' /\ CoverOK'
  <2>1. /\ results' = Append(results, sum[w]) /\ sum' = [sum EXCEPT ![w] = NoSum]
        /\ UNCHANGED <<chunks, read, scanner, work, job, cancelled>>
        BY <1>9 DEF SendResult, outputs, errors
  <2>2. Elements(results') = Elements(results) \union {sum[w]}
    <3>1. results \in Seq(Number \X Number) /\ sum[w] \in Number \X Number
          BY <1>t DEF TypeOK
    <3> QED  BY <2>1, <3>1, AppendFacts
  <2>3. \A v \in Worker : sum'[v] = IF v = w THEN NoSum ELSE sum[v]
        BY <1>t, <2>1 DEF TypeOK
  <2>4. /\ Gathered' \subseteq Gathered \union {NoSum}
        /\ Gathered \subseteq Gathered' \union {NoSum}
        BY <2>1, <2>2, <2>3 DEF Gathered
  <2> QED  BY <1>t, <1>n, <1>p, <2>1, <2>4, ExactKeeps, CoverKeeps
<1>10. ASSUME NEW w \in Worker, Leave(w) PROVE ExactOK' /\ CoverOK'
  <2>1. /\ sum[w] = NoSum \/ cancelled
        /\ sum' = [sum EXCEPT ![w] = NoSum]
        /\ UNCHANGED <<results, chunks, read, scanner, work, job, cancelled>>
        BY <1>10 DEF Leave, Idle, channels, outputs, errors
  <2>2. \A v \in Worker : sum'[v] = IF v = w THEN NoSum ELSE sum[v]
        BY <1>t, <2>1 DEF TypeOK
  <2>3. Gathered' \subseteq Gathered \union {NoSum}
        BY <2>1, <2>2 DEF Gathered, Elements
  <2>4. ExactOK'  BY <1>t, <2>1, <2>3, ExactKeeps
  <2>5. CASE cancelled  BY <2>1, <2>4, <2>5, CancelledCovers
  <2>6. CASE sum[w] = NoSum
    <3>1. Gathered \subseteq Gathered' \union {NoSum}
          BY <2>1, <2>2, <2>6 DEF Gathered, Elements
    <3> QED  BY <1>t, <1>n, <1>p, <2>1, <2>4, <3>1, CoverKeeps
  <2> QED  BY <2>1, <2>5, <2>6
<1>11. CASE Collect
  <2>1. /\ results # <<>> /\ chunks' = chunks \union {Head(results)}
        /\ results' = Tail(results)
        /\ UNCHANGED <<sum, read, scanner, work, job, cancelled>>
        BY <1>11 DEF Collect, workers, errors
  <2>2. Elements(results) = Elements(results') \union {Head(results)}
        BY <1>t, <2>1, TailFacts DEF TypeOK
  <2>3. Gathered' = Gathered  BY <2>1, <2>2 DEF Gathered
  <2> QED  BY <1>t, <1>n, <1>p, <2>1, <2>3, ExactKeeps, CoverKeeps
<1> QED  BY <1>1, <1>2, <1>3, <1>4, <1>5, <1>6, <1>7, <1>8, <1>9, <1>10, <1>11
         DEF Next, Scan, Work

LEMMA SentStep ==
    ASSUME HInv, [Next]_vars
    PROVE  SentOK'
<1>t. TypeOK /\ SentOK  BY DEF HInv
<1>u. ASSUME UNCHANGED <<results, chunks>> PROVE SentOK'
      BY <1>t, <1>u DEF SentOK, Elements
<1>1. CASE Scan \/ HashFile \/ CallerCancels \/ UNCHANGED vars
  <2>1. CASE Scan
        BY <2>1, <1>u DEF Scan, ReadChunk, EndOfStream, ReadFails, SendToFile, SendToWork,
                    CancelNoticed, Return, Stop, channels, outputs
  <2>2. CASE HashFile \/ CallerCancels \/ UNCHANGED vars
        BY <2>2, <1>u DEF HashFile, TakeToHash, HashBlock, CallerCancels, vars, channels, outputs
  <2> QED  BY <1>1, <2>1, <2>2
<1>2. ASSUME NEW w \in Worker, TakeWork(w) \/ Sum(w) \/ SinkFails(w) \/ Leave(w)
      PROVE  SentOK'
      BY <1>2, <1>u DEF TakeWork, Sum, SinkFails, Leave, channels, outputs
<1>3. ASSUME NEW w \in Worker, SendResult(w) PROVE SentOK'
  <2>1. sum[w] # NoSum /\ results' = Append(results, sum[w]) /\ chunks' = chunks
        BY <1>3 DEF SendResult, outputs
  <2>2. Elements(results') = Elements(results) \union {sum[w]}
    <3>1. results \in Seq(Number \X Number) /\ sum[w] \in Number \X Number
          BY <1>t DEF TypeOK
    <3> QED  BY <2>1, <3>1, AppendFacts
  <2> QED  BY <1>t, <2>1, <2>2 DEF SentOK
<1>4. CASE Collect
  <2>1. /\ results # <<>> /\ chunks' = chunks \union {Head(results)}
        /\ results' = Tail(results)
        BY <1>4 DEF Collect
  <2>2. Elements(results) = Elements(results') \union {Head(results)}
        BY <1>t, <2>1, TailFacts DEF TypeOK
  <2> QED  BY <1>t, <2>1, <2>2 DEF SentOK
<1> QED  BY <1>1, <1>2, <1>3, <1>4 DEF Next, Work

LEMMA EndStep ==
    ASSUME HInv, [Next]_vars
    PROVE  EndOK'
<1> USE BlockIsNumber
<1>t. TypeOK /\ ErrorOK /\ EndOK  BY DEF HInv
<1>1. CASE ReadChunk
  <2>1. /\ scanner = "next" /\ scanner' \in {"file", "work"} /\ ~ cancelled
        /\ UNCHANGED <<work, fileCh, results, job, sum, exited, hashing, cancelled>>
        BY <1>1 DEF ReadChunk, channels, workers, outputs, errors
  <2> QED  BY <1>t, <2>1 DEF EndOK, Over
<1>2. CASE EndOfStream
  <2>1. /\ read' = Length /\ scanner' = "closed" /\ scanner = "next"
        /\ UNCHANGED <<work, fileCh, results, job, sum, exited, hashing, cancelled>>
        BY <1>2 DEF EndOfStream, Stop, channels, workers, outputs, errors
  <2> QED  BY <1>t, <2>1 DEF EndOK, Over
<1>3. CASE ReadFails \/ CancelNoticed
  <2>1. /\ scanner' = "closed" /\ cancelled'
        /\ UNCHANGED <<work, fileCh, results, job, sum, exited, hashing>>
        BY <1>3, <1>t DEF ReadFails, CancelNoticed, Stop, Fail, ErrorOK, TypeOK, channels,
                          workers, outputs, errors
  <2> QED  BY <1>t, <2>1 DEF EndOK, Over
<1>4. CASE SendToFile \/ SendToWork
  <2>1. /\ scanner \in {"file", "work"} /\ scanner' \in {"next", "work"}
        /\ UNCHANGED <<job, sum, exited, cancelled>>
        BY <1>4 DEF SendToFile, SendToWork, workers, errors
  <2> QED  BY <1>t, <2>1 DEF EndOK, Over
<1>5. CASE Return
  <2>1. /\ scanner = "closed" /\ scanner' = "returned" /\ exited = Worker
        /\ results = <<>> /\ fileCh = <<>> /\ hashing = None
        /\ UNCHANGED <<read, work, fileCh, results, job, sum, exited, hashing, cancelled>>
        BY <1>5 DEF Return, channels, workers, outputs, errors
  <2> QED  BY <1>t, <2>1 DEF EndOK, Over
<1>6. CASE HashFile
  <2>1. /\ scanner # "returned" /\ UNCHANGED <<scanner, read, work, results, job, sum, exited, cancelled>>
        BY <1>6, <1>t DEF HashFile, TakeToHash, HashBlock, EndOK, channels, workers, errors
  <2> QED  BY <1>t, <2>1 DEF EndOK
<1>7. ASSUME NEW w \in Worker, TakeWork(w) PROVE EndOK'
  <2>1. /\ w \notin exited /\ sum[w] = NoSum /\ work # <<>>
        /\ job' = [job EXCEPT ![w] = Head(work)]
        /\ UNCHANGED <<scanner, read, fileCh, results, sum, exited, hashing, cancelled>>
        BY <1>7 DEF TakeWork, Idle, outputs, errors
  <2>2. scanner # "returned" /\ (~ cancelled => exited = {})
        BY <1>t, <2>1 DEF EndOK
  <2>3. \A v \in Worker : v # w => job'[v] = job[v]  BY <1>t, <2>1 DEF TypeOK
  <2>4. exited \subseteq Worker  BY <1>t DEF TypeOK
  <2> QED  BY <1>t, <2>1, <2>2, <2>3, <2>4 DEF EndOK
<1>8. ASSUME NEW w \in Worker, Sum(w) PROVE EndOK'
  <2>1. /\ job[w] # None /\ job' = [job EXCEPT ![w] = None]
        /\ sum' = [sum EXCEPT ![w] = <<job[w], content[buf[job[w]]]>>]
        /\ UNCHANGED <<scanner, read, work, fileCh, results, exited, hashing, cancelled>>
        BY <1>8 DEF Sum, channels, outputs, errors
  <2>2. w \notin exited  BY <1>t, <2>1 DEF EndOK
  <2>3. \A v \in Worker : /\ v # w => job'[v] = job[v] /\ sum'[v] = sum[v]
                          /\ job'[w] = None
        BY <1>t, <2>1 DEF TypeOK
  <2>4. exited \subseteq Worker  BY <1>t DEF TypeOK
  <2> QED  BY <1>t, <2>1, <2>2, <2>3, <2>4 DEF EndOK
<1>9. ASSUME NEW w \in Worker, SinkFails(w) PROVE EndOK'
  <2>1. /\ job[w] # None /\ job' = [job EXCEPT ![w] = None] /\ cancelled'
        /\ UNCHANGED <<scanner, read, work, fileCh, results, sum, exited, hashing>>
        BY <1>9, <1>t DEF SinkFails, Fail, ErrorOK, TypeOK, channels, outputs
  <2>2. \A v \in Worker : job'[v] = IF v = w THEN None ELSE job[v]
        BY <1>t, <2>1 DEF TypeOK
  <2>3. exited \subseteq Worker  BY <1>t DEF TypeOK
  <2> QED  BY <1>t, <2>1, <2>2, <2>3 DEF EndOK
<1>10. ASSUME NEW w \in Worker, SendResult(w) PROVE EndOK'
  <2>1. /\ sum[w] # NoSum /\ sum' = [sum EXCEPT ![w] = NoSum]
        /\ UNCHANGED <<scanner, read, work, fileCh, job, exited, hashing, cancelled>>
        BY <1>10 DEF SendResult, outputs, errors
  <2>2. scanner # "returned"  BY <1>t, <2>1 DEF EndOK
  <2>3. \A v \in Worker : sum'[v] = IF v = w THEN NoSum ELSE sum[v]
        BY <1>t, <2>1 DEF TypeOK
  <2>4. exited \subseteq Worker  BY <1>t DEF TypeOK
  <2> QED  BY <1>t, <2>1, <2>2, <2>3, <2>4 DEF EndOK
<1>11. ASSUME NEW w \in Worker, Leave(w) PROVE EndOK'
  <2>1. /\ job[w] = None
        /\ cancelled \/ (scanner = "closed" /\ work = <<>>)
        /\ exited' = exited \union {w} /\ sum' = [sum EXCEPT ![w] = NoSum]
        /\ UNCHANGED <<scanner, read, work, fileCh, results, job, hashing, cancelled>>
        BY <1>11, <1>t DEF Leave, Idle, EndOK, channels, outputs, errors
  <2>2. \A v \in Worker : sum'[v] = IF v = w THEN NoSum ELSE sum[v]
        BY <1>t, <2>1 DEF TypeOK
  <2>3. exited \subseteq Worker  BY <1>t DEF TypeOK
  <2> QED  BY <1>t, <2>1, <2>2, <2>3 DEF EndOK, Over
<1>12. CASE Collect
  <2>1. /\ scanner # "returned"
        /\ UNCHANGED <<scanner, read, work, fileCh, job, sum, exited, hashing, cancelled>>
        BY <1>12, <1>t DEF Collect, EndOK, workers, errors
  <2> QED  BY <1>t, <2>1 DEF EndOK
<1>13. CASE CallerCancels
  <2>1. /\ cancelled'
        /\ UNCHANGED <<scanner, work, fileCh, results, job, sum, exited, hashing>>
        BY <1>13 DEF CallerCancels, channels, workers, outputs
  <2> QED  BY <1>t, <2>1 DEF EndOK
<1>14. CASE UNCHANGED vars
      BY <1>14, <1>t DEF vars, EndOK, channels, workers, outputs, errors
<1> QED  BY <1>1, <1>2, <1>3, <1>4, <1>5, <1>6, <1>7, <1>8, <1>9, <1>10, <1>11,
            <1>12, <1>13, <1>14 DEF Next, Scan, Work

-----------------------------------------------------------------------------
(* The theorems.                                                           *)

LEMMA HashInit == Init => HInv
<1> SUFFICES ASSUME Init PROVE HInv  OBVIOUS
<1> USE BlockIsNumber DEF Init
<1>1. TypeOK
  <2>1. scanner \in Scanners /\ read \in Number /\ hashing \in Number
        BY DEF Scanners, Number, None
  <2>2. /\ buf \in [Block -> Number] /\ refs \in [Block -> Int]
        /\ content \in [Buffer -> Number] /\ pool \in SUBSET Buffer
        /\ job \in [Worker -> Number] /\ sum \in [Worker -> Number \X Number]
        OBVIOUS
  <2>3. /\ work \in Seq(Block) /\ fileCh \in Seq(Block)
        /\ results \in Seq(Number \X Number) /\ hashed \in Seq(Number)
        BY EmptyFacts
  <2> QED  BY <2>1, <2>2, <2>3 DEF TypeOK
<1>2. ErrorOK  BY DEF ErrorOK, ErrorIsCause
<1>3. /\ Elements(work) = {} /\ Elements(fileCh) = {} /\ Elements(results) = {}
      /\ DOMAIN work = {} /\ DOMAIN fileCh = {} /\ DOMAIN hashed = {}
      /\ Len(hashed) = 0 /\ Len(fileCh) = 0
      BY EmptyFacts DEF Elements
<1>4. ToHash = {} /\ ToSum = {} /\ Held = 0 /\ Filed = 0
      BY <1>3 DEF ToHash, ToSum, Held, Filed
<1>5. FileOK  BY <1>3, <1>4 DEF FileOK, Over
<1>6. WorkOK  BY <1>3, <1>4 DEF WorkOK
<1>7. BufferOK  BY <1>4 DEF BufferOK, FileSide, SumSide
<1>8. Gathered \subseteq {NoSum}  BY <1>3 DEF Gathered
<1>9. ExactOK /\ SentOK /\ CoverOK  BY <1>3, <1>8 DEF ExactOK, SentOK, CoverOK
<1>10. EndOK  BY DEF EndOK, Over
<1> QED  BY <1>1, <1>2, <1>5, <1>6, <1>7, <1>9, <1>10 DEF HInv

\* The invariant holds in every state of every run of chunk.Hash.
THEOREM HashInvariance == Spec => []HInv
<1>1. Init => HInv  BY HashInit
<1>2. HInv /\ [Next]_vars => HInv'
      BY TypeStep, ErrorStep, FileStep, WorkStep, BufferStep, DigestStep, SentStep, EndStep DEF HInv
<1> QED  BY <1>1, <1>2, PTL DEF Spec

\* The reference count never hands a buffer out under a reader (hash.go:69),
\* whatever the number of workers and the depth of the channels.
THEOREM BuffersAreSafe == Spec => []NoReuseUnderReader
<1>1. HInv => NoReuseUnderReader
      BY DEF HInv, BufferOK, FileSide, SumSide, NoReuseUnderReader
<1> QED  BY <1>1, HashInvariance, PTL

\* A Hash that returns no error to a caller that did not cancel has the digest
\* of every chunk, and has hashed the file in order (hash.go:75).
THEOREM SignaturesAreWhole == Spec => []SignatureIsWhole
<1>1. HInv => SignatureIsWhole
  <2> SUFFICES ASSUME HInv, scanner = "returned", firstErr = "none", ~ parent
               PROVE  /\ chunks = {<<b, b>> : b \in Block}
                      /\ WithFileDigest => hashed = [b \in Block |-> b]
      BY DEF SignatureIsWhole
  <2> USE BlockIsNumber
  <2>1. TypeOK /\ ErrorOK /\ FileOK /\ ExactOK /\ CoverOK /\ EndOK  BY DEF HInv
  <2>2. ~ cancelled  BY <2>1 DEF ErrorOK, TypeOK
  <2>3. /\ read = Length /\ exited = Worker /\ work = <<>> /\ results = <<>>
        /\ fileCh = <<>> /\ hashing = None
        BY <2>1, <2>2, HashAssumption DEF EndOK, Over
  <2>4. \A w \in Worker : job[w] = None /\ sum[w] = NoSum  BY <2>1, <2>3 DEF EndOK
  <2>5. SumSide = {}  BY <2>3, <2>4 DEF SumSide, ToSum, Elements
  <2>6. Gathered \ {NoSum} = chunks \ {NoSum}
        BY <2>3, <2>4 DEF Gathered, Elements
  <2>7. \A b \in Block : <<b, b>> # NoSum  BY DEF Block, NoSum, None
  <2>8. NoSum \notin chunks  BY DEF HInv, SentOK
  <2>9. chunks = {<<b, b>> : b \in Block}
        BY <2>1, <2>2, <2>3, <2>5, <2>6, <2>7, <2>8 DEF ExactOK, Exact, CoverOK, Block
  <2>10. ASSUME WithFileDigest PROVE hashed = [b \in Block |-> b]
    <3>1. Filed = Length  BY <2>1, <2>2, <2>3, <2>10 DEF FileOK, Over
    <3>2. Held = 0 /\ Len(fileCh) = 0  BY <2>3, EmptyFacts DEF Held
    <3>3. Len(hashed) = Length  BY <2>1, <3>1, <3>2 DEF Filed, TypeOK
    <3>4. DOMAIN hashed = Block  BY <2>1, <3>3 DEF TypeOK, Block
    <3> QED  BY <2>1, <3>4 DEF FileOK, TypeOK
  <2> QED  BY <2>9, <2>10
<1> QED  BY <1>1, HashInvariance, PTL

\* The error returned is the cause, never the cancellation (fail, hash.go:106).
THEOREM ErrorsAreCauses == Spec => []ErrorIsCause
<1>1. HInv => ErrorIsCause  BY DEF HInv, ErrorOK
<1> QED  BY <1>1, HashInvariance, PTL
=============================================================================
