---------------------------- MODULE HashPipeline ----------------------------
(***************************************************************************)
(* chunk.Hash: one goroutine cuts the stream into chunks and copies each   *)
(* into a pooled buffer; the file hasher and a pool of workers read it,    *)
(* whoever is last gives the buffer back; a collector gathers the chunk    *)
(* digests.  A sink may fail, the reader may fail and the caller may       *)
(* cancel at any moment.                                                   *)
(*                                                                         *)
(* Chunk i of the stream is the number i, and so is its digest: a wrong    *)
(* digest is the digest of other bytes.  Queued blocks are chunk numbers.  *)
(***************************************************************************)
EXTENDS Integers, Sequences, FiniteSets

CONSTANTS
    Length,         \* chunks in the stream
    Worker,         \* chunk digest workers
    Depth,          \* capacity of each channel; twice the workers in the code
    WithFileDigest, \* whether the whole-file digest is wanted
    WithSink        \* whether a sink observes the chunks, and may fail

ASSUME HashAssumption ==
    /\ Length \in Nat /\ Depth \in Nat \ {0}
    /\ IsFiniteSet(Worker) /\ Worker # {}
    /\ WithFileDigest \in BOOLEAN /\ WithSink \in BOOLEAN

Block == 1 .. Length
Buffer == 1 .. Length   \* a stream of Length chunks allocates no more
None == 0
NoSum == <<None, None>>

VARIABLES
    scanner,                \* where the scanning goroutine stands
    read,                   \* chunks read so far
    buf, refs,              \* each block's buffer and reference count
    content,                \* the chunk each buffer holds
    pool,                   \* buffers to be used again
    work, fileCh, results,  \* the channels
    job, sum,               \* each worker's block, or the digest it is sending
    exited,                 \* workers that have returned
    hashing, hashed,        \* the file hasher's block and what it has hashed
    chunks,                 \* what the collector has gathered
    firstErr, cancelled,    \* the error that is returned, and ctx
    parent                  \* whether the caller cancelled its own context

buffers == <<buf, refs, content, pool>>
channels == <<work, fileCh, results>>
workers == <<job, sum, exited>>
outputs == <<hashing, hashed, chunks>>
errors == <<firstErr, cancelled, parent>>
vars == <<scanner, read, buffers, channels, workers, outputs, errors>>

\* (Mutant: a later error replaces the first.)
FailAgain(e) == firstErr' = e /\ cancelled' = TRUE /\ UNCHANGED parent

Fail(e) ==
    /\ IF firstErr = "none" THEN firstErr' = e /\ cancelled' = TRUE
                            ELSE UNCHANGED <<firstErr, cancelled>>
    /\ UNCHANGED parent

Release(b) ==
    /\ refs' = [refs EXCEPT ![b] = @ - 1]
    /\ pool' = IF refs[b] = 1 THEN pool \union {buf[b]} ELSE pool
    /\ UNCHANGED <<buf, content>>

-----------------------------------------------------------------------------
(* The scanner.                                                            *)

Stop ==
    /\ scanner' = "closed"
    /\ UNCHANGED <<read, buffers, channels, workers, outputs>>

\* A pooled buffer, or a new one.  Buffers are alike: the lowest will do.
Lowest(S) == {b \in S : \A c \in S : b <= c}
Get == Lowest(pool) \union Lowest(Buffer \ {buf[i] : i \in 1 .. read})

\* (Mutant: one reader is counted, two read.)
OneReader == 1
Readers == IF WithFileDigest THEN 2 ELSE 1

ReadChunk ==
    /\ scanner = "next" /\ ~ cancelled /\ read < Length
    /\ read' = read + 1
    /\ \E b \in Get :
         /\ buf' = [buf EXCEPT ![read'] = b]
         /\ content' = [content EXCEPT ![b] = read']
         /\ pool' = pool \ {b}
    /\ refs' = [refs EXCEPT ![read'] = Readers]
    /\ scanner' = IF WithFileDigest THEN "file" ELSE "work"
    /\ UNCHANGED <<channels, workers, outputs, errors>>

EndOfStream ==
    /\ scanner = "next" /\ ~ cancelled /\ read = Length
    /\ Stop /\ UNCHANGED errors

ReadFails ==
    /\ scanner = "next" /\ ~ cancelled
    /\ Stop /\ Fail("read")

SendToFile ==
    /\ scanner = "file" /\ Len(fileCh) < Depth
    /\ fileCh' = Append(fileCh, read)
    /\ scanner' = "work"
    /\ UNCHANGED <<read, buffers, work, results, workers, outputs, errors>>

SendToWork ==
    /\ scanner = "work" /\ Len(work) < Depth
    /\ work' = Append(work, read)
    /\ scanner' = "next"
    /\ UNCHANGED <<read, buffers, fileCh, results, workers, outputs, errors>>

\* (Mutant: a full work channel is waited for, cancelled or not.)
CancelUnnoticedByWork ==
    /\ cancelled
    /\ \/ scanner \in {"next", "file"} /\ Fail("cancelled")
       \/ scanner = "next" /\ read > 0 /\ UNCHANGED errors
    /\ Stop

\* ctx.Done is seen by a select, which records ctx.Err, or by one of the
\* checks after a send, which just leave the loop.
CancelNoticed ==
    /\ cancelled
    /\ \/ scanner \in {"next", "file", "work"} /\ Fail("cancelled")
       \/ scanner = "work" /\ UNCHANGED errors
       \/ scanner = "next" /\ read > 0 /\ UNCHANGED errors
    /\ Stop

\* (Mutant: the collector is not waited for.)
ReturnUncollected ==
    /\ scanner = "closed"
    /\ exited = Worker /\ fileCh = <<>> /\ hashing = None
    /\ scanner' = "returned"
    /\ UNCHANGED <<read, buffers, channels, workers, outputs, errors>>

\* The workers first, then the collector and the file hasher are waited for.
Return ==
    /\ scanner = "closed"
    /\ exited = Worker /\ results = <<>> /\ fileCh = <<>> /\ hashing = None
    /\ scanner' = "returned"
    /\ UNCHANGED <<read, buffers, channels, workers, outputs, errors>>

Scan ==
    \/ ReadChunk \/ EndOfStream \/ ReadFails \/ SendToFile \/ SendToWork
    \/ CancelNoticed \/ Return

-----------------------------------------------------------------------------
(* The file hasher, the workers and the collector.                         *)

TakeToHash ==
    /\ hashing = None /\ fileCh # <<>>
    /\ hashing' = Head(fileCh) /\ fileCh' = Tail(fileCh)
    /\ UNCHANGED <<scanner, read, buffers, work, results, workers, hashed,
                   chunks, errors>>

HashBlock ==
    /\ hashing # None
    /\ hashed' = Append(hashed, content[buf[hashing]])
    /\ Release(hashing)
    /\ hashing' = None
    /\ UNCHANGED <<scanner, read, channels, workers, chunks, errors>>

HashFile == TakeToHash \/ HashBlock

Idle(w) == w \notin exited /\ job[w] = None /\ sum[w] = NoSum

TakeWork(w) ==
    /\ Idle(w) /\ work # <<>>
    /\ job' = [job EXCEPT ![w] = Head(work)]
    /\ work' = Tail(work)
    /\ UNCHANGED <<scanner, read, buffers, fileCh, results, sum, exited,
                   outputs, errors>>

\* A worker's result: the chunk's number and the digest of what it read.
Sum(w) ==
    /\ job[w] # None
    /\ sum' = [sum EXCEPT ![w] = <<job[w], content[buf[job[w]]]>>]
    /\ job' = [job EXCEPT ![w] = None]
    /\ Release(job[w])
    /\ UNCHANGED <<scanner, read, channels, exited, outputs, errors>>

SinkFails(w) ==
    /\ WithSink /\ job[w] # None
    /\ Fail("sink")
    /\ job' = [job EXCEPT ![w] = None]
    /\ Release(job[w])
    /\ UNCHANGED <<scanner, read, channels, sum, exited, outputs>>

SendResult(w) ==
    /\ sum[w] # NoSum /\ Len(results) < Depth
    /\ results' = Append(results, sum[w])
    /\ sum' = [sum EXCEPT ![w] = NoSum]
    /\ UNCHANGED <<scanner, read, buffers, work, fileCh, job, exited, outputs,
                   errors>>

\* A worker leaves when the work is over, or is cancelled with its result.
Leave(w) ==
    /\ \/ Idle(w) /\ scanner = "closed" /\ work = <<>>
       \/ sum[w] # NoSum /\ cancelled
    /\ exited' = exited \union {w}
    /\ sum' = [sum EXCEPT ![w] = NoSum]
    /\ UNCHANGED <<scanner, read, buffers, channels, job, outputs, errors>>

Work(w) == TakeWork(w) \/ Sum(w) \/ SinkFails(w) \/ SendResult(w) \/ Leave(w)

Collect ==
    /\ results # <<>>
    /\ chunks' = chunks \union {Head(results)}
    /\ results' = Tail(results)
    /\ UNCHANGED <<scanner, read, buffers, work, fileCh, workers, hashing,
                   hashed, errors>>

CallerCancels ==
    /\ ~ parent /\ scanner # "returned"
    /\ parent' = TRUE /\ cancelled' = TRUE
    /\ UNCHANGED <<scanner, read, buffers, channels, workers, outputs, firstErr>>

-----------------------------------------------------------------------------
Init ==
    /\ scanner = "next" /\ read = 0
    /\ buf = [b \in Block |-> None] /\ refs = [b \in Block |-> 0]
    /\ content = [b \in Buffer |-> None] /\ pool = {}
    /\ work = <<>> /\ fileCh = <<>> /\ results = <<>>
    /\ job = [w \in Worker |-> None] /\ sum = [w \in Worker |-> NoSum]
    /\ exited = {} /\ hashing = None /\ hashed = <<>> /\ chunks = {}
    /\ firstErr = "none" /\ cancelled = FALSE /\ parent = FALSE

Next == Scan \/ HashFile \/ (\E w \in Worker : Work(w)) \/ Collect \/ CallerCancels

Spec == Init /\ [][Next]_vars

\* The runtime schedules every goroutine that can run, and a read returns.
FairSpec ==
    /\ Spec
    /\ WF_vars(Scan) /\ WF_vars(HashFile) /\ WF_vars(Collect)
    /\ \A w \in Worker : WF_vars(Work(w))

-----------------------------------------------------------------------------
(* Properties.                                                             *)

\* Blocks somebody has still to read.
Elements(q) == {q[i] : i \in DOMAIN q}
ToHash == (Elements(fileCh) \union {hashing}) \ {None}
ToSum == (Elements(work) \union {job[w] : w \in Worker}) \ {None}

\* A buffer is in the pool, or holds the chunk of each block that still has
\* to be hashed or summed from it: the reference count (hash.go:69) never
\* hands a buffer out again under a reader.
NoReuseUnderReader ==
    \A b \in ToHash \union ToSum : buf[b] \notin pool /\ content[buf[b]] = b

\* When Hash returns no error and the caller, which checks its context
\* afterwards (plan.go:142, scan.go:251), has not cancelled, the signature
\* has every chunk with its own digest and the file digest covers the chunks
\* in order (hash.go:75).  A cancelled Hash may return a part and no error.
SignatureIsWhole ==
    scanner = "returned" /\ firstErr = "none" /\ ~ parent =>
        /\ chunks = {<<b, b>> : b \in Block}
        /\ WithFileDigest => hashed = [b \in Block |-> b]

\* The error returned is the cause and never the cancellation it triggered
\* (fail, hash.go:106).
ErrorIsCause == firstErr = "cancelled" => parent

\* Whatever fails and whenever the caller cancels, Hash returns: no goroutine
\* waits forever on a channel nobody serves.
Returns == <>(scanner = "returned")
=============================================================================
