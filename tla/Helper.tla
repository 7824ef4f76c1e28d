------------------------------- MODULE Helper -------------------------------
(***************************************************************************)
(* A session with a remote destination: the engine's protocol.Client on    *)
(* one side, ssh's pipes, and protocol.Serve in the remote helper on the   *)
(* other, which makes the Receiver calls.  BeginFile and SendChunk are not *)
(* answered, so calls are pipelined and an error comes back late.          *)
(*                                                                         *)
(* A frame is its type.  Only the helper's warnings are in two pieces, the *)
(* header and the payload, because only they are written by goroutines     *)
(* that run at the same time.  What a Receiver call does is left open: it  *)
(* succeeds or fails.                                                      *)
(***************************************************************************)
EXTENDS Integers, Sequences, SequencesExt

CONSTANTS
    Transfers,  \* chunks to send for each file, in order; <<>> for a dry run
    Unreadable, \* destination files that cannot be hashed
    PipeCap,    \* frames a pipe holds beyond those its reader has taken
    MaxFaults   \* bound: interrupted clients and killed helpers

ASSUME HelperAssumption ==
    /\ Transfers \subseteq Seq(Nat)
    /\ PipeCap \in Nat \ {0} /\ MaxFaults \in Nat

\* The frames a transfer sends (engine.go, Run, transfer and sendFile).
FileFrames(n) == <<"file-begin">> \o [i \in 1 .. n |-> "chunk"] \o <<"file-end">>
Script(files) ==
    <<"hello", "plan-req", "manifest">>
      \o IF files = <<>> THEN <<>>
         ELSE FlattenSeq([i \in DOMAIN files |-> FileFrames(files[i])]) \o <<"finish">>

\* The reply each frame is sent for; the others have none.
ReplyTo(f) ==
    CASE f = "hello" -> "hello-ack"
      [] f = "manifest" -> "plan-resp"
      [] f = "file-end" -> "file-result"
      [] f = "finish" -> "summary"
      [] OTHER -> "none"

\* Downwards, a frame or one piece of a warning.
Whole(t) == [type |-> t, part |-> "all", by |-> "none"]
Piece(p, h) == [type |-> "warn", part |-> p, by |-> h]

VARIABLES
    script, sent,   \* the frames of this session, and how many were written
    client, result, \* where the client stands, and what it tells the user
    cbuf, up,       \* the client's buffered writer, the helper's stdin
    closed, gone,   \* stdin has been closed; nobody reads stdout any more
    helper, then,   \* where the helper stands, and where it goes once flushed
    sbuf, down,     \* the helper's buffered writer, its stdout
    warning,        \* goroutines between the header and the payload
    warned,         \* goroutines that have written their warning
    applied,        \* the Receiver calls made, and whether each succeeded
    faults

sending == <<script, sent, client, result, cbuf>>
pipes == <<up, closed, gone, down>>
serving == <<helper, then, sbuf, warning, warned, applied>>
vars == <<sending, pipes, serving, faults>>

-----------------------------------------------------------------------------
(* The client.                                                             *)

NextIs(f) == sent < Len(script) /\ script[sent + 1] = f

\* (Mutant: the end of a file is not flushed.)
MayBufferEnd(f) == f \in {"chunk", "file-end"}

\* A chunk may stay in the buffered writer; every other frame is flushed.
MayBuffer(f) == f = "chunk"

WriteFrame(f) ==
    /\ client = "sending" /\ NextIs(f)
    /\ sent' = sent + 1
    /\ \/ /\ MayBuffer(f)
          /\ cbuf' = Append(cbuf, f) /\ UNCHANGED up
          /\ client' = IF ReplyTo(f) = "none" THEN "sending" ELSE "awaiting"
       \/ /\ up' = (up \o cbuf) \o <<f>> /\ cbuf' = <<>>
          /\ client' = "writing"
    /\ UNCHANGED <<script, result, closed, gone, down, serving, faults>>

\* A write returns once the pipe holds what has not been read.
Written ==
    /\ client = "writing" /\ Len(up) <= PipeCap
    /\ client' = IF ReplyTo(script[sent]) = "none" THEN "sending" ELSE "awaiting"
    /\ UNCHANGED <<script, sent, result, cbuf, pipes, serving, faults>>

\* An error ends the session: a handshake that fails kills the process, any
\* later error closes its stdin and waits for it.
Handshaking == sent = 1
Fails(why) ==
    /\ result' = why
    /\ client' = IF Handshaking THEN "done" ELSE "closing"
    /\ closed' = (closed \/ Handshaking) /\ gone' = (gone \/ Handshaking)
    /\ UNCHANGED <<script, sent, cbuf, up>>

WriteFails ==
    /\ client = "writing" /\ helper = "exited"
    /\ Fails("broken-pipe")
    /\ UNCHANGED <<down, serving, faults>>

\* The source cannot be read or has changed since it was scanned.
SourceFails ==
    /\ client = "sending" /\ NextIs("chunk")
    /\ Fails("source")
    /\ UNCHANGED <<down, serving, faults>>

\* next: a warning is passed on; its payload must be the one announced.
ReceiveWarning ==
    /\ client = "awaiting" /\ Len(down) > 1 /\ down[1].type = "warn"
    /\ down[1].part = "head" /\ down[2] = Piece("body", down[1].by)
    /\ down' = Tail(Tail(down))
    /\ UNCHANGED <<sending, up, closed, gone, serving, faults>>

Garbled ==
    /\ client = "awaiting" /\ Len(down) > 1 /\ down[1].type = "warn"
    /\ down[1].part = "body" \/ down[2] # Piece("body", down[1].by)
    /\ Fails("garbled")
    /\ UNCHANGED <<down, serving, faults>>

Receive ==
    /\ client = "awaiting" /\ down # <<>> /\ Head(down).part = "all"
    /\ down' = Tail(down)
    /\ IF Head(down).type = ReplyTo(script[sent])
         THEN /\ IF sent = Len(script)
                   THEN client' = "closing" /\ result' = "ok"
                   ELSE client' = "sending" /\ UNCHANGED result
              /\ UNCHANGED <<script, sent, cbuf, up, closed, gone>>
         ELSE Fails(Head(down).type)
    /\ UNCHANGED <<serving, faults>>

EndOfReplies ==
    /\ client = "awaiting" /\ helper = "exited"
    /\ down = <<>> \/ (Len(down) = 1 /\ Head(down).part # "all")
    /\ Fails("eof")
    /\ UNCHANGED <<down, serving, faults>>

\* Close: the helper's stdin is closed and its exit waited for.
Close ==
    /\ client = "closing"
    /\ client' = "waiting" /\ closed' = TRUE
    /\ UNCHANGED <<script, sent, result, cbuf, up, gone, down, serving, faults>>

Wait ==
    /\ client = "waiting" /\ helper = "exited"
    /\ client' = "done"
    /\ UNCHANGED <<script, sent, result, cbuf, pipes, serving, faults>>

Frames == {"hello", "plan-req", "manifest", "file-begin", "chunk", "file-end", "finish"}

ClientStep ==
    \/ \E f \in Frames : WriteFrame(f)
    \/ Written \/ WriteFails \/ ReceiveWarning \/ Garbled \/ Receive
    \/ EndOfReplies \/ Close \/ Wait

-----------------------------------------------------------------------------
(* The helper.                                                             *)

Take(f) == up # <<>> /\ Head(up) = f /\ up' = Tail(up)

\* Replies are flushed, with whatever warnings were buffered before them.
Reply(frames, next) ==
    /\ down' = (down \o sbuf) \o frames /\ sbuf' = <<>>
    /\ helper' = "replying" /\ then' = next
    /\ UNCHANGED <<warning, warned, closed, gone>>

\* Any error leaves the loop; Serve reports it and returns.
Refuse(frames) == Reply(frames \o <<Whole("error")>>, "failed")

Did(call, ok) == applied' = Append(applied, [call |-> call, ok |-> ok])

ServeHello ==
    /\ helper = "hello" /\ Take("hello")
    /\ Reply(<<Whole("hello-ack")>>, "loop") \/ Refuse(<<>>)
    /\ UNCHANGED <<sending, applied, faults>>

\* handlePlan: the request, then the manifest, then the Receiver's Plan.
ServePlanRequest ==
    /\ helper = "loop" /\ Take("plan-req")
    /\ \/ helper' = "manifest"
          /\ UNCHANGED <<then, sbuf, down, warning, warned, closed, gone>>
       \/ Refuse(<<>>)
    /\ UNCHANGED <<sending, applied, faults>>

ServeManifest ==
    /\ helper = "manifest" /\ Take("manifest")
    /\ \/ helper' = "planning"
          /\ UNCHANGED <<then, sbuf, down, warning, warned, closed, gone>>
       \/ Refuse(<<>>)
    /\ UNCHANGED <<sending, applied, faults>>

\* warn, from a hashing goroutine: two writes to a buffered writer that has
\* no lock, so a write beside another's may be lost.
WarnHead(h) ==
    /\ helper = "planning" /\ h \notin warned \union warning
    /\ warning' = warning \union {h}
    /\ \/ sbuf' = Append(sbuf, Piece("head", h))
       \/ warning # {} /\ UNCHANGED sbuf
    /\ UNCHANGED <<sending, pipes, helper, then, warned, applied, faults>>

WarnBody(h) ==
    /\ helper = "planning" /\ h \in warning
    /\ warning' = warning \ {h} /\ warned' = warned \union {h}
    /\ \/ sbuf' = Append(sbuf, Piece("body", h))
       \/ warning # {h} /\ UNCHANGED sbuf
    /\ UNCHANGED <<sending, pipes, helper, then, applied, faults>>

Planned ==
    /\ helper = "planning" /\ warning = {}
    /\ \/ Did("manifest", TRUE) /\ Reply(<<Whole("plan-resp")>>, "loop")
       \/ Did("manifest", FALSE) /\ Refuse(<<>>)
    /\ UNCHANGED <<sending, up, faults>>

\* (Mutant: a chunk the Receiver refused is passed over.)
ServeOnRegardless(f) ==
    /\ helper = "loop" /\ Take(f)
    /\ \E ok \in BOOLEAN : Did(f, ok)
    /\ UNCHANGED <<sending, closed, gone, down, helper, then, sbuf, warning,
                   warned, faults>>

\* BeginFile and Chunk are not answered unless they fail.
ServeUnanswered(f) ==
    /\ helper = "loop" /\ Take(f)
    /\ \/ Did(f, TRUE)
          /\ UNCHANGED <<closed, gone, down, helper, then, sbuf, warning, warned>>
       \/ Did(f, FALSE) /\ Refuse(<<>>)
    /\ UNCHANGED <<sending, faults>>

\* Warnings from one goroutine come whole; one stands for any number.
Warnings(h) == {<<>>, <<Piece("head", h), Piece("body", h)>>}

\* EndFile may warn, about a mode it cannot set, before it is answered.
ServeFileEnd ==
    /\ helper = "loop" /\ Take("file-end")
    /\ \E w \in Warnings("end") :
         \/ Did("file-end", TRUE) /\ Reply(w \o <<Whole("file-result")>>, "loop")
         \/ Did("file-end", FALSE) /\ Refuse(w \o <<Whole("file-failed")>>)
    /\ UNCHANGED <<sending, faults>>

\* Finish may warn, about a rename it cannot sync or a file it cannot delete.
ServeFinish ==
    /\ helper = "loop" /\ Take("finish")
    /\ \E w \in Warnings("finish") :
         \/ Did("finish", TRUE) /\ Reply(w \o <<Whole("summary")>>, "exited")
         \/ Did("finish", FALSE) /\ Refuse(w)
    /\ UNCHANGED <<sending, faults>>

\* The client closed stdin: between frames that is a clean end.
EndOfInput ==
    /\ up = <<>> /\ closed
    /\ \/ helper = "loop" /\ helper' = "exited"
          /\ UNCHANGED <<then, sbuf, down, warning, warned, closed, gone>>
       \/ helper \in {"hello", "manifest"} /\ Refuse(<<>>)
    /\ UNCHANGED <<sending, up, applied, faults>>

Flushed ==
    /\ helper = "replying"
    /\ \/ Len(down) <= PipeCap
          /\ helper' = IF then = "failed" THEN "exited" ELSE then
       \/ gone /\ helper' = "exited"
    /\ UNCHANGED <<sending, pipes, then, sbuf, warning, warned, applied, faults>>

\* After an error stdin is read to nowhere, so that the client gets on.
Drain ==
    /\ helper = "replying" /\ then = "failed" /\ up # <<>>
    /\ up' = Tail(up)
    /\ UNCHANGED <<sending, closed, gone, down, serving, faults>>

HelperStep ==
    \/ ServeHello \/ ServePlanRequest \/ ServeManifest \/ Planned
    \/ (\E h \in Unreadable : WarnBody(h))
    \/ (\E f \in {"file-begin", "chunk"} : ServeUnanswered(f))
    \/ ServeFileEnd \/ ServeFinish \/ EndOfInput \/ Flushed

-----------------------------------------------------------------------------
(* Faults: a signal to the client kills ssh; the helper may be killed too. *)

Interrupt ==
    /\ faults < MaxFaults /\ client # "done"
    /\ client' = "done" /\ cbuf' = <<>>
    /\ result' = IF result = "none" THEN "interrupted" ELSE result
    /\ closed' = TRUE /\ gone' = TRUE
    /\ \E n \in 0 .. Len(up) : up' = SubSeq(up, 1, n)
    /\ faults' = faults + 1
    /\ UNCHANGED <<script, sent, down, serving>>

HelperDies ==
    /\ faults < MaxFaults /\ helper # "exited"
    /\ helper' = "exited" /\ sbuf' = <<>>
    /\ \E n \in 0 .. Len(down) : down' = SubSeq(down, 1, n)
    /\ faults' = faults + 1
    /\ UNCHANGED <<sending, up, closed, gone, then, warning, warned, applied>>

Init ==
    /\ script \in {Script(files) : files \in Transfers} /\ sent = 0
    /\ client = "sending" /\ result = "none" /\ cbuf = <<>> /\ up = <<>>
    /\ closed = FALSE /\ gone = FALSE
    /\ helper = "hello" /\ then = "loop" /\ sbuf = <<>> /\ down = <<>>
    /\ warning = {} /\ warned = {} /\ applied = <<>> /\ faults = 0

Next ==
    \/ ClientStep \/ HelperStep \/ Drain \/ SourceFails
    \/ (\E h \in Unreadable : WarnHead(h))
    \/ Interrupt \/ HelperDies

Spec == Init /\ [][Next]_vars

\* Both processes are scheduled, and so is the goroutine that drains stdin.
FairSpec ==
    Spec /\ WF_vars(ClientStep) /\ WF_vars(HelperStep) /\ WF_vars(Drain)

-----------------------------------------------------------------------------
(* Properties.                                                             *)

\* Over a pipe the Receiver is driven as it is in process (local.go:11): it
\* gets the engine's calls in their order and none after one that failed,
\* though later ones are under way by then; and the user is told of success
\* only when every call succeeded.
Calls == SubSeq(script, 3, Len(script)) \* after "hello" and "plan-req"
DrivenAsInProcess ==
    /\ IsPrefix([i \in DOMAIN applied |-> applied[i].call], Calls)
    /\ \A i \in DOMAIN applied : i < Len(applied) => applied[i].ok
    /\ result = "ok" =>
         /\ Len(applied) = Len(Calls)
         /\ \A i \in DOMAIN applied : applied[i].ok

\* "Both ends wait forever" (server.go:38) never happens: whatever fails on
\* either side, the client is done in the end.  A stream whose warnings were
\* garbled is excepted: closing it, the client reads no more, and a helper
\* with more to write waits for it.
SessionEnds == <>(client = "done" \/ result = "garbled")

\* "Warn is a non-fatal message" (protocol.go:135): it never ends a session.
WarningsAreHarmless == result # "garbled"
=============================================================================
