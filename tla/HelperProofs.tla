---------------------------- MODULE HelperProofs ----------------------------
(***************************************************************************)
(* The Receiver behind a pipe is driven as it is in process, for any files *)
(* and any capacity of the pipes, and however often the client is          *)
(* interrupted or the helper killed.                                       *)
(***************************************************************************)
EXTENDS Helper, TLAPS, WellFoundedInduction, SequenceTheorems

-----------------------------------------------------------------------------
(* Induction over the natural numbers, for a set of them.                  *)

LEMMA LeastMember ==
    ASSUME NEW T \in SUBSET Nat, T # {}
    PROVE  \E n \in T : \A k \in T : n <= k
<1> DEFINE R == OpToRel(<, Nat)
<1>1. IsWellFoundedOn(R, Nat)  BY NatLessThanWellFounded
<1> HIDE DEF R
<1>2. PICK n \in T : \A k \in T : ~ (<<k, n>> \in R)  BY <1>1, WFMin
<1>3. \A k \in T : k < n => <<k, n>> \in R  BY DEF R, OpToRel
<1>4. ASSUME NEW k \in T PROVE n <= k
  <2>1. k \in Nat /\ n \in Nat  OBVIOUS
  <2>2. ~ (k < n)  BY <1>2, <1>3
  <2> QED  BY <2>1, <2>2
<1> QED  BY <1>4

LEMMA SetInduction ==
    ASSUME NEW S \in SUBSET Nat, 0 \in S, \A n \in S : n + 1 \in S
    PROVE  S = Nat
<1>1. CASE Nat \ S # {}
  <2>1. PICK n \in Nat \ S : \A k \in Nat \ S : n <= k  BY <1>1, LeastMember
  <2>2. n # 0  BY <2>1
  <2>3. n - 1 \in S  BY <2>1, <2>2
  <2> QED  BY <2>1, <2>3
<1> QED  BY <1>1

-----------------------------------------------------------------------------
(* FlattenSeq: sequences over A one after the other.                       *)

\* The joined sequences up to the i-th, as FlattenSeq computes them.
Joins(f, seqs, n) ==
    f = [i \in 1 .. n |-> IF i = 1 THEN seqs[i] ELSE f[i - 1] \o seqs[i]]

LEMMA JoinsExist ==
    ASSUME NEW A, NEW seqs \in Seq(Seq(A))
    PROVE  \A n \in 1 .. Len(seqs) : \E f : Joins(f, seqs, n)
<1> DEFINE S == {n \in Nat : n \in 1 .. Len(seqs) => \E f : Joins(f, seqs, n)}
<1>1. 0 \in S  OBVIOUS
<1>2. ASSUME NEW n \in S PROVE n + 1 \in S
  <2>1. CASE n + 1 = 1
    <3>1. Joins([i \in 1 .. 1 |-> seqs[i]], seqs, 1)  BY DEF Joins
    <3> QED  BY <2>1, <3>1
  <2>2. CASE n + 1 # 1 /\ n + 1 \in 1 .. Len(seqs)
    <3>1. n \in Nat /\ n \in 1 .. Len(seqs)  BY <2>2
    <3>2. PICK f : Joins(f, seqs, n)  BY <3>1
    <3> DEFINE g == [i \in 1 .. n + 1 |-> IF i = n + 1 THEN f[n] \o seqs[i] ELSE f[i]]
    <3>3. ASSUME NEW i \in 1 .. n + 1
          PROVE  g[i] = IF i = 1 THEN seqs[i] ELSE g[i - 1] \o seqs[i]
      <4>1. CASE i = n + 1
        <5>1. g[n] = f[n] /\ i # 1 /\ i - 1 = n  BY <3>1, <4>1, <2>2
        <5> QED  BY <4>1, <5>1
      <4>2. CASE i # n + 1
        <5>1. i \in 1 .. n /\ (i # 1 => i - 1 \in 1 .. n)  BY <3>1, <4>2
        <5>2. f[i] = IF i = 1 THEN seqs[i] ELSE f[i - 1] \o seqs[i]
              BY <3>2, <5>1 DEF Joins
        <5> QED  BY <3>1, <5>1, <5>2
      <4> QED  BY <4>1, <4>2
    <3>4. Joins(g, seqs, n + 1)  BY <3>3 DEF Joins
    <3> QED  BY <3>1, <3>4
  <2> QED  BY <2>1, <2>2
<1> HIDE DEF S
<1>3. S = Nat  BY <1>1, <1>2, SetInduction DEF S
<1> QED  BY <1>3 DEF S

LEMMA JoinsTyped ==
    ASSUME NEW A, NEW seqs \in Seq(Seq(A)), NEW f, Joins(f, seqs, Len(seqs))
    PROVE  \A n \in 1 .. Len(seqs) : f[n] \in Seq(A)
<1> DEFINE S == {n \in Nat : n \in 1 .. Len(seqs) => f[n] \in Seq(A)}
<1>1. 0 \in S  OBVIOUS
<1>2. ASSUME NEW n \in S PROVE n + 1 \in S
  <2>1. n \in Nat  OBVIOUS
  <2>2. ASSUME n + 1 \in 1 .. Len(seqs) PROVE f[n + 1] \in Seq(A)
    <3>1. seqs[n + 1] \in Seq(A)  BY <2>2
    <3>2. f[n + 1] = IF n + 1 = 1 THEN seqs[n + 1] ELSE f[(n + 1) - 1] \o seqs[n + 1]
          BY <2>2 DEF Joins
    <3>3. n + 1 # 1 => n \in 1 .. Len(seqs) /\ (n + 1) - 1 = n  BY <2>1, <2>2
    <3> QED  BY <3>1, <3>2, <3>3
  <2> QED  BY <2>1, <2>2
<1> HIDE DEF S
<1>3. S = Nat  BY <1>1, <1>2, SetInduction DEF S
<1> QED  BY <1>3 DEF S

LEMMA FlattenTyped ==
    ASSUME NEW A, NEW seqs \in Seq(Seq(A)), seqs # <<>>
    PROVE  FlattenSeq(seqs) \in Seq(A)
<1> DEFINE n == Len(seqs)
           f == CHOOSE g : Joins(g, seqs, n)
<1>1. n \in 1 .. n /\ Len(seqs) # 0  OBVIOUS
<1>2. Joins(f, seqs, n)  BY <1>1, JoinsExist
<1>3. f[n] \in Seq(A)  BY <1>1, <1>2, JoinsTyped
<1>4. FlattenSeq(seqs) = f[n]  BY <1>1 DEF FlattenSeq, Joins
<1> QED  BY <1>3, <1>4

-----------------------------------------------------------------------------
(* The frames of a session: greeting, plan, files, and at last the finish. *)

Body == {"file-begin", "chunk", "file-end"}

Session(s) ==
    /\ s \in Seq(Frames) /\ Len(s) >= 3
    /\ s[1] = "hello" /\ s[2] = "plan-req" /\ s[3] = "manifest"
    /\ \A i \in 4 .. Len(s) : s[i] \in Body \union {"finish"}
    /\ \A i \in 4 .. Len(s) : s[i] = "finish" <=> i = Len(s)

LEMMA FileFramesTyped ==
    ASSUME NEW n \in Nat
    PROVE  FileFrames(n) \in Seq(Body)
<1>1. <<"file-begin">> \in Seq(Body) /\ <<"file-end">> \in Seq(Body)
      BY DEF Body
<1>2. [i \in 1 .. n |-> "chunk"] \in Seq(Body)
  <2>1. [i \in 1 .. n |-> "chunk"] \in [1 .. n -> Body]  BY DEF Body
  <2> QED  BY <2>1 DEF Seq
<1> QED  BY <1>1, <1>2 DEF FileFrames

LEMMA BodyMakesSession ==
    ASSUME NEW body \in Seq(Body)
    PROVE  Session(<<"hello", "plan-req", "manifest">> \o (body \o <<"finish">>))
<1> DEFINE head == <<"hello", "plan-req", "manifest">>
           rest == body \o <<"finish">>
           all == head \o rest
           n == Len(body)
<1>1. body \in Seq(Frames) /\ <<"finish">> \in Seq(Frames)
  <2>1. Body \subseteq Frames  BY DEF Body, Frames
  <2>2. <<"finish">> \in Seq(Frames)  BY DEF Frames
  <2> QED  BY <2>1, <2>2
<1>2. rest \in Seq(Frames) /\ Len(rest) = n + 1 /\ n \in Nat  BY <1>1
<1>3. \A i \in 1 .. n : rest[i] = body[i]  BY <1>1
<1>4. rest[n + 1] = "finish"  BY <1>1
<1>5. /\ head \in Seq(Frames) /\ Len(head) = 3
      /\ head[1] = "hello" /\ head[2] = "plan-req" /\ head[3] = "manifest"
      BY DEF Frames
<1> HIDE DEF head, rest
<1> HIDE DEF all
<1>0. /\ all \in Seq(Frames) /\ Len(all) = 3 + (n + 1)
      /\ \A i \in 1 .. 3 + (n + 1) : all[i] = IF i <= 3 THEN head[i] ELSE rest[i - 3]
  <2>1. head \in Seq(Frames) /\ rest \in Seq(Frames)  BY <1>2, <1>5
  <2>2. /\ head \o rest \in Seq(Frames) /\ Len(head \o rest) = Len(head) + Len(rest)
        /\ \A i \in 1 .. Len(head) + Len(rest) :
              (head \o rest)[i] = IF i <= Len(head) THEN head[i] ELSE rest[i - Len(head)]
        BY <2>1, ConcatProperties
  <2>3. Len(head) = 3 /\ Len(rest) = n + 1  BY <1>2, <1>5
  <2>4. all = head \o rest  BY DEF all
  <2> HIDE DEF n
  <2> QED  BY <2>2, <2>3, <2>4
<1>6. all \in Seq(Frames) /\ Len(all) = 4 + n  BY <1>0, <1>2
<1>7. all[1] = "hello" /\ all[2] = "plan-req" /\ all[3] = "manifest"  BY <1>0, <1>2, <1>5
<1>8. \A i \in 4 .. 4 + n : all[i] = rest[i - 3]  BY <1>0, <1>2
<1>9. ASSUME NEW i \in 4 .. 4 + n
      PROVE  all[i] \in Body \union {"finish"} /\ (all[i] = "finish" <=> i = 4 + n)
  <2>1. CASE i = 4 + n
    <3>1. i - 3 = n + 1  BY <1>2, <2>1
    <3> QED  BY <1>4, <1>8, <2>1, <3>1
  <2>2. CASE i # 4 + n
    <3>1. i - 3 \in 1 .. n  BY <1>2, <2>2
    <3>2. all[i] \in Body  BY <1>3, <1>8, <3>1
    <3> QED  BY <2>2, <3>2 DEF Body
  <2> QED  BY <2>1, <2>2
<1> HIDE DEF n
<1>10. Session(all)  BY <1>2, <1>6, <1>7, <1>9 DEF Session
<1> QED  BY <1>10 DEF all, head, rest

LEMMA ScriptIsSession ==
    ASSUME NEW files \in Seq(Nat)
    PROVE  Session(Script(files))
<1> DEFINE head == <<"hello", "plan-req", "manifest">>
           each == [i \in DOMAIN files |-> FileFrames(files[i])]
<1>1. CASE files = <<>>
  <2>1. Script(files) = head \o <<>>  BY <1>1 DEF Script
  <2>2. head \o <<>> = head  OBVIOUS
  <2>3. head \in Seq(Frames)  BY DEF Frames
  <2> QED  BY <2>1, <2>2, <2>3 DEF Session
<1>2. CASE files # <<>>
  <2>1. each \in Seq(Seq(Body)) /\ each # <<>>
    <3>1. \A i \in 1 .. Len(files) : FileFrames(files[i]) \in Seq(Body)
      <4>1. \A i \in 1 .. Len(files) : files[i] \in Nat  BY ElementOfSeq
      <4> QED  BY <4>1, FileFramesTyped
    <3>2. each \in [1 .. Len(files) -> Seq(Body)]  BY <3>1
    <3>3. Len(files) \in Nat /\ Len(files) # 0  BY <1>2
    <3>4. each \in Seq(Seq(Body))  BY <3>2, <3>3 DEF Seq
    <3>5. Len(each) = Len(files)  BY <3>2, <3>3
    <3> QED  BY <3>3, <3>4, <3>5
  <2>2. FlattenSeq(each) \in Seq(Body)  BY <2>1, FlattenTyped
  <2>3. Script(files) = head \o (FlattenSeq(each) \o <<"finish">>)
        BY <1>2 DEF Script
  <2> HIDE DEF each
  <2> QED  BY <2>2, <2>3, BodyMakesSession
<1> QED  BY <1>1, <1>2

-----------------------------------------------------------------------------
(* The invariant.                                                          *)

Answers == [type : {"hello-ack", "plan-resp", "file-result", "file-failed",
                    "summary", "error"},
            part : {"all"}, by : {"none"}]
Pieces == [type : {"warn"}, part : {"head", "body"}, by : Unreadable \union {"end", "finish"}]

SessionTyped ==
    /\ Session(script) /\ sent \in 0 .. Len(script)
    /\ client \in {"sending", "writing", "awaiting", "closing", "waiting", "done"}
    /\ cbuf \in Seq(Frames) /\ up \in Seq(Frames)
    /\ helper \in {"hello", "loop", "manifest", "planning", "replying", "exited"}
    /\ then \in {"loop", "failed", "exited"}
    /\ sbuf \in Seq(Pieces) /\ down \in Seq(Answers \union Pieces)
    /\ applied \in Seq([call : Frames, ok : BOOLEAN])

\* Where the helper goes on, and the frames it has taken to get there.
Goes == IF helper = "replying" THEN then ELSE helper
Serving == Goes \in {"hello", "loop", "manifest", "planning"}
Taken ==
    CASE Goes = "hello" -> 0
      [] Goes = "manifest" -> 2
      [] Goes = "planning" -> 3
      [] OTHER -> IF applied = <<>> THEN 1 ELSE Len(applied) + 2

\* What is under way is what the helper has not taken yet, in order.
FlowOK ==
    Serving =>
        /\ Taken + Len(up) <= sent
        /\ \A i \in 1 .. Len(up) : up[i] = script[Taken + i]
        /\ client # "done" =>
             /\ Taken + Len(up) + Len(cbuf) = sent
             /\ \A i \in 1 .. Len(cbuf) : cbuf[i] = script[Taken + Len(up) + i]

\* The calls are the session's, and only the last of them may have failed.
CallsOK ==
    /\ Len(applied) + 2 <= Len(script)
    /\ \A i \in 1 .. Len(applied) : applied[i].call = script[i + 2]
    /\ \A i \in 1 .. Len(applied) : i < Len(applied) \/ Serving => applied[i].ok
    /\ Goes \in {"hello", "manifest", "planning"} => applied = <<>>

Complete ==
    /\ Len(applied) + 2 = Len(script)
    /\ \A i \in 1 .. Len(applied) : applied[i].ok

PlanDone == Len(applied) >= 1 /\ applied[1].ok

\* A reply says that what it answers was done; so does the user's result.
AnswersOK ==
    \A i \in 1 .. Len(down) :
        /\ down[i].type = "plan-resp" => PlanDone
        /\ down[i].type = "summary" => Complete

ResultOK == result = "ok" => Complete

IInv == SessionTyped /\ FlowOK /\ CallsOK /\ AnswersOK /\ ResultOK

LEMMA InitIsFine ==
    ASSUME Init
    PROVE  IInv
<1>1. PICK files \in Transfers : script = Script(files)  BY DEF Init
<1>2. Session(script)  BY <1>1, HelperAssumption, ScriptIsSession
<1>3. Len(script) \in Nat /\ Len(script) >= 3  BY <1>2 DEF Session
<1>4. SessionTyped  BY <1>2, <1>3 DEF Init, SessionTyped
<1>5. Goes = "hello" /\ Taken = 0  BY DEF Init, Goes, Taken
<1>6. FlowOK  BY <1>5 DEF Init, FlowOK
<1> QED  BY <1>3, <1>4, <1>6 DEF Init, IInv, CallsOK, AnswersOK, ResultOK

\* The client's frames, buffered or not, follow those that went before.
LEMMA WritingIsFine ==
    ASSUME IInv, NEW f \in Frames, WriteFrame(f)
    PROVE  IInv'
<1>1. /\ client = "sending" /\ sent < Len(script) /\ script[sent + 1] = f
      /\ sent' = sent + 1 /\ client' \in {"sending", "writing", "awaiting"}
      /\ UNCHANGED <<script, result, down, serving>>
      BY DEF WriteFrame, NextIs
<1>2. /\ SessionTyped /\ CallsOK /\ AnswersOK /\ ResultOK /\ FlowOK
      /\ Len(script) \in Nat /\ sent \in Nat
      BY DEF IInv, SessionTyped, Session
<1>3. /\ Goes' = Goes /\ Serving' = Serving /\ Taken' = Taken
      /\ Complete' = Complete /\ PlanDone' = PlanDone
      BY <1>1 DEF serving, Goes, Serving, Taken, Complete, PlanDone
<1>4. CallsOK' /\ AnswersOK' /\ ResultOK'
      BY <1>1, <1>2, <1>3 DEF CallsOK, AnswersOK, ResultOK, serving
<1>5. cbuf \in Seq(Frames) /\ up \in Seq(Frames) /\ Len(cbuf) \in Nat /\ Len(up) \in Nat
      BY <1>2 DEF SessionTyped
<1>6. Taken \in Nat  BY <1>2 DEF Taken, SessionTyped
<1>7. CASE cbuf' = Append(cbuf, f) /\ up' = up
  <2>1. /\ cbuf' \in Seq(Frames) /\ Len(cbuf') = Len(cbuf) + 1
        /\ \A i \in 1 .. Len(cbuf) : cbuf'[i] = cbuf[i]
        /\ cbuf'[Len(cbuf) + 1] = f
        BY <1>5, <1>7
  <2>2. ASSUME Serving
        PROVE  /\ Taken + Len(up) <= sent'
               /\ \A i \in 1 .. Len(up) : up[i] = script[Taken + i]
               /\ Taken + Len(up) + Len(cbuf') = sent'
               /\ \A i \in 1 .. Len(cbuf') : cbuf'[i] = script[Taken + Len(up) + i]
    <3>1. /\ Taken + Len(up) + Len(cbuf) = sent
          /\ \A i \in 1 .. Len(up) : up[i] = script[Taken + i]
          /\ \A i \in 1 .. Len(cbuf) : cbuf[i] = script[Taken + Len(up) + i]
          BY <1>1, <1>2, <2>2 DEF FlowOK
    <3>2. Taken + Len(up) + (Len(cbuf) + 1) = sent + 1  BY <1>5, <1>6, <3>1
    <3>3. ASSUME NEW i \in 1 .. Len(cbuf) + 1
          PROVE  cbuf'[i] = script[Taken + Len(up) + i]
      <4>1. CASE i = Len(cbuf) + 1  BY <1>1, <2>1, <3>2, <4>1
      <4>2. CASE i # Len(cbuf) + 1
        <5>1. i \in 1 .. Len(cbuf)  BY <1>5, <4>2
        <5> QED  BY <2>1, <3>1, <5>1
      <4> QED  BY <4>1, <4>2
    <3>4. Taken + Len(up) <= sent + 1  BY <1>5, <1>6, <3>2
    <3> QED  BY <1>1, <2>1, <3>1, <3>2, <3>3, <3>4
  <2>3. SessionTyped'  BY <1>1, <1>2, <1>7, <2>1 DEF SessionTyped, serving
  <2>4. FlowOK'  BY <1>1, <1>3, <1>7, <2>2 DEF FlowOK
  <2> QED  BY <1>4, <2>3, <2>4 DEF IInv
<1>8. CASE up' = (up \o cbuf) \o <<f>> /\ cbuf' = <<>>
  <2> DEFINE all == up \o cbuf
  <2>1. /\ all \in Seq(Frames) /\ Len(all) = Len(up) + Len(cbuf)
        /\ \A i \in 1 .. Len(up) + Len(cbuf) :
              all[i] = IF i <= Len(up) THEN up[i] ELSE cbuf[i - Len(up)]
        BY <1>5, ConcatProperties
  <2>2. up' = all \o <<f>>  BY <1>8
  <2> HIDE DEF all
  <2>3. /\ up' \in Seq(Frames) /\ Len(up') = Len(all) + 1
        /\ \A i \in 1 .. Len(all) : up'[i] = all[i]
        /\ up'[Len(all) + 1] = f
    <3> DEFINE last == <<f>>
    <3>1. last \in Seq(Frames) /\ Len(last) = 1 /\ last[1] = f  OBVIOUS
    <3>0. all \in Seq(Frames)  BY <2>1
    <3> HIDE DEF last
    <3>2. /\ all \o last \in Seq(Frames) /\ Len(all \o last) = Len(all) + Len(last)
          /\ \A i \in 1 .. Len(all) + Len(last) :
                (all \o last)[i] = IF i <= Len(all) THEN all[i] ELSE last[i - Len(all)]
          BY <3>0, <3>1, ConcatProperties
    <3>3. Len(all) \in Nat /\ (Len(all) + 1) - Len(all) = 1  BY <1>5, <2>1
    <3>4. up' = all \o last  BY <2>2 DEF last
    <3> QED  BY <3>1, <3>2, <3>3, <3>4
  <2>4. ASSUME Serving
        PROVE  /\ Taken + Len(up') = sent'
               /\ \A i \in 1 .. Len(up') : up'[i] = script[Taken + i]
    <3>1. /\ Taken + Len(up) + Len(cbuf) = sent
          /\ \A i \in 1 .. Len(up) : up[i] = script[Taken + i]
          /\ \A i \in 1 .. Len(cbuf) : cbuf[i] = script[Taken + Len(up) + i]
          BY <1>1, <1>2, <2>4 DEF FlowOK
    <3>2. Taken + Len(up') = sent + 1  BY <1>5, <1>6, <2>1, <2>3, <3>1
    <3>3. ASSUME NEW i \in 1 .. Len(up') PROVE up'[i] = script[Taken + i]
      <4>1. CASE i = Len(all) + 1
        <5>1. Taken + i = sent + 1  BY <1>5, <1>6, <2>1, <3>1, <4>1
        <5> QED  BY <1>1, <2>3, <4>1, <5>1
      <4>2. CASE i <= Len(up)
        <5>1. i \in 1 .. Len(up) /\ i \in 1 .. Len(all)  BY <1>5, <2>1, <4>2
        <5> QED  BY <2>1, <2>3, <3>1, <4>2, <5>1
      <4>3. CASE ~ (i <= Len(up)) /\ i # Len(all) + 1
        <5>1. i \in 1 .. Len(all) /\ i - Len(up) \in 1 .. Len(cbuf)
              BY <1>5, <2>1, <2>3, <4>3
        <5>2. Taken + Len(up) + (i - Len(up)) = Taken + i  BY <1>5, <1>6
        <5> QED  BY <2>1, <2>3, <3>1, <4>3, <5>1, <5>2
      <4> QED  BY <4>1, <4>2, <4>3
    <3> QED  BY <1>1, <3>2, <3>3
  <2>5. SessionTyped'  BY <1>1, <1>2, <1>8, <2>3 DEF SessionTyped, serving
  <2>6. FlowOK'
    <3>1. ASSUME Serving
          PROVE  Taken + Len(up') + Len(cbuf') = sent' /\ Taken + Len(up') <= sent'
      <4>1. Len(cbuf') = 0  BY <1>8
      <4>2. Len(up') \in Nat  BY <2>3
      <4>3. Taken + Len(up') = sent'  BY <2>4, <3>1
      <4> QED  BY <1>6, <4>1, <4>2, <4>3
    <3>2. \A i \in 1 .. Len(cbuf') : FALSE  BY <1>8
    <3> QED  BY <1>1, <1>3, <2>4, <3>1, <3>2 DEF FlowOK
  <2> QED  BY <1>4, <2>5, <2>6 DEF IInv
<1> QED  BY <1>7, <1>8 DEF WriteFrame

\* Whatever else the client does, it adds nothing to what is under way and
\* takes replies from the front.
LEMMA ClientIsFine ==
    ASSUME IInv, client # "done",
           client' \in {"sending", "writing", "awaiting", "closing", "waiting", "done"},
           UNCHANGED <<script, sent, cbuf, up, serving>>,
           down' = down \/ (down # <<>> /\ down' = Tail(down))
             \/ (Len(down) > 1 /\ down' = Tail(Tail(down))),
           result' = "ok" => Complete
    PROVE  IInv'
<1>1. SessionTyped /\ CallsOK /\ AnswersOK /\ ResultOK /\ FlowOK  BY DEF IInv
<1>2. /\ Goes' = Goes /\ Serving' = Serving /\ Taken' = Taken
      /\ Complete' = Complete /\ PlanDone' = PlanDone
      BY DEF serving, Goes, Serving, Taken, Complete, PlanDone
<1>3. CallsOK' /\ ResultOK' /\ FlowOK'
      BY <1>1, <1>2 DEF CallsOK, ResultOK, FlowOK, serving
<1>4. /\ down' \in Seq(Answers \union Pieces)
      /\ \A i \in 1 .. Len(down') : \E j \in 1 .. Len(down) : down'[i] = down[j]
  <2>0. down \in Seq(Answers \union Pieces)  BY <1>1 DEF SessionTyped
  <2>1. CASE down' = down  BY <2>0, <2>1
  <2>2. CASE down # <<>> /\ down' = Tail(down)  BY <2>0, <2>2
  <2>3. CASE Len(down) > 1 /\ down' = Tail(Tail(down))
    <3>1. /\ Tail(down) \in Seq(Answers \union Pieces) /\ Len(Tail(down)) = Len(down) - 1
          /\ \A i \in 1 .. Len(down) - 1 : Tail(down)[i] = down[i + 1]
          BY <2>0, <2>3
    <3> DEFINE t == Tail(down)
    <3>0. Len(down) \in Nat  BY <2>0
    <3> HIDE DEF t
    <3>2. t # <<>>
      <4>1. Len(t) = Len(down) - 1  BY <3>1 DEF t
      <4>2. Len(t) # 0  BY <2>3, <3>0, <4>1
      <4> QED  BY <4>2
    <3>3. /\ Tail(t) \in Seq(Answers \union Pieces) /\ Len(Tail(t)) = Len(t) - 1
          /\ \A i \in 1 .. Len(t) - 1 : Tail(t)[i] = t[i + 1]
          BY <3>1, <3>2 DEF t
    <3>4. \A i \in 1 .. Len(Tail(t)) : Tail(t)[i] = down[(i + 1) + 1]
          BY <2>0, <3>1, <3>3 DEF t
    <3>5. \A i \in 1 .. Len(Tail(t)) : (i + 1) + 1 \in 1 .. Len(down)
          BY <2>0, <3>1, <3>3 DEF t
    <3> QED  BY <2>3, <3>3, <3>4, <3>5 DEF t
  <2> QED  BY <2>1, <2>2, <2>3
<1>5. AnswersOK'  BY <1>1, <1>2, <1>4 DEF AnswersOK, serving
<1>6. SessionTyped'  BY <1>1, <1>4 DEF SessionTyped, serving
<1> QED  BY <1>3, <1>5, <1>6 DEF IInv

\* The last reply tells of the whole session.
LEMMA LastReply ==
    ASSUME IInv, client = "awaiting", down # <<>>, sent = Len(script),
           Head(down).type = ReplyTo(script[sent])
    PROVE  Complete
<1>1. SessionTyped /\ CallsOK /\ AnswersOK /\ Session(script)  BY DEF IInv, SessionTyped
<1>2. down[1] = Head(down) /\ 1 \in 1 .. Len(down)  BY <1>1 DEF SessionTyped
<1>3. Len(script) \in Nat /\ Len(script) >= 3 /\ Len(applied) \in Nat
      BY <1>1 DEF Session, SessionTyped
<1>4. CASE Len(script) = 3
  <2>1. Head(down).type = "plan-resp"  BY <1>1, <1>4 DEF Session, ReplyTo
  <2>2. Len(applied) >= 1 /\ applied[1].ok  BY <1>1, <1>2, <2>1 DEF AnswersOK, PlanDone
  <2>0. Len(applied) + 2 <= Len(script)  BY <1>1 DEF CallsOK
  <2>6. Len(applied) >= 1  BY <2>2
  <2>7. \A n \in Nat : n + 2 <= 3 /\ n >= 1 => n = 1  OBVIOUS
  <2>3. Len(applied) = 1  BY <1>3, <1>4, <2>0, <2>6, <2>7
  <2>4. \A i \in 1 .. Len(applied) : i = 1  BY <2>3
  <2>5. Len(applied) + 2 = Len(script)  BY <1>4, <2>3
  <2> QED  BY <2>2, <2>4, <2>5 DEF Complete
<1>5. CASE Len(script) # 3
  <2>1. script[sent] = "finish"  BY <1>1, <1>3, <1>5 DEF Session
  <2>2. Head(down).type = "summary"  BY <2>1 DEF ReplyTo
  <2> QED  BY <1>1, <1>2, <2>2 DEF AnswersOK
<1> QED  BY <1>4, <1>5

LEMMA ClientStepIsFine ==
    ASSUME IInv, ClientStep \/ SourceFails
    PROVE  IInv'
<1>t. SessionTyped /\ ResultOK  BY DEF IInv
<1>r. result = "ok" => Complete  BY <1>t DEF ResultOK
<1>f. ASSUME NEW why, Fails(why), client # "done", why # "ok", UNCHANGED serving,
             down' = down \/ (down # <<>> /\ down' = Tail(down))
      PROVE  IInv'
  <2>1. /\ UNCHANGED <<script, sent, cbuf, up>> /\ result' # "ok"
        /\ client' \in {"done", "closing"}
        BY <1>f DEF Fails
  <2> QED  BY <1>f, <2>1, ClientIsFine
<1>1. CASE \E f \in Frames : WriteFrame(f)  BY <1>1, WritingIsFine
<1>2. CASE Written
      BY <1>2, <1>r, ClientIsFine DEF Written, pipes
<1>3. CASE WriteFails  BY <1>3, <1>f DEF WriteFails
<1>4. CASE ReceiveWarning
      BY <1>4, <1>r, <1>t, ClientIsFine DEF ReceiveWarning, sending, SessionTyped
<1>5. CASE Garbled  BY <1>5, <1>f DEF Garbled
<1>6. CASE Receive
  <2>1. CASE Head(down).type = ReplyTo(script[sent])
    <3>1. CASE sent = Len(script)
      <4>1. Complete  BY <1>6, <2>1, <3>1, LastReply DEF Receive
      <4> QED  BY <1>6, <2>1, <3>1, <4>1, ClientIsFine DEF Receive
    <3>2. CASE sent # Len(script)
          BY <1>6, <1>r, <2>1, <3>2, ClientIsFine DEF Receive
    <3> QED  BY <3>1, <3>2
  <2>2. CASE Head(down).type # ReplyTo(script[sent])
    <3>1. Head(down).type # "ok"
      <4>1. Head(down) \in Answers \union Pieces
            BY <1>6, <1>t DEF Receive, SessionTyped
      <4> QED  BY <4>1 DEF Answers, Pieces
    <3> QED  BY <1>6, <1>f, <2>2, <3>1 DEF Receive
  <2> QED  BY <2>1, <2>2
<1>7. CASE EndOfReplies  BY <1>7, <1>f DEF EndOfReplies
<1>8. CASE Close  BY <1>8, <1>r, ClientIsFine DEF Close
<1>9. CASE Wait  BY <1>9, <1>r, ClientIsFine DEF Wait, pipes
<1>10. CASE SourceFails  BY <1>10, <1>f DEF SourceFails
<1> QED  BY <1>1, <1>2, <1>3, <1>4, <1>5, <1>6, <1>7, <1>8, <1>9, <1>10 DEF ClientStep

-----------------------------------------------------------------------------
(* The helper.                                                             *)

\* The frame the helper takes is the one after those it has taken.
LEMMA TakesTheNext ==
    ASSUME IInv, Serving, NEW f, Take(f)
    PROVE  /\ Taken \in Nat /\ Taken + 1 <= Len(script) /\ script[Taken + 1] = f
           /\ up' \in Seq(Frames) /\ Len(up') = Len(up) - 1
           /\ \A i \in 1 .. Len(up') : up'[i] = up[i + 1]
<1>1. SessionTyped /\ FlowOK  BY DEF IInv
<1>2. up \in Seq(Frames) /\ up # <<>> /\ up[1] = f /\ Len(up) \in Nat /\ Len(up) >= 1
      BY <1>1 DEF SessionTyped, Take
<1>3. /\ up' \in Seq(Frames) /\ Len(up') = Len(up) - 1
      /\ \A i \in 1 .. Len(up') : up'[i] = up[i + 1]
      BY <1>2 DEF Take
<1>4. Taken \in Nat /\ sent \in Nat /\ sent <= Len(script) /\ Len(script) \in Nat
      BY <1>1 DEF Taken, SessionTyped, Session
<1>5. Taken + Len(up) <= sent /\ up[1] = script[Taken + 1]
      BY <1>1, <1>2 DEF FlowOK
<1>6. Taken + 1 <= Len(script)
  <2>1. \A t, n, k, l \in Nat : n >= 1 /\ t + n <= k /\ k <= l => t + 1 <= l  OBVIOUS
  <2> QED  BY <1>2, <1>4, <1>5, <2>1
<1> QED  BY <1>2, <1>3, <1>4, <1>5, <1>6

LEMMA FlowAfterTake ==
    ASSUME IInv, Serving, NEW f, Take(f), UNCHANGED sending,
           Serving' => Taken' = Taken + 1
    PROVE  FlowOK'
<1> SUFFICES ASSUME Serving'
             PROVE  /\ Taken' + Len(up') <= sent
                    /\ \A i \in 1 .. Len(up') : up'[i] = script[Taken' + i]
                    /\ client # "done" =>
                         /\ Taken' + Len(up') + Len(cbuf) = sent
                         /\ \A i \in 1 .. Len(cbuf) : cbuf[i] = script[Taken' + Len(up') + i]
    BY DEF FlowOK, sending
<1>0. SessionTyped /\ FlowOK  BY DEF IInv
<1>1. /\ Taken + Len(up) <= sent
      /\ \A i \in 1 .. Len(up) : up[i] = script[Taken + i]
      /\ client # "done" =>
           /\ Taken + Len(up) + Len(cbuf) = sent
           /\ \A i \in 1 .. Len(cbuf) : cbuf[i] = script[Taken + Len(up) + i]
      BY <1>0 DEF FlowOK
<1>2. /\ Taken \in Nat /\ Taken' = Taken + 1 /\ Len(up') = Len(up) - 1
      /\ \A i \in 1 .. Len(up') : up'[i] = up[i + 1]
      BY TakesTheNext
<1>3. Len(up) \in Nat  BY <1>0 DEF SessionTyped
<1>4. Taken' + Len(up') = Taken + Len(up)  BY <1>2, <1>3
<1>5. ASSUME NEW i \in 1 .. Len(up') PROVE up'[i] = script[Taken' + i]
  <2>1. i + 1 \in 1 .. Len(up)  BY <1>2, <1>3
  <2>2. Taken' + i = Taken + (i + 1)  BY <1>2
  <2> QED  BY <1>1, <1>2, <2>1, <2>2
<1> QED  BY <1>1, <1>4, <1>5

\* Where nothing is taken, nothing changes in what is under way.
LEMMA FlowKept ==
    ASSUME IInv, UNCHANGED <<sending, up>>, Serving' => Serving /\ Taken' = Taken
    PROVE  FlowOK'
BY DEF IInv, FlowOK, sending

\* A Receiver call is the session's next, and comes after successes only.
LEMMA CallAdded ==
    ASSUME IInv, UNCHANGED script, Serving, NEW call \in Frames, NEW ok \in BOOLEAN,
           Did(call, ok), Len(applied) + 3 <= Len(script),
           script[Len(applied) + 3] = call, Serving' => ok,
           Goes' \notin {"hello", "manifest", "planning"}
    PROVE  /\ applied' \in Seq([call : Frames, ok : BOOLEAN])
           /\ Len(applied') = Len(applied) + 1
           /\ CallsOK' /\ ~ Complete /\ (PlanDone => PlanDone')
           /\ applied = <<>> /\ ok => PlanDone'
           /\ Len(applied) + 3 = Len(script) /\ ok => Complete'
<1>1. SessionTyped /\ CallsOK  BY DEF IInv
<1>2. /\ applied \in Seq([call : Frames, ok : BOOLEAN]) /\ Len(applied) \in Nat
      /\ Len(script) \in Nat
      BY <1>1 DEF SessionTyped, Session
<1> DEFINE r == [call |-> call, ok |-> ok]
<1>3. r \in [call : Frames, ok : BOOLEAN] /\ r.call = call /\ r.ok = ok  OBVIOUS
<1>4. applied' = Append(applied, r)  BY DEF Did
<1> HIDE DEF r
<1>5. /\ applied' \in Seq([call : Frames, ok : BOOLEAN])
      /\ Len(applied') = Len(applied) + 1
      /\ \A i \in 1 .. Len(applied) : applied'[i] = applied[i]
      /\ applied'[Len(applied) + 1] = r
      BY <1>2, <1>3, <1>4
<1>6. \A i \in 1 .. Len(applied) : applied[i].call = script[i + 2] /\ applied[i].ok
      BY <1>1 DEF CallsOK
<1>7. \A i \in 1 .. Len(applied') : i \in 1 .. Len(applied) \/ i = Len(applied) + 1
      BY <1>2, <1>5
<1>8. \A i \in 1 .. Len(applied') : applied'[i].call = script[i + 2]
  <2>1. (Len(applied) + 1) + 2 = Len(applied) + 3  BY <1>2
  <2> QED  BY <1>3, <1>5, <1>6, <1>7, <2>1
<1>9. \A i \in 1 .. Len(applied') : ok \/ i < Len(applied') => applied'[i].ok
  <2> SUFFICES ASSUME NEW i \in 1 .. Len(applied'), ok \/ i < Len(applied')
               PROVE  applied'[i].ok
      OBVIOUS
  <2>1. CASE i \in 1 .. Len(applied)  BY <1>5, <1>6, <2>1
  <2>2. CASE i = Len(applied) + 1  BY <1>2, <1>3, <1>5, <2>2
  <2> QED  BY <1>7, <2>1, <2>2
<1>10. Len(applied') + 2 <= Len(script)  BY <1>2, <1>5
<1>11. CallsOK'  BY <1>8, <1>9, <1>10 DEF CallsOK
<1>12. ~ Complete  BY <1>2 DEF Complete
<1>13. PlanDone => PlanDone'
  <2> SUFFICES ASSUME PlanDone PROVE PlanDone'  OBVIOUS
  <2>1. Len(applied) >= 1 /\ applied[1].ok  BY DEF PlanDone
  <2>2. 1 \in 1 .. Len(applied) /\ Len(applied') >= 1  BY <1>2, <1>5, <2>1
  <2> QED  BY <1>5, <2>1, <2>2 DEF PlanDone
<1>14. ASSUME applied = <<>>, ok PROVE PlanDone'
  <2>1. Len(applied) = 0  BY <1>14
  <2>2. Len(applied') >= 1 /\ 1 \in 1 .. Len(applied')  BY <1>5, <2>1
  <2> QED  BY <1>9, <1>14, <2>2 DEF PlanDone
<1>15. ASSUME Len(applied) + 3 = Len(script), ok PROVE Complete'
  <2>1. Len(applied') + 2 = Len(script)  BY <1>2, <1>5, <1>15
  <2> QED  BY <1>9, <1>15, <2>1 DEF Complete
<1> QED  BY <1>5, <1>11, <1>12, <1>13, <1>14, <1>15

\* What the helper writes that claims nothing.
Plain == {a \in Answers \union Pieces : a.type \notin {"plan-resp", "summary"}}

LEMMA PlainFrames ==
    /\ \A h \in {"end", "finish"} : \A w \in Warnings(h) : w \in Seq(Plain)
    /\ \A t \in {"hello-ack", "file-result", "file-failed", "error"} : Whole(t) \in Plain
    /\ Whole("plan-resp") \in Answers /\ Whole("summary") \in Answers
<1>1. \A h \in {"end", "finish"} : \A w \in Warnings(h) : w \in Seq(Plain)
  <2>1. \A h \in {"end", "finish"} : Piece("head", h) \in Plain /\ Piece("body", h) \in Plain
        BY DEF Plain, Piece, Pieces
  <2>2. ASSUME NEW h, Piece("head", h) \in Plain, Piece("body", h) \in Plain,
               NEW w \in Warnings(h)
        PROVE  w \in Seq(Plain)
    <3>1. w = <<>> \/ w = <<Piece("head", h), Piece("body", h)>>  BY DEF Warnings
    <3>2. <<Piece("head", h), Piece("body", h)>> \in Seq(Plain)  BY <2>2
    <3>3. <<>> \in Seq(Plain)  OBVIOUS
    <3> QED  BY <3>1, <3>2, <3>3, Zenon
  <2> QED  BY <2>1, <2>2
<1>2. \A t \in {"hello-ack", "file-result", "file-failed", "error"} : Whole(t) \in Plain
      BY DEF Plain, Whole, Answers
<1>3. Whole("plan-resp") \in Answers /\ Whole("summary") \in Answers
      BY DEF Whole, Answers
<1> QED  BY <1>1, <1>2, <1>3

LEMMA RepliesAdded ==
    ASSUME SessionTyped, AnswersOK, NEW frames \in Seq(Answers \union Pieces),
           down' = (down \o sbuf) \o frames,
           PlanDone => PlanDone', Complete => Complete',
           \A i \in 1 .. Len(frames) :
               /\ frames[i].type = "plan-resp" => PlanDone'
               /\ frames[i].type = "summary" => Complete'
    PROVE  down' \in Seq(Answers \union Pieces) /\ AnswersOK'
<1> DEFINE all == down \o sbuf
           M == Answers \union Pieces
<1>1. down \in Seq(M) /\ sbuf \in Seq(M) /\ frames \in Seq(M)  BY DEF SessionTyped
<1>2. \A i \in 1 .. Len(sbuf) : sbuf[i].type = "warn"
  <2>1. \A a \in Pieces : a.type = "warn"  BY DEF Pieces
  <2>2. \A i \in 1 .. Len(sbuf) : sbuf[i] \in Pieces  BY DEF SessionTyped
  <2> QED  BY <2>1, <2>2
<1>3. down' = all \o frames  OBVIOUS
<1> HIDE DEF M
<1>4. /\ all \in Seq(M) /\ Len(all) = Len(down) + Len(sbuf)
      /\ \A i \in 1 .. Len(down) + Len(sbuf) :
            all[i] = IF i <= Len(down) THEN down[i] ELSE sbuf[i - Len(down)]
      BY <1>1, ConcatProperties
<1> HIDE DEF all
<1>5. /\ all \o frames \in Seq(M) /\ Len(all \o frames) = Len(all) + Len(frames)
      /\ \A i \in 1 .. Len(all) + Len(frames) :
            (all \o frames)[i] = IF i <= Len(all) THEN all[i] ELSE frames[i - Len(all)]
  <2>1. all \in Seq(M) /\ frames \in Seq(M)  BY <1>1, <1>4
  <2> QED  BY <2>1, ConcatProperties
<1>6. Len(down) \in Nat /\ Len(sbuf) \in Nat /\ Len(frames) \in Nat  BY <1>1
<1>7. \A i \in 1 .. Len(all) :
         \/ \E j \in 1 .. Len(down) : all[i] = down[j]
         \/ all[i].type = "warn"
  <2> SUFFICES ASSUME NEW i \in 1 .. Len(all)
               PROVE  (\E j \in 1 .. Len(down) : all[i] = down[j]) \/ all[i].type = "warn"
      OBVIOUS
  <2>1. CASE i <= Len(down)
    <3>1. i \in 1 .. Len(down)  BY <1>4, <1>6, <2>1
    <3> QED  BY <1>4, <2>1, <3>1
  <2>2. CASE ~ (i <= Len(down))
    <3>1. i - Len(down) \in 1 .. Len(sbuf)  BY <1>4, <1>6, <2>2
    <3> QED  BY <1>2, <1>4, <2>2, <3>1
  <2> QED  BY <2>1, <2>2
<1>8. \A i \in 1 .. Len(down') :
         \/ \E j \in 1 .. Len(down) : down'[i] = down[j]
         \/ down'[i].type = "warn"
         \/ \E j \in 1 .. Len(frames) : down'[i] = frames[j]
  <2> SUFFICES ASSUME NEW i \in 1 .. Len(down')
               PROVE  \/ \E j \in 1 .. Len(down) : down'[i] = down[j]
                      \/ down'[i].type = "warn"
                      \/ \E j \in 1 .. Len(frames) : down'[i] = frames[j]
      OBVIOUS
  <2>0. Len(all) \in Nat /\ i \in 1 .. Len(all) + Len(frames)  BY <1>3, <1>4, <1>5, <1>6
  <2>1. CASE i <= Len(all)
    <3>1. i \in 1 .. Len(all)  BY <2>0, <2>1
    <3>2. down'[i] = all[i]  BY <1>3, <1>5, <2>0, <2>1
    <3> QED  BY <1>7, <3>1, <3>2
  <2>2. CASE ~ (i <= Len(all))
    <3>1. i - Len(all) \in 1 .. Len(frames)  BY <1>6, <2>0, <2>2
    <3>2. down'[i] = frames[i - Len(all)]  BY <1>3, <1>5, <2>0, <2>2
    <3> QED  BY <3>1, <3>2
  <2> QED  BY <2>1, <2>2
<1>9. ASSUME NEW i \in 1 .. Len(down')
      PROVE  /\ down'[i].type = "plan-resp" => PlanDone'
             /\ down'[i].type = "summary" => Complete'
  <2>1. CASE \E j \in 1 .. Len(down) : down'[i] = down[j]  BY <2>1 DEF AnswersOK
  <2>2. CASE down'[i].type = "warn"  BY <2>2
  <2>3. CASE \E j \in 1 .. Len(frames) : down'[i] = frames[j]  BY <2>3
  <2> QED  BY <1>8, <2>1, <2>2, <2>3
<1>10. AnswersOK'  BY <1>9 DEF AnswersOK
<1> QED  BY <1>3, <1>5, <1>10 DEF M

LEMMA PlainAdded ==
    ASSUME SessionTyped, AnswersOK, NEW frames \in Seq(Plain),
           down' = (down \o sbuf) \o frames,
           PlanDone => PlanDone', Complete => Complete'
    PROVE  down' \in Seq(Answers \union Pieces) /\ AnswersOK'
<1>1. Plain \subseteq Answers \union Pieces  BY DEF Plain
<1>2. frames \in Seq(Answers \union Pieces)  BY <1>1
<1>3. \A i \in 1 .. Len(frames) : frames[i].type \notin {"plan-resp", "summary"}
  <2>1. \A a \in Plain : a.type \notin {"plan-resp", "summary"}  BY DEF Plain
  <2>2. \A i \in 1 .. Len(frames) : frames[i] \in Plain  OBVIOUS
  <2> QED  BY <2>1, <2>2
<1> QED  BY <1>2, <1>3, RepliesAdded

\* A refusal ends the helper's part: nothing more is served.
LEMMA RefusalIsFine ==
    ASSUME IInv, NEW w \in Seq(Plain), Refuse(w), UNCHANGED sending,
           up' \in Seq(Frames), applied' \in Seq([call : Frames, ok : BOOLEAN]),
           CallsOK', PlanDone => PlanDone', Complete => Complete'
    PROVE  IInv'
<1>1. SessionTyped /\ AnswersOK /\ ResultOK  BY DEF IInv
<1>2. /\ down' = (down \o sbuf) \o (w \o <<Whole("error")>>) /\ sbuf' = <<>>
      /\ helper' = "replying" /\ then' = "failed"
      BY DEF Refuse, Reply
<1>3. w \o <<Whole("error")>> \in Seq(Plain)  BY PlainFrames
<1>4. down' \in Seq(Answers \union Pieces) /\ AnswersOK'
      BY <1>1, <1>2, <1>3, PlainAdded
<1>5. ~ Serving'  BY <1>2 DEF Serving, Goes
<1>6. FlowOK' /\ ResultOK'  BY <1>1, <1>5 DEF FlowOK, ResultOK, sending
<1>7. SessionTyped'  BY <1>1, <1>2, <1>4 DEF SessionTyped, sending
<1> QED  BY <1>4, <1>6, <1>7 DEF IInv

\* An answer that claims nothing, or claims what was done.
LEMMA ReplyIsFine ==
    ASSUME IInv, NEW frames \in Seq(Plain), NEW next \in {"loop", "exited"},
           \/ Reply(frames, next)
           \/ Reply(<<Whole("plan-resp")>>, next) /\ PlanDone'
           \/ (\E w \in Seq(Plain) : Reply(w \o <<Whole("summary")>>, next)) /\ Complete',
           UNCHANGED sending,
           up' \in Seq(Frames), applied' \in Seq([call : Frames, ok : BOOLEAN]),
           FlowOK', CallsOK', PlanDone => PlanDone', Complete => Complete'
    PROVE  IInv'
<1>1. SessionTyped /\ AnswersOK /\ ResultOK  BY DEF IInv
<1>2. sbuf' = <<>> /\ helper' = "replying" /\ then' = next  BY DEF Reply
<1>3. down' \in Seq(Answers \union Pieces) /\ AnswersOK'
  <2>1. CASE Reply(frames, next)  BY <1>1, <2>1, PlainAdded DEF Reply
  <2>2. ASSUME NEW w \in Seq(Plain), NEW t \in {"plan-resp", "summary"},
               Reply(w \o <<Whole(t)>>, next),
               t = "plan-resp" => PlanDone', t = "summary" => Complete'
        PROVE  down' \in Seq(Answers \union Pieces) /\ AnswersOK'
    <3> DEFINE all == w \o <<Whole(t)>>
    <3>1. Whole(t) \in Answers \union Pieces /\ Whole(t).type = t
          BY PlainFrames DEF Whole
    <3>2. /\ Len(all) = Len(w) + 1 /\ Len(w) \in Nat /\ all \in Seq(Answers \union Pieces)
          /\ all[Len(w) + 1] = Whole(t)
          /\ \A i \in 1 .. Len(w) : all[i] = w[i] /\ w[i] \in Plain
      <4>1. w \in Seq(Answers \union Pieces)  BY DEF Plain
      <4> QED  BY <3>1, <4>1
    <3>3. \A i \in 1 .. Len(all) :
             all[i].type = t \/ all[i].type \notin {"plan-resp", "summary"}
      <4>1. \A a \in Plain : a.type \notin {"plan-resp", "summary"}  BY DEF Plain
      <4> QED  BY <3>1, <3>2, <4>1
    <3>4. down' = (down \o sbuf) \o all  BY <2>2 DEF Reply
    <3> HIDE DEF all
    <3> QED  BY <1>1, <2>2, <3>2, <3>3, <3>4, RepliesAdded
  <2>3. CASE Reply(<<Whole("plan-resp")>>, next) /\ PlanDone'
    <3>1. <<>> \in Seq(Plain) /\ <<>> \o <<Whole("plan-resp")>> = <<Whole("plan-resp")>>
          OBVIOUS
    <3> QED  BY <2>2, <2>3, <3>1
  <2> QED  BY <2>1, <2>2, <2>3
<1>4. ResultOK'  BY <1>1 DEF ResultOK, sending
<1>5. SessionTyped'  BY <1>1, <1>2, <1>3 DEF SessionTyped, sending
<1> QED  BY <1>3, <1>4, <1>5 DEF IInv

\* Without a call or a reply, what was called and replied stays true.
LEMMA QuietIsFine ==
    ASSUME IInv, UNCHANGED <<sending, applied, down>>, SessionTyped', FlowOK',
           Serving' => Serving,
           Goes' \in {"hello", "manifest", "planning"} => applied = <<>>
    PROVE  IInv'
<1>1. CallsOK /\ AnswersOK /\ ResultOK  BY DEF IInv
<1>2. Complete' = Complete /\ PlanDone' = PlanDone  BY DEF Complete, PlanDone, sending
<1> QED  BY <1>1, <1>2 DEF IInv, CallsOK, AnswersOK, ResultOK, sending

\* In the loop, what is taken after the plan is the next call.
LEMMA LoopTakes ==
    ASSUME IInv, helper = "loop", NEW f \in Frames, Take(f)
    PROVE  /\ f = "plan-req" => applied = <<>>
           /\ f \notin {"hello", "plan-req", "manifest"} =>
                /\ applied # <<>> /\ Taken = Len(applied) + 2
                /\ Len(applied) + 3 <= Len(script)
                /\ script[Len(applied) + 3] = f
           /\ f = "finish" => Len(applied) + 3 = Len(script)
<1>1. SessionTyped /\ Session(script)  BY DEF IInv, SessionTyped
<1>2. Goes = "loop" /\ Serving  BY DEF Goes, Serving
<1>3. Taken + 1 <= Len(script) /\ script[Taken + 1] = f  BY <1>2, TakesTheNext
<1>4. Taken = IF applied = <<>> THEN 1 ELSE Len(applied) + 2  BY <1>2 DEF Taken
<1>5. Len(applied) \in Nat /\ Len(script) \in Nat  BY <1>1 DEF SessionTyped, Session
<1>6. CASE applied = <<>>
  <2>1. f = "plan-req"  BY <1>1, <1>3, <1>4, <1>6 DEF Session
  <2> QED  BY <1>6, <2>1
<1>7. CASE applied # <<>>
  <2>1. Len(applied) # 0  BY <1>1, <1>7 DEF SessionTyped
  <2>2. Taken + 1 = Len(applied) + 3 /\ Taken + 1 \in 4 .. Len(script)
        BY <1>3, <1>4, <1>5, <1>7, <2>1
  <2>3. /\ f \in Body \union {"finish"}
        /\ f = "finish" => Taken + 1 = Len(script)
        BY <1>1, <1>3, <2>2 DEF Session
  <2> QED  BY <1>3, <1>4, <1>7, <2>2, <2>3 DEF Body
<1> QED  BY <1>6, <1>7

LEMMA EmptyIsPlain == <<>> \in Seq(Plain)
OBVIOUS

LEMMA ServeHelloIsFine ==
    ASSUME IInv, ServeHello
    PROVE  IInv'
<1>1. SessionTyped /\ CallsOK /\ Goes = "hello" /\ Serving
      BY DEF IInv, ServeHello, Goes, Serving
<1>2. applied = <<>> /\ applied' = applied /\ UNCHANGED sending
      BY <1>1 DEF CallsOK, ServeHello
<1>3. up' \in Seq(Frames)  BY <1>1, TakesTheNext DEF ServeHello
<1>4. Complete' = Complete /\ PlanDone' = PlanDone
      BY <1>2 DEF Complete, PlanDone, sending
<1>5. applied' \in Seq([call : Frames, ok : BOOLEAN])  BY <1>1, <1>2 DEF SessionTyped
<1>6. CASE Reply(<<Whole("hello-ack")>>, "loop")
  <2>1. Goes' = "loop" /\ Taken' = 1 /\ Taken = 0
        BY <1>1, <1>2, <1>6 DEF Reply, Goes, Taken
  <2>2. FlowOK'  BY <1>1, <1>2, <2>1, FlowAfterTake DEF ServeHello
  <2>3. CallsOK'  BY <1>1, <1>2, <2>1 DEF CallsOK, sending
  <2>4. <<Whole("hello-ack")>> \in Seq(Plain)  BY PlainFrames
  <2> QED  BY <1>2, <1>3, <1>4, <1>5, <1>6, <2>2, <2>3, <2>4, ReplyIsFine
<1>7. CASE Refuse(<<>>)
  <2>1. Goes' = "failed"  BY <1>7 DEF Refuse, Reply, Goes
  <2>2. CallsOK'  BY <1>1, <1>2, <2>1 DEF CallsOK, sending
  <2> QED  BY <1>2, <1>3, <1>4, <1>5, <1>7, <2>2, EmptyIsPlain, RefusalIsFine
<1> QED  BY <1>6, <1>7 DEF ServeHello

\* The plan's request and the manifest are taken without a call yet.
LEMMA ServeRequestsIsFine ==
    ASSUME IInv, ServePlanRequest \/ ServeManifest
    PROVE  IInv'
<1>1. SessionTyped /\ CallsOK /\ Serving /\ Goes = helper
      BY DEF IInv, ServePlanRequest, ServeManifest, Goes, Serving
<1>2. applied = <<>> /\ applied' = applied /\ UNCHANGED sending
      BY <1>1, LoopTakes DEF CallsOK, ServePlanRequest, ServeManifest, Frames
<1>3. PICK f : Take(f)  BY DEF ServePlanRequest, ServeManifest
<1>4. up' \in Seq(Frames)  BY <1>1, <1>3, TakesTheNext
<1>5. Complete' = Complete /\ PlanDone' = PlanDone
      BY <1>2 DEF Complete, PlanDone, sending
<1>6. applied' \in Seq([call : Frames, ok : BOOLEAN])  BY <1>1, <1>2 DEF SessionTyped
<1>7. CASE Refuse(<<>>)
  <2>1. Goes' = "failed"  BY <1>7 DEF Refuse, Reply, Goes
  <2>2. CallsOK'  BY <1>1, <1>2, <2>1 DEF CallsOK, sending
  <2> QED  BY <1>2, <1>4, <1>5, <1>6, <1>7, <2>2, EmptyIsPlain, RefusalIsFine
<1>8. CASE ~ Refuse(<<>>)
  <2>1. /\ \/ helper = "loop" /\ helper' = "manifest"
           \/ helper = "manifest" /\ helper' = "planning"
        /\ UNCHANGED <<then, sbuf, down>>
        BY <1>8 DEF ServePlanRequest, ServeManifest
  <2>2. Goes' = helper' /\ Serving' /\ Taken' = Taken + 1
        BY <1>1, <1>2, <2>1 DEF Goes, Serving, Taken
  <2>3. FlowOK'  BY <1>1, <1>2, <1>3, <2>2, FlowAfterTake
  <2>4. SessionTyped'  BY <1>1, <1>2, <1>4, <2>1 DEF SessionTyped, sending
  <2> QED  BY <1>1, <1>2, <2>1, <2>3, <2>4, QuietIsFine
<1> QED  BY <1>7, <1>8

LEMMA PlannedIsFine ==
    ASSUME IInv, Planned
    PROVE  IInv'
<1>1. SessionTyped /\ CallsOK /\ Serving /\ Goes = "planning" /\ Session(script)
      BY DEF IInv, Planned, Goes, Serving, SessionTyped
<1>2. applied = <<>> /\ UNCHANGED <<sending, up>>
      BY <1>1 DEF CallsOK, Planned
<1>3. /\ Len(applied) + 3 <= Len(script) /\ script[Len(applied) + 3] = "manifest"
      /\ "manifest" \in Frames
  <2>1. Len(applied) = 0  BY <1>2
  <2> QED  BY <1>1, <2>1 DEF Session, Frames
<1>4. up' \in Seq(Frames) /\ UNCHANGED script  BY <1>1, <1>2 DEF SessionTyped, sending
<1>5. CASE Did("manifest", TRUE) /\ Reply(<<Whole("plan-resp")>>, "loop")
  <2>1. Goes' = "loop"  BY <1>5 DEF Reply, Goes
  <2>2. /\ applied' \in Seq([call : Frames, ok : BOOLEAN])
        /\ Len(applied') = 1
        /\ CallsOK' /\ ~ Complete /\ PlanDone'
    <3>1. Goes' \notin {"hello", "manifest", "planning"}  BY <2>1
    <3>2. /\ applied' \in Seq([call : Frames, ok : BOOLEAN])
          /\ Len(applied') = Len(applied) + 1
          /\ CallsOK' /\ ~ Complete /\ (applied = <<>> => PlanDone')
          BY <1>1, <1>3, <1>4, <1>5, <3>1, CallAdded
    <3>3. Len(applied) = 0  BY <1>2
    <3> QED  BY <1>2, <3>2, <3>3
  <2>3. Taken' = 3 /\ Taken = 3
    <3>1. applied' # <<>>  BY <2>2
    <3> QED  BY <1>1, <2>1, <2>2, <3>1 DEF Taken
  <2>4. FlowOK'  BY <1>1, <1>2, <2>3, FlowKept
  <2> QED  BY <1>2, <1>4, <1>5, <2>2, <2>4, EmptyIsPlain, ReplyIsFine
<1>6. CASE Did("manifest", FALSE) /\ Refuse(<<>>)
  <2>1. Goes' = "failed" /\ ~ Serving'  BY <1>6 DEF Refuse, Reply, Goes, Serving
  <2>2. /\ applied' \in Seq([call : Frames, ok : BOOLEAN])
        /\ CallsOK' /\ ~ Complete /\ (PlanDone => PlanDone')
        BY <1>1, <1>3, <1>4, <1>6, <2>1, CallAdded
  <2> QED  BY <1>2, <1>4, <1>6, <2>2, EmptyIsPlain, RefusalIsFine
<1> QED  BY <1>5, <1>6 DEF Planned

\* The calls for a file: each is the session's next.
LEMMA ServeIsFine ==
    ASSUME IInv, helper = "loop", NEW f \in Body \union {"finish"}, Take(f),
           NEW ok \in BOOLEAN, Did(f, ok), UNCHANGED sending,
           \/ ok /\ f # "finish"
              /\ UNCHANGED <<down, helper, then, sbuf>>
           \/ ok /\ f # "finish" /\ \E frames \in Seq(Plain) : Reply(frames, "loop")
           \/ ok /\ f = "finish"
              /\ \E w \in Seq(Plain) : Reply(w \o <<Whole("summary")>>, "exited")
           \/ ~ ok /\ \E w \in Seq(Plain) : Refuse(w)
    PROVE  IInv'
<1>1. SessionTyped /\ CallsOK /\ Serving /\ Goes = "loop"
      BY DEF IInv, Goes, Serving
<1>2. f \in Frames  BY DEF Body, Frames
<1>3. /\ applied # <<>> /\ Taken = Len(applied) + 2 /\ Len(applied) \in Nat
      /\ Len(applied) + 3 <= Len(script) /\ script[Len(applied) + 3] = f
      /\ f = "finish" => Len(applied) + 3 = Len(script)
  <2>1. f \notin {"hello", "plan-req", "manifest"}  BY DEF Body
  <2> QED  BY <1>1, <1>2, <2>1, LoopTakes DEF SessionTyped
<1>4. up' \in Seq(Frames) /\ UNCHANGED script  BY <1>1, TakesTheNext DEF sending
<1>5. /\ Goes' \in {"loop", "failed", "exited"}
      /\ Serving' => ok /\ Goes' = "loop"
      /\ f = "finish" => ~ Serving'
      BY DEF Reply, Refuse, Goes, Serving
<1>6. /\ applied' \in Seq([call : Frames, ok : BOOLEAN])
      /\ Len(applied') = Len(applied) + 1
      /\ CallsOK' /\ ~ Complete /\ (PlanDone => PlanDone')
      /\ f = "finish" /\ ok => Complete'
      BY <1>1, <1>2, <1>3, <1>4, <1>5, CallAdded
<1>7. Serving' => Taken' = Taken + 1
  <2>1. Len(applied') # 0  BY <1>3, <1>6
  <2>2. applied' # <<>>  BY <2>1
  <2>3. Serving' => Taken' = Len(applied') + 2  BY <1>5, <2>2 DEF Taken
  <2> QED  BY <1>3, <1>6, <2>3
<1>8. FlowOK'  BY <1>1, <1>7, FlowAfterTake
<1>9. CASE UNCHANGED <<down, helper, then, sbuf>> /\ ok /\ f # "finish"
  <2>1. SessionTyped'  BY <1>1, <1>4, <1>6, <1>9 DEF SessionTyped, sending
  <2>2. AnswersOK'  BY <1>6, <1>9 DEF IInv, AnswersOK
  <2>3. ResultOK'  BY <1>6 DEF IInv, ResultOK, sending
  <2> QED  BY <1>6, <1>8, <2>1, <2>2, <2>3 DEF IInv
<1>10. CASE \E frames \in Seq(Plain) : Reply(frames, "loop")
      BY <1>4, <1>6, <1>8, <1>10, ReplyIsFine
<1>11. CASE /\ ok /\ f = "finish"
            /\ \E w \in Seq(Plain) : Reply(w \o <<Whole("summary")>>, "exited")
      BY <1>4, <1>6, <1>8, <1>11, EmptyIsPlain, ReplyIsFine
<1>12. CASE \E w \in Seq(Plain) : Refuse(w)
      BY <1>4, <1>6, <1>12, RefusalIsFine
<1> QED  BY <1>9, <1>10, <1>11, <1>12

LEMMA ServeFilesIsFine ==
    ASSUME IInv,
           (\E f \in {"file-begin", "chunk"} : ServeUnanswered(f))
             \/ ServeFileEnd \/ ServeFinish
    PROVE  IInv'
<1>1. CASE \E f \in {"file-begin", "chunk"} : ServeUnanswered(f)
  <2>1. PICK f \in {"file-begin", "chunk"} : ServeUnanswered(f)  BY <1>1
  <2>2. /\ helper = "loop" /\ Take(f) /\ UNCHANGED sending
        /\ f \in Body \union {"finish"} /\ f # "finish"
        BY <2>1 DEF ServeUnanswered, Body
  <2>3. CASE Did(f, TRUE) /\ UNCHANGED <<down, helper, then, sbuf>>
        BY <2>2, <2>3, ServeIsFine
  <2>4. CASE Did(f, FALSE) /\ Refuse(<<>>)
        BY <2>2, <2>4, EmptyIsPlain, ServeIsFine
  <2> QED  BY <2>1, <2>3, <2>4 DEF ServeUnanswered
<1>2. CASE ServeFileEnd
  <2>1. PICK w \in Warnings("end") :
           \/ Did("file-end", TRUE) /\ Reply(w \o <<Whole("file-result")>>, "loop")
           \/ Did("file-end", FALSE) /\ Refuse(w \o <<Whole("file-failed")>>)
        BY <1>2 DEF ServeFileEnd
  <2>2. /\ helper = "loop" /\ Take("file-end") /\ UNCHANGED sending
        /\ "file-end" \in Body \union {"finish"}
        BY <1>2 DEF ServeFileEnd, Body
  <2>3. /\ w \o <<Whole("file-result")>> \in Seq(Plain)
        /\ w \o <<Whole("file-failed")>> \in Seq(Plain)
    <3>1. w \in Seq(Plain)  BY PlainFrames
    <3>2. <<Whole("file-result")>> \in Seq(Plain) /\ <<Whole("file-failed")>> \in Seq(Plain)
          BY PlainFrames
    <3> QED  BY <3>1, <3>2, ConcatProperties
  <2>4. CASE Did("file-end", TRUE) /\ Reply(w \o <<Whole("file-result")>>, "loop")
        BY <2>2, <2>3, <2>4, ServeIsFine
  <2>5. CASE Did("file-end", FALSE) /\ Refuse(w \o <<Whole("file-failed")>>)
        BY <2>2, <2>3, <2>5, ServeIsFine
  <2> QED  BY <2>1, <2>4, <2>5
<1>3. CASE ServeFinish
  <2>1. PICK w \in Warnings("finish") :
           \/ Did("finish", TRUE) /\ Reply(w \o <<Whole("summary")>>, "exited")
           \/ Did("finish", FALSE) /\ Refuse(w)
        BY <1>3 DEF ServeFinish
  <2>2. /\ helper = "loop" /\ Take("finish") /\ UNCHANGED sending
        /\ "finish" \in Body \union {"finish"} /\ w \in Seq(Plain)
        BY <1>3, PlainFrames DEF ServeFinish, Body
  <2>3. CASE Did("finish", TRUE) /\ Reply(w \o <<Whole("summary")>>, "exited")
        BY <2>2, <2>3, ServeIsFine
  <2>4. CASE Did("finish", FALSE) /\ Refuse(w)
        BY <2>2, <2>4, ServeIsFine
  <2> QED  BY <2>1, <2>3, <2>4
<1> QED  BY <1>1, <1>2, <1>3

\* Warnings are buffered and claim nothing.
LEMMA WarningIsFine ==
    ASSUME IInv, NEW h \in Unreadable, WarnHead(h) \/ WarnBody(h)
    PROVE  IInv'
<1>1. SessionTyped /\ CallsOK /\ Goes = "planning"
      BY DEF IInv, WarnHead, WarnBody, Goes
<1>2. UNCHANGED <<sending, up, down, helper, then, applied>>
      BY DEF WarnHead, WarnBody, pipes
<1>3. sbuf' \in Seq(Pieces)
  <2>1. Piece("head", h) \in Pieces /\ Piece("body", h) \in Pieces
        BY DEF Piece, Pieces
  <2>2. sbuf \in Seq(Pieces)  BY <1>1 DEF SessionTyped
  <2>3. sbuf' = sbuf \/ sbuf' = Append(sbuf, Piece("head", h))
          \/ sbuf' = Append(sbuf, Piece("body", h))
        BY DEF WarnHead, WarnBody
  <2> QED  BY <2>1, <2>2, <2>3
<1>4. Goes' = Goes /\ Serving' = Serving /\ Taken' = Taken
      BY <1>2 DEF Goes, Serving, Taken
<1>5. FlowOK'  BY <1>2, <1>4, FlowKept
<1>6. SessionTyped'  BY <1>1, <1>2, <1>3 DEF SessionTyped, sending
<1> QED  BY <1>1, <1>2, <1>4, <1>5, <1>6, QuietIsFine DEF CallsOK

\* Where the helper only moves on, or stops.
LEMMA MovingIsFine ==
    ASSUME IInv, EndOfInput \/ Flushed \/ Drain \/ HelperDies
    PROVE  IInv'
<1>1. SessionTyped /\ CallsOK /\ AnswersOK /\ ResultOK  BY DEF IInv
<1>2. UNCHANGED <<sending, applied>>
      BY DEF EndOfInput, Flushed, Drain, HelperDies, serving
<1>3. CASE EndOfInput
  <2>1. UNCHANGED up  BY <1>3 DEF EndOfInput
  <2>2. CASE helper' = "exited" /\ UNCHANGED <<then, sbuf, down>>
    <3>1. Goes' = "exited" /\ ~ Serving'  BY <2>2 DEF Goes, Serving
    <3>2. SessionTyped'  BY <1>1, <1>2, <2>1, <2>2 DEF SessionTyped, sending
    <3>3. FlowOK'  BY <3>1 DEF FlowOK
    <3> QED  BY <1>2, <2>2, <3>1, <3>2, <3>3, QuietIsFine
  <2>3. CASE Refuse(<<>>)
    <3>1. Goes' = "failed" /\ ~ Serving'  BY <2>3 DEF Refuse, Reply, Goes, Serving
    <3>2. CallsOK'  BY <1>1, <1>2, <3>1 DEF CallsOK, sending
    <3>3. Complete' = Complete /\ PlanDone' = PlanDone
          BY <1>2 DEF Complete, PlanDone, sending
    <3>4. up' \in Seq(Frames) /\ applied' \in Seq([call : Frames, ok : BOOLEAN])
          BY <1>1, <1>2, <2>1 DEF SessionTyped
    <3> QED  BY <1>2, <2>3, <3>2, <3>3, <3>4, EmptyIsPlain, RefusalIsFine
  <2> QED  BY <1>3, <2>2, <2>3 DEF EndOfInput
<1>4. CASE Flushed
  <2>1. /\ helper = "replying" /\ UNCHANGED <<up, down, then, sbuf>>
        /\ helper' \in {"exited", "loop"}
        /\ helper' = "loop" => then = "loop"
        BY <1>1, <1>4 DEF Flushed, pipes, SessionTyped
  <2>2. /\ Goes = then /\ Goes' = helper'
        /\ Serving' => Serving /\ Goes' = Goes
        BY <2>1 DEF Goes, Serving
  <2>3. Serving' => Taken' = Taken  BY <1>2, <2>2 DEF Taken
  <2>4. FlowOK'  BY <1>2, <2>1, <2>2, <2>3, FlowKept
  <2>5. SessionTyped'  BY <1>1, <1>2, <2>1 DEF SessionTyped, sending
  <2> QED  BY <1>2, <2>1, <2>2, <2>4, <2>5, QuietIsFine
<1>5. CASE Drain
  <2>1. /\ helper = "replying" /\ then = "failed" /\ up # <<>> /\ up' = Tail(up)
        /\ UNCHANGED <<down, helper, then, sbuf>>
        BY <1>5 DEF Drain, serving
  <2>2. Goes' = "failed" /\ ~ Serving'  BY <2>1 DEF Goes, Serving
  <2>3. up' \in Seq(Frames)  BY <1>1, <2>1 DEF SessionTyped
  <2>4. SessionTyped'  BY <1>1, <1>2, <2>1, <2>3 DEF SessionTyped, sending
  <2>5. FlowOK'  BY <2>2 DEF FlowOK
  <2> QED  BY <1>2, <2>1, <2>2, <2>4, <2>5, QuietIsFine
<1>6. CASE HelperDies
  <2>1. /\ helper' = "exited" /\ sbuf' = <<>> /\ UNCHANGED <<up, then>>
        BY <1>6 DEF HelperDies
  <2>2. PICK n \in 0 .. Len(down) : down' = SubSeq(down, 1, n)  BY <1>6 DEF HelperDies
  <2>3. /\ down' \in Seq(Answers \union Pieces)
        /\ \A i \in 1 .. Len(down') : i \in 1 .. Len(down) /\ down'[i] = down[i]
        BY <1>1, <2>2 DEF SessionTyped
  <2>4. Goes' = "exited" /\ ~ Serving'  BY <2>1 DEF Goes, Serving
  <2>5. Complete' = Complete /\ PlanDone' = PlanDone
        BY <1>2 DEF Complete, PlanDone, sending
  <2>6. AnswersOK'  BY <1>1, <2>3, <2>5 DEF AnswersOK
  <2>7. CallsOK' /\ ResultOK'  BY <1>1, <1>2, <2>4, <2>5 DEF CallsOK, ResultOK, sending
  <2>8. FlowOK'  BY <2>4 DEF FlowOK
  <2>9. SessionTyped'  BY <1>1, <1>2, <2>1, <2>3 DEF SessionTyped, sending
  <2> QED  BY <2>6, <2>7, <2>8, <2>9 DEF IInv
<1> QED  BY <1>3, <1>4, <1>5, <1>6

\* An interrupted client writes no more, and what it wrote may be cut short.
LEMMA InterruptIsFine ==
    ASSUME IInv, Interrupt
    PROVE  IInv'
<1>1. SessionTyped /\ CallsOK /\ AnswersOK /\ ResultOK /\ FlowOK  BY DEF IInv
<1>2. /\ client' = "done" /\ cbuf' = <<>>
      /\ UNCHANGED <<script, sent, down, helper, then, sbuf, applied>>
      /\ result' = "ok" => result = "ok"
      BY DEF Interrupt, serving
<1>3. PICK n \in 0 .. Len(up) : up' = SubSeq(up, 1, n)  BY DEF Interrupt
<1>4. /\ up' \in Seq(Frames) /\ Len(up') = n
      /\ \A i \in 1 .. n : i \in 1 .. Len(up) /\ up'[i] = up[i]
      BY <1>1, <1>3 DEF SessionTyped
<1>5. /\ Goes' = Goes /\ Serving' = Serving /\ Taken' = Taken
      /\ Complete' = Complete /\ PlanDone' = PlanDone
      BY <1>2 DEF Goes, Serving, Taken, Complete, PlanDone
<1>6. CallsOK' /\ AnswersOK' /\ ResultOK'
      BY <1>1, <1>2, <1>5 DEF CallsOK, AnswersOK, ResultOK
<1>7. FlowOK'
  <2> SUFFICES ASSUME Serving
               PROVE  /\ Taken + n <= sent
                      /\ \A i \in 1 .. n : up'[i] = script[Taken + i]
      BY <1>2, <1>4, <1>5 DEF FlowOK
  <2>1. Taken + Len(up) <= sent /\ \A i \in 1 .. Len(up) : up[i] = script[Taken + i]
        BY <1>1 DEF FlowOK
  <2>2. Taken \in Nat /\ Len(up) \in Nat /\ sent \in Nat /\ n \in Nat /\ n <= Len(up)
        BY <1>1 DEF Taken, SessionTyped
  <2>3. \A t, l, s, k \in Nat : t + l <= s /\ k <= l => t + k <= s  OBVIOUS
  <2> QED  BY <1>4, <2>1, <2>2, <2>3
<1>8. SessionTyped'  BY <1>1, <1>2, <1>4 DEF SessionTyped
<1> QED  BY <1>6, <1>7, <1>8 DEF IInv

LEMMA StepIsFine ==
    ASSUME IInv, [Next]_vars
    PROVE  IInv'
<1>1. CASE ClientStep \/ SourceFails  BY <1>1, ClientStepIsFine
<1>2. CASE HelperStep
      BY <1>2, ServeHelloIsFine, ServeRequestsIsFine, PlannedIsFine, WarningIsFine,
         ServeFilesIsFine, MovingIsFine
      DEF HelperStep
<1>3. CASE \E h \in Unreadable : WarnHead(h)  BY <1>3, WarningIsFine
<1>4. CASE Drain \/ HelperDies  BY <1>4, MovingIsFine
<1>5. CASE Interrupt  BY <1>5, InterruptIsFine
<1>6. CASE UNCHANGED vars
  <2>1. UNCHANGED <<sending, up, down, serving>>  BY <1>6 DEF vars, pipes
  <2> QED
      BY <2>1 DEF IInv, SessionTyped, FlowOK, CallsOK, AnswersOK, ResultOK, Complete,
                  PlanDone, Taken, Serving, Goes, sending, serving
<1> QED  BY <1>1, <1>2, <1>3, <1>4, <1>5, <1>6 DEF Next

LEMMA Invariance == Spec => []IInv
<1>1. Init => IInv  BY InitIsFine
<1>2. IInv /\ [Next]_vars => IInv'  BY StepIsFine
<1> QED  BY <1>1, <1>2, PTL DEF Spec

LEMMA SameStart ==
    ASSUME NEW s \in Seq(Frames), NEW t \in Seq(Frames), Len(s) <= Len(t),
           \A i \in 1 .. Len(s) : s[i] = t[i]
    PROVE  SubSeq(s, 1, Len(s)) = SubSeq(t, 1, Len(s))
OBVIOUS

LEMMA InvariantDrives ==
    ASSUME IInv
    PROVE  DrivenAsInProcess
<1>1. CallsOK /\ ResultOK /\ Session(script) /\ Len(applied) \in Nat
      BY DEF IInv, SessionTyped
<1> DEFINE made == [i \in DOMAIN applied |-> applied[i].call]
           n == Len(applied)
<1>2. Len(script) \in Nat /\ Len(script) >= 3  BY <1>1 DEF Session
<1>0. applied \in Seq([call : Frames, ok : BOOLEAN])  BY DEF IInv, SessionTyped
<1>3. DOMAIN applied = 1 .. n  BY <1>0
<1>4. Len(made) = n /\ \A i \in 1 .. n : made[i] = script[i + 2]
      BY <1>1, <1>3 DEF CallsOK
<1>5. /\ Calls \in Seq(Frames) /\ Len(Calls) = Len(script) - 2
      /\ \A i \in 1 .. Len(script) - 2 : Calls[i] = script[i + 2]
  <2>1. script \in Seq(Frames)  BY <1>1 DEF Session
  <2> QED  BY <1>2, <2>1 DEF Calls
<1>6. n <= Len(Calls)
  <2>1. n + 2 <= Len(script)  BY <1>1 DEF CallsOK
  <2>2. \A a, l \in Nat : a + 2 <= l => a <= l - 2  OBVIOUS
  <2> QED  BY <1>1, <1>2, <1>5, <2>1, <2>2
<1>7. SubSeq(made, 1, n) = SubSeq(Calls, 1, n)
  <2>1. ASSUME NEW i \in 1 .. n PROVE made[i] = Calls[i]
    <3>1. i \in 1 .. Len(script) - 2  BY <1>1, <1>2, <1>5, <1>6
    <3> QED  BY <1>4, <1>5, <3>1
  <2>2. made \in Seq(Frames)
    <3>1. \A i \in 1 .. n : applied[i].call \in Frames
      <4>1. \A i \in 1 .. n : applied[i] \in [call : Frames, ok : BOOLEAN]
            BY <1>0, ElementOfSeq
      <4>2. \A r \in [call : Frames, ok : BOOLEAN] : r.call \in Frames  OBVIOUS
      <4> QED  BY <4>1, <4>2
    <3>2. made \in [1 .. n -> Frames]  BY <1>3, <3>1
    <3> QED  BY <1>1, <3>2 DEF Seq
  <2>3. Calls \in Seq(Frames)  BY <1>5
  <2> HIDE DEF made, n
  <2> QED  BY <1>4, <1>6, <2>1, <2>2, <2>3, SameStart
<1>8. IsPrefix(made, Calls)  BY <1>4, <1>6, <1>7 DEF IsPrefix
<1>9. \A i \in DOMAIN applied : i < n => applied[i].ok  BY <1>1, <1>3 DEF CallsOK
<1>10. result = "ok" => n = Len(Calls) /\ \A i \in DOMAIN applied : applied[i].ok
  <2> SUFFICES ASSUME result = "ok"
               PROVE  n = Len(Calls) /\ \A i \in DOMAIN applied : applied[i].ok
      OBVIOUS
  <2>1. Complete  BY <1>1 DEF ResultOK
  <2>2. n + 2 = Len(script)  BY <2>1 DEF Complete
  <2>3. n + 2 <= Len(script) /\ Len(script) <= n + 2  BY <1>1, <1>2, <2>2
  <2>4. \A a, l \in Nat : a + 2 <= l /\ l <= a + 2 => a = l - 2  OBVIOUS
  <2>5. n = Len(Calls)  BY <1>1, <1>2, <1>5, <2>3, <2>4
  <2> QED  BY <1>3, <2>1, <2>5 DEF Complete
<1> QED  BY <1>8, <1>9, <1>10 DEF DrivenAsInProcess

\* Serve (server.go:31-163) calls the Receiver as the engine does in process:
\* in the order of the frames, none after a failure, none twice or left out;
\* and a Client that reports success (client.go:58-175) has had every call
\* made and every one succeed, whatever was buffered, interrupted or killed.
THEOREM RemoteIsDrivenAsInProcess == Spec => []DrivenAsInProcess
BY Invariance, InvariantDrives, PTL
=============================================================================
