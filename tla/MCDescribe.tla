----------------------------- MODULE MCDescribe -----------------------------
(* A small instance of Describe for TLC.  Sizes are scaled down so that a   *)
(* file of a dozen bytes is large, and words have six bits.                *)
EXTENDS Describe

MCByte == {0, 1}
MCGear == [b \in MCByte |-> IF b = 0 THEN 32 ELSE 7]

Opt(avg, min, max) == [avg |-> avg, min |-> min, max |-> max]
MCSmall == Opt(5, 4, 8)
MCLarge == Opt(8, 4, 12)
MCHuge == Opt(10, 4, 16)

-----------------------------------------------------------------------------
(* Names, in byte order:                                                   *)
(*  1 .modelmove  2 a\b  3 blobs/sha256-...  4 config.json                 *)
(*  5 m-00001-of-00002.gguf  6 m-00001-of-00003.gguf                       *)
(*  7 m-00002-of-00002.gguf  8 manifests/m  9 notes.md                     *)
(* 10 t-00001-of-00002.model  11 t-00002-of-00002.model                    *)
(* 12 w.safetensors  13 w.safetensors.index.json                           *)

MCPath == 1 .. 13

Plain == [special |-> "none", ext |-> "none", blob |-> FALSE, listed |-> FALSE,
          family |-> 0, part |-> 0, total |-> 0, form |-> "clean"]
Part(ext, family, part, total) ==
    [Plain EXCEPT !.ext = ext, !.family = family, !.part = part, !.total = total]

MCName ==
    <<[Plain EXCEPT !.form = "state"], [Plain EXCEPT !.form = "backslash"],
      [Plain EXCEPT !.blob = TRUE],
      [Plain EXCEPT !.special = "config.json", !.ext = "text"],
      Part("gguf", 1, 1, 2), Part("gguf", 1, 1, 3), Part("gguf", 1, 2, 2),
      [Plain EXCEPT !.listed = TRUE], [Plain EXCEPT !.ext = "text"],
      Part("model", 2, 1, 2), Part("model", 2, 2, 2),
      [Plain EXCEPT !.ext = "safetensors"],
      [Plain EXCEPT !.special = "index", !.ext = "text"]>>

-----------------------------------------------------------------------------
(* Directories.                                                            *)

tiny == <<1>>
short == <<1, 0, 1, 1, 0>>
other == <<0, 0, 1, 1, 0>>
medium == <<1, 0, 0, 1, 0, 1, 1, 0, 1, 0, 1>>
long == medium \o <<0, 1, 1>> \o short
\* Longer than the largest buffer.
longest == long \o <<1, 1, 1>> \o long

HuggingFace == (4 :> short) @@ (12 :> medium) @@ (13 :> tiny)
Retrained == (4 :> short) @@ (12 :> other \o medium) @@ (13 :> tiny)
Sharded == (4 :> tiny) @@ (5 :> short) @@ (7 :> short)
Missing == (4 :> tiny) @@ (7 :> short)
Mixed == (5 :> short) @@ (6 :> other) @@ (7 :> tiny)
Ollama == (3 :> medium) @@ (8 :> tiny)
SmallBlob == (3 :> tiny) @@ (8 :> short)
Vocabulary == (10 :> short) @@ (11 :> medium)
Odd == (1 :> tiny) @@ (9 :> medium)
Escaped == (2 :> tiny) @@ (9 :> short)
Huge1 == 12 :> long
Huge2 == 12 :> longest
Empty == [p \in {} |-> <<>>]

-----------------------------------------------------------------------------
(* Commands.                                                               *)

Home == <<"m">>
Elsewhere == <<"host">>
Out == <<"n">>
Hidden == <<"m", ".o">>
Below == <<"m", "o">>

Describe(files, encoding) ==
    [tree |-> files, edits |-> {}, pin |-> Opt(0, 0, 0), source |-> Home, dest |-> Out,
     encoding |-> encoding]
Pinned(pin, dest) == [Describe(9 :> medium, "binary") EXCEPT !.pin = pin, !.dest = dest]
Between(src, dst) == [Describe(Empty, "json") EXCEPT !.source = src, !.dest = dst]

Edited(command) == [command EXCEPT !.edits = {tiny, medium}]

MCCommands ==
    {<<Describe(HuggingFace, "json"), Describe(Retrained, "binary")>>,
     <<Describe(Missing, "binary"), Edited(Describe(Sharded, "binary"))>>,
     <<Describe(Sharded, "binary"), Describe(Mixed, "json")>>,
     <<Describe(Ollama, "json"), Describe(Ollama, "binary")>>,
     <<Describe(SmallBlob, "json"), Describe(Ollama, "binary")>>,
     <<Describe(Empty, "binary")>>,
     <<Edited(Describe(Vocabulary, "binary"))>>, <<Edited(Describe(Odd, "binary"))>>,
     <<Describe(Escaped, "json")>>,
     <<[Describe(Huge1, "binary") EXCEPT !.dest = Elsewhere]>>, <<Describe(Huge2, "json")>>}
        \union {<<Pinned(Opt(avg, 0, 0), Out)>> : avg \in {3, 4, 16, 17, 23, 33, 40, 47, 63}}
        \union {<<Pinned(Opt(6, 4, 9), Elsewhere)>>, <<Pinned(Opt(0, 4, 5), Out)>>,
                <<Pinned(Opt(4, 0, 16), Out)>>}
        \union {<<Between(Home, dst)>> : dst \in {Home, Out, Hidden, Below}}
        \union {<<Between(src, Home)>> : src \in {Hidden, Below}}

MCStreams == {tiny, short, other, medium, long, longest, other \o medium}

\* Cut short, or one unit lost, repeated, exchanged, altered or added.
MCDamaged(u) ==
    {SubSeq(u, 1, n) : n \in 0 .. Len(u)}
        \union {RemoveAt(u, i) : i \in DOMAIN u}
        \union {InsertAt(u, i, u[i]) : i \in DOMAIN u}
        \union {[u EXCEPT ![i] = u[i + 1], ![i + 1] = u[i]] : i \in 1 .. Len(u) - 1}
        \union {[u EXCEPT ![i].nums = [k \in DOMAIN @ |-> @[k] + 1]] : i \in DOMAIN u}
        \union {Append(u, Str("more"))}
=============================================================================
