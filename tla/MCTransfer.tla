----------------------------- MODULE MCTransfer -----------------------------
(* Small instances of Transfer for TLC.                                    *)
EXTENDS Transfer, TLC

CONSTANTS c1, c2, c3

MCPath == {1, 2, 3}
MCChunk == {c1, c2, c3}
MCTime == {0, 1, 2}
First(S) == CHOOSE p \in S : \A q \in S : p <= q
MCByPath == [S \in (SUBSET Path) \ {{}} |-> First(S)]

F(bytes, mtime) == [bytes |-> bytes, mtime |-> mtime]
Tree(a, b, c) == (1 :> a) @@ (2 :> b) @@ (3 :> c)

\* Two revisions: the second moves a chunk of file 1 to file 2.
Rev1 == (1 :> F(<<c1, c2>>, 1)) @@ (2 :> F(<<c3, c1>>, 1))
Rev2 == (1 :> F(<<c3, c3>>, 2)) @@ (2 :> F(<<c3, c2>>, 2))
MCManifests == {Rev1, Rev2}

\* Nothing there; the first revision and a stray file; one file of it, a
\* stray copy of old contents and a file with repeated chunks.
MCTrees == {
    Tree(None, None, None),
    Tree(F(<<c1, c2>>, 1), F(<<c3, c1>>, 1), F(<<c2>>, 0)),
    Tree(F(<<c2, c2>>, 0), None, F(<<c1>>, 0)) }

Opt(atomic, dedupe, fast, resume, delete, verify) ==
    [atomic |-> atomic, dedupe |-> dedupe, fast |-> fast, resume |-> resume,
     delete |-> delete, verify |-> verify, preserve |-> TRUE]
FileOptions == {
    Opt("file", TRUE, FALSE, FALSE, FALSE, TRUE),
    Opt("file", FALSE, TRUE, FALSE, TRUE, FALSE) }
ResumeOptions == { Opt("file", TRUE, FALSE, TRUE, TRUE, TRUE) }
ModelOptions == { Opt("model", TRUE, FALSE, TRUE, TRUE, TRUE),
                  Opt("model", FALSE, TRUE, FALSE, FALSE, FALSE) }
FastOptions == { Opt("file", TRUE, TRUE, FALSE, FALSE, TRUE) }
LiveOptions == FileOptions \union ResumeOptions
AllOptions == LiveOptions \union ModelOptions

\* A file edited in place, its size and mtime still those of Rev1.
DriftedTrees == { Tree(F(<<c3, c2>>, 1), None, None) }
=============================================================================
