----------------------------- MODULE MCReceiver -----------------------------
(* Small instances of Receiver for TLC.                                    *)
EXTENDS Receiver, TLC

CONSTANTS c1, c2

MCPath == {1, 2}
MCChunk == {c1, c2}
MCTime == {0, 1, 2}
First(S) == CHOOSE p \in S : \A q \in S : p <= q
MCByPath == [S \in (SUBSET Path) \ {{}} |-> First(S)]

F(bytes, mtime) == [bytes |-> bytes, mtime |-> mtime]
\* Both revise file 1; only the first has file 2, which is in place until a
\* run of the second deletes it.
MCManifests == {
    (1 :> F(<<c1, c2>>, 1)) @@ (2 :> F(<<c1>>, 0)),
    (1 :> F(<<c2, c2>>, 2)) }
MCTrees == { (1 :> F(<<c2, c1>>, 1)) @@ (2 :> F(<<c1>>, 0)) }
Opt(atomic, dedupe, fast, resume, delete, verify) ==
    [atomic |-> atomic, dedupe |-> dedupe, fast |-> fast, resume |-> resume,
     delete |-> delete, verify |-> verify, preserve |-> TRUE]
MCOptions == {
    Opt("file", TRUE, FALSE, TRUE, FALSE, FALSE),
    Opt("model", TRUE, TRUE, FALSE, TRUE, TRUE) }
=============================================================================
