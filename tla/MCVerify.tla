------------------------------ MODULE MCVerify ------------------------------
(* A small instance of Scan and Verify for TLC: a hidden file, a file in a *)
(* directory, another at the root, and what is in a state directory.       *)
EXTENDS Verify

CONSTANTS a, b

Recorded == <<".modelmove", "r">>
Hidden == <<".h">>
Deep == <<"d", "x">>
Weight == <<"w">>

MCPath == {Hidden, Recorded, Deep, Weight}
MCRank == [p \in MCPath |-> CASE p = Hidden -> 1 [] p = Recorded -> 2
                               [] p = Deep -> 3 [] p = Weight -> 4]
MCChunk == {a, b}
MCHiddenNames == {".modelmove", ".h"}

Plain(bytes) == [kind |-> "file", bytes |-> bytes]
MCForms ==
    {Plain(<<a, a>>), Plain(<<a>>), [kind |-> "denied", bytes |-> <<a, b>>],
     [kind |-> "dead", bytes |-> <<>>], [kind |-> "loop", bytes |-> <<>>]}

Stamped(f) == [kind |-> f.kind, bytes |-> f.bytes, mtime |-> 0]
Holding(h, x, w) ==
    [p \in MCPath |->
        CASE p = Hidden -> h [] p = Recorded -> Stamped(Plain(<<a>>))
          [] p = Deep -> x [] OTHER -> w]
MCDirectories ==
    {Holding(Stamped(Plain(<<a>>)), Stamped(Plain(<<a, b>>)), Stamped(Plain(<<b>>))),
     Holding(None, Stamped([kind |-> "link", bytes |-> <<b>>]),
             Stamped([kind |-> "denied", bytes |-> <<a, b>>])),
     Holding(Stamped([kind |-> "dead", bytes |-> <<>>]),
             Stamped([kind |-> "link", bytes |-> <<a, b>>]), None)}

MCBuildOptions ==
    {[hidden |-> TRUE, follow |-> TRUE, exclude |-> {}],
     [hidden |-> FALSE, follow |-> FALSE, exclude |-> {<<"d">>}]}
MCVerifyOptions ==
    {[quick |-> FALSE, extra |-> FALSE], [quick |-> TRUE, extra |-> TRUE]}
=============================================================================
