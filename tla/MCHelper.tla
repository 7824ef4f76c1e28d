------------------------------ MODULE MCHelper ------------------------------
(* Small instances of Helper for TLC.                                      *)
EXTENDS Helper
\* A dry run, one file with more chunks than the pipe holds, two files.
MCTransfers == {<<>>, <<3>>, <<1, 2>>}
MCUnreadable == {"h1", "h2"}
=============================================================================
