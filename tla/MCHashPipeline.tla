--------------------------- MODULE MCHashPipeline ---------------------------
(* A small instance of HashPipeline for TLC.                               *)
EXTENDS HashPipeline
CONSTANTS w1, w2
MCWorker == {w1, w2}
=============================================================================
