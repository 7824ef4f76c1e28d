----------------------------- MODULE ModelSwap ------------------------------
(***************************************************************************)
(* What a transfer promises about the destination directory, without       *)
(* staging, chunks or indexes.  A run aims at one manifest; files turn     *)
(* into their new contents one at a time and each in a single step;        *)
(* extraneous files go, and the manifest is recorded, only once every file *)
(* of the manifest is in place.  A run may stop anywhere and another       *)
(* start.  A crash may undo what was not settled, path by path, and never  *)
(* leaves anything that was not there before.                              *)
(***************************************************************************)
CONSTANTS Path, None, Targets, Directories

VARIABLES
    tree,     \* the contents of each path, None where there is no file
    before,   \* the paths and contents that a crash may bring back
    target,   \* the manifest of the run in progress, None between runs
    recorded, \* the manifest last recorded beside the model
    former    \* the records a crash may bring back

vars == <<tree, before, target, recorded, former>>

InPlace == \A p \in DOMAIN target : tree[p] = target[p]

Init ==
    /\ tree \in Directories /\ target = None /\ recorded = None
    /\ before = {} /\ former = {}

Start == /\ target = None
         /\ target' \in Targets
         /\ UNCHANGED <<tree, before, recorded, former>>

\* What p was is gone for good, or a crash may bring it back.
Leave(p) == before' \in {{e \in before : e[1] # p}, before \union {<<p, tree[p]>>}}

Replace(p) ==
    /\ target # None
    /\ p \in DOMAIN target
    /\ tree' = [tree EXCEPT ![p] = target[p]]
    /\ Leave(p)
    /\ UNCHANGED <<target, recorded, former>>

Remove(p) ==
    /\ target # None
    /\ p \notin DOMAIN target
    /\ InPlace
    /\ tree' = [tree EXCEPT ![p] = None]
    /\ Leave(p)
    /\ UNCHANGED <<target, recorded, former>>

Record ==
    /\ target # None
    /\ InPlace
    /\ recorded' = target /\ target' = None
    /\ former' \in {{}, former \union {recorded}}
    /\ UNCHANGED <<tree, before>>

Stop == target' = None /\ UNCHANGED <<tree, before, recorded, former>>

Crash ==
    /\ tree' = [p \in Path |-> tree'[p]]
    /\ \A p \in Path : tree'[p] # tree[p] => <<p, tree'[p]>> \in before
    /\ recorded' \in {recorded} \union former
    /\ before' = {} /\ former' = {} /\ target' = None

Next == Start \/ (\E p \in Path : Replace(p) \/ Remove(p)) \/ Record \/ Stop \/ Crash

Spec == Init /\ [][Next]_vars
=============================================================================
