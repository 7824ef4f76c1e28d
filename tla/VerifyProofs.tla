---------------------------- MODULE VerifyProofs ----------------------------
(***************************************************************************)
(* Whatever is done to the directory while Build reads it and afterwards,  *)
(* a file that has the time a manifest records has the bytes it records;   *)
(* and Build's error is never a cancellation nobody asked for.             *)
(***************************************************************************)
EXTENDS Verify, FiniteSetTheorems, TLAPS

\* Nothing in the directory, or seen there, is later than the last change.
TreeOK ==
    /\ changes \in Nat
    /\ dir \in [Path -> File \union {None}]
    /\ \A p \in Path : dir[p] # None => dir[p].mtime <= changes
    /\ entries \in [Path -> Nat \union {None}]
    /\ \A p \in Path : entries[p] # None => entries[p] <= changes

Step == {"idle", "open", "read", "done"}

\* The pool as Build finds and leaves it.
PoolOK ==
    /\ at \in [Path -> Step]
    /\ got \in [Path -> Seq(Chunk)]
    /\ handle \in [Path -> Seq(Chunk) \union {None, Follow}]
    /\ files \in [Path -> Result \union {None}]
    /\ \A p \in Path : at[p] = "read" => handle[p] # None
    /\ \A p \in Path : handle[p] = Follow => dir[p] # None
    /\ \A p \in Path : at[p] # "read" => got[p] = <<>>
    /\ \A p \in todo : at[p] = "idle"

Unread ==
    /\ at = Idle /\ files = NoEntries
    /\ got = [p \in Path |-> <<>>] /\ handle = [p \in Path |-> None]

\* The walk saw the file as it is now.
Current(p) == dir[p] # None /\ dir[p].mtime = entries[p]

Starts(b, g) == Len(g) <= Len(b) /\ \A i \in 1 .. Len(g) : g[i] = b[i]

\* What has been read, or is recorded, of a file that is as the walk saw it.
ReadOK(p) ==
    at[p] = "read" /\ Current(p) => handle[p] = Follow /\ Starts(dir[p].bytes, got[p])

FileOK(p) ==
    files[p] # None =>
        /\ files[p].mtime = entries[p]
        /\ Current(p) /\ ~ Cancelled => files[p].bytes = dir[p].bytes

HashOK == PoolOK /\ \A p \in Path : ReadOK(p) /\ FileOK(p)

ManifestOK ==
    manifest # None =>
        \A p \in DOMAIN manifest :
            /\ p \in Path
            /\ manifest[p] # None =>
                  /\ manifest[p].mtime \in Nat => manifest[p].mtime <= changes
                  /\ SameTime(p) => dir[p].bytes = manifest[p].bytes

IInv ==
    /\ TreeOK
    /\ pc = "walk" => Unread
    /\ pc = "hash" => HashOK
    /\ ManifestOK
    /\ BuildErrorIsCause

-----------------------------------------------------------------------------
(* The initial states.                                                     *)

LEMMA InitOK == VerifyInit => IInv
<1> SUFFICES ASSUME VerifyInit PROVE IInv
  OBVIOUS
<1>1. TreeOK
  BY ScanAssumption DEF VerifyInit, Init, TreeOK, NoEntries
<1>2. Unread /\ pc = "walk" /\ manifest = None
  BY DEF VerifyInit, Init, Unread
<1>3. BuildErrorIsCause
  BY ScanAssumption DEF VerifyInit, Init, BuildErrorIsCause
<1> QED
  BY <1>1, <1>2, <1>3 DEF IInv, ManifestOK

-----------------------------------------------------------------------------
(* The steps of Build.                                                     *)

\* A step that leaves the directory and the manifest alone keeps ManifestOK.
LEMMA ManifestKept ==
    ASSUME ManifestOK, UNCHANGED <<dir, changes, manifest>>
    PROVE  ManifestOK'
  BY DEF ManifestOK, SameTime

LEMMA WalkKeeps ==
    ASSUME IInv, WalkNext \/ WalkFails \/ WalkEnds
    PROVE  IInv'
<1>1. ManifestOK'
  BY ManifestKept DEF IInv, WalkNext, WalkFails, WalkEnds, tree
<1>2. CASE WalkNext
  <2>1. TreeOK'
    BY <1>2 DEF IInv, TreeOK, WalkNext, Look, tree, File
  <2>2. Unread' /\ pc' = "walk"
    BY <1>2 DEF IInv, Unread, WalkNext, pool, Idle, NoEntries
  <2>3. BuildErrorIsCause'
    BY <1>2 DEF IInv, WalkNext, BuildErrorIsCause
  <2> QED
    BY <1>1, <2>1, <2>2, <2>3 DEF IInv
<1>3. CASE WalkFails
  <2>1. TreeOK'
    BY <1>3 DEF IInv, TreeOK, WalkFails, tree, walk
  <2> QED
    BY <1>1, <1>3, <2>1 DEF IInv, WalkFails, BuildErrorIsCause
<1>4. CASE WalkEnds
  <2>1. TreeOK'
    BY <1>4 DEF IInv, TreeOK, WalkEnds, tree, walk
  <2>2. HashOK'
    <3>1. PoolOK'
      <4>1. /\ at' = [p \in Path |-> "idle"] /\ todo' = Found
            /\ files' = [p \in Path |-> None] /\ got' = [p \in Path |-> <<>>]
            /\ handle' = [p \in Path |-> None]
        BY <1>4 DEF IInv, Unread, WalkEnds, Idle, NoEntries
      <4>2. Found \subseteq Path
        BY DEF Found
      <4>3. None # Follow
        BY ScanAssumption
      <4> QED
        BY <4>1, <4>2, <4>3 DEF PoolOK, Step
    <3>2. \A p \in Path : ReadOK(p)' /\ FileOK(p)'
      BY <1>4 DEF IInv, Unread, WalkEnds, ReadOK, FileOK, Idle, NoEntries
    <3> QED
      BY <3>1, <3>2 DEF HashOK
  <2> QED
    BY <1>1, <1>4, <2>1, <2>2 DEF IInv, WalkEnds, BuildErrorIsCause
<1> QED
  BY <1>2, <1>3, <1>4

\* What every step of the pool has in common.
LEMMA HashFrame ==
    ASSUME IInv, pc = "hash", pc' = "hash",
           UNCHANGED <<tree, interrupted, walk, manifest>>,
           HashOK', BuildErrorIsCause'
    PROVE  IInv'
<1>1. TreeOK'
  BY DEF IInv, TreeOK, tree, walk
<1>2. ManifestOK'
  BY ManifestKept DEF IInv, tree
<1> QED
  BY <1>1, <1>2 DEF IInv

LEMMA LoopKeeps ==
    ASSUME IInv, HashLoop
    PROVE  IInv'
<1>1. HashOK /\ pc = "hash" /\ pc' = "hash"
  BY DEF IInv, HashLoop
<1>2. UNCHANGED <<dir, entries, got, handle, files, firstErr, interrupted>>
  BY DEF HashLoop, tree, walk, Spawn, StopSpawning
<1>3. ASSUME Spawn("open") PROVE HashOK'
  <2>1. PICK q \in Path : /\ q \in todo /\ todo' = todo \ {q}
                         /\ at' = [at EXCEPT ![q] = "open"]
    BY <1>3 DEF Spawn, IsFirst
  <2>2. PoolOK'
    BY <1>1, <1>2, <2>1 DEF HashOK, PoolOK, Step
  <2>3. \A p \in Path : ReadOK(p)' /\ FileOK(p)'
    BY <1>1, <1>2, <2>1 DEF HashOK, PoolOK, ReadOK, FileOK, Current, Starts, Cancelled
  <2> QED
    BY <2>2, <2>3 DEF HashOK
<1>4. ASSUME StopSpawning(Cancelled) PROVE HashOK'
  BY <1>1, <1>2, <1>4
  DEF StopSpawning, HashOK, PoolOK, ReadOK, FileOK, Current, Starts, Cancelled
<1>5. HashOK'
  BY <1>3, <1>4 DEF HashLoop
<1>6. BuildErrorIsCause'
  BY <1>2 DEF IInv, BuildErrorIsCause
<1> QED
  BY <1>1, <1>5, <1>6, HashFrame DEF HashLoop, tree, walk

LEMMA OpenKeeps ==
    ASSUME IInv, NEW q \in Path, OpenFile(q)
    PROVE  IInv'
<1>1. HashOK /\ pc = "hash" /\ pc' = "hash"
  BY DEF IInv, OpenFile
<1>2. /\ UNCHANGED <<dir, entries, todo, got, files, firstErr, interrupted>>
      /\ at[q] = "open"
      /\ at' = [at EXCEPT ![q] = "read"]
      /\ handle' = [handle EXCEPT ![q] = Follow]
  BY DEF OpenFile, OpenToRead, tree, walk
<1>3. PoolOK'
  BY <1>1, <1>2, ScanAssumption DEF HashOK, PoolOK, Step, IInv, TreeOK, OpenFile, OpenToRead, CanOpen
<1>4. ASSUME NEW p \in Path PROVE ReadOK(p)' /\ FileOK(p)'
  <2>1. FileOK(p)'
    BY <1>1, <1>2 DEF HashOK, FileOK, Current, Cancelled
  <2>2. CASE p = q
    <3>1. got'[p] = <<>>
      BY <1>1, <1>2, <2>2 DEF HashOK, PoolOK
    <3>2. dir[p] # None => dir[p].bytes \in Seq(Chunk)
      BY DEF IInv, TreeOK, File
    <3> QED
      BY <1>1, <1>2, <2>1, <2>2, <3>1, <3>2
      DEF HashOK, PoolOK, ReadOK, Starts, Current
  <2>3. CASE p # q
    BY <1>1, <1>2, <2>1, <2>3 DEF HashOK, PoolOK, ReadOK, Starts, Current
  <2> QED
    BY <2>2, <2>3
<1>5. BuildErrorIsCause'
  BY <1>2 DEF IInv, BuildErrorIsCause
<1>6. HashOK'
  BY <1>3, <1>4 DEF HashOK
<1> QED
  BY <1>1, <1>5, <1>6, HashFrame DEF OpenFile, tree, walk

LEMMA ReadKeeps ==
    ASSUME IInv, NEW q \in Path, ReadFile(q)
    PROVE  IInv'
<1>1. HashOK /\ pc = "hash" /\ pc' = "hash"
  BY DEF IInv, ReadFile
<1>2. /\ UNCHANGED <<dir, entries, todo, at, handle, files, firstErr, interrupted>>
      /\ at[q] = "read" /\ Len(got[q]) < Len(Bytes(q))
      /\ got' = [got EXCEPT ![q] = Append(got[q], Bytes(q)[Len(got[q]) + 1])]
  BY DEF ReadFile, ReadNext, tree, walk
<1>3. Bytes(q) \in Seq(Chunk) /\ got[q] \in Seq(Chunk)
  <2>1. handle[q] \in Seq(Chunk) \/ (handle[q] = Follow /\ dir[q] \in File)
    BY <1>1, <1>2 DEF HashOK, PoolOK, IInv, TreeOK
  <2>2. handle[q] \in Seq(Chunk) => handle[q] # Follow
    BY ScanAssumption
  <2> QED
    BY <1>1, <2>1, <2>2 DEF HashOK, PoolOK, Bytes, File
<1>4. got'[q] \in Seq(Chunk)
  <2>1. Len(got[q]) + 1 \in 1 .. Len(Bytes(q))
    BY <1>2, <1>3
  <2> QED
    BY <1>1, <1>2, <1>3, <2>1 DEF HashOK, PoolOK
<1>5. PoolOK'
  BY <1>1, <1>2, <1>4 DEF HashOK, PoolOK
<1>6. ASSUME NEW p \in Path PROVE ReadOK(p)' /\ FileOK(p)'
  <2>1. FileOK(p)'
    BY <1>1, <1>2 DEF HashOK, FileOK, Current, Cancelled
  <2>2. CASE p = q
    <3> SUFFICES ASSUME Current(q) PROVE ReadOK(q)'
      BY <1>2, <2>1, <2>2 DEF ReadOK, Current
    <3>1. handle[q] = Follow /\ Starts(dir[q].bytes, got[q])
      BY <1>1, <1>2 DEF HashOK, ReadOK
    <3>2. Starts(dir[q].bytes, Append(got[q], Bytes(q)[Len(got[q]) + 1]))
      BY <1>2, <1>3, <3>1 DEF Bytes, Starts
    <3> QED
      BY <1>1, <1>2, <3>1, <3>2 DEF ReadOK, HashOK, PoolOK
  <2>3. CASE p # q
    BY <1>1, <1>2, <2>1, <2>3 DEF HashOK, PoolOK, ReadOK, Starts, Current
  <2> QED
    BY <2>2, <2>3
<1>7. BuildErrorIsCause'
  BY <1>2 DEF IInv, BuildErrorIsCause
<1>8. HashOK'
  BY <1>5, <1>6 DEF HashOK
<1> QED
  BY <1>1, <1>7, <1>8, HashFrame DEF ReadFile, tree, walk

\* A goroutine that leaves, whatever it leaves behind.
LEMMA LeaveKeepsPool ==
    ASSUME PoolOK, NEW q \in Path, Leave(q), UNCHANGED dir,
           at[q] # "idle", files' \in [Path -> Result \union {None}]
    PROVE  PoolOK'
<1>1. at' = [at EXCEPT ![q] = "done"] /\ todo' = todo
  BY DEF Leave
<1>2. got' = [got EXCEPT ![q] = <<>>] /\ handle' = [handle EXCEPT ![q] = None]
  BY DEF Leave
<1>3. None # Follow
  BY ScanAssumption
<1> QED
  BY <1>1, <1>2, <1>3 DEF PoolOK, Step

LEMMA FailKeeps ==
    ASSUME IInv, NEW q \in Path, HashFails(q)
    PROVE  IInv'
<1>1. HashOK /\ pc = "hash" /\ pc' = "hash"
  BY DEF IInv, HashFails
<1>2. UNCHANGED <<dir, entries, files, interrupted>> /\ Leave(q) /\ at[q] # "idle"
  BY DEF HashFails, tree, walk
<1>3. PoolOK'
  BY <1>1, <1>2, LeaveKeepsPool DEF HashOK, PoolOK
<1>4. Cancelled => Cancelled'
  BY <1>2 DEF HashFails, Cancelled, Record
<1>5. ASSUME NEW p \in Path PROVE ReadOK(p)' /\ FileOK(p)'
  <2>1. FileOK(p)'
    BY <1>1, <1>2, <1>4 DEF HashOK, FileOK, Current
  <2>2. at'[p] = "read" => p # q /\ got'[p] = got[p] /\ handle'[p] = handle[p]
    BY <1>1, <1>2 DEF HashOK, PoolOK, Leave
  <2>3. at'[p] = "read" => at[p] = "read"
    BY <1>1, <1>2 DEF HashOK, PoolOK, Leave
  <2> QED
    BY <1>1, <1>2, <2>1, <2>2, <2>3 DEF HashOK, ReadOK, Starts, Current
<1>6. BuildErrorIsCause'
  BY <1>2 DEF IInv, HashFails, BuildErrorIsCause, Record, Cancelled
<1>7. HashOK'
  BY <1>3, <1>5 DEF HashOK
<1> QED
  BY <1>1, <1>6, <1>7, HashFrame DEF HashFails, tree, walk

\* Equal length and equal elements make equal sequences.
LEMMA WholeIsEqual ==
    ASSUME NEW S, NEW b \in Seq(S), NEW g \in Seq(S),
           Starts(b, g), Len(g) >= Len(b)
    PROVE  g = b
  BY DEF Starts

LEMMA EndKeeps ==
    ASSUME IInv, NEW q \in Path, HashEnds(q)
    PROVE  IInv'
<1>1. HashOK /\ pc = "hash" /\ pc' = "hash"
  BY DEF IInv, HashEnds
<1>2. /\ UNCHANGED <<dir, entries, interrupted, firstErr>>
      /\ Leave(q) /\ at[q] = "read"
  BY DEF HashEnds, AtEnd, tree, walk
<1>3. PICK bytes \in Seq(Chunk) :
          /\ files' = [files EXCEPT ![q] = [bytes |-> bytes, mtime |-> entries[q]]]
          /\ Cancelled \/ (AtEnd(q) /\ bytes = got[q])
  <2>1. got[q] \in Seq(Chunk)
    BY <1>1 DEF HashOK, PoolOK
  <2>2. ASSUME NEW n \in 0 .. Len(got[q]) PROVE SubSeq(got[q], 1, n) \in Seq(Chunk)
    BY <2>1
  <2> QED
    BY <2>1, <2>2 DEF HashEnds, Hashed
<1>4. PoolOK'
  <2>1. entries[q] \in Nat \union {None}
    BY DEF IInv, TreeOK
  <2>2. files' \in [Path -> Result \union {None}]
    BY <1>1, <1>3, <2>1 DEF HashOK, PoolOK, Result
  <2> QED
    BY <1>1, <1>2, <2>2, LeaveKeepsPool DEF HashOK
<1>5. ASSUME NEW p \in Path PROVE ReadOK(p)' /\ FileOK(p)'
  <2>1. FileOK(p)'
    <3>1. CASE p # q
      BY <1>1, <1>2, <1>3, <3>1 DEF HashOK, PoolOK, FileOK, Current, Cancelled
    <3>2. CASE p = q
      <4>1. files'[q] = [bytes |-> bytes, mtime |-> entries[q]]
        BY <1>1, <1>3 DEF HashOK, PoolOK
      <4> SUFFICES ASSUME Current(q), ~ Cancelled PROVE bytes = dir[q].bytes
        BY <1>2, <3>2, <4>1 DEF FileOK, Current, Cancelled
      <4>2. handle[q] = Follow /\ Starts(dir[q].bytes, got[q])
        BY <1>1, <1>2 DEF HashOK, ReadOK
      <4>3. bytes = got[q] /\ Len(got[q]) >= Len(dir[q].bytes)
        BY <1>3, <4>2 DEF AtEnd, Bytes
      <4>4. dir[q].bytes \in Seq(Chunk)
        BY DEF IInv, TreeOK, Current, File
      <4>5. got[q] \in Seq(Chunk)
        BY <1>1 DEF HashOK, PoolOK
      <4> QED
        BY <4>2, <4>3, <4>4, <4>5, WholeIsEqual
    <3> QED
      BY <3>1, <3>2
  <2>2. at'[p] = "read" => p # q /\ got'[p] = got[p] /\ handle'[p] = handle[p]
    BY <1>1, <1>2 DEF HashOK, PoolOK, Leave
  <2>3. at'[p] = "read" => at[p] = "read"
    BY <1>1, <1>2 DEF HashOK, PoolOK, Leave
  <2> QED
    BY <1>1, <1>2, <2>1, <2>2, <2>3 DEF HashOK, ReadOK, Starts, Current
<1>6. BuildErrorIsCause'
  BY <1>2 DEF IInv, BuildErrorIsCause
<1>7. HashOK'
  BY <1>4, <1>5 DEF HashOK
<1> QED
  BY <1>1, <1>6, <1>7, HashFrame DEF HashEnds, tree, walk

LEMMA BuildEndKeeps ==
    ASSUME IInv, BuildFails \/ BuildReturns
    PROVE  IInv'
<1>1. TreeOK'
  BY DEF IInv, TreeOK, BuildFails, BuildReturns, tree, walk
<1>2. BuildErrorIsCause'
  BY DEF IInv, BuildErrorIsCause, BuildFails, BuildReturns, Cancelled
<1>3. ManifestOK'
  <2>1. CASE BuildFails
    BY <2>1, ManifestKept DEF IInv, BuildFails, tree
  <2>2. CASE BuildReturns
    <3>1. HashOK /\ ~ Cancelled /\ UNCHANGED <<dir, changes, entries>>
      BY <2>2 DEF IInv, BuildReturns, tree, walk
    <3>2. manifest' = [p \in Found |-> files[p]] /\ Found \subseteq Path
      BY <2>2 DEF BuildReturns, Found
    <3> SUFFICES ASSUME NEW p \in Found, files[p] # None
                 PROVE  /\ files[p].mtime \in Nat => files[p].mtime <= changes
                        /\ dir[p] # None /\ dir[p].mtime = files[p].mtime
                             => dir[p].bytes = files[p].bytes
      BY <3>1, <3>2 DEF ManifestOK, SameTime
    <3>3. files[p].mtime = entries[p] /\ (Current(p) => files[p].bytes = dir[p].bytes)
      BY <3>1, <3>2 DEF HashOK, FileOK
    <3>4. entries[p] <= changes
      BY <3>2 DEF IInv, TreeOK, Found
    <3> QED
      BY <3>3, <3>4 DEF Current
  <2> QED
    BY <2>1, <2>2
<1> QED
  BY <1>1, <1>2, <1>3 DEF BuildFails, BuildReturns, IInv

-----------------------------------------------------------------------------
(* The directory changes.                                                  *)

LEMMA ChangeKeeps ==
    ASSUME IInv, NEW q \in Path, Change(q)
    PROVE  IInv'
<1>1. /\ changes' = changes + 1
      /\ UNCHANGED <<pc, interrupted, entries, todo, at, got, files, firstErr, manifest>>
  BY DEF Change, walk
<1>2. PICK f \in File \union {None} :
          /\ dir' = [dir EXCEPT ![q] = f]
          /\ f # None => f.mtime = changes + 1
          /\ \/ handle' = handle /\ (f # None \/ handle[q] # Follow)
             \/ handle[q] = Follow /\ handle' = [handle EXCEPT ![q] = dir[q].bytes]
  <2>1. changes + 1 \in Nat
    BY DEF IInv, TreeOK
  <2>2. ASSUME NEW f \in Forms
        PROVE  /\ [kind |-> f.kind, bytes |-> f.bytes, mtime |-> changes + 1] \in File
               /\ [kind |-> f.kind, bytes |-> f.bytes, mtime |-> changes + 1] # None
    BY <2>1, ScanAssumption DEF File
  <2>3. CASE dir' = [dir EXCEPT ![q] = None]
             /\ handle' = IF handle[q] # Follow THEN handle
                          ELSE [handle EXCEPT ![q] = dir[q].bytes]
    BY <2>3
  <2>4. CASE \E f \in Forms, inPlace \in BOOLEAN :
            /\ dir' = [dir EXCEPT ![q] = [kind |-> f.kind, bytes |-> f.bytes,
                                          mtime |-> changes + 1]]
            /\ handle' = IF inPlace \/ handle[q] # Follow THEN handle
                         ELSE [handle EXCEPT ![q] = dir[q].bytes]
    <3>1. PICK f \in Forms, inPlace \in BOOLEAN :
            /\ dir' = [dir EXCEPT ![q] = [kind |-> f.kind, bytes |-> f.bytes,
                                          mtime |-> changes + 1]]
            /\ handle' = IF inPlace \/ handle[q] # Follow THEN handle
                         ELSE [handle EXCEPT ![q] = dir[q].bytes]
      BY <2>4
    <3> DEFINE g == [kind |-> f.kind, bytes |-> f.bytes, mtime |-> changes + 1]
    <3>2. g \in File /\ g # None /\ g.mtime = changes + 1
      BY <2>2
    <3>3. dir' = [dir EXCEPT ![q] = g]
      BY <3>1
    <3> HIDE DEF g
    <3> QED
      BY <3>1, <3>2, <3>3
  <2> QED
    BY <2>3, <2>4 DEF Change
<1>3. TreeOK'
  <2>1. changes \in Nat /\ dir \in [Path -> File \union {None}]
    BY DEF IInv, TreeOK
  <2>2. changes' \in Nat /\ dir' \in [Path -> File \union {None}]
    BY <1>1, <1>2, <2>1
  <2>3. ASSUME NEW p \in Path, dir'[p] # None PROVE dir'[p].mtime <= changes'
    <3>1. CASE p = q
      BY <1>1, <1>2, <2>1, <2>3, <3>1
    <3>2. CASE p # q
      <4>1. dir'[p] = dir[p] /\ dir[p] \in File
        BY <1>2, <2>1, <2>3, <3>2
      <4>2. dir[p].mtime \in Nat /\ dir[p].mtime <= changes
        BY <2>3, <4>1 DEF IInv, TreeOK, File
      <4> QED
        BY <1>1, <2>1, <4>1, <4>2
    <3> QED
      BY <3>1, <3>2
  <2>4. ASSUME NEW p \in Path, entries'[p] # None PROVE entries'[p] <= changes'
    <3>1. entries[p] \in Nat /\ entries[p] <= changes
      BY <1>1, <2>4 DEF IInv, TreeOK
    <3> QED
      BY <1>1, <2>1, <3>1
  <2>5. entries' \in [Path -> Nat \union {None}]
    BY <1>1 DEF IInv, TreeOK
  <2> QED
    BY <2>2, <2>3, <2>4, <2>5 DEF TreeOK
<1>4. ManifestOK'
  <2> SUFFICES ASSUME NEW p \in DOMAIN manifest, manifest # None, manifest[p] # None
               PROVE  /\ manifest[p].mtime \in Nat => manifest[p].mtime <= changes + 1
                      /\ dir'[p] # None /\ dir'[p].mtime = manifest[p].mtime
                           => dir'[p].bytes = manifest[p].bytes
    BY <1>1 DEF IInv, ManifestOK, SameTime
  <2>1. /\ p \in Path
        /\ manifest[p].mtime \in Nat => manifest[p].mtime <= changes
        /\ SameTime(p) => dir[p].bytes = manifest[p].bytes
    BY DEF IInv, ManifestOK
  <2>2. changes \in Nat /\ dir \in [Path -> File \union {None}]
    BY DEF IInv, TreeOK
  <2>3. CASE p = q
    BY <1>2, <2>1, <2>2, <2>3 DEF SameTime
  <2>4. CASE p # q
    BY <1>2, <2>1, <2>2, <2>4 DEF SameTime
  <2> QED
    BY <2>3, <2>4
<1>5. BuildErrorIsCause'
  BY <1>1 DEF IInv, BuildErrorIsCause
<1>6. CASE pc = "walk"
  <2>1. handle' = handle
    BY <1>2, <1>6, ScanAssumption DEF IInv, Unread
  <2> QED
    BY <1>1, <1>3, <1>4, <1>5, <1>6, <2>1 DEF IInv, Unread
<1>7. CASE pc = "hash"
  <2>1. PoolOK /\ dir \in [Path -> File \union {None}] /\ changes \in Nat
    BY <1>7 DEF IInv, HashOK, TreeOK
  <2>2. PoolOK'
    <3>1. CASE handle' = handle /\ (f # None \/ handle[q] # Follow)
      BY <1>1, <1>2, <2>1, <3>1 DEF PoolOK
    <3>2. CASE handle[q] = Follow /\ handle' = [handle EXCEPT ![q] = dir[q].bytes]
      <4>1. dir[q].bytes \in Seq(Chunk)
        BY <2>1, <3>2 DEF PoolOK, File
      <4>2. dir[q].bytes # None /\ dir[q].bytes # Follow
        BY <4>1, ScanAssumption
      <4> QED
        BY <1>1, <1>2, <2>1, <3>2, <4>1, <4>2 DEF PoolOK
    <3> QED
      BY <1>2, <3>1, <3>2
  <2>3. ASSUME NEW p \in Path PROVE ReadOK(p)' /\ FileOK(p)'
    <3>1. CASE p = q
      <4>1. ~ Current(q)'
        BY <1>1, <1>2, <2>1, ScanAssumption DEF IInv, TreeOK, Current
      <4> QED
        BY <1>1, <1>7, <3>1, <4>1 DEF IInv, HashOK, ReadOK, FileOK
    <3>2. CASE p # q
      <4>1. handle'[p] = handle[p] /\ dir'[p] = dir[p]
        BY <1>2, <2>1, <3>2 DEF PoolOK
      <4> QED
        BY <1>1, <1>7, <4>1
        DEF IInv, HashOK, ReadOK, FileOK, Current, Cancelled, Starts
    <3> QED
      BY <3>1, <3>2
  <2> QED
    BY <1>1, <1>3, <1>4, <1>5, <1>7, <2>2, <2>3 DEF IInv, HashOK
<1>8. CASE pc \notin {"walk", "hash"}
  BY <1>1, <1>3, <1>4, <1>5, <1>8 DEF IInv
<1> QED
  BY <1>6, <1>7, <1>8

LEMMA InterruptKeeps ==
    ASSUME IInv, Interrupt
    PROVE  IInv'
<1>1. UNCHANGED <<tree, pc, walk, pool, files, firstErr, manifest>> /\ interrupted'
  BY DEF Interrupt
<1>2. UNCHANGED <<dir, changes, entries, todo, at, got, handle>>
  BY <1>1 DEF tree, walk, pool
<1>3. TreeOK' /\ ManifestOK' /\ BuildErrorIsCause'
  BY <1>1, <1>2, ManifestKept DEF IInv, TreeOK, BuildErrorIsCause
<1>4. pc = "walk" => Unread'
  BY <1>1, <1>2 DEF IInv, Unread
<1>5. pc = "hash" => HashOK'
  BY <1>1, <1>2 DEF IInv, HashOK, PoolOK, ReadOK, FileOK, Current, Starts, Cancelled
<1> QED
  BY <1>1, <1>3, <1>4, <1>5 DEF IInv

-----------------------------------------------------------------------------
(* A verification leaves all this alone.                                   *)

LEMMA VerifyFrame ==
    ASSUME IInv, pc \notin {"walk", "hash"}, pc' \notin {"walk", "hash"},
           UNCHANGED <<dir, changes, manifest, firstErr>>,
           interrupted => interrupted',
           entries' = entries \/ entries' = NoEntries
    PROVE  IInv'
<1>1. TreeOK'
  BY DEF IInv, TreeOK, NoEntries
<1>2. ManifestOK' /\ BuildErrorIsCause'
  BY ManifestKept DEF IInv, BuildErrorIsCause
<1> QED
  BY <1>1, <1>2 DEF IInv

LEMMA VerifyKeeps ==
    ASSUME IInv,
           \/ VerifyWithoutManifest \/ VerifyBegins
           \/ CheckLoop \/ ExtraNext \/ Ends
           \/ \E p \in Path : VerifyFile(p)
           \/ InterruptVerify
    PROVE  IInv'
<1>1. CASE ExtraNext
  <2>1. TreeOK'
    BY <1>1 DEF IInv, TreeOK, ExtraNext, Look, tree, File
  <2>2. ManifestOK' /\ BuildErrorIsCause'
    BY <1>1, ManifestKept DEF IInv, ExtraNext, BuildErrorIsCause, tree, built
  <2> QED
    BY <1>1, <2>1, <2>2 DEF IInv, ExtraNext
<1>2. CASE VerifyWithoutManifest
  BY <1>2, VerifyFrame DEF VerifyWithoutManifest, tree, walk, built
<1>3. CASE VerifyBegins
  BY <1>3, VerifyFrame DEF VerifyBegins, walk, built
<1>4. CASE CheckLoop
  BY <1>4, VerifyFrame DEF CheckLoop, tree, walk, built
<1>5. CASE Ends
  <2>1. CASE GiveUp
    BY <2>1, VerifyFrame DEF GiveUp, tree, walk, built
  <2>2. CASE Verdict
    BY <2>2, VerifyFrame DEF Verdict, tree, walk, built
  <2>3. CASE ExtraBegins
    BY <2>3, VerifyFrame DEF ExtraBegins, tree, built
  <2>4. CASE ExtraFails
    BY <2>4, VerifyFrame DEF ExtraFails, tree, walk, built
  <2>5. CASE ExtraEnds
    BY <2>5, VerifyFrame DEF ExtraEnds, tree, walk, built
  <2> QED
    BY <1>5, <2>1, <2>2, <2>3, <2>4, <2>5 DEF Ends
<1>6. ASSUME NEW p \in Path, VerifyFile(p) PROVE IInv'
  BY <1>6, VerifyFrame DEF VerifyFile, tree, walk, built
<1>7. CASE InterruptVerify
  BY <1>7, VerifyFrame DEF InterruptVerify, tree, walk, built
<1> QED
  BY <1>1, <1>2, <1>3, <1>4, <1>5, <1>6, <1>7

-----------------------------------------------------------------------------
(* The theorems.                                                           *)

LEMMA Unchanged ==
    ASSUME IInv, UNCHANGED allVars
    PROVE  IInv'
<1>1. UNCHANGED <<dir, changes, entries, pc, interrupted, todo, at, got,
                  handle, files, firstErr, manifest>>
  BY DEF allVars, vars, tree, walk, pool
<1>2. TreeOK' /\ ManifestOK' /\ BuildErrorIsCause'
  BY <1>1, ManifestKept DEF IInv, TreeOK, BuildErrorIsCause
<1>3. pc = "walk" => Unread'
  BY <1>1 DEF IInv, Unread
<1>4. pc = "hash" => HashOK'
  BY <1>1 DEF IInv, HashOK, PoolOK, ReadOK, FileOK, Current, Starts, Cancelled
<1> QED
  BY <1>1, <1>2, <1>3, <1>4 DEF IInv

\* One step of Build, of the directory or of Verify keeps the invariant.
LEMMA NextKeeps == IInv /\ [VerifyNext]_allVars => IInv'
<1> SUFFICES ASSUME IInv, [VerifyNext]_allVars PROVE IInv'
  OBVIOUS
<1>1. CASE Build
  <2>1. CASE WalkNext \/ WalkFails \/ WalkEnds
    BY <2>1, WalkKeeps
  <2>2. CASE HashLoop
    BY <2>2, LoopKeeps
  <2>3. CASE BuildFails \/ BuildReturns
    BY <2>3, BuildEndKeeps
  <2> QED
    BY <1>1, <2>1, <2>2, <2>3 DEF Build
<1>2. ASSUME NEW p \in Path, Hash(p) PROVE IInv'
  BY <1>2, OpenKeeps, ReadKeeps, FailKeeps, EndKeeps DEF Hash
<1>3. ASSUME NEW p \in Path, Change(p) PROVE IInv'
  BY <1>3, ChangeKeeps
<1>4. CASE Interrupt
  BY <1>4, InterruptKeeps
<1>5. CASE Next
  BY <1>1, <1>2, <1>3, <1>4, <1>5 DEF Next
<1>6. CASE UNCHANGED allVars
  BY <1>6, Unchanged
<1> QED
  BY <1>5, <1>6, VerifyKeeps DEF VerifyNext

LEMMA ScanInvariance == VerifySpec => []IInv
  BY InitOK, NextKeeps, PTL DEF VerifySpec

\* For every directory, every schedule of the pool and every sequence of
\* changes: a file that has the time the manifest records has the recorded
\* bytes, which is all --fast looks at (plan.go:132).
THEOREM FastIsFounded == VerifySpec => []TimeTellsContent
<1>1. IInv => TimeTellsContent
  BY DEF IInv, ManifestOK, TimeTellsContent, SameTime
<1> QED
  BY <1>1, ScanInvariance, PTL

\* Build reports a cancellation only if its caller cancelled (scan.go:238).
THEOREM BuildReportsCause == VerifySpec => []BuildErrorIsCause
<1>1. IInv => BuildErrorIsCause
  BY DEF IInv
<1> QED
  BY <1>1, ScanInvariance, PTL

-----------------------------------------------------------------------------
(* What Build and Verify say of the files that nobody touched meanwhile is *)
(* exact, for any directory, pool, schedule and changes elsewhere: the     *)
(* walk has seen such a file as it is, no result of it is missing when     *)
(* Build returns, and each step of its verification knows what the steps   *)
(* before it have found.                                                   *)


Wanted(p) == dir[p] # None /\ ~ Skipped(p) /\ Regular(dir[p])

\* What the walk knows of a path.
Seen(p) ==
    /\ p \in unseen => p \in Listing /\ entries[p] = None
    /\ p \notin unseen => entries[p] = IF Wanted(p) THEN dir[p].mtime ELSE None

WalkOK == pc \in {"walk", "hash", "extra"} => \A p \in Path \ touched : Seen(p)

\* No result is missing, unless the hashing was cancelled.
CollectOK ==
    pc = "hash" =>
        /\ unseen = {}
        /\ ~ Cancelled =>
             \A p \in Found : p \in todo \/ at[p] \in {"open", "read"} \/ files[p] # None

\* A verification starts with nothing read and nothing reported.
FreshOK ==
    /\ pc \in {"walk", "hash", "built"} =>
         /\ probed = [p \in Path |-> <<>>] /\ problem = [p \in Path |-> None]
         /\ okFiles = 0
    /\ pc = "built" => got = [p \in Path |-> <<>>] /\ DOMAIN handle = Path

ListedOK ==
    pc \in {"built", "check", "extra", "verdict"} =>
        /\ DOMAIN manifest \subseteq Path
        /\ \A p \in DOMAIN manifest : manifest[p] # None /\ manifest[p].bytes \in Seq(Chunk)

BuiltInv == WalkOK /\ CollectOK /\ FreshOK /\ ListedOK /\ ManifestIsSnapshot

-----------------------------------------------------------------------------
CheckStep == {"idle", "stat", "open", "read", "probe", "done"}

\* The pool of a verification.
TasksOK ==
    /\ at \in [Path -> CheckStep]
    /\ DOMAIN got = Path /\ DOMAIN handle = Path
    /\ probed \in [Path -> Seq(BOOLEAN)] /\ DOMAIN problem = Path
    /\ todo \subseteq DOMAIN manifest
    /\ \A p \in Path : at[p] # "idle" => p \in DOMAIN manifest /\ p \notin todo
    /\ ~ interrupted => \A p \in DOMAIN manifest : p \in todo \/ at[p] # "idle"
    /\ \A p \in Path : at[p] # "done" => problem[p] = None

SameLength(p) == Resolves(p) /\ Len(dir[p].bytes) = Len(manifest[p].bytes)
Reading(p) ==
    /\ CanOpen(p) /\ handle[p] = Follow
    /\ got[p] \in Seq(Chunk) /\ Starts(dir[p].bytes, got[p])
Probing(p) ==
    /\ ~ cfg.quick /\ dir[p].bytes # manifest[p].bytes
    /\ probed[p] \in Seq(BOOLEAN) /\ Len(probed[p]) <= Len(manifest[p].bytes)
    /\ \A i \in 1 .. Len(probed[p]) : probed[p][i] = (dir[p].bytes[i] = manifest[p].bytes[i])

\* What is known of a file at each step of its verification.
Known(p) ==
    /\ at[p] \in {"idle", "stat", "open"} => got[p] = <<>>
    /\ at[p] \in {"idle", "stat", "open", "read"} => probed[p] = <<>>
    /\ at[p] \in {"open", "read", "probe"} => SameLength(p)
    /\ at[p] \in {"read", "probe"} => Reading(p)
    /\ at[p] = "probe" => Probing(p)
    /\ at[p] = "done" /\ ~ interrupted => problem[p] = Expected(p)

\* Each file that matched has been counted, once.
Ok == {p \in DOMAIN manifest : at[p] = "done" /\ problem[p] = None}
CountOK == IsFiniteSet(Ok) /\ okFiles = Cardinality(Ok)

CheckOK ==
    pc = "check" => TasksOK /\ CountOK /\ \A p \in DOMAIN manifest \ touched : Known(p)

\* The pool has ended, with nobody cancelling before that.
ToldOK ==
    pc \in {"extra", "verdict"} =>
        /\ \A p \in DOMAIN manifest \ touched : problem[p] = Expected(p)
        /\ okFiles = Cardinality({p \in DOMAIN manifest : problem[p] = None})

IsExtra(p) ==
    /\ dir[p] # None /\ dir[p].kind \in {"file", "denied"}
    /\ \A k \in 1 .. Len(p) - 1 : p[k] # StateDir
ExtraOK ==
    /\ pc = "extra" => opt = ExtraOptions
    /\ pc = "verdict" /\ cfg.extra =>
         \A p \in Path \ (touched \union DOMAIN manifest) : p \in extra <=> IsExtra(p)

CheckInv == CheckOK /\ ToldOK /\ ExtraOK

SInv == IInv /\ BuiltInv /\ CheckInv
-----------------------------------------------------------------------------
(* Build.                                                                  *)

LEMMA SeenStays ==
    ASSUME NEW p \in Path, Seen(p), dir'[p] = dir[p], UNCHANGED walk
    PROVE  Seen(p)'
<1>1. UNCHANGED <<opt, unseen, entries>>  BY DEF walk
<1>2. Skipped(p)' <=> Skipped(p)
      BY <1>1 DEF Skipped, SkipsFile, SkipsDir, Hides, Excludes
<1>3. p \in Listing' <=> p \in Listing  BY <1>2 DEF Listing
<1>4. Wanted(p)' <=> Wanted(p)  BY <1>1, <1>2 DEF Wanted, Regular
<1> QED  BY <1>1, <1>3, <1>4 DEF Seen

\* A listing knows nothing of what it does not name.
LEMMA ListingSees ==
    ASSUME NEW p \in Path, unseen = Listing, entries = NoEntries
    PROVE  Seen(p)
  BY DEF Seen, Listing, Wanted, NoEntries

LEMMA LookSees ==
    ASSUME TreeOK, Look, UNCHANGED dir, NEW p \in Path, Seen(p)
    PROVE  Seen(p)'
<1>1. PICK q \in Path :
          /\ IsFirst(q, unseen) /\ dir[q] # None
          /\ entries' = [entries EXCEPT ![q] = IF Regular(dir[q]) THEN dir[q].mtime ELSE @]
          /\ unseen' = unseen \ {q}
      BY DEF Look
<1>2. opt' = opt  BY DEF Look
<1>3. Skipped(p)' <=> Skipped(p)
      BY <1>2 DEF Skipped, SkipsFile, SkipsDir, Hides, Excludes
<1>4. p \in Listing' <=> p \in Listing  BY <1>3 DEF Listing
<1>5. Wanted(p)' <=> Wanted(p)  BY <1>2, <1>3 DEF Wanted, Regular
<1>6. CASE p # q
  <2>1. entries'[p] = entries[p] /\ (p \in unseen' <=> p \in unseen)
        BY <1>1, <1>6 DEF TreeOK
  <2> QED  BY <2>1, <1>4, <1>5 DEF Seen
<1>7. CASE p = q
  <2>1. p \in unseen /\ p \notin unseen'  BY <1>1, <1>7 DEF IsFirst
  <2>2. p \in Listing /\ entries[p] = None  BY <2>1 DEF Seen
  <2>3. entries'[p] = IF Regular(dir[p]) THEN dir[p].mtime ELSE None
        BY <1>1, <1>7, <2>2 DEF TreeOK
  <2>4. Wanted(p) <=> Regular(dir[p])  BY <2>2 DEF Wanted, Listing
  <2> QED  BY <2>1, <2>3, <2>4, <1>5 DEF Seen
<1> QED  BY <1>6, <1>7

LEMMA SnapshotInit == VerifyInit => BuiltInv /\ CheckInv
<1> SUFFICES ASSUME VerifyInit PROVE BuiltInv /\ CheckInv  OBVIOUS
<1>1. pc = "walk" /\ unseen = Listing /\ entries = NoEntries
      BY DEF VerifyInit, Init
<1>2. WalkOK  BY <1>1, ListingSees DEF WalkOK
<1>3. FreshOK  BY <1>1 DEF FreshOK, VerifyInit
<1>4. CollectOK /\ ListedOK /\ ManifestIsSnapshot
      BY <1>1 DEF CollectOK, ListedOK, ManifestIsSnapshot
<1>5. CheckInv  BY <1>1 DEF CheckInv, CheckOK, ToldOK, ExtraOK
<1> QED  BY <1>2, <1>3, <1>4, <1>5 DEF BuiltInv

\* While Build runs nothing is said of a verification.
LEMMA NoCheckYet ==
    ASSUME pc' \notin {"check", "extra", "verdict"}
    PROVE  CheckInv'
  BY DEF CheckInv, CheckOK, ToldOK, ExtraOK

LEMMA WalkCollects ==
    ASSUME IInv, BuiltInv, UNCHANGED verifyVars, WalkNext \/ WalkFails \/ WalkEnds
    PROVE  BuiltInv'
<1>1. pc = "walk" /\ UNCHANGED <<dir, touched>>
      BY DEF WalkNext, WalkFails, WalkEnds, tree
<1>2. FreshOK'
      BY <1>1 DEF BuiltInv, FreshOK, verifyVars, report, WalkNext, WalkFails, WalkEnds
<1>3. ListedOK' /\ ManifestIsSnapshot'
      BY <1>1 DEF WalkNext, WalkFails, WalkEnds, ListedOK, ManifestIsSnapshot
<1>4. CASE WalkNext
  <2>1. pc' = "walk" /\ Look  BY <1>4 DEF WalkNext
  <2>2. WalkOK'
        BY <1>1, <2>1, LookSees DEF BuiltInv, WalkOK, IInv
  <2>3. CollectOK'  BY <1>1, <2>1 DEF CollectOK
  <2> QED  BY <1>2, <1>3, <2>2, <2>3 DEF BuiltInv
<1>5. CASE WalkFails
  <2>1. WalkOK' /\ CollectOK'  BY <1>5 DEF WalkFails, WalkOK, CollectOK
  <2> QED  BY <1>2, <1>3, <2>1 DEF BuiltInv
<1>6. CASE WalkEnds
  <2>1. pc' = "hash" /\ UNCHANGED walk /\ unseen = {} /\ todo' = Found
        BY <1>6 DEF WalkEnds
  <2>2. WalkOK'  BY <1>1, <2>1, SeenStays DEF BuiltInv, WalkOK
  <2>3. CollectOK'  BY <2>1 DEF CollectOK, walk, Found
  <2> QED  BY <1>2, <1>3, <2>2, <2>3 DEF BuiltInv
<1> QED  BY <1>4, <1>5, <1>6

\* The steps that leave pc at "hash".
LEMMA HashFrameBuilt ==
    ASSUME BuiltInv, pc = "hash", pc' = "hash", CollectOK',
           UNCHANGED <<tree, walk, verifyVars>>
    PROVE  BuiltInv'
<1>1. UNCHANGED <<dir, touched>>  BY DEF tree
<1>2. WalkOK'  BY <1>1, SeenStays DEF BuiltInv, WalkOK
<1>3. FreshOK'  BY DEF BuiltInv, FreshOK, verifyVars, report
<1>4. ListedOK' /\ ManifestIsSnapshot'  BY DEF ListedOK, ManifestIsSnapshot
<1> QED  BY <1>2, <1>3, <1>4 DEF BuiltInv

LEMMA HashCollects ==
    ASSUME IInv, BuiltInv, UNCHANGED verifyVars,
           HashLoop \/ \E q \in Path : Hash(q)
    PROVE  BuiltInv'
<1>1. /\ pc = "hash" /\ pc' = "hash" /\ UNCHANGED <<tree, walk, interrupted>>
      BY DEF HashLoop, Hash, OpenFile, ReadFile, HashFails, HashEnds
<1>2. /\ unseen' = {} /\ Found' = Found
      BY <1>1 DEF BuiltInv, CollectOK, walk, Found
<1>3. PoolOK  BY <1>1 DEF IInv, HashOK
<1>4. ASSUME ~ Cancelled
      PROVE  \A p \in Found : p \in todo \/ at[p] \in {"open", "read"} \/ files[p] # None
      BY <1>1, <1>4 DEF BuiltInv, CollectOK
<1>5. CASE HashLoop
  <2>1. UNCHANGED <<files, firstErr>>  BY <1>5 DEF HashLoop
  <2>2. Cancelled' <=> Cancelled  BY <2>1, <1>1 DEF Cancelled
  <2>3. ASSUME Spawn("open") PROVE CollectOK'
    <3>1. PICK q \in Path : todo' = todo \ {q} /\ at' = [at EXCEPT ![q] = "open"]
          BY <2>3 DEF Spawn
    <3>2. ASSUME ~ Cancelled, NEW p \in Found
          PROVE  p \in todo' \/ at'[p] \in {"open", "read"} \/ files'[p] # None
          BY <1>3, <1>4, <2>1, <3>1, <3>2 DEF PoolOK, Found
    <3> QED  BY <1>2, <2>2, <3>2 DEF CollectOK
  <2>4. ASSUME StopSpawning(Cancelled) PROVE CollectOK'
        BY <1>2, <2>2, <2>4 DEF CollectOK, StopSpawning
  <2>5. CollectOK'  BY <1>5, <2>3, <2>4 DEF HashLoop
  <2> QED  BY <1>1, <2>5, HashFrameBuilt
<1>6. ASSUME NEW q \in Path, OpenFile(q) PROVE BuiltInv'
  <2>1. /\ UNCHANGED <<files, firstErr, todo>> /\ at' = [at EXCEPT ![q] = "read"]
        BY <1>6 DEF OpenFile, OpenToRead
  <2>2. Cancelled' <=> Cancelled  BY <2>1, <1>1 DEF Cancelled
  <2>3. CollectOK'  BY <1>2, <1>3, <1>4, <2>1, <2>2 DEF CollectOK, PoolOK, Found
  <2> QED  BY <1>1, <2>3, HashFrameBuilt
<1>7. ASSUME NEW q \in Path, ReadFile(q) PROVE BuiltInv'
  <2>1. UNCHANGED <<files, firstErr, todo, at>>  BY <1>7 DEF ReadFile, ReadNext
  <2>2. Cancelled' <=> Cancelled  BY <2>1, <1>1 DEF Cancelled
  <2>3. CollectOK'  BY <1>2, <1>4, <2>1, <2>2 DEF CollectOK
  <2> QED  BY <1>1, <2>3, HashFrameBuilt
<1>8. ASSUME NEW q \in Path, HashFails(q) PROVE BuiltInv'
  <2>1. Cancelled'
        BY <1>8, ScanAssumption DEF HashFails, Record, Cancelled
  <2>2. CollectOK'  BY <1>2, <2>1 DEF CollectOK
  <2> QED  BY <1>1, <2>2, HashFrameBuilt
<1>9. ASSUME NEW q \in Path, HashEnds(q) PROVE BuiltInv'
  <2>1. /\ UNCHANGED <<firstErr, todo>> /\ at' = [at EXCEPT ![q] = "done"]
        BY <1>9 DEF HashEnds, Leave
  <2>2. PICK bytes \in Seq(Chunk) :
            files' = [files EXCEPT ![q] = [bytes |-> bytes, mtime |-> entries[q]]]
    <3>1. got[q] \in Seq(Chunk)  BY <1>3 DEF PoolOK
    <3>2. \A n \in 0 .. Len(got[q]) : SubSeq(got[q], 1, n) \in Seq(Chunk)  BY <3>1
    <3> QED  BY <1>9, <3>1, <3>2 DEF HashEnds, Hashed
  <2>3. files'[q] # None
    <3>1. files'[q] = [bytes |-> bytes, mtime |-> entries[q]]  BY <1>3, <2>2 DEF PoolOK
    <3>2. entries[q] \in Nat \union {None}  BY DEF IInv, TreeOK
    <3> QED  BY <3>1, <3>2, ScanAssumption DEF Result
  <2>4. Cancelled' <=> Cancelled  BY <2>1, <1>1 DEF Cancelled
  <2>5. ASSUME ~ Cancelled, NEW p \in Found
        PROVE  p \in todo' \/ at'[p] \in {"open", "read"} \/ files'[p] # None
        BY <1>3, <1>4, <2>1, <2>2, <2>3, <2>5 DEF PoolOK, Found
  <2>6. CollectOK'  BY <1>2, <2>4, <2>5 DEF CollectOK
  <2> QED  BY <1>1, <2>6, HashFrameBuilt
<1> QED  BY <1>5, <1>6, <1>7, <1>8, <1>9 DEF Hash

\* What Build returns, and what it leaves behind.
LEMMA ReturnCollects ==
    ASSUME IInv, BuiltInv, UNCHANGED verifyVars, BuildFails \/ BuildReturns
    PROVE  BuiltInv'
<1>1. pc = "hash" /\ pc' \notin {"walk", "hash", "extra"}
      BY DEF BuildFails, BuildReturns
<1>2. WalkOK' /\ CollectOK'  BY <1>1 DEF WalkOK, CollectOK
<1>3. CASE BuildFails
      BY <1>2, <1>3 DEF BuiltInv, BuildFails, FreshOK, ListedOK, ManifestIsSnapshot
<1>4. CASE BuildReturns
  <2>1. /\ pc' = "built" /\ todo = {} /\ Running = {} /\ ~ Cancelled
        /\ manifest' = [p \in Found |-> files[p]]
        /\ UNCHANGED <<dir, touched, opt, got, handle>>
        BY <1>4 DEF BuildReturns, PoolIsDone, tree, walk, pool
  <2>2. TreeOK /\ PoolOK /\ (\A p \in Path : FileOK(p)) /\ Found \subseteq Path
        BY <1>1 DEF IInv, HashOK, Found
  <2>3. \A p \in Path : at[p] \in {"idle", "done"}  BY <2>1 DEF Running
  <2>4. \A p \in Found : files[p] # None
        BY <1>1, <2>1, <2>2, <2>3 DEF BuiltInv, CollectOK
  <2>5. \A p \in Found : files[p].bytes \in Seq(Chunk)
        BY <2>2, <2>4 DEF PoolOK, Result
  <2>6. ListedOK'  BY <2>1, <2>2, <2>4, <2>5 DEF ListedOK
  <2>7. FreshOK'
    <3>1. got = [p \in Path |-> <<>>] /\ DOMAIN handle = Path
          BY <2>2, <2>3 DEF PoolOK
    <3>2. UNCHANGED <<probed, problem, okFiles>>  BY DEF verifyVars, report
    <3> QED  BY <1>1, <2>1, <3>1, <3>2 DEF BuiltInv, FreshOK
  <2>8. ManifestIsSnapshot'
    <3>1. ASSUME NEW p \in Path \ touched
          PROVE  /\ p \in Found <=> Wanted(p)
                 /\ Wanted(p) => files[p] = [bytes |-> dir[p].bytes, mtime |-> dir[p].mtime]
      <4>1. entries[p] = IF Wanted(p) THEN dir[p].mtime ELSE None
            BY <1>1 DEF BuiltInv, WalkOK, CollectOK, Seen
      <4>2. Wanted(p) => dir[p].mtime # None
            BY <2>2, ScanAssumption DEF Wanted, TreeOK, File
      <4>3. p \in Found <=> Wanted(p)  BY <4>1, <4>2 DEF Found
      <4>4. ASSUME Wanted(p)
            PROVE  files[p] = [bytes |-> dir[p].bytes, mtime |-> dir[p].mtime]
        <5>1. Current(p)  BY <4>1, <4>4 DEF Current, Wanted
        <5>2. files[p] # None  BY <2>4, <4>3, <4>4
        <5>3. files[p].bytes = dir[p].bytes /\ files[p].mtime = entries[p]
              BY <2>1, <2>2, <5>1, <5>2 DEF FileOK
        <5>4. files[p] \in Result  BY <2>2, <5>2 DEF PoolOK
        <5> QED  BY <4>1, <4>4, <5>3, <5>4 DEF Result
      <4> QED  BY <4>3, <4>4
    <3>2. \A p \in Path : Wanted(p)' <=> Wanted(p)
          BY <2>1 DEF Wanted, Regular, Skipped, SkipsFile, SkipsDir, Hides, Excludes
    <3>3. DOMAIN manifest' = Found /\ \A p \in Found : manifest'[p] = files[p]
          BY <2>1
    <3>4. ASSUME NEW p \in Path \ touched
          PROVE  /\ p \in DOMAIN manifest' <=> Wanted(p)'
                 /\ Wanted(p)' =>
                      manifest'[p] = [bytes |-> dir'[p].bytes, mtime |-> dir'[p].mtime]
          BY <2>1, <3>1, <3>2, <3>3
    <3> QED  BY <2>1, <3>4 DEF ManifestIsSnapshot, Wanted
  <2> QED  BY <1>2, <2>6, <2>7, <2>8 DEF BuiltInv
<1> QED  BY <1>3, <1>4

LEMMA BuildKeeps ==
    ASSUME IInv, BuiltInv, UNCHANGED verifyVars, Build \/ \E p \in Path : Hash(p)
    PROVE  BuiltInv' /\ CheckInv'
<1>1. BuiltInv'
      BY WalkCollects, HashCollects, ReturnCollects DEF Build
<1>2. pc' \notin {"check", "extra", "verdict"}
      BY DEF Build, WalkNext, WalkFails, WalkEnds, HashLoop, BuildFails, BuildReturns,
             Hash, OpenFile, ReadFile, HashFails, HashEnds
<1> QED  BY <1>1, <1>2, NoCheckYet

LEMMA InterruptKeepsSnapshot ==
    ASSUME IInv, BuiltInv, UNCHANGED verifyVars, Interrupt
    PROVE  BuiltInv' /\ CheckInv'
<1>1. /\ pc \in {"walk", "hash"} /\ pc' = pc /\ interrupted'
      /\ UNCHANGED <<dir, touched, walk, unseen, todo, at, files>>
      BY DEF Interrupt, tree, walk, pool
<1>2. WalkOK'  BY <1>1, SeenStays DEF BuiltInv, WalkOK
<1>3. CollectOK'  BY <1>1 DEF BuiltInv, CollectOK, Cancelled
<1>4. FreshOK'  BY <1>1 DEF BuiltInv, FreshOK, verifyVars, report
<1>5. ListedOK' /\ ManifestIsSnapshot'  BY <1>1 DEF ListedOK, ManifestIsSnapshot
<1> QED  BY <1>1, <1>2, <1>3, <1>4, <1>5, NoCheckYet DEF BuiltInv

-----------------------------------------------------------------------------
(* A change tells nothing of the files it does not touch.                  *)

LEMMA ChangeKeepsBuilt ==
    ASSUME IInv, BuiltInv, UNCHANGED verifyVars, NEW q \in Path, Change(q)
    PROVE  BuiltInv'
<1>1. /\ touched' = touched \union {q}
      /\ UNCHANGED <<pc, interrupted, walk, todo, at, got, files, firstErr, manifest>>
      BY DEF Change
<1>2. UNCHANGED <<opt, unseen, entries>>  BY <1>1 DEF walk
<1>3. \A p \in Path \ {q} : dir'[p] = dir[p]
      BY DEF IInv, TreeOK, Change
<1>4. DOMAIN handle' = DOMAIN handle  BY DEF Change
<1>5. WalkOK'
  <2> SUFFICES ASSUME pc \in {"walk", "hash", "extra"}, NEW p \in Path \ touched'
               PROVE  Seen(p)'
      BY <1>1 DEF WalkOK
  <2>1. p # q /\ p \in Path \ touched  BY <1>1
  <2> QED  BY <1>1, <1>3, <2>1, SeenStays DEF BuiltInv, WalkOK
<1>6. CollectOK'
      BY <1>1, <1>2 DEF BuiltInv, CollectOK, Cancelled, Found
<1>7. FreshOK'
      BY <1>1, <1>4 DEF BuiltInv, FreshOK, verifyVars, report
<1>8. ListedOK'  BY <1>1 DEF BuiltInv, ListedOK
<1>9. ManifestIsSnapshot'
  <2> SUFFICES ASSUME pc = "built", NEW p \in Path \ touched'
               PROVE  /\ p \in DOMAIN manifest <=> Wanted(p)'
                      /\ Wanted(p)' => manifest[p] = [bytes |-> dir'[p].bytes,
                                                      mtime |-> dir'[p].mtime]
      BY <1>1 DEF ManifestIsSnapshot, Wanted
  <2>1. p \in Path \ touched /\ dir'[p] = dir[p]  BY <1>1, <1>3
  <2>2. Wanted(p)' <=> Wanted(p)
        BY <1>2, <2>1 DEF Wanted, Regular, Skipped, SkipsFile, SkipsDir, Hides, Excludes
  <2> QED  BY <2>1, <2>2 DEF BuiltInv, ManifestIsSnapshot, Wanted
<1> QED  BY <1>5, <1>6, <1>7, <1>8, <1>9 DEF BuiltInv

-----------------------------------------------------------------------------
(* Verify.                                                                 *)

LEMMA VerifyKeepsBuilt ==
    ASSUME IInv, BuiltInv,
           \/ VerifyWithoutManifest \/ VerifyBegins
           \/ CheckLoop \/ ExtraNext \/ Ends
           \/ \E p \in Path : VerifyFile(p)
           \/ InterruptVerify
    PROVE  BuiltInv'
<1>1. /\ pc' \notin {"walk", "hash", "built"} /\ manifest' = manifest
      /\ pc' \in {"check", "extra", "verdict"} => pc \in {"built", "check", "extra"}
      BY DEF VerifyWithoutManifest, VerifyBegins, CheckLoop, ExtraNext, Ends, GiveUp, Verdict,
             ExtraBegins, ExtraFails, ExtraEnds, VerifyFile, InterruptVerify, built
<1>2. CollectOK' /\ FreshOK' /\ ManifestIsSnapshot'
      BY <1>1 DEF CollectOK, FreshOK, ManifestIsSnapshot
<1>3. ListedOK'  BY <1>1 DEF BuiltInv, ListedOK
<1>4. CASE ExtraBegins
  <2>1. unseen' = Listing' /\ entries' = NoEntries  BY <1>4 DEF ExtraBegins
  <2>2. \A p \in Path : Seen(p)'  BY <2>1 DEF Seen, Listing, Wanted, NoEntries
  <2>3. WalkOK'  BY <2>2 DEF WalkOK
  <2> QED  BY <1>2, <1>3, <2>3 DEF BuiltInv
<1>5. CASE ExtraNext
  <2>1. pc = "extra" /\ Look /\ UNCHANGED <<dir, touched>>  BY <1>5 DEF ExtraNext, tree
  <2>2. WalkOK'  BY <2>1, LookSees DEF BuiltInv, WalkOK, IInv
  <2> QED  BY <1>2, <1>3, <2>2 DEF BuiltInv
<1>6. CASE InterruptVerify
  <2>1. pc' = pc /\ UNCHANGED <<dir, touched, walk>>  BY <1>6 DEF InterruptVerify, tree
  <2>2. WalkOK'  BY <2>1, SeenStays DEF BuiltInv, WalkOK
  <2> QED  BY <1>2, <1>3, <2>2 DEF BuiltInv
<1>7. CASE ~ (ExtraBegins \/ ExtraNext \/ InterruptVerify)
  <2>1. pc' \notin {"walk", "hash", "extra"}
        BY <1>7 DEF VerifyWithoutManifest, VerifyBegins, CheckLoop, Ends, GiveUp, Verdict,
                    ExtraFails, ExtraEnds, VerifyFile
  <2>2. WalkOK'  BY <2>1 DEF WalkOK
  <2> QED  BY <1>2, <1>3, <2>2 DEF BuiltInv
<1> QED  BY <1>4, <1>5, <1>6, <1>7

\* What is known of a file stays known as long as nobody works on it.
LEMMA KnownStays ==
    ASSUME NEW p, Known(p), dir'[p] = dir[p], UNCHANGED <<manifest, cfg>>,
           interrupted => interrupted', at'[p] = at[p], got'[p] = got[p],
           handle'[p] = handle[p], probed'[p] = probed[p], problem'[p] = problem[p]
    PROVE  Known(p)'
<1>1. Expected(p)' = Expected(p)  BY DEF Expected, Resolves, CanOpen
<1>2. (SameLength(p)' <=> SameLength(p)) /\ (Reading(p)' <=> Reading(p))
      BY DEF SameLength, Resolves, Reading, CanOpen, Starts
<1>3. Probing(p)' <=> Probing(p)  BY DEF Probing
<1> QED  BY <1>1, <1>2, <1>3 DEF Known

LEMMA CheckBegins ==
    ASSUME BuiltInv, VerifyBegins
    PROVE  CheckInv'
<1>1. /\ pc = "built" /\ pc' = "check" /\ todo' = DOMAIN manifest /\ at' = Idle
      /\ UNCHANGED <<got, handle, probed, problem, okFiles, manifest>>
      BY DEF VerifyBegins, built, report
<1>2. /\ got = [p \in Path |-> <<>>] /\ probed = [p \in Path |-> <<>>]
      /\ problem = [p \in Path |-> None] /\ okFiles = 0 /\ DOMAIN handle = Path
      /\ DOMAIN manifest \subseteq Path
      BY <1>1 DEF BuiltInv, FreshOK, ListedOK
<1>3. TasksOK'  BY <1>1, <1>2 DEF TasksOK, Idle, CheckStep
<1>4. CountOK'
  <2>1. Ok' = {}  BY <1>1, <1>2 DEF Ok, Idle
  <2> QED  BY <1>1, <1>2, <2>1, FS_EmptySet DEF CountOK
<1>5. \A p \in DOMAIN manifest' : Known(p)'  BY <1>1, <1>2 DEF Known, Idle
<1> QED  BY <1>1, <1>3, <1>4, <1>5 DEF CheckInv, CheckOK, ToldOK, ExtraOK

LEMMA LoopKeepsCheck ==
    ASSUME BuiltInv, CheckInv, CheckLoop
    PROVE  CheckInv'
<1>1. /\ pc = "check" /\ pc' = "check"
      /\ UNCHANGED <<dir, touched, interrupted, got, handle, manifest, cfg, probed,
                     problem, okFiles>>
      BY DEF CheckLoop, tree, built, verifyVars, report, Spawn, StopSpawning
<1>2. TasksOK /\ CountOK /\ \A p \in DOMAIN manifest \ touched : Known(p)
      BY <1>1 DEF CheckInv, CheckOK
<1>3. DOMAIN manifest \subseteq Path  BY <1>1 DEF BuiltInv, ListedOK
<1>4. CASE Spawn("stat")
  <2>1. PICK q \in Path : /\ q \in todo /\ todo' = todo \ {q}
                         /\ at' = [at EXCEPT ![q] = "stat"]
        BY <1>4 DEF Spawn, IsFirst
  <2>2. at[q] = "idle" /\ q \in DOMAIN manifest  BY <1>2, <2>1 DEF TasksOK
  <2>3. TasksOK'
        BY <1>1, <1>2, <2>1, <2>2 DEF TasksOK, CheckStep
  <2>4. CountOK'
    <3>1. Ok' = Ok  BY <1>1, <1>2, <1>3, <2>1, <2>2 DEF Ok, TasksOK
    <3> QED  BY <1>1, <1>2, <3>1 DEF CountOK
  <2>5. ASSUME NEW p \in DOMAIN manifest \ touched PROVE Known(p)'
    <3>1. CASE p = q
          BY <1>1, <1>2, <2>1, <2>2, <2>5, <3>1 DEF Known, TasksOK
    <3>2. CASE p # q
      <4>1. at'[p] = at[p]  BY <2>1, <3>2, <1>2, <1>3, <2>5 DEF TasksOK
      <4> QED  BY <1>1, <1>2, <2>5, <4>1, KnownStays
    <3> QED  BY <3>1, <3>2
  <2> QED  BY <1>1, <2>3, <2>4, <2>5 DEF CheckInv, CheckOK, ToldOK, ExtraOK
<1>5. CASE StopSpawning(interrupted)
  <2>1. todo' = {} /\ at' = at /\ interrupted  BY <1>5 DEF StopSpawning
  <2>2. TasksOK'  BY <1>1, <1>2, <2>1 DEF TasksOK
  <2>3. CountOK'  BY <1>1, <1>2, <2>1 DEF CountOK, Ok
  <2>4. \A p \in DOMAIN manifest \ touched : Known(p)'
        BY <1>1, <1>2, <2>1, KnownStays
  <2> QED  BY <1>1, <2>2, <2>3, <2>4 DEF CheckInv, CheckOK, ToldOK, ExtraOK
<1> QED  BY <1>4, <1>5 DEF CheckLoop

LEMMA InterruptKeepsCheck ==
    ASSUME CheckInv, InterruptVerify
    PROVE  CheckInv'
<1>1. /\ pc \in {"check", "extra"} /\ pc' = pc /\ interrupted'
      /\ UNCHANGED <<dir, touched, opt, todo, at, got, handle, manifest, cfg, probed,
                     problem, okFiles>>
      BY DEF InterruptVerify, tree, walk, pool, built, verifyVars, report
<1>2. CASE pc = "check"
  <2>1. TasksOK /\ CountOK /\ \A p \in DOMAIN manifest \ touched : Known(p)
        BY <1>2 DEF CheckInv, CheckOK
  <2>2. TasksOK'  BY <1>1, <2>1 DEF TasksOK
  <2>3. CountOK'  BY <1>1, <2>1 DEF CountOK, Ok
  <2>4. \A p \in DOMAIN manifest \ touched : Known(p)'  BY <1>1, <2>1, KnownStays
  <2> QED  BY <1>1, <1>2, <2>2, <2>3, <2>4 DEF CheckInv, CheckOK, ToldOK, ExtraOK
<1>3. CASE pc = "extra"
  <2>1. \A p : Expected(p)' = Expected(p)
        BY <1>1 DEF Expected, Resolves, CanOpen
  <2>2. ToldOK'  BY <1>1, <1>3, <2>1 DEF CheckInv, ToldOK
  <2> QED  BY <1>1, <1>3, <2>2 DEF CheckInv, CheckOK, ExtraOK
<1> QED  BY <1>1, <1>2, <1>3

\* A step of one file's goroutine says nothing of the others.
LEMMA TaskFrame ==
    ASSUME BuiltInv, CheckInv, pc = "check", NEW q \in Path, at[q] \notin {"idle", "done"},
           UNCHANGED <<tree, pc, interrupted, manifest, cfg, todo>>,
           at' = [at EXCEPT ![q] = at'[q]], at'[q] \in CheckStep \ {"idle"},
           \A p \in Path \ {q} : /\ got'[p] = got[p] /\ handle'[p] = handle[p]
                                 /\ probed'[p] = probed[p] /\ problem'[p] = problem[p],
           DOMAIN got' = Path, DOMAIN handle' = Path,
           probed' \in [Path -> Seq(BOOLEAN)], DOMAIN problem' = Path,
           at'[q] # "done" => problem'[q] = None,
           CountOK', q \notin touched => Known(q)'
    PROVE  CheckInv'
<1>1. TasksOK /\ \A p \in DOMAIN manifest \ touched : Known(p)
      BY DEF CheckInv, CheckOK
<1>2. UNCHANGED <<dir, touched>>  BY DEF tree
<1>3. DOMAIN manifest \subseteq Path  BY DEF BuiltInv, ListedOK
<1>4. \A p \in Path \ {q} : at'[p] = at[p]  BY <1>1 DEF TasksOK
<1>5. TasksOK'
  <2>1. at' \in [Path -> CheckStep]  BY <1>1 DEF TasksOK
  <2>2. q \in DOMAIN manifest /\ q \notin todo  BY <1>1 DEF TasksOK
  <2>3. \A p \in Path : at'[p] # "idle" => p \in DOMAIN manifest /\ p \notin todo
        BY <1>1, <1>4, <2>2 DEF TasksOK
  <2>4. ~ interrupted => \A p \in DOMAIN manifest : p \in todo \/ at'[p] # "idle"
        BY <1>1, <1>3, <1>4 DEF TasksOK
  <2>5. \A p \in Path : at'[p] # "done" => problem'[p] = None
        BY <1>1, <1>4 DEF TasksOK
  <2> QED  BY <1>1, <2>1, <2>3, <2>4, <2>5 DEF TasksOK
<1>6. ASSUME NEW p \in DOMAIN manifest \ touched PROVE Known(p)'
  <2>1. CASE p = q  BY <1>6, <2>1
  <2>2. CASE p # q  BY <1>1, <1>2, <1>3, <1>4, <1>6, <2>2, KnownStays
  <2> QED  BY <2>1, <2>2
<1> QED  BY <1>2, <1>5, <1>6 DEF CheckInv, CheckOK, ToldOK, ExtraOK

\* The file that a goroutine works on.
LEMMA TaskFacts ==
    ASSUME BuiltInv, CheckInv, NEW q \in Path, pc = "check", at[q] \notin {"idle", "done"}
    PROVE  /\ q \in DOMAIN manifest /\ manifest[q].bytes \in Seq(Chunk)
           /\ problem[q] = None /\ q \notin Ok /\ TasksOK /\ CountOK
           /\ q \notin touched => Known(q)
<1>1. TasksOK /\ CountOK /\ \A p \in DOMAIN manifest \ touched : Known(p)
      BY DEF CheckInv, CheckOK
<1>2. q \in DOMAIN manifest /\ problem[q] = None  BY <1>1 DEF TasksOK
<1> QED  BY <1>1, <1>2 DEF BuiltInv, ListedOK, Ok

\* A goroutine that goes on counts nothing.
LEMMA CountStays ==
    ASSUME TasksOK, CountOK, NEW q \in Path, q \notin Ok,
           UNCHANGED <<manifest, okFiles>>, DOMAIN manifest \subseteq Path,
           at' = [at EXCEPT ![q] = at'[q]],
           \A p \in Path \ {q} : problem'[p] = problem[p],
           at'[q] # "done" \/ problem'[q] # None
    PROVE  CountOK'
<1>1. Ok' = Ok  BY DEF TasksOK, Ok
<1> QED  BY <1>1 DEF CountOK

\* A goroutine that goes on to another step.
LEMMA GoesOn ==
    ASSUME BuiltInv, CheckInv, pc = "check", NEW q \in Path, at[q] \notin {"idle", "done"},
           UNCHANGED <<tree, pc, interrupted, manifest, cfg, todo, problem, okFiles>>,
           NEW step \in CheckStep \ {"idle", "done"}, at' = [at EXCEPT ![q] = step],
           \A p \in Path \ {q} : /\ got'[p] = got[p] /\ handle'[p] = handle[p]
                                 /\ probed'[p] = probed[p],
           DOMAIN got' = Path, DOMAIN handle' = Path, probed' \in [Path -> Seq(BOOLEAN)],
           q \notin touched => Known(q)'
    PROVE  CheckInv'
<1>1. problem[q] = None /\ q \notin Ok /\ TasksOK /\ CountOK  BY TaskFacts
<1>2. at'[q] = step  BY <1>1 DEF TasksOK
<1>3. DOMAIN manifest \subseteq Path  BY DEF BuiltInv, ListedOK
<1>4. at' = [at EXCEPT ![q] = at'[q]]  BY <1>2
<1>5. CountOK'  BY <1>1, <1>2, <1>3, <1>4, CountStays
<1>6. DOMAIN problem' = Path  BY <1>1 DEF TasksOK
<1> QED  BY <1>1, <1>2, <1>4, <1>5, <1>6, TaskFrame

\* A problem is reported.
LEMMA ReportsKeeps ==
    ASSUME BuiltInv, CheckInv, pc = "check", NEW q \in Path, at[q] \notin {"idle", "done"},
           UNCHANGED <<tree, pc, interrupted, manifest, cfg>>,
           NEW kind \in {"missing", "size", "unreadable", "digest"}, NEW bad \in SUBSET Nat,
           Reports(q, kind, bad),
           q \notin touched /\ ~ interrupted => Expected(q) = [kind |-> kind, bad |-> bad]
    PROVE  CheckInv'
<1> DEFINE told == [kind |-> kind, bad |-> bad]
<1>1. q \notin Ok /\ TasksOK /\ CountOK  BY TaskFacts
<1>2. told \in Problem  BY DEF Problem
<1>3. told # None  BY <1>2, VerifyAssumption
<1>4. /\ at' = [at EXCEPT ![q] = "done"] /\ problem' = [problem EXCEPT ![q] = told]
      /\ got' = [got EXCEPT ![q] = <<>>] /\ handle' = [handle EXCEPT ![q] = None]
      /\ probed' = [probed EXCEPT ![q] = <<>>] /\ UNCHANGED <<todo, okFiles, dir, touched>>
      BY DEF Reports, Leave, tree
<1> HIDE DEF told
<1>5. at'[q] = "done" /\ problem'[q] = told  BY <1>1, <1>4 DEF TasksOK
<1>6. /\ \A p \in Path \ {q} : /\ got'[p] = got[p] /\ handle'[p] = handle[p]
                               /\ probed'[p] = probed[p] /\ problem'[p] = problem[p]
      /\ DOMAIN got' = Path /\ DOMAIN handle' = Path
      /\ probed' \in [Path -> Seq(BOOLEAN)] /\ DOMAIN problem' = Path
      BY <1>1, <1>4 DEF TasksOK
<1>7. at' = [at EXCEPT ![q] = at'[q]]  BY <1>4, <1>5
<1>8. DOMAIN manifest \subseteq Path  BY DEF BuiltInv, ListedOK
<1>9. CountOK'  BY <1>1, <1>3, <1>4, <1>5, <1>6, <1>7, <1>8, CountStays
<1>10. Expected(q)' = Expected(q)  BY <1>4 DEF Expected, Resolves, CanOpen
<1>11. q \notin touched => Known(q)'
       BY <1>5, <1>10 DEF Known, told
<1> QED  BY <1>4, <1>5, <1>6, <1>7, <1>9, <1>11, TaskFrame DEF CheckStep

\* The same for a problem that names no chunks.
LEMMA ReportsWholeKeeps ==
    ASSUME BuiltInv, CheckInv, pc = "check", NEW q \in Path, at[q] \notin {"idle", "done"},
           UNCHANGED <<tree, pc, interrupted, manifest, cfg>>,
           NEW kind \in {"missing", "size", "unreadable", "digest"},
           Reports(q, kind, {}),
           q \notin touched /\ ~ interrupted => Expected(q) = [kind |-> kind, bad |-> {}]
    PROVE  CheckInv'
<1>1. {} \in SUBSET Nat  OBVIOUS
<1> QED  BY <1>1, ReportsKeeps

\* The file matched, and is counted.
LEMMA MatchesKeeps ==
    ASSUME BuiltInv, CheckInv, pc = "check", NEW q \in Path, at[q] \notin {"idle", "done"},
           UNCHANGED <<tree, pc, interrupted, manifest, cfg>>, Matches(q),
           q \notin touched => Expected(q) = None
    PROVE  CheckInv'
<1>1. /\ q \in DOMAIN manifest /\ problem[q] = None /\ q \notin Ok /\ TasksOK /\ CountOK
      BY TaskFacts
<1>2. /\ at' = [at EXCEPT ![q] = "done"] /\ okFiles' = okFiles + 1
      /\ got' = [got EXCEPT ![q] = <<>>] /\ handle' = [handle EXCEPT ![q] = None]
      /\ UNCHANGED <<todo, probed, problem, dir, touched>>
      BY DEF Matches, Leave, tree
<1>3. at'[q] = "done"  BY <1>1, <1>2 DEF TasksOK
<1>4. /\ \A p \in Path \ {q} : got'[p] = got[p] /\ handle'[p] = handle[p]
      /\ DOMAIN got' = Path /\ DOMAIN handle' = Path
      /\ probed' \in [Path -> Seq(BOOLEAN)] /\ DOMAIN problem' = Path
      BY <1>1, <1>2 DEF TasksOK
<1>5. at' = [at EXCEPT ![q] = at'[q]]  BY <1>2, <1>3
<1>6. DOMAIN manifest \subseteq Path  BY DEF BuiltInv, ListedOK
<1>7. CountOK'
  <2>1. Ok' = Ok \union {q}  BY <1>1, <1>2, <1>3, <1>6 DEF Ok, TasksOK
  <2>2. IsFiniteSet(Ok') /\ Cardinality(Ok') = Cardinality(Ok) + 1
        BY <1>1, <2>1, FS_AddElement DEF CountOK
  <2> QED  BY <1>1, <1>2, <2>2 DEF CountOK
<1>8. Expected(q)' = Expected(q)  BY <1>2 DEF Expected, Resolves, CanOpen
<1>9. q \notin touched => Known(q)'
      BY <1>1, <1>2, <1>3, <1>8 DEF Known
<1> QED  BY <1>1, <1>2, <1>3, <1>4, <1>5, <1>7, <1>9, TaskFrame DEF CheckStep

\* What a file's digest and its probes are compared with.
LEMMA FileFacts ==
    ASSUME IInv, BuiltInv, CheckInv, pc = "check", NEW q \in Path \ touched,
           at[q] \in {"open", "read", "probe"}
    PROVE  /\ dir[q] \in File /\ dir[q].bytes \in Seq(Chunk)
           /\ manifest[q].bytes \in Seq(Chunk) /\ SameLength(q)
<1>1. Known(q) /\ manifest[q].bytes \in Seq(Chunk)  BY TaskFacts
<1>2. SameLength(q)  BY <1>1 DEF Known
<1>3. dir[q] \in File  BY <1>2 DEF SameLength, Resolves, IInv, TreeOK
<1> QED  BY <1>1, <1>2, <1>3 DEF File

\* Two files of one length are the same exactly if no place differs.
LEMMA DifferTells ==
    ASSUME NEW S, NEW b \in Seq(S), NEW g \in Seq(S), Len(b) = Len(g)
    PROVE  {i \in DOMAIN g : b[i] # g[i]} = {} <=> b = g
<1>1. DOMAIN g = 1 .. Len(g) /\ DOMAIN b = 1 .. Len(b)  OBVIOUS
<1>2. ASSUME \A i \in 1 .. Len(g) : b[i] = g[i] PROVE b = g  BY <1>2
<1> QED  BY <1>1, <1>2

LEMMA StatKeeps ==
    ASSUME IInv, BuiltInv, CheckInv, pc = "check", NEW q \in Path,
           UNCHANGED <<tree, pc, interrupted, manifest, cfg>>, Stat(q)
    PROVE  CheckInv'
<1>1. at[q] = "stat"  BY DEF Stat
<1>2. TasksOK /\ (q \notin touched => Known(q))  BY <1>1, TaskFacts
<1>3. CASE Missing(q) /\ Reports(q, "missing", {})
  <2>1. Expected(q) = [kind |-> "missing", bad |-> {}]  BY <1>3 DEF Expected, Missing
  <2> QED  BY <1>1, <1>3, <2>1, ReportsWholeKeeps
<1>4. CASE ~ Missing(q) /\ ~ Resolves(q) /\ Reports(q, "unreadable", {})
  <2>1. Expected(q) = [kind |-> "unreadable", bad |-> {}]
        BY <1>4 DEF Expected, Missing, Resolves
  <2> QED  BY <1>1, <1>4, <2>1, ReportsWholeKeeps
<1>5. CASE /\ Resolves(q) /\ Len(dir[q].bytes) # Len(manifest[q].bytes)
           /\ Reports(q, "size", {})
  <2>1. Expected(q) = [kind |-> "size", bad |-> {}]  BY <1>5 DEF Expected, Resolves
  <2> QED  BY <1>1, <1>5, <2>1, ReportsWholeKeeps
<1>6. CASE /\ Resolves(q) /\ Len(dir[q].bytes) = Len(manifest[q].bytes)
           /\ at' = [at EXCEPT ![q] = "open"]
           /\ UNCHANGED <<todo, got, handle, probed, report>>
  <2>1. UNCHANGED <<todo, got, handle, probed, problem, okFiles, dir>>
        BY <1>6 DEF report, tree
  <2>2. at'[q] = "open"  BY <1>2, <1>6 DEF TasksOK
  <2>3. q \notin touched => Known(q)'
        BY <1>1, <1>2, <1>6, <2>1, <2>2 DEF Known, SameLength, Resolves
  <2>4. DOMAIN got' = Path /\ DOMAIN handle' = Path /\ probed' \in [Path -> Seq(BOOLEAN)]
        BY <1>2, <2>1 DEF TasksOK
  <2> QED  BY <1>1, <1>6, <2>1, <2>3, <2>4, GoesOn DEF CheckStep
<1> QED  BY <1>3, <1>4, <1>5, <1>6 DEF Stat

LEMMA OpenKeepsCheck ==
    ASSUME IInv, BuiltInv, CheckInv, pc = "check", NEW q \in Path,
           UNCHANGED <<tree, pc, interrupted, manifest, cfg>>, Open(q)
    PROVE  CheckInv'
<1>1. at[q] = "open"  BY DEF Open, OpenToRead
<1>2. TasksOK /\ (q \notin touched => Known(q))  BY <1>1, TaskFacts
<1>3. CASE OpenToRead(q) /\ UNCHANGED <<probed, report>>
  <2>1. /\ CanOpen(q) /\ UNCHANGED <<todo, got, probed, problem, okFiles, dir>>
        /\ handle' = [handle EXCEPT ![q] = Follow] /\ at' = [at EXCEPT ![q] = "read"]
        BY <1>3 DEF OpenToRead, report, tree
  <2>2. at'[q] = "read" /\ handle'[q] = Follow  BY <1>2, <2>1 DEF TasksOK
  <2>3. ASSUME q \notin touched PROVE Known(q)'
    <3>1. got[q] = <<>> /\ probed[q] = <<>> /\ SameLength(q)
          BY <1>1, <1>2, <2>3 DEF Known
    <3>2. dir[q].bytes \in Seq(Chunk)  BY <1>1, <2>3, FileFacts
    <3>3. got[q] \in Seq(Chunk) /\ Starts(dir[q].bytes, got[q])
          BY <3>1, <3>2 DEF Starts
    <3>4. Reading(q)'  BY <2>1, <2>2, <3>3 DEF Reading, CanOpen, Starts
    <3>5. SameLength(q)'  BY <2>1, <3>1 DEF SameLength, Resolves
    <3> QED  BY <2>1, <2>2, <3>1, <3>4, <3>5 DEF Known
  <2>4. DOMAIN got' = Path /\ DOMAIN handle' = Path /\ probed' \in [Path -> Seq(BOOLEAN)]
        BY <1>2, <2>1 DEF TasksOK
  <2>5. \A p \in Path \ {q} : handle'[p] = handle[p]  BY <1>2, <2>1 DEF TasksOK
  <2> QED  BY <1>1, <2>1, <2>3, <2>4, <2>5, GoesOn DEF CheckStep
<1>4. CASE ~ CanOpen(q) /\ Reports(q, "unreadable", {})
  <2>1. q \notin touched => Expected(q) = [kind |-> "unreadable", bad |-> {}]
        BY <1>1, <1>2, <1>4 DEF Known, SameLength, Resolves, Expected
  <2> QED  BY <1>1, <1>4, <2>1, ReportsWholeKeeps
<1> QED  BY <1>3, <1>4 DEF Open

LEMMA ReadKeepsCheck ==
    ASSUME IInv, BuiltInv, CheckInv, pc = "check", NEW q \in Path,
           UNCHANGED <<tree, pc, interrupted, manifest, cfg>>, Read(q)
    PROVE  CheckInv'
<1>1. /\ at[q] = "read" /\ Len(got[q]) < Len(Bytes(q)) /\ at' = at
      /\ got' = [got EXCEPT ![q] = Append(got[q], Bytes(q)[Len(got[q]) + 1])]
      /\ UNCHANGED <<todo, handle, probed, problem, okFiles, dir>>
      BY DEF Read, ReadNext, report, tree
<1>2. TasksOK /\ (q \notin touched => Known(q))  BY <1>1, TaskFacts
<1>3. ASSUME q \notin touched PROVE Known(q)'
  <2>1. /\ Reading(q) /\ SameLength(q) /\ probed[q] = <<>>
        BY <1>1, <1>2, <1>3 DEF Known
  <2>2. dir[q].bytes \in Seq(Chunk) /\ Bytes(q) = dir[q].bytes
        BY <1>1, <1>3, <2>1, FileFacts DEF Bytes, Reading
  <2>3. got'[q] = Append(got[q], dir[q].bytes[Len(got[q]) + 1])
        BY <1>1, <1>2, <2>2 DEF TasksOK
  <2>4. got[q] \in Seq(Chunk) /\ Starts(dir[q].bytes, got[q]) /\ Len(got[q]) < Len(dir[q].bytes)
        BY <1>1, <2>1, <2>2 DEF Reading
  <2>5. got'[q] \in Seq(Chunk)
    <3>1. Len(got[q]) + 1 \in 1 .. Len(dir[q].bytes)  BY <2>2, <2>4
    <3> QED  BY <2>2, <2>3, <2>4, <3>1
  <2>6. Starts(dir[q].bytes, got'[q])  BY <2>2, <2>3, <2>4 DEF Starts
  <2>7. Reading(q)'  BY <1>1, <2>1, <2>5, <2>6 DEF Reading, CanOpen, Starts
  <2>8. SameLength(q)'  BY <1>1, <2>1 DEF SameLength, Resolves
  <2> QED  BY <1>1, <2>1, <2>7, <2>8 DEF Known
<1>4. DOMAIN got' = Path /\ DOMAIN handle' = Path /\ probed' \in [Path -> Seq(BOOLEAN)]
      BY <1>1, <1>2 DEF TasksOK
<1>5. at' = [at EXCEPT ![q] = "read"]  BY <1>1, <1>2 DEF TasksOK
<1>6. \A p \in Path \ {q} : got'[p] = got[p]  BY <1>1, <1>2 DEF TasksOK
<1> QED  BY <1>1, <1>3, <1>4, <1>5, <1>6, GoesOn DEF CheckStep

\* At its end, a file that was read is the file that is there.
LEMMA ReadWhole ==
    ASSUME IInv, BuiltInv, CheckInv, pc = "check", NEW q \in Path \ touched, AtEnd(q)
    PROVE  got[q] = dir[q].bytes /\ CanOpen(q)
<1>1. at[q] = "read"  BY DEF AtEnd
<1>2. Reading(q)  BY <1>1, TaskFacts DEF Known
<1>3. dir[q].bytes \in Seq(Chunk)  BY <1>1, FileFacts
<1>4. Len(got[q]) >= Len(dir[q].bytes)  BY <1>2 DEF AtEnd, Bytes, Reading
<1> QED  BY <1>2, <1>3, <1>4, WholeIsEqual DEF Reading

LEMMA CompareKeeps ==
    ASSUME IInv, BuiltInv, CheckInv, pc = "check", NEW q \in Path,
           UNCHANGED <<tree, pc, interrupted, manifest, cfg>>, Compare(q)
    PROVE  CheckInv'
<1>1. at[q] = "read" /\ AtEnd(q)  BY DEF Compare, AtEnd
<1>2. TasksOK /\ (q \notin touched => Known(q))  BY <1>1, TaskFacts
<1> DEFINE differ == {i \in DOMAIN manifest[q].bytes : dir[q].bytes[i] # manifest[q].bytes[i]}
<1>3. ASSUME q \notin touched
      PROVE  /\ got[q] = dir[q].bytes /\ CanOpen(q) /\ SameLength(q)
             /\ differ = {} <=> got[q] = manifest[q].bytes
             /\ manifest[q].bytes \in Seq(Chunk)
      BY <1>1, <1>3, ReadWhole, FileFacts, DifferTells DEF SameLength
<1>4. q \notin touched =>
        Expected(q) = IF differ = {} THEN None
                      ELSE [kind |-> "digest", bad |-> IF cfg.quick THEN {} ELSE differ]
      BY <1>3 DEF Expected, SameLength, Resolves
<1> HIDE DEF differ
<1>5. CASE got[q] = manifest[q].bytes /\ Matches(q)
      BY <1>1, <1>3, <1>4, <1>5, MatchesKeeps
<1>6. CASE got[q] # manifest[q].bytes /\ cfg.quick /\ Reports(q, "digest", {})
  <2>1. q \notin touched => Expected(q) = [kind |-> "digest", bad |-> {}]
        BY <1>3, <1>4, <1>6
  <2> QED  BY <1>1, <1>6, <2>1, ReportsWholeKeeps
<1>7. CASE /\ got[q] # manifest[q].bytes /\ ~ cfg.quick
           /\ at' = [at EXCEPT ![q] = "probe"]
           /\ UNCHANGED <<todo, got, handle, probed, report>>
  <2>1. UNCHANGED <<todo, got, handle, probed, problem, okFiles, dir>>
        BY <1>7 DEF report, tree
  <2>2. at'[q] = "probe"  BY <1>2, <1>7 DEF TasksOK
  <2>3. ASSUME q \notin touched PROVE Known(q)'
    <3>1. probed[q] = <<>> /\ Reading(q) /\ SameLength(q)
          BY <1>1, <1>2, <2>3 DEF Known
    <3>2. Reading(q)'  BY <2>1, <3>1 DEF Reading, CanOpen, Starts
    <3>3. SameLength(q)'  BY <2>1, <3>1 DEF SameLength, Resolves
    <3>4. dir[q].bytes # manifest[q].bytes /\ manifest[q].bytes \in Seq(Chunk)
          BY <1>3, <1>7, <2>3
    <3>5. /\ probed'[q] = <<>> /\ manifest'[q].bytes \in Seq(Chunk)
          /\ dir'[q].bytes # manifest'[q].bytes /\ ~ cfg'.quick
          BY <1>7, <2>1, <3>1, <3>4
    <3>6. Probing(q)'  BY <3>5 DEF Probing
    <3> QED  BY <2>2, <3>2, <3>3, <3>6 DEF Known
  <2>4. DOMAIN got' = Path /\ DOMAIN handle' = Path /\ probed' \in [Path -> Seq(BOOLEAN)]
        BY <1>2, <2>1 DEF TasksOK
  <2> QED  BY <1>1, <1>7, <2>1, <2>3, <2>4, GoesOn DEF CheckStep
<1> QED  BY <1>5, <1>6, <1>7 DEF Compare

LEMMA ProbeKeeps ==
    ASSUME IInv, BuiltInv, CheckInv, pc = "check", NEW q \in Path,
           UNCHANGED <<tree, pc, interrupted, manifest, cfg>>, Probe(q)
    PROVE  CheckInv'
<1> DEFINE i == Len(probed[q]) + 1
           ok == i <= Len(Bytes(q)) /\ Bytes(q)[i] = manifest[q].bytes[i]
<1>1. /\ at[q] = "probe" /\ i <= Len(manifest[q].bytes) /\ at' = at
      /\ probed' = [probed EXCEPT ![q] = Append(probed[q], ok)]
      /\ UNCHANGED <<todo, got, handle, problem, okFiles, dir>>
      BY DEF Probe, pool, report, tree
<1>2. TasksOK /\ (q \notin touched => Known(q))  BY <1>1, TaskFacts
<1>3. ASSUME q \notin touched PROVE Known(q)'
  <2>1. Reading(q) /\ SameLength(q) /\ Probing(q)  BY <1>1, <1>2, <1>3 DEF Known
  <2>2. dir[q].bytes \in Seq(Chunk) /\ manifest[q].bytes \in Seq(Chunk)
        BY <1>1, <1>3, FileFacts
  <2>3. Bytes(q) = dir[q].bytes  BY <2>1 DEF Bytes, Reading
  <2>4. i \in 1 .. Len(manifest[q].bytes) /\ probed[q] \in Seq(BOOLEAN)
        BY <1>1, <2>1, <2>2 DEF Probing
  <2>5. ok = (dir[q].bytes[i] = manifest[q].bytes[i])
        BY <2>1, <2>2, <2>3, <2>4 DEF SameLength
  <2>6. probed'[q] = Append(probed[q], ok)  BY <1>1, <1>2 DEF TasksOK
  <2>7. ok \in BOOLEAN  OBVIOUS
  <2>8. probed'[q] \in Seq(BOOLEAN) /\ Len(probed'[q]) = i
        BY <2>4, <2>6, <2>7
  <2>9. ASSUME NEW k \in 1 .. Len(probed'[q])
        PROVE  probed'[q][k] = (dir[q].bytes[k] = manifest[q].bytes[k])
    <3>1. CASE k = i
      <4>1. probed'[q][k] = ok  BY <2>4, <2>6, <3>1
      <4> QED  BY <2>5, <3>1, <4>1
    <3>2. CASE k # i
      <4>1. k \in 1 .. Len(probed[q])  BY <2>4, <2>8, <3>2
      <4>2. probed'[q][k] = probed[q][k]  BY <2>4, <2>6, <4>1
      <4> QED  BY <2>1, <4>1, <4>2 DEF Probing
    <3> QED  BY <3>1, <3>2
  <2>10. Probing(q)'  BY <1>1, <2>1, <2>4, <2>8, <2>9 DEF Probing
  <2>11. Reading(q)'  BY <1>1, <2>1 DEF Reading, CanOpen, Starts
  <2>12. SameLength(q)'  BY <1>1, <2>1 DEF SameLength, Resolves
  <2> QED  BY <1>1, <2>10, <2>11, <2>12 DEF Known
<1>4. DOMAIN got' = Path /\ DOMAIN handle' = Path /\ probed' \in [Path -> Seq(BOOLEAN)]
  <2>1. ok \in BOOLEAN /\ probed[q] \in Seq(BOOLEAN)  BY <1>2 DEF TasksOK
  <2>2. Append(probed[q], ok) \in Seq(BOOLEAN)  BY <2>1
  <2> HIDE DEF ok
  <2> QED  BY <1>1, <1>2, <2>2 DEF TasksOK
<1>5. at' = [at EXCEPT ![q] = "probe"]  BY <1>1, <1>2 DEF TasksOK
<1>6. \A p \in Path \ {q} : probed'[p] = probed[p]  BY <1>1, <1>2 DEF TasksOK
<1> QED  BY <1>1, <1>3, <1>4, <1>5, <1>6, GoesOn DEF CheckStep

LEMMA ProbeEndKeeps ==
    ASSUME IInv, BuiltInv, CheckInv, pc = "check", NEW q \in Path,
           UNCHANGED <<tree, pc, interrupted, manifest, cfg>>, ProbeEnds(q)
    PROVE  CheckInv'
<1> DEFINE bad == {i \in DOMAIN probed[q] : ~ probed[q][i]}
           differ == {i \in DOMAIN manifest[q].bytes : dir[q].bytes[i] # manifest[q].bytes[i]}
<1>1. at[q] = "probe" /\ Reports(q, "digest", bad)  BY DEF ProbeEnds
<1>2. TasksOK /\ (q \notin touched => Known(q))  BY <1>1, TaskFacts
<1>3. ASSUME q \notin touched, ~ interrupted
      PROVE  Expected(q) = [kind |-> "digest", bad |-> bad]
  <2>1. Reading(q) /\ SameLength(q) /\ Probing(q)  BY <1>1, <1>2, <1>3 DEF Known
  <2>2. dir[q].bytes \in Seq(Chunk) /\ manifest[q].bytes \in Seq(Chunk)
        BY <1>1, <1>3, FileFacts
  <2>3. Len(probed[q]) = Len(manifest[q].bytes)  BY <1>3 DEF ProbeEnds
  <2>4. DOMAIN probed[q] = 1 .. Len(probed[q])
        /\ DOMAIN manifest[q].bytes = 1 .. Len(manifest[q].bytes)
        BY <2>1, <2>2 DEF Probing
  <2>5. \A i \in 1 .. Len(probed[q]) :
            ~ probed[q][i] <=> dir[q].bytes[i] # manifest[q].bytes[i]
        BY <2>1 DEF Probing
  <2>6. bad = differ  BY <2>3, <2>4, <2>5
  <2>7. differ # {}
        BY <2>1, <2>2, DifferTells DEF SameLength, Probing
  <2>8. Expected(q) = [kind |-> "digest", bad |-> differ]
        BY <2>1, <2>7 DEF Expected, SameLength, Resolves, Reading, Probing
  <2> QED  BY <2>6, <2>8
<1>4. bad \in SUBSET Nat  BY <1>2 DEF TasksOK
<1> HIDE DEF bad
<1> QED  BY <1>1, <1>3, <1>4, ReportsKeeps

LEMMA FileStepKeeps ==
    ASSUME IInv, BuiltInv, CheckInv, NEW q \in Path, VerifyFile(q)
    PROVE  CheckInv'
<1>1. pc = "check" /\ UNCHANGED <<tree, pc, interrupted, manifest, cfg>>
      BY DEF VerifyFile, built
<1> QED  BY <1>1, StatKeeps, OpenKeepsCheck, ReadKeepsCheck, CompareKeeps, ProbeKeeps,
            ProbeEndKeeps DEF VerifyFile

\* When the pool is done and nobody has cancelled, every file is done.
LEMMA PoolTells ==
    ASSUME BuiltInv, CheckInv, pc = "check", PoolIsDone, ~ interrupted,
           UNCHANGED <<dir, touched, manifest, cfg, problem, okFiles>>
    PROVE  ToldOK'
<1>1. TasksOK /\ CountOK /\ \A p \in DOMAIN manifest \ touched : Known(p)
      BY DEF CheckInv, CheckOK
<1>2. \A p \in DOMAIN manifest : at[p] = "done"
      BY <1>1 DEF TasksOK, PoolIsDone, Running, BuiltInv, ListedOK
<1>3. \A p \in DOMAIN manifest \ touched : problem[p] = Expected(p)
      BY <1>1, <1>2 DEF Known
<1>4. Ok = {p \in DOMAIN manifest : problem[p] = None}  BY <1>2 DEF Ok
<1>5. okFiles = Cardinality({p \in DOMAIN manifest : problem[p] = None})
      BY <1>1, <1>4 DEF CountOK
<1>6. \A p : Expected(p)' = Expected(p)  BY DEF Expected, Resolves, CanOpen
<1> QED  BY <1>3, <1>5, <1>6 DEF ToldOK

LEMMA ToldStays ==
    ASSUME ToldOK, pc \in {"extra", "verdict"},
           UNCHANGED <<dir, touched, manifest, cfg, problem, okFiles>>
    PROVE  ToldOK'
<1>1. \A p : Expected(p)' = Expected(p)  BY DEF Expected, Resolves, CanOpen
<1> QED  BY <1>1 DEF ToldOK

\* A walk with the options of extraFiles skips what is below a state directory.
LEMMA ExtraIsWanted ==
    ASSUME opt = ExtraOptions, NEW p \in Path
    PROVE  Wanted(p) <=> IsExtra(p)
<1>1. ~ opt.hidden = FALSE /\ opt.follow = FALSE /\ opt.exclude = {}
      BY DEF ExtraOptions
<1>2. p \in Seq({p[k] : k \in DOMAIN p})  BY VerifyAssumption
<1>3. \A k \in 1 .. Len(p) - 1 : Base(SubSeq(p, 1, k)) = p[k]
      BY <1>2 DEF Base
<1>4. \A d : SkipsDir(d) <=> Base(d) = StateDir
      BY <1>1 DEF SkipsDir, Hides, Excludes
<1>5. ~ SkipsFile(p)  BY <1>1 DEF SkipsFile, Hides, Excludes
<1>6. Skipped(p) <=> \E k \in 1 .. Len(p) - 1 : p[k] = StateDir
      BY <1>3, <1>4, <1>5 DEF Skipped, Ancestors
<1> QED  BY <1>1, <1>6 DEF Wanted, Regular, IsExtra

LEMMA EndsKeep ==
    ASSUME IInv, BuiltInv, CheckInv, VerifyWithoutManifest \/ ExtraNext \/ Ends
    PROVE  CheckInv'
<1>1. CASE VerifyWithoutManifest \/ GiveUp \/ ExtraFails
      BY <1>1, NoCheckYet DEF VerifyWithoutManifest, GiveUp, ExtraFails
<1>2. CASE ExtraNext
  <2>1. /\ pc = "extra" /\ pc' = "extra" /\ opt' = opt
        /\ UNCHANGED <<dir, touched, manifest, cfg, problem, okFiles>>
        BY <1>2 DEF ExtraNext, Look, tree, built, verifyVars, report
  <2>2. ToldOK'  BY <2>1, ToldStays DEF CheckInv
  <2> QED  BY <2>1, <2>2 DEF CheckInv, CheckOK, ExtraOK
<1>3. CASE Verdict
  <2>1. /\ pc = "check" /\ pc' = "verdict" /\ ~ cfg'.extra /\ PoolIsDone /\ ~ interrupted
        /\ UNCHANGED <<dir, touched, manifest, cfg, problem, okFiles>>
        BY <1>3 DEF Verdict, tree, built, verifyVars, report
  <2>2. ToldOK'  BY <2>1, PoolTells
  <2> QED  BY <2>1, <2>2 DEF CheckInv, CheckOK, ExtraOK
<1>4. CASE ExtraBegins
  <2>1. /\ pc = "check" /\ pc' = "extra" /\ opt' = ExtraOptions /\ PoolIsDone /\ ~ interrupted
        /\ UNCHANGED <<dir, touched, manifest, cfg, problem, okFiles>>
        BY <1>4 DEF ExtraBegins, tree, built, verifyVars, report
  <2>2. ToldOK'  BY <2>1, PoolTells
  <2> QED  BY <2>1, <2>2 DEF CheckInv, CheckOK, ExtraOK
<1>5. CASE ExtraEnds
  <2>1. /\ pc = "extra" /\ pc' = "verdict" /\ unseen = {} /\ extra' = Found \ DOMAIN manifest
        /\ UNCHANGED <<dir, touched, manifest, cfg, problem, okFiles>>
        BY <1>5 DEF ExtraEnds, tree, built
  <2>2. ToldOK'  BY <2>1, ToldStays DEF CheckInv
  <2>3. opt = ExtraOptions  BY <2>1 DEF CheckInv, ExtraOK
  <2>4. ASSUME NEW p \in Path \ touched PROVE p \in Found <=> IsExtra(p)
    <3>1. entries[p] = IF Wanted(p) THEN dir[p].mtime ELSE None
          BY <2>1 DEF BuiltInv, WalkOK, Seen
    <3>2. Wanted(p) => dir[p].mtime # None
          BY ScanAssumption DEF IInv, TreeOK, Wanted, File
    <3> QED  BY <2>3, <3>1, <3>2, ExtraIsWanted DEF Found
  <2>5. \A p \in Path : IsExtra(p)' <=> IsExtra(p)  BY <2>1 DEF IsExtra
  <2>6. ExtraOK'  BY <2>1, <2>4, <2>5 DEF ExtraOK
  <2> QED  BY <2>1, <2>2, <2>6 DEF CheckInv, CheckOK
<1> QED  BY <1>1, <1>2, <1>3, <1>4, <1>5 DEF Ends

LEMMA ChangeKeepsCheck ==
    ASSUME IInv, BuiltInv, CheckInv, UNCHANGED verifyVars, NEW q \in Path, Change(q)
    PROVE  CheckInv'
<1>1. /\ touched' = touched \union {q}
      /\ UNCHANGED <<pc, interrupted, opt, todo, at, got, manifest>>
      /\ UNCHANGED <<cfg, probed, problem, okFiles, extra>>
      BY DEF Change, walk, verifyVars, report
<1>2. \A p \in Path \ {q} : dir'[p] = dir[p]
      BY DEF IInv, TreeOK, Change
<1>3. /\ DOMAIN handle' = DOMAIN handle
      /\ \A p \in DOMAIN handle \ {q} : handle'[p] = handle[p]
      BY DEF Change
<1>4. CASE pc = "check"
  <2>1. TasksOK /\ CountOK /\ \A p \in DOMAIN manifest \ touched : Known(p)
        BY <1>4 DEF CheckInv, CheckOK
  <2>2. TasksOK'  BY <1>1, <1>3, <2>1 DEF TasksOK
  <2>3. CountOK'  BY <1>1, <2>1 DEF CountOK, Ok
  <2>4. ASSUME NEW p \in DOMAIN manifest \ touched' PROVE Known(p)'
    <3>1. p \in Path \ {q} /\ p \notin touched
          BY <1>1, <1>4 DEF BuiltInv, ListedOK
    <3>2. handle'[p] = handle[p]  BY <1>3, <2>1, <3>1 DEF TasksOK
    <3> QED  BY <1>1, <1>2, <2>1, <3>1, <3>2, KnownStays
  <2> QED  BY <1>1, <1>4, <2>2, <2>3, <2>4 DEF CheckInv, CheckOK, ToldOK, ExtraOK
<1>5. CASE pc \in {"extra", "verdict"}
  <2>1. ASSUME NEW p \in Path \ touched'
        PROVE  p \notin touched /\ Expected(p)' = Expected(p) /\ (IsExtra(p)' <=> IsExtra(p))
    <3>1. p # q /\ p \notin touched /\ dir'[p] = dir[p]  BY <1>1, <1>2
    <3>2. Resolves(p)' = Resolves(p)  BY <3>1 DEF Resolves
    <3>3. CanOpen(p)' = CanOpen(p)  BY <3>1 DEF CanOpen
    <3>4. Expected(p)' = Expected(p)  BY ONLY <1>1, <3>1, <3>2, <3>3 DEF Expected
    <3>5. IsExtra(p)' <=> IsExtra(p)  BY <3>1 DEF IsExtra
    <3> QED  BY <3>1, <3>4, <3>5
  <2>3. DOMAIN manifest \subseteq Path  BY <1>5 DEF BuiltInv, ListedOK
  <2>4. ToldOK'  BY <1>1, <1>5, <2>1, <2>3 DEF CheckInv, ToldOK
  <2>5. ExtraOK'  BY <1>1, <2>1 DEF CheckInv, ExtraOK
  <2> QED  BY <1>1, <1>5, <2>4, <2>5 DEF CheckInv, CheckOK
<1>6. CASE pc \notin {"check", "extra", "verdict"}
      BY <1>1, <1>6, NoCheckYet
<1> QED  BY <1>4, <1>5, <1>6

-----------------------------------------------------------------------------
(* The theorems.                                                           *)

LEMMA SnapshotUnchanged ==
    ASSUME BuiltInv, CheckInv, UNCHANGED allVars
    PROVE  BuiltInv' /\ CheckInv'
<1>1. UNCHANGED <<dir, touched, pc, interrupted, opt, unseen, entries, todo, at, got,
                  handle, files, firstErr, manifest>>
      BY DEF allVars, vars, tree, walk, pool
<1>2. UNCHANGED <<cfg, probed, problem, okFiles, extra>>
      BY DEF allVars, verifyVars, report
<1>3. WalkOK'  BY <1>1, SeenStays DEF BuiltInv, WalkOK, walk
<1>4. CollectOK' /\ FreshOK' /\ ListedOK'
      BY <1>1, <1>2 DEF BuiltInv, CollectOK, FreshOK, ListedOK, Cancelled, Found
<1>5. ManifestIsSnapshot'
      BY <1>1 DEF BuiltInv, ManifestIsSnapshot, Regular, Skipped, SkipsFile, SkipsDir,
                  Hides, Excludes
<1>6. CheckOK'
  <2>1. \A p : Known(p) => Known(p)'  BY <1>1, <1>2, KnownStays
  <2>2. TasksOK => TasksOK'  BY <1>1, <1>2 DEF TasksOK
  <2>3. CountOK => CountOK'  BY <1>1, <1>2 DEF CountOK, Ok
  <2> QED  BY <1>1, <2>1, <2>2, <2>3 DEF CheckInv, CheckOK
<1>7. ToldOK'
  <2>1. \A p : Expected(p)' = Expected(p)  BY <1>1, <1>2 DEF Expected, Resolves, CanOpen
  <2> QED  BY <1>1, <1>2, <2>1 DEF CheckInv, ToldOK
<1>8. ExtraOK'  BY <1>1, <1>2 DEF CheckInv, ExtraOK, IsExtra
<1> QED  BY <1>3, <1>4, <1>5, <1>6, <1>7, <1>8 DEF BuiltInv, CheckInv

LEMMA SnapshotNext == SInv /\ [VerifyNext]_allVars => SInv'
<1> SUFFICES ASSUME IInv, BuiltInv, CheckInv, [VerifyNext]_allVars
             PROVE  BuiltInv' /\ CheckInv'
    BY NextKeeps DEF SInv
<1>1. CASE Next /\ UNCHANGED verifyVars
      BY <1>1, BuildKeeps, InterruptKeepsSnapshot, ChangeKeepsBuilt, ChangeKeepsCheck DEF Next
<1>2. CASE \/ VerifyWithoutManifest \/ VerifyBegins \/ CheckLoop \/ ExtraNext \/ Ends
           \/ (\E p \in Path : VerifyFile(p)) \/ InterruptVerify
  <2>1. BuiltInv'  BY <1>2, VerifyKeepsBuilt
  <2>2. CheckInv'
        BY <1>2, CheckBegins, LoopKeepsCheck, EndsKeep, FileStepKeeps, InterruptKeepsCheck
  <2> QED  BY <2>1, <2>2
<1>3. CASE UNCHANGED allVars  BY <1>3, SnapshotUnchanged
<1> QED  BY <1>1, <1>2, <1>3 DEF VerifyNext

\* In every state, all that is known of the files left alone is true.
THEOREM SnapshotInvariance == VerifySpec => []SInv
<1>1. VerifyInit => SInv  BY InitOK, SnapshotInit DEF SInv
<1> QED  BY <1>1, SnapshotNext, PTL DEF VerifySpec

\* The manifest Build returns lists exactly the wanted files, with their bytes
\* and times, as far as nobody touched them (Build, scan.go:183).
THEOREM ManifestsAreSnapshots == VerifySpec => []ManifestIsSnapshot
<1>1. SInv => ManifestIsSnapshot  BY DEF SInv, BuiltInv
<1> QED  BY <1>1, SnapshotInvariance, PTL

\* A verdict is exact for every file that was left alone during it: the right
\* problem, exactly the bad chunks, exactly the extra files, and each file
\* counted once (Verify, verify.go:100).
THEOREM VerdictsAreExact == VerifySpec => []VerdictIsExact
<1>1. SInv => VerdictIsExact
  <2> SUFFICES ASSUME SInv, pc = "verdict" PROVE VerdictIsExact  BY DEF VerdictIsExact
  <2>1. ToldOK /\ ExtraOK  BY DEF SInv, CheckInv
  <2>2. \A p \in DOMAIN manifest \ touched : problem[p] = Expected(p)
        BY <2>1 DEF ToldOK
  <2>3. cfg.extra => \A p \in Path \ (touched \union DOMAIN manifest) :
                        p \in extra <=> IsExtra(p)
        BY <2>1 DEF ExtraOK
  <2>4. okFiles = Cardinality({p \in DOMAIN manifest : problem[p] = None})
        BY <2>1 DEF ToldOK
  <2> QED  BY <2>2, <2>3, <2>4 DEF VerdictIsExact, IsExtra
<1> QED  BY <1>1, SnapshotInvariance, PTL
=============================================================================
