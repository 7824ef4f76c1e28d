---------------------------- MODULE CodecProofs ----------------------------
(***************************************************************************)
(* What Build made is decoded as what it was (binary.go), so that whatever *)
(* becomes of a Save the manifest's path holds a whole manifest (io.go),   *)
(* and a copy that has come to harm is told.                               *)
(***************************************************************************)
EXTENDS DescribeProofs

-----------------------------------------------------------------------------
(* Step by step.                                                           *)

\* Two sequences, one after the other.
LEMMA OneAfterTheOther ==
    ASSUME NEW U, NEW a \in Seq(U), NEW b \in Seq(U)
    PROVE  /\ a \o b \in Seq(U) /\ Len(a) \in Nat /\ Len(b) \in Nat
           /\ Len(a \o b) = Len(a) + Len(b)
           /\ \A i \in 1 .. Len(a) : (a \o b)[i] = a[i]
           /\ \A j \in 1 .. Len(b) : (a \o b)[Len(a) + j] = b[j]
  <1>1. Len(a) \in Nat /\ Len(b) \in Nat
    OBVIOUS
  <1>2. /\ a \o b \in Seq(U) /\ Len(a \o b) = Len(a) + Len(b)
        /\ \A i \in 1 .. Len(a) + Len(b) :
             (a \o b)[i] = IF i <= Len(a) THEN a[i] ELSE b[i - Len(a)]
    BY ConcatProperties
  <1> DEFINE c == a \o b
             m == Len(a)
             n == Len(b)
  <1>3. \A i \in 1 .. m : c[i] = a[i]
    BY <1>1, <1>2
  <1>4. ASSUME NEW j \in 1 .. n PROVE c[m + j] = b[j]
    <2>1. m + j \in 1 .. m + n /\ ~ (m + j <= m) /\ (m + j) - m = j
      BY <1>1
    <2>2. c[m + j] = IF m + j <= m THEN a[m + j] ELSE b[(m + j) - m]
      BY <1>2, <2>1
    <2> HIDE DEF c, m, n
    <2> QED BY <2>1, <2>2
  <1> QED BY <1>1, <1>2, <1>3, <1>4

\* g begins with first and goes on step by step.
RunsThrough(n, V, first, step, g) ==
    /\ g \in [0 .. n -> V] /\ g[0] = first
    /\ \A k \in 1 .. n : g[k] = step[k][g[k - 1]]

\* A function that is defined step by step exists.
LEMMA StepByStep ==
    ASSUME NEW n \in Nat, NEW V, NEW first \in V, NEW step,
           step \in [1 .. n -> [V -> V]]
    PROVE  \E g : RunsThrough(n, V, first, step, g)
  <1> USE DEF RunsThrough
  <1> DEFINE P(m, g) == RunsThrough(m, V, first, step, g)
             S == {m \in 0 .. n : \E g : P(m, g)}
  <1>1. 0 \in S
    <2> DEFINE g == [k \in 0 .. 0 |-> first]
    <2>1. g \in [0 .. 0 -> V] /\ g[0] = first /\ 1 .. 0 = {}
      OBVIOUS
    <2> HIDE DEF g
    <2>2. P(0, g)
      BY <2>1
    <2> QED BY <2>2
  <1>2. ASSUME NEW m \in S, m < n PROVE m + 1 \in S
    <2>1. m \in 0 .. n /\ m \in Nat /\ m + 1 \in 1 .. n /\ m + 1 \in 0 .. n
      BY <1>2
    <2>2. PICK g : P(m, g)
      OBVIOUS
    <2> DEFINE next == [k \in 0 .. m + 1 |-> IF k = m + 1 THEN step[m + 1][g[m]] ELSE g[k]]
    <2>3. g[m] \in V /\ step[m + 1][g[m]] \in V
      BY <2>1, <2>2
    <2>4. next \in [0 .. m + 1 -> V]
      <3>1. \A k \in 0 .. m + 1 : k # m + 1 => k \in 0 .. m
        BY <2>1
      <3> QED BY <2>2, <2>3, <3>1
    <2>5. next[0] = first
      BY <2>1, <2>2
    <2>6. ASSUME NEW k \in 1 .. m + 1 PROVE next[k] = step[k][next[k - 1]]
      <3>1. k - 1 \in 0 .. m + 1 /\ k - 1 # m + 1 /\ k \in 0 .. m + 1
        BY <2>1
      <3>2. next[k - 1] = g[k - 1]
        BY <3>1
      <3>3. CASE k = m + 1
        <4>1. next[k] = step[m + 1][g[m]] /\ k - 1 = m
          BY <2>1, <3>1, <3>3
        <4> QED BY <3>2, <3>3, <4>1
      <3>4. CASE k # m + 1
        <4>1. k \in 1 .. m
          BY <2>1, <3>4
        <4>2. next[k] = g[k]
          BY <3>1, <3>4
        <4> QED BY <2>2, <3>2, <4>1, <4>2
      <3> QED BY <3>3, <3>4
    <2> HIDE DEF next
    <2>7. P(m + 1, next)
      BY <2>4, <2>5, <2>6
    <2> QED BY <2>1, <2>7
  <1> HIDE DEF P
  <1>3. n \in S
    <2> DEFINE T == {m \in Nat : m > n \/ m \in S}
    <2>1. 0 \in T
      BY <1>1
    <2>2. \A m \in T : m + 1 \in T
      <3> SUFFICES ASSUME NEW m \in T PROVE m + 1 \in T
        OBVIOUS
      <3>1. m \in Nat /\ (m > n \/ m \in S)
        OBVIOUS
      <3>2. /\ m + 1 \in Nat /\ (m > n => m + 1 > n)
            /\ (m = n => m + 1 > n) /\ (m > n \/ m = n \/ m < n)
        BY <3>1
      <3> HIDE DEF S
      <3> QED BY <1>2, <3>1, <3>2
    <2> HIDE DEF S, T
    <2>3. n \in T
      <3>1. T \in SUBSET Nat
        BY DEF T
      <3> QED BY <2>1, <2>2, <3>1, SetInduction
    <2> QED BY <2>3 DEF T
  <1> QED BY <1>3 DEF P

\* Where things begin: each where the one before it ends.
LEMMA StartsAre ==
    ASSUME NEW n \in Nat, NEW first \in Nat, NEW width \in [Nat -> Nat]
    PROVE  /\ Starts(n, first, width) \in [0 .. n -> Nat]
           /\ Starts(n, first, width)[0] = first
           /\ \A k \in 1 .. n : Starts(n, first, width)[k] =
                Starts(n, first, width)[k - 1] + width[Starts(n, first, width)[k - 1]]
  <1> DEFINE step == [k \in 1 .. n |-> [v \in Nat |-> v + width[v]]]
             body(h) == [k \in 0 .. n |-> IF k = 0 THEN first ELSE h[k - 1] + width[h[k - 1]]]
             s == Starts(n, first, width)
  <1>1. /\ step \in [1 .. n -> [Nat -> Nat]]
        /\ \A k \in 1 .. n : \A v \in Nat : step[k][v] = v + width[v]
    OBVIOUS
  <1> HIDE DEF step
  <1>2. PICK g \in [0 .. n -> Nat] :
           g[0] = first /\ \A k \in 1 .. n : g[k] = step[k][g[k - 1]]
    <2>1. PICK g : RunsThrough(n, Nat, first, step, g)
      BY <1>1, StepByStep
    <2> QED BY <2>1 DEF RunsThrough
  <1>3. \A k \in 1 .. n : k - 1 \in 0 .. n /\ g[k - 1] \in Nat
    <2> SUFFICES ASSUME NEW k \in 1 .. n PROVE k - 1 \in 0 .. n /\ g[k - 1] \in Nat
      OBVIOUS
    <2>1. k - 1 \in 0 .. n
      OBVIOUS
    <2>2. g \in [0 .. n -> Nat]
      BY <1>2
    <2> QED BY <2>1, <2>2
  <1>4. \A k \in 1 .. n : g[k] = g[k - 1] + width[g[k - 1]]
    BY <1>1, <1>2, <1>3
  <1>5. g = body(g)
    <2>1. \A k \in 0 .. n : g[k] = IF k = 0 THEN first ELSE g[k - 1] + width[g[k - 1]]
      BY <1>2, <1>4
    <2> QED BY <1>2, <2>1
  <1>6. s = CHOOSE h : h = body(h)
    BY DEF Starts
  <1> HIDE DEF body, s
  <1>7. s = body(s)
    BY <1>5, <1>6
  <1>8. /\ DOMAIN s = 0 .. n /\ s[0] = first
        /\ \A k \in 1 .. n : s[k] = s[k - 1] + width[s[k - 1]]
    <2>1. DOMAIN s = 0 .. n
      BY <1>7 DEF body
    <2>2. \A k \in 0 .. n : s[k] = IF k = 0 THEN first ELSE s[k - 1] + width[s[k - 1]]
      <3>1. \A k \in 0 .. n : body(s)[k] = IF k = 0 THEN first ELSE s[k - 1] + width[s[k - 1]]
        BY DEF body
      <3> QED BY <1>7, <3>1
    <2>3. 0 \in 0 .. n /\ \A k \in 1 .. n : k \in 0 .. n /\ k # 0
      OBVIOUS
    <2> QED BY <2>1, <2>2, <2>3
  <1>9. \A k \in 0 .. n : s[k] = g[k]
    <2> DEFINE T == {m \in Nat : m \in 0 .. n => s[m] = g[m]}
    <2>1. 0 \in T
      BY <1>2, <1>8
    <2>2. \A m \in T : m + 1 \in T
      <3> SUFFICES ASSUME NEW m \in T, m + 1 \in 0 .. n PROVE s[m + 1] = g[m + 1]
        OBVIOUS
      <3>1. m \in Nat /\ m \in 0 .. n /\ m + 1 \in 1 .. n /\ (m + 1) - 1 = m
        OBVIOUS
      <3>2. s[m] = g[m]
        BY <3>1
      <3> QED BY <1>4, <1>8, <3>1, <3>2
    <2> HIDE DEF T
    <2>3. T = Nat
      <3>1. T \in SUBSET Nat
        BY DEF T
      <3> QED BY <2>1, <2>2, <3>1, SetInduction
    <2>4. ASSUME NEW k \in 0 .. n PROVE s[k] = g[k]
      <3>1. k \in T
        BY <2>3
      <3> QED BY <3>1 DEF T
    <2> QED BY <2>4
  <1>10. s = g
    <2>1. s = [k \in 0 .. n |-> s[k]]
      BY <1>7 DEF body
    <2> QED BY <1>2, <1>9, <2>1
  <1> QED BY <1>2, <1>4, <1>10 DEF s

\* n pieces, and where each begins and ends when they are one after the other.
Pieces(ss, n, U) ==
    /\ n \in Nat /\ DOMAIN ss = 1 .. n /\ Len(ss) = n
    /\ \A k \in 1 .. n : ss[k] \in Seq(U)
Laid(ss, n, c, from) ==
    /\ from \in [0 .. n -> Nat] /\ from[0] = 0 /\ from[n] = Len(c)
    /\ \A k \in 1 .. n :
         /\ from[k] = from[k - 1] + Len(ss[k]) /\ from[k] <= Len(c)
         /\ \A j \in 1 .. Len(ss[k]) : c[from[k - 1] + j] = ss[k][j]

\* Sequences one after the other: each begins where the one before it ends.
LEMMA FlatIs ==
    ASSUME NEW n, NEW U, NEW ss, Pieces(ss, n, U)
    PROVE  Flat(ss) \in Seq(U) /\ \E from : Laid(ss, n, Flat(ss), from)
  <1> SUFFICES ASSUME n \in Nat, DOMAIN ss = 1 .. n, Len(ss) = n,
                      \A k \in 1 .. n : ss[k] \in Seq(U)
               PROVE  Flat(ss) \in Seq(U) /\ \E from : Laid(ss, n, Flat(ss), from)
    BY DEF Pieces
  <1> DEFINE step == [k \in 1 .. n |-> [v \in Seq(U) |-> v \o ss[k]]]
             body(h) == [k \in 0 .. n |-> IF k = 0 THEN <<>> ELSE h[k - 1] \o ss[k]]
             s == CHOOSE h : h = body(h)
  <1>1. /\ step \in [1 .. n -> [Seq(U) -> Seq(U)]]
        /\ \A k \in 1 .. n : \A v \in Seq(U) : step[k][v] = v \o ss[k]
    <2>1. \A k \in 1 .. n : \A v \in Seq(U) : v \o ss[k] \in Seq(U)
      OBVIOUS
    <2> DEFINE V == Seq(U)
    <2>2. \A k \in 1 .. n : \A v \in V : v \o ss[k] \in V
      BY <2>1
    <2> SUFFICES /\ step \in [1 .. n -> [V -> V]]
                 /\ \A k \in 1 .. n : \A v \in V : step[k][v] = v \o ss[k]
      OBVIOUS
    <2>3. step = [k \in 1 .. n |-> [v \in V |-> v \o ss[k]]]
      OBVIOUS
    <2> HIDE DEF V, step
    <2> QED BY <2>2, <2>3
  <1> HIDE DEF step
  <1>2. PICK g \in [0 .. n -> Seq(U)] :
           g[0] = <<>> /\ \A k \in 1 .. n : g[k] = step[k][g[k - 1]]
    <2> DEFINE V == Seq(U)
    <2>1. <<>> \in V
      OBVIOUS
    <2>2. step \in [1 .. n -> [V -> V]]
      BY <1>1
    <2> HIDE DEF V
    <2>3. \E g \in [0 .. n -> V] : g[0] = <<>> /\ \A k \in 1 .. n : g[k] = step[k][g[k - 1]]
      <3>1. PICK g : RunsThrough(n, V, <<>>, step, g)
        BY <2>1, <2>2, StepByStep
      <3> QED BY <3>1 DEF RunsThrough
    <2> QED BY <2>3 DEF V
  <1>3. \A k \in 1 .. n : k - 1 \in 0 .. n /\ g[k - 1] \in Seq(U)
    <2> SUFFICES ASSUME NEW k \in 1 .. n PROVE k - 1 \in 0 .. n /\ g[k - 1] \in Seq(U)
      OBVIOUS
    <2>1. k - 1 \in 0 .. n
      BY <1>1
    <2>2. g \in [0 .. n -> Seq(U)]
      BY <1>2
    <2> QED BY <2>1, <2>2
  <1>4. \A k \in 1 .. n : g[k] = g[k - 1] \o ss[k]
    <2> SUFFICES ASSUME NEW k \in 1 .. n PROVE g[k] = g[k - 1] \o ss[k]
      OBVIOUS
    <2>1. g[k] = step[k][g[k - 1]]
      BY <1>2
    <2>2. g[k - 1] \in Seq(U)
      BY <1>3
    <2> QED BY <1>1, <2>1, <2>2
  <1>5. g = body(g)
    <2>1. \A k \in 0 .. n : g[k] = IF k = 0 THEN <<>> ELSE g[k - 1] \o ss[k]
      <3>1. \A k \in 0 .. n : k = 0 \/ k \in 1 .. n
        OBVIOUS
      <3> QED BY <1>2, <1>4, <3>1
    <2>2. DOMAIN g = 0 .. n /\ g = [k \in DOMAIN g |-> g[k]]
      BY <1>2
    <2> QED BY <2>1, <2>2
  <1>6. Flat(ss) = s[n]
    BY DEF Flat
  <1>7. s = body(s)
    <2> HIDE DEF body
    <2> QED BY <1>5
  <1> HIDE DEF s
  <1>8. /\ DOMAIN s = 0 .. n /\ s[0] = <<>>
        /\ \A k \in 1 .. n : s[k] = s[k - 1] \o ss[k]
    <2>1. DOMAIN s = 0 .. n
      BY <1>7
    <2>2. \A k \in 0 .. n : s[k] = IF k = 0 THEN <<>> ELSE s[k - 1] \o ss[k]
      <3>1. \A k \in 0 .. n : body(s)[k] = IF k = 0 THEN <<>> ELSE s[k - 1] \o ss[k]
        OBVIOUS
      <3> HIDE DEF body
      <3> QED BY <1>7, <3>1
    <2>3. 0 \in 0 .. n /\ \A k \in 1 .. n : k \in 0 .. n /\ k # 0
      OBVIOUS
    <2> QED BY <2>1, <2>2, <2>3
  <1> HIDE DEF body
  <1>9. \A k \in 0 .. n : s[k] = g[k]
    <2> DEFINE T == {m \in Nat : m \in 0 .. n => s[m] = g[m]}
    <2>1. 0 \in T
      BY <1>2, <1>8
    <2>2. \A m \in T : m + 1 \in T
      <3> SUFFICES ASSUME NEW m \in T, m + 1 \in 0 .. n PROVE s[m + 1] = g[m + 1]
        OBVIOUS
      <3>1. m \in Nat /\ m \in 0 .. n /\ m + 1 \in 1 .. n /\ (m + 1) - 1 = m
        OBVIOUS
      <3>2. s[m] = g[m]
        BY <3>1
      <3> QED BY <1>4, <1>8, <3>1, <3>2
    <2> HIDE DEF T
    <2>3. T = Nat
      <3>1. T \in SUBSET Nat
        BY DEF T
      <3> QED BY <2>1, <2>2, <3>1, SetInduction
    <2>4. ASSUME NEW k \in 0 .. n PROVE s[k] = g[k]
      <3>1. k \in T
        BY <2>3
      <3> QED BY <3>1 DEF T
    <2> QED BY <2>4
  <1> DEFINE from == [k \in 0 .. n |-> Len(g[k])]
  <1>10. Flat(ss) = g[n] /\ n \in 0 .. n
    BY <1>6, <1>9
  <1>11. from \in [0 .. n -> Nat] /\ from[0] = 0 /\ \A k \in 0 .. n : from[k] = Len(g[k])
    BY <1>2
  <1>12. \A k \in 1 .. n : from[k] = from[k - 1] + Len(ss[k]) /\ Len(ss[k]) \in Nat
    <2> SUFFICES ASSUME NEW k \in 1 .. n
                 PROVE  from[k] = from[k - 1] + Len(ss[k]) /\ Len(ss[k]) \in Nat
      OBVIOUS
    <2>1. k - 1 \in 0 .. n /\ k \in 0 .. n /\ g[k - 1] \in Seq(U) /\ g[k] = g[k - 1] \o ss[k]
      BY <1>3, <1>4
    <2>2. Len(g[k - 1] \o ss[k]) = Len(g[k - 1]) + Len(ss[k]) /\ Len(ss[k]) \in Nat
      BY <2>1, OneAfterTheOther
    <2> HIDE DEF from
    <2> QED BY <1>11, <2>1, <2>2
  <1> HIDE DEF from
  <1>13. \A m \in 0 .. n : \A k \in 1 .. m :
            from[k] <= from[m] /\ \A j \in 1 .. Len(ss[k]) : g[m][from[k - 1] + j] = ss[k][j]
    <2> DEFINE holds(m, k) == /\ from[k] <= from[m]
                              /\ \A j \in 1 .. Len(ss[k]) : g[m][from[k - 1] + j] = ss[k][j]
               T == {m \in Nat : m \in 0 .. n => \A k \in 1 .. m : holds(m, k)}
    <2>1. 0 \in T
      <3>1. 1 .. 0 = {}
        OBVIOUS
      <3> QED BY <3>1
    <2>2. \A m \in T : m + 1 \in T
      <3> HIDE DEF holds
      <3> SUFFICES ASSUME NEW m \in T PROVE m + 1 \in T
        OBVIOUS
      <3>0. m \in Nat /\ m + 1 \in Nat /\ (m \in 0 .. n => \A k \in 1 .. m : holds(m, k))
        OBVIOUS
      <3> SUFFICES ASSUME m + 1 \in 0 .. n, NEW k \in 1 .. m + 1
                   PROVE  holds(m + 1, k)
        BY <3>0
      <3> HIDE DEF T
      <3>1. m \in Nat /\ m \in 0 .. n /\ m + 1 \in 1 .. n /\ (m + 1) - 1 = m
        BY <3>0
      <3>2. /\ g[m] \in Seq(U) /\ ss[m + 1] \in Seq(U) /\ g[m + 1] = g[m] \o ss[m + 1]
            /\ from[m] = Len(g[m]) /\ from[m] \in Nat /\ from[m + 1] = from[m] + Len(ss[m + 1])
            /\ Len(ss[m + 1]) \in Nat
        BY <1>2, <1>4, <1>11, <1>12, <3>1
      <3>20. /\ \A i \in 1 .. from[m] : g[m + 1][i] = g[m][i]
            /\ \A j \in 1 .. Len(ss[m + 1]) : g[m + 1][from[m] + j] = ss[m + 1][j]
        <4> DEFINE a == g[m]
                   b == ss[m + 1]
        <4>1. a \in Seq(U) /\ b \in Seq(U)
          BY <3>2
        <4>2. g[m + 1] = a \o b /\ from[m] = Len(a)
          BY <3>2
        <4> HIDE DEF a, b
        <4>3. /\ \A i \in 1 .. Len(a) : (a \o b)[i] = a[i]
              /\ \A j \in 1 .. Len(b) : (a \o b)[Len(a) + j] = b[j]
          BY <4>1, OneAfterTheOther
        <4> QED BY <4>2, <4>3 DEF a, b
      <3>3. CASE k = m + 1
        <4>1. from[k] <= from[m + 1]
          <5>1. from[m + 1] \in Nat
            BY <1>11, <3>1
          <5> QED BY <3>3, <5>1
        <4>2. ASSUME NEW j \in 1 .. Len(ss[m + 1]) PROVE g[m + 1][from[m] + j] = ss[m + 1][j]
          BY <3>20
        <4>3. k - 1 = m
          BY <3>1, <3>3
        <4> QED BY <3>3, <4>1, <4>2, <4>3 DEF holds
      <3>4. CASE k # m + 1
        <4>1. k \in 1 .. m /\ k \in 1 .. n /\ k - 1 \in 0 .. n /\ k \in 0 .. n
          BY <3>1, <3>4
        <4>2. /\ from[k] <= from[m]
              /\ \A j \in 1 .. Len(ss[k]) : g[m][from[k - 1] + j] = ss[k][j]
          BY <3>0, <3>1, <4>1 DEF holds
        <4>3. /\ from[k] = from[k - 1] + Len(ss[k]) /\ Len(ss[k]) \in Nat
              /\ from[k] \in Nat /\ from[k - 1] \in Nat
          BY <1>11, <1>12, <4>1
        <4> HIDE DEF T
        <4>4. ASSUME NEW j \in 1 .. Len(ss[k])
              PROVE  g[m + 1][from[k - 1] + j] = ss[k][j]
          <5> DEFINE i == from[k - 1] + j
                     l == Len(ss[k])
          <5>1. l \in Nat /\ from[k - 1] \in Nat /\ from[k - 1] + l <= from[m] /\ from[m] \in Nat
            BY <3>2, <4>2, <4>3
          <5> HIDE DEF l
          <5>2. i \in 1 .. from[m]
            <6> DEFINE q == from[k - 1]
                       z == from[m]
            <6>1. j \in 1 .. l /\ q \in Nat /\ z \in Nat /\ l \in Nat /\ q + l <= z /\ i = q + j
              BY <5>1 DEF l
            <6> HIDE DEF q, z, i
            <6>2. i \in 1 .. z
              BY <6>1
            <6> QED BY <6>2 DEF z
          <5> HIDE DEF i
          <5>3. g[m + 1][i] = g[m][i]
            BY <3>20, <5>2
          <5>4. g[m][i] = ss[k][j]
            BY <4>2 DEF i
          <5> QED BY <5>3, <5>4 DEF i
        <4>5. from[k] <= from[m + 1]
          <5> DEFINE l == Len(ss[m + 1])
                     x == from[k]
                     y == from[m]
                     z == from[m + 1]
          <5>1. l \in Nat /\ y \in Nat /\ z = y + l
            BY <3>2
          <5>2. x <= y /\ x \in Nat
            BY <3>2, <4>2, <4>3
          <5> SUFFICES x <= z
            OBVIOUS
          <5> HIDE DEF l, x, y, z
          <5> QED BY <5>1, <5>2
        <4> QED BY <4>4, <4>5 DEF holds
      <3> QED BY <3>3, <3>4
    <2> HIDE DEF T
    <2>3. T = Nat
      <3>1. T \in SUBSET Nat
        BY DEF T
      <3> QED BY <2>1, <2>2, <3>1, SetInduction
    <2>4. ASSUME NEW m \in 0 .. n, NEW k \in 1 .. m PROVE holds(m, k)
      <3>1. m \in T
        BY <2>3
      <3> HIDE DEF holds
      <3> QED BY <3>1 DEF T
    <2> QED BY <2>4
  <1>14. from[n] = Len(Flat(ss))
    BY <1>10, <1>11
  <1>15. \A k \in 1 .. n : /\ from[k] = from[k - 1] + Len(ss[k]) /\ from[k] <= Len(Flat(ss))
                           /\ \A j \in 1 .. Len(ss[k]) : Flat(ss)[from[k - 1] + j] = ss[k][j]
    <2> SUFFICES ASSUME NEW k \in 1 .. n
                 PROVE  /\ from[k] = from[k - 1] + Len(ss[k]) /\ from[k] <= Len(Flat(ss))
                        /\ \A j \in 1 .. Len(ss[k]) : Flat(ss)[from[k - 1] + j] = ss[k][j]
      OBVIOUS
    <2>1. from[k] = from[k - 1] + Len(ss[k])
      BY <1>12
    <2>2. from[k] <= from[n] /\ \A j \in 1 .. Len(ss[k]) : g[n][from[k - 1] + j] = ss[k][j]
      BY <1>13
    <2> QED BY <1>10, <1>14, <2>1, <2>2
  <1>16. Flat(ss) \in Seq(U)
    BY <1>2, <1>10
  <1>17. Laid(ss, n, Flat(ss), from)
    BY <1>11, <1>14, <1>15 DEF Laid
  <1> QED BY <1>16, <1>17

-----------------------------------------------------------------------------
(* Things one after the other, and where they are found.                   *)

\* What is read where something was written.
Has(u, p, x) ==
    /\ p \in Nat /\ Len(u) \in Nat /\ Len(x) \in Nat /\ p + Len(x) <= Len(u)
    /\ \A j \in 1 .. Len(x) : u[p + j] = x[j]

\* Where one sequence after another lies, both do.
LEMMA HasBoth ==
    ASSUME NEW U, NEW a \in Seq(U), NEW b \in Seq(U), NEW u, NEW p, Has(u, p, a \o b)
    PROVE  Has(u, p, a) /\ Has(u, p + Len(a), b) /\ Len(a \o b) = Len(a) + Len(b)
  <1> DEFINE c == a \o b
             m == Len(a)
             n == Len(b)
  <1>1. /\ m \in Nat /\ n \in Nat /\ Len(c) = m + n
        /\ \A i \in 1 .. m : c[i] = a[i]
        /\ \A j \in 1 .. n : c[m + j] = b[j]
    BY OneAfterTheOther
  <1>2. /\ p \in Nat /\ Len(u) \in Nat /\ p + Len(c) <= Len(u)
        /\ \A j \in 1 .. Len(c) : u[p + j] = c[j]
    BY DEF Has
  <1> SUFFICES Has(u, p, a) /\ Has(u, p + m, b) /\ Len(c) = m + n
    OBVIOUS
  <1> HIDE DEF c
  <1>3. Has(u, p, a)
    <2>1. \A j \in 1 .. m : u[p + j] = a[j]
      <3> HIDE DEF m, n
      <3> QED BY <1>1, <1>2
    <2>2. p + m <= Len(u)
      <3> HIDE DEF m, n
      <3> QED BY <1>1, <1>2
    <2> QED BY <1>1, <1>2, <2>1, <2>2 DEF Has
  <1>4. Has(u, p + m, b)
    <2> HIDE DEF m
    <2>1. ASSUME NEW j \in 1 .. n PROVE u[(p + m) + j] = b[j]
      <3> HIDE DEF n
      <3>1. m + j \in 1 .. Len(c) /\ (p + m) + j = p + (m + j)
        BY <1>1, <1>2
      <3>2. u[p + (m + j)] = c[m + j]
        BY <1>2, <3>1
      <3>3. c[m + j] = b[j]
        BY <1>1
      <3> QED BY <3>1, <3>2, <3>3
    <2>2. p + m \in Nat /\ (p + m) + n <= Len(u)
      <3> HIDE DEF n
      <3> QED BY <1>1, <1>2
    <2> QED BY <1>1, <1>2, <2>1, <2>2 DEF Has
  <1> QED BY <1>1, <1>3, <1>4

\* Each begins where the one before it ends.
StepsBy(n, first, width, g) ==
    /\ n \in Nat /\ g \in [0 .. n -> Nat] /\ g[0] = first
    /\ \A k \in 1 .. n : g[k] = g[k - 1] + width[g[k - 1]]

\* Starts finds the beginnings if each width is right.
LEMMA StartsFollow ==
    ASSUME NEW n, NEW first, NEW width, NEW g, StepsBy(n, first, width, g)
    PROVE  \A k \in 0 .. n : Starts(n, first, width)[k] = g[k]
  <1> SUFFICES ASSUME n \in Nat, g \in [0 .. n -> Nat], g[0] = first,
                      \A k \in 1 .. n : g[k] = g[k - 1] + width[g[k - 1]]
               PROVE  \A k \in 0 .. n : Starts(n, first, width)[k] = g[k]
    BY DEF StepsBy
  <1> DEFINE body(h) == [k \in 0 .. n |-> IF k = 0 THEN first ELSE h[k - 1] + width[h[k - 1]]]
             s == Starts(n, first, width)
  <1>1. g = body(g)
    <2>1. \A k \in 0 .. n : g[k] = IF k = 0 THEN first ELSE g[k - 1] + width[g[k - 1]]
      OBVIOUS
    <2> QED BY <2>1
  <1>2. s = CHOOSE h : h = body(h)
    BY DEF Starts
  <1> HIDE DEF body, s
  <1>3. s = body(s)
    BY <1>1, <1>2
  <1>4. s[0] = first /\ \A k \in 1 .. n : s[k] = s[k - 1] + width[s[k - 1]]
    <2>1. \A k \in 0 .. n : s[k] = IF k = 0 THEN first ELSE s[k - 1] + width[s[k - 1]]
      <3>1. \A k \in 0 .. n : body(s)[k] = IF k = 0 THEN first ELSE s[k - 1] + width[s[k - 1]]
        BY DEF body
      <3> QED BY <1>3, <3>1
    <2>2. 0 \in 0 .. n /\ \A k \in 1 .. n : k \in 0 .. n /\ k # 0
      OBVIOUS
    <2> QED BY <2>1, <2>2
  <1> DEFINE T == {m \in Nat : m \in 0 .. n => s[m] = g[m]}
  <1>5. 0 \in T
    BY <1>4
  <1>6. \A m \in T : m + 1 \in T
    <2> SUFFICES ASSUME NEW m \in T, m + 1 \in 0 .. n PROVE s[m + 1] = g[m + 1]
      OBVIOUS
    <2>1. m \in Nat /\ m \in 0 .. n /\ m + 1 \in 1 .. n /\ (m + 1) - 1 = m
      OBVIOUS
    <2>2. s[m] = g[m]
      BY <2>1
    <2> QED BY <1>4, <2>1, <2>2
  <1> HIDE DEF T
  <1>7. T = Nat
    <2>1. T \in SUBSET Nat
      BY DEF T
    <2> QED BY <1>5, <1>6, <2>1, SetInduction
  <1>8. ASSUME NEW k \in 0 .. n PROVE s[k] = g[k]
    <2>1. k \in T
      BY <1>7
    <2> QED BY <2>1 DEF T
  <1> QED BY <1>8 DEF s

\* The width of a piece is told where it lies.
Wide(ss, n, u, width) ==
    \A k \in 1 .. n : \A p \in Nat : Has(u, p, ss[k]) => width[p] = Len(ss[k])

\* Pieces one after the other are found where they were written.
LEMMA PiecesAreFound ==
    ASSUME NEW n, NEW U, NEW ss, Pieces(ss, n, U), NEW u, NEW q, Has(u, q, Flat(ss)),
           NEW width, Wide(ss, n, u, width)
    PROVE  /\ \A k \in 1 .. n : Has(u, Starts(n, q, width)[k - 1], ss[k])
           /\ Starts(n, q, width)[n] = q + Len(Flat(ss))
  <1> DEFINE c == Flat(ss)
             s == Starts(n, q, width)
  <1>1. PICK from : Laid(ss, n, c, from)
    BY FlatIs
  <1>2. /\ q \in Nat /\ Len(u) \in Nat /\ Len(c) \in Nat /\ q + Len(c) <= Len(u)
        /\ \A j \in 1 .. Len(c) : u[q + j] = c[j]
    BY DEF Has
  <1>3. n \in Nat /\ \A k \in 1 .. n : ss[k] \in Seq(U)
    BY DEF Pieces
  <1> HIDE DEF c
  <1>4. ASSUME NEW k \in 1 .. n
        PROVE  /\ k - 1 \in 0 .. n /\ k \in 0 .. n
               /\ q + from[k - 1] \in Nat /\ q + from[k] \in Nat
               /\ q + from[k] = (q + from[k - 1]) + Len(ss[k])
               /\ Has(u, q + from[k - 1], ss[k])
    <2> DEFINE l == Len(ss[k])
               a == from[k - 1]
               b == from[k]
               z == Len(c)
    <2>1. k - 1 \in 0 .. n /\ k \in 0 .. n
      BY <1>3
    <2>2. ss[k] \in Seq(U)
      BY <1>3
    <2>3. l \in Nat
      BY <2>2
    <2>4. a \in Nat /\ b \in Nat /\ b = a + l /\ b <= z /\ \A j \in 1 .. l : c[a + j] = ss[k][j]
      BY <1>1, <2>1 DEF Laid
    <2>5. z \in Nat /\ q + z <= Len(u) /\ \A j \in 1 .. z : u[q + j] = c[j]
      BY <1>2
    <2> SUFFICES /\ q + a \in Nat /\ q + b \in Nat /\ q + b = (q + a) + l
                 /\ Has(u, q + a, ss[k])
      BY <2>1
    <2> HIDE DEF l, a, b, z
    <2>6. ASSUME NEW j \in 1 .. l PROVE u[(q + a) + j] = ss[k][j]
      <3>1. a + j \in 1 .. z /\ (q + a) + j = q + (a + j)
        BY <1>2, <2>3, <2>4, <2>5
      <3> QED BY <2>4, <2>5, <3>1
    <2>7. q + a \in Nat /\ q + b \in Nat /\ (q + a) + l <= Len(u) /\ (q + b) = (q + a) + l
      BY <1>2, <2>3, <2>4, <2>5
    <2>8. Has(u, q + a, ss[k])
      <3>1. Len(ss[k]) \in Nat /\ (q + a) + Len(ss[k]) <= Len(u)
        BY <2>3, <2>7 DEF l
      <3>2. \A j \in 1 .. Len(ss[k]) : u[(q + a) + j] = ss[k][j]
        BY <2>6 DEF l
      <3> QED BY <1>2, <2>7, <3>1, <3>2 DEF Has
    <2> QED BY <2>7, <2>8
  <1> DEFINE g == [k \in 0 .. n |-> q + from[k]]
  <1>5. \A k \in 0 .. n : g[k] = q + from[k]
    OBVIOUS
  <1>6. \A k \in 0 .. n : q + from[k] \in Nat
    BY <1>1, <1>2 DEF Laid
  <1>7. g \in [0 .. n -> Nat]
    BY <1>6
  <1> HIDE DEF g
  <1>8. g[0] = q /\ g[n] = q + Len(c)
    <2>1. 0 \in 0 .. n /\ n \in 0 .. n
      BY <1>3
    <2>2. from[0] = 0 /\ from[n] = Len(c)
      BY <1>1 DEF Laid
    <2>3. g[0] = q + 0 /\ g[n] = q + Len(c)
      BY <1>5, <2>1, <2>2
    <2> QED BY <1>2, <2>3
  <1>9. ASSUME NEW k \in 1 .. n PROVE g[k] = g[k - 1] + width[g[k - 1]]
    <2>1. /\ k - 1 \in 0 .. n /\ k \in 0 .. n /\ g[k] = g[k - 1] + Len(ss[k])
          /\ g[k - 1] \in Nat /\ Has(u, g[k - 1], ss[k])
      BY <1>4, <1>5
    <2>2. width[g[k - 1]] = Len(ss[k])
      BY <2>1 DEF Wide
    <2> QED BY <2>1, <2>2
  <1>10. StepsBy(n, q, width, g)
    BY <1>3, <1>7, <1>8, <1>9 DEF StepsBy
  <1>11. \A k \in 0 .. n : s[k] = g[k]
    BY <1>10, StartsFollow
  <1> HIDE DEF s
  <1>12. ASSUME NEW k \in 1 .. n PROVE Has(u, s[k - 1], ss[k])
    <2>1. k - 1 \in 0 .. n /\ Has(u, q + from[k - 1], ss[k])
      BY <1>4
    <2> QED BY <1>5, <1>11, <2>1
  <1>13. s[n] = q + Len(c)
    <2>1. n \in 0 .. n
      BY <1>3
    <2> QED BY <1>8, <1>11, <2>1
  <1> QED BY <1>12, <1>13 DEF c, s

-----------------------------------------------------------------------------
(* Shard sets.                                                             *)

\* The units of a manifest over numbers N, options O and digests D, and what
\* these must be like to come back as they were.
UnitsOver(N, O, D) ==
    {Num(n) : n \in N} \union {Str(s) : s \in Role \union Kind} \union {Sizes(o) : o \in O}
        \union {Magic, Algorithms} \union D
Kept(N, O, D) ==
    /\ Nat \subseteq N
    /\ \A o \in O : o = [avg |-> o.avg, min |-> o.min, max |-> o.max]
    /\ \A d \in D : d.kind = "digest"

\* A sequence, whatever its elements.
IsRow(s) == Len(s) \in Nat /\ DOMAIN s = 1 .. Len(s) /\ s = [k \in 1 .. Len(s) |-> s[k]]

\* A shard set as Detect makes it, and one the reader has no quarrel with.
ShardWritten(s, N) ==
    /\ s = [name |-> s.name, parts |-> s.parts, total |-> s.total, size |-> s.size]
    /\ s.name \in N /\ s.total \in N /\ s.size \in N
    /\ IsRow(s.parts) /\ \A k \in 1 .. Len(s.parts) : s.parts[k] \in N
ShardWithin(s) == Len(s.parts) <= MaxCount

\* What each kind of unit says.
LEMMA UnitKinds ==
    /\ \A n : Num(n).kind = "num" /\ Num(n).nums = <<n>> /\ Num(n).nums[1] = n
    /\ \A s : Str(s).kind = "str" /\ Str(s).string = s
    /\ \A o : /\ Sizes(o).kind = "num" /\ Len(Sizes(o).nums) = 3
              /\ SizesOf(Sizes(o)) = [avg |-> o.avg, min |-> o.min, max |-> o.max]
    /\ Algorithms.kind = "num" /\ Magic.kind = "str"
  BY DEF Num, Str, Sizes, SizesOf, Algorithms, Magic, Unit

\* A number is read as itself.
LEMMA OneNumber ==
    ASSUME NEW u, NEW p, NEW n, u[p + 1] = Num(n)
    PROVE  Value(u, p) = n /\ (p + 1 <= Len(u) => Follows(u, p, <<"num">>))
  <1>1. Num(n).nums[1] = n /\ Num(n).kind = "num"
    BY DEF Num, Unit
  <1>2. Value(u, p) = n
    BY <1>1 DEF Value
  <1>3. Len(<<"num">>) = 1 /\ DOMAIN <<"num">> = {1} /\ <<"num">>[1] = "num"
    OBVIOUS
  <1> DEFINE kinds == <<"num">>
  <1> SUFFICES p + 1 <= Len(u) => Follows(u, p, kinds)
    BY <1>2
  <1>4. Len(kinds) = 1 /\ DOMAIN kinds = {1} /\ kinds[1] = "num" /\ u[p + 1].kind = "num"
    BY <1>1, <1>3
  <1> HIDE DEF kinds
  <1> QED BY <1>4 DEF Follows

\* A shard set is written in such units (binary.go:124-132).
LEMMA ShardUnits ==
    ASSUME NEW N, NEW O, NEW D, Kept(N, O, D), NEW s, ShardWritten(s, N)
    PROVE  EncodeShard(s) \in Seq(UnitsOver(N, O, D))
  <1> DEFINE U == UnitsOver(N, O, D)
             n == Len(s.parts)
             t == [k \in 1 .. n |-> Num(s.parts[k])]
  <1>1. \A x \in N : Num(x) \in U
    BY DEF UnitsOver
  <1>2. n \in Nat /\ n \in N /\ DOMAIN s.parts = 1 .. n
    BY DEF ShardWritten, IsRow, Kept
  <1>3. t \in Seq(U)
    <2>1. \A k \in 1 .. n : Num(s.parts[k]) \in U
      BY <1>1 DEF ShardWritten
    <2> HIDE DEF U, n
    <2> QED BY <1>2, <2>1
  <1> DEFINE h == <<Num(s.name), Num(s.total), Num(s.size), Num(n)>>
  <1>4. h \in Seq(U)
    <2>1. Num(s.name) \in U /\ Num(s.total) \in U /\ Num(s.size) \in U /\ Num(n) \in U
      BY <1>1, <1>2 DEF ShardWritten
    <2> HIDE DEF U, n
    <2> QED BY <2>1
  <1>5. EncodeShard(s) = h \o t
    BY <1>2 DEF EncodeShard
  <1> HIDE DEF U, h, t
  <1>6. h \o t \in Seq(U)
    BY <1>3, <1>4, OneAfterTheOther
  <1> QED BY <1>5, <1>6 DEF U

\* A shard set is read as what was written (binary.go:321-334).
LEMMA ShardIsRead ==
    ASSUME NEW N, NEW O, NEW D, Kept(N, O, D), NEW s, ShardWritten(s, N), ShardWithin(s),
           NEW u, NEW p, Has(u, p, EncodeShard(s))
    PROVE  /\ IsShard(u, p) /\ ShardAt(u, p) = s
           /\ ShardWidth(u)[p] = Len(EncodeShard(s))
  <1> DEFINE U == UnitsOver(N, O, D)
             n == Len(s.parts)
             t == [k \in 1 .. n |-> Num(s.parts[k])]
             h == <<Num(s.name), Num(s.total), Num(s.size), Num(n)>>
  <1>1. \A x \in N : Num(x) \in U
    BY DEF UnitsOver
  <1>2. n \in Nat /\ n \in N /\ DOMAIN s.parts = 1 .. n
    BY DEF ShardWritten, IsRow, Kept
  <1>3. t \in Seq(U)
    <2>1. \A k \in 1 .. n : Num(s.parts[k]) \in U
      BY <1>1 DEF ShardWritten
    <2> HIDE DEF U, n
    <2> QED BY <1>2, <2>1
  <1>4. h \in Seq(U)
    <2>1. Num(s.name) \in U /\ Num(s.total) \in U /\ Num(s.size) \in U /\ Num(n) \in U
      BY <1>1, <1>2 DEF ShardWritten
    <2> HIDE DEF U, n
    <2> QED BY <2>1
  <1>5. EncodeShard(s) = h \o t
    BY <1>2 DEF EncodeShard
  <1>6. Len(h) = 4 /\ Len(t) = n /\ Len(h \o t) = 4 + n
    <2>1. Len(h) = 4 /\ Len(t) = n
      <3> HIDE DEF n
      <3> QED BY <1>2
    <2> HIDE DEF h, t, U
    <2>2. Len(h \o t) = Len(h) + Len(t)
      BY <1>3, <1>4, OneAfterTheOther
    <2> QED BY <2>1, <2>2
  <1>7. Has(u, p, h) /\ Has(u, p + 4, t)
    <2> HIDE DEF h, t, U, n
    <2>1. Has(u, p, h \o t)
      BY <1>5
    <2>2. Has(u, p, h) /\ Has(u, p + Len(h), t)
      BY <1>3, <1>4, <2>1, HasBoth
    <2> QED BY <1>6, <2>2
  <1>8. /\ p \in Nat /\ Len(u) \in Nat /\ p + 4 <= Len(u) /\ (p + 4) + n <= Len(u)
        /\ u[p + 1] = Num(s.name) /\ u[p + 2] = Num(s.total)
        /\ u[p + 3] = Num(s.size) /\ u[p + 4] = Num(n)
    <2>1. \A j \in 1 .. 4 : u[p + j] = h[j]
      <3> HIDE DEF h, t
      <3> QED BY <1>6, <1>7 DEF Has
    <2>2. h[1] = Num(s.name) /\ h[2] = Num(s.total) /\ h[3] = Num(s.size) /\ h[4] = Num(n)
      OBVIOUS
    <2> HIDE DEF h, t, n
    <2>3. 1 \in 1 .. 4 /\ 2 \in 1 .. 4 /\ 3 \in 1 .. 4 /\ 4 \in 1 .. 4
      OBVIOUS
    <2>4. p \in Nat /\ Len(u) \in Nat /\ p + 4 <= Len(u) /\ (p + 4) + n <= Len(u)
      BY <1>6, <1>7 DEF Has
    <2> QED BY <2>1, <2>2, <2>3, <2>4
  <1>9. \A k \in 1 .. n : u[(p + 4) + k] = Num(s.parts[k])
    <2>1. \A k \in 1 .. n : u[(p + 4) + k] = t[k]
      <3> HIDE DEF t, n
      <3> QED BY <1>6, <1>7 DEF Has
    <2> QED BY <2>1
  <1> HIDE DEF h, t, U
  <1>10. Value(u, p) = s.name /\ Value(u, p + 1) = s.total /\ Value(u, p + 2) = s.size
         /\ Value(u, p + 3) = n
    <2>1. (p + 1) + 1 = p + 2 /\ (p + 2) + 1 = p + 3 /\ (p + 3) + 1 = p + 4
      BY <1>8
    <2> HIDE DEF n
    <2>2. Value(u, p) = s.name
      BY <1>8, OneNumber
    <2>3. Value(u, p + 1) = s.total
      BY <1>8, <2>1, OneNumber
    <2>4. Value(u, p + 2) = s.size
      BY <1>8, <2>1, OneNumber
    <2>5. Value(u, p + 3) = n
      BY <1>8, <2>1, OneNumber
    <2> QED BY <2>2, <2>3, <2>4, <2>5
  <1>11. \A k \in 1 .. n :
           /\ Follows(u, p + 3 + k, <<"num">>) /\ Value(u, p + 3 + k) = s.parts[k]
    <2> SUFFICES ASSUME NEW k \in 1 .. n
                 PROVE  Follows(u, p + 3 + k, <<"num">>) /\ Value(u, p + 3 + k) = s.parts[k]
      OBVIOUS
    <2> HIDE DEF n
    <2>1. (p + 3 + k) + 1 = (p + 4) + k /\ (p + 3 + k) + 1 <= Len(u)
      BY <1>2, <1>8
    <2>2. u[(p + 3 + k) + 1] = Num(s.parts[k])
      BY <1>9, <2>1
    <2> QED BY <2>1, <2>2, OneNumber
  <1>12. Follows(u, p, <<"num", "num", "num">>) /\ Follows(u, p + 3, <<"num">>)
    <2> HIDE DEF n
    <2>1. Len(<<"num", "num", "num">>) = 3 /\ Len(<<"num">>) = 1 /\ (p + 3) + 1 = p + 4
          /\ p + 3 <= Len(u)
      BY <1>8
    <2>2. u[p + 1].kind = "num" /\ u[p + 2].kind = "num" /\ u[p + 3].kind = "num"
          /\ u[p + 4].kind = "num"
      BY <1>8, UnitKinds
    <2> QED BY <1>8, <2>1, <2>2 DEF Follows
  <1>13. IsShard(u, p)
    <2>1. HasCount(u, p + 3)
      BY <1>10, <1>12 DEF HasCount, ShardWithin
    <2> QED BY <1>10, <1>11, <1>12, <2>1 DEF IsShard
  <1>14. ShardAt(u, p) = s
    <2>1. [k \in 1 .. n |-> Value(u, p + 3 + k)] = s.parts
      <3>1. s.parts = [k \in 1 .. n |-> s.parts[k]]
        BY DEF ShardWritten, IsRow
      <3> HIDE DEF n
      <3> QED BY <1>11, <3>1
    <2>2. ShardAt(u, p) = [name |-> s.name, total |-> s.total, size |-> s.size, parts |-> s.parts]
      BY <1>10, <2>1 DEF ShardAt
    <2> QED BY <2>2 DEF ShardWritten
  <1>15. ShardWidth(u)[p] = 4 + n
    BY <1>8, <1>10, <1>13 DEF ShardWidth
  <1> QED BY <1>5, <1>6, <1>13, <1>14, <1>15

-----------------------------------------------------------------------------
(* Files and their chunks.                                                 *)

\* A file's chunks, as they are made.
ChunksWritten(chunks, N, D) ==
    /\ IsRow(chunks)
    /\ \A k \in 1 .. Len(chunks) :
         /\ chunks[k] = [offset |-> chunks[k].offset, length |-> chunks[k].length,
                         digest |-> chunks[k].digest]
         /\ chunks[k].length \in N /\ chunks[k].digest \in D
         /\ chunks[k].offset = IF k = 1 THEN 0 ELSE End(chunks[k - 1])
\* A file as Build describes it, and one within the reader's limits.
FileWritten(f, N, O, D) ==
    /\ f = [path |-> f.path, size |-> f.size, role |-> f.role, digest |-> f.digest,
            chunker |-> f.chunker, chunks |-> f.chunks]
    /\ f.path \in N /\ f.size \in N /\ f.role \in Role /\ f.digest \in D /\ f.chunker \in O
    /\ ChunksWritten(f.chunks, N, D)
FileWithin(f) ==
    /\ Len(f.chunks) <= MaxCount
    /\ \A k \in 1 .. Len(f.chunks) : f.chunks[k].length <= MaxLength

\* Pieces of two units each.
LEMMA PairsAreFound ==
    ASSUME NEW n, NEW U, NEW ss, Pieces(ss, n, U), \A k \in 1 .. n : Len(ss[k]) = 2
    PROVE  /\ Flat(ss) \in Seq(U) /\ Len(Flat(ss)) = 2 * n
           /\ \A k \in 1 .. n : /\ Flat(ss)[2 * (k - 1) + 1] = ss[k][1]
                                /\ Flat(ss)[2 * (k - 1) + 2] = ss[k][2]
  <1> DEFINE c == Flat(ss)
  <1>1. c \in Seq(U) /\ \E from : Laid(ss, n, c, from)
    BY FlatIs
  <1>2. PICK from : Laid(ss, n, c, from)
    BY <1>1
  <1> HIDE DEF c
  <1>3. n \in Nat
    BY DEF Pieces
  <1>4. /\ from \in [0 .. n -> Nat] /\ from[0] = 0 /\ from[n] = Len(c)
        /\ \A k \in 1 .. n : from[k] = from[k - 1] + 2
        /\ \A k \in 1 .. n : \A j \in 1 .. 2 : c[from[k - 1] + j] = ss[k][j]
    BY <1>2 DEF Laid
  <1> DEFINE T == {m \in Nat : m \in 0 .. n => from[m] = 2 * m}
  <1>5. 0 \in T
    BY <1>4
  <1>6. \A m \in T : m + 1 \in T
    <2> SUFFICES ASSUME NEW m \in T, m + 1 \in 0 .. n PROVE from[m + 1] = 2 * (m + 1)
      OBVIOUS
    <2>1. m \in Nat /\ m \in 0 .. n /\ m + 1 \in 1 .. n /\ (m + 1) - 1 = m
      BY <1>3
    <2>2. from[m] = 2 * m /\ from[m + 1] = from[m] + 2
      BY <1>4, <2>1
    <2> QED BY <2>1, <2>2
  <1> HIDE DEF T
  <1>7. T = Nat
    <2>1. T \in SUBSET Nat
      BY DEF T
    <2> QED BY <1>5, <1>6, <2>1, SetInduction
  <1>8. ASSUME NEW k \in 0 .. n PROVE from[k] = 2 * k
    <2>1. k \in T
      BY <1>7
    <2> QED BY <2>1 DEF T
  <1>9. Len(c) = 2 * n
    BY <1>3, <1>4, <1>8
  <1>10. ASSUME NEW k \in 1 .. n
         PROVE  c[2 * (k - 1) + 1] = ss[k][1] /\ c[2 * (k - 1) + 2] = ss[k][2]
    <2>1. k - 1 \in 0 .. n
      BY <1>3
    <2>2. from[k - 1] = 2 * (k - 1)
      BY <1>8, <2>1
    <2>3. 1 \in 1 .. 2 /\ 2 \in 1 .. 2
      OBVIOUS
    <2> QED BY <1>4, <2>2, <2>3
  <1> QED BY <1>1, <1>9, <1>10 DEF c

\* The chunks that lie in u after place p.
ChunksThere(u, p, chunks) ==
    \A k \in 1 .. Len(chunks) :
        /\ Value(u, ChunkPlace(p, k)) = chunks[k].length
        /\ u[ChunkPlace(p, k) + 2] = chunks[k].digest

\* Chunks are read as what was written, with their offsets (binary.go:354-364).
LEMMA ChunksAreRead ==
    ASSUME NEW N, NEW D, NEW chunks, ChunksWritten(chunks, N, D), NEW u, NEW p,
           ChunksThere(u, p, chunks)
    PROVE  ChunksAt(u, p, Len(chunks)) = chunks
  <1> DEFINE n == Len(chunks)
             body(h) == [k \in 1 .. n |->
                            IF k = 1 THEN 0 ELSE h[k - 1] + Value(u, ChunkPlace(p, k - 1))]
             s == CHOOSE h : h = body(h)
             g == [k \in 1 .. n |-> chunks[k].offset]
  <1>1. /\ n \in Nat /\ chunks = [k \in 1 .. n |-> chunks[k]]
        /\ \A k \in 1 .. n :
             /\ chunks[k] = [offset |-> chunks[k].offset, length |-> chunks[k].length,
                             digest |-> chunks[k].digest]
             /\ chunks[k].offset =
                  IF k = 1 THEN 0 ELSE chunks[k - 1].offset + chunks[k - 1].length
    BY DEF ChunksWritten, IsRow, End
  <1>2. \A k \in 1 .. n : /\ Value(u, ChunkPlace(p, k)) = chunks[k].length
                          /\ u[ChunkPlace(p, k) + 2] = chunks[k].digest
    BY DEF ChunksThere
  <1>3. ChunksAt(u, p, n) =
          [k \in 1 .. n |-> [offset |-> s[k], length |-> Value(u, ChunkPlace(p, k)),
                             digest |-> u[ChunkPlace(p, k) + 2]]]
    BY DEF ChunksAt
  <1> HIDE DEF n
  <1>4. \A k \in 1 .. n : k # 1 => k - 1 \in 1 .. n
    BY <1>1
  <1>5. \A k \in 1 .. n :
          g[k] = IF k = 1 THEN 0 ELSE g[k - 1] + Value(u, ChunkPlace(p, k - 1))
    <2> SUFFICES ASSUME NEW k \in 1 .. n
                 PROVE  g[k] = IF k = 1 THEN 0 ELSE g[k - 1] + Value(u, ChunkPlace(p, k - 1))
      OBVIOUS
    <2>1. g[k] = IF k = 1 THEN 0 ELSE chunks[k - 1].offset + chunks[k - 1].length
      BY <1>1
    <2>2. CASE k = 1
      BY <2>1, <2>2
    <2>3. CASE k # 1
      <3>1. k - 1 \in 1 .. n
        BY <1>4, <2>3
      <3>2. g[k - 1] = chunks[k - 1].offset
        BY <3>1
      <3>3. Value(u, ChunkPlace(p, k - 1)) = chunks[k - 1].length
        BY <1>2, <3>1
      <3> HIDE DEF g
      <3> QED BY <2>1, <2>3, <3>2, <3>3
    <2> QED BY <2>2, <2>3
  <1>6. g = body(g)
    <2>1. DOMAIN g = 1 .. n /\ g = [k \in 1 .. n |-> g[k]]
      OBVIOUS
    <2> HIDE DEF g
    <2> QED BY <1>5, <2>1
  <1>7. s = body(s)
    <2> HIDE DEF body, g
    <2> QED BY <1>6
  <1> HIDE DEF s
  <1>8. \A k \in 1 .. n :
          s[k] = IF k = 1 THEN 0 ELSE s[k - 1] + Value(u, ChunkPlace(p, k - 1))
    <2>1. \A k \in 1 .. n :
            body(s)[k] = IF k = 1 THEN 0 ELSE s[k - 1] + Value(u, ChunkPlace(p, k - 1))
      OBVIOUS
    <2> HIDE DEF body
    <2> QED BY <1>7, <2>1
  <1> HIDE DEF body, g
  <1> DEFINE T == {m \in Nat : m + 1 \in 1 .. n => s[m + 1] = g[m + 1]}
  <1>9. 0 \in T
    <2>1. 0 + 1 = 1
      OBVIOUS
    <2>2. 1 \in 1 .. n => s[1] = 0 /\ g[1] = 0
      BY <1>5, <1>8
    <2> QED BY <2>1, <2>2
  <1>10. \A m \in T : m + 1 \in T
    <2> SUFFICES ASSUME NEW m \in T, (m + 1) + 1 \in 1 .. n
                 PROVE  s[(m + 1) + 1] = g[(m + 1) + 1]
      OBVIOUS
    <2>1. m \in Nat /\ m + 1 \in 1 .. n /\ ((m + 1) + 1) - 1 = m + 1 /\ (m + 1) + 1 # 1
      BY <1>1
    <2>2. s[m + 1] = g[m + 1]
      BY <2>1
    <2> QED BY <1>5, <1>8, <2>1, <2>2
  <1> HIDE DEF T
  <1>11. T = Nat
    <2>1. T \in SUBSET Nat
      BY DEF T
    <2> QED BY <1>9, <1>10, <2>1, SetInduction
  <1>12. ASSUME NEW k \in 1 .. n PROVE s[k] = chunks[k].offset
    <2>1. k - 1 \in T /\ (k - 1) + 1 = k
      BY <1>11
    <2>2. s[k] = g[k]
      BY <2>1 DEF T
    <2> QED BY <2>2 DEF g
  <1>13. ASSUME NEW k \in 1 .. n
         PROVE  [offset |-> s[k], length |-> Value(u, ChunkPlace(p, k)),
                 digest |-> u[ChunkPlace(p, k) + 2]] = chunks[k]
    BY <1>1, <1>2, <1>12
  <1>14. ChunksAt(u, p, n) = chunks
    BY <1>1, <1>3, <1>13
  <1> QED BY <1>14 DEF n

\* What is written of a file before its chunks, and its chunks.
FileHead(f) ==
    <<Num(f.path), Num(f.size), Str(f.role), f.digest, Sizes(f.chunker), Num(Len(f.chunks))>>
ChunkPieces(f) ==
    [k \in 1 .. Len(f.chunks) |-> <<Num(f.chunks[k].length), f.chunks[k].digest>>]

\* A file is written in such units (binary.go:135-150).
LEMMA FileUnits ==
    ASSUME NEW N, NEW O, NEW D, Kept(N, O, D), NEW f, FileWritten(f, N, O, D)
    PROVE  /\ FileHead(f) \in Seq(UnitsOver(N, O, D)) /\ Len(FileHead(f)) = 6
           /\ Pieces(ChunkPieces(f), Len(f.chunks), UnitsOver(N, O, D))
           /\ \A k \in 1 .. Len(f.chunks) : Len(ChunkPieces(f)[k]) = 2
           /\ EncodeFile(f) = FileHead(f) \o Flat(ChunkPieces(f))
           /\ EncodeFile(f) \in Seq(UnitsOver(N, O, D))
           /\ Len(f.chunks) \in Nat
  <1> DEFINE U == UnitsOver(N, O, D)
             n == Len(f.chunks)
             h == FileHead(f)
             cs == ChunkPieces(f)
  <1>1. /\ \A x \in N : Num(x) \in U
        /\ \A x \in Role \union Kind : Str(x) \in U
        /\ \A o \in O : Sizes(o) \in U
        /\ \A d \in D : d \in U
    BY DEF UnitsOver
  <1>2. n \in Nat /\ n \in N /\ DOMAIN f.chunks = 1 .. n
    BY DEF FileWritten, ChunksWritten, IsRow, Kept
  <1> HIDE DEF U
  <1>3. h \in Seq(U) /\ Len(h) = 6
    <2>1. /\ Num(f.path) \in U /\ Num(f.size) \in U /\ Str(f.role) \in U /\ f.digest \in U
          /\ Sizes(f.chunker) \in U /\ Num(n) \in U
      BY <1>1, <1>2 DEF FileWritten
    <2> HIDE DEF n
    <2>2. h = <<Num(f.path), Num(f.size), Str(f.role), f.digest, Sizes(f.chunker), Num(n)>>
      BY DEF FileHead, n
    <2> HIDE DEF h
    <2> QED BY <2>1, <2>2
  <1>4. \A k \in 1 .. n : Num(f.chunks[k].length) \in U /\ f.chunks[k].digest \in U
    BY <1>1 DEF FileWritten, ChunksWritten
  <1>5. cs = [k \in 1 .. n |-> <<Num(f.chunks[k].length), f.chunks[k].digest>>]
    BY DEF ChunkPieces
  <1> HIDE DEF cs
  <1>6. Pieces(cs, n, U) /\ \A k \in 1 .. n : Len(cs[k]) = 2
    <2> HIDE DEF n
    <2>1. \A k \in 1 .. n : cs[k] \in Seq(U) /\ Len(cs[k]) = 2
      <3> SUFFICES ASSUME NEW k \in 1 .. n PROVE cs[k] \in Seq(U) /\ Len(cs[k]) = 2
        OBVIOUS
      <3>1. cs[k] = <<Num(f.chunks[k].length), f.chunks[k].digest>>
        BY <1>5
      <3> QED BY <1>4, <3>1
    <2>2. DOMAIN cs = 1 .. n /\ Len(cs) = n
      BY <1>2, <1>5
    <2> QED BY <1>2, <2>1, <2>2 DEF Pieces
  <1>7. EncodeFile(f) = h \o Flat(cs)
    BY <1>2, <1>5 DEF EncodeFile, FileHead
  <1>8. Flat(cs) \in Seq(U)
    <2> HIDE DEF n, h
    <2> QED BY <1>6, FlatIs
  <1>9. h \o Flat(cs) \in Seq(U)
    <2> HIDE DEF n, h
    <2> QED BY <1>3, <1>8, OneAfterTheOther
  <1> HIDE DEF h
  <1> QED BY <1>2, <1>3, <1>6, <1>7, <1>9 DEF U, h, cs

\* A file is read as what was written (binary.go:341-366).
LEMMA FileIsRead ==
    ASSUME NEW N, NEW O, NEW D, Kept(N, O, D), NEW f, FileWritten(f, N, O, D), FileWithin(f),
           NEW u, NEW p, Has(u, p, EncodeFile(f))
    PROVE  /\ IsFile(u, p) /\ FileAt(u, p) = f
           /\ FileWidth(u)[p] = Len(EncodeFile(f))
  <1> DEFINE U == UnitsOver(N, O, D)
             n == Len(f.chunks)
             h == FileHead(f)
             cs == ChunkPieces(f)
             c == Flat(cs)
  <1>1. /\ h \in Seq(U) /\ Len(h) = 6 /\ n \in Nat
        /\ Pieces(cs, n, U) /\ \A k \in 1 .. n : Len(cs[k]) = 2
        /\ EncodeFile(f) = h \o c
    BY FileUnits
  <1> HIDE DEF U, n, cs, h
  <1>2. c \in Seq(U) /\ Len(c) = 2 * n
        /\ \A k \in 1 .. n : c[2 * (k - 1) + 1] = cs[k][1] /\ c[2 * (k - 1) + 2] = cs[k][2]
    BY <1>1, PairsAreFound
  <1> HIDE DEF c
  <1>3. Has(u, p, h) /\ Has(u, p + 6, c) /\ Len(h \o c) = 6 + 2 * n
    <2>1. Has(u, p, h \o c)
      BY <1>1
    <2>2. Has(u, p, h) /\ Has(u, p + Len(h), c) /\ Len(h \o c) = Len(h) + Len(c)
      BY <1>1, <1>2, <2>1, HasBoth
    <2> QED BY <1>1, <1>2, <2>2
  <1>4. /\ p \in Nat /\ Len(u) \in Nat /\ p + 6 <= Len(u) /\ (p + 6) + 2 * n <= Len(u)
        /\ \A j \in 1 .. 6 : u[p + j] = h[j]
        /\ \A j \in 1 .. 2 * n : u[(p + 6) + j] = c[j]
    BY <1>1, <1>2, <1>3 DEF Has
  <1>5. /\ u[p + 1] = Num(f.path) /\ u[p + 2] = Num(f.size) /\ u[p + 3] = Str(f.role)
        /\ u[p + 4] = f.digest /\ u[p + 5] = Sizes(f.chunker) /\ u[p + 6] = Num(n)
    <2>1. /\ h[1] = Num(f.path) /\ h[2] = Num(f.size) /\ h[3] = Str(f.role)
          /\ h[4] = f.digest /\ h[5] = Sizes(f.chunker) /\ h[6] = Num(n)
      BY DEF h, FileHead, n
    <2>2. 1 \in 1 .. 6 /\ 2 \in 1 .. 6 /\ 3 \in 1 .. 6 /\ 4 \in 1 .. 6 /\ 5 \in 1 .. 6 /\ 6 \in 1 .. 6
      OBVIOUS
    <2> QED BY <1>4, <2>1, <2>2
  <1>6. Value(u, p) = f.path /\ Value(u, p + 1) = f.size /\ Value(u, p + 5) = n
    <2>1. (p + 1) + 1 = p + 2 /\ (p + 5) + 1 = p + 6
      BY <1>4
    <2>2. Value(u, p) = f.path
      BY <1>5, OneNumber
    <2>3. Value(u, p + 1) = f.size
      BY <1>5, <2>1, OneNumber
    <2>4. Value(u, p + 5) = n
      BY <1>5, <2>1, OneNumber
    <2> QED BY <2>2, <2>3, <2>4
  <1>7. ASSUME NEW k \in 1 .. n
        PROVE  /\ ChunkPlace(p + 6, k) \in Nat /\ ChunkPlace(p + 6, k) + 2 <= Len(u)
               /\ u[ChunkPlace(p + 6, k) + 1] = Num(f.chunks[k].length)
               /\ u[ChunkPlace(p + 6, k) + 2] = f.chunks[k].digest
    <2> DEFINE i == 2 * (k - 1)
    <2>1. /\ i \in Nat /\ i + 1 \in 1 .. 2 * n /\ i + 2 \in 1 .. 2 * n
      BY <1>1
    <2>2. ChunkPlace(p + 6, k) = (p + 6) + i
      BY DEF ChunkPlace
    <2>3. c[i + 1] = Num(f.chunks[k].length) /\ c[i + 2] = f.chunks[k].digest
      <3>1. cs[k] = <<Num(f.chunks[k].length), f.chunks[k].digest>>
        BY DEF cs, ChunkPieces, n
      <3> QED BY <1>2, <3>1
    <2> HIDE DEF i
    <2>4. /\ (p + 6) + i \in Nat /\ ((p + 6) + i) + 1 = (p + 6) + (i + 1)
          /\ ((p + 6) + i) + 2 = (p + 6) + (i + 2) /\ ((p + 6) + i) + 2 <= Len(u)
      BY <1>1, <1>4, <2>1
    <2>5. u[((p + 6) + i) + 1] = c[i + 1] /\ u[((p + 6) + i) + 2] = c[i + 2]
      BY <1>4, <2>1, <2>4
    <2> QED BY <2>2, <2>3, <2>4, <2>5
  <1>8. ChunksThere(u, p + 6, f.chunks)
    <2> SUFFICES ASSUME NEW k \in 1 .. n
                 PROVE  /\ Value(u, ChunkPlace(p + 6, k)) = f.chunks[k].length
                        /\ u[ChunkPlace(p + 6, k) + 2] = f.chunks[k].digest
      BY DEF ChunksThere, n
    <2>1. Value(u, ChunkPlace(p + 6, k)) = f.chunks[k].length
      BY <1>7, OneNumber
    <2> QED BY <1>7, <2>1
  <1>9. IsFile(u, p)
    <2>1. Follows(u, p, <<"num", "num", "str", "digest", "num">>)
      <3> DEFINE kinds == <<"num", "num", "str", "digest", "num">>
      <3>1. /\ Len(kinds) = 5 /\ DOMAIN kinds = 1 .. 5
            /\ kinds[1] = "num" /\ kinds[2] = "num" /\ kinds[3] = "str" /\ kinds[4] = "digest"
            /\ kinds[5] = "num"
        OBVIOUS
      <3>2. /\ u[p + 1].kind = "num" /\ u[p + 2].kind = "num" /\ u[p + 3].kind = "str"
            /\ u[p + 4].kind = "digest" /\ u[p + 5].kind = "num"
        <4>1. f.digest.kind = "digest"
          BY DEF FileWritten, Kept
        <4>2. /\ Num(f.path).kind = "num" /\ Num(f.size).kind = "num" /\ Str(f.role).kind = "str"
              /\ Sizes(f.chunker).kind = "num"
          BY DEF Num, Str, Sizes, Unit
        <4> QED BY <1>5, <4>1, <4>2
      <3> HIDE DEF kinds
      <3>3. \A k \in 1 .. 5 : k = 1 \/ k = 2 \/ k = 3 \/ k = 4 \/ k = 5
        OBVIOUS
      <3>4. p + 5 <= Len(u)
        BY <1>4
      <3>5. Follows(u, p, kinds)
        BY <3>1, <3>2, <3>3, <3>4 DEF Follows
      <3> QED BY <3>5 DEF kinds
    <2>2. Len(u[p + 5].nums) = 3
      <3>1. Len(Sizes(f.chunker).nums) = 3
        BY DEF Sizes, Unit
      <3> QED BY <1>5, <3>1
    <2>3. HasCount(u, p + 5)
      <3>1. (p + 5) + 1 = p + 6 /\ (p + 5) + 1 <= Len(u)
        BY <1>4
      <3>2. Follows(u, p + 5, <<"num">>)
        BY <1>5, <3>1, OneNumber
      <3> QED BY <1>6, <3>2 DEF HasCount, FileWithin, n
    <2>4. ASSUME NEW k \in 1 .. n
          PROVE  /\ Follows(u, ChunkPlace(p + 6, k), <<"num", "digest">>)
                 /\ Value(u, ChunkPlace(p + 6, k)) <= MaxLength
      <3> DEFINE kinds == <<"num", "digest">>
                 q == ChunkPlace(p + 6, k)
      <3>1. Len(kinds) = 2 /\ DOMAIN kinds = 1 .. 2 /\ kinds[1] = "num" /\ kinds[2] = "digest"
        OBVIOUS
      <3>2. u[q + 1].kind = "num" /\ u[q + 2].kind = "digest" /\ q + 2 <= Len(u)
        <4>1. f.chunks[k].digest.kind = "digest"
          BY DEF FileWritten, ChunksWritten, Kept, n
        <4>2. Num(f.chunks[k].length).kind = "num"
          BY DEF Num, Unit
        <4> QED BY <1>7, <4>1, <4>2
      <3>3. f.chunks[k].length <= MaxLength
        BY DEF FileWithin, n
      <3>4. Value(u, q) = f.chunks[k].length
        BY <1>7, OneNumber
      <3> HIDE DEF kinds, q
      <3>5. Follows(u, q, kinds)
        <4>1. \A j \in 1 .. 2 : j = 1 \/ j = 2
          OBVIOUS
        <4> QED BY <3>1, <3>2, <4>1 DEF Follows
      <3> QED BY <3>3, <3>4, <3>5 DEF kinds, q
    <2> QED BY <1>6, <2>1, <2>2, <2>3, <2>4 DEF IsFile
  <1>10. FileAt(u, p) = f
    <2>1. ChunksAt(u, p + 6, n) = f.chunks
      <3>1. ChunksWritten(f.chunks, N, D)
        BY DEF FileWritten
      <3> QED BY <1>8, <3>1, ChunksAreRead DEF n
    <2>2. u[p + 3].string = f.role
      <3>1. Str(f.role).string = f.role
        BY DEF Str, Unit
      <3> QED BY <1>5, <3>1
    <2>3. SizesOf(u[p + 5]) = f.chunker
      <3>1. SizesOf(Sizes(f.chunker)) = [avg |-> f.chunker.avg, min |-> f.chunker.min, max |-> f.chunker.max]
        BY DEF SizesOf, Sizes, Unit
      <3>2. f.chunker = [avg |-> f.chunker.avg, min |-> f.chunker.min, max |-> f.chunker.max]
        BY DEF FileWritten, Kept
      <3> QED BY <1>5, <3>1, <3>2
    <2>4. FileAt(u, p) = [path |-> f.path, size |-> f.size, role |-> f.role, digest |-> f.digest,
                          chunker |-> f.chunker, chunks |-> f.chunks]
      BY <1>5, <1>6, <2>1, <2>2, <2>3 DEF FileAt
    <2> QED BY <2>4 DEF FileWritten
  <1>11. FileWidth(u)[p] = 6 + 2 * n
    BY <1>4, <1>6, <1>9 DEF FileWidth
  <1> QED BY <1>1, <1>3, <1>9, <1>10, <1>11

-----------------------------------------------------------------------------
(* Manifests.                                                              *)

\* A manifest as Finalize makes it.
ModelShaped(x) ==
    x = [kind |-> x.kind, shards |-> x.shards, digest |-> x.digest, files |-> x.files,
         size |-> x.size, weightFiles |-> x.weightFiles, weightBytes |-> x.weightBytes]
Written(m, N, O, D) ==
    /\ m = [chunker |-> m.chunker, files |-> m.files, model |-> m.model]
    /\ ModelShaped(m.model) /\ m = Recount(m)
    /\ m.chunker \in O /\ m.model.kind \in Kind /\ m.model.digest \in D
    /\ IsRow(m.model.shards)
    /\ \A k \in 1 .. Len(m.model.shards) : ShardWritten(m.model.shards[k], N)
    /\ IsRow(m.files)
    /\ \A k \in 1 .. Len(m.files) : FileWritten(m.files[k], N, O, D)

\* The counts and lengths of a manifest are within the reader's limits.
WithinLimits(m) ==
    /\ Len(m.model.shards) <= MaxCount
    /\ \A k \in 1 .. Len(m.model.shards) : ShardWithin(m.model.shards[k])
    /\ Len(m.files) <= MaxCount
    /\ \A k \in 1 .. Len(m.files) : FileWithin(m.files[k])

\* The totals follow from the rest.
LEMMA RecountIs ==
    ASSUME NEW m, m = [chunker |-> m.chunker, files |-> m.files, model |-> m.model],
           ModelShaped(m.model)
    PROVE  Recount(m) =
             [chunker |-> m.chunker, files |-> m.files,
              model |-> [kind |-> m.model.kind, shards |-> m.model.shards,
                         digest |-> m.model.digest, files |-> Len(m.files),
                         size |-> TotalOf(m.files, DOMAIN m.files),
                         weightFiles |-> Cardinality(Weights(m.files)),
                         weightBytes |-> TotalOf(m.files, Weights(m.files))]]
  <1> DEFINE a == Len(m.files)
             b == TotalOf(m.files, DOMAIN m.files)
             c == Cardinality(Weights(m.files))
             d == TotalOf(m.files, Weights(m.files))
  <1>1. Recount(m) = [m EXCEPT !.model = [@ EXCEPT !.files = a, !.size = b, !.weightFiles = c,
                                                   !.weightBytes = d]]
    BY DEF Recount
  <1> HIDE DEF a, b, c, d
  <1>2. Recount(m)
        = [chunker |-> m.chunker, files |-> m.files,
           model |-> [m.model EXCEPT !.files = a, !.size = b, !.weightFiles = c, !.weightBytes = d]]
    BY <1>1
  <1> DEFINE x == m.model
  <1>3. ModelShaped(x)
    OBVIOUS
  <1> HIDE DEF x
  <1>4. [x EXCEPT !.files = a, !.size = b, !.weightFiles = c, !.weightBytes = d]
        = [kind |-> x.kind, shards |-> x.shards, digest |-> x.digest, files |-> a, size |-> b,
           weightFiles |-> c, weightBytes |-> d]
    <2> DEFINE ki == x.kind
               sh == x.shards
               di == x.digest
               e == x.files
               f == x.size
               g == x.weightFiles
               h == x.weightBytes
    <2>1. x = [kind |-> ki, shards |-> sh, digest |-> di, files |-> e, size |-> f,
               weightFiles |-> g, weightBytes |-> h]
      BY <1>3 DEF ModelShaped
    <2> HIDE DEF ki, sh, di, e, f, g, h
    <2> DEFINE x1 == [x EXCEPT !.files = a]
    <2>2. x1 = [kind |-> ki, shards |-> sh, digest |-> di, files |-> a, size |-> f,
                weightFiles |-> g, weightBytes |-> h]
      BY <2>1
    <2> HIDE DEF x1
    <2> DEFINE x2 == [x1 EXCEPT !.size = b]
    <2>3. x2 = [kind |-> ki, shards |-> sh, digest |-> di, files |-> a, size |-> b,
                weightFiles |-> g, weightBytes |-> h]
      BY <2>2
    <2> HIDE DEF x2
    <2> DEFINE x3 == [x2 EXCEPT !.weightFiles = c]
    <2>4. x3 = [kind |-> ki, shards |-> sh, digest |-> di, files |-> a, size |-> b,
                weightFiles |-> c, weightBytes |-> h]
      BY <2>3
    <2> HIDE DEF x3
    <2>5. [x3 EXCEPT !.weightBytes = d] =
            [kind |-> ki, shards |-> sh, digest |-> di, files |-> a, size |-> b,
             weightFiles |-> c, weightBytes |-> d]
      BY <2>4
    <2> QED BY <2>5 DEF x1, x2, x3, ki, sh, di
  <1> QED BY <1>2, <1>4 DEF a, b, c, d, x

\* The totals that are not written are put back.
LEMMA DecodedAgain ==
    ASSUME NEW N, NEW O, NEW D, NEW m, Written(m, N, O, D)
    PROVE  Recount([chunker |-> m.chunker, files |-> m.files,
                    model |-> [kind |-> m.model.kind, shards |-> m.model.shards,
                               digest |-> m.model.digest,
                               files |-> 0, size |-> 0, weightFiles |-> 0, weightBytes |-> 0]]) = m
  <1> DEFINE x == [kind |-> m.model.kind, shards |-> m.model.shards, digest |-> m.model.digest,
                   files |-> 0, size |-> 0, weightFiles |-> 0, weightBytes |-> 0]
             r == [chunker |-> m.chunker, files |-> m.files, model |-> x]
  <1>1. ModelShaped(x)
    BY DEF ModelShaped
  <1>2. x.kind = m.model.kind /\ x.shards = m.model.shards /\ x.digest = m.model.digest
    OBVIOUS
  <1> HIDE DEF x
  <1>3. /\ r = [chunker |-> r.chunker, files |-> r.files, model |-> r.model]
        /\ r.chunker = m.chunker /\ r.files = m.files /\ r.model = x
    OBVIOUS
  <1> HIDE DEF r
  <1>4. Recount(r) =
             [chunker |-> r.chunker, files |-> r.files,
              model |-> [kind |-> r.model.kind, shards |-> r.model.shards,
                         digest |-> r.model.digest, files |-> Len(r.files),
                         size |-> TotalOf(r.files, DOMAIN r.files),
                         weightFiles |-> Cardinality(Weights(r.files)),
                         weightBytes |-> TotalOf(r.files, Weights(r.files))]]
    BY <1>1, <1>3, RecountIs
  <1>5. Recount(m) =
             [chunker |-> m.chunker, files |-> m.files,
              model |-> [kind |-> m.model.kind, shards |-> m.model.shards,
                         digest |-> m.model.digest, files |-> Len(m.files),
                         size |-> TotalOf(m.files, DOMAIN m.files),
                         weightFiles |-> Cardinality(Weights(m.files)),
                         weightBytes |-> TotalOf(m.files, Weights(m.files))]]
    BY RecountIs DEF Written
  <1>6. Recount(r) = Recount(m)
    BY <1>2, <1>3, <1>4, <1>5
  <1>7. m = Recount(m)
    BY DEF Written
  <1> QED BY <1>6, <1>7 DEF r, x

\* What is written for each shard set and each file.
ShardPieces(m) == [k \in 1 .. Len(m.model.shards) |-> EncodeShard(m.model.shards[k])]
FilePieces(m) == [k \in 1 .. Len(m.files) |-> EncodeFile(m.files[k])]

\* The body of a manifest is five things one after the other.
LEMMA BodyUnits ==
    ASSUME NEW N, NEW O, NEW D, Kept(N, O, D), NEW m, Written(m, N, O, D)
    PROVE  /\ EncodeHeader(m) \in Seq(UnitsOver(N, O, D)) /\ Len(EncodeHeader(m)) = 6
           /\ <<Num(Len(m.model.shards))>> \in Seq(UnitsOver(N, O, D))
           /\ <<Num(Len(m.files))>> \in Seq(UnitsOver(N, O, D))
           /\ Pieces(ShardPieces(m), Len(m.model.shards), UnitsOver(N, O, D))
           /\ Pieces(FilePieces(m), Len(m.files), UnitsOver(N, O, D))
           /\ EncodeBody(m) =
                (((EncodeHeader(m) \o <<Num(Len(m.model.shards))>>) \o Flat(ShardPieces(m)))
                    \o <<Num(Len(m.files))>>) \o Flat(FilePieces(m))
  <1> DEFINE U == UnitsOver(N, O, D)
             ns == Len(m.model.shards)
             nf == Len(m.files)
  <1>1. /\ \A x \in N : Num(x) \in U
        /\ \A x \in Role \union Kind : Str(x) \in U
        /\ \A o \in O : Sizes(o) \in U
        /\ \A d \in D : d \in U
        /\ Magic \in U /\ Algorithms \in U
    BY DEF UnitsOver
  <1>2. /\ ns \in Nat /\ DOMAIN m.model.shards = 1 .. ns /\ nf \in Nat /\ DOMAIN m.files = 1 .. nf
    BY DEF Written, IsRow
  <1>3. ns \in N /\ nf \in N /\ 0 \in N
    BY <1>2 DEF Kept
  <1>4. \A k \in 1 .. ns : EncodeShard(m.model.shards[k]) \in Seq(U)
    <2> SUFFICES ASSUME NEW k \in 1 .. ns PROVE EncodeShard(m.model.shards[k]) \in Seq(U)
      OBVIOUS
    <2>1. ShardWritten(m.model.shards[k], N)
      BY DEF Written
    <2> QED BY <2>1, ShardUnits
  <1>5. \A k \in 1 .. nf : EncodeFile(m.files[k]) \in Seq(U)
    <2> SUFFICES ASSUME NEW k \in 1 .. nf PROVE EncodeFile(m.files[k]) \in Seq(U)
      OBVIOUS
    <2>1. FileWritten(m.files[k], N, O, D)
      BY DEF Written
    <2> QED BY <2>1, FileUnits
  <1> HIDE DEF U
  <1>6. EncodeHeader(m) \in Seq(U) /\ Len(EncodeHeader(m)) = 6
    <2>1. /\ Magic \in U /\ Algorithms \in U /\ Num(0) \in U /\ Sizes(m.chunker) \in U
          /\ Str(m.model.kind) \in U /\ m.model.digest \in U
      <3>1. m.chunker \in O /\ m.model.kind \in Kind /\ m.model.digest \in D
        BY DEF Written
      <3> QED BY <1>1, <1>3, <3>1
    <2>2. EncodeHeader(m) = <<Magic, Algorithms, Num(0), Sizes(m.chunker), Str(m.model.kind),
                              m.model.digest>>
      BY DEF EncodeHeader
    <2> DEFINE h == EncodeHeader(m)
    <2> HIDE DEF h
    <2>3. h \in Seq(U) /\ Len(h) = 6
      BY <2>1, <2>2 DEF h
    <2> QED BY <2>3 DEF h
  <1>7. <<Num(ns)>> \in Seq(U) /\ <<Num(nf)>> \in Seq(U)
    BY <1>1, <1>3
  <1>8. Pieces(ShardPieces(m), ns, U)
    <2> DEFINE ss == ShardPieces(m)
    <2>1. ss = [k \in 1 .. ns |-> EncodeShard(m.model.shards[k])]
      BY DEF ShardPieces
    <2> HIDE DEF ns, ss
    <2>2. DOMAIN ss = 1 .. ns /\ Len(ss) = ns /\ \A k \in 1 .. ns : ss[k] \in Seq(U)
      BY <1>2, <1>4, <2>1
    <2>3. Pieces(ss, ns, U)
      BY <1>2, <2>2 DEF Pieces
    <2> QED BY <2>3 DEF ss
  <1>9. Pieces(FilePieces(m), nf, U)
    <2> DEFINE ss == FilePieces(m)
    <2>1. ss = [k \in 1 .. nf |-> EncodeFile(m.files[k])]
      BY DEF FilePieces
    <2> HIDE DEF nf, ss
    <2>2. DOMAIN ss = 1 .. nf /\ Len(ss) = nf /\ \A k \in 1 .. nf : ss[k] \in Seq(U)
      BY <1>2, <1>5, <2>1
    <2>3. Pieces(ss, nf, U)
      BY <1>2, <2>2 DEF Pieces
    <2> QED BY <2>3 DEF ss
  <1>10. EncodeBody(m) =
            (((EncodeHeader(m) \o <<Num(ns)>>) \o Flat(ShardPieces(m)))
                \o <<Num(nf)>>) \o Flat(FilePieces(m))
    BY <1>2 DEF EncodeBody, ShardPieces, FilePieces
  <1> QED BY <1>6, <1>7, <1>8, <1>9, <1>10 DEF U

\* Five things one after the other.
LEMMA HasFive ==
    ASSUME NEW U, NEW a \in Seq(U), NEW b \in Seq(U), NEW c \in Seq(U), NEW d \in Seq(U),
           NEW e \in Seq(U), Len(a) = 6, Len(b) = 1, Len(d) = 1,
           NEW u, Has(u, 0, (((a \o b) \o c) \o d) \o e)
    PROVE  /\ Has(u, 0, a) /\ Has(u, 6, b) /\ Has(u, 7, c)
           /\ Has(u, 7 + Len(c), d) /\ Has(u, (7 + Len(c)) + 1, e)
           /\ Len((((a \o b) \o c) \o d) \o e) = ((7 + Len(c)) + 1) + Len(e)
           /\ Len(c) \in Nat /\ Len(e) \in Nat
  <1> DEFINE ab == a \o b
             abc == ab \o c
             abcd == abc \o d
             nc == Len(c)
             ne == Len(e)
  <1>1. ab \in Seq(U) /\ Len(ab) = 7
    <2>1. ab \in Seq(U) /\ Len(ab) = Len(a) + Len(b)
      BY OneAfterTheOther
    <2>2. Len(a) + Len(b) = 7
      OBVIOUS
    <2> HIDE DEF ab, abc, abcd, nc, ne
    <2> QED BY <2>1, <2>2, Zenon
  <1>2. nc \in Nat /\ ne \in Nat
    OBVIOUS
  <1> HIDE DEF ab
  <1>3. abc \in Seq(U) /\ Len(abc) = 7 + nc
    <2>1. abc \in Seq(U) /\ Len(abc) = Len(ab) + Len(c)
      BY <1>1, OneAfterTheOther, ZenonT(40)
    <2>2. Len(ab) + Len(c) = 7 + nc
      BY <1>1, Zenon
    <2> HIDE DEF abc, abcd, nc, ne
    <2> QED BY <2>1, <2>2, Zenon
  <1> HIDE DEF abc
  <1>4. abcd \in Seq(U) /\ Len(abcd) = (7 + nc) + 1
    <2>1. abcd \in Seq(U) /\ Len(abcd) = Len(abc) + Len(d)
      BY <1>3, OneAfterTheOther, ZenonT(40)
    <2>2. Len(abc) + Len(d) = (7 + nc) + 1
      BY <1>3, Zenon
    <2> HIDE DEF abcd, nc, ne
    <2> QED BY <2>1, <2>2, Zenon
  <1> HIDE DEF abcd
  <1>5. Has(u, 0, abcd \o e)
    BY DEF abcd, abc, ab
  <1>6. Has(u, 0, abcd) /\ Has(u, 0 + Len(abcd), e) /\ Len(abcd \o e) = Len(abcd) + Len(e)
    BY <1>4, <1>5, HasBoth
  <1>7. Has(u, 0, abc) /\ Has(u, 0 + Len(abc), d)
    <2>1. Has(u, 0, abc \o d)
      BY <1>6 DEF abcd
    <2> QED BY <1>3, <2>1, HasBoth
  <1>8. Has(u, 0, ab) /\ Has(u, 0 + Len(ab), c)
    <2>1. Has(u, 0, ab \o c)
      BY <1>7 DEF abc
    <2> QED BY <1>1, <2>1, HasBoth
  <1>9. Has(u, 0, a) /\ Has(u, 0 + Len(a), b)
    <2>1. Has(u, 0, a \o b)
      BY <1>8 DEF ab
    <2> QED BY <2>1, HasBoth
  <1> HIDE DEF nc, ne
  <1>10. /\ 0 + Len(abcd) = (7 + nc) + 1 /\ 0 + Len(abc) = 7 + nc
         /\ 0 + Len(ab) = 7 /\ 0 + Len(a) = 6
    BY <1>1, <1>2, <1>3, <1>4
  <1>11. Len(abcd \o e) = ((7 + nc) + 1) + ne
    BY <1>4, <1>6 DEF ne
  <1>12. Has(u, 6, b) /\ Has(u, 7, c) /\ Has(u, 7 + nc, d) /\ Has(u, (7 + nc) + 1, e)
    BY <1>6, <1>7, <1>8, <1>9, <1>10
  <1> QED BY <1>2, <1>9, <1>11, <1>12 DEF nc, ne, abcd, abc, ab

\* What is read where the body of a manifest was written.
LEMMA BodyIsRead ==
    ASSUME NEW N, NEW O, NEW D, Kept(N, O, D), NEW m, Written(m, N, O, D), WithinLimits(m),
           NEW u, Has(u, 0, EncodeBody(m))
    PROVE  Readable(u) /\ BodyEnd(u) = Len(EncodeBody(m)) /\ Decoded(u) = m
  <1> DEFINE U == UnitsOver(N, O, D)
             ns == Len(m.model.shards)
             nf == Len(m.files)
             a == EncodeHeader(m)
             b == <<Num(ns)>>
             ss == ShardPieces(m)
             c == Flat(ss)
             d == <<Num(nf)>>
             fs == FilePieces(m)
             e == Flat(fs)
             nc == Len(c)
             ne == Len(e)
  <1>1. /\ a \in Seq(U) /\ Len(a) = 6 /\ b \in Seq(U) /\ d \in Seq(U)
        /\ Pieces(ss, ns, U) /\ Pieces(fs, nf, U)
        /\ EncodeBody(m) = (((a \o b) \o c) \o d) \o e
    BY BodyUnits
  <1>2. /\ Len(b) = 1 /\ Len(d) = 1 /\ b[1] = Num(ns) /\ d[1] = Num(nf)
        /\ a[1] = Magic /\ a[2] = Algorithms /\ a[3] = Num(0) /\ a[4] = Sizes(m.chunker)
        /\ a[5] = Str(m.model.kind) /\ a[6] = m.model.digest
    BY DEF EncodeHeader
  <1>3. /\ \A k \in 1 .. ns : ss[k] = EncodeShard(m.model.shards[k])
        /\ \A k \in 1 .. nf : fs[k] = EncodeFile(m.files[k])
    BY DEF ShardPieces, FilePieces
  <1>4. /\ ns \in Nat /\ nf \in Nat
        /\ m.model.shards = [k \in 1 .. ns |-> m.model.shards[k]]
        /\ m.files = [k \in 1 .. nf |-> m.files[k]]
        /\ \A k \in 1 .. ns : ShardWritten(m.model.shards[k], N)
        /\ \A k \in 1 .. nf : FileWritten(m.files[k], N, O, D)
    BY DEF Written, IsRow
  <1>5. /\ ns <= MaxCount /\ nf <= MaxCount
        /\ \A k \in 1 .. ns : ShardWithin(m.model.shards[k])
        /\ \A k \in 1 .. nf : FileWithin(m.files[k])
    BY DEF WithinLimits
  <1> HIDE DEF U, ns, nf, a, b, ss, d, fs
  <1>6. c \in Seq(U) /\ e \in Seq(U)
    BY <1>1, FlatIs
  <1> HIDE DEF c, e
  <1>7. /\ Has(u, 0, a) /\ Has(u, 6, b) /\ Has(u, 7, c)
        /\ Has(u, 7 + nc, d) /\ Has(u, (7 + nc) + 1, e)
        /\ Len(EncodeBody(m)) = ((7 + nc) + 1) + ne
        /\ nc \in Nat /\ ne \in Nat
    <2>1. Has(u, 0, (((a \o b) \o c) \o d) \o e)
      BY <1>1
    <2> QED BY <1>1, <1>2, <1>6, <2>1, HasFive
  <1> HIDE DEF nc, ne
  <1>8. /\ Len(u) \in Nat /\ 7 <= Len(u) /\ (7 + nc) + 1 <= Len(u)
        /\ u[1] = Magic /\ u[2] = Algorithms /\ u[3] = Num(0) /\ u[4] = Sizes(m.chunker)
        /\ u[5] = Str(m.model.kind) /\ u[6] = m.model.digest /\ u[7] = Num(ns)
        /\ u[(7 + nc) + 1] = Num(nf)
    <2>1. Len(u) \in Nat /\ \A j \in 1 .. 6 : u[0 + j] = a[j]
      BY <1>1, <1>7 DEF Has
    <2>2. /\ 0 + 1 = 1 /\ 0 + 2 = 2 /\ 0 + 3 = 3 /\ 0 + 4 = 4 /\ 0 + 5 = 5 /\ 0 + 6 = 6
          /\ 1 \in 1 .. 6 /\ 2 \in 1 .. 6 /\ 3 \in 1 .. 6 /\ 4 \in 1 .. 6 /\ 5 \in 1 .. 6
          /\ 6 \in 1 .. 6
      OBVIOUS
    <2>3. 6 + 1 <= Len(u) /\ u[6 + 1] = b[1]
      BY <1>2, <1>7 DEF Has
    <2>4. (7 + nc) + 1 <= Len(u) /\ u[(7 + nc) + 1] = d[1]
      BY <1>2, <1>7 DEF Has
    <2>5. 6 + 1 = 7
      OBVIOUS
    <2> QED BY <1>2, <2>1, <2>2, <2>3, <2>4, <2>5
  <1>9. Value(u, 6) = ns /\ HasCount(u, 6)
    <2>1. 6 + 1 = 7 /\ 6 + 1 <= Len(u)
      BY <1>8
    <2>2. Value(u, 6) = ns /\ Follows(u, 6, <<"num">>)
      BY <1>8, <2>1, OneNumber
    <2> QED BY <1>5, <2>2 DEF HasCount
  <1>10. GoodHeader(u)
    <2>1. Len(u[4].nums) = 3
      <3>1. Len(Sizes(m.chunker).nums) = 3
        BY DEF Sizes, Unit
      <3> QED BY <1>8, <3>1
    <2> DEFINE kinds == <<"str", "num", "num", "num", "str", "digest">>
    <2>2. /\ Len(kinds) = 6 /\ DOMAIN kinds = 1 .. 6
          /\ kinds[1] = "str" /\ kinds[2] = "num" /\ kinds[3] = "num" /\ kinds[4] = "num"
          /\ kinds[5] = "str" /\ kinds[6] = "digest"
      OBVIOUS
    <2>3. /\ u[1].kind = "str" /\ u[2].kind = "num" /\ u[3].kind = "num" /\ u[4].kind = "num"
          /\ u[5].kind = "str" /\ u[6].kind = "digest"
      <3>1. m.model.digest.kind = "digest"
        BY DEF Written, Kept
      <3>2. /\ Magic.kind = "str" /\ Algorithms.kind = "num" /\ Num(0).kind = "num"
            /\ Sizes(m.chunker).kind = "num" /\ Str(m.model.kind).kind = "str"
        BY DEF Magic, Algorithms, Num, Str, Sizes, Unit
      <3> QED BY <1>8, <3>1, <3>2
    <2> HIDE DEF kinds
    <2>4. Follows(u, 0, kinds)
      <3>1. \A k \in 1 .. 6 : k = 1 \/ k = 2 \/ k = 3 \/ k = 4 \/ k = 5 \/ k = 6
        OBVIOUS
      <3>2. \A k \in 1 .. 6 : 0 + k = k
        OBVIOUS
      <3>3. 0 + 6 <= Len(u)
        BY <1>8
      <3>4. \A k \in 1 .. 6 : u[k].kind = kinds[k]
        BY <2>2, <2>3, <3>1
      <3> QED BY <2>2, <3>2, <3>3, <3>4 DEF Follows
    <2> QED BY <1>8, <2>1, <2>4 DEF GoodHeader, kinds
  <1> DEFINE sw == ShardWidth(u)
             st == Starts(ns, 7, sw)
  <1>11. Wide(ss, ns, u, sw)
    <2> SUFFICES ASSUME NEW k \in 1 .. ns, NEW p \in Nat, Has(u, p, ss[k])
                 PROVE  sw[p] = Len(ss[k])
      BY DEF Wide
    <2>1. Has(u, p, EncodeShard(m.model.shards[k])) /\ ss[k] = EncodeShard(m.model.shards[k])
      BY <1>3
    <2>2. ShardWritten(m.model.shards[k], N) /\ ShardWithin(m.model.shards[k])
      BY <1>4, <1>5
    <2> QED BY <2>1, <2>2, ShardIsRead
  <1> HIDE DEF sw
  <1>12. /\ \A k \in 1 .. ns : Has(u, st[k - 1], ss[k])
         /\ st[ns] = 7 + nc
    BY <1>1, <1>7, <1>11, PiecesAreFound DEF c, nc
  <1>13. ShardStarts(u) = st /\ FileCount(u) = 7 + nc
    BY <1>9, <1>12 DEF ShardStarts, FileCount, sw
  <1> HIDE DEF st
  <1>14. \A k \in 1 .. ns : IsShard(u, st[k - 1]) /\ ShardAt(u, st[k - 1]) = m.model.shards[k]
    <2> SUFFICES ASSUME NEW k \in 1 .. ns
                 PROVE  IsShard(u, st[k - 1]) /\ ShardAt(u, st[k - 1]) = m.model.shards[k]
      OBVIOUS
    <2>1. Has(u, st[k - 1], EncodeShard(m.model.shards[k]))
      BY <1>3, <1>12
    <2>2. ShardWritten(m.model.shards[k], N) /\ ShardWithin(m.model.shards[k])
      BY <1>4, <1>5
    <2> QED BY <2>1, <2>2, ShardIsRead
  <1>15. Value(u, 7 + nc) = nf /\ HasCount(u, 7 + nc)
    <2>1. Value(u, 7 + nc) = nf /\ Follows(u, 7 + nc, <<"num">>)
      BY <1>8, OneNumber
    <2> QED BY <1>5, <2>1 DEF HasCount
  <1> DEFINE fw == FileWidth(u)
             ft == Starts(nf, (7 + nc) + 1, fw)
  <1>16. Wide(fs, nf, u, fw)
    <2> SUFFICES ASSUME NEW k \in 1 .. nf, NEW p \in Nat, Has(u, p, fs[k])
                 PROVE  fw[p] = Len(fs[k])
      BY DEF Wide
    <2>1. Has(u, p, EncodeFile(m.files[k])) /\ fs[k] = EncodeFile(m.files[k])
      BY <1>3
    <2>2. FileWritten(m.files[k], N, O, D) /\ FileWithin(m.files[k])
      BY <1>4, <1>5
    <2> QED BY <2>1, <2>2, FileIsRead
  <1> HIDE DEF fw
  <1>17. /\ \A k \in 1 .. nf : Has(u, ft[k - 1], fs[k])
         /\ ft[nf] = ((7 + nc) + 1) + ne
    BY <1>1, <1>7, <1>16, PiecesAreFound DEF e, ne
  <1>18. FileStarts(u) = ft /\ BodyEnd(u) = ((7 + nc) + 1) + ne
    BY <1>13, <1>15, <1>17 DEF FileStarts, BodyEnd, fw
  <1> HIDE DEF ft
  <1>19. \A k \in 1 .. nf : IsFile(u, ft[k - 1]) /\ FileAt(u, ft[k - 1]) = m.files[k]
    <2> SUFFICES ASSUME NEW k \in 1 .. nf
                 PROVE  IsFile(u, ft[k - 1]) /\ FileAt(u, ft[k - 1]) = m.files[k]
      OBVIOUS
    <2>1. Has(u, ft[k - 1], EncodeFile(m.files[k]))
      BY <1>3, <1>17
    <2>2. FileWritten(m.files[k], N, O, D) /\ FileWithin(m.files[k])
      BY <1>4, <1>5
    <2> QED BY <2>1, <2>2, FileIsRead
  <1>20. Readable(u)
    <2>1. ASSUME NEW k \in 0 .. ns - 1 PROVE IsShard(u, st[k])
      <3>1. k + 1 \in 1 .. ns /\ (k + 1) - 1 = k
        BY <1>4
      <3> QED BY <1>14, <3>1
    <2>2. ASSUME NEW k \in 0 .. nf - 1 PROVE IsFile(u, ft[k])
      <3>1. k + 1 \in 1 .. nf /\ (k + 1) - 1 = k
        BY <1>4
      <3> QED BY <1>19, <3>1
    <2> QED BY <1>9, <1>10, <1>13, <1>15, <1>18, <2>1, <2>2 DEF Readable
  <1>21. Decoded(u) = m
    <2>1. [k \in 1 .. nf |-> FileAt(u, ft[k - 1])] = m.files
      BY <1>4, <1>19
    <2>2. [k \in 1 .. ns |-> ShardAt(u, st[k - 1])] = m.model.shards
      BY <1>4, <1>14
    <2>3. SizesOf(u[4]) = m.chunker
      <3>1. SizesOf(Sizes(m.chunker)) = [avg |-> m.chunker.avg, min |-> m.chunker.min, max |-> m.chunker.max]
        BY DEF SizesOf, Sizes, Unit
      <3>2. m.chunker = [avg |-> m.chunker.avg, min |-> m.chunker.min, max |-> m.chunker.max]
        BY DEF Written, Kept
      <3> QED BY <1>8, <3>1, <3>2
    <2>4. u[5].string = m.model.kind
      <3>1. Str(m.model.kind).string = m.model.kind
        BY DEF Str, Unit
      <3> QED BY <1>8, <3>1
    <2>5. Decoded(u) =
            Recount([chunker |-> m.chunker, files |-> m.files,
                     model |-> [kind |-> m.model.kind, shards |-> m.model.shards,
                                digest |-> m.model.digest,
                                files |-> 0, size |-> 0, weightFiles |-> 0, weightBytes |-> 0]])
      BY <1>8, <1>9, <1>13, <1>15, <1>18, <2>1, <2>2, <2>3, <2>4 DEF Decoded
    <2> QED BY <2>5, DecodedAgain
  <1> QED BY <1>7, <1>18, <1>20, <1>21

\* The body of a manifest is a sequence of units.
LEMMA BodyIsUnits ==
    ASSUME NEW N, NEW O, NEW D, Kept(N, O, D), NEW m, Written(m, N, O, D)
    PROVE  EncodeBody(m) \in Seq(UnitsOver(N, O, D))
  <1> DEFINE U == UnitsOver(N, O, D)
             x == EncodeBody(m)
  <1>1. /\ EncodeHeader(m) \in Seq(U)
        /\ <<Num(Len(m.model.shards))>> \in Seq(U)
        /\ <<Num(Len(m.files))>> \in Seq(U)
        /\ Flat(ShardPieces(m)) \in Seq(U) /\ Flat(FilePieces(m)) \in Seq(U)
        /\ x = (((EncodeHeader(m) \o <<Num(Len(m.model.shards))>>) \o Flat(ShardPieces(m)))
                 \o <<Num(Len(m.files))>>) \o Flat(FilePieces(m))
    BY BodyUnits, FlatIs
  <1> DEFINE a == EncodeHeader(m)
             b == <<Num(Len(m.model.shards))>>
             c == Flat(ShardPieces(m))
             d == <<Num(Len(m.files))>>
             e == Flat(FilePieces(m))
  <1> HIDE DEF U, a, b, c, d, e, x
  <1>2. /\ a \in Seq(U) /\ b \in Seq(U) /\ c \in Seq(U) /\ d \in Seq(U) /\ e \in Seq(U)
        /\ x = (((a \o b) \o c) \o d) \o e
    BY <1>1 DEF a, b, c, d, e
  <1>3. a \o b \in Seq(U)
    BY <1>2
  <1>4. (a \o b) \o c \in Seq(U)
    BY <1>2, <1>3
  <1>5. ((a \o b) \o c) \o d \in Seq(U)
    BY <1>2, <1>4
  <1>6. x \in Seq(U)
    BY <1>2, <1>5
  <1> QED BY <1>6 DEF U, x

\* A manifest comes back as it was written, whatever comes after it.
LEMMA RoundTrip ==
    ASSUME NEW N, NEW O, NEW D, Kept(N, O, D), NEW m, Written(m, N, O, D), WithinLimits(m),
           NEW V, NEW u \in Seq(V), NEW error,
           EncodeBinary(m) = SubSeq(u, 1, Len(EncodeBinary(m))), Len(EncodeBinary(m)) <= Len(u)
    PROVE  u # <<>> /\ u[1] = Magic /\ DecodeBinary(u, error) = m
  <1> DEFINE U == UnitsOver(N, O, D)
             x == EncodeBody(m)
             n == Len(x)
             w == EncodeBinary(m)
  <1>1. x \in Seq(U)
    BY BodyIsUnits
  <1>2. /\ n \in Nat /\ Len(w) = n + 1 /\ w[n + 1] = SumOf(x) /\ Len(u) \in Nat
        /\ \A k \in 1 .. n : w[k] = x[k]
        /\ n + 1 <= Len(u)
    <2>1. w = Append(x, SumOf(x))
      BY DEF EncodeBinary
    <2>2. Len(u) \in Nat /\ n \in Nat
      BY <1>1
    <2>3. x \in Seq(U \union {SumOf(x)})
      <3> HIDE DEF U, x
      <3> QED BY <1>1
    <2>4. Len(w) = n + 1 /\ w[n + 1] = SumOf(x) /\ \A k \in 1 .. n : w[k] = x[k]
      <3> DEFINE s == SumOf(x)
                 T == U \union {s}
      <3>1. x \in Seq(T) /\ s \in T /\ w = Append(x, s)
        BY <2>1, <2>3
      <3> HIDE DEF s, T, x, w
      <3>2. Len(Append(x, s)) = Len(x) + 1 /\ Append(x, s)[Len(x) + 1] = s
            /\ \A k \in 1 .. Len(x) : Append(x, s)[k] = x[k]
        BY <3>1
      <3> QED BY <3>1, <3>2 DEF s
    <2> QED BY <2>2, <2>4
  <1>3. \A k \in 1 .. n + 1 : u[k] = w[k]
    <2>1. w = SubSeq(u, 1, n + 1)
      BY <1>2
    <2>2. \A k \in 1 .. n + 1 : SubSeq(u, 1, n + 1)[k] = u[k]
      <3> HIDE DEF n, w
      <3> SUFFICES ASSUME NEW k \in 1 .. n + 1 PROVE SubSeq(u, 1, n + 1)[k] = u[k]
        OBVIOUS
      <3>1. SubSeq(u, 1, n + 1) = [i \in 1 .. n + 1 |-> u[(1 + i) - 1]]
        BY <1>2, SubSeqProperties
      <3>2. (1 + k) - 1 = k
        BY <1>2
      <3> QED BY <3>1, <3>2
    <2> HIDE DEF n, w
    <2> QED BY <2>1, <2>2
  <1>4. Has(u, 0, x)
    <2>1. \A k \in 1 .. n : u[0 + k] = x[k]
      <3> HIDE DEF n, w, x
      <3> SUFFICES ASSUME NEW k \in 1 .. n PROVE u[0 + k] = x[k]
        OBVIOUS
      <3>1. k \in 1 .. n + 1 /\ 0 + k = k
        BY <1>2
      <3> QED BY <1>2, <1>3, <3>1
    <2> HIDE DEF x
    <2>2. 0 + n <= Len(u)
      <3> HIDE DEF n
      <3> QED BY <1>2
    <2> QED BY <1>2, <2>1, <2>2 DEF Has
  <1>5. Readable(u) /\ BodyEnd(u) = n /\ Decoded(u) = m
    BY <1>4, BodyIsRead
  <1>6. SubSeq(u, 1, n) = x
    <2> DEFINE s == SubSeq(u, 1, n)
    <2> HIDE DEF n, w, x
    <2>1. s = [i \in 1 .. n |-> u[(1 + i) - 1]]
      BY <1>2, SubSeqProperties
    <2>2. \A i \in 1 .. n : s[i] = x[i]
      <3> SUFFICES ASSUME NEW i \in 1 .. n PROVE s[i] = x[i]
        OBVIOUS
      <3>1. (1 + i) - 1 = i /\ i \in 1 .. n + 1
        BY <1>2
      <3> QED BY <1>2, <1>3, <2>1, <3>1
    <2>3. x = [i \in 1 .. n |-> x[i]]
      BY <1>1 DEF n
    <2> HIDE DEF s
    <2>4. s = [i \in 1 .. n |-> s[i]]
      BY <2>1
    <2>5. s = x
      BY <2>2, <2>3, <2>4
    <2> QED BY <2>5 DEF s
  <1>7. u[n + 1] = SumOf(SubSeq(u, 1, n)) /\ n < Len(u)
    <2> HIDE DEF n, w, x
    <2>1. n + 1 \in 1 .. n + 1 /\ n < Len(u)
      BY <1>2
    <2>2. u[n + 1] = SumOf(x)
      BY <1>2, <1>3, <2>1
    <2>3. SumOf(SubSeq(u, 1, n)) = SumOf(x)
      BY <1>6
    <2> QED BY <2>1, <2>2, <2>3
  <1>8. u[1] = Magic
    BY <1>5 DEF Readable, GoodHeader
  <1>9. u # <<>>
    <2> HIDE DEF n, w, x
    <2> QED BY <1>2
  <1>10. DecodeBinary(u, error) = m
    <2> HIDE DEF n, w, x
    <2> QED BY <1>5, <1>7 DEF DecodeBinary
  <1> QED BY <1>8, <1>9, <1>10

-----------------------------------------------------------------------------
(* The manifests that Build makes.                                         *)

\* A manifest that Build made: its numbers, its digests, and what it is like.
\* Only the model's digest is one of other units.
NumbersOf(m) == Nat \union {m.model.shards[k].size : k \in DOMAIN m.model.shards}
ChunkDigests(f) == {f.chunks[k].digest : k \in DOMAIN f.chunks}
DigestsOf(m) ==
    {m.model.digest} \union {m.files[i].digest : i \in DOMAIN m.files}
        \union UNION {ChunkDigests(m.files[i]) : i \in DOMAIN m.files}
Whole(m) ==
    /\ Written(m, NumbersOf(m), Options, DigestsOf(m))
    /\ m.model.digest = ModelDigest(m.files)
    /\ \A d \in DigestsOf(m) : d.kind = "digest" /\ (d = m.model.digest \/ d.units = <<>>)

\* Its options, numbers and digests can be told from what is written.
LEMMA WholeIsKept ==
    ASSUME NEW m, Whole(m)
    PROVE  Kept(NumbersOf(m), Options, DigestsOf(m))
  <1>1. \A o \in Options : o = [avg |-> o.avg, min |-> o.min, max |-> o.max]
    BY DEF Options
  <1> QED BY <1>1 DEF Whole, Kept, NumbersOf

\* The shape of what has been described.
OfBytes(d) == d.kind = "digest" /\ d.units = <<>>
EntryShaped(f) ==
    /\ f = [path |-> f.path, size |-> f.size, role |-> f.role, digest |-> f.digest,
            chunker |-> f.chunker, chunks |-> f.chunks]
    /\ OfBytes(f.digest) /\ IsRow(f.chunks)
    /\ \A k \in 1 .. Len(f.chunks) :
         /\ f.chunks[k] = [offset |-> f.chunks[k].offset, length |-> f.chunks[k].length,
                           digest |-> f.chunks[k].digest]
         /\ OfBytes(f.chunks[k].digest)
ShapesOK == \A f \in entries : EntryShaped(f)

\* hashEntry describes a file so (scan.go:295-309).
LEMMA EntryIsShaped == ASSUME ChunkerInv, at = "eof", NEW p PROVE EntryShaped(Entry(p))
  <1> DEFINE chunks == ChunksOf(stream)
             n == Len(cuts)
             e == Entry(p)
             bytes(k) == SubSeq(stream, cuts[k].off + 1, cuts[k].off + cuts[k].len)
  <1>1. n \in Nat /\ DOMAIN cuts = 1 .. n
    <2>1. cuts \in Seq([off : Nat, len : Nat])
      BY DEF ChunkerInv, Running, CutsOK
    <2> QED BY <2>1
  <1>2. chunks = [k \in 1 .. n |-> [offset |-> cuts[k].off, length |-> cuts[k].len,
                                   digest |-> Sum(bytes(k))]]
    BY <1>1 DEF ChunksOf
  <1>3. e = [path |-> p, size |-> off, role |-> info.roles[p], digest |-> Sum(stream),
             chunker |-> request, chunks |-> chunks]
    BY DEF Entry
  <1>4. \A x : OfBytes(Sum(x))
    BY DEF Sum, Unit, OfBytes
  <1> HIDE DEF chunks, n, e, bytes
  <1>5. DOMAIN chunks = 1 .. n /\ Len(chunks) = n
    BY <1>1, <1>2
  <1>6. IsRow(chunks)
    BY <1>1, <1>2, <1>5 DEF IsRow
  <1>7. ASSUME NEW k \in 1 .. n
        PROVE  /\ chunks[k] = [offset |-> chunks[k].offset, length |-> chunks[k].length,
                               digest |-> chunks[k].digest]
               /\ OfBytes(chunks[k].digest)
    BY <1>2, <1>4
  <1>8. /\ e = [path |-> e.path, size |-> e.size, role |-> e.role, digest |-> e.digest,
                chunker |-> e.chunker, chunks |-> e.chunks]
        /\ e.digest = Sum(stream) /\ e.chunks = chunks
    BY <1>3
  <1>9. OfBytes(e.digest)
    BY <1>4, <1>8
  <1>10. EntryShaped(e)
    BY <1>5, <1>6, <1>7, <1>8, <1>9 DEF EntryShaped
  <1> QED BY <1>10 DEF e

\* Every step keeps it.
LEMMA ShapesStay ==
    DescribeInv /\ ShapesOK /\ [DescribeNext]_describeVars => ShapesOK'
  <1> SUFFICES ASSUME DescribeInv, ShapesOK, [DescribeNext]_describeVars PROVE ShapesOK'
    OBVIOUS
  <1>1. CASE EntryEnds
    <2>1. entries' = entries \union {Entry(hashing)} /\ at = "eof"
      BY <1>1 DEF EntryEnds
    <2>2. ChunkerInv
      BY <2>1 DEF DescribeInv, CuttingOK
    <2>3. EntryShaped(Entry(hashing))
      BY <2>1, <2>2, EntryIsShaped
    <2> QED BY <2>1, <2>3 DEF ShapesOK
  <1>2. CASE Begin
    BY <1>2 DEF Begin, ShapesOK
  <1>3. CASE ~ EntryEnds /\ ~ Begin
    <2>1. entries' = entries
      BY <1>3 DEF DescribeNext, describeVars, building, run, ChunkerStep, BuildFails,
                  BuildEnds, Edit, HashEntry, SaveBegins, SaveWrites, SaveSyncs, SaveRenames,
                  SaveFails, PowerLoss, Copy
    <2> QED BY <2>1 DEF ShapesOK
  <1> QED BY <1>1, <1>2, <1>3

\* Every name has a role.
LEMMA RolesAreRoles ==
    ASSUME NEW list, NEW p \in DOMAIN list PROVE RolesOf(list)[p] \in Role
  <1>1. roleFor(p, list[p]) \in Role
    BY DEF roleFor, Role
  <1>2. "weight" \in Role /\ "metadata" \in Role
    BY DEF Role
  <1> QED BY <1>1, <1>2 DEF RolesOf

\* The kind of a model is one of the kinds.
LEMMA KindsAreKinds == ASSUME NEW list PROVE KindOf(list) \in Kind
  BY DEF KindOf, Kind

\* The options in the header are options.
LEMMA HeaderOptions ==
    ASSUME NEW list, NEW roles, NEW pin \in Options
    PROVE  defaultChunker(list, roles, pin) \in Options
  <1>1. {Small, Large, Huge} \subseteq Options
    BY ChunkerAssumption, DescribeAssumption
  <1>2. \A n : OptionsForSize(n) \in Options
    BY <1>1 DEF OptionsForSize
  <1>3. Normalized(pin) \in Options
    BY NormalizedOptions
  <1> QED BY <1>1, <1>2, <1>3 DEF defaultChunker

\* The shard sets of a listing, and what they are like.
LEMMA ShardsAreShaped ==
    ASSUME NEW list, DOMAIN list \subseteq Path, IsFiniteSet(DOMAIN list)
    PROVE  LET shards == Detect(list).shards IN
           /\ IsRow(shards)
           /\ \A k \in 1 .. Len(shards) :
                ShardWritten(shards[k], Nat \union {shards[i].size : i \in DOMAIN shards})
  <1> DEFINE roles == RolesOf(list)
             sharded == {p \in DOMAIN list : roles[p] = "weight" /\ Name[p].total > 1}
             S == ShardSetsOf(list, sharded)
             shards == ByName(S)
             N == Nat \union {shards[i].size : i \in DOMAIN shards}
  <1>1. Detect(list).shards = shards
    BY DEF Detect, detectShards, ShardSetsOf
  <1>2. sharded \in SUBSET Path /\ IsFiniteSet(sharded)
    <2>1. sharded \in SUBSET DOMAIN list
      OBVIOUS
    <2> HIDE DEF sharded
    <2> QED BY <2>1, FS_Subset
  <1> HIDE DEF sharded
  <1>3. shards \in Seq(S)
    BY <1>2, ShardsInARow
  <1>4. ASSUME NEW s \in S, s.size \in N PROVE ShardWritten(s, N)
    <2>1. PICK F \in Families(sharded) : s = ShardSet(list, F)
      BY DEF ShardSetsOf
    <2>2. F \in SUBSET sharded /\ F # {}
      BY DEF Families
    <2>3. F \in SUBSET Nat /\ F \in SUBSET Path /\ IsFiniteSet(F)
      BY <1>2, <2>2, FS_Subset, LayoutAssumption
    <2>4. FirstPath(F) \in F
      <3>1. \E q \in F : \A r \in F : q <= r
        BY <2>2, <2>3, LeastMember
      <3> QED BY <3>1 DEF FirstPath
    <2>5. Name[FirstPath(F)].family \in Nat /\ Name[FirstPath(F)].total \in Nat
      BY <2>3, <2>4, LayoutAssumption DEF NameForm
    <2>6. s = [name |-> Name[FirstPath(F)].family, parts |-> Ascending(F),
               total |-> Name[FirstPath(F)].total,
               size |-> MapThenSumSet(LAMBDA p : list[p], F)]
      BY <2>1 DEF ShardSet
    <2> DEFINE a == Ascending(F)
    <2>7. a \in Seq(F)
      BY <2>3, AscendingOrders
    <2> HIDE DEF a
    <2>8. IsRow(a) /\ \A k \in 1 .. Len(a) : a[k] \in F
      BY <2>7 DEF IsRow
    <2>9. s = [name |-> s.name, parts |-> s.parts, total |-> s.total, size |-> s.size]
      BY <2>6
    <2>10. s.parts = a /\ s.name \in Nat /\ s.total \in Nat
      BY <2>5, <2>6 DEF a
    <2>11. IsRow(s.parts) /\ \A k \in 1 .. Len(s.parts) : s.parts[k] \in N
      BY <2>3, <2>8, <2>10
    <2> HIDE DEF shards
    <2> QED BY <1>4, <2>9, <2>10, <2>11 DEF ShardWritten
  <1> HIDE DEF S
  <1>5. /\ Len(shards) \in Nat /\ DOMAIN shards = 1 .. Len(shards)
        /\ \A k \in 1 .. Len(shards) : shards[k] \in S
    <2> HIDE DEF shards
    <2> QED BY <1>3
  <1>6. IsRow(shards)
    <2> HIDE DEF shards
    <2> QED BY <1>3 DEF IsRow
  <1>7. \A k \in 1 .. Len(shards) : ShardWritten(shards[k], N)
    <2> SUFFICES ASSUME NEW k \in 1 .. Len(shards) PROVE ShardWritten(shards[k], N)
      OBVIOUS
    <2>1. shards[k] \in S /\ shards[k].size \in N
      BY <1>5
    <2> QED BY <1>4, <2>1
  <1> QED BY <1>1, <1>6, <1>7

\* The manifest that Build has made is whole.
LEMMA DocIsWhole == ASSUME DescribeInv, ShapesOK, HasDoc PROVE Whole(doc)
  <1> DEFINE files == Sorted(entries)
             x == [kind |-> info.kind, shards |-> info.shards, digest |-> ModelDigest(files),
                   files |-> 0, size |-> 0, weightFiles |-> 0, weightBytes |-> 0]
             chunker == defaultChunker(listing, info.roles, config.pin)
             r == [chunker |-> chunker, files |-> files, model |-> x]
             N == NumbersOf(doc)
             D == DigestsOf(doc)
  <1>1. doc = Recount(r)
    BY DEF DescribeInv, DocOK, Finalize
  <1>2. doc = [chunker |-> chunker, files |-> files,
               model |-> [kind |-> info.kind, shards |-> info.shards,
                          digest |-> ModelDigest(files), files |-> Len(files),
                          size |-> TotalOf(files, DOMAIN files),
                          weightFiles |-> Cardinality(Weights(files)),
                          weightBytes |-> TotalOf(files, Weights(files))]]
    <2>1. ModelShaped(x)
      BY DEF ModelShaped
    <2>2. x.kind = info.kind /\ x.shards = info.shards /\ x.digest = ModelDigest(files)
      OBVIOUS
    <2> HIDE DEF x, files, chunker
    <2>3. /\ r = [chunker |-> r.chunker, files |-> r.files, model |-> r.model]
          /\ r.chunker = chunker /\ r.files = files /\ r.model = x
      OBVIOUS
    <2> HIDE DEF r
    <2>4. Recount(r) =
             [chunker |-> r.chunker, files |-> r.files,
              model |-> [kind |-> r.model.kind, shards |-> r.model.shards,
                         digest |-> r.model.digest, files |-> Len(r.files),
                         size |-> TotalOf(r.files, DOMAIN r.files),
                         weightFiles |-> Cardinality(Weights(r.files)),
                         weightBytes |-> TotalOf(r.files, Weights(r.files))]]
      BY <2>1, <2>3, RecountIs
    <2> QED BY <1>1, <2>2, <2>3, <2>4
  <1> HIDE DEF x, files, chunker, r
  <1>3. /\ doc = [chunker |-> doc.chunker, files |-> doc.files, model |-> doc.model]
        /\ doc.chunker = chunker /\ doc.files = files
        /\ ModelShaped(doc.model) /\ doc.model.kind = info.kind
        /\ doc.model.shards = info.shards /\ doc.model.digest = ModelDigest(files)
    BY <1>2 DEF ModelShaped
  <1>4. doc = Recount(doc)
    <2>1. Recount(doc) =
             [chunker |-> doc.chunker, files |-> doc.files,
              model |-> [kind |-> doc.model.kind, shards |-> doc.model.shards,
                         digest |-> doc.model.digest, files |-> Len(doc.files),
                         size |-> TotalOf(doc.files, DOMAIN doc.files),
                         weightFiles |-> Cardinality(Weights(doc.files)),
                         weightBytes |-> TotalOf(doc.files, Weights(doc.files))]]
      BY <1>3, RecountIs
    <2> QED BY <1>2, <1>3, <2>1
  <1>5. /\ DOMAIN listing \subseteq Path /\ IsFiniteSet(DOMAIN listing)
        /\ \A f \in entries : DescribedOK(f) /\ config.pin \in Options
        /\ \A p \in DOMAIN listing : p \in Nat
    BY ListedFacts
  <1>6. doc.chunker \in Options /\ doc.model.kind \in Kind
    <2>1. config.pin \in Options
      BY ListedFacts
    <2>2. info.kind = KindOf(listing)
      BY DEF info, Detect
    <2> QED BY <1>3, <2>1, <2>2, HeaderOptions, KindsAreKinds DEF chunker
  <1>7. IsRow(doc.model.shards)
        /\ \A k \in 1 .. Len(doc.model.shards) : ShardWritten(doc.model.shards[k], N)
    <2>1. info.shards = Detect(listing).shards
      BY DEF info
    <2>2. N = Nat \union {info.shards[i].size : i \in DOMAIN info.shards}
      BY <1>3 DEF NumbersOf
    <2> DEFINE s == info.shards
               M == Nat \union {s[i].size : i \in DOMAIN s}
    <2>3. IsRow(s) /\ \A k \in 1 .. Len(s) : ShardWritten(s[k], M)
      BY <1>5, <2>1, ShardsAreShaped
    <2>4. N = M /\ doc.model.shards = s
      BY <1>3, <2>2
    <2> HIDE DEF N, M, s
    <2> QED BY <2>3, <2>4
  <1>8. /\ DOMAIN doc.files = 1 .. Len(doc.files) /\ Len(doc.files) \in Nat
        /\ \A i \in 1 .. Len(doc.files) : doc.files[i] \in entries
    BY FilesOfDoc
  <1>9. IsRow(doc.files)
    <2>1. doc.files \in Seq(entries)
      <3> DEFINE pairs == {e \in entries \X entries : e[1].path < e[2].path}
      <3>1. doc.files = SortedBy(entries, pairs)
        BY <1>3 DEF files, Sorted
      <3> DEFINE n == Cardinality(entries)
                 g(i) == CHOOSE y \in entries : Cardinality({z \in entries : <<z, y>> \in pairs}) = i - 1
      <3>2. doc.files = [i \in 1 .. n |-> g(i)]
        BY <3>1 DEF SortedBy
      <3> HIDE DEF n, g
      <3>3. doc.files = [i \in DOMAIN doc.files |-> doc.files[i]]
        BY <3>2
      <3> QED BY <1>8, <3>3
    <2> QED BY <1>8, <2>1 DEF IsRow
  <1>10. ASSUME NEW f \in entries, f.digest \in D, ChunkDigests(f) \subseteq D
         PROVE  FileWritten(f, N, Options, D)
    <2>1. DescribedOK(f) /\ EntryShaped(f)
      BY <1>5 DEF ShapesOK
    <2>2. f.path \in N /\ f.size \in N
      BY <1>5, <2>1 DEF DescribedOK, NumbersOf
    <2>3. f.role \in Role
      <3>1. f.role = RolesOf(listing)[f.path] /\ f.path \in DOMAIN listing
        BY <2>1 DEF DescribedOK, info, Detect
      <3> QED BY <3>1, RolesAreRoles
    <2>4. f.chunker \in Options
      <3>1. f.chunker = ChunkOptionsFor(info.roles[f.path], listing[f.path], config.pin)
        BY <2>1 DEF DescribedOK, OptionsOf
      <3>2. config.pin \in Options
        BY ListedFacts
      <3> QED BY <3>1, <3>2, ChosenOptions
    <2>5. ChunksWritten(f.chunks, N, D)
      <3>1. IsRow(f.chunks) /\ DOMAIN f.chunks = 1 .. Len(f.chunks)
        BY <2>1 DEF EntryShaped, IsRow
      <3>2. ASSUME NEW k \in 1 .. Len(f.chunks)
            PROVE  /\ f.chunks[k] = [offset |-> f.chunks[k].offset, length |-> f.chunks[k].length,
                                     digest |-> f.chunks[k].digest]
                   /\ f.chunks[k].length \in N /\ f.chunks[k].digest \in D
                   /\ f.chunks[k].offset = IF k = 1 THEN 0 ELSE End(f.chunks[k - 1])
        <4>1. f.chunks[k] = [offset |-> f.chunks[k].offset, length |-> f.chunks[k].length,
                             digest |-> f.chunks[k].digest]
          BY <2>1 DEF EntryShaped
        <4>2. f.chunks[k].length \in Nat
          BY <2>1, <3>1 DEF DescribedOK, ChunksOK
        <4>3. f.chunks[k].digest \in D
          BY <1>10, <3>1 DEF ChunkDigests
        <4>4. f.chunks[k].offset = IF k = 1 THEN 0 ELSE End(f.chunks[k - 1])
          BY <2>1, <3>1 DEF DescribedOK, InOneRow
        <4> QED BY <4>1, <4>2, <4>3, <4>4 DEF NumbersOf
      <3> HIDE DEF N, D
      <3> QED BY <3>1, <3>2 DEF ChunksWritten
    <2>6. f = [path |-> f.path, size |-> f.size, role |-> f.role, digest |-> f.digest,
               chunker |-> f.chunker, chunks |-> f.chunks]
      BY <2>1 DEF EntryShaped
    <2> HIDE DEF N, D
    <2> QED BY <1>10, <2>2, <2>3, <2>4, <2>5, <2>6 DEF FileWritten
  <1>11. ASSUME NEW i \in 1 .. Len(doc.files) PROVE FileWritten(doc.files[i], N, Options, D)
    <2>1. doc.files[i].digest \in D /\ ChunkDigests(doc.files[i]) \subseteq D
      BY <1>8 DEF DigestsOf
    <2> QED BY <1>8, <1>10, <2>1
  <1>12. doc.model.digest \in D
    BY DEF DigestsOf
  <1>13. Written(doc, N, Options, D)
    <2> HIDE DEF N, D
    <2> QED BY <1>3, <1>4, <1>6, <1>7, <1>9, <1>11, <1>12 DEF Written
  <1>14. ASSUME NEW d \in D PROVE d.kind = "digest" /\ (d = doc.model.digest \/ d.units = <<>>)
    <2>1. CASE d = doc.model.digest
      <3>1. \A units : SumOf(units).kind = "digest"
        BY DEF SumOf, Unit
      <3>2. ModelDigest(files).kind = "digest"
        BY <3>1 DEF ModelDigest
      <3> QED BY <1>3, <2>1, <3>2
    <2>2. ASSUME NEW i \in DOMAIN doc.files, d = doc.files[i].digest PROVE OfBytes(d)
      BY <1>8, <2>2 DEF ShapesOK, EntryShaped
    <2>3. ASSUME NEW i \in DOMAIN doc.files, d \in ChunkDigests(doc.files[i])
          PROVE  OfBytes(d)
      <3>1. EntryShaped(doc.files[i])
        BY <1>8 DEF ShapesOK
      <3>2. PICK k \in DOMAIN doc.files[i].chunks : d = doc.files[i].chunks[k].digest
        BY <2>3 DEF ChunkDigests
      <3> QED BY <3>1, <3>2 DEF EntryShaped, IsRow
    <2> QED BY <2>1, <2>2, <2>3 DEF DigestsOf, OfBytes
  <1>15. doc.model.digest = ModelDigest(doc.files)
    BY <1>3
  <1> QED BY <1>13, <1>14, <1>15 DEF Whole

-----------------------------------------------------------------------------
(* Reading them again.                                                     *)

\* What is written is a sequence.
LEMMA EncodedUnits ==
    ASSUME NEW m, Whole(m)
    PROVE  \E V : EncodeBinary(m) \in Seq(V)
  <1> DEFINE U == UnitsOver(NumbersOf(m), Options, DigestsOf(m))
             x == EncodeBody(m)
             s == SumOf(x)
             V == U \union {s}
  <1>1. Kept(NumbersOf(m), Options, DigestsOf(m)) /\ Written(m, NumbersOf(m), Options, DigestsOf(m))
    BY WholeIsKept DEF Whole
  <1>2. x \in Seq(U)
    BY <1>1, BodyIsUnits
  <1>3. EncodeBinary(m) = Append(x, s)
    BY DEF EncodeBinary
  <1> HIDE DEF U, x, s
  <1>4. x \in Seq(V) /\ s \in V
    BY <1>2
  <1> HIDE DEF V
  <1> QED BY <1>3, <1>4

\* What was encoded whole is read as what it was.
LEMMA ReadsAsWritten ==
    ASSUME NEW m, Whole(m), WithinLimits(m), NEW V, NEW u \in Seq(V),
           SubSeq(u, 1, Len(EncodeBinary(m))) = EncodeBinary(m), Len(EncodeBinary(m)) <= Len(u)
    PROVE  ReadUnits(u) = m
  <1>1. Kept(NumbersOf(m), Options, DigestsOf(m)) /\ Written(m, NumbersOf(m), Options, DigestsOf(m))
    BY WholeIsKept DEF Whole
  <1>2. u # <<>> /\ u[1] = Magic /\ DecodeBinary(u, Nil) = m
    BY <1>1, RoundTrip
  <1> QED BY <1>2 DEF ReadUnits

-----------------------------------------------------------------------------
(* What is on disk.                                                        *)

\* A file that holds a manifest to its end, and is synced.
Intact(file) == file.synced = TRUE /\ file.kept = Size(file.of, file.encoding)
FileShaped(file) ==
    file = [encoding |-> file.encoding, of |-> file.of, kept |-> file.kept,
            synced |-> file.synced]

\* The invariant of Save: the temporary file is as far as it is said to be; all
\* that the manifest's path holds, or may hold again, is intact and was to be
\* saved; and everything that was to be saved is whole.
SaveOK ==
    /\ pc \in {"temp", "written", "synced"} =>
         FileShaped(temp) /\ temp.of = doc /\ doc \in begun
    /\ pc \in {"written", "synced"} => temp.kept = Size(doc, temp.encoding)
    /\ pc = "synced" => temp.synced = TRUE
    /\ \A file \in past \union {disk} : file # None => Intact(file) /\ file.of \in begun
    /\ pc = "saved" => Intact(disk) /\ disk.of = doc /\ doc \in begun
WholeOK == \A m \in begun : Whole(m)
SavingOK == SaveOK /\ WholeOK

\* The manifests to be saved are within the limits that DecodeBinary checks and
\* EncodeBinary does not (binary.go:245-257, 358).
SavedWithinLimits == \A m \in begun : WithinLimits(m)

\* An intact file is read as the manifest it holds (Read, io.go:74-85).
LEMMA IntactIsRead ==
    ASSUME NEW file, Intact(file), Whole(file.of), WithinLimits(file.of)
    PROVE  ReadManifest(file) = file.of
  <1> DEFINE m == file.of
             w == EncodeBinary(m)
  <1>1. CASE file.encoding = "binary"
    <2>1. file.kept = Len(w)
      BY <1>1 DEF Intact, Size
    <2>2. PICK V : w \in Seq(V)
      BY EncodedUnits
    <2>3. SubSeq(w, 1, Len(w)) = w /\ Len(w) <= Len(w)
      <3> HIDE DEF w
      <3>1. Len(w) \in Nat /\ w = [i \in 1 .. Len(w) |-> w[i]]
        BY <2>2
      <3>2. SubSeq(w, 1, Len(w)) = [i \in 1 .. Len(w) |-> w[(1 + i) - 1]]
        BY <2>2, <3>1, SubSeqProperties
      <3>3. \A i \in 1 .. Len(w) : (1 + i) - 1 = i
        OBVIOUS
      <3> QED BY <3>1, <3>2, <3>3
    <2>4. ReadUnits(w) = m
      BY <2>2, <2>3, ReadsAsWritten
    <2>5. ReadManifest(file) = ReadUnits(SubSeq(w, 1, file.kept))
      BY <1>1 DEF ReadManifest
    <2> HIDE DEF w, m
    <2> QED BY <2>1, <2>3, <2>4, <2>5 DEF m
  <1>2. CASE file.encoding # "binary"
    BY <1>2 DEF Intact, Size, ReadManifest
  <1> QED BY <1>1, <1>2

\* It holds at first.
LEMMA SavingStarts == DescribeInit => SavingOK
  BY DEF DescribeInit, SavingOK, SaveOK, WholeOK

\* Every step of Save keeps it, and so do a failure and a power loss: the file
\* that is renamed has been synced.
LEMMA SavingKeeps ==
    DescribeInv /\ ShapesOK /\ SavingOK /\ [DescribeNext]_describeVars => SavingOK'
  <1> SUFFICES ASSUME DescribeInv, ShapesOK, SavingOK, [DescribeNext]_describeVars
               PROVE  SavingOK'
    OBVIOUS
  <1>0. SaveOK /\ WholeOK
    BY DEF SavingOK
  <1>1. CASE SaveBegins
    <2>1. /\ pc = "built" /\ pc' = "temp" /\ begun' = begun \union {doc}
          /\ temp' = [encoding |-> config.encoding, of |-> doc, kept |-> 0, synced |-> FALSE]
          /\ doc' = doc /\ disk' = disk /\ past' = past
      BY <1>1 DEF SaveBegins, building
    <2>2. Whole(doc)
      BY <2>1, DocIsWhole DEF HasDoc
    <2>3. WholeOK'
      BY <1>0, <2>1, <2>2 DEF WholeOK
    <2>4. FileShaped(temp') /\ temp'.of = doc
      BY <2>1 DEF FileShaped
    <2>5. SaveOK'
      BY <1>0, <2>1, <2>4 DEF SaveOK
    <2> QED BY <2>3, <2>5 DEF SavingOK
  <1>2. CASE SaveWrites
    <2>1. /\ pc = "temp" /\ pc' = "written" /\ UNCHANGED <<doc, disk, past, begun>>
          /\ temp' = [temp EXCEPT !.kept = Size(doc, temp.encoding)]
      BY <1>2 DEF SaveWrites, building
    <2>2. FileShaped(temp) /\ temp.of = doc /\ doc \in begun
      BY <1>0, <2>1 DEF SaveOK
    <2>3. /\ FileShaped(temp') /\ temp'.of = temp.of /\ temp'.encoding = temp.encoding
          /\ temp'.kept = Size(doc, temp.encoding)
      <3> DEFINE n == Size(doc, temp.encoding)
      <3>1. temp' = [temp EXCEPT !.kept = n]
        BY <2>1
      <3> HIDE DEF n
      <3>2. temp' = [encoding |-> temp.encoding, of |-> temp.of, kept |-> n, synced |-> temp.synced]
        BY <2>2, <3>1 DEF FileShaped
      <3> QED BY <3>2 DEF FileShaped, n
    <2>4. SaveOK'
      BY <1>0, <2>1, <2>2, <2>3 DEF SaveOK
    <2>5. WholeOK'
      BY <1>0, <2>1 DEF WholeOK
    <2> QED BY <2>4, <2>5 DEF SavingOK
  <1>3. CASE SaveSyncs
    <2>1. /\ pc = "written" /\ pc' = "synced" /\ UNCHANGED <<doc, disk, past, begun>>
          /\ temp' = [temp EXCEPT !.synced = TRUE]
      BY <1>3 DEF SaveSyncs, building
    <2>2. /\ FileShaped(temp) /\ temp.of = doc /\ doc \in begun
          /\ temp.kept = Size(doc, temp.encoding)
      BY <1>0, <2>1 DEF SaveOK
    <2>3. /\ FileShaped(temp') /\ temp'.of = temp.of /\ temp'.encoding = temp.encoding
          /\ temp'.kept = temp.kept /\ temp'.synced = TRUE
      <3>1. temp' = [encoding |-> temp.encoding, of |-> temp.of, kept |-> temp.kept, synced |-> TRUE]
        BY <2>1, <2>2 DEF FileShaped
      <3> QED BY <3>1 DEF FileShaped
    <2>4. SaveOK'
      BY <1>0, <2>1, <2>2, <2>3 DEF SaveOK
    <2>5. WholeOK'
      BY <1>0, <2>1 DEF WholeOK
    <2> QED BY <2>4, <2>5 DEF SavingOK
  <1>4. CASE SaveRenames
    <2>1. /\ pc = "synced" /\ pc' = "saved" /\ UNCHANGED <<doc, begun>>
          /\ disk' = temp /\ past' = past \union {disk}
      BY <1>4 DEF SaveRenames, building
    <2>2. /\ temp.of = doc /\ doc \in begun
          /\ temp.kept = Size(doc, temp.encoding) /\ temp.synced = TRUE
      BY <1>0, <2>1 DEF SaveOK
    <2>3. Intact(temp)
      BY <2>2 DEF Intact
    <2>4. \A file \in past' \union {disk'} : file # None => Intact(file) /\ file.of \in begun
      BY <1>0, <2>1, <2>2, <2>3 DEF SaveOK
    <2>5. SaveOK'
      BY <2>1, <2>2, <2>3, <2>4 DEF SaveOK
    <2>6. WholeOK'
      BY <1>0, <2>1 DEF WholeOK
    <2> QED BY <2>5, <2>6 DEF SavingOK
  <1>5. CASE SaveFails
    <2>1. pc' = "failed" /\ UNCHANGED <<disk, past, begun>>
      BY <1>5 DEF SaveFails
    <2> QED BY <1>0, <2>1 DEF SavingOK, SaveOK, WholeOK
  <1>6. CASE PowerLoss
    <2>1. /\ pc' = "failed" /\ past' = {} /\ UNCHANGED begun
          /\ disk' \in UNION {AfterPowerLoss(file) : file \in past \union {disk}}
      BY <1>6 DEF PowerLoss
    <2>2. PICK file \in past \union {disk} : disk' \in AfterPowerLoss(file)
      BY <2>1
    <2>3. file = None \/ (Intact(file) /\ file.of \in begun)
      BY <1>0 DEF SaveOK
    <2>4. disk' = file
      BY <2>2, <2>3 DEF AfterPowerLoss, Intact
    <2>5. SaveOK'
      BY <2>1, <2>3, <2>4 DEF SaveOK
    <2>6. WholeOK'
      BY <1>0, <2>1 DEF WholeOK
    <2> QED BY <2>5, <2>6 DEF SavingOK
  <1>7. CASE Begin
    <2>1. pc' \in {"refused", "hash"} /\ UNCHANGED <<disk, past, begun>>
      BY <1>7 DEF Begin, saving
    <2> QED BY <1>0, <2>1 DEF SavingOK, SaveOK, WholeOK
  <1>8. CASE EntryEnds \/ BuildFails \/ BuildEnds \/ ChunkerStep \/ Copy
               \/ \E p \in DOMAIN listing : Edit(p) \/ HashEntry(p)
    <2>1. /\ pc' \notin {"temp", "written", "synced", "saved"} /\ UNCHANGED <<disk, past, begun>>
      BY <1>8 DEF EntryEnds, BuildFails, BuildEnds, ChunkerStep, Copy, Edit, HashEntry, saving
    <2> QED BY <1>0, <2>1 DEF SavingOK, SaveOK, WholeOK
  <1>9. CASE UNCHANGED describeVars
    <2>1. UNCHANGED <<pc, doc, temp, disk, past, begun>>
      BY <1>9 DEF describeVars, building, saving
    <2> QED BY <1>0, <2>1 DEF SavingOK, SaveOK, WholeOK
  <1> QED BY <1>1, <1>2, <1>3, <1>4, <1>5, <1>6, <1>7, <1>8, <1>9 DEF DescribeNext

\* A crashed or failed Save leaves no half-written manifest behind
\* (io.go:87-89): whatever happens, the manifest's path holds nothing, or
\* loads as a manifest that was to be saved there, as long as those are within
\* the limits of the binary reader.
THEOREM SavingIsSafe == DescribeSpec => [](SavedWithinLimits => LoadedIsOldOrNew)
  <1>1. SavingOK => (SavedWithinLimits => LoadedIsOldOrNew)
    <2> SUFFICES ASSUME SavingOK, SavedWithinLimits PROVE LoadedIsOldOrNew
      OBVIOUS
    <2>1. ASSUME disk # None PROVE ReadManifest(disk) \in begun
      <3>1. Intact(disk) /\ disk.of \in begun
        BY <2>1 DEF SavingOK, SaveOK
      <3>2. Whole(disk.of) /\ WithinLimits(disk.of)
        BY <3>1 DEF SavingOK, WholeOK, SavedWithinLimits
      <3> QED BY <3>1, <3>2, IntactIsRead
    <2>2. ASSUME pc = "saved" PROVE ReadManifest(disk) = doc
      <3>1. Intact(disk) /\ disk.of = doc /\ doc \in begun
        BY <2>2 DEF SavingOK, SaveOK
      <3>2. Whole(disk.of) /\ WithinLimits(disk.of)
        BY <3>1 DEF SavingOK, WholeOK, SavedWithinLimits
      <3> QED BY <3>1, <3>2, IntactIsRead
    <2> QED BY <2>1, <2>2 DEF LoadedIsOldOrNew
  <1>2. DescribeInit => ShapesOK
    BY DEF DescribeInit, ShapesOK
  <1> QED BY <1>1, <1>2, DescribeInvariance, ShapesStay, SavingStarts, SavingKeeps, PTL
          DEF DescribeSpec

\* What Compare says of two manifests (diff.go:55-135), one of them loaded from
\* where it was saved, is exact within these limits.
THEOREM PricesOfSavedAreExact == DescribeSpec => [](SavedWithinLimits => CompareIsExact)
  BY SavingIsSafe, PricesAreExact, PTL

-----------------------------------------------------------------------------
(* A copy of a manifest that has come to harm.                             *)

\* Whatever the bytes are, what is read as a number is one.
HoldsNumbers(u) ==
    \A i \in DOMAIN u : u[i].kind = "num" => u[i].nums \in Seq(Nat) /\ u[i].nums # <<>>

\* What follows as a number has a value.
LEMMA ValueIsNumber ==
    ASSUME NEW V, NEW u \in Seq(V), HoldsNumbers(u), NEW p \in Nat, NEW rest,
           Follows(u, p, <<"num">>)
    PROVE  Value(u, p) \in Nat
  <1>1. p + 1 <= Len(u) /\ u[p + 1].kind = "num"
    <2>1. p + Len(<<"num">>) <= Len(u) /\ \A k \in DOMAIN <<"num">> : u[p + k].kind = <<"num">>[k]
      BY DEF Follows
    <2>2. Len(<<"num">>) = 1 /\ 1 \in DOMAIN <<"num">> /\ <<"num">>[1] = "num"
      OBVIOUS
    <2> QED BY <2>1, <2>2
  <1>2. p + 1 \in DOMAIN u
    BY <1>1
  <1>3. u[p + 1].nums \in Seq(Nat) /\ u[p + 1].nums # <<>>
    BY <1>1, <1>2 DEF HoldsNumbers
  <1>4. u[p + 1].nums[1] \in Nat
    <2> DEFINE s == u[p + 1].nums
    <2>1. s \in Seq(Nat) /\ s # <<>>
      BY <1>3
    <2> HIDE DEF s
    <2> QED BY <2>1 DEF s
  <1> QED BY <1>4 DEF Value

\* Where the body ends, if there is one.
LEMMA BodyEndsSomewhere ==
    ASSUME NEW V, NEW u \in Seq(V), HoldsNumbers(u), Readable(u)
    PROVE  BodyEnd(u) \in Nat
  <1>1. ASSUME NEW p \in Nat, HasCount(u, p) PROVE Value(u, p) \in Nat
    <2>1. Follows(u, p, <<"num">>)
      BY <1>1 DEF HasCount
    <2> QED BY <2>1, ValueIsNumber
  <1>2. ShardWidth(u) \in [Nat -> Nat]
    <2>1. ASSUME NEW p \in Nat, IsShard(u, p) PROVE 4 + Value(u, p + 3) \in Nat
      <3>1. p + 3 \in Nat /\ HasCount(u, p + 3)
        BY <2>1 DEF IsShard
      <3>2. Value(u, p + 3) \in Nat
        BY <1>1, <3>1
      <3> QED BY <3>2
    <2> QED BY <2>1 DEF ShardWidth
  <1>3. FileWidth(u) \in [Nat -> Nat]
    <2>1. ASSUME NEW p \in Nat, IsFile(u, p) PROVE 6 + 2 * Value(u, p + 5) \in Nat
      <3>1. p + 5 \in Nat /\ HasCount(u, p + 5)
        BY <2>1 DEF IsFile
      <3>2. Value(u, p + 5) \in Nat
        BY <1>1, <3>1
      <3> QED BY <3>2
    <2> QED BY <2>1 DEF FileWidth
  <1>4. HasCount(u, 6) /\ HasCount(u, FileCount(u))
    BY DEF Readable
  <1>5. Value(u, 6) \in Nat
    BY <1>1, <1>4
  <1>6. FileCount(u) \in Nat
    <2> DEFINE n == Value(u, 6)
               w == ShardWidth(u)
    <2>1. n \in Nat /\ w \in [Nat -> Nat]
      BY <1>2, <1>5
    <2>2. FileCount(u) = Starts(n, 7, w)[n]
      BY DEF FileCount, ShardStarts
    <2> HIDE DEF n, w
    <2>3. Starts(n, 7, w) \in [0 .. n -> Nat]
      BY <2>1, StartsAre
    <2> QED BY <2>1, <2>2, <2>3
  <1>7. Value(u, FileCount(u)) \in Nat
    BY <1>1, <1>4, <1>6
  <1> DEFINE n == Value(u, FileCount(u))
             first == FileCount(u) + 1
             w == FileWidth(u)
  <1>8. n \in Nat /\ first \in Nat /\ w \in [Nat -> Nat]
    <2>1. n \in Nat
      BY <1>7
    <2>2. first \in Nat
      <3> DEFINE c == FileCount(u)
      <3>1. c \in Nat
        BY <1>6
      <3> HIDE DEF c
      <3>2. c + 1 \in Nat
        BY <3>1
      <3> QED BY <3>2 DEF c
    <2>3. w \in [Nat -> Nat]
      BY <1>3
    <2> QED BY <2>1, <2>2, <2>3
  <1>9. BodyEnd(u) = Starts(n, first, w)[n]
    BY DEF BodyEnd, FileStarts
  <1> HIDE DEF n, first, w
  <1>10. Starts(n, first, w) \in [0 .. n -> Nat]
    BY <1>8, StartsAre
  <1> QED BY <1>8, <1>9, <1>10

\* A line of the model's digest is not a unit: it has three parts.
LEMMA LineIsNoUnit == ASSUME NEW a, NEW b, NEW c PROVE <<a, b, c>> # Magic
  <1>1. DOMAIN <<a, b, c>> = 1 .. 3
    OBVIOUS
  <1>2. DOMAIN Magic = {"kind", "nums", "string", "units"}
    BY DEF Magic, Str, Unit
  <1>3. Cardinality(1 .. 3) = 3
    <2>1. 1 \in Int /\ 3 \in Int
      OBVIOUS
    <2>2. Cardinality(1 .. 3) = IF 1 > 3 THEN 0 ELSE (3 - 1) + 1
      BY <2>1, FS_Interval
    <2> QED BY <2>2
  <1>4. Cardinality({"kind", "nums", "string", "units"}) = 4
    <2> DEFINE A == {"kind"}
               B == {"kind", "nums"}
               C == {"kind", "nums", "string"}
    <2>1. IsFiniteSet(A) /\ Cardinality(A) = 1
      BY FS_Singleton
    <2>2. IsFiniteSet(B) /\ Cardinality(B) = 2
      <3>1. B = A \union {"nums"} /\ "nums" \notin A
        OBVIOUS
      <3> HIDE DEF A, B
      <3> QED BY <2>1, <3>1, FS_AddElement
    <2>3. IsFiniteSet(C) /\ Cardinality(C) = 3
      <3>1. C = B \union {"string"} /\ "string" \notin B
        OBVIOUS
      <3> HIDE DEF B, C
      <3> QED BY <2>2, <3>1, FS_AddElement
    <2>4. {"kind", "nums", "string", "units"} = C \union {"units"} /\ "units" \notin C
      OBVIOUS
    <2> HIDE DEF C
    <2> QED BY <2>3, <2>4, FS_AddElement
  <1> QED BY <1>1, <1>2, <1>3, <1>4

\* A digest of units that was written is that of the model, or the last one.
LEMMA DigestsOfUnits ==
    ASSUME NEW m, Whole(m), NEW d \in Range(EncodeBinary(m)), d.units # <<>>
    PROVE  d = m.model.digest \/ d = SumOf(EncodeBody(m))
  <1> DEFINE U == UnitsOver(NumbersOf(m), Options, DigestsOf(m))
             x == EncodeBody(m)
             s == SumOf(x)
             w == EncodeBinary(m)
  <1>1. Kept(NumbersOf(m), Options, DigestsOf(m)) /\ Written(m, NumbersOf(m), Options, DigestsOf(m))
    BY WholeIsKept DEF Whole
  <1>2. x \in Seq(U)
    BY <1>1, BodyIsUnits
  <1>3. ASSUME NEW e \in U, e.units # <<>> PROVE e = m.model.digest
    <2>1. /\ \A n : Num(n).units = <<>>
          /\ \A t : Str(t).units = <<>>
          /\ \A o : Sizes(o).units = <<>>
          /\ Magic.units = <<>> /\ Algorithms.units = <<>>
      BY DEF Num, Str, Sizes, Magic, Algorithms, Unit
    <2>2. e \in DigestsOf(m)
      BY <1>3, <2>1 DEF UnitsOver
    <2> QED BY <1>3, <2>2 DEF Whole
  <1>4. w = Append(x, s)
    BY DEF EncodeBinary
  <1>5. PICK i \in DOMAIN w : d = w[i]
    BY DEF Range
  <1>6. CASE d \in U
    BY <1>3, <1>6
  <1>7. CASE d \notin U
    <2> HIDE DEF U, x, s, w
    <2>1. Len(x) \in Nat /\ x \in Seq(U \union {s}) /\ s \in U \union {s}
      BY <1>2
    <2>2. /\ DOMAIN w = 1 .. Len(x) + 1
          /\ w[Len(x) + 1] = s /\ \A k \in 1 .. Len(x) : w[k] = x[k]
      BY <1>4, <2>1
    <2>3. CASE i \in 1 .. Len(x)
      BY <1>2, <1>5, <1>7, <2>2, <2>3
    <2>4. CASE i = Len(x) + 1
      BY <1>5, <2>2, <2>4 DEF s, x
    <2> QED BY <1>5, <2>1, <2>2, <2>3, <2>4
  <1> QED BY <1>6, <1>7

\* What is read, whatever it was, is what was written: only the last unit is the
\* digest of units that begin as a manifest does.
LEMMA ReadIsWritten ==
    ASSUME NEW m, Whole(m), NEW V, NEW u \in Seq(V), HoldsNumbers(u),
           \A i \in DOMAIN u : u[i].units # <<>> => u[i] \in Range(EncodeBinary(m)),
           u # <<>>, u[1] = Magic, Readable(u), BodyEnd(u) < Len(u),
           u[BodyEnd(u) + 1] = SumOf(SubSeq(u, 1, BodyEnd(u)))
    PROVE  /\ Len(EncodeBinary(m)) = BodyEnd(u) + 1 /\ BodyEnd(u) \in Nat
           /\ EncodeBinary(m) = SubSeq(u, 1, BodyEnd(u) + 1)
  <1> DEFINE e == BodyEnd(u)
             b == SubSeq(u, 1, e)
             x == EncodeBody(m)
             w == EncodeBinary(m)
             d == u[e + 1]
  <1>1. e \in Nat
    BY BodyEndsSomewhere
  <1>2. /\ e < Len(u) /\ d = SumOf(b) /\ b = SubSeq(u, 1, e) /\ w = Append(x, SumOf(x))
        /\ Len(u) \in Nat
    BY DEF EncodeBinary
  <1>3. /\ \A y : SumOf(y).units = y /\ SumOf(y).kind = "digest"
        /\ Magic.kind = "str"
    BY DEF SumOf, Magic, Str, Unit
  <1>4. ASSUME d \in Range(w), d.units # <<>> PROVE d = m.model.digest \/ d = SumOf(x)
    BY <1>4, DigestsOfUnits
  <1>5. \A i \in DOMAIN u : u[i].units # <<>> => u[i] \in Range(w)
    OBVIOUS
  <1> HIDE DEF e, w
  <1>6. /\ b \in Seq(V) /\ Len(b) = e /\ \A k \in 1 .. e : b[k] = u[k]
    <2>1. SubSeq(u, 1, e) = [i \in 1 .. e |-> u[(1 + i) - 1]]
      BY <1>1, <1>2, SubSeqProperties
    <2>2. \A i \in 1 .. e : (1 + i) - 1 = i /\ i \in DOMAIN u
      BY <1>1, <1>2
    <2>3. b = [i \in 1 .. e |-> u[i]]
      BY <2>1, <2>2
    <2>4. \A i \in 1 .. e : u[i] \in V
      BY <2>2
    <2> HIDE DEF b
    <2> QED BY <1>1, <2>3, <2>4
  <1>7. e # 0
    BY <1>2, <1>3
  <1> HIDE DEF b, x
  <1>8. b # <<>> /\ 1 \in DOMAIN b /\ b[1] = Magic
    BY <1>1, <1>6, <1>7
  <1>9. d.units = b /\ e + 1 \in DOMAIN u
    <2>1. e + 1 \in DOMAIN u
      BY <1>1, <1>2
    <2> HIDE DEF d
    <2>2. d.units = b
      BY <1>2, <1>3
    <2> QED BY <2>1, <2>2
  <1>10. d = m.model.digest \/ d = SumOf(x)
    BY <1>4, <1>5, <1>8, <1>9
  <1>11. d # m.model.digest
    <2> SUFFICES ASSUME d = m.model.digest PROVE FALSE
      OBVIOUS
    <2> DEFINE lines == [i \in DOMAIN m.files |-> <<m.files[i].path, m.files[i].size, m.files[i].digest>>]
    <2>1. m.model.digest = SumOf(lines)
      BY DEF Whole, ModelDigest
    <2>2. SumOf(lines).units = lines
      BY <1>3
    <2>3. b = lines
      BY <1>9, <2>1, <2>2
    <2>4. 1 \in DOMAIN m.files
      BY <1>8, <2>3
    <2>5. b[1] = <<m.files[1].path, m.files[1].size, m.files[1].digest>>
      BY <2>3, <2>4
    <2> QED BY <1>8, <2>5, LineIsNoUnit
  <1>12. x = b
    <2>1. SumOf(x).units = x
      BY <1>3
    <2> QED BY <1>9, <1>10, <1>11, <2>1
  <1>13. w = Append(b, d)
    BY <1>2, <1>12
  <1>14. d \in V
    BY <1>9
  <1>15. SubSeq(u, 1, e + 1) = Append(b, d)
    <2>1. SubSeq(u, 1, e + 1) = [i \in 1 .. e + 1 |-> u[(1 + i) - 1]]
      BY <1>1, <1>2, SubSeqProperties
    <2>2. \A i \in 1 .. e + 1 : (1 + i) - 1 = i
      BY <1>1
    <2>3. SubSeq(u, 1, e + 1) = [i \in 1 .. e + 1 |-> u[i]]
      BY <2>1, <2>2
    <2>4. Append(b, d) = [i \in 1 .. e + 1 |-> IF i = e + 1 THEN d ELSE b[i]]
      <3> DEFINE a == Append(b, d)
      <3> HIDE DEF d
      <3>1. /\ a \in Seq(V) /\ Len(a) = e + 1 /\ a[e + 1] = d
            /\ \A i \in 1 .. e : a[i] = b[i]
        BY <1>1, <1>6, <1>14
      <3> HIDE DEF a
      <3>2. a = [i \in 1 .. e + 1 |-> a[i]]
        BY <1>1, <3>1
      <3>3. \A i \in 1 .. e + 1 : a[i] = IF i = e + 1 THEN d ELSE b[i]
        BY <1>1, <3>1
      <3> QED BY <3>2, <3>3 DEF a
    <2>5. \A i \in 1 .. e + 1 : u[i] = IF i = e + 1 THEN d ELSE b[i]
      BY <1>1, <1>6
    <2> QED BY <2>3, <2>4, <2>5
  <1>16. Len(Append(b, d)) = e + 1
    <2> HIDE DEF d
    <2> QED BY <1>6, <1>14
  <1> QED BY <1>1, <1>13, <1>15, <1>16 DEF e, w

\* What may become of a copy: whatever is read as a number is one, and what is a
\* digest of other units has been written; no harm makes up the digest of what
\* it did.  The manifest itself is within the limits.
CopyIsOfUnits ==
    pc = "copied" =>
        /\ WithinLimits(doc) /\ wire \in Seq(Range(wire)) /\ HoldsNumbers(wire)
        /\ \A i \in DOMAIN wire : wire[i].units # <<>> => wire[i] \in Range(EncodeBinary(doc))

\* What is copied is whole.
CopiedOK == pc = "copied" => Whole(doc)

\* Every step keeps it.
LEMMA CopiedStays ==
    DescribeInv /\ ShapesOK /\ CopiedOK /\ [DescribeNext]_describeVars => CopiedOK'
  <1> SUFFICES ASSUME DescribeInv, ShapesOK, CopiedOK, [DescribeNext]_describeVars
               PROVE  CopiedOK'
    OBVIOUS
  <1>1. CASE Copy
    <2>1. pc = "built" /\ doc' = doc
      BY <1>1 DEF Copy, building
    <2>2. Whole(doc)
      BY <2>1, DocIsWhole DEF HasDoc
    <2> QED BY <2>1, <2>2 DEF CopiedOK
  <1>2. CASE UNCHANGED describeVars
    BY <1>2 DEF describeVars, building, CopiedOK
  <1>3. CASE EntryEnds \/ ChunkerStep \/ \E p \in DOMAIN listing : Edit(p) \/ HashEntry(p)
    <2>1. pc' # "copied"
      BY <1>3 DEF EntryEnds, ChunkerStep, Edit, HashEntry
    <2> QED BY <2>1 DEF CopiedOK
  <1>4. CASE Begin \/ BuildFails \/ BuildEnds \/ SaveBegins \/ SaveWrites \/ SaveSyncs
               \/ SaveRenames \/ SaveFails \/ PowerLoss
    <2>1. pc' # "copied"
      BY <1>4 DEF Begin, BuildFails, BuildEnds, SaveBegins, SaveWrites, SaveSyncs,
                  SaveRenames, SaveFails, PowerLoss
    <2> QED BY <2>1 DEF CopiedOK
  <1> QED BY <1>1, <1>2, <1>3, <1>4 DEF DescribeNext

\* A damaged copy of a binary manifest is refused by the digest at its end
\* (binary.go:371-378): what is read is what was written, and it is read exactly
\* if the copy begins with all of it.
THEOREM DamageIsNoticed == DescribeSpec => [](CopyIsOfUnits => DamageIsTold)
  <1>1. CopiedOK => (CopyIsOfUnits => DamageIsTold)
    <2> SUFFICES ASSUME CopiedOK, CopyIsOfUnits, pc = "copied"
                 PROVE  ReadUnits(wire) =
                          IF SubSeq(wire, 1, AtMost(Len(EncodeBinary(doc)), Len(wire))) = EncodeBinary(doc)
                          THEN doc ELSE Nil
      BY DEF DamageIsTold
    <2> DEFINE w == EncodeBinary(doc)
               u == wire
               k == AtMost(Len(w), Len(u))
    <2>1. /\ Whole(doc) /\ WithinLimits(doc) /\ u \in Seq(Range(u)) /\ HoldsNumbers(u)
          /\ \A i \in DOMAIN u : u[i].units # <<>> => u[i] \in Range(w)
      BY DEF CopiedOK, CopyIsOfUnits
    <2>2. Len(w) \in Nat
      <3>1. PICK V : w \in Seq(V)
        BY <2>1, EncodedUnits
      <3> HIDE DEF w
      <3> QED BY <3>1
    <2>3. Len(u) \in Nat
      BY <2>1
    <2>4. CASE SubSeq(u, 1, k) = w
      <3>1. k \in Nat /\ k <= Len(u) /\ k <= Len(w)
        <4> HIDE DEF w, u
        <4> QED BY <2>2, <2>3 DEF AtMost
      <3>2. Len(SubSeq(u, 1, k)) = k
        <4> HIDE DEF w, k, u
        <4> QED BY <2>1, <2>3, <3>1, SubSeqProperties
      <3>3. k = Len(w)
        BY <2>4, <3>2
      <3>4. SubSeq(u, 1, Len(w)) = w /\ Len(w) <= Len(u)
        <4> HIDE DEF w, k, u
        <4> QED BY <2>4, <3>1, <3>3
      <3>5. ReadUnits(u) = doc
        <4> DEFINE R == Range(u)
        <4>1. u \in Seq(R)
          BY <2>1
        <4> HIDE DEF R, u
        <4> QED BY <2>1, <3>4, <4>1, ReadsAsWritten
      <3> QED BY <2>4, <3>5
    <2>5. CASE SubSeq(u, 1, k) # w
      <3> DEFINE e == BodyEnd(u)
      <3>1. ~ (/\ u # <<>> /\ u[1] = Magic /\ Readable(u) /\ e < Len(u)
               /\ u[e + 1] = SumOf(SubSeq(u, 1, e)))
        <4> SUFFICES ASSUME u # <<>>, u[1] = Magic, Readable(u), e < Len(u),
                            u[e + 1] = SumOf(SubSeq(u, 1, e))
                     PROVE  FALSE
          OBVIOUS
        <4> DEFINE R == Range(u)
        <4>1. u \in Seq(R)
          BY <2>1
        <4> HIDE DEF R, u
        <4>2. Len(w) = e + 1 /\ e \in Nat /\ w = SubSeq(u, 1, e + 1)
          BY <2>1, <4>1, ReadIsWritten
        <4> HIDE DEF e, w
        <4>3. k = Len(w)
          BY <2>2, <2>3, <4>2 DEF AtMost
        <4> QED BY <2>5, <4>2, <4>3
      <3>2. ReadUnits(u) = Nil
        <4> HIDE DEF u
        <4> QED BY <3>1 DEF ReadUnits, DecodeBinary
      <3> QED BY <2>5, <3>2
    <2> QED BY <2>4, <2>5
  <1>2. DescribeInit => ShapesOK /\ CopiedOK
    BY DEF DescribeInit, ShapesOK, CopiedOK
  <1> QED BY <1>1, <1>2, DescribeInvariance, ShapesStay, CopiedStays, PTL DEF DescribeSpec
=============================================================================
