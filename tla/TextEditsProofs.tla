-------------------------- MODULE TextEditsProofs --------------------------
(***************************************************************************)
(* What the edits of TextEdits do, for texts of any length.  Everything    *)
(* rests on Stepwise, the induction on the numbers up to a bound, as a     *)
(* fact about sets, and on Pieces: where the parts of a flattened sequence *)
(* of texts stand in the result.  For diffs, the parser holds at any line  *)
(* what the lines so far say, and the cursor, which goes forward, meets    *)
(* the hunks done by hand, from the last one back.                         *)
(***************************************************************************)
EXTENDS TextEdits, WellFoundedInduction, SequenceTheorems, FiniteSetTheorems, TLAPS

-----------------------------------------------------------------------------
(* Numbers up to a bound, and functions defined along them *)

LEMMA Stepwise ==
  ASSUME NEW N \in Nat, NEW T, 0 \in T, \A n \in 1..N : n - 1 \in T => n \in T
  PROVE  \A n \in 0..N : n \in T
<1>. DEFINE Bad == {n \in 0..N : n \notin T}
<1>1. SUFFICES ASSUME Bad # {} PROVE FALSE
  OBVIOUS
<1>2. PICK n \in Bad : \A m \in Bad : ~(m < n)
  <2>1. Bad \subseteq Nat
    OBVIOUS
  <2>2. \E n \in Bad : \A m \in Bad : ~(<<m, n>> \in OpToRel(<, Nat))
    BY <1>1, <2>1, NatLessThanWellFounded, WFMin
  <2>. QED  BY <2>1, <2>2 DEF OpToRel
<1>3. n \in 1..N /\ n - 1 \in 0..N /\ n - 1 < n
  BY <1>2
<1>4. n - 1 \in T
  BY <1>2, <1>3
<1>. QED  BY <1>2, <1>3, <1>4

Steps(N, D) == [1..N -> [D -> D]]

LEMMA Recursion ==
  ASSUME NEW N \in Nat, NEW D, NEW base \in D, NEW step \in Steps(N, D)
  PROVE  \E f \in [0..N -> D] : f[0] = base /\ \A n \in 1..N : f[n] = step[n][f[n - 1]]
<1>. DEFINE Good(f, m) == f[0] = base /\ \A n \in 1..m : f[n] = step[n][f[n - 1]]
            T == {m \in 0..N : \E f \in [0..m -> D] : Good(f, m)}
<1>1. 0 \in T
  <2>1. PICK f : f = [i \in 0..0 |-> base]
    OBVIOUS
  <2>2. f \in [0..0 -> D] /\ Good(f, 0)
    BY <2>1
  <2>. HIDE DEF Good
  <2>. QED  BY <2>2
<1>2. ASSUME NEW m \in 1..N, m - 1 \in T PROVE m \in T
  <2>1. PICK f \in [0..(m - 1) -> D] : Good(f, m - 1)
    BY <1>2
  <2>. DEFINE g == [i \in 0..m |-> IF i = m THEN step[m][f[m - 1]] ELSE f[i]]
  <2>2. f[m - 1] \in D /\ step[m][f[m - 1]] \in D
    BY <2>1 DEF Steps
  <2>3. g \in [0..m -> D]
    BY <2>1, <2>2
  <2>4. g[0] = base
    BY <2>1
  <2>5. ASSUME NEW n \in 1..m PROVE g[n] = step[n][g[n - 1]]
    <3>1. n - 1 \in 0..m /\ n - 1 # m /\ g[n - 1] = f[n - 1]
      OBVIOUS
    <3>2. CASE n = m
      BY <3>1, <3>2
    <3>3. CASE n # m
      <4>1. n \in 1..(m - 1) /\ g[n] = f[n]
        BY <3>3
      <4>. QED  BY <2>1, <3>1, <4>1
    <3>. QED  BY <3>2, <3>3
  <2>. HIDE DEF g
  <2>6. Good(g, m)
    BY <2>4, <2>5
  <2>. QED  BY <2>3, <2>6
<1>. HIDE DEF T
<1>3. N \in T
  <2>1. \A n \in 0..N : n \in T
    BY <1>1, <1>2, Stepwise
  <2>. QED  BY <2>1
<1>4. PICK f \in [0..N -> D] : Good(f, N)
  <2>. HIDE DEF Good
  <2>. QED  BY <1>3 DEF T
<1>. QED  BY <1>4

(* A run of a machine whose reachable states are given step by step. *)
Run(N, D, start, moves) ==
  {f \in [0..N -> D] : f[0] = start /\ \A n \in 1..N : f[n] \in moves[n][f[n - 1]]}

Reach(N, D, start, moves) == {f[N] : f \in Run(N, D, start, moves)}

Stages(after, N, D, start, moves) ==
  /\ N \in Nat /\ start \in D /\ moves \in [1..N -> [D -> SUBSET D]]
  /\ after[0] = {start}
  /\ \A n \in 1..N : after[n - 1] \subseteq D =>
       \A x \in after[n] : \E s \in after[n - 1] : x \in moves[n][s]

LEMMA Runs ==
  ASSUME NEW N, NEW D, NEW start, NEW moves, NEW after, Stages(after, N, D, start, moves)
  PROVE  after[N] \subseteq Reach(N, D, start, moves)
<1>. DEFINE Led(m) == /\ after[m] \subseteq D
                      /\ \A x \in after[m] : \E f \in Run(m, D, start, moves) : f[m] = x
            T == {m \in 0..N : Led(m)}
<1>0. /\ N \in Nat /\ start \in D /\ moves \in [1..N -> [D -> SUBSET D]]
      /\ after[0] = {start} /\ \A n \in 1..N : after[n - 1] \subseteq D =>
           \A x \in after[n] : \E s \in after[n - 1] : x \in moves[n][s]
  BY DEF Stages
<1>1. 0 \in T
  <2>1. PICK f : f = [i \in 0..0 |-> start]
    OBVIOUS
  <2>2. f \in [0..0 -> D] /\ f[0] = start /\ \A n \in 1..0 : FALSE
    BY <1>0, <2>1
  <2>3. f \in Run(0, D, start, moves)
    BY <2>2 DEF Run
  <2>. QED  BY <1>0, <2>2, <2>3
<1>2. ASSUME NEW m \in 1..N, m - 1 \in T PROVE m \in T
  <2>0. /\ \A x \in after[m] : \E s \in after[m - 1] : x \in moves[m][s]
        /\ after[m - 1] \subseteq D
    BY <1>0, <1>2
  <2>1. ASSUME NEW x \in after[m] PROVE \E f \in Run(m, D, start, moves) : f[m] = x
    <3>1. PICK s \in after[m - 1] : x \in moves[m][s]
      BY <2>0
    <3>2. PICK g \in Run(m - 1, D, start, moves) : g[m - 1] = s
      BY <1>2
    <3>3. /\ g \in [0..(m - 1) -> D] /\ g[0] = start
          /\ \A n \in 1..(m - 1) : g[n] \in moves[n][g[n - 1]]
      BY <3>2 DEF Run
    <3>4. s \in D
      BY <3>2, <3>3
    <3>5. x \in D
      BY <1>0, <1>2, <3>1, <3>4
    <3>6. PICK f : f = [i \in 0..m |-> IF i = m THEN x ELSE g[i]]
      OBVIOUS
    <3>7. f \in [0..m -> D] /\ f[m] = x /\ f[0] = start
      BY <3>3, <3>5, <3>6
    <3>8. ASSUME NEW n \in 1..m PROVE f[n] \in moves[n][f[n - 1]]
      <4>1. n - 1 \in 0..m /\ n - 1 # m /\ f[n - 1] = g[n - 1]
        BY <3>6
      <4>2. CASE n = m
        BY <3>1, <3>2, <3>7, <4>1, <4>2
      <4>3. CASE n # m
        <5>1. n \in 1..(m - 1) /\ f[n] = g[n]
          BY <3>6, <4>3
        <5>. QED  BY <3>3, <4>1, <5>1
      <4>. QED  BY <4>2, <4>3
    <3>. QED  BY <3>7, <3>8 DEF Run
  <2>2. after[m] \subseteq D
    BY <1>0, <1>2, <2>0
  <2>. QED  BY <2>1, <2>2
<1>. HIDE DEF T
<1>3. N \in T
  <2>1. \A m \in 0..N : m \in T
    BY <1>0, <1>1, <1>2, Stepwise
  <2>. QED  BY <1>0, <2>1
<1>. QED  BY <1>3 DEF T, Reach

-----------------------------------------------------------------------------
(* Flattening *)

(* The flattenings of the prefixes of ss: each adds one piece to the last. *)
Flattenings(ss, S) ==
  {F \in [0..Len(ss) -> Seq(S)] :
     /\ F[0] = <<>>
     /\ \A n \in 1..Len(ss) : F[n] = F[n - 1] \o ss[n]
     /\ \A k \in 0..Len(ss) : FlattenSeq(SubSeq(ss, 1, k)) = F[k]}

LEMMA Flattening ==
  ASSUME NEW S, NEW ss \in Seq(Seq(S))
  PROVE  Flattenings(ss, S) # {}
<1>. DEFINE N == Len(ss)
<1>1. N \in Nat /\ DOMAIN ss = 1..N /\ \A n \in 1..N : ss[n] \in Seq(S)
  BY LenProperties
<1>. HIDE DEF N
<1>. DEFINE step == [n \in 1..N |-> [s \in Seq(S) |-> s \o ss[n]]]
<1>2. step \in [1..N -> [Seq(S) -> Seq(S)]] /\ <<>> \in Seq(S)
  BY <1>1, ConcatProperties, EmptySeq
<1>3. PICK F \in [0..N -> Seq(S)] : F[0] = <<>> /\ \A n \in 1..N : F[n] = step[n][F[n - 1]]
  <2>. HIDE DEF step
  <2>1. PICK add, D, empty : add = step /\ D = Seq(S) /\ empty = <<>>
    OBVIOUS
  <2>2. empty \in D /\ add \in Steps(N, D)
    BY <1>2, <2>1 DEF Steps
  <2>3. \E F \in [0..N -> D] : F[0] = empty /\ \A n \in 1..N : F[n] = add[n][F[n - 1]]
    BY <1>1, <2>2, Recursion
  <2>. QED  BY <2>1, <2>3
<1>4. ASSUME NEW n \in 1..N PROVE F[n] = F[n - 1] \o ss[n]
  <2>1. n - 1 \in 0..N /\ F[n - 1] \in Seq(S)
    BY <1>1, <1>3
  <2>2. step[n][F[n - 1]] = F[n - 1] \o ss[n]
    BY <2>1
  <2>. QED  BY <1>3, <2>2
<1>. HIDE DEF step
<1>5. ASSUME NEW k \in 0..N PROVE FlattenSeq(SubSeq(ss, 1, k)) = F[k]
  <2>. DEFINE s == SubSeq(ss, 1, k)
  <2>1. s \in Seq(Seq(S)) /\ Len(s) = k /\ \A i \in 1..k : s[i] = ss[i]
    BY <1>1, SubSeqProperties
  <2>2. CASE k = 0
    <3>1. s = <<>>
      BY <2>1, <2>2, EmptySeq
    <3>2. FlattenSeq(s) = s
      BY <2>1, <2>2 DEF FlattenSeq
    <3>. QED  BY <1>3, <2>2, <3>1, <3>2
  <2>3. CASE k # 0
    <3>. HIDE DEF s
    <3>0. ASSUME NEW n \in 1..k PROVE F[n] = F[n - 1] \o s[n] /\ s[n] \in Seq(S) /\ n \in 1..N
      <4>1. n \in 1..N /\ s[n] = ss[n]
        BY <1>1, <2>1
      <4>. QED  BY <1>1, <1>4, <4>1
    <3>. DEFINE Body(f) == [i \in 1..k |-> IF i = 1 THEN s[i] ELSE f[i - 1] \o s[i]]
                flat == CHOOSE f : f = Body(f)
                G == [i \in 1..k |-> F[i]]
    <3>1. FlattenSeq(s) = flat[k]
      BY <2>1, <2>3 DEF FlattenSeq
    <3>2. G = Body(G)
      <4>1. ASSUME NEW i \in 1..k PROVE F[i] = IF i = 1 THEN s[i] ELSE G[i - 1] \o s[i]
        <5>1. F[i] = F[i - 1] \o s[i] /\ s[i] \in Seq(S)
          BY <3>0
        <5>2. CASE i = 1
          <6>0. i - 1 = 0
            BY <5>2
          <6>1. F[i] = <<>> \o s[i]
            BY <1>3, <5>1, <6>0, Zenon
          <6>. QED  BY <5>1, <5>2, <6>1, ConcatEmptySeq
        <5>3. CASE i # 1
          <6>1. i - 1 \in 1..k /\ G[i - 1] = F[i - 1]
            BY <5>3
          <6>. HIDE DEF G
          <6>. QED  BY <5>1, <5>3, <6>1
        <5>. QED  BY <5>2, <5>3
      <4>2. G = [i \in 1..k |-> F[i]]
        OBVIOUS
      <4>. HIDE DEF G
      <4>. QED  BY <4>1, <4>2
    <3>3. flat = Body(flat)
      <4>. HIDE DEF G
      <4>. QED  BY <3>2
    <3>4. \A i \in 1..k : flat[i] = IF i = 1 THEN s[i] ELSE flat[i - 1] \o s[i]
      BY <3>3
    <3>. HIDE DEF flat, G
    <3>. DEFINE T == {n \in 0..k : n = 0 \/ flat[n] = F[n]}
    <3>5. 0 \in T
      OBVIOUS
    <3>6. ASSUME NEW n \in 1..k, n - 1 \in T PROVE n \in T
      <4>1. F[n] = F[n - 1] \o s[n] /\ s[n] \in Seq(S)
        BY <3>0
      <4>2. CASE n = 1
        <5>0. n - 1 = 0
          BY <4>2
        <5>1. F[n] = <<>> \o s[n]
          BY <1>3, <4>1, <5>0, Zenon
        <5>2. flat[n] = s[n]
          BY <3>4, <4>2
        <5>3. flat[n] = F[n]
          BY <4>1, <5>1, <5>2, ConcatEmptySeq
        <5>. QED  BY <5>3
      <4>3. CASE n # 1
        <5>0. n - 1 # 0
          BY <4>3
        <5>1. flat[n - 1] = F[n - 1]
          BY <3>6, <5>0, Zenon
        <5>2. flat[n] = flat[n - 1] \o s[n]
          BY <3>4, <4>3, Zenon
        <5>3. flat[n] = F[n] /\ n \in 0..k
          <6>1. n \in 0..k
            BY <1>1
          <6>. QED  BY <4>1, <5>1, <5>2, <6>1, Zenon
        <5>. QED  BY <5>3
      <4>. QED  BY <4>2, <4>3
    <3>. HIDE DEF T
    <3>7. k \in T
      <4>1. k \in Nat
        BY <1>1
      <4>2. \A n \in 1..k : n - 1 \in T => n \in T
        BY <3>6
      <4>3. \A n \in 0..k : n \in T
        BY <3>5, <4>1, <4>2, Stepwise
      <4>. QED  BY <4>1, <4>3
    <3>. QED  BY <2>3, <3>1, <3>7 DEF T, s
  <2>. QED  BY <2>2, <2>3
<1>. QED  BY <1>3, <1>4, <1>5 DEF N, Flattenings

(* Where the pieces of ss stand in the flattened sequence: the n-th begins   *)
(* behind o[n - 1] and ends at o[n].                                         *)
Places(ss, flat) ==
  {o \in [0..Len(ss) -> Nat] :
     /\ o[0] = 0 /\ o[Len(ss)] = Len(flat)
     /\ \A n \in 1..Len(ss) : /\ o[n] = o[n - 1] + Len(ss[n])
                              /\ \A k \in 1..Len(ss[n]) : flat[o[n - 1] + k] = ss[n][k]
     /\ \A i \in 1..Len(flat) : \E n \in 1..Len(ss) : o[n - 1] < i /\ i <= o[n]
     /\ \A n \in 0..Len(ss) : /\ o[n] <= Len(flat)
                              /\ FlattenSeq(SubSeq(ss, 1, n)) = SubSeq(flat, 1, o[n])}

LEMMA Pieces ==
  ASSUME NEW S, NEW ss \in Seq(Seq(S))
  PROVE  FlattenSeq(ss) \in Seq(S) /\ Places(ss, FlattenSeq(ss)) # {}
<1>. DEFINE N == Len(ss)
<1>1. N \in Nat /\ N \in 0..N /\ \A n \in 1..N : ss[n] \in Seq(S) /\ Len(ss[n]) \in Nat
  BY LenProperties
<1>2. PICK F \in [0..N -> Seq(S)] :
           /\ F[0] = <<>>
           /\ \A n \in 1..N : F[n] = F[n - 1] \o ss[n]
           /\ \A n \in 0..N : FlattenSeq(SubSeq(ss, 1, n)) = F[n]
  <2>1. PICK F : F \in Flattenings(ss, S)
    BY Flattening
  <2>. QED  BY <2>1 DEF Flattenings
<1>3. FlattenSeq(ss) = F[N]
  BY <1>1, <1>2, SubSeqFull
<1>. HIDE DEF N
<1>4. \A n \in 0..N : F[n] \in Seq(S) /\ Len(F[n]) \in Nat
  BY <1>2, LenProperties
<1>5. ASSUME NEW n \in 1..N
      PROVE  /\ n - 1 \in 0..N /\ n \in 0..N
             /\ Len(F[n]) = Len(F[n - 1]) + Len(ss[n])
             /\ \A i \in 1..Len(F[n - 1]) : F[n][i] = F[n - 1][i]
             /\ \A k \in 1..Len(ss[n]) : F[n][Len(F[n - 1]) + k] = ss[n][k]
  <2>1. n - 1 \in 0..N /\ n \in 0..N
    BY <1>1
  <2>2. F[n - 1] \in Seq(S) /\ ss[n] \in Seq(S) /\ Len(F[n - 1]) \in Nat /\ Len(ss[n]) \in Nat
    BY <1>1, <1>4, <2>1
  <2>c. PICK c : c = F[n]
    OBVIOUS
  <2>3. PICK a \in Seq(S), b \in Seq(S) : a = F[n - 1] /\ b = ss[n] /\ c = F[n]
    BY <2>2, <2>c
  <2>4. /\ Len(a \o b) = Len(a) + Len(b)
        /\ \A i \in 1..(Len(a) + Len(b)) : (a \o b)[i] = IF i <= Len(a) THEN a[i] ELSE b[i - Len(a)]
    BY <2>2, <2>3, ConcatProperties
  <2>5. c = a \o b
    BY <1>2, <2>3
  <2>6. Len(a) \in Nat /\ Len(b) \in Nat
    BY <2>2, <2>3
  <2>7. /\ \A i \in 1..Len(a) : c[i] = a[i]
        /\ \A k \in 1..Len(b) : c[Len(a) + k] = b[k]
    <3>1. PICK la \in Nat, lb \in Nat : la = Len(a) /\ lb = Len(b)
      BY <2>6
    <3>2. \A i \in 1..(la + lb) : c[i] = IF i <= la THEN a[i] ELSE b[i - la]
      BY <2>4, <2>5, <3>1
    <3>3. \A i \in 1..la : c[i] = a[i]
      BY <3>2
    <3>4. ASSUME NEW k \in 1..lb PROVE c[la + k] = b[k]
      <4>1. la + k \in 1..(la + lb) /\ ~(la + k <= la) /\ la + k - la = k
        OBVIOUS
      <4>. QED  BY <3>2, <4>1
    <3>. QED  BY <3>1, <3>3, <3>4
  <2>. QED  BY <2>1, <2>3, <2>4, <2>5, <2>7
<1>. DEFINE Extends(m) == \A n \in 0..m : /\ Len(F[n]) <= Len(F[m])
                                          /\ \A i \in 1..Len(F[n]) : F[m][i] = F[n][i]
            T == {m \in 0..N : Extends(m)}
<1>6. \A m \in 0..N : Extends(m)
  <2>1. 0 \in T
    <3>1. 0 \in 0..N /\ Len(F[0]) \in Nat
      BY <1>1, <1>4
    <3>2. ASSUME NEW n \in 0..0
          PROVE  Len(F[n]) <= Len(F[0]) /\ \A i \in 1..Len(F[n]) : F[0][i] = F[n][i]
      <4>1. n = 0
        OBVIOUS
      <4>. QED  BY <3>1, <4>1
    <3>3. Extends(0)
      BY <3>2
    <3>. HIDE DEF Extends
    <3>. QED  BY <3>1, <3>3
  <2>2. ASSUME NEW m \in 1..N, m - 1 \in T PROVE m \in T
    <3>1. Extends(m - 1)
      BY <2>2
    <3>2. m - 1 \in 0..N /\ m \in 0..N /\ Len(F[m - 1]) <= Len(F[m])
      <4>1. m - 1 \in 0..N /\ m \in 0..N /\ Len(F[m]) = Len(F[m - 1]) + Len(ss[m])
        BY <1>5
      <4>2. Len(ss[m]) \in Nat /\ Len(F[m]) \in Nat /\ Len(F[m - 1]) \in Nat
        BY <1>1, <1>4, <4>1
      <4>3. PICK x \in Nat, y \in Nat, z \in Nat :
              x = Len(F[m]) /\ y = Len(F[m - 1]) /\ z = Len(ss[m])
        BY <4>2
      <4>4. y <= x
        <5>1. x = y + z
          BY <4>1, <4>3
        <5>. QED  BY <5>1
      <4>. QED  BY <4>1, <4>3, <4>4
    <3>3. ASSUME NEW n \in 0..m
          PROVE  Len(F[n]) <= Len(F[m]) /\ \A i \in 1..Len(F[n]) : F[m][i] = F[n][i]
      <4>1. CASE n = m
        BY <1>4, <3>2, <4>1
      <4>2. CASE n # m
        <5>1. n \in 0..(m - 1) /\ n \in 0..N
          BY <1>1, <4>2
        <5>2. Len(F[n]) <= Len(F[m - 1]) /\ Len(F[n]) \in Nat /\ Len(F[m - 1]) \in Nat
          BY <1>4, <3>1, <3>2, <5>1
        <5>3. ASSUME NEW i \in 1..Len(F[n]) PROVE F[m][i] = F[n][i]
          <6>1. i \in 1..Len(F[m - 1])
            BY <5>2
          <6>2. F[m][i] = F[m - 1][i]
            BY <1>5, <6>1
          <6>3. F[m - 1][i] = F[n][i]
            BY <3>1, <5>1
          <6>. QED  BY <6>2, <6>3
        <5>. QED  BY <1>4, <3>2, <5>2, <5>3
      <4>. QED  BY <4>1, <4>2
    <3>. HIDE DEF Extends
    <3>4. Extends(m)
      BY <3>3 DEF Extends
    <3>. QED  BY <3>2, <3>4
  <2>. HIDE DEF T
  <2>3. \A m \in 0..N : m \in T
    BY <1>1, <2>1, <2>2, Stepwise
  <2>. HIDE DEF Extends
  <2>. QED  BY <2>3 DEF T
<1>. DEFINE Covers(m) == \A i \in 1..Len(F[m]) :
              \E n \in 1..m : Len(F[n - 1]) < i /\ i <= Len(F[n])
            U == {m \in 0..N : Covers(m)}
<1>7. Covers(N)
  <2>1. 0 \in U
    <3>1. Len(F[0]) = 0
      BY <1>2, EmptySeq
    <3>. QED  BY <1>1, <3>1
  <2>2. ASSUME NEW m \in 1..N, m - 1 \in U PROVE m \in U
    <3>1. Covers(m - 1) /\ m - 1 \in 0..N /\ m \in 0..N
      BY <1>1, <2>2
    <3>2. Len(F[m]) \in Nat /\ Len(F[m - 1]) \in Nat
      BY <1>4, <3>1
    <3>3. ASSUME NEW i \in 1..Len(F[m])
          PROVE  \E n \in 1..m : Len(F[n - 1]) < i /\ i <= Len(F[n])
      <4>1. CASE i <= Len(F[m - 1])
        <5>1. i \in 1..Len(F[m - 1])
          BY <3>2, <4>1
        <5>2. PICK n \in 1..(m - 1) : Len(F[n - 1]) < i /\ i <= Len(F[n])
          BY <3>1, <5>1
        <5>. QED  BY <5>2
      <4>2. CASE ~(i <= Len(F[m - 1]))
        BY <3>2, <4>2
      <4>. QED  BY <4>1, <4>2
    <3>. QED  BY <3>1, <3>3
  <2>. HIDE DEF U
  <2>3. \A m \in 0..N : m \in U
    BY <1>1, <2>1, <2>2, Stepwise
  <2>. HIDE DEF Covers
  <2>. QED  BY <1>1, <2>3 DEF U
<1>. HIDE DEF Extends, Covers
<1>8. PICK o : o = [n \in 0..N |-> Len(F[n])]
  OBVIOUS
<1>9. o \in [0..N -> Nat] /\ \A n \in 0..N : o[n] = Len(F[n])
  BY <1>4, <1>8
<1>10. o[0] = 0 /\ o[N] = Len(F[N])
  <2>1. Len(F[0]) = 0 /\ 0 \in 0..N
    BY <1>1, <1>2, EmptySeq
  <2>. QED  BY <1>1, <1>9, <2>1
<1>11. ASSUME NEW n \in 1..N
       PROVE  /\ o[n] = o[n - 1] + Len(ss[n])
              /\ \A k \in 1..Len(ss[n]) : F[N][o[n - 1] + k] = ss[n][k]
  <2>1. o[n] = Len(F[n]) /\ o[n - 1] = Len(F[n - 1]) /\ n \in 0..N /\ n - 1 \in 0..N
    BY <1>5, <1>9
  <2>2. Len(F[n - 1]) \in Nat /\ Len(F[n]) \in Nat /\ Len(ss[n]) \in Nat
    BY <1>1, <1>4, <2>1
  <2>3. ASSUME NEW k \in 1..Len(ss[n]) PROVE F[N][Len(F[n - 1]) + k] = ss[n][k]
    <3>1. Len(F[n - 1]) + k \in 1..Len(F[n])
      <4>1. Len(F[n]) = Len(F[n - 1]) + Len(ss[n])
        BY <1>5
      <4>2. PICK x \in Nat, y \in Nat, z \in Nat :
              x = Len(F[n]) /\ y = Len(F[n - 1]) /\ z = Len(ss[n])
        BY <2>2
      <4>3. y + k \in 1..x
        <5>1. x = y + z /\ k \in 1..z
          BY <4>1, <4>2
        <5>. QED  BY <5>1
      <4>. QED  BY <4>2, <4>3
    <3>2. F[N][Len(F[n - 1]) + k] = F[n][Len(F[n - 1]) + k]
      BY <1>1, <1>6, <2>1, <3>1 DEF Extends
    <3>. QED  BY <1>5, <3>2
  <2>. QED  BY <1>5, <2>1, <2>3
<1>12. ASSUME NEW i \in 1..Len(F[N]) PROVE \E n \in 1..N : o[n - 1] < i /\ i <= o[n]
  <2>1. PICK n \in 1..N : Len(F[n - 1]) < i /\ i <= Len(F[n])
    BY <1>7 DEF Covers
  <2>2. o[n - 1] = Len(F[n - 1]) /\ o[n] = Len(F[n])
    BY <1>5, <1>9
  <2>. QED  BY <2>1, <2>2
<1>13. ASSUME NEW n \in 0..N
       PROVE  o[n] <= Len(F[N]) /\ F[n] = SubSeq(F[N], 1, o[n])
  <2>1. o[n] = Len(F[n]) /\ F[n] \in Seq(S) /\ F[N] \in Seq(S) /\ Len(F[n]) \in Nat /\ Len(F[N]) \in Nat
    BY <1>1, <1>4, <1>9
  <2>2. n \in 0..N /\ Len(F[n]) <= Len(F[N]) /\ \A i \in 1..Len(F[n]) : F[N][i] = F[n][i]
    BY <1>1, <1>6 DEF Extends
  <2>3. PICK t, m : t = F[N] /\ m = Len(F[n])
    OBVIOUS
  <2>4. \A i \in 1..m : t[i] \in S
    BY <2>1, <2>2, <2>3, ElementOfSeq
  <2>5. /\ SubSeq(t, 1, m) \in Seq(S)
        /\ Len(SubSeq(t, 1, m)) = IF 1 <= m THEN m - 1 + 1 ELSE 0
        /\ \A i \in 1..(m - 1 + 1) : SubSeq(t, 1, m)[i] = t[1 + i - 1]
    BY <2>1, <2>3, <2>4, SubSeqProperties
  <2>6. Len(SubSeq(t, 1, m)) = m /\ \A i \in 1..m : SubSeq(t, 1, m)[i] = F[n][i]
    BY <2>1, <2>2, <2>3, <2>5
  <2>7. SubSeq(t, 1, m) = F[n]
    BY <2>1, <2>3, <2>5, <2>6, SeqEqual
  <2>. QED  BY <2>1, <2>2, <2>3, <2>7
<1>14. /\ F[N] \in Seq(S)
       /\ \A n \in 0..N : FlattenSeq(SubSeq(ss, 1, n)) = SubSeq(F[N], 1, o[n])
  BY <1>1, <1>2, <1>4, <1>13
<1>15. o \in Places(ss, F[N])
  BY <1>9, <1>10, <1>11, <1>12, <1>13, <1>14, Zenon DEF N, Places
<1>. QED  BY <1>3, <1>14, <1>15

LEMMA Slice ==
  ASSUME NEW S, NEW t \in Seq(S), NEW a \in 0..Len(t), NEW b \in 0..Len(t), a <= b
  PROVE  /\ SubSeq(t, a + 1, b) \in Seq(S) /\ Len(SubSeq(t, a + 1, b)) = b - a
         /\ \A k \in 1..(b - a) : SubSeq(t, a + 1, b)[k] = t[a + k]
<1>1. PICK L \in Nat : L = Len(t)
  BY LenProperties
<1>2. a \in 0..L /\ b \in 0..L
  BY <1>1
<1>3. \A i \in (a + 1)..b : t[i] \in S
  BY <1>1, <1>2, ElementOfSeq
<1>4. PICK m \in Int : m = a + 1
  BY <1>2
<1>5. /\ SubSeq(t, m, b) \in Seq(S)
      /\ Len(SubSeq(t, m, b)) = IF m <= b THEN b - m + 1 ELSE 0
      /\ \A k \in 1..(b - m + 1) : SubSeq(t, m, b)[k] = t[m + k - 1]
  BY <1>2, <1>3, <1>4, SubSeqProperties
<1>6. b - m + 1 = b - a /\ (~(m <= b) => b - a = 0)
  BY <1>2, <1>4
<1>7. Len(SubSeq(t, m, b)) = b - a
  BY <1>5, <1>6
<1>8. ASSUME NEW k \in 1..(b - a) PROVE SubSeq(t, m, b)[k] = t[a + k]
  <2>1. m + k - 1 = a + k /\ k \in 1..(b - m + 1)
    BY <1>2, <1>4, <1>6
  <2>2. SubSeq(t, m, b)[k] = t[m + k - 1]
    BY <1>5, <2>1
  <2>. QED  BY <2>1, <2>2, Zenon
<1>. QED  BY <1>4, <1>5, <1>7, <1>8

LEMMA FunctionsAreSequences ==
  ASSUME NEW S, NEW n \in Nat, NEW f \in [1..n -> S]
  PROVE  f \in Seq(S) /\ Len(f) = n /\ DOMAIN f = 1..n
  BY SeqDef

(* The pieces of a text, one for each character. *)
LEMMA OnePerCharacter ==
  ASSUME NEW S, NEW T, NEW t \in Seq(T), NEW ss, DOMAIN ss = DOMAIN t,
         ss = [i \in DOMAIN t |-> ss[i]], \A i \in DOMAIN t : ss[i] \in Seq(S)
  PROVE  ss \in Seq(Seq(S)) /\ Len(ss) = Len(t) /\ DOMAIN t = 1..Len(t) /\ Len(t) \in Nat
<1>1. DOMAIN t = 1..Len(t) /\ Len(t) \in Nat
  BY LenProperties
<1>2. PICK P : P = Seq(S)
  OBVIOUS
<1>3. ss \in [1..Len(t) -> P]
  BY <1>1, <1>2
<1>4. ss \in Seq(P) /\ Len(ss) = Len(t)
  BY <1>1, <1>3, FunctionsAreSequences
<1>. QED  BY <1>1, <1>2, <1>4

LEMMA FlattenEmpty == FlattenSeq(<<>>) = <<>>
<1>1. Len(<<>>) = 0
  BY EmptySeq
<1>. QED  BY <1>1 DEF FlattenSeq

LEMMA FlattenAppend ==
  ASSUME NEW S, NEW ss \in Seq(Seq(S)), NEW x \in Seq(S)
  PROVE  FlattenSeq(Append(ss, x)) = FlattenSeq(ss) \o x
<1>. DEFINE tt == Append(ss, x)
<1>1. /\ tt \in Seq(Seq(S)) /\ Len(tt) = Len(ss) + 1 /\ Len(ss) \in Nat
      /\ \A i \in 1..Len(ss) : tt[i] = ss[i]
      /\ tt[Len(ss) + 1] = x
  BY AppendProperties, LenProperties
<1>. HIDE DEF tt
<1>2. PICK F \in [0..Len(tt) -> Seq(S)] :
           /\ F[0] = <<>>
           /\ \A n \in 1..Len(tt) : F[n] = F[n - 1] \o tt[n]
           /\ \A k \in 0..Len(tt) : FlattenSeq(SubSeq(tt, 1, k)) = F[k]
  <2>1. Flattenings(tt, S) # {}
    BY <1>1, Flattening
  <2>. QED  BY <2>1 DEF Flattenings
<1>3. PICK n \in Nat : n = Len(ss)
  BY <1>1
<1>4. PICK m : m = n + 1 /\ m \in 1..Len(tt) /\ m \in 0..Len(tt) /\ n \in 0..Len(tt) /\ m - 1 = n
  BY <1>1, <1>3
<1>5. SubSeq(tt, 1, m) = tt
  BY <1>1, <1>3, <1>4, SubSeqFull
<1>6. SubSeq(tt, 1, n) = ss
  <2>1. \A i \in 1..n : tt[i] \in Seq(S)
    BY <1>1, <1>3, ElementOfSeq
  <2>2. /\ SubSeq(tt, 1, n) \in Seq(Seq(S))
        /\ Len(SubSeq(tt, 1, n)) = IF 1 <= n THEN n - 1 + 1 ELSE 0
        /\ \A i \in 1..(n - 1 + 1) : SubSeq(tt, 1, n)[i] = tt[1 + i - 1]
    BY <1>3, <2>1, SubSeqProperties
  <2>3. Len(SubSeq(tt, 1, n)) = n /\ \A i \in 1..n : SubSeq(tt, 1, n)[i] = ss[i]
    BY <1>1, <1>3, <2>2
  <2>. QED  BY <1>3, <2>2, <2>3, SeqEqual
<1>7. F[m] = F[n] \o x
  <2>1. F[m] = F[m - 1] \o tt[m]
    BY <1>2, <1>4, Zenon
  <2>2. tt[m] = x
    BY <1>1, <1>3, <1>4
  <2>. QED  BY <1>4, <2>1, <2>2, Zenon
<1>. QED  BY <1>2, <1>4, <1>5, <1>6, <1>7, Zenon DEF tt

-----------------------------------------------------------------------------
(* Characters and line breaks *)

Char == Letter \cup {LF, CR, SEP}
LFChar == Letter \cup {LF, SEP}

LEMMA Characters ==
  /\ LF # CR /\ LF # SEP /\ CR # SEP
  /\ CR \notin LFChar /\ LFChar \subseteq Char /\ LF \in LFChar /\ CR \in Char
  /\ \A c \in Char : c # CR => c \in LFChar
  /\ Text = Seq(Char) /\ LFText = Seq(LFChar)
BY TextAssumption DEF Char, LFChar, LF, CR, SEP, Text, LFText

LEMMA LFTextIsText ==
  ASSUME NEW t \in LFText
  PROVE  t \in Text
BY Characters, SeqMonotonic

LEMMA Singletons ==
  ASSUME NEW S, NEW c \in S
  PROVE  <<c>> \in Seq(S) /\ Len(<<c>>) = 1 /\ <<c>>[1] = c
  OBVIOUS

LEMMA PairOfSingletons ==
  ASSUME NEW S, NEW c \in S, NEW d \in S
  PROVE  <<c>> \in Seq(S) /\ <<d>> \in Seq(S) /\ <<c>> \o <<d>> = <<c, d>>
<1>1. PICK s \in Seq(S), t \in Seq(S) : s = <<c>> /\ t = <<d>>
  BY Singletons
<1>2. Len(s) = 1 /\ Len(t) = 1 /\ s[1] = c /\ t[1] = d
  BY <1>1, Singletons
<1>3. PICK u \in Seq(S) : u = s \o t
  BY ConcatProperties
<1>4. /\ Len(u) = 2
      /\ \A i \in 1..2 : u[i] = IF i <= 1 THEN s[i] ELSE t[i - 1]
  BY <1>2, <1>3, ConcatProperties
<1>5. u[1] = c /\ u[2] = d
  BY <1>2, <1>4
<1>6. <<c, d>> \in Seq(S) /\ Len(<<c, d>>) = 2 /\ <<c, d>>[1] = c /\ <<c, d>>[2] = d
  OBVIOUS
<1>7. \A i \in 1..2 : u[i] = <<c, d>>[i]
  BY <1>5, <1>6
<1>8. u = <<c, d>>
  BY <1>4, <1>6, <1>7, SeqEqual
<1>. QED  BY <1>1, <1>3, <1>8

LEMMA DecodedIsLF ==
  ASSUME NEW t \in Text
  PROVE  Decoded(t) \in LFText
<1>1. t \in Seq(Char)
  BY Characters
<1>. DEFINE ss == [i \in DOMAIN t |-> IF t[i] = CR THEN <<>> ELSE <<t[i]>>]
<1>2. ASSUME NEW i \in DOMAIN t PROVE ss[i] \in Seq(LFChar)
  <2>1. t[i] \in Char
    BY <1>1, LenProperties, ElementOfSeq
  <2>. QED  BY <2>1, Characters, EmptySeq, Singletons
<1>. HIDE DEF ss
<1>3. ss \in Seq(Seq(LFChar))
  <2>1. DOMAIN ss = DOMAIN t /\ ss = [i \in DOMAIN t |-> ss[i]]
    BY DEF ss
  <2>. QED  BY <1>1, <1>2, <2>1, OnePerCharacter
<1>4. FlattenSeq(ss) \in Seq(LFChar)
  BY <1>3, Pieces
<1>. QED  BY <1>4, Characters DEF ss, Decoded

LEMMA NormalizedIsLF ==
  ASSUME NEW t \in Text
  PROVE  Normalize(t) \in LFText
<1>1. t \in Seq(Char)
  BY Characters
<1>. DEFINE ss == [i \in DOMAIN t |->
                     CASE t[i] = LF /\ AfterCR(t, i) -> <<>>
                       [] t[i] = CR                  -> <<LF>>
                       [] OTHER                      -> <<t[i]>>]
<1>2. ASSUME NEW i \in DOMAIN t PROVE ss[i] \in Seq(LFChar)
  <2>1. t[i] \in Char
    BY <1>1, LenProperties, ElementOfSeq
  <2>2. <<LF>> \in Seq(LFChar) /\ <<>> \in Seq(LFChar)
    BY Characters, EmptySeq, Singletons
  <2>3. CASE t[i] = CR
    BY <2>2, <2>3, Characters
  <2>4. CASE t[i] # CR
    <3>1. t[i] \in LFChar
      BY <2>1, <2>4, Characters
    <3>2. <<t[i]>> \in Seq(LFChar)
      BY <3>1, Singletons
    <3>3. ss[i] = <<>> \/ ss[i] = <<t[i]>>
      BY <2>4
    <3>. QED  BY <2>2, <3>2, <3>3
  <2>. QED  BY <2>3, <2>4
<1>. HIDE DEF ss
<1>3. ss \in Seq(Seq(LFChar))
  <2>1. DOMAIN ss = DOMAIN t /\ ss = [i \in DOMAIN t |-> ss[i]]
    BY DEF ss
  <2>. QED  BY <1>1, <1>2, <2>1, OnePerCharacter
<1>4. FlattenSeq(ss) \in Seq(LFChar)
  BY <1>3, Pieces
<1>. QED  BY <1>4, Characters DEF ss, Normalize

LEMMA NormalizedEmpty == Normalize(<<>>) = <<>>
<1>1. DOMAIN <<>> = {}
  BY EmptySeq, LenProperties
<1>2. PICK ss : ss = [i \in DOMAIN <<>> |->
                        CASE <<>>[i] = LF /\ AfterCR(<<>>, i) -> <<>>
                          [] <<>>[i] = CR                     -> <<LF>>
                          [] OTHER                            -> <<<<>>[i]>>]
  OBVIOUS
<1>3. ss = <<>>
  BY <1>1, <1>2
<1>. QED  BY <1>2, <1>3, FlattenEmpty DEF Normalize

LEMMA NormalizedSome ==
  ASSUME NEW t \in Text, t # <<>>
  PROVE  Normalize(t) # <<>>
<1>1. t \in Seq(Char) /\ Len(t) \in Nat /\ Len(t) >= 1 /\ DOMAIN t = 1..Len(t)
  BY Characters, LenProperties, EmptySeq
<1>. DEFINE ss == [i \in DOMAIN t |->
                     CASE t[i] = LF /\ AfterCR(t, i) -> <<>>
                       [] t[i] = CR                  -> <<LF>>
                       [] OTHER                      -> <<t[i]>>]
<1>2. ASSUME NEW i \in DOMAIN t PROVE ss[i] \in Seq(Char)
  <2>1. t[i] \in Char
    BY <1>1, ElementOfSeq
  <2>2. <<LF>> \in Seq(Char) /\ <<>> \in Seq(Char) /\ <<t[i]>> \in Seq(Char)
    BY <2>1, Characters, EmptySeq, Singletons
  <2>3. ss[i] = <<>> \/ ss[i] = <<LF>> \/ ss[i] = <<t[i]>>
    OBVIOUS
  <2>. HIDE DEF ss
  <2>. QED  BY <2>2, <2>3
<1>3. Len(ss[1]) = 1
  <2>1. 1 \in DOMAIN t /\ ~AfterCR(t, 1)
    BY <1>1 DEF AfterCR
  <2>2. ss[1] = <<LF>> \/ ss[1] = <<t[1]>>
    BY <2>1
  <2>. HIDE DEF ss
  <2>3. PICK c : ss[1] = <<c>>
    BY <2>2
  <2>4. Len(<<c>>) = 1
    OBVIOUS
  <2>. QED  BY <2>3, <2>4
<1>4. DOMAIN ss = DOMAIN t /\ ss = [i \in DOMAIN t |-> ss[i]]
  OBVIOUS
<1>. HIDE DEF ss
<1>5. ss \in Seq(Seq(Char)) /\ 1 \in 1..Len(ss)
  <2>1. ss \in Seq(Seq(Char))
    BY <1>1, <1>2, <1>4, OnePerCharacter
  <2>2. DOMAIN ss = 1..Len(ss) /\ Len(ss) \in Nat
    BY <2>1, LenProperties
  <2>. QED  BY <1>1, <1>4, <2>1, <2>2
<1>6. PICK u : u = FlattenSeq(ss)
  OBVIOUS
<1>7. u \in Seq(Char) /\ Places(ss, u) # {}
  BY <1>5, <1>6, Pieces
<1>8. PICK o \in Places(ss, u) : TRUE
  BY <1>7
<1>9. o[0] = 0 /\ o[1] = o[1 - 1] + Len(ss[1]) /\ o[1] <= Len(u)
  <2>1. 1 \in 0..Len(ss)
    BY <1>5
  <2>. QED  BY <1>5, <2>1 DEF Places
<1>10. 1 <= Len(u)
  BY <1>3, <1>9
<1>11. u # <<>>
  BY <1>10
<1>. QED  BY <1>6, <1>11 DEF ss, Normalize

(* Induction over texts, again as a fact about sets. *)
LEMMA CharacterByCharacter ==
  ASSUME NEW S, NEW Q, <<>> \in Q,
         \A s \in Seq(S) : \A c \in S : s \in Q => Append(s, c) \in Q,
         NEW t \in Seq(S)
  PROVE  t \in Q
<1>1. PICK N \in Nat : N = Len(t) /\ DOMAIN t = 1..N
  BY LenProperties
<1>. DEFINE T == {n \in 0..N : SubSeq(t, 1, n) \in Q}
<1>2. 0 \in T
  <2>1. SubSeq(t, 1, 0) = <<>>
    BY SubSeqEmpty
  <2>2. SubSeq(t, 1, 0) \in Q
    BY <2>1, Zenon
  <2>. QED  BY <2>2
<1>3. ASSUME NEW n \in 1..N, n - 1 \in T PROVE n \in T
  <2>1. SubSeq(t, 1, n) = SubSeq(t, 1, n - 1) \o <<t[n]>>
    BY <1>1, SubSeqRecursiveSecond
  <2>2. t[n] \in S /\ \A i \in 1..(n - 1) : t[i] \in S
    BY <1>1, ElementOfSeq
  <2>3. SubSeq(t, 1, n - 1) \in Seq(S)
    BY <2>2, SubSeqProperties
  <2>4. Append(SubSeq(t, 1, n - 1), t[n]) = SubSeq(t, 1, n - 1) \o <<t[n]>>
    BY <2>2, <2>3, AppendIsConcat
  <2>5. SubSeq(t, 1, n - 1) \in Q
    BY <1>3
  <2>6. SubSeq(t, 1, n) \in Q
    BY <2>1, <2>2, <2>3, <2>4, <2>5
  <2>. QED  BY <2>6
<1>. HIDE DEF T
<1>4. \A n \in 0..N : n \in T
  BY <1>2, <1>3, Stepwise
<1>5. N \in T
  BY <1>4
<1>6. SubSeq(t, 1, N) \in Q
  BY <1>5 DEF T
<1>7. SubSeq(t, 1, N) = t
  BY <1>1, SubSeqFull
<1>. QED  BY <1>6, <1>7

(* A text in which each character is replaced by what g says. *)
Spelled(t, g) == FlattenSeq([i \in DOMAIN t |-> g[t[i]]])
Spellings(T, S) == [T -> Seq(S)]

LEMMA SpelledPieces ==
  ASSUME NEW S, NEW T, NEW t \in Seq(T), NEW g \in Spellings(T, S)
  PROVE  [i \in DOMAIN t |-> g[t[i]]] \in Seq(Seq(S))
<1>. DEFINE ss == [i \in DOMAIN t |-> g[t[i]]]
<1>1. DOMAIN ss = DOMAIN t /\ ss = [i \in DOMAIN t |-> ss[i]]
  OBVIOUS
<1>2. ASSUME NEW i \in DOMAIN t PROVE ss[i] \in Seq(S)
  <2>1. t[i] \in T
    BY LenProperties, ElementOfSeq
  <2>. QED  BY <2>1 DEF Spellings
<1>. HIDE DEF ss
<1>3. ss \in Seq(Seq(S))
  BY <1>1, <1>2, OnePerCharacter
<1>. QED  BY <1>3 DEF ss

LEMMA SpelledText ==
  ASSUME NEW S, NEW T, NEW t \in Seq(T), NEW g \in Spellings(T, S)
  PROVE  Spelled(t, g) \in Seq(S)
<1>1. PICK ss : ss = [i \in DOMAIN t |-> g[t[i]]]
  OBVIOUS
<1>2. ss \in Seq(Seq(S))
  BY <1>1, SpelledPieces
<1>3. FlattenSeq(ss) \in Seq(S)
  BY <1>2, Pieces
<1>. QED  BY <1>1, <1>3 DEF Spelled

LEMMA SpelledEmpty ==
  ASSUME NEW g
  PROVE  Spelled(<<>>, g) = <<>>
<1>1. [i \in DOMAIN <<>> |-> g[<<>>[i]]] = <<>>
  OBVIOUS
<1>. QED  BY <1>1, FlattenEmpty DEF Spelled

LEMMA SpelledAppend ==
  ASSUME NEW S, NEW T, NEW t \in Seq(T), NEW c \in T, NEW g \in Spellings(T, S)
  PROVE  Spelled(Append(t, c), g) = Spelled(t, g) \o g[c]
<1>1. PICK u : u = Append(t, c)
  OBVIOUS
<1>2. PICK ss : ss = [i \in DOMAIN t |-> g[t[i]]]
  OBVIOUS
<1>3. PICK tt : tt = [i \in DOMAIN u |-> g[u[i]]]
  OBVIOUS
<1>4. /\ u \in Seq(T) /\ Len(u) = Len(t) + 1 /\ Len(t) \in Nat
      /\ DOMAIN u = 1..Len(u) /\ DOMAIN t = 1..Len(t)
      /\ \A i \in 1..Len(t) : u[i] = t[i]
      /\ u[Len(t) + 1] = c
  BY <1>1, AppendProperties, LenProperties
<1>5. ss \in Seq(Seq(S)) /\ tt \in Seq(Seq(S)) /\ g[c] \in Seq(S)
  BY <1>2, <1>3, <1>4, SpelledPieces DEF Spellings
<1>6. PICK n \in Nat : n = Len(t)
  BY <1>4
<1>7. Len(ss) = n /\ Len(tt) = n + 1
  <2>1. DOMAIN ss = 1..n /\ DOMAIN tt = 1..(n + 1)
    BY <1>2, <1>3, <1>4, <1>6
  <2>2. DOMAIN ss = 1..Len(ss) /\ Len(ss) \in Nat /\ DOMAIN tt = 1..Len(tt) /\ Len(tt) \in Nat
    BY <1>5, LenProperties
  <2>3. PICK a \in Nat, b \in Nat : a = Len(ss) /\ b = Len(tt)
    BY <2>2
  <2>4. a = n /\ b = n + 1
    BY <2>1, <2>2, <2>3
  <2>. QED  BY <2>3, <2>4
<1>8. PICK P, x : P = Seq(S) /\ x = g[c]
  OBVIOUS
<1>9. tt = Append(ss, x)
  <2>1. /\ Append(ss, x) \in Seq(P) /\ Len(Append(ss, x)) = n + 1
        /\ \A i \in 1..n : Append(ss, x)[i] = ss[i]
        /\ Append(ss, x)[n + 1] = x
    BY <1>5, <1>7, <1>8, AppendProperties
  <2>2. ASSUME NEW i \in 1..(n + 1) PROVE tt[i] = Append(ss, x)[i]
    <3>1. tt[i] = g[u[i]]
      BY <1>3, <1>4, <1>6
    <3>2. CASE i = n + 1
      <4>1. u[i] = c
        BY <1>4, <1>6, <3>2
      <4>. QED  BY <1>8, <2>1, <3>1, <3>2, <4>1
    <3>3. CASE i # n + 1
      <4>1. i \in 1..n
        BY <3>3
      <4>2. u[i] = t[i] /\ ss[i] = g[t[i]]
        BY <1>2, <1>4, <1>6, <4>1
      <4>. QED  BY <2>1, <3>1, <4>1, <4>2
    <3>. QED  BY <3>2, <3>3
  <2>3. tt \in Seq(P)
    BY <1>5, <1>8
  <2>. QED  BY <1>7, <2>1, <2>2, <2>3, SeqEqual
<1>10. FlattenSeq(tt) = FlattenSeq(ss) \o x
  BY <1>5, <1>8, <1>9, FlattenAppend
<1>. QED  BY <1>1, <1>2, <1>3, <1>8, <1>10 DEF Spelled

-----------------------------------------------------------------------------
(* Reading and writing a style *)

Reading == [c \in Char |-> IF c = CR THEN <<>> ELSE <<c>>]
Writing(style) ==
  [c \in LFChar |-> IF c = LF /\ style = "crlf" THEN <<CR, LF>> ELSE <<c>>]

LEMMA ReadingAndWriting ==
  ASSUME NEW style
  PROVE  /\ Reading \in Spellings(Char, LFChar)
         /\ Writing(style) \in Spellings(LFChar, Char)
<1>1. ASSUME NEW c \in Char PROVE (IF c = CR THEN <<>> ELSE <<c>>) \in Seq(LFChar)
  BY Characters, EmptySeq, Singletons
<1>2. ASSUME NEW c \in LFChar
      PROVE  (IF c = LF /\ style = "crlf" THEN <<CR, LF>> ELSE <<c>>) \in Seq(Char)
  BY Characters
<1>. QED  BY <1>1, <1>2 DEF Spellings, Reading, Writing

LEMMA DecodedIsSpelled ==
  ASSUME NEW t \in Text
  PROVE  Decoded(t) = Spelled(t, Reading)
<1>1. ASSUME NEW i \in DOMAIN t
      PROVE  Reading[t[i]] = IF t[i] = CR THEN <<>> ELSE <<t[i]>>
  <2>1. t[i] \in Char
    BY Characters, LenProperties, ElementOfSeq
  <2>. QED  BY <2>1 DEF Reading
<1>2. [i \in DOMAIN t |-> Reading[t[i]]]
        = [i \in DOMAIN t |-> IF t[i] = CR THEN <<>> ELSE <<t[i]>>]
  BY <1>1
<1>. QED  BY <1>2 DEF Decoded, Spelled

LEMMA RenderIsSpelled ==
  ASSUME NEW u \in LFText, NEW style
  PROVE  Render(u, style) = Spelled(u, Writing(style))
<1>1. ASSUME NEW i \in DOMAIN u
      PROVE  Writing(style)[u[i]] = IF u[i] = LF /\ style = "crlf" THEN <<CR, LF>> ELSE <<u[i]>>
  <2>1. u[i] \in LFChar
    BY Characters, LenProperties, ElementOfSeq
  <2>. QED  BY <2>1 DEF Writing
<1>2. [i \in DOMAIN u |-> Writing(style)[u[i]]]
        = [i \in DOMAIN u |-> IF u[i] = LF /\ style = "crlf" THEN <<CR, LF>> ELSE <<u[i]>>]
  BY <1>1
<1>. QED  BY <1>2 DEF Render, Spelled

LEMMA DecodedAppend ==
  ASSUME NEW t \in Text, NEW c \in Char
  PROVE  Decoded(Append(t, c)) = IF c = CR THEN Decoded(t) ELSE Append(Decoded(t), c)
<1>1. t \in Seq(Char) /\ Append(t, c) \in Text /\ Decoded(t) \in Seq(LFChar)
  BY Characters, AppendProperties, DecodedIsLF
<1>2. Decoded(Append(t, c)) = Decoded(t) \o Reading[c]
  <2>1. Spelled(Append(t, c), Reading) = Spelled(t, Reading) \o Reading[c]
    <3>1. PICK g \in Spellings(Char, LFChar) : g = Reading
      BY ReadingAndWriting
    <3>2. Spelled(Append(t, c), g) = Spelled(t, g) \o g[c]
      BY <1>1, SpelledAppend
    <3>. QED  BY <3>1, <3>2
  <2>2. Decoded(t) = Spelled(t, Reading) /\ Decoded(Append(t, c)) = Spelled(Append(t, c), Reading)
    BY <1>1, DecodedIsSpelled
  <2>. QED  BY <2>1, <2>2, Zenon
<1>3. Reading[c] = IF c = CR THEN <<>> ELSE <<c>>
  BY DEF Reading
<1>4. CASE c = CR
  <2>1. Decoded(t) \o <<>> = Decoded(t)
    BY <1>1, ConcatEmptySeq
  <2>. QED  BY <1>2, <1>3, <1>4, <2>1, Zenon
<1>5. CASE c # CR
  <2>1. c \in LFChar
    BY <1>5, Characters
  <2>2. Append(Decoded(t), c) = Decoded(t) \o <<c>>
    BY <1>1, <2>1, AppendIsConcat
  <2>. QED  BY <1>2, <1>3, <1>5, <2>2, Zenon
<1>. QED  BY <1>4, <1>5

LEMMA RenderAppend ==
  ASSUME NEW u \in LFText, NEW c \in LFChar, NEW style
  PROVE  /\ Render(u, style) \in Text
         /\ Render(Append(u, c), style) =
              IF c = LF /\ style = "crlf" THEN Append(Append(Render(u, style), CR), LF)
                                          ELSE Append(Render(u, style), c)
<1>1. u \in Seq(LFChar) /\ Append(u, c) \in LFText
  BY Characters, AppendProperties
<1>2. PICK g, r : g = Writing(style) /\ r = Render(u, style)
  OBVIOUS
<1>3. g \in Spellings(LFChar, Char)
  BY <1>2, ReadingAndWriting
<1>4. r \in Seq(Char)
  <2>1. r = Spelled(u, g)
    BY <1>2, RenderIsSpelled
  <2>. QED  BY <1>1, <1>3, <2>1, SpelledText
<1>5. Render(Append(u, c), style) = r \o g[c]
  <2>1. Spelled(Append(u, c), g) = Spelled(u, g) \o g[c]
    BY <1>1, <1>3, SpelledAppend
  <2>2. r = Spelled(u, g) /\ Render(Append(u, c), style) = Spelled(Append(u, c), g)
    BY <1>1, <1>2, RenderIsSpelled
  <2>. QED  BY <2>1, <2>2, Zenon
<1>6. g[c] = IF c = LF /\ style = "crlf" THEN <<CR, LF>> ELSE <<c>>
  BY <1>2 DEF Writing
<1>7. r \o <<c>> = Append(r, c)
  BY <1>4, Characters, AppendIsConcat
<1>8. r \o <<CR, LF>> = Append(Append(r, CR), LF)
  <2>1. CR \in Char /\ LF \in Char
    BY Characters
  <2>2. PICK cr, lf : cr = CR /\ lf = LF
    OBVIOUS
  <2>3. r \o <<cr, lf>> = Append(Append(r, cr), lf)
    <3>1. r \o <<cr>> = Append(r, cr) /\ Append(r, cr) \in Seq(Char)
      BY <1>4, <2>1, <2>2, AppendIsConcat, AppendProperties
    <3>2. Append(r, cr) \o <<lf>> = Append(Append(r, cr), lf)
      BY <2>1, <2>2, <3>1, AppendIsConcat
    <3>3. <<cr>> \in Seq(Char) /\ <<lf>> \in Seq(Char) /\ <<cr>> \o <<lf>> = <<cr, lf>>
      BY <2>1, <2>2, PairOfSingletons
    <3>4. (r \o <<cr>>) \o <<lf>> = r \o (<<cr>> \o <<lf>>)
      BY <1>4, <3>3, ConcatAssociative
    <3>. QED  BY <3>1, <3>2, <3>3, <3>4, Zenon
  <2>. QED  BY <2>2, <2>3
<1>. QED  BY <1>2, <1>4, <1>5, <1>6, <1>7, <1>8, Characters

LEMMA RenderEmpty ==
  ASSUME NEW style
  PROVE  Render(<<>>, style) = <<>>
<1>1. <<>> \in LFText
  BY Characters, EmptySeq
<1>. QED  BY <1>1, RenderIsSpelled, SpelledEmpty

LEMMA DecodedEmpty == Decoded(<<>>) = <<>>
<1>1. <<>> \in Text
  BY Characters, EmptySeq
<1>. QED  BY <1>1, DecodedIsSpelled, SpelledEmpty

(* What is written is read again as it was. *)
LEMMA WrittenIsRead ==
  ASSUME NEW u \in LFText, NEW style
  PROVE  Decoded(Render(u, style)) = u
<1>. DEFINE Q == {v \in LFText : Decoded(Render(v, style)) = v}
<1>1. <<>> \in Q
  <2>1. <<>> \in LFText
    BY Characters, EmptySeq
  <2>. QED  BY <2>1, RenderEmpty, DecodedEmpty
<1>2. ASSUME NEW v \in Seq(LFChar), NEW c \in LFChar, v \in Q PROVE Append(v, c) \in Q
  <2>1. v \in LFText /\ Decoded(Render(v, style)) = v /\ Append(v, c) \in LFText
    BY <1>2, Characters, AppendProperties
  <2>2. PICK r : r = Render(v, style)
    OBVIOUS
  <2>3. r \in Text /\ Append(r, CR) \in Text
    BY <2>1, <2>2, RenderAppend, Characters, AppendProperties
  <2>4. CASE c = LF /\ style = "crlf"
    <3>1. Render(Append(v, c), style) = Append(Append(r, CR), c)
      BY <2>1, <2>2, <2>4, RenderAppend
    <3>2. Decoded(Append(Append(r, CR), c)) = Append(Decoded(Append(r, CR)), c)
      BY <2>3, Characters, DecodedAppend
    <3>3. Decoded(Append(r, CR)) = Decoded(r)
      BY <2>3, Characters, DecodedAppend
    <3>4. Decoded(Render(Append(v, c), style)) = Append(v, c)
      BY <2>1, <2>2, <3>1, <3>2, <3>3, Zenon
    <3>. QED  BY <2>1, <3>4
  <2>5. CASE ~(c = LF /\ style = "crlf")
    <3>1. Render(Append(v, c), style) = Append(r, c)
      BY <2>1, <2>2, <2>5, RenderAppend
    <3>2. Decoded(Append(r, c)) = Append(Decoded(r), c)
      BY <2>3, Characters, DecodedAppend
    <3>3. Decoded(Render(Append(v, c), style)) = Append(v, c)
      BY <2>1, <2>2, <3>1, <3>2, Zenon
    <3>. QED  BY <2>1, <3>3
  <2>. QED  BY <2>4, <2>5
<1>. HIDE DEF Q
<1>3. u \in Q
  <2>1. u \in Seq(LFChar)
    BY Characters
  <2>. QED  BY <1>1, <1>2, <2>1, CharacterByCharacter
<1>. QED  BY <1>3 DEF Q

LEMMA OnlyCRLFIsSpelledOut ==
  ASSUME NEW u \in LFText, NEW style, style # "crlf"
  PROVE  Render(u, style) = u
<1>. DEFINE Q == {v \in LFText : Render(v, style) = v}
<1>1. <<>> \in Q
  <2>1. <<>> \in LFText
    BY Characters, EmptySeq
  <2>. QED  BY <2>1, RenderEmpty
<1>2. ASSUME NEW v \in Seq(LFChar), NEW c \in LFChar, v \in Q PROVE Append(v, c) \in Q
  <2>1. v \in LFText /\ Render(v, style) = v /\ Append(v, c) \in LFText
    BY <1>2, Characters, AppendProperties
  <2>2. Render(Append(v, c), style) = Append(v, c)
    BY <2>1, RenderAppend
  <2>. QED  BY <2>1, <2>2
<1>. HIDE DEF Q
<1>3. u \in Q
  <2>1. u \in Seq(LFChar)
    BY Characters
  <2>. QED  BY <1>1, <1>2, <2>1, CharacterByCharacter
<1>. QED  BY <1>3 DEF Q

(* Every CR stands before an LF and every LF behind a CR. *)
Paired(t) ==
  \A i \in DOMAIN t : /\ t[i] = CR => BeforeLF(t, i)
                      /\ t[i] = LF => AfterCR(t, i)

LEMMA PairedAppend ==
  ASSUME NEW t \in Text, Paired(t)
  PROVE  /\ Paired(Append(Append(t, CR), LF))
         /\ \A c \in LFChar : c # LF => Paired(Append(t, c))
<1>1. PICK n \in Nat : n = Len(t) /\ DOMAIN t = 1..n /\ t \in Seq(Char)
  BY Characters, LenProperties
<1>2. ASSUME NEW i \in 1..n
      PROVE  /\ t[i] = CR => i < n /\ t[i + 1] = LF
             /\ t[i] = LF => i > 1 /\ t[i - 1] = CR
  BY <1>1 DEF Paired, BeforeLF, AfterCR
<1>3. ASSUME NEW c \in LFChar, c # LF PROVE Paired(Append(t, c))
  <2>1. PICK u : u = Append(t, c)
    OBVIOUS
  <2>2. /\ DOMAIN u = 1..(n + 1) /\ Len(u) = n + 1
        /\ \A i \in 1..n : u[i] = t[i]
        /\ u[n + 1] = c
    BY <1>1, <2>1, Characters, AppendProperties, LenProperties
  <2>3. ASSUME NEW i \in 1..(n + 1)
        PROVE  /\ u[i] = CR => i < n + 1 /\ u[i + 1] = LF
               /\ u[i] = LF => i > 1 /\ u[i - 1] = CR
    <3>1. CASE i = n + 1
      BY <1>3, <2>2, <3>1, Characters
    <3>2. CASE i # n + 1
      <4>1. i \in 1..n /\ (i < n => i + 1 \in 1..n) /\ (i > 1 => i - 1 \in 1..n)
        BY <3>2
      <4>. QED  BY <1>2, <2>2, <4>1
    <3>. QED  BY <3>1, <3>2
  <2>4. Paired(u)
    BY <2>2, <2>3 DEF Paired, BeforeLF, AfterCR
  <2>. QED  BY <2>1, <2>4
<1>4. Paired(Append(Append(t, CR), LF))
  <2>1. PICK u, v : u = Append(t, CR) /\ v = Append(u, LF)
    OBVIOUS
  <2>2. /\ u \in Seq(Char) /\ Len(u) = n + 1
        /\ \A i \in 1..n : u[i] = t[i]
        /\ u[n + 1] = CR
    BY <1>1, <2>1, Characters, AppendProperties
  <2>3. /\ v \in Seq(Char) /\ Len(v) = n + 1 + 1
        /\ \A i \in 1..(n + 1) : v[i] = u[i]
        /\ v[n + 1 + 1] = LF
    BY <2>1, <2>2, Characters, AppendProperties
  <2>4. /\ DOMAIN v = 1..(n + 2) /\ Len(v) = n + 2
        /\ \A i \in 1..n : v[i] = t[i]
        /\ v[n + 1] = CR /\ v[n + 2] = LF
    BY <2>2, <2>3, LenProperties
  <2>5. ASSUME NEW i \in 1..(n + 2)
        PROVE  /\ v[i] = CR => i < n + 2 /\ v[i + 1] = LF
               /\ v[i] = LF => i > 1 /\ v[i - 1] = CR
    <3>1. CASE i = n + 1
      BY <2>4, <3>1, Characters
    <3>2. CASE i = n + 2
      <4>1. i - 1 = n + 1 /\ i > 1
        BY <3>2
      <4>. QED  BY <2>4, <3>2, <4>1, Characters
    <3>3. CASE i \in 1..n
      <4>1. (i < n => i + 1 \in 1..n) /\ (i > 1 => i - 1 \in 1..n)
        BY <3>3
      <4>. QED  BY <1>2, <2>4, <3>3, <4>1
    <3>. QED  BY <3>1, <3>2, <3>3
  <2>6. Paired(v)
    BY <2>4, <2>5 DEF Paired, BeforeLF, AfterCR
  <2>. QED  BY <2>1, <2>6
<1>. QED  BY <1>3, <1>4

LEMMA WrittenIsPaired ==
  ASSUME NEW u \in LFText
  PROVE  Paired(Render(u, "crlf"))
<1>. DEFINE Q == {v \in LFText : Paired(Render(v, "crlf"))}
<1>1. <<>> \in Q
  <2>1. <<>> \in LFText
    BY Characters, EmptySeq
  <2>. QED  BY <2>1, RenderEmpty DEF Paired
<1>2. ASSUME NEW v \in Seq(LFChar), NEW c \in LFChar, v \in Q PROVE Append(v, c) \in Q
  <2>1. v \in LFText /\ Paired(Render(v, "crlf")) /\ Append(v, c) \in LFText
    BY <1>2, Characters, AppendProperties
  <2>2. Render(v, "crlf") \in Text
    BY <2>1, RenderAppend
  <2>3. Paired(Render(Append(v, c), "crlf"))
    BY <2>1, <2>2, PairedAppend, RenderAppend
  <2>. QED  BY <2>1, <2>3
<1>. HIDE DEF Q
<1>3. u \in Q
  <2>1. u \in Seq(LFChar)
    BY Characters
  <2>. QED  BY <1>1, <1>2, <2>1, CharacterByCharacter
<1>. QED  BY <1>3 DEF Q

(* The text is there, and in the style asked for. *)
LEMMA EncodedKeepsStyle ==
  ASSUME NEW u \in LFText, NEW style \in {"crlf", "lf", "none"}
  PROVE  /\ Encoded(u, style) \in Text
         /\ Decoded(Encoded(u, style)) = u
         /\ \/ Style(Encoded(u, style)) \in {style, "none"}
            \/ style = "none" /\ Style(Encoded(u, style)) = "lf"
<1>. DEFINE as == IF style = "none" /\ LF \in Range(u) THEN "lf" ELSE style
<1>1. Encoded(u, style) = Render(u, as)
  BY DEF Encoded
<1>. HIDE DEF as
<1>2. Render(u, as) \in Text /\ Decoded(Render(u, as)) = u
  BY RenderAppend, WrittenIsRead, Characters
<1>3. CASE as = "crlf"
  <2>1. PICK t : t = Render(u, as)
    OBVIOUS
  <2>2. Paired(t) /\ style = "crlf"
    BY <1>3, <2>1, WrittenIsPaired DEF as
  <2>3. Style(t) \in {"crlf", "none"}
    BY <2>2 DEF Style, Paired
  <2>. QED  BY <1>1, <1>2, <2>1, <2>2, <2>3
<1>4. CASE as # "crlf"
  <2>1. Render(u, as) = u
    BY <1>4, OnlyCRLFIsSpelledOut
  <2>2. \A i \in DOMAIN u : u[i] # CR
    BY Characters, LenProperties, ElementOfSeq
  <2>3. Style(u) \in {"lf", "none"}
    BY <2>2 DEF Style
  <2>4. style # "crlf"
    BY <1>4 DEF as
  <2>. QED  BY <1>1, <1>2, <2>1, <2>3, <2>4
<1>. QED  BY <1>3, <1>4

LEMMA Styles ==
  ASSUME NEW t
  PROVE  Editable(t) => Style(t) \in {"crlf", "lf", "none"}
BY DEF Editable, Style

-----------------------------------------------------------------------------
(* Lines *)

LEMMA Counting ==
  ASSUME NEW N \in Nat, NEW S \in SUBSET (1..N)
  PROVE  /\ IsFiniteSet(S) /\ Cardinality(S) \in Nat
         /\ Upto(S, 0) = 0 /\ Upto(S, N) = Cardinality(S)
         /\ \A i \in 0..N : Upto(S, i) \in Nat
         /\ \A i \in 1..N : Upto(S, i) = Upto(S, i - 1) + (IF i \in S THEN 1 ELSE 0)
<1>0. \A j \in S : j \in Nat /\ 1 <= j /\ j <= N
  OBVIOUS
<1>1. IsFiniteSet(S) /\ Cardinality(S) \in Nat
  <2>1. IsFiniteSet(1..N)
    BY FS_Interval
  <2>2. IsFiniteSet(S)
    BY <2>1, FS_Subset
  <2>. QED  BY <2>2, FS_CardinalityType
<1>2. Upto(S, 0) = 0
  <2>1. {j \in S : j <= 0} = {}
    <3>1. ASSUME NEW j \in S PROVE ~(j <= 0)
      BY <1>0
    <3>. QED  BY <3>1
  <2>. QED  BY <2>1, FS_EmptySet DEF Upto
<1>3. Upto(S, N) = Cardinality(S)
  <2>1. {j \in S : j <= N} = S
    BY <1>0
  <2>. QED  BY <2>1 DEF Upto
<1>4. ASSUME NEW i \in 0..N PROVE IsFiniteSet({j \in S : j <= i}) /\ Upto(S, i) \in Nat
  <2>1. IsFiniteSet({j \in S : j <= i})
    BY <1>1, FS_Subset
  <2>. QED  BY <2>1, FS_CardinalityType DEF Upto
<1>5. ASSUME NEW i \in 1..N PROVE Upto(S, i) = Upto(S, i - 1) + (IF i \in S THEN 1 ELSE 0)
  <2>0. ASSUME NEW j \in S PROVE j <= i <=> j <= i - 1 \/ j = i
    BY <1>0
  <2>1. PICK A, B : A = {j \in S : j <= i - 1} /\ B = {j \in S : j <= i}
    OBVIOUS
  <2>2. i - 1 \in 0..N /\ IsFiniteSet(A) /\ i \notin A
    <3>1. i - 1 \in 0..N
      OBVIOUS
    <3>2. i \notin A
      BY <1>0, <2>1
    <3>. QED  BY <1>4, <2>1, <3>1, <3>2
  <2>3. Cardinality(A \cup {i}) = Cardinality(A) + 1
    BY <2>2, FS_AddElement
  <2>4. CASE i \in S
    <3>1. B = A \cup {i}
      BY <2>0, <2>1, <2>4
    <3>. QED  BY <2>1, <2>3, <2>4, <3>1 DEF Upto
  <2>5. CASE i \notin S
    <3>1. B = A
      BY <2>0, <2>1, <2>5
    <3>2. Upto(S, i - 1) \in Nat
      BY <1>4, <2>2
    <3>. QED  BY <2>1, <2>5, <3>1, <3>2 DEF Upto
  <2>. QED  BY <2>4, <2>5
<1>. QED  BY <1>1, <1>2, <1>3, <1>4, <1>5

LEMMA CountingUp ==
  ASSUME NEW N \in Nat, NEW S \in SUBSET (1..N), NEW i \in 0..N, NEW j \in 0..N, i < j
  PROVE  Upto(S, i) <= Upto(S, j) /\ (j \in S => Upto(S, i) < Upto(S, j))
<1>0. \A k \in 0..N : Upto(S, k) \in Nat
  BY Counting
<1>1. IsFiniteSet(S) /\ \A k \in S : k \in Nat
  BY Counting
<1>2. ASSUME NEW a \in 0..N, NEW b \in 0..N, a <= b PROVE Upto(S, a) <= Upto(S, b)
  <2>1. PICK A, B : A = {k \in S : k <= a} /\ B = {k \in S : k <= b}
    OBVIOUS
  <2>2. IsFiniteSet(B) /\ A \in SUBSET B
    <3>0. ASSUME NEW k \in S, k <= a PROVE k <= b
      BY <1>1, <1>2, <3>0
    <3>1. A \in SUBSET B /\ B \in SUBSET S
      BY <2>1, <3>0
    <3>. QED  BY <1>1, <3>1, FS_Subset
  <2>3. Cardinality(A) <= Cardinality(B)
    BY <2>2, FS_Subset
  <2>. QED  BY <2>1, <2>3 DEF Upto
<1>3. Upto(S, i) <= Upto(S, j)
  BY <1>2
<1>4. ASSUME j \in S PROVE Upto(S, i) < Upto(S, j)
  <2>1. j \in 1..N /\ j - 1 \in 0..N /\ i <= j - 1
    OBVIOUS
  <2>2. PICK x \in Nat, y \in Nat, z \in Nat :
          x = Upto(S, i) /\ y = Upto(S, j - 1) /\ z = Upto(S, j)
    BY <1>0, <2>1
  <2>3. x <= y
    BY <1>2, <2>1, <2>2
  <2>4. z = y + 1
    BY <1>4, <2>1, <2>2, Counting
  <2>5. x < z
    BY <2>3, <2>4
  <2>. QED  BY <2>2, <2>5
<1>. QED  BY <1>3, <1>4

LEMMA OneEnd ==
  ASSUME NEW N \in Nat, NEW S \in SUBSET (1..N),
         NEW i \in {0} \cup S, NEW j \in {0} \cup S, Upto(S, i) = Upto(S, j)
  PROVE  i = j
<1>1. \A k \in S : k \in 1..N
  OBVIOUS
<1>2. (i = 0 \/ i \in 1..N) /\ (j = 0 \/ j \in 1..N)
  BY <1>1
<1>3. i \in 0..N /\ j \in 0..N
  BY <1>2
<1>4. \A k \in 0..N : Upto(S, k) \in Nat
  BY Counting
<1>5. ~(i < j)
  <2>1. SUFFICES ASSUME i < j PROVE FALSE
    OBVIOUS
  <2>2. j \in S
    BY <1>2, <1>3, <2>1
  <2>3. Upto(S, i) < Upto(S, j)
    BY <1>3, <2>1, <2>2, CountingUp
  <2>. QED  BY <1>3, <1>4, <2>3
<1>6. ~(j < i)
  <2>1. SUFFICES ASSUME j < i PROVE FALSE
    OBVIOUS
  <2>2. i \in S
    BY <1>2, <1>3, <2>1
  <2>3. Upto(S, j) < Upto(S, i)
    BY <1>3, <2>1, <2>2, CountingUp
  <2>. QED  BY <1>3, <1>4, <2>3
<1>. QED  BY <1>3, <1>5, <1>6

LEMMA TheEnds ==
  ASSUME NEW N \in Nat, NEW S \in SUBSET (1..N), NEW n \in 0..Cardinality(S)
  PROVE  EndOf(S, n) \in {0} \cup S /\ Upto(S, EndOf(S, n)) = n
<1>. DEFINE Reached(i) == n <= Upto(S, i) => \E j \in {0} \cup S : Upto(S, j) = n
            T == {i \in 0..N : Reached(i)}
<1>1. n \in Nat /\ Cardinality(S) \in Nat /\ n <= Cardinality(S) /\ \A k \in S : k \in 1..N
  BY Counting
<1>2. 0 \in T
  <2>1. ASSUME n <= Upto(S, 0) PROVE Upto(S, 0) = n
    <3>1. Upto(S, 0) = 0
      BY Counting
    <3>2. n <= 0
      BY <2>1, <3>1
    <3>. QED  BY <1>1, <3>1, <3>2
  <2>. QED  BY <2>1
<1>3. ASSUME NEW i \in 1..N, i - 1 \in T PROVE i \in T
  <2>1. Reached(i - 1)
    BY <1>3
  <2>2. i - 1 \in 0..N /\ i \in 0..N
    OBVIOUS
  <2>3. PICK x \in Nat, y \in Nat : x = Upto(S, i - 1) /\ y = Upto(S, i)
    <3>1. \A k \in 0..N : Upto(S, k) \in Nat
      BY Counting
    <3>. QED  BY <2>2, <3>1
  <2>4. y = x + (IF i \in S THEN 1 ELSE 0)
    <3>1. \A k \in 1..N : Upto(S, k) = Upto(S, k - 1) + (IF k \in S THEN 1 ELSE 0)
      BY Counting
    <3>. QED  BY <2>3, <3>1
  <2>5. ASSUME n <= Upto(S, i) PROVE \E j \in {0} \cup S : Upto(S, j) = n
    <3>1. CASE n <= x
      BY <2>1, <2>3, <3>1
    <3>2. CASE ~(n <= x)
      <4>1. i \in S /\ y = n
        BY <1>1, <2>3, <2>4, <2>5, <3>2
      <4>. QED  BY <2>3, <4>1
    <3>. QED  BY <3>1, <3>2
  <2>. QED  BY <2>2, <2>5
<1>. HIDE DEF T
<1>4. N \in T
  <2>1. \A i \in 0..N : i \in T
    BY <1>2, <1>3, Stepwise
  <2>. QED  BY <2>1
<1>5. \E j \in {0} \cup S : Upto(S, j) = n
  BY <1>1, <1>4, Counting DEF T
<1>6. EndOf(S, n) \in {0} \cup S /\ Upto(S, EndOf(S, n)) = n
  BY <1>5 DEF EndOf
<1>. QED  BY <1>6

(* The lines of t, and the offsets e at which they end: the lines are the   *)
(* text, in order, and line n + 1 starts behind e[n].                       *)
LineEnds(t, breaks) ==
  [n \in 0..Cardinality(Ends(t, breaks)) |-> EndOf(Ends(t, breaks), n)]

LEMMA WhereLinesEnd ==
  ASSUME NEW S, NEW t \in Seq(S), NEW breaks,
         NEW e, e = LineEnds(t, breaks), NEW ends, ends = Ends(t, breaks),
         NEW N, N = Cardinality(ends)
  PROVE  /\ ends \in SUBSET (1..Len(t)) /\ N \in Nat /\ Len(t) \in Nat
         /\ e \in [0..N -> 0..Len(t)] /\ e[0] = 0 /\ e[N] = Len(t)
         /\ \A n \in 0..N : Upto(ends, e[n]) = n
         /\ \A n \in 0..N : \A i \in {0} \cup ends : Upto(ends, i) = n => i = e[n]
         /\ \A n \in 1..N : e[n - 1] < e[n] /\ e[n] \in ends
<1>1. PICK L \in Nat : L = Len(t) /\ DOMAIN t = 1..L
  BY LenProperties
<1>2. ends \in SUBSET (1..L)
  BY <1>1 DEF Ends
<1>3. N \in Nat /\ Upto(ends, 0) = 0 /\ Upto(ends, L) = N
  BY <1>1, <1>2, Counting
<1>4. ASSUME NEW n \in 0..N
      PROVE  /\ e[n] \in {0} \cup ends /\ e[n] \in 0..L /\ Upto(ends, e[n]) = n
             /\ \A i \in {0} \cup ends : Upto(ends, i) = n => i = e[n]
  <2>1. e[n] = EndOf(ends, n)
    BY DEF LineEnds
  <2>2. EndOf(ends, n) \in {0} \cup ends /\ Upto(ends, EndOf(ends, n)) = n
    BY <1>1, <1>2, TheEnds
  <2>3. EndOf(ends, n) = 0 \/ EndOf(ends, n) \in 1..L
    BY <1>2, <2>2
  <2>4. EndOf(ends, n) \in 0..L
    BY <2>3
  <2>5. \A i \in {0} \cup ends : Upto(ends, i) = n => i = EndOf(ends, n)
    BY <1>1, <1>2, <2>2, OneEnd
  <2>. QED  BY <2>1, <2>2, <2>4, <2>5, Zenon
<1>5. e \in [0..N -> 0..L]
  <2>1. e = [n \in 0..N |-> EndOf(ends, n)]
    BY DEF LineEnds
  <2>. QED  BY <1>4, <2>1
<1>6. e[0] = 0
  <2>1. 0 \in 0..N
    BY <1>3
  <2>. QED  BY <1>3, <1>4, <2>1
<1>7. e[N] = L
  <2>1. N \in 0..N
    BY <1>3
  <2>2. L \in {0} \cup ends
    BY <1>1 DEF Ends
  <2>. QED  BY <1>3, <1>4, <2>1, <2>2
<1>8. ASSUME NEW n \in 1..N PROVE e[n - 1] < e[n] /\ e[n] \in ends
  <2>1. n \in 0..N /\ n - 1 \in 0..N
    BY <1>3
  <2>2. PICK i \in 0..L, j \in 0..L : i = e[n - 1] /\ j = e[n]
    BY <1>4, <2>1
  <2>3. Upto(ends, i) = n - 1 /\ Upto(ends, j) = n /\ j \in {0} \cup ends
    BY <1>4, <2>1, <2>2
  <2>4. i # j
    BY <1>3, <2>3
  <2>5. ~(j < i)
    <3>1. SUFFICES ASSUME j < i PROVE FALSE
      OBVIOUS
    <3>2. Upto(ends, j) <= Upto(ends, i)
      BY <1>2, <3>1, CountingUp
    <3>. QED  BY <1>3, <2>3, <3>2
  <2>6. i < j
    BY <2>4, <2>5
  <2>7. j \in ends
    BY <2>3, <2>6
  <2>. QED  BY <2>2, <2>6, <2>7
<1>. QED  BY <1>1, <1>2, <1>3, <1>4, <1>5, <1>6, <1>7, <1>8

LEMMA LinesAreTheText ==
  ASSUME NEW S, NEW t \in Seq(S), NEW breaks,
         NEW e, e = LineEnds(t, breaks), NEW lines, lines = SplitAfter(t, breaks)
  PROVE  /\ lines \in Seq(Seq(S)) /\ Len(lines) = Cardinality(Ends(t, breaks))
         /\ FlattenSeq(lines) = t
         /\ \A n \in 0..Len(lines) : /\ FlattenSeq(SubSeq(lines, 1, n)) = SubSeq(t, 1, e[n])
                                     /\ Offset(lines, n + 1) = e[n]
<1>1. PICK ends, N, L : ends = Ends(t, breaks) /\ N = Cardinality(ends) /\ L = Len(t)
  OBVIOUS
<1>2. /\ ends \in SUBSET (1..L) /\ N \in Nat /\ L \in Nat
      /\ e \in [0..N -> 0..L] /\ e[0] = 0 /\ e[N] = L
      /\ \A n \in 1..N : e[n - 1] < e[n]
  BY <1>1, WhereLinesEnd
<1>3. ASSUME NEW n \in 1..N
      PROVE  /\ lines[n] = SubSeq(t, e[n - 1] + 1, e[n]) /\ lines[n] \in Seq(S)
             /\ Len(lines[n]) = e[n] - e[n - 1]
             /\ \A k \in 1..(e[n] - e[n - 1]) : lines[n][k] = t[e[n - 1] + k]
  <2>1. n - 1 \in 0..N /\ n \in 0..N
    BY <1>2
  <2>2. PICK a \in 0..L, b \in 0..L : a = e[n - 1] /\ b = e[n] /\ a < b
    BY <1>2, <2>1
  <2>3. a = EndOf(ends, n - 1) /\ b = EndOf(ends, n)
    BY <1>1, <2>1, <2>2 DEF LineEnds
  <2>4. lines[n] = SubSeq(t, a + 1, b)
    BY <1>1, <2>3 DEF SplitAfter
  <2>5. /\ SubSeq(t, a + 1, b) \in Seq(S) /\ Len(SubSeq(t, a + 1, b)) = b - a
        /\ \A k \in 1..(b - a) : SubSeq(t, a + 1, b)[k] = t[a + k]
    <3>1. a \in 0..Len(t) /\ b \in 0..Len(t) /\ a <= b
      BY <1>1, <1>2, <2>2
    <3>. QED  BY <3>1, Slice
  <2>. QED  BY <2>2, <2>4, <2>5
<1>4. lines \in Seq(Seq(S)) /\ Len(lines) = N
  <2>1. PICK P : P = Seq(S)
    OBVIOUS
  <2>2. lines = [n \in 1..N |-> SubSeq(t, EndOf(ends, n - 1) + 1, EndOf(ends, n))]
    BY <1>1 DEF SplitAfter
  <2>3. lines = [n \in 1..N |-> lines[n]]
    BY <2>2
  <2>4. \A n \in 1..N : lines[n] \in P
    BY <1>3, <2>1
  <2>5. lines \in [1..N -> P]
    BY <2>3, <2>4
  <2>. QED  BY <1>2, <2>1, <2>5, FunctionsAreSequences
<1>5. PICK o \in [0..N -> Nat], flat \in Seq(S) :
        /\ flat = FlattenSeq(lines)
        /\ o[0] = 0 /\ o[N] = Len(flat)
        /\ \A n \in 1..N : /\ o[n] = o[n - 1] + Len(lines[n])
                           /\ \A k \in 1..Len(lines[n]) : flat[o[n - 1] + k] = lines[n][k]
        /\ \A i \in 1..Len(flat) : \E n \in 1..N : o[n - 1] < i /\ i <= o[n]
        /\ \A n \in 0..N : /\ o[n] <= Len(flat)
                           /\ FlattenSeq(SubSeq(lines, 1, n)) = SubSeq(flat, 1, o[n])
  <2>1. PICK o, flat : flat = FlattenSeq(lines) /\ o \in Places(lines, flat)
    BY <1>4, Pieces
  <2>2. flat \in Seq(S)
    BY <1>4, <2>1, Pieces
  <2>3. o \in Places(lines, flat) /\ Len(lines) = N
    BY <1>4, <2>1
  <2>. QED  BY <2>1, <2>2, <2>3, Zenon DEF Places
<1>6. \A n \in 0..N : o[n] = e[n]
  <2>. DEFINE T == {n \in 0..N : o[n] = e[n]}
  <2>1. 0 \in T
    BY <1>2, <1>5
  <2>2. ASSUME NEW n \in 1..N, n - 1 \in T PROVE n \in T
    <3>1. n \in 0..N /\ n - 1 \in 0..N
      BY <1>2
    <3>2. PICK a \in 0..L, b \in 0..L : a = e[n - 1] /\ b = e[n]
      BY <1>2, <3>1
    <3>3. o[n - 1] = a /\ Len(lines[n]) = b - a
      BY <1>3, <2>2, <3>2
    <3>4. o[n] = a + (b - a)
      BY <1>5, <3>3
    <3>5. o[n] = e[n]
      BY <1>2, <3>2, <3>4
    <3>. QED  BY <3>1, <3>5
  <2>. HIDE DEF T
  <2>3. \A n \in 0..N : n \in T
    BY <1>2, <2>1, <2>2, Stepwise
  <2>. QED  BY <2>3 DEF T
<1>7. flat = t
  <2>1. Len(flat) = L
    <3>1. N \in 0..N
      BY <1>2
    <3>. QED  BY <1>2, <1>5, <1>6, <3>1
  <2>2. ASSUME NEW i \in 1..L PROVE flat[i] = t[i]
    <3>1. PICK n \in 1..N : o[n - 1] < i /\ i <= o[n]
      BY <1>5, <2>1
    <3>2. n \in 0..N /\ n - 1 \in 0..N
      BY <1>2
    <3>3. PICK a \in 0..L, b \in 0..L : a = e[n - 1] /\ b = e[n]
      BY <1>2, <3>2
    <3>4. o[n - 1] = a /\ o[n] = b /\ Len(lines[n]) = b - a
      BY <1>3, <1>6, <3>2, <3>3
    <3>5. PICK k \in 1..(b - a) : a + k = i
      <4>1. a < i /\ i <= b
        BY <3>1, <3>4
      <4>2. i - a \in 1..(b - a) /\ a + (i - a) = i
        BY <1>2, <4>1
      <4>. QED  BY <4>2
    <3>6. flat[a + k] = lines[n][k]
      BY <1>5, <3>4
    <3>7. lines[n][k] = t[a + k]
      BY <1>3, <3>3
    <3>. QED  BY <3>5, <3>6, <3>7
  <2>. QED  BY <1>1, <2>1, <2>2, <1>5, SeqEqual
<1>8. ASSUME NEW n \in 0..N
      PROVE  /\ FlattenSeq(SubSeq(lines, 1, n)) = SubSeq(t, 1, e[n])
             /\ Offset(lines, n + 1) = e[n]
  <2>1. FlattenSeq(SubSeq(lines, 1, n)) = SubSeq(t, 1, e[n])
    BY <1>5, <1>6, <1>7
  <2>2. PICK b \in 0..L : b = e[n]
    BY <1>2
  <2>3. Len(SubSeq(t, 1, b)) = b
    <3>1. 0 \in 0..Len(t) /\ b \in 0..Len(t) /\ 0 <= b /\ 0 + 1 = 1 /\ b - 0 = b
      BY <1>1, <1>2
    <3>2. Len(SubSeq(t, 0 + 1, b)) = b - 0
      BY <3>1, Slice
    <3>. QED  BY <3>1, <3>2, Zenon
  <2>4. PICK m : m = n + 1 /\ m - 1 = n
    BY <1>2
  <2>5. Offset(lines, m) = Len(FlattenSeq(SubSeq(lines, 1, n)))
    BY <2>4, Zenon DEF Offset
  <2>. QED  BY <2>1, <2>2, <2>3, <2>4, <2>5
<1>. QED  BY <1>1, <1>4, <1>5, <1>7, <1>8

LEMMA Prefix ==
  ASSUME NEW S, NEW t \in Seq(S), NEW a \in 0..Len(t)
  PROVE  SubSeq(t, 1, a) \in Seq(S) /\ Len(SubSeq(t, 1, a)) = a
<1>1. Len(t) \in Nat
  BY LenProperties
<1>2. 0 \in 0..Len(t) /\ 0 <= a /\ 0 + 1 = 1 /\ a - 0 = a
  BY <1>1
<1>3. SubSeq(t, 0 + 1, a) \in Seq(S) /\ Len(SubSeq(t, 0 + 1, a)) = a - 0
  BY <1>2, Slice
<1>. QED  BY <1>2, <1>3, Zenon

LEMMA CutText ==
  ASSUME NEW S, NEW t \in Seq(S), NEW c \in Seq(S),
         NEW a \in 0..Len(t), NEW b \in 0..Len(t), a <= b
  PROVE  Cut(t, a, b, c) \in Seq(S)
<1>1. Len(t) \in Nat /\ Len(t) \in 0..Len(t) /\ b <= Len(t)
  BY LenProperties
<1>2. SubSeq(t, 1, a) \in Seq(S) /\ SubSeq(t, b + 1, Len(t)) \in Seq(S)
  BY <1>1, Prefix, Slice
<1>. QED  BY <1>2, ConcatProperties DEF Cut

(* The first n lines end where line n ends. *)
LEMMA FirstLinesEnd ==
  ASSUME NEW S, NEW t \in Seq(S), NEW e, e = LineEnds(t, {LF}),
         NEW n \in 0..Cardinality(Ends(t, {LF}))
  PROVE  FirstLines(t, n) = SubSeq(t, 1, e[n]) /\ Len(FirstLines(t, n)) = e[n]
<1>1. PICK ends, N, L : ends = Ends(t, {LF}) /\ N = Cardinality(ends) /\ L = Len(t)
  OBVIOUS
<1>2. /\ ends \in SUBSET (1..L) /\ N \in Nat /\ L \in Nat /\ n \in 0..N /\ DOMAIN t = 1..L
      /\ e \in [0..N -> 0..L]
      /\ \A m \in 0..N : Upto(ends, e[m]) = m
      /\ e[0] = 0
      /\ \A m \in 1..N : e[m] \in ends
  <2>1. L \in Nat /\ DOMAIN t = 1..L /\ n \in 0..N
    BY <1>1, LenProperties
  <2>2. /\ ends \in SUBSET (1..L) /\ N \in Nat
        /\ e \in [0..N -> 0..L]
        /\ \A m \in 0..N : Upto(ends, e[m]) = m
        /\ e[0] = 0
        /\ \A m \in 1..N : e[m] \in ends
    BY <1>1, WhereLinesEnd
  <2>. QED  BY <2>1, <2>2
<1>3. PICK m \in 0..L : m = e[n]
  BY <1>2
<1>4. m \in {0} \cup ends
  <2>1. CASE n = 0
    BY <1>2, <1>3, <2>1
  <2>2. CASE n # 0
    <3>1. n \in 1..N
      BY <1>2, <2>2
    <3>. QED  BY <1>2, <1>3, <3>1
  <2>. QED  BY <2>1, <2>2
<1>. DEFINE whole == {i \in 0..L : Breaks(t, i) = n /\ (i = 0 \/ t[i] = LF)}
<1>5. ASSUME NEW i \in 0..L, i = 0 \/ t[i] = LF
      PROVE  i \in {0} \cup ends /\ Breaks(t, i) = Upto(ends, i)
  <2>1. i = 0 \/ i \in ends
    <3>1. i = 0 \/ i \in 1..L
      BY <1>2
    <3>. QED  BY <1>1, <1>2, <1>5, <3>1 DEF Ends
  <2>2. ASSUME NEW j \in 1..i, t[j] = LF PROVE j \in ends /\ j <= i
    <3>1. j \in 1..L /\ j <= i
      BY <1>2
    <3>. QED  BY <1>1, <1>2, <2>2, <3>1 DEF Ends
  <2>3. ASSUME NEW j \in ends, j <= i PROVE j \in 1..i /\ t[j] = LF
    <3>1. j \in 1..L /\ (t[j] = LF \/ j = L)
      BY <1>1, <1>2 DEF Ends
    <3>2. j \in 1..i /\ i # 0
      BY <1>2, <2>3, <3>1
    <3>3. j = L => j = i
      BY <1>2, <2>3
    <3>. QED  BY <1>5, <3>1, <3>2, <3>3
  <2>4. {j \in 1..i : t[j] = LF} = {j \in ends : j <= i}
    BY <2>2, <2>3
  <2>. QED  BY <2>1, <2>4 DEF Breaks, Upto
<1>6. ASSUME NEW i \in whole PROVE i = m
  <2>1. i \in 0..L /\ (i = 0 \/ t[i] = LF) /\ Breaks(t, i) = n
    OBVIOUS
  <2>2. i \in {0} \cup ends /\ Upto(ends, i) = n
    BY <1>5, <2>1
  <2>3. Upto(ends, m) = n
    BY <1>2, <1>3
  <2>. QED  BY <1>2, <1>4, <2>2, <2>3, OneEnd
<1>7. FirstLines(t, n) = SubSeq(t, 1, m)
  <2>1. CASE m = 0 \/ t[m] = LF
    <3>1. Breaks(t, m) = n
      BY <1>2, <1>3, <1>5, <2>1
    <3>2. whole = {m}
      BY <1>6, <2>1, <3>1
    <3>3. Min({m}) = m
      BY <1>2 DEF Min
    <3>. QED  BY <1>1, <3>2, <3>3 DEF FirstLines
  <2>2. CASE ~(m = 0 \/ t[m] = LF)
    <3>1. whole = {}
      BY <1>6, <2>2
    <3>2. m = L
      BY <1>1, <1>2, <1>4, <2>2 DEF Ends
    <3>3. SubSeq(t, 1, L) = t
      BY <1>1, SubSeqFull
    <3>. QED  BY <1>1, <3>1, <3>2, <3>3 DEF FirstLines
  <2>. QED  BY <2>1, <2>2
<1>8. Len(SubSeq(t, 1, m)) = m
  <2>1. m \in 0..Len(t)
    BY <1>1
  <2>. QED  BY <2>1, Prefix
<1>. QED  BY <1>3, <1>7, <1>8

(* A selected range begins behind the lines before it and ends with its last. *)
LEMMA SelectedLines ==
  ASSUME NEW S, NEW t \in Seq(S), NEW first \in Nat, NEW last \in Nat,
         NEW r \in Selected(t, first, last)
  PROVE  /\ r.from \in 0..Len(t) /\ r.to \in 0..Len(t) /\ r.from < r.to
         /\ FirstLines(t, first - 1) = SubSeq(t, 1, r.from) /\ Len(FirstLines(t, first - 1)) = r.from
         /\ FirstLines(t, last) = SubSeq(t, 1, r.to) /\ Len(FirstLines(t, last)) = r.to
<1>1. PICK e, lines, N : /\ e = LineEnds(t, {LF}) /\ lines = SplitAfter(t, {LF})
                         /\ N = Cardinality(Ends(t, {LF}))
  OBVIOUS
<1>2. /\ N \in Nat /\ Len(t) \in Nat /\ e \in [0..N -> 0..Len(t)]
      /\ \A n \in 0..N : Upto(Ends(t, {LF}), e[n]) = n
      /\ \A n \in 1..N : e[n - 1] < e[n]
  BY <1>1, WhereLinesEnd
<1>3. Len(lines) = N /\ \A n \in 0..N : Offset(lines, n + 1) = e[n]
  BY <1>1, LinesAreTheText
<1>4. /\ 1 <= first /\ first <= last /\ last <= N
      /\ r = [from |-> Offset(lines, first), to |-> Offset(lines, last + 1)]
  BY <1>1, <1>3 DEF Selected, CanonicalLines
<1>5. PICK k \in 0..N : k = first - 1 /\ k + 1 = first
  BY <1>2, <1>4
<1>6. last \in 0..N
  BY <1>2, <1>4
<1>7. r.from = e[k] /\ r.to = e[last]
  BY <1>3, <1>4, <1>5, <1>6
<1>8. ASSUME NEW i \in 0..N, NEW j \in 0..N, i < j PROVE e[i] < e[j]
  <2>e. PICK ends : ends = Ends(t, {LF})
    OBVIOUS
  <2>1. PICK a \in 0..Len(t), b \in 0..Len(t) :
          a = e[i] /\ b = e[j] /\ ends = Ends(t, {LF})
    BY <1>2, <2>e
  <2>2. Upto(ends, a) = i /\ Upto(ends, b) = j
    BY <1>2, <2>1
  <2>3. a # b
    BY <1>2, <1>8, <2>2
  <2>4. ~(b < a)
    <3>1. SUFFICES ASSUME b < a PROVE FALSE
      OBVIOUS
    <3>2. ends \in SUBSET (1..Len(t))
      BY <2>1, WhereLinesEnd
    <3>3. Upto(ends, b) <= Upto(ends, a)
      BY <1>2, <3>1, <3>2, CountingUp
    <3>. QED  BY <1>2, <1>8, <2>2, <3>3
  <2>. QED  BY <1>2, <2>1, <2>3, <2>4
<1>9. e[k] < e[last]
  <2>1. k < last
    BY <1>2, <1>4, <1>5
  <2>. QED  BY <1>6, <1>8, <2>1
<1>10. /\ FirstLines(t, k) = SubSeq(t, 1, e[k]) /\ Len(FirstLines(t, k)) = e[k]
       /\ FirstLines(t, last) = SubSeq(t, 1, e[last]) /\ Len(FirstLines(t, last)) = e[last]
  BY <1>1, <1>6, FirstLinesEnd
<1>11. e[k] \in 0..Len(t) /\ e[last] \in 0..Len(t)
  BY <1>2, <1>6
<1>. QED  BY <1>5, <1>7, <1>9, <1>10, <1>11

-----------------------------------------------------------------------------
(* Edits lead from LF texts to LF texts *)

LEMMA ReplacedText ==
  ASSUME NEW S, NEW t \in Seq(S), NEW new \in Seq(S), NEW old
  PROVE  Replace(t, old, new) \in Seq(S)
<1>1. PICK found : found = Positions(t, old)
  OBVIOUS
<1>. DEFINE ss == [i \in DOMAIN t |->
                     CASE i \in found                                 -> new
                       [] \E j \in found : j < i /\ i < j + Len(old)  -> <<>>
                       [] OTHER                                       -> <<t[i]>>]
<1>2. DOMAIN ss = DOMAIN t /\ ss = [i \in DOMAIN t |-> ss[i]]
  OBVIOUS
<1>3. ASSUME NEW i \in DOMAIN t PROVE ss[i] \in Seq(S)
  <2>1. t[i] \in S
    BY LenProperties, ElementOfSeq
  <2>2. <<t[i]>> \in Seq(S) /\ <<>> \in Seq(S)
    BY <2>1, Singletons, EmptySeq
  <2>3. ss[i] = new \/ ss[i] = <<>> \/ ss[i] = <<t[i]>>
    OBVIOUS
  <2>. HIDE DEF ss
  <2>. QED  BY <2>2, <2>3
<1>4. Replace(t, old, new) = FlattenSeq(ss)
  BY <1>1 DEF Replace
<1>. HIDE DEF ss
<1>5. ss \in Seq(Seq(S))
  BY <1>2, <1>3, OnePerCharacter
<1>. QED  BY <1>4, <1>5, Pieces

LEMMA ExactlyEdited ==
  ASSUME NEW t \in LFText, NEW old \in LFText, NEW new \in LFText, NEW n
  PROVE  /\ ReplaceExact(t, old, new, n) \subseteq LFText
         /\ DeleteExact(t, old, n) \subseteq LFText
         /\ \A before \in BOOLEAN : Insert(t, old, new, n, before) \subseteq LFText
<1>1. t \in Seq(LFChar) /\ old \in Seq(LFChar) /\ new \in Seq(LFChar) /\ <<>> \in Seq(LFChar)
  BY Characters, EmptySeq
<1>2. ASSUME NEW c \in Seq(LFChar) PROVE Replace(t, old, c) \in LFText
  BY <1>1, ReplacedText, Characters
<1>3. new \o old \in Seq(LFChar) /\ old \o new \in Seq(LFChar)
  BY <1>1, ConcatProperties
<1>4. ReplaceExact(t, old, new, n) \subseteq LFText
  BY <1>1, <1>2 DEF ReplaceExact
<1>5. DeleteExact(t, old, n) \subseteq LFText
  BY <1>1, <1>2 DEF DeleteExact
<1>6. ASSUME NEW before \in BOOLEAN PROVE Insert(t, old, new, n, before) \subseteq LFText
  <2>1. PICK c : c = IF before THEN new \o old ELSE old \o new
    OBVIOUS
  <2>2. c \in Seq(LFChar)
    BY <1>3, <2>1
  <2>3. Insert(t, old, new, n, before) \subseteq {t, Replace(t, old, c)}
    BY <2>1 DEF Insert
  <2>. QED  BY <1>2, <2>2, <2>3
<1>. QED  BY <1>4, <1>5, <1>6

(* An edit of a range is a cut where the lines begin and end. *)
InsertsBefore(t, line, guard, c) == InsertAtLine(t, line, guard, c, TRUE)
InsertsAfter(t, line, guard, c) == InsertAtLine(t, line, guard, c, FALSE)
InsertedBehind(t, n, c) == FirstLines(t, n) \o c \o Rest(t, FirstLines(t, n))

LEMMA LinesReplaced ==
  ASSUME NEW t \in LFText, NEW first \in Nat, NEW last \in Nat, NEW guard, NEW c \in LFText,
         NEW u \in ReplaceRange(t, first, last, guard, c)
  PROVE  u \in LFText /\ u = FirstLines(t, first - 1) \o c \o Rest(t, FirstLines(t, last))
<1>0. t \in Seq(LFChar) /\ c \in Seq(LFChar)
  BY Characters
<1>1. PICK r \in Selected(t, first, last) : u = Cut(t, r.from, r.to, c)
  BY DEF ReplaceRange, Guarded
<1>2. /\ r.from \in 0..Len(t) /\ r.to \in 0..Len(t) /\ r.from <= r.to
      /\ FirstLines(t, first - 1) = SubSeq(t, 1, r.from) /\ Len(FirstLines(t, last)) = r.to
  BY <1>0, SelectedLines
<1>3. PICK a \in 0..Len(t), b \in 0..Len(t) : a = r.from /\ b = r.to
  BY <1>2
<1>4. PICK head, upto : head = FirstLines(t, first - 1) /\ upto = FirstLines(t, last)
  OBVIOUS
<1>5. a <= b /\ head = SubSeq(t, 1, a) /\ Len(upto) = b
  BY <1>2, <1>3, <1>4
<1>6. Cut(t, a, b, c) \in LFText /\ Cut(t, a, b, c) = head \o c \o Rest(t, upto)
  <2>1. Cut(t, a, b, c) \in Seq(LFChar)
    BY <1>0, <1>5, CutText
  <2>2. Cut(t, a, b, c) = head \o c \o Rest(t, upto)
    BY <1>5, Zenon DEF Cut, Rest
  <2>. QED  BY <2>1, <2>2, Characters
<1>7. u = Cut(t, a, b, c)
  BY <1>1, <1>3
<1>. QED  BY <1>4, <1>6, <1>7, Zenon

LEMMA InsertedBeforeLine ==
  ASSUME NEW t \in LFText, NEW first \in Nat, NEW guard, NEW c \in LFText,
         NEW u \in InsertsBefore(t, first, guard, c)
  PROVE  u \in LFText /\ u = InsertedBehind(t, first - 1, c)
<1>0. t \in Seq(LFChar) /\ c \in Seq(LFChar)
  BY Characters
<1>1. PICK r \in Selected(t, first, first) : u = Cut(t, r.from, r.from, c)
  BY DEF InsertsBefore, InsertAtLine, Guarded
<1>2. /\ r.from \in 0..Len(t) /\ r.from \in 0..Len(t) /\ r.from <= r.from
      /\ FirstLines(t, first - 1) = SubSeq(t, 1, r.from) /\ Len(FirstLines(t, first - 1)) = r.from
  BY <1>0, SelectedLines
<1>3. PICK a \in 0..Len(t), b \in 0..Len(t) : a = r.from /\ b = r.from
  BY <1>2
<1>4. PICK head, upto : head = FirstLines(t, first - 1) /\ upto = FirstLines(t, first - 1)
  OBVIOUS
<1>5. a <= b /\ head = SubSeq(t, 1, a) /\ Len(upto) = b
  BY <1>2, <1>3, <1>4
<1>6. Cut(t, a, b, c) \in LFText /\ Cut(t, a, b, c) = head \o c \o Rest(t, upto)
  <2>1. Cut(t, a, b, c) \in Seq(LFChar)
    BY <1>0, <1>5, CutText
  <2>2. Cut(t, a, b, c) = head \o c \o Rest(t, upto)
    BY <1>5, Zenon DEF Cut, Rest
  <2>. QED  BY <2>1, <2>2, Characters
<1>7. u = Cut(t, a, b, c)
  BY <1>1, <1>3
<1>. QED  BY <1>4, <1>6, <1>7, Zenon DEF InsertedBehind

LEMMA InsertedAfterLine ==
  ASSUME NEW t \in LFText, NEW first \in Nat, NEW guard, NEW c \in LFText,
         NEW u \in InsertsAfter(t, first, guard, c)
  PROVE  u \in LFText /\ u = InsertedBehind(t, first, c)
<1>0. t \in Seq(LFChar) /\ c \in Seq(LFChar)
  BY Characters
<1>1. PICK r \in Selected(t, first, first) : u = Cut(t, r.to, r.to, c)
  BY DEF InsertsAfter, InsertAtLine, Guarded
<1>2. /\ r.to \in 0..Len(t) /\ r.to \in 0..Len(t) /\ r.to <= r.to
      /\ FirstLines(t, first) = SubSeq(t, 1, r.to) /\ Len(FirstLines(t, first)) = r.to
  BY <1>0, SelectedLines
<1>3. PICK a \in 0..Len(t), b \in 0..Len(t) : a = r.to /\ b = r.to
  BY <1>2
<1>4. PICK head, upto : head = FirstLines(t, first) /\ upto = FirstLines(t, first)
  OBVIOUS
<1>5. a <= b /\ head = SubSeq(t, 1, a) /\ Len(upto) = b
  BY <1>2, <1>3, <1>4
<1>6. Cut(t, a, b, c) \in LFText /\ Cut(t, a, b, c) = head \o c \o Rest(t, upto)
  <2>1. Cut(t, a, b, c) \in Seq(LFChar)
    BY <1>0, <1>5, CutText
  <2>2. Cut(t, a, b, c) = head \o c \o Rest(t, upto)
    BY <1>5, Zenon DEF Cut, Rest
  <2>. QED  BY <2>1, <2>2, Characters
<1>7. u = Cut(t, a, b, c)
  BY <1>1, <1>3
<1>. QED  BY <1>4, <1>6, <1>7, Zenon DEF InsertedBehind

-----------------------------------------------------------------------------
(* Where a text is found, and what stands there once it is replaced *)

CopiesUpto(t, w, i) ==
  {P \in SUBSET (1..i) :
     /\ \A k \in P : Matches(t, w, k)
     /\ \A j, k \in P : j < k => j + Len(w) <= k}

LEMMA PositionsAreCopies ==
  ASSUME NEW S, NEW t \in Seq(S), NEW w \in Seq(S)
  PROVE  Positions(t, w) \in CopiesUpto(t, w, Len(t))
<1>1. PICK L \in Nat, m \in Nat : L = Len(t) /\ m = Len(w)
  BY LenProperties
<1>. DEFINE D == SUBSET (1..L)
            Found(i, A) == IF Matches(t, w, i) /\ \A j \in A : j + m <= i THEN A \cup {i} ELSE A
            Body(f) == [i \in 0..L |-> IF i = 0 THEN {} ELSE Found(i, f[i - 1])]
            found == CHOOSE f : f = Body(f)
            step == [i \in 1..L |-> [A \in D |-> Found(i, A)]]
<1>2. ASSUME NEW i \in 1..L, NEW A \in D PROVE Found(i, A) \in D
  OBVIOUS
<1>. HIDE DEF Found
<1>3. step \in Steps(L, D)
  BY <1>2 DEF Steps
<1>4. \A i \in 1..L : \A A \in D : step[i][A] = Found(i, A)
  OBVIOUS
<1>5. {} \in D
  OBVIOUS
<1>. HIDE DEF step, D
<1>6. PICK F \in [0..L -> D] : F[0] = {} /\ \A i \in 1..L : F[i] = step[i][F[i - 1]]
  <2>1. PICK add, base : add = step /\ base = {}
    OBVIOUS
  <2>2. base \in D /\ add \in Steps(L, D) /\ L \in Nat
    BY <1>3, <1>5, <2>1
  <2>3. \E F \in [0..L -> D] : F[0] = base /\ \A i \in 1..L : F[i] = add[i][F[i - 1]]
    BY <2>2, Recursion
  <2>. QED  BY <2>1, <2>3
<1>7. F = Body(F)
  <2>1. ASSUME NEW i \in 0..L PROVE F[i] = IF i = 0 THEN {} ELSE Found(i, F[i - 1])
    <3>1. CASE i = 0
      BY <1>6, <3>1
    <3>2. CASE i # 0
      <4>1. i \in 1..L /\ i - 1 \in 0..L
        BY <3>2
      <4>2. F[i - 1] \in D
        BY <4>1
      <4>3. F[i] = step[i][F[i - 1]]
        BY <1>6, <4>1
      <4>. QED  BY <1>4, <3>2, <4>1, <4>2, <4>3
    <3>. QED  BY <3>1, <3>2
  <2>. QED  BY <2>1
<1>8. found = Body(found)
  BY <1>7
<1>. HIDE DEF found
<1>9. \A i \in 0..L : found[i] = IF i = 0 THEN {} ELSE Found(i, found[i - 1])
  BY <1>8
<1>. DEFINE T == {i \in 0..L : found[i] \in CopiesUpto(t, w, i)}
<1>10. 0 \in T
  BY <1>9 DEF CopiesUpto
<1>11. ASSUME NEW i \in 1..L, i - 1 \in T PROVE i \in T
  <2>1. i \in 0..L /\ i # 0 /\ found[i - 1] \in CopiesUpto(t, w, i - 1)
    BY <1>11
  <2>2. found[i] = Found(i, found[i - 1])
    BY <1>9, <2>1
  <2>3. PICK A : A = found[i - 1]
    OBVIOUS
  <2>4. /\ \A k \in A : k \in 1..(i - 1) /\ Matches(t, w, k)
        /\ \A j, k \in A : j < k => j + m <= k
    BY <1>1, <2>1, <2>3 DEF CopiesUpto
  <2>5. ASSUME NEW k \in A PROVE k \in 1..i /\ k < i
    BY <2>4
  <2>6. CASE Matches(t, w, i) /\ \A j \in A : j + m <= i
    <3>1. found[i] = A \cup {i}
      BY <2>2, <2>3, <2>6 DEF Found
    <3>2. A \cup {i} \in SUBSET (1..i)
      BY <2>5
    <3>3. \A k \in A \cup {i} : Matches(t, w, k)
      BY <2>4, <2>6
    <3>4. ASSUME NEW j \in A \cup {i}, NEW k \in A \cup {i}, j < k PROVE j + m <= k
      <4>1. j \in A
        <5>1. ASSUME j = i PROVE FALSE
          <6>1. k < i \/ k = i
            BY <2>5
          <6>2. k \in 1..i
            BY <2>5
          <6>. QED  BY <3>4, <5>1, <6>1, <6>2
        <5>. QED  BY <5>1
      <4>. QED  BY <2>4, <2>6, <3>4, <4>1
    <3>. QED  BY <1>1, <2>1, <3>1, <3>2, <3>3, <3>4 DEF CopiesUpto
  <2>7. CASE ~(Matches(t, w, i) /\ \A j \in A : j + m <= i)
    <3>1. found[i] = A
      BY <2>2, <2>3, <2>7 DEF Found
    <3>2. A \in SUBSET (1..i)
      BY <2>5
    <3>. QED  BY <1>1, <2>1, <2>4, <3>1, <3>2 DEF CopiesUpto
  <2>. QED  BY <2>6, <2>7
<1>. HIDE DEF T
<1>12. L \in T
  <2>1. \A i \in 0..L : i \in T
    BY <1>10, <1>11, Stepwise
  <2>. QED  BY <2>1
<1>13. Positions(t, w) = found[L]
  BY <1>1 DEF Positions, found, Found
<1>. QED  BY <1>1, <1>12, <1>13 DEF T

LEMMA FoundCopies ==
  ASSUME NEW S, NEW t \in Seq(S), NEW w \in Seq(S), NEW P, P = Positions(t, w)
  PROVE  P \in Copies(t, w, Count(t, w))
<1>1. P \in CopiesUpto(t, w, Len(t)) /\ DOMAIN t = 1..Len(t)
  BY PositionsAreCopies, LenProperties
<1>2. Cardinality(P) = Count(t, w)
  BY DEF Count
<1>. QED  BY <1>1, <1>2 DEF Copies, CopiesUpto

(* Left of a text, the copies before it have shifted it by what they gained. *)
LEMMA ReplacedCopies ==
  ASSUME NEW S, NEW t \in Seq(S), NEW w \in Seq(S), NEW new \in Seq(S), w # <<>>,
         NEW P, P = Positions(t, w)
  PROVE  Replaced(t, P, w, new, Replace(t, w, new))
<1>1. PICK L \in Nat, m \in Nat, c \in Nat, d \in Int :
        L = Len(t) /\ m = Len(w) /\ c = Len(new) /\ d = c - m /\ m >= 1
  <2>1. Len(t) \in Nat /\ Len(w) \in Nat /\ Len(new) \in Nat /\ Len(w) >= 1
    BY LenProperties, EmptySeq
  <2>. QED  BY <2>1
<1>2. /\ P \in SUBSET (1..L) /\ DOMAIN t = 1..L
      /\ \A j \in P : j + m - 1 <= L
      /\ \A j, k \in P : j < k => j + m <= k
  <2>1. P \in CopiesUpto(t, w, Len(t))
    BY PositionsAreCopies
  <2>. QED  BY <1>1, <2>1, LenProperties DEF CopiesUpto, Matches
<1>. DEFINE Inside(i) == \E j \in P : j < i /\ i < j + m
            ss == [i \in DOMAIN t |->
                     CASE i \in P                                     -> new
                       [] \E j \in P : j < i /\ i < j + Len(w)        -> <<>>
                       [] OTHER                                       -> <<t[i]>>]
            Gain(i) == Upto(P, i) * d
<1>3. ASSUME NEW i \in P PROVE ~Inside(i)
  BY <1>1, <1>2
<1>4. \A i \in 1..L : /\ i \in P => ss[i] = new
                      /\ i \notin P /\ Inside(i) => ss[i] = <<>>
                      /\ i \notin P /\ ~Inside(i) => ss[i] = <<t[i]>>
  BY <1>1, <1>2
<1>5. DOMAIN ss = DOMAIN t /\ ss = [i \in DOMAIN t |-> ss[i]]
  OBVIOUS
<1>6. PICK u : u = Replace(t, w, new)
  OBVIOUS
<1>7. u = FlattenSeq(ss)
  BY <1>6 DEF Replace
<1>. HIDE DEF ss
<1>8. \A i \in 1..L : ss[i] \in Seq(S)
  <2>1. ASSUME NEW i \in 1..L PROVE <<t[i]>> \in Seq(S) /\ <<>> \in Seq(S)
    <3>1. t[i] \in S
      BY <1>1, ElementOfSeq
    <3>. QED  BY <3>1, Singletons, EmptySeq
  <2>2. ASSUME NEW i \in 1..L PROVE ss[i] = new \/ ss[i] = <<>> \/ ss[i] = <<t[i]>>
    BY <1>4
  <2>. QED  BY <2>1, <2>2
<1>9. ss \in Seq(Seq(S)) /\ Len(ss) = L
  <2>1. ss \in Seq(Seq(S))
    BY <1>2, <1>5, <1>8, OnePerCharacter
  <2>2. DOMAIN ss = 1..Len(ss) /\ Len(ss) \in Nat
    BY <2>1, LenProperties
  <2>. QED  BY <1>1, <1>2, <1>5, <2>1, <2>2
<1>10. u \in Seq(S) /\ Places(ss, u) # {}
  BY <1>7, <1>9, Pieces
<1>11. PICK o \in [0..L -> Nat] :
         /\ o[0] = 0 /\ o[L] = Len(u)
         /\ \A n \in 1..L : o[n] = o[n - 1] + Len(ss[n])
         /\ \A n \in 1..L : \A k \in 1..Len(ss[n]) : u[o[n - 1] + k] = ss[n][k]
         /\ \A n \in 0..L : o[n] <= Len(u)
  BY <1>9, <1>10 DEF Places
<1>12. ASSUME NEW i \in 1..L
       PROVE  /\ i \in P => o[i] = o[i - 1] + c
              /\ i \notin P /\ Inside(i) => o[i] = o[i - 1]
              /\ i \notin P /\ ~Inside(i) => o[i] = o[i - 1] + 1
  <2>1. o[i] = o[i - 1] + Len(ss[i]) /\ o[i - 1] \in Nat
    <3>1. i - 1 \in 0..L
      OBVIOUS
    <3>. QED  BY <1>11, <3>1
  <2>2. Len(<<t[i]>>) = 1 /\ Len(<<>>) = 0
    OBVIOUS
  <2>3. i \in P => Len(ss[i]) = c
    BY <1>1, <1>4
  <2>4. i \notin P /\ Inside(i) => Len(ss[i]) = 0
    BY <1>4, <2>2
  <2>5. i \notin P /\ ~Inside(i) => Len(ss[i]) = 1
    BY <1>4, <2>2
  <2>b. PICK b, l : b = o[i] /\ l = Len(ss[i])
    OBVIOUS
  <2>6. PICK a \in Nat : a = o[i - 1] /\ b = o[i] /\ l = Len(ss[i]) /\ b = a + l
    BY <2>1, <2>b
  <2>7. CASE i \in P
    BY <2>3, <2>6, <2>7
  <2>8. CASE i \notin P /\ Inside(i)
    <3>1. l = 0
      BY <2>4, <2>6, <2>8
    <3>. QED  BY <2>6, <2>8, <3>1
  <2>9. CASE i \notin P /\ ~Inside(i)
    <3>1. l = 1
      BY <2>5, <2>6, <2>9
    <3>. QED  BY <2>6, <2>9, <3>1
  <2>. QED  BY <2>7, <2>8, <2>9
<1>13. Gain(0) = 0 /\ Gain(L) = Cardinality(P) * d /\ \A i \in 0..L : Gain(i) \in Int
  <2>1. Upto(P, 0) = 0 /\ Upto(P, L) = Cardinality(P) /\ \A i \in 0..L : Upto(P, i) \in Nat
    BY <1>2, Counting
  <2>. QED  BY <1>1, <2>1
<1>14. ASSUME NEW i \in 1..L PROVE Gain(i) = Gain(i - 1) + (IF i \in P THEN d ELSE 0)
  <2>1. i - 1 \in 0..L /\ i \in 0..L
    OBVIOUS
  <2>2. \A k \in 0..L : Upto(P, k) \in Nat
    BY <1>2, Counting
  <2>3. PICK x \in Nat, y \in Nat : x = Upto(P, i - 1) /\ y = Upto(P, i)
    BY <2>1, <2>2
  <2>4. y = x + (IF i \in P THEN 1 ELSE 0)
    <3>1. PICK Q \in SUBSET (1..L) : Q = P
      BY <1>2
    <3>2. \A k \in 1..L : Upto(Q, k) = Upto(Q, k - 1) + (IF k \in Q THEN 1 ELSE 0)
      BY Counting
    <3>. QED  BY <2>3, <3>1, <3>2
  <2>5. CASE i \in P
    <3>1. y = x + 1
      BY <2>4, <2>5
    <3>2. (x + 1) * d = x * d + d
      OBVIOUS
    <3>. QED  BY <2>3, <2>5, <3>1, <3>2
  <2>6. CASE i \notin P
    <3>1. y = x /\ x * d \in Int /\ x * d = x * d + 0
      BY <2>4, <2>6
    <3>. QED  BY <2>3, <2>6, <3>1
  <2>. QED  BY <2>5, <2>6
<1>. HIDE DEF Gain
<1>. DEFINE Within(i) == \E j \in P : j <= i /\ i < j + m - 1
            Good(i) == /\ ~Within(i) => o[i] = i + Gain(i)
                       /\ \A j \in P : j <= i /\ i <= j + m - 1 => o[i] = j + m - 1 + Gain(i)
            T == {i \in 0..L : Good(i)}
<1>15. 0 \in T
  <2>1. 0 \in 0..L /\ \A j \in P : j \in Nat /\ ~(j <= 0)
    BY <1>2
  <2>2. o[0] = 0 + Gain(0)
    BY <1>11, <1>13
  <2>3. \A j \in P : j <= 0 /\ 0 <= j + m - 1 => o[0] = j + m - 1 + Gain(0)
    BY <2>1
  <2>. QED  BY <2>1, <2>2, <2>3
<1>16. ASSUME NEW i \in 1..L, i - 1 \in T PROVE i \in T
  <2>1. i - 1 \in 0..L /\ i \in 0..L /\ Good(i - 1)
    BY <1>16
  <2>2. \A j \in P : j \in Nat
    BY <1>2
  <2>3. PICK a \in Nat, b \in Nat, g \in Int, h \in Int :
          a = o[i - 1] /\ b = o[i] /\ g = Gain(i - 1) /\ h = Gain(i)
    BY <1>11, <1>13, <2>1
  <2>4. h = g + (IF i \in P THEN d ELSE 0)
    BY <1>14, <2>3
  <2>5. /\ ~Within(i - 1) => a = i - 1 + g
        /\ \A j \in P : j <= i - 1 /\ i - 1 <= j + m - 1 => a = j + m - 1 + g
    BY <2>1, <2>3
  <2>6. CASE i \in P
    <3>1. ~Within(i - 1)
      BY <1>1, <1>2, <2>2, <2>6
    <3>2. b = a + c /\ h = g + d
      BY <1>12, <2>3, <2>4, <2>6
    <3>3. b = i + m - 1 + h
      <4>1. a = i - 1 + g
        BY <2>5, <3>1
      <4>. QED  BY <1>1, <3>2, <4>1
    <3>4. ASSUME NEW j \in P, j <= i, i <= j + m - 1 PROVE j = i
      BY <1>1, <1>2, <2>2, <2>6, <3>4
    <3>5. ~Within(i) => b = i + h
      <4>1. ASSUME ~Within(i) PROVE m = 1
        BY <1>1, <2>2, <2>6, <4>1
      <4>. QED  BY <3>3, <4>1
    <3>. QED  BY <2>1, <2>3, <3>3, <3>4, <3>5
  <2>7. CASE i \notin P /\ Inside(i)
    <3>1. PICK j \in P : j < i /\ i < j + m
      BY <2>7
    <3>2. b = a /\ h = g
      BY <1>12, <2>3, <2>4, <2>7
    <3>3. j <= i - 1 /\ i - 1 <= j + m - 1
      BY <1>1, <2>2, <3>1
    <3>4. b = j + m - 1 + h
      BY <2>5, <3>2, <3>3
    <3>5. ASSUME NEW k \in P, k <= i, i <= k + m - 1 PROVE k = j
      <4>1. k < i
        <5>1. k # i
          BY <2>7
        <5>. QED  BY <2>2, <3>5, <5>1
      <4>2. ~(j < k) /\ ~(k < j)
        BY <1>1, <1>2, <2>2, <3>1, <3>5, <4>1
      <4>. QED  BY <2>2, <4>2
    <3>6. ~Within(i) => b = i + h
      <4>1. ASSUME ~Within(i) PROVE i = j + m - 1
        <5>1. j \in Nat /\ j <= i
          BY <2>2, <3>1
        <5>2. ~(i < j + m - 1)
          BY <4>1, <5>1
        <5>. QED  BY <1>1, <3>1, <5>1, <5>2
      <4>. QED  BY <3>4, <4>1
    <3>. QED  BY <2>1, <2>3, <3>4, <3>5, <3>6
  <2>8. CASE i \notin P /\ ~Inside(i)
    <3>1. b = a + 1 /\ h = g
      BY <1>12, <2>3, <2>4, <2>8
    <3>2. ASSUME NEW j \in P, j <= i - 1, i - 1 < j + m - 1 PROVE FALSE
      <4>1. j \in Nat /\ j < i /\ i < j + m
        BY <1>1, <2>2, <3>2
      <4>. QED  BY <2>8, <4>1
    <3>3. b = i + h
      BY <2>5, <3>1, <3>2
    <3>4. ASSUME NEW j \in P, j <= i, i <= j + m - 1 PROVE FALSE
      <4>1. j # i
        BY <2>8
      <4>. QED  BY <1>1, <2>2, <2>8, <3>4, <4>1
    <3>. QED  BY <2>1, <2>3, <3>3, <3>4
  <2>. QED  BY <2>6, <2>7, <2>8
<1>. HIDE DEF T
<1>17. \A i \in 0..L : Good(i)
  <2>1. \A i \in 0..L : i \in T
    BY <1>15, <1>16, Stepwise
  <2>. QED  BY <2>1 DEF T
<1>18. Len(u) = L + Cardinality(P) * d
  <2>1. ~Within(L)
    BY <1>1, <1>2
  <2>2. L \in 0..L /\ Good(L)
    BY <1>17
  <2>. QED  BY <1>11, <1>13, <2>1, <2>2
<1>. DEFINE shift(i) == Cardinality({j \in P : j < i}) * d
<1>19. ASSUME NEW i \in 1..L, ~Inside(i) PROVE i + shift(i) = o[i - 1] + 1
  <2>1. i - 1 \in 0..L /\ Good(i - 1) /\ \A j \in P : j \in Nat
    BY <1>2, <1>17
  <2>2. ~Within(i - 1)
    BY <1>1, <1>19, <2>1
  <2>3. o[i - 1] = i - 1 + Gain(i - 1)
    BY <2>1, <2>2
  <2>4. {j \in P : j < i} = {j \in P : j <= i - 1}
    <3>1. ASSUME NEW j \in P PROVE j < i <=> j <= i - 1
      BY <2>1
    <3>. QED  BY <3>1
  <2>5. shift(i) = Gain(i - 1)
    BY <2>4 DEF Upto, Gain
  <2>6. Gain(i - 1) \in Int
    BY <1>13, <2>1
  <2>. HIDE DEF shift, Good, Within
  <2>. QED  BY <2>3, <2>5, <2>6
<1>20. ASSUME NEW i \in P PROVE new = <<>> \/ Matches(u, new, i + shift(i))
  <2>1. i \in 1..L /\ i - 1 \in 0..L /\ ss[i] = new
    BY <1>2, <1>4
  <2>2. i + shift(i) = o[i - 1] + 1
    BY <1>3, <1>19, <2>1
  <2>3. PICK a \in Nat, b \in Nat : a = o[i - 1] /\ b = o[i]
    BY <1>11, <2>1
  <2>4. b = a + c /\ b <= Len(u)
    BY <1>11, <1>12, <2>1, <2>3
  <2>5. \A k \in 1..c : u[a + k] = new[k]
    BY <1>1, <1>11, <2>1, <2>3
  <2>6. PICK v : v = SubSeq(u, a + 1, b)
    OBVIOUS
  <2>7. Len(u) \in Nat /\ a \in 0..Len(u) /\ b \in 0..Len(u) /\ a <= b /\ b - a = c
    <3>1. Len(u) \in Nat
      BY <1>10, LenProperties
    <3>. QED  BY <2>3, <2>4, <3>1
  <2>8. v \in Seq(S) /\ Len(v) = c /\ \A k \in 1..c : v[k] = u[a + k]
    <3>1. /\ v \in Seq(S) /\ Len(v) = b - a
          /\ \A k \in 1..(b - a) : v[k] = u[a + k]
      BY <1>10, <2>6, <2>7, Slice
    <3>. QED  BY <2>7, <3>1
  <2>9. v = new
    BY <1>1, <2>5, <2>8, SeqEqual
  <2>10. (a + 1) + Len(new) - 1 = b
    BY <1>1, <2>4
  <2>11. Matches(u, new, a + 1)
    BY <2>4, <2>6, <2>9, <2>10 DEF Matches
  <2>. QED  BY <2>2, <2>3, <2>11
<1>21. ASSUME NEW i \in 1..L, \A j \in P : i \notin j..(j + m - 1)
       PROVE  u[i + shift(i)] = t[i]
  <2>1. i \notin P /\ ~Inside(i)
    BY <1>1, <1>2, <1>21
  <2>2. ss[i] = <<t[i]>> /\ Len(<<t[i]>>) = 1 /\ <<t[i]>>[1] = t[i]
    BY <1>4, <2>1
  <2>3. u[o[i - 1] + 1] = t[i]
    <3>1. 1 \in 1..Len(ss[i]) /\ ss[i][1] = t[i]
      BY <2>2
    <3>. QED  BY <1>11, <3>1
  <2>4. i + shift(i) = o[i - 1] + 1
    BY <1>19, <2>1
  <2>. QED  BY <2>3, <2>4
<1>. HIDE DEF Inside
<1>22. Replaced(t, P, w, new, u)
  BY <1>1, <1>2, <1>18, <1>20, <1>21 DEF Replaced
<1>. QED  BY <1>6, <1>22

-----------------------------------------------------------------------------
(* Diffs *)

Hunk ==
  [start : Nat, oldCount : Nat, newCount : Nat, old : Seq(LFText), new : Seq(LFText),
   last : {"none", " ", "-", "+"}]
Paths == {"raw", "other", "unusable", "none"}
Patch == [path : Paths, hunks : Seq(Hunk)]
Parser ==
  {s \in [mode : {"top", "old", "headed", "hunk"}, path : Paths, files : Seq(Patch)] :
     /\ s.mode \in {"headed", "hunk"} => s.files # <<>>
     /\ s.mode = "hunk" => Last(s.files).hunks # <<>>}

LEMMA LastAndFront ==
  ASSUME NEW S, NEW t \in Seq(S), t # <<>>
  PROVE  /\ Len(t) \in 1..Len(t) /\ Last(t) \in S /\ Last(t) = t[Len(t)]
         /\ Front(t) \in Seq(S) /\ Len(Front(t)) = Len(t) - 1
<1>1. PICK n \in Nat : n = Len(t) /\ n # 0
  BY EmptySeq
<1>2. n \in 1..n /\ n - 1 \in 0..n
  BY <1>1
<1>3. t[n] \in S
  BY <1>1, <1>2, ElementOfSeq
<1>4. SubSeq(t, 1, n - 1) \in Seq(S) /\ Len(SubSeq(t, 1, n - 1)) = n - 1
  BY <1>1, <1>2, Prefix
<1>. QED  BY <1>1, <1>2, <1>3, <1>4 DEF Last, Front

LEMMA ChoppedLines ==
  ASSUME NEW lines \in Seq(LFText), EndsWithNewline(lines)
  PROVE  Chopped(lines) \in Seq(LFText)
<1>1. lines # <<>> /\ Last(lines) # <<>>
  BY DEF EndsWithNewline
<1>2. PICK n \in 1..Len(lines), x \in LFText : n = Len(lines) /\ x = lines[n] /\ x = Last(lines)
  BY <1>1, LastAndFront
<1>3. Front(x) \in LFText
  BY <1>1, <1>2, Characters, LastAndFront
<1>4. Chopped(lines) = [lines EXCEPT ![n] = Front(x)]
  BY <1>2, Zenon DEF Chopped
<1>. QED  BY <1>3, <1>4, ExceptSeq

LEMMA LineOfHunk ==
  ASSUME NEW hunk \in Hunk, NEW line \in DiffLine, line.mark \in {" ", "-", "+"}
  PROVE  AddLine(hunk, line) \subseteq Hunk
<1>1. line.text \in LFText
  BY DEF DiffLine, LineText
<1>2. hunk.old \in Seq(LFText) /\ hunk.new \in Seq(LFText)
  BY DEF Hunk
<1>3. PICK old, new :
        /\ old = IF "old" \in Sides(line.mark) THEN Append(hunk.old, line.text) ELSE hunk.old
        /\ new = IF "new" \in Sides(line.mark) THEN Append(hunk.new, line.text) ELSE hunk.new
  OBVIOUS
<1>4. old \in Seq(LFText) /\ new \in Seq(LFText)
  BY <1>1, <1>2, <1>3, AppendProperties
<1>5. AddLine(hunk, line) = {[hunk EXCEPT !.last = line.mark, !.old = old, !.new = new]}
  BY <1>3 DEF AddLine
<1>. QED  BY <1>4, <1>5 DEF Hunk

LEMMA NewlineRemoved ==
  ASSUME NEW hunk \in Hunk
  PROVE  RemoveLastNewline(hunk) \subseteq Hunk
<1>1. SUFFICES ASSUME hunk.last # "none",
                      \A side \in Sides(hunk.last) : EndsWithNewline(hunk[side])
               PROVE  RemoveLastNewline(hunk) \subseteq Hunk
  BY DEF RemoveLastNewline
<1>2. hunk.old \in Seq(LFText) /\ hunk.new \in Seq(LFText)
  BY DEF Hunk
<1>3. PICK old, new :
        /\ old = IF "old" \in Sides(hunk.last) THEN Chopped(hunk.old) ELSE hunk.old
        /\ new = IF "new" \in Sides(hunk.last) THEN Chopped(hunk.new) ELSE hunk.new
  OBVIOUS
<1>4. /\ "old" \in Sides(hunk.last) => EndsWithNewline(hunk.old)
      /\ "new" \in Sides(hunk.last) => EndsWithNewline(hunk.new)
  BY <1>1
<1>5. old \in Seq(LFText) /\ new \in Seq(LFText)
  BY <1>2, <1>3, <1>4, ChoppedLines
<1>6. RemoveLastNewline(hunk) = {[hunk EXCEPT !.old = old, !.new = new]}
  BY <1>1, <1>3 DEF RemoveLastNewline
<1>. QED  BY <1>5, <1>6 DEF Hunk

LEMMA HunksSet ==
  ASSUME NEW s \in Parser, s.files # <<>>, NEW hunks \in Seq(Hunk), hunks # <<>>
  PROVE  WithHunks(s, hunks) \in Parser
<1>1. s.files \in Seq(Patch)
  BY DEF Parser
<1>2. PICK files \in Seq(Patch), n \in 1..Len(s.files) : files = s.files /\ n = Len(files)
  BY <1>1, LastAndFront
<1>3. files[n] \in Patch
  BY <1>2, ElementOfSeq
<1>4. PICK q \in Patch : q = [files[n] EXCEPT !.hunks = hunks] /\ q.hunks = hunks
  <2>1. PICK p, H : p = files[n] /\ H = Seq(Hunk)
    OBVIOUS
  <2>2. p \in [path : Paths, hunks : H] /\ hunks \in H
    BY <1>3, <2>1 DEF Patch
  <2>3. [p EXCEPT !.hunks = hunks] \in [path : Paths, hunks : H]
           /\ [p EXCEPT !.hunks = hunks].hunks = hunks
    BY <2>2
  <2>. QED  BY <2>1, <2>3 DEF Patch
<1>5. PICK new \in Seq(Patch) : new = [files EXCEPT ![n] = q] /\ Len(new) = n /\ new[n] = q
  <2>1. n \in 1..Len(files)
    BY <1>2
  <2>2. [files EXCEPT ![n] = q] \in Seq(Patch) /\ Len([files EXCEPT ![n] = q]) = Len(files)
    BY <2>1, ExceptSeq
  <2>3. [files EXCEPT ![n] = q][n] = q
    BY <2>1, ExceptSeq
  <2>. QED  BY <1>2, <2>2, <2>3
<1>6. new # <<>> /\ Last(new).hunks # <<>>
  <2>1. new # <<>>
    BY <1>2, <1>5, EmptySeq
  <2>. QED  BY <1>4, <1>5, <2>1 DEF Last
<1>7. WithHunks(s, hunks) = [s EXCEPT !.mode = "hunk", !.files = new]
  BY <1>2, <1>4, <1>5 DEF WithHunks
<1>. QED  BY <1>5, <1>6, <1>7 DEF Parser

LEMMA LineParsed ==
  ASSUME NEW s \in Parser, NEW line \in DiffLine
  PROVE  ParseLine(s, line) \subseteq Parser
<1>1. /\ s.files \in Seq(Patch) /\ s.path \in Paths
      /\ s.mode \in {"headed", "hunk"} => s.files # <<>>
      /\ s.mode = "hunk" => Last(s.files).hunks # <<>>
  BY DEF Parser
<1>2. ASSUME s.mode \in {"headed", "hunk"}
      PROVE  s.files # <<>> /\ Last(s.files).hunks \in Seq(Hunk)
  <2>1. Last(s.files) \in Patch
    BY <1>1, <1>2, LastAndFront
  <2>. QED  BY <1>1, <1>2, <2>1 DEF Patch
<1>3. CASE s.mode = "hunk" /\ line.mark \in {" ", "-", "+", "\\"}
  <2>1. PICK hunks \in Seq(Hunk) : hunks = Last(s.files).hunks /\ hunks # <<>>
    BY <1>1, <1>2, <1>3
  <2>2. Last(hunks) \in Hunk /\ Front(hunks) \in Seq(Hunk)
    BY <2>1, LastAndFront
  <2>3. PICK new : new = IF line.mark = "\\" THEN RemoveLastNewline(Last(hunks))
                                             ELSE AddLine(Last(hunks), line)
    OBVIOUS
  <2>4. new \subseteq Hunk
    BY <1>3, <2>2, <2>3, LineOfHunk, NewlineRemoved
  <2>5. ASSUME NEW h \in new PROVE WithHunks(s, Append(Front(hunks), h)) \in Parser
    <3>1. Append(Front(hunks), h) \in Seq(Hunk) /\ Append(Front(hunks), h) # <<>>
      BY <2>2, <2>4, AppendProperties
    <3>. QED  BY <1>2, <1>3, <3>1, HunksSet
  <2>6. ParseLine(s, line) = {WithHunks(s, Append(Front(hunks), h)) : h \in new}
    BY <1>3, <2>1, <2>3 DEF ParseLine
  <2>. QED  BY <2>5, <2>6
<1>4. CASE s.mode \in {"headed", "hunk"} /\ line.mark = "@@" /\ HunkClosed(s)
  <2>1. PICK hunks \in Seq(Hunk) : hunks = Last(s.files).hunks
    BY <1>2, <1>4
  <2>2. OpenHunk(line) \subseteq Hunk
    <3>1. line.oldStart \in Nat /\ line.oldCount \in Nat /\ line.newCount \in Nat
      BY <1>4 DEF DiffLine
    <3>2. PICK L, none : L = Seq(LFText) /\ none = <<>> /\ none \in L
      BY EmptySeq
    <3>3. [start |-> line.oldStart, oldCount |-> line.oldCount, newCount |-> line.newCount,
           old |-> none, new |-> none, last |-> "none"]
            \in [start : Nat, oldCount : Nat, newCount : Nat, old : L, new : L,
                 last : {"none", " ", "-", "+"}]
      BY <3>1, <3>2
    <3>. QED  BY <3>2, <3>3, Zenon DEF OpenHunk, Hunk
  <2>3. ASSUME NEW h \in OpenHunk(line) PROVE WithHunks(s, Append(hunks, h)) \in Parser
    <3>1. Append(hunks, h) \in Seq(Hunk) /\ Append(hunks, h) # <<>>
      BY <2>1, <2>2, AppendProperties
    <3>. QED  BY <1>2, <1>4, <3>1, HunksSet
  <2>4. ParseLine(s, line) = {WithHunks(s, Append(hunks, h)) : h \in OpenHunk(line)}
    BY <1>4, <2>1 DEF ParseLine
  <2>. QED  BY <2>3, <2>4
<1>5. CASE s.mode = "old" /\ line.mark = "+++" /\ line.path = s.path
             /\ (\A k \in DOMAIN s.files : s.files[k].path # s.path)
  <2>1. PICK p \in Patch : p = [path |-> s.path, hunks |-> <<>>]
    BY <1>1, EmptySeq DEF Patch
  <2>2. Append(s.files, p) \in Seq(Patch) /\ Append(s.files, p) # <<>>
    BY <1>1, AppendProperties
  <2>3. [s EXCEPT !.mode = "headed", !.files = Append(s.files, p)] \in Parser
    BY <2>2 DEF Parser
  <2>4. ParseLine(s, line) = {[s EXCEPT !.mode = "headed", !.files = Append(s.files, p)]}
    BY <1>5, <2>1 DEF ParseLine
  <2>. QED  BY <2>3, <2>4
<1>6. CASE s.mode \in {"top", "hunk"} /\ line.mark = "---" /\ HunkClosed(s)
             /\ line.path # "unusable"
  <2>1. line.path \in Paths
    BY <1>6 DEF DiffLine, Paths
  <2>2. [s EXCEPT !.mode = "old", !.path = line.path] \in Parser
    BY <2>1 DEF Parser
  <2>3. ParseLine(s, line) = {[s EXCEPT !.mode = "old", !.path = line.path]}
    BY <1>6 DEF ParseLine
  <2>. QED  BY <2>2, <2>3
<1>7. CASE s.mode = "top" /\ line.mark \in {"diff --git", "index"}
  BY <1>7 DEF ParseLine
<1>8. CASE s.mode = "hunk" /\ line.mark = "diff --git" /\ HunkClosed(s)
  <2>1. [s EXCEPT !.mode = "top"] \in Parser
    BY DEF Parser
  <2>. QED  BY <1>8, <2>1 DEF ParseLine
<1>9. CASE ~ \/ s.mode = "hunk" /\ line.mark \in {" ", "-", "+", "\\"}
             \/ s.mode \in {"headed", "hunk"} /\ line.mark = "@@" /\ HunkClosed(s)
             \/ s.mode = "top" /\ line.mark \in {"diff --git", "index"}
             \/ s.mode = "hunk" /\ line.mark = "diff --git" /\ HunkClosed(s)
             \/ s.mode \in {"top", "hunk"} /\ line.mark = "---" /\ HunkClosed(s)
                  /\ line.path # "unusable"
             \/ s.mode = "old" /\ line.mark = "+++" /\ line.path = s.path
                  /\ (\A k \in DOMAIN s.files : s.files[k].path # s.path)
  <2>1. ParseLine(s, line) = {}
    BY <1>9, Zenon DEF ParseLine
  <2>. QED  BY <2>1
<1>. QED  BY <1>3, <1>4, <1>5, <1>6, <1>7, <1>8, <1>9

(* The states of the parser on the way to the files it returns. *)
LEMMA ParserRun ==
  ASSUME NEW document \in Seq(DiffLine), NEW files \in ParseUnifiedDiff(document),
         NEW N, N = Len(document)
  PROVE  \E f \in [0..N -> Parser] :
           /\ f[0] = Blank /\ f[N].files = files
           /\ \A n \in 1..N : f[n] \in ParseLine(f[n - 1], document[n])
<1>1. N \in Nat
  BY LenProperties
<1>2. \A n \in 1..N : document[n] \in DiffLine
  BY ElementOfSeq
<1>3. Blank \in Parser
  <2>1. PICK P, none : P = Seq(Patch) /\ none = <<>> /\ none \in P
    BY EmptySeq
  <2>2. [mode |-> "top", path |-> "none", files |-> none]
          \in [mode : {"top", "old", "headed", "hunk"}, path : Paths, files : P]
    BY <2>1 DEF Paths
  <2>. QED  BY <2>1, <2>2 DEF Blank, Parser
<1>4. ASSUME NEW n \in 1..N, NEW s \in Parser PROVE ParseLine(s, document[n]) \subseteq Parser
  BY <1>2, <1>4, LineParsed
<1>. DEFINE moves == [n \in 1..N |-> [s \in Parser |-> ParseLine(s, document[n])]]
            Body(f) == [n \in 0..N |-> IF n = 0 THEN {Blank}
                                       ELSE UNION {ParseLine(s, document[n]) : s \in f[n - 1]}]
            step == [n \in 1..N |-> [A \in SUBSET Parser |-> UNION {ParseLine(s, document[n]) : s \in A}]]
            after == CHOOSE f : f = Body(f)
<1>5. moves \in [1..N -> [Parser -> SUBSET Parser]]
  BY <1>4
<1>6. step \in Steps(N, SUBSET Parser)
  <2>1. ASSUME NEW n \in 1..N, NEW A \in SUBSET Parser
        PROVE  UNION {ParseLine(s, document[n]) : s \in A} \in SUBSET Parser
    BY <1>4
  <2>. QED  BY <2>1 DEF Steps
<1>7. \E f \in [0..N -> SUBSET Parser] : f = Body(f)
  <2>1. PICK D, base, add : D = SUBSET Parser /\ base = {Blank} /\ add = step
    OBVIOUS
  <2>2. base \in D /\ add \in Steps(N, D) /\ N \in Nat
    BY <1>1, <1>3, <1>6, <2>1
  <2>3. PICK F \in [0..N -> D] : F[0] = base /\ \A n \in 1..N : F[n] = add[n][F[n - 1]]
    BY <2>2, Recursion
  <2>4. ASSUME NEW n \in 0..N
        PROVE  F[n] = IF n = 0 THEN {Blank}
                      ELSE UNION {ParseLine(s, document[n]) : s \in F[n - 1]}
    <3>1. CASE n = 0
      BY <2>1, <2>3, <3>1
    <3>2. CASE n # 0
      <4>1. n \in 1..N /\ n - 1 \in 0..N
        BY <3>2
      <4>2. F[n - 1] \in SUBSET Parser
        BY <2>1, <2>3, <4>1
      <4>3. F[n] = step[n][F[n - 1]]
        BY <2>1, <2>3, <4>1
      <4>. QED  BY <3>2, <4>1, <4>2, <4>3
    <3>. QED  BY <3>1, <3>2
  <2>5. F = Body(F)
    BY <2>4
  <2>. QED  BY <2>1, <2>3, <2>5
<1>8. after = Body(after)
  BY <1>7
<1>. HIDE DEF after
<1>9. after[0] = {Blank} /\ \A n \in 1..N : after[n] = UNION {ParseLine(s, document[n]) : s \in after[n - 1]}
  <2>1. \A n \in 0..N : after[n] = IF n = 0 THEN {Blank}
                                    ELSE UNION {ParseLine(s, document[n]) : s \in after[n - 1]}
    BY <1>8
  <2>2. 0 \in 0..N /\ \A n \in 1..N : n \in 0..N /\ n # 0
    BY <1>1
  <2>. QED  BY <2>1, <2>2
<1>10. PICK r \in after[N] : files = r.files
  BY DEF ParseUnifiedDiff, after
<1>11. ASSUME NEW n \in 1..N, after[n - 1] \subseteq Parser, NEW x \in after[n]
       PROVE  \E s \in after[n - 1] : x \in moves[n][s]
  <2>1. PICK s \in after[n - 1] : x \in ParseLine(s, document[n])
    BY <1>9, <1>11
  <2>2. s \in Parser
    BY <1>11
  <2>3. moves[n][s] = ParseLine(s, document[n])
    BY <2>2
  <2>. QED  BY <2>1, <2>3
<1>. HIDE DEF moves
<1>12. PICK f \in Run(N, Parser, Blank, moves) : f[N] = r
  <2>1. Stages(after, N, Parser, Blank, moves)
    BY <1>1, <1>3, <1>5, <1>9, <1>11 DEF Stages
  <2>2. r \in Reach(N, Parser, Blank, moves)
    BY <1>10, <2>1, Runs
  <2>. QED  BY <2>2 DEF Reach
<1>13. f \in [0..N -> Parser] /\ f[0] = Blank /\ \A n \in 1..N : f[n] \in moves[n][f[n - 1]]
  BY <1>12 DEF Run
<1>14. ASSUME NEW n \in 1..N PROVE f[n] \in ParseLine(f[n - 1], document[n])
  <2>1. f[n - 1] \in Parser
    BY <1>1, <1>13
  <2>2. moves[n][f[n - 1]] = ParseLine(f[n - 1], document[n])
    BY <2>1 DEF moves
  <2>. QED  BY <1>13, <2>2
<1>. QED  BY <1>10, <1>12, <1>13, <1>14

LEMMA ParsedDiff ==
  ASSUME NEW document \in Seq(DiffLine), NEW files \in ParseUnifiedDiff(document)
  PROVE  files \in Seq(Patch)
<1>1. PICK N \in Nat : N = Len(document)
  BY LenProperties
<1>2. PICK f \in [0..N -> Parser] : f[N].files = files
  BY <1>1, ParserRun
<1>3. f[N] \in Parser
  BY <1>1, <1>2
<1>. QED  BY <1>2, <1>3 DEF Parser

LEMMA AppliedHunk ==
  ASSUME NEW source \in Seq(LFText), NEW hunk \in Hunk,
         NEW s \in [cursor : 0..Len(source), output : LFText]
  PROVE  ApplyHunk(source, s, hunk) \subseteq [cursor : 0..Len(source), output : LFText]
<1>0. PICK L \in Nat : L = Len(source)
  BY LenProperties
<1>1. PICK from \in 0..L, out \in Seq(LFChar) :
        L = Len(source) /\ from = s.cursor /\ out = s.output
  BY <1>0, Characters
<1>2. hunk.old \in Seq(LFText) /\ hunk.new \in Seq(LFText) /\ hunk.start \in Nat
  BY DEF Hunk
<1>3. PICK start \in Int, count \in Nat : start = HunkStart(hunk) /\ count = Len(hunk.old)
  BY <1>2, LenProperties DEF HunkStart
<1>4. SUFFICES ASSUME start >= from, start + count <= L
               PROVE  ApplyHunk(source, s, hunk) \subseteq [cursor : 0..Len(source), output : LFText]
  BY <1>1, <1>3 DEF ApplyHunk
<1>5. from <= start /\ start \in 0..L /\ start + count \in 0..L
  BY <1>4
<1>6. PICK kept, added : /\ kept = FlattenSeq(SubSeq(source, from + 1, start))
                         /\ added = FlattenSeq(hunk.new)
  OBVIOUS
<1>7. kept \in Seq(LFChar)
  <2>1. SubSeq(source, from + 1, start) \in Seq(LFText)
    BY <1>1, <1>5, Slice
  <2>. QED  BY <1>6, <2>1, Characters, Pieces
<1>8. added \in Seq(LFChar)
  BY <1>2, <1>6, Characters, Pieces
<1>9. out \o kept \o added \in LFText
  BY <1>7, <1>8, ConcatProperties, Characters
<1>10. ApplyHunk(source, s, hunk) \subseteq
         {[cursor |-> start + count, output |-> out \o kept \o added]}
  <2>1. ASSUME NEW r \in ApplyHunk(source, s, hunk)
        PROVE  r = [cursor |-> HunkStart(hunk) + Len(hunk.old),
                    output |-> s.output
                                 \o FlattenSeq(SubSeq(source, s.cursor + 1, HunkStart(hunk)))
                                 \o FlattenSeq(hunk.new)]
    BY <2>1, Zenon DEF ApplyHunk
  <2>2. \A r \in ApplyHunk(source, s, hunk) :
          r = [cursor |-> start + count, output |-> out \o kept \o added]
    BY <2>1, <1>1, <1>3, <1>6, Zenon
  <2>. QED  BY <2>2
<1>11. PICK u \in LFText, c \in 0..Len(source) : u = out \o kept \o added /\ c = start + count
  BY <1>1, <1>5, <1>9
<1>12. [cursor |-> c, output |-> u] \in [cursor : 0..Len(source), output : LFText]
  OBVIOUS
<1>13. ApplyHunk(source, s, hunk) \subseteq {[cursor |-> c, output |-> u]}
  BY <1>10, <1>11
<1>. QED  BY <1>12, <1>13

(* w is the source up to c; and the text a state of apply_file_diff leads   *)
(* to if the lines behind its cursor are those of w.                        *)
Agrees(w, source, c) == c <= Len(w) /\ \A i \in 1..c : w[i] = source[i]
Finished(s, w) == s.output \o FlattenSeq(SubSeq(w, s.cursor + 1, Len(w)))
Inserted(hunk, w) ==
  SubSeq(w, 1, HunkStart(hunk)) \o hunk.new
    \o SubSeq(w, HunkStart(hunk) + Len(hunk.old) + 1, Len(w))

(* The states of apply_file_diff, hunk by hunk. *)
States(source) == [cursor : 0..Len(source), output : LFText]
Begin == [cursor |-> 0, output |-> <<>>]

LEMMA SourceLines ==
  ASSUME NEW t \in LFText
  PROVE  SplitLines(t) \in Seq(LFText)
<1>1. PICK breaks, lines, e : /\ breaks = {LF, SEP} /\ lines = SplitAfter(t, breaks)
                              /\ e = LineEnds(t, breaks)
  OBVIOUS
<1>2. SplitLines(t) = lines
  BY <1>1 DEF SplitLines
<1>. QED  BY <1>1, <1>2, LinesAreTheText, Characters

LEMMA ApplyRun ==
  ASSUME NEW t \in LFText, NEW hunks \in Seq(Hunk), NEW u \in ApplyFileDiff(t, hunks),
         NEW source, source = SplitLines(t), NEW K, K = Len(hunks)
  PROVE  \E f \in [0..K -> States(source)] :
           /\ f[0] = Begin /\ u = Finished(f[K], source)
           /\ \A k \in 1..K : f[k] \in ApplyHunk(source, f[k - 1], hunks[k])
<1>1. source \in Seq(LFText)
  BY SourceLines
<1>2. K \in Nat /\ \A k \in 1..K : hunks[k] \in Hunk
  BY LenProperties, ElementOfSeq
<1>3. PICK D : D = States(source)
  OBVIOUS
<1>4. Begin \in D
  <2>1. PICK none : none = <<>> /\ none \in LFText
    BY Characters, EmptySeq
  <2>2. 0 \in 0..Len(source)
    BY <1>1, LenProperties
  <2>. QED  BY <1>3, <2>1, <2>2 DEF Begin, States
<1>5. ASSUME NEW k \in 1..K, NEW s \in D PROVE ApplyHunk(source, s, hunks[k]) \subseteq D
  BY <1>1, <1>2, <1>3, AppliedHunk DEF States
<1>. DEFINE moves == [k \in 1..K |-> [s \in D |-> ApplyHunk(source, s, hunks[k])]]
            Body(f) == [k \in 0..K |-> IF k = 0 THEN {Begin}
                                       ELSE UNION {ApplyHunk(source, s, hunks[k]) : s \in f[k - 1]}]
            step == [k \in 1..K |-> [A \in SUBSET D |-> UNION {ApplyHunk(source, s, hunks[k]) : s \in A}]]
            after == CHOOSE f : f = Body(f)
<1>6. moves \in [1..K -> [D -> SUBSET D]]
  BY <1>5
<1>7. step \in Steps(K, SUBSET D)
  <2>1. ASSUME NEW k \in 1..K, NEW A \in SUBSET D
        PROVE  UNION {ApplyHunk(source, s, hunks[k]) : s \in A} \in SUBSET D
    BY <1>5
  <2>. QED  BY <2>1 DEF Steps
<1>8. \E f : f = Body(f)
  <2>1. PICK E, base, add : E = SUBSET D /\ base = {Begin} /\ add = step
    OBVIOUS
  <2>2. base \in E /\ add \in Steps(K, E) /\ K \in Nat
    BY <1>2, <1>4, <1>7, <2>1
  <2>3. PICK F \in [0..K -> E] : F[0] = base /\ \A k \in 1..K : F[k] = add[k][F[k - 1]]
    BY <2>2, Recursion
  <2>4. ASSUME NEW k \in 0..K
        PROVE  F[k] = IF k = 0 THEN {Begin}
                      ELSE UNION {ApplyHunk(source, s, hunks[k]) : s \in F[k - 1]}
    <3>1. CASE k = 0
      BY <2>1, <2>3, <3>1
    <3>2. CASE k # 0
      <4>1. k \in 1..K /\ k - 1 \in 0..K
        BY <3>2
      <4>2. F[k - 1] \in SUBSET D
        BY <2>1, <2>3, <4>1
      <4>3. F[k] = step[k][F[k - 1]]
        BY <2>1, <2>3, <4>1
      <4>. QED  BY <3>2, <4>1, <4>2, <4>3
    <3>. QED  BY <3>1, <3>2
  <2>5. F = Body(F)
    BY <2>3, <2>4
  <2>. QED  BY <2>5
<1>9. after = Body(after)
  BY <1>8
<1>10. PICK r \in after[K] : u = Finished(r, source)
  <2>1. ApplyFileDiff(t, hunks) =
          {s.output \o FlattenSeq(SubSeq(source, s.cursor + 1, Len(source))) : s \in after[K]}
    BY DEF ApplyFileDiff, after, Begin
  <2>2. PICK s \in after[K] :
          u = s.output \o FlattenSeq(SubSeq(source, s.cursor + 1, Len(source)))
    BY <2>1
  <2>. QED  BY <2>2 DEF Finished
<1>. HIDE DEF after
<1>11. /\ after[0] = {Begin}
       /\ \A k \in 1..K : after[k] = UNION {ApplyHunk(source, s, hunks[k]) : s \in after[k - 1]}
  <2>1. \A k \in 0..K : after[k] = IF k = 0 THEN {Begin}
                                   ELSE UNION {ApplyHunk(source, s, hunks[k]) : s \in after[k - 1]}
    BY <1>9
  <2>2. 0 \in 0..K /\ \A k \in 1..K : k \in 0..K /\ k # 0
    BY <1>2
  <2>. QED  BY <2>1, <2>2
<1>12. ASSUME NEW k \in 1..K, after[k - 1] \subseteq D, NEW x \in after[k]
       PROVE  \E s \in after[k - 1] : x \in moves[k][s]
  <2>1. PICK s \in after[k - 1] : x \in ApplyHunk(source, s, hunks[k])
    BY <1>11, <1>12
  <2>2. moves[k][s] = ApplyHunk(source, s, hunks[k])
    BY <1>12
  <2>. QED  BY <2>1, <2>2
<1>. HIDE DEF moves
<1>13. PICK f \in Run(K, D, Begin, moves) : f[K] = r
  <2>1. Stages(after, K, D, Begin, moves)
    BY <1>2, <1>4, <1>6, <1>11, <1>12 DEF Stages
  <2>2. r \in Reach(K, D, Begin, moves)
    BY <1>10, <2>1, Runs
  <2>. QED  BY <2>2 DEF Reach
<1>14. f \in [0..K -> D] /\ f[0] = Begin /\ \A k \in 1..K : f[k] \in moves[k][f[k - 1]]
  BY <1>13 DEF Run
<1>15. ASSUME NEW k \in 1..K PROVE f[k] \in ApplyHunk(source, f[k - 1], hunks[k])
  <2>1. f[k - 1] \in D
    BY <1>2, <1>14
  <2>2. moves[k][f[k - 1]] = ApplyHunk(source, f[k - 1], hunks[k])
    BY <2>1 DEF moves
  <2>. QED  BY <1>14, <2>2
<1>. QED  BY <1>3, <1>10, <1>13, <1>14, <1>15

LEMMA AppliedDiff ==
  ASSUME NEW t \in LFText, NEW hunks \in Seq(Hunk)
  PROVE  ApplyFileDiff(t, hunks) \subseteq LFText
<1>1. SUFFICES ASSUME NEW u \in ApplyFileDiff(t, hunks) PROVE u \in LFText
  OBVIOUS
<1>2. PICK source : source = SplitLines(t)
  OBVIOUS
<1>3. source \in Seq(LFText)
  BY <1>2, SourceLines
<1>4. PICK K \in Nat : K = Len(hunks)
  BY LenProperties
<1>5. PICK f \in [0..K -> States(source)] : u = Finished(f[K], source)
  BY <1>2, <1>4, ApplyRun
<1>6. PICK s \in States(source) : s = f[K]
  BY <1>4
<1>7. PICK L \in Nat : L = Len(source)
  BY <1>3, LenProperties
<1>8. PICK from \in 0..L, out \in Seq(LFChar) : from = s.cursor /\ out = s.output
  BY <1>7, Characters DEF States
<1>9. from \in 0..Len(source) /\ Len(source) \in 0..Len(source) /\ from <= Len(source)
  BY <1>7
<1>10. SubSeq(source, from + 1, Len(source)) \in Seq(LFText)
  BY <1>3, <1>9, Slice
<1>11. FlattenSeq(SubSeq(source, from + 1, Len(source))) \in Seq(LFChar)
  BY <1>10, Characters, Pieces
<1>12. out \o FlattenSeq(SubSeq(source, from + 1, Len(source))) \in Seq(LFChar)
  BY <1>11, ConcatProperties
<1>. QED  BY <1>5, <1>6, <1>8, <1>12, Characters DEF Finished

-----------------------------------------------------------------------------
(* Moves *)

(* The lines of a text are those of its LF, if nothing else ends a line. *)
LEMMA SameLines ==
  ASSUME NEW d \in LFText, SEP \notin Range(d)
  PROVE  Ends(d, {LF, SEP}) = Ends(d, {LF})
<1>1. \A i \in DOMAIN d : d[i] # SEP
  BY DEF Range
<1>. QED  BY <1>1 DEF Ends

(* What a range holds is what its last line adds to the lines before it. *)
LEMMA RangeContent ==
  ASSUME NEW S, NEW t \in Seq(S), NEW a \in 0..Len(t), NEW b \in 0..Len(t), a < b
  PROVE  /\ SubSeq(SubSeq(t, 1, b), a + 1, b) = SubSeq(t, a + 1, b)
         /\ SubSeq(t, a + 1, b) \in Seq(S)
         /\ Len(SubSeq(t, a + 1, b)) = b - a
         /\ SubSeq(t, a + 1, b)[b - a] = t[b]
<1>1. Len(t) \in Nat /\ a + 1 \in 1..b /\ b \in 1..b /\ b \in 1..Len(t) /\ 1 \in 1..Len(t)
  BY LenProperties
<1>2. PICK u : u = SubSeq(t, 1, b)
  OBVIOUS
<1>3. u \in Seq(S) /\ Len(u) = b
  BY <1>2, Prefix
<1>4. \A k \in 1..b : u[k] = t[k]
  <2>1. 0 \in 0..Len(t) /\ 0 <= b /\ b - 0 = b
    BY <1>1
  <2>2. \A k \in 1..(b - 0) : SubSeq(t, 0 + 1, b)[k] = t[0 + k]
    BY <2>1, Slice
  <2>. QED  BY <1>2, <2>1, <2>2
<1>5. a \in 0..Len(u) /\ b \in 0..Len(u) /\ a <= b
  BY <1>3
<1>6. PICK v, w : v = SubSeq(u, a + 1, b) /\ w = SubSeq(t, a + 1, b)
  OBVIOUS
<1>7. /\ v \in Seq(S) /\ Len(v) = b - a
      /\ \A k \in 1..(b - a) : v[k] = u[a + k]
  BY <1>3, <1>5, <1>6, Slice
<1>8. /\ w \in Seq(S) /\ Len(w) = b - a
      /\ \A k \in 1..(b - a) : w[k] = t[a + k]
  BY <1>5, <1>6, Slice
<1>9. ASSUME NEW k \in 1..(b - a) PROVE v[k] = w[k]
  <2>1. a + k \in 1..b
    OBVIOUS
  <2>. QED  BY <1>4, <1>7, <1>8, <2>1
<1>10. v = w
  BY <1>7, <1>8, <1>9, SeqEqual
<1>11. w[b - a] = t[b]
  <2>1. b - a \in 1..(b - a) /\ a + (b - a) = b
    OBVIOUS
  <2>. QED  BY <1>8, <2>1
<1>. QED  BY <1>2, <1>6, <1>8, <1>10, <1>11

(* A line that a list of lines has begins where the lines before it end. *)
LEMMA WhereALineBegins ==
  ASSUME NEW d \in LFText, NEW line \in 1..(Len(SplitLines(d)) + 1)
  PROVE  /\ Offset(SplitLines(d), line) \in 0..Len(d)
         /\ SEP \notin Range(d) =>
              SubSeq(d, 1, Offset(SplitLines(d), line)) = FirstLines(d, line - 1)
<1>1. PICK e, lines, N : /\ e = LineEnds(d, {LF, SEP}) /\ lines = SplitAfter(d, {LF, SEP})
                         /\ N = Cardinality(Ends(d, {LF, SEP}))
  OBVIOUS
<1>2. d \in Seq(LFChar) /\ lines = SplitLines(d)
  BY <1>1, Characters DEF SplitLines
<1>3. N \in Nat /\ Len(d) \in Nat /\ e \in [0..N -> 0..Len(d)]
  BY <1>1, <1>2, WhereLinesEnd
<1>4. Len(lines) = N /\ \A n \in 0..N : Offset(lines, n + 1) = e[n]
  <2>1. /\ Len(lines) = Cardinality(Ends(d, {LF, SEP}))
        /\ \A n \in 0..Len(lines) : Offset(lines, n + 1) = e[n]
    <3>1. PICK breaks : breaks = {LF, SEP}
      OBVIOUS
    <3>2. d \in Seq(LFChar) /\ e = LineEnds(d, breaks) /\ lines = SplitAfter(d, breaks)
      BY <1>1, <1>2, <3>1
    <3>3. /\ Len(lines) = Cardinality(Ends(d, breaks))
          /\ \A n \in 0..Len(lines) : Offset(lines, n + 1) = e[n]
      BY <3>2, LinesAreTheText
    <3>. QED  BY <3>1, <3>3
  <2>. QED  BY <1>1, <2>1
<1>5. PICK k \in 0..N : k = line - 1 /\ k + 1 = line
  BY <1>2, <1>3, <1>4
<1>6. Offset(lines, line) = e[k] /\ e[k] \in 0..Len(d)
  BY <1>3, <1>4, <1>5
<1>7. ASSUME SEP \notin Range(d) PROVE SubSeq(d, 1, e[k]) = FirstLines(d, k)
  <2>1. Ends(d, {LF, SEP}) = Ends(d, {LF})
    BY <1>7, SameLines
  <2>2. e = LineEnds(d, {LF}) /\ k \in 0..Cardinality(Ends(d, {LF}))
    BY <1>1, <2>1 DEF LineEnds
  <2>. QED  BY <1>2, <2>2, FirstLinesEnd
<1>. QED  BY <1>2, <1>5, <1>6, <1>7

LEMMA RangeMoved ==
  ASSUME NEW t \in LFText, NEW d \in LFText,
         NEW first \in Nat, NEW last \in Nat, NEW line \in Nat,
         NEW moved \in MoveRange(t, d, first, last, line)
  PROVE  /\ moved.source \in LFText /\ moved.destination \in LFText
         /\ moved.source = FirstLines(t, first - 1) \o Rest(t, FirstLines(t, last))
         /\ Landing(d, moved.destination, line,
                    Rest(FirstLines(t, last), FirstLines(t, first - 1)))
<1>1. t \in Seq(LFChar) /\ d \in Seq(LFChar) /\ <<>> \in Seq(LFChar)
  BY Characters, EmptySeq
<1>2. PICK at : at = Offset(SplitLines(d), line)
  OBVIOUS
<1>3. PICK r \in Selected(t, first, last) :
        /\ line \in 1..(Len(SplitLines(d)) + 1)
        /\ at > 0 => d[at] = LF
        /\ at < Len(d) => t[r.to] = LF
        /\ moved = [source |-> Cut(t, r.from, r.to, <<>>),
                    destination |-> Cut(d, at, at, Content(t, r))]
  <2>1. MoveRange(t, d, first, last, line) =
          {[source |-> Cut(t, r.from, r.to, <<>>),
            destination |-> Cut(d, at, at, Content(t, r))] :
             r \in {s \in Selected(t, first, last) :
                      /\ line \in 1..(Len(SplitLines(d)) + 1)
                      /\ at > 0 => d[at] = LF
                      /\ at < Len(d) => t[s.to] = LF}}
    BY <1>2, Zenon DEF MoveRange
  <2>. DEFINE Result(r) == [source |-> Cut(t, r.from, r.to, <<>>),
                            destination |-> Cut(d, at, at, Content(t, r))]
              Fits(r) == /\ line \in 1..(Len(SplitLines(d)) + 1)
                         /\ at > 0 => d[at] = LF
                         /\ at < Len(d) => t[r.to] = LF
  <2>2. MoveRange(t, d, first, last, line) =
          {Result(r) : r \in {s \in Selected(t, first, last) : Fits(s)}}
    BY <2>1, Zenon
  <2>3. \E r \in Selected(t, first, last) : Fits(r) /\ moved = Result(r)
    <3>. HIDE DEF Result, Fits
    <3>. QED  BY <2>2
  <2>. QED  BY <2>3, Zenon
<1>4. /\ r.from \in 0..Len(t) /\ r.to \in 0..Len(t) /\ r.from < r.to
      /\ FirstLines(t, first - 1) = SubSeq(t, 1, r.from)
      /\ FirstLines(t, last) = SubSeq(t, 1, r.to)
      /\ Len(FirstLines(t, first - 1)) = r.from /\ Len(FirstLines(t, last)) = r.to
  BY <1>1, SelectedLines
<1>5. PICK a \in 0..Len(t), b \in 0..Len(t) : a = r.from /\ b = r.to
  BY <1>4
<1>6. PICK head, upto : head = FirstLines(t, first - 1) /\ upto = FirstLines(t, last)
  OBVIOUS
<1>7. /\ a < b /\ head = SubSeq(t, 1, a) /\ upto = SubSeq(t, 1, b)
      /\ Len(head) = a /\ Len(upto) = b
  BY <1>4, <1>5, <1>6
<1>8. Cut(t, a, b, <<>>) \in LFText /\ Cut(t, a, b, <<>>) = head \o Rest(t, upto)
  <2>1. Cut(t, a, b, <<>>) \in Seq(LFChar)
    <3>1. PICK none \in Seq(LFChar) : none = <<>>
      BY <1>1
    <3>2. a <= b
      BY <1>7
    <3>3. Cut(t, a, b, none) \in Seq(LFChar)
      BY <1>1, <3>2, CutText
    <3>. QED  BY <3>1, <3>3
  <2>2. head \in Seq(LFChar)
    BY <1>1, <1>7, Prefix
  <2>3. head \o <<>> = head
    BY <2>2, ConcatEmptySeq
  <2>4. Cut(t, a, b, <<>>) = (head \o <<>>) \o Rest(t, upto)
    BY <1>7, Zenon DEF Cut, Rest
  <2>. QED  BY <2>1, <2>3, <2>4, Characters
<1>9. PICK c : c = Content(t, r)
  OBVIOUS
<1>10. /\ c \in Seq(LFChar) /\ Len(c) = b - a /\ c[Len(c)] = t[b]
       /\ c = Rest(upto, head)
  <2>1. c = SubSeq(t, a + 1, b)
    BY <1>5, <1>9 DEF Content
  <2>2. /\ SubSeq(SubSeq(t, 1, b), a + 1, b) = c /\ c \in Seq(LFChar)
        /\ Len(c) = b - a /\ c[b - a] = t[b]
    BY <1>1, <1>7, <2>1, RangeContent
  <2>3. Rest(upto, head) = SubSeq(SubSeq(t, 1, b), a + 1, b)
    BY <1>7, Zenon DEF Rest
  <2>. QED  BY <2>2, <2>3
<1>11. /\ at \in 0..Len(d)
       /\ SEP \notin Range(d) => SubSeq(d, 1, at) = FirstLines(d, line - 1)
  BY <1>2, <1>3, WhereALineBegins
<1>12. Cut(d, at, at, c) \in LFText
  <2>1. at <= at
    BY <1>11
  <2>2. Cut(d, at, at, c) \in Seq(LFChar)
    BY <1>1, <1>10, <1>11, <2>1, CutText
  <2>. QED  BY <2>2, Characters
<1>13. moved.source = Cut(t, a, b, <<>>) /\ moved.destination = Cut(d, at, at, c)
  BY <1>3, <1>5, <1>9
<1>14. at < Len(d) => c[Len(c)] = LF
  BY <1>3, <1>5, <1>10
<1>15. Landing(d, Cut(d, at, at, c), line, c)
  <2>1. PICK u : u = Cut(d, at, at, c)
    OBVIOUS
  <2>2. PICK head2 : head2 = FirstLines(d, line - 1)
    OBVIOUS
  <2>3. /\ at > 0 => d[at] = LF
        /\ SEP \notin Range(d) => SubSeq(d, 1, at) = head2
        /\ u = Cut(d, at, at, c)
        /\ at < Len(d) => c[Len(c)] = LF
    BY <1>3, <1>11, <1>14, <2>1, <2>2, Zenon
  <2>. QED  BY <1>11, <2>1, <2>2, <2>3, Zenon DEF Landing
<1>16. PICK u, v : u = moved.source /\ v = moved.destination
  OBVIOUS
<1>17. u \in LFText /\ v \in LFText /\ u = head \o Rest(t, upto) /\ Landing(d, v, line, Rest(upto, head))
  BY <1>8, <1>10, <1>12, <1>13, <1>15, <1>16, Zenon
<1>. QED  BY <1>6, <1>16, <1>17, Zenon

-----------------------------------------------------------------------------
(* The bytes an action writes *)

LEMMA EncodedBytes ==
  ASSUME NEW bytes \in Text, Editable(bytes), NEW u \in LFText
  PROVE  /\ Encoded(u, Style(bytes)) \in Text
         /\ Decoded(Encoded(u, Style(bytes))) = u
         /\ StyleKept(bytes, Encoded(u, Style(bytes)))
<1>1. PICK style \in {"crlf", "lf", "none"} : style = Style(bytes)
  BY Styles
<1>2. PICK v : v = Encoded(u, style)
  OBVIOUS
<1>3. /\ v \in Text /\ Decoded(v) = u
      /\ Style(v) \in {style, "none"} \/ (style = "none" /\ Style(v) = "lf")
  BY <1>2, EncodedKeepsStyle
<1>4. StyleKept(bytes, v)
  BY <1>1, <1>3 DEF StyleKept
<1>. QED  BY <1>1, <1>2, <1>3, <1>4

LEMMA Written ==
  ASSUME raw \in Text, NEW updated \in LFText, Write(updated)
  PROVE  raw' \in Text /\ Decoded(raw') = updated /\ StyleKept(raw, raw')
<1>1. Editable(raw) /\ raw' = Encoded(updated, Style(raw))
  BY DEF Write
<1>. QED  BY <1>1, EncodedBytes

LEMMA PatchedBytes ==
  ASSUME NEW files \in Seq(Patch), NEW path, NEW bytes \in Text,
         NEW after \in Patched(files, path, bytes)
  PROVE  after \in Text /\ StyleKept(bytes, after)
<1>1. CASE \A k \in DOMAIN files : files[k].path # path
  <2>1. after = bytes
    BY <1>1 DEF Patched
  <2>. QED  BY <2>1 DEF StyleKept
<1>2. CASE ~ \A k \in DOMAIN files : files[k].path # path
  <2>1. Patched(files, path, bytes) =
          {Encoded(updated, Style(bytes)) :
             updated \in UNION {IF Editable(bytes) /\ files[k].path = path
                                  THEN ApplyFileDiff(Decoded(bytes), files[k].hunks)
                                  ELSE {} : k \in DOMAIN files}}
    BY <1>2, Zenon DEF Patched
  <2>2. PICK k \in DOMAIN files :
          /\ Editable(bytes)
          /\ \E updated \in ApplyFileDiff(Decoded(bytes), files[k].hunks) :
               after = Encoded(updated, Style(bytes))
    BY <2>1
  <2>3. files[k] \in Patch
    BY LenProperties, ElementOfSeq
  <2>4. files[k].hunks \in Seq(Hunk) /\ Decoded(bytes) \in LFText
    BY <2>3, DecodedIsLF DEF Patch
  <2>5. PICK updated \in LFText : after = Encoded(updated, Style(bytes))
    BY <2>2, <2>4, AppliedDiff
  <2>. QED  BY <2>2, <2>5, EncodedBytes
<1>. QED  BY <1>1, <1>2

-----------------------------------------------------------------------------
(* What a diff says of the lines below the header of a hunk *)

(* The elements of a set of positions, in order, through a function. *)
Chosen(P, g) == [k \in 1..Cardinality(P) |-> g[EndOf(P, k)]]

LEMMA OneOf ==
  ASSUME NEW N \in Nat, NEW P \in SUBSET (1..N), NEW k \in 1..Cardinality(P)
  PROVE  EndOf(P, k) \in P /\ Upto(P, EndOf(P, k)) = k /\ Cardinality(P) \in Nat
<1>1. Cardinality(P) \in Nat /\ Upto(P, 0) = 0
  BY Counting
<1>2. EndOf(P, k) \in {0} \cup P /\ Upto(P, EndOf(P, k)) = k
  BY <1>1, TheEnds
<1>3. EndOf(P, k) # 0
  BY <1>1, <1>2
<1>. QED  BY <1>1, <1>2, <1>3

LEMMA PlaceOf ==
  ASSUME NEW N \in Nat, NEW P \in SUBSET (1..N), NEW i \in P
  PROVE  Upto(P, i) \in 1..Cardinality(P) /\ EndOf(P, Upto(P, i)) = i
<1>1. i \in 1..N /\ i \in 0..N /\ i - 1 \in 0..N /\ N \in 0..N
  OBVIOUS
<1>2. PICK x \in Nat, y \in Nat, z \in Nat : x = Upto(P, i - 1) /\ y = Upto(P, i) /\ z = Cardinality(P)
  BY <1>1, Counting
<1>3. y = x + 1
  BY <1>1, <1>2, Counting
<1>4. y <= z
  <2>1. CASE i = N
    BY <1>2, <2>1, Counting
  <2>2. CASE i # N
    <3>1. Upto(P, N) = Cardinality(P)
      BY Counting
    <3>2. i < N
      BY <1>1, <2>2
    <3>3. Upto(P, i) <= Upto(P, N)
      BY <1>1, <3>2, CountingUp
    <3>. QED  BY <1>2, <3>1, <3>3
  <2>. QED  BY <2>1, <2>2
<1>5. y \in 1..z
  BY <1>3, <1>4
<1>6. EndOf(P, y) \in P /\ Upto(P, EndOf(P, y)) = y
  BY <1>2, <1>5, OneOf
<1>7. EndOf(P, y) = i
  BY <1>2, <1>6, OneEnd
<1>. QED  BY <1>2, <1>5, <1>7

LEMMA Joined ==
  ASSUME NEW N \in Nat, NEW P \in SUBSET (1..N), NEW n, n = N + 1
  PROVE  /\ Cardinality(P \cup {n}) = Cardinality(P) + 1
         /\ \A i \in 0..N : Upto(P \cup {n}, i) = Upto(P, i)
         /\ Upto(P \cup {n}, n) = Cardinality(P) + 1
         /\ \A k \in 1..Cardinality(P) : EndOf(P \cup {n}, k) = EndOf(P, k)
         /\ EndOf(P \cup {n}, Cardinality(P) + 1) = n
<1>1. PICK Q : Q = P \cup {n}
  OBVIOUS
<1>2. n \in Nat /\ n \in Q /\ Q \in SUBSET (1..n) /\ n \in 1..n /\ n \notin P /\ n - 1 = N
  BY <1>1
<1>3. Cardinality(Q) = Cardinality(P) + 1
  <2>1. IsFiniteSet(P)
    BY Counting
  <2>. QED  BY <1>1, <1>2, <2>1, FS_AddElement
<1>4. ASSUME NEW i \in 0..N PROVE Upto(Q, i) = Upto(P, i)
  <2>0. ~(n <= i)
    OBVIOUS
  <2>1. {j \in Q : j <= i} = {j \in P : j <= i}
    BY <1>1, <2>0
  <2>. QED  BY <2>1 DEF Upto
<1>5. Upto(Q, n) = Cardinality(P) + 1
  BY <1>2, <1>3, Counting
<1>6. ASSUME NEW k \in 1..Cardinality(P) PROVE EndOf(Q, k) = EndOf(P, k)
  <2>1. EndOf(P, k) \in P /\ Upto(P, EndOf(P, k)) = k
    BY OneOf
  <2>2. EndOf(P, k) \in Q /\ EndOf(P, k) \in 0..N
    <3>1. PICK i \in P : i = EndOf(P, k)
      BY <2>1
    <3>2. i \in 0..N
      OBVIOUS
    <3>. QED  BY <1>1, <3>1, <3>2
  <2>3. Upto(Q, EndOf(P, k)) = k
    BY <1>4, <2>1, <2>2
  <2>4. EndOf(Q, Upto(Q, EndOf(P, k))) = EndOf(P, k)
    BY <1>2, <2>2, PlaceOf
  <2>. QED  BY <2>3, <2>4
<1>7. EndOf(Q, Cardinality(P) + 1) = n
  <2>1. EndOf(Q, Upto(Q, n)) = n
    BY <1>2, PlaceOf
  <2>. QED  BY <1>5, <2>1
<1>. QED  BY <1>1, <1>3, <1>4, <1>5, <1>6, <1>7

LEMMA ChosenSame ==
  ASSUME NEW N \in Nat, NEW P \in SUBSET (1..N), NEW g, NEW f, \A i \in P : f[i] = g[i]
  PROVE  Chosen(P, f) = Chosen(P, g)
<1>1. \A k \in 1..Cardinality(P) : f[EndOf(P, k)] = g[EndOf(P, k)]
  BY OneOf
<1>. QED  BY <1>1 DEF Chosen

LEMMA ChosenAt ==
  ASSUME NEW P, NEW g
  PROVE  \A k \in 1..Cardinality(P) : Chosen(P, g)[k] = g[EndOf(P, k)]
BY DEF Chosen

LEMMA ChosenSeq ==
  ASSUME NEW S, NEW N \in Nat, NEW P \in SUBSET (1..N), NEW g, \A i \in P : g[i] \in S
  PROVE  Chosen(P, g) \in Seq(S) /\ Len(Chosen(P, g)) = Cardinality(P)
<1>1. \A k \in 1..Cardinality(P) : g[EndOf(P, k)] \in S
  BY OneOf
<1>2. Cardinality(P) \in Nat
  BY Counting
<1>3. Chosen(P, g) \in [1..Cardinality(P) -> S]
  BY <1>1 DEF Chosen
<1>. QED  BY <1>2, <1>3, FunctionsAreSequences

OneMore(P, n, f, g) == Chosen(P \cup {n}, f) = Append(Chosen(P, g), f[n])

LEMMA ChosenMore ==
  ASSUME NEW N \in Nat, NEW P \in SUBSET (1..N), NEW n, n = N + 1,
         NEW g, NEW f, \A i \in P : g[i] \in LFText, \A i \in P : f[i] = g[i], f[n] \in LFText
  PROVE  OneMore(P, n, f, g)
<1>1. PICK Q, K, s, t : Q = P \cup {n} /\ K = Cardinality(P) /\ s = Chosen(P, g) /\ t = Chosen(Q, f)
  OBVIOUS
<1>2. K \in Nat
  BY <1>1, Counting
<1>3. Cardinality(Q) = K + 1 /\ Q \in SUBSET (1..n) /\ n \in Nat
  <2>1. Cardinality(Q) = K + 1
    BY <1>1, Joined
  <2>. QED  BY <1>1, <2>1
<1>4. s \in Seq(LFText) /\ Len(s) = K /\ \A k \in 1..K : s[k] = g[EndOf(P, k)]
  <2>1. \A i \in P : g[i] \in LFText
    OBVIOUS
  <2>2. /\ Chosen(P, g) \in Seq(LFText) /\ Len(Chosen(P, g)) = Cardinality(P)
        /\ \A k \in 1..Cardinality(P) : Chosen(P, g)[k] = g[EndOf(P, k)]
    BY <2>1, ChosenSeq, ChosenAt
  <2>. QED  BY <1>1, <2>2
<1>5. t \in Seq(LFText) /\ Len(t) = K + 1 /\ \A k \in 1..(K + 1) : t[k] = f[EndOf(Q, k)]
  <2>1. \A i \in Q : f[i] \in LFText
    BY <1>1
  <2>2. /\ Chosen(Q, f) \in Seq(LFText) /\ Len(Chosen(Q, f)) = Cardinality(Q)
        /\ \A k \in 1..Cardinality(Q) : Chosen(Q, f)[k] = f[EndOf(Q, k)]
    BY <1>3, <2>1, ChosenSeq, ChosenAt
  <2>. QED  BY <1>1, <1>3, <2>2
<1>6. ASSUME NEW k \in 1..K PROVE t[k] = s[k]
  <2>1. EndOf(P, k) \in P
    BY <1>1, OneOf
  <2>2. EndOf(Q, k) = EndOf(P, k)
    BY <1>1, Joined
  <2>3. k \in 1..(K + 1)
    BY <1>2
  <2>4. t[k] = f[EndOf(P, k)] /\ s[k] = g[EndOf(P, k)]
    BY <1>4, <1>5, <2>2, <2>3
  <2>. QED  BY <2>1, <2>4
<1>7. t[K + 1] = f[n]
  <2>1. EndOf(Q, K + 1) = n
    BY <1>1, Joined
  <2>2. K + 1 \in 1..(K + 1)
    BY <1>2
  <2>. QED  BY <1>5, <2>1, <2>2
<1>8. PICK x \in LFText : x = f[n]
  OBVIOUS
<1>9. PICK u : u = Append(s, x)
  OBVIOUS
<1>10. u \in Seq(LFText) /\ Len(u) = K + 1 /\ (\A k \in 1..K : u[k] = s[k]) /\ u[K + 1] = x
  BY <1>4, <1>9, AppendProperties
<1>11. ASSUME NEW k \in 1..(K + 1) PROVE t[k] = u[k]
  <2>1. k \in 1..K \/ k = K + 1
    BY <1>2
  <2>. QED  BY <1>6, <1>7, <1>8, <1>10, <2>1
<1>12. t = u
  BY <1>5, <1>10, <1>11, SeqEqual
<1>. QED  BY <1>1, <1>8, <1>9, <1>12 DEF OneMore

(* The last of them, and the sequence with its last one changed. *)
LEMMA ChosenLast ==
  ASSUME NEW N \in Nat, NEW P \in SUBSET (1..N), N \in P,
         NEW g, \A i \in P : g[i] \in LFText
  PROVE  /\ Cardinality(P) \in 1..Cardinality(P) /\ EndOf(P, Cardinality(P)) = N
         /\ \A k \in 1..Cardinality(P) : k # Cardinality(P) => EndOf(P, k) # N
         /\ Chosen(P, g) # <<>> /\ Last(Chosen(P, g)) = g[N]
<1>1. PICK s, K : K = Cardinality(P) /\ s = Chosen(P, g)
  OBVIOUS
<1>2. s \in Seq(LFText) /\ Len(s) = K /\ \A k \in 1..K : s[k] = g[EndOf(P, k)]
  <2>1. /\ Chosen(P, g) \in Seq(LFText) /\ Len(Chosen(P, g)) = Cardinality(P)
        /\ \A k \in 1..Cardinality(P) : Chosen(P, g)[k] = g[EndOf(P, k)]
    BY ChosenSeq, ChosenAt
  <2>. QED  BY <1>1, <2>1
<1>3. Upto(P, N) = K
  BY <1>1, Counting
<1>4. K \in 1..K /\ EndOf(P, K) = N
  <2>1. Upto(P, N) \in 1..Cardinality(P) /\ EndOf(P, Upto(P, N)) = N
    BY PlaceOf
  <2>. QED  BY <1>1, <1>3, <2>1
<1>5. ASSUME NEW k \in 1..K, k # K PROVE EndOf(P, k) # N
  <2>1. Upto(P, EndOf(P, k)) = k
    BY <1>1, OneOf
  <2>. QED  BY <1>3, <1>5, <2>1
<1>6. s # <<>>
  BY <1>2, <1>4, EmptySeq
<1>7. Last(s) = g[N]
  BY <1>2, <1>4 DEF Last
<1>. QED  BY <1>1, <1>4, <1>5, <1>6, <1>7

LEMMA ChosenChopped ==
  ASSUME NEW N \in Nat, NEW P \in SUBSET (1..N), N \in P,
         NEW g, NEW f, \A i \in P : g[i] \in LFText /\ f[i] \in LFText,
         \A i \in P \ {N} : f[i] = g[i], f[N] = Front(g[N])
  PROVE  Chosen(P, f) = Chopped(Chosen(P, g))
<1>1. PICK s, t, K : K = Cardinality(P) /\ s = Chosen(P, g) /\ t = Chosen(P, f)
  OBVIOUS
<1>2. s \in Seq(LFText) /\ Len(s) = K /\ \A k \in 1..K : s[k] = g[EndOf(P, k)]
  <2>1. \A i \in P : g[i] \in LFText
    OBVIOUS
  <2>2. /\ Chosen(P, g) \in Seq(LFText) /\ Len(Chosen(P, g)) = Cardinality(P)
        /\ \A k \in 1..Cardinality(P) : Chosen(P, g)[k] = g[EndOf(P, k)]
    BY <2>1, ChosenSeq, ChosenAt
  <2>. QED  BY <1>1, <2>2
<1>3. t \in Seq(LFText) /\ Len(t) = K /\ \A k \in 1..K : t[k] = f[EndOf(P, k)]
  <2>1. \A i \in P : f[i] \in LFText
    OBVIOUS
  <2>2. /\ Chosen(P, f) \in Seq(LFText) /\ Len(Chosen(P, f)) = Cardinality(P)
        /\ \A k \in 1..Cardinality(P) : Chosen(P, f)[k] = f[EndOf(P, k)]
    BY <2>1, ChosenSeq, ChosenAt
  <2>. QED  BY <1>1, <2>2
<1>4. K \in 1..K /\ EndOf(P, K) = N /\ \A k \in 1..K : k # K => EndOf(P, k) # N
  BY <1>1, ChosenLast
<1>5. t[K] = Front(s[K]) /\ t[K] \in LFText
  BY <1>2, <1>3, <1>4
<1>6. ASSUME NEW k \in 1..K, k # K PROVE t[k] = s[k]
  <2>1. EndOf(P, k) \in P
    BY <1>1, OneOf
  <2>. QED  BY <1>2, <1>3, <1>4, <1>6, <2>1
<1>7. PICK x \in LFText : x = t[K]
  BY <1>5
<1>8. PICK u : u = [s EXCEPT ![K] = x]
  OBVIOUS
<1>9. u \in Seq(LFText) /\ Len(u) = K /\ \A k \in 1..K : u[k] = IF k = K THEN x ELSE s[k]
  <2>1. K \in 1..Len(s)
    BY <1>2, <1>4
  <2>. QED  BY <1>2, <1>8, <2>1, ExceptSeq
<1>10. \A k \in 1..K : t[k] = u[k]
  BY <1>6, <1>7, <1>9
<1>11. t = u
  BY <1>3, <1>9, <1>10, SeqEqual
<1>12. u = Chopped(s)
  BY <1>2, <1>5, <1>7, <1>8, Zenon DEF Chopped
<1>. QED  BY <1>1, <1>11, <1>12

(* The lines of a diff below a header, and what the next line adds to them. *)
Marks == {" ", "-", "+"}
Own(d, h, marks) ==
  {i \in DOMAIN d : /\ i > h /\ d[i].mark \in marks
                    /\ \A k \in (h + 1)..i : d[k].mark \in BodyMarks}
TextAt(d) ==
  [i \in DOMAIN d |-> IF i < Len(d) /\ d[i + 1].mark = "\\" THEN Front(d[i].text) ELSE d[i].text]
Open(d, h) == \A k \in (h + 1)..Len(d) : d[k].mark \in BodyMarks

LEMMA FrontText ==
  ASSUME NEW t \in LFText
  PROVE  Front(t) \in LFText
<1>1. t \in Seq(LFChar) /\ LFText = Seq(LFChar)
  BY Characters
<1>2. PICK n \in Nat : n = Len(t) /\ \A i \in 1..n : t[i] \in LFChar
  BY <1>1, LenProperties, ElementOfSeq
<1>3. SubSeq(t, 1, n - 1) \in Seq(LFChar)
  <2>1. \A i \in 1..(n - 1) : t[i] \in LFChar
    BY <1>2
  <2>. QED  BY <2>1, <1>2, SubSeqProperties
<1>. QED  BY <1>1, <1>2, <1>3 DEF Front

LEMMA OwnText ==
  ASSUME NEW d \in Seq(DiffLine), NEW i \in DOMAIN d, d[i].mark \in Marks
  PROVE  d[i].text \in LineText /\ d[i].text \in LFText /\ TextAt(d)[i] \in LFText
<1>1. d[i] \in DiffLine
  BY LenProperties, ElementOfSeq
<1>2. d[i].text \in LineText
  BY <1>1 DEF DiffLine, Marks
<1>3. d[i].text \in LFText
  BY <1>2 DEF LineText
<1>4. Front(d[i].text) \in LFText
  BY <1>3, FrontText
<1>. QED  BY <1>2, <1>3, <1>4 DEF TextAt

LEMMA LinesAreChosen ==
  ASSUME NEW d \in Seq(DiffLine), NEW h, NEW marks
  PROVE  /\ Own(d, h, marks) \in SUBSET (1..Len(d)) /\ Len(d) \in Nat
         /\ LinesBelow(d, h, marks) = Chosen(Own(d, h, marks), TextAt(d))
<1>1. Len(d) \in Nat /\ DOMAIN d = 1..Len(d)
  BY LenProperties
<1>2. PICK own : own = Own(d, h, marks)
  OBVIOUS
<1>3. own \in SUBSET (1..Len(d))
  BY <1>1, <1>2 DEF Own
<1>. DEFINE line(i) == IF i < Len(d) /\ d[i + 1].mark = "\\" THEN Front(d[i].text) ELSE d[i].text
<1>4. ASSUME NEW k \in 1..Cardinality(own) PROVE line(EndOf(own, k)) = TextAt(d)[EndOf(own, k)]
  <2>1. EndOf(own, k) \in DOMAIN d
    BY <1>1, <1>3, OneOf
  <2>. QED  BY <2>1 DEF TextAt
<1>5. LinesBelow(d, h, marks) = [k \in 1..Cardinality(own) |-> line(EndOf(own, k))]
  BY <1>2 DEF LinesBelow, Own
<1>. HIDE DEF line
<1>6. LinesBelow(d, h, marks) = Chosen(own, TextAt(d))
  BY <1>4, <1>5 DEF Chosen
<1>. QED  BY <1>1, <1>2, <1>3, <1>6

LEMMA NextLine ==
  ASSUME NEW d \in Seq(DiffLine), NEW line \in DiffLine
  PROVE  /\ Append(d, line) \in Seq(DiffLine) /\ Len(Append(d, line)) = Len(d) + 1
         /\ Len(d) \in Nat /\ DOMAIN d = 1..Len(d) /\ DOMAIN Append(d, line) = 1..(Len(d) + 1)
         /\ \A i \in 1..Len(d) : Append(d, line)[i] = d[i]
         /\ Append(d, line)[Len(d) + 1] = line
BY AppendProperties, LenProperties

LEMMA OwnNext ==
  ASSUME NEW d \in Seq(DiffLine), NEW line \in DiffLine, NEW h \in 1..Len(d),
         NEW marks \in SUBSET Marks
  PROVE  Own(Append(d, line), h, marks) =
           Own(d, h, marks) \cup (IF Open(d, h) /\ line.mark \in marks THEN {Len(d) + 1} ELSE {})
<1>0. PICK L \in Nat : L = Len(d)
  BY LenProperties
<1>1. PICK e : L = Len(d) /\ e = Append(d, line)
  BY <1>0
<1>2. /\ e \in Seq(DiffLine) /\ DOMAIN d = 1..L /\ DOMAIN e = 1..(L + 1)
      /\ (\A i \in 1..L : e[i] = d[i]) /\ e[L + 1] = line
  BY <1>1, NextLine
<1>3. h \in Nat /\ 1 <= h /\ h <= L
  BY <1>1
<1>4. ASSUME NEW i \in 1..L PROVE i \in Own(e, h, marks) <=> i \in Own(d, h, marks)
  <2>1. i \in DOMAIN d /\ i \in DOMAIN e
    BY <1>2
  <2>2. \A k \in (h + 1)..i : e[k] = d[k]
    BY <1>2, <1>3
  <2>. QED  BY <1>2, <2>1, <2>2 DEF Own
<1>5. L + 1 \in Own(e, h, marks) <=> Open(d, h) /\ line.mark \in marks
  <2>1. L + 1 > h /\ L + 1 \in DOMAIN e
    BY <1>2, <1>3
  <2>2. L + 1 \in Own(e, h, marks) <=>
          line.mark \in marks /\ \A k \in (h + 1)..(L + 1) : e[k].mark \in BodyMarks
    BY <1>2, <2>1 DEF Own
  <2>3. line.mark \in marks => line.mark \in BodyMarks
    BY DEF Marks, BodyMarks
  <2>4. ASSUME NEW k \in (h + 1)..(L + 1) PROVE k = L + 1 \/ (k \in (h + 1)..L /\ k \in 1..L)
    BY <1>3
  <2>5. \A k \in (h + 1)..L : k \in (h + 1)..(L + 1) /\ k \in 1..L
    BY <1>3
  <2>6. line.mark \in marks =>
          ((\A k \in (h + 1)..(L + 1) : e[k].mark \in BodyMarks) <=> Open(d, h))
    BY <1>1, <1>2, <2>3, <2>4, <2>5 DEF Open
  <2>. QED  BY <2>2, <2>6
<1>6. Own(e, h, marks) \in SUBSET (1..(L + 1)) /\ Own(d, h, marks) \in SUBSET (1..L)
  BY <1>2 DEF Own
<1>7. \A i \in 1..(L + 1) : i \in 1..L \/ i = L + 1
  OBVIOUS
<1>. QED  BY <1>1, <1>4, <1>5, <1>6, <1>7

LEMMA TextNext ==
  ASSUME NEW d \in Seq(DiffLine), NEW line \in DiffLine, NEW i \in 1..Len(d)
  PROVE  TextAt(Append(d, line))[i] =
           IF i = Len(d) /\ line.mark = "\\" THEN Front(TextAt(d)[i]) ELSE TextAt(d)[i]
<1>0. PICK L \in Nat : L = Len(d)
  BY LenProperties
<1>1. PICK e : L = Len(d) /\ e = Append(d, line)
  BY <1>0
<1>2. /\ DOMAIN d = 1..L /\ DOMAIN e = 1..(L + 1) /\ Len(e) = L + 1
      /\ (\A j \in 1..L : e[j] = d[j]) /\ e[L + 1] = line
  BY <1>1, NextLine
<1>3. TextAt(e)[i] = IF i < L + 1 /\ e[i + 1].mark = "\\" THEN Front(e[i].text) ELSE e[i].text
  BY <1>1, <1>2 DEF TextAt
<1>4. TextAt(d)[i] = IF i < L /\ d[i + 1].mark = "\\" THEN Front(d[i].text) ELSE d[i].text
  BY <1>1, <1>2 DEF TextAt
<1>5. CASE i = L
  <2>1. ~(i < L) /\ i < L + 1 /\ i + 1 = L + 1
    BY <1>5
  <2>2. e[i + 1] = line /\ e[i] = d[i]
    BY <1>2, <1>5
  <2>. QED  BY <1>1, <1>3, <1>4, <1>5, <2>1, <2>2
<1>6. CASE i # L
  <2>1. i < L /\ i < L + 1 /\ i + 1 \in 1..L
    BY <1>1, <1>6
  <2>2. e[i + 1] = d[i + 1] /\ e[i] = d[i]
    BY <1>1, <1>2, <2>1
  <2>. QED  BY <1>1, <1>3, <1>4, <1>6, <2>1, <2>2
<1>. QED  BY <1>5, <1>6

LEMMA LinesAreTexts ==
  ASSUME NEW d \in Seq(DiffLine), NEW h, NEW marks \in SUBSET Marks
  PROVE  /\ LinesBelow(d, h, marks) \in Seq(LFText)
         /\ \A i \in Own(d, h, marks) : i \in 1..Len(d) /\ TextAt(d)[i] \in LFText
<1>1. PICK own, L : own = Own(d, h, marks) /\ L = Len(d)
  OBVIOUS
<1>2. /\ own \in SUBSET (1..L) /\ L \in Nat
      /\ LinesBelow(d, h, marks) = Chosen(own, TextAt(d))
  BY <1>1, LinesAreChosen
<1>3. ASSUME NEW i \in own PROVE TextAt(d)[i] \in LFText
  <2>1. i \in DOMAIN d /\ d[i].mark \in Marks
    BY <1>1, <1>3 DEF Own
  <2>. QED  BY <2>1, OwnText
<1>. QED  BY <1>1, <1>2, <1>3, ChosenSeq

LEMMA BelowSame ==
  ASSUME NEW d \in Seq(DiffLine), NEW line \in DiffLine, NEW h \in 1..Len(d),
         NEW marks \in SUBSET Marks,
         Open(d, h) => line.mark \notin marks,
         line.mark = "\\" => Len(d) \notin Own(d, h, marks)
  PROVE  LinesBelow(Append(d, line), h, marks) = LinesBelow(d, h, marks)
<1>1. PICK L, e, own : L = Len(d) /\ e = Append(d, line) /\ own = Own(d, h, marks)
  OBVIOUS
<1>2. /\ own \in SUBSET (1..L) /\ L \in Nat
      /\ LinesBelow(d, h, marks) = Chosen(own, TextAt(d))
  BY <1>1, LinesAreChosen
<1>3. Own(e, h, marks) = own
  <2>1. Own(e, h, marks) = own \cup (IF Open(d, h) /\ line.mark \in marks THEN {L + 1} ELSE {})
    BY <1>1, OwnNext
  <2>. QED  BY <2>1
<1>4. LinesBelow(e, h, marks) = Chosen(own, TextAt(e))
  <2>1. e \in Seq(DiffLine)
    BY <1>1, NextLine
  <2>. QED  BY <1>3, <2>1, LinesAreChosen
<1>5. ASSUME NEW i \in own PROVE TextAt(e)[i] = TextAt(d)[i]
  <2>1. i \in 1..L
    BY <1>2
  <2>2. TextAt(e)[i] = IF i = L /\ line.mark = "\\" THEN Front(TextAt(d)[i]) ELSE TextAt(d)[i]
    BY <1>1, <2>1, TextNext
  <2>3. ~(i = L /\ line.mark = "\\")
    BY <1>1
  <2>. QED  BY <2>2, <2>3
<1>6. Chosen(own, TextAt(e)) = Chosen(own, TextAt(d))
  BY <1>2, <1>5, ChosenSame
<1>. QED  BY <1>1, <1>2, <1>4, <1>6

LEMMA BelowAdded ==
  ASSUME NEW d \in Seq(DiffLine), NEW line \in DiffLine, NEW h \in 1..Len(d),
         NEW marks \in SUBSET Marks, Open(d, h), line.mark \in marks
  PROVE  LinesBelow(Append(d, line), h, marks) = Append(LinesBelow(d, h, marks), line.text)
<1>1. PICK L, e, own, n : L = Len(d) /\ e = Append(d, line) /\ own = Own(d, h, marks) /\ n = L + 1
  OBVIOUS
<1>2. /\ own \in SUBSET (1..L) /\ L \in Nat
      /\ LinesBelow(d, h, marks) = Chosen(own, TextAt(d))
  BY <1>1, LinesAreChosen
<1>3. Own(e, h, marks) = own \cup {n}
  <2>1. Own(e, h, marks) = own \cup (IF Open(d, h) /\ line.mark \in marks THEN {L + 1} ELSE {})
    BY <1>1, OwnNext
  <2>. QED  BY <1>1, <2>1
<1>4. e \in Seq(DiffLine) /\ n \in DOMAIN e /\ e[n] = line /\ Len(e) = n
  BY <1>1, <1>2, NextLine
<1>5. LinesBelow(e, h, marks) = Chosen(own \cup {n}, TextAt(e))
  BY <1>3, <1>4, LinesAreChosen
<1>6. TextAt(e)[n] = line.text /\ line.text \in LFText
  <2>1. ~(n < Len(e))
    BY <1>1, <1>2, <1>4
  <2>2. TextAt(e)[n] = e[n].text
    BY <1>4, <2>1 DEF TextAt
  <2>3. e[n].mark \in Marks
    BY <1>4
  <2>. QED  BY <1>4, <2>2, <2>3, OwnText
<1>7. ASSUME NEW i \in own PROVE TextAt(d)[i] \in LFText /\ TextAt(e)[i] = TextAt(d)[i]
  <2>1. i \in 1..L /\ TextAt(d)[i] \in LFText
    BY <1>1, <1>2, LinesAreTexts
  <2>2. TextAt(e)[i] = IF i = L /\ line.mark = "\\" THEN Front(TextAt(d)[i]) ELSE TextAt(d)[i]
    BY <1>1, <2>1, TextNext
  <2>3. line.mark # "\\"
    BY DEF Marks
  <2>. QED  BY <2>1, <2>2, <2>3
<1>8. PICK f, g : f = TextAt(e) /\ g = TextAt(d)
  OBVIOUS
<1>9. Chosen(own \cup {n}, f) = Append(Chosen(own, g), f[n])
  <2>1. (\A i \in own : g[i] \in LFText) /\ (\A i \in own : f[i] = g[i]) /\ f[n] \in LFText
    BY <1>6, <1>7, <1>8
  <2>2. own \in SUBSET (1..L) /\ L \in Nat /\ n = L + 1
    BY <1>1, <1>2
  <2>3. OneMore(own, n, f, g)
    BY <2>1, <2>2, ChosenMore
  <2>. QED  BY <2>3 DEF OneMore
<1>. QED  BY <1>1, <1>2, <1>5, <1>6, <1>8, <1>9

LEMMA BelowChopped ==
  ASSUME NEW d \in Seq(DiffLine), NEW line \in DiffLine, NEW h \in 1..Len(d),
         NEW marks \in SUBSET Marks, Open(d, h), line.mark = "\\",
         h < Len(d), d[Len(d)].mark \in marks
  PROVE  /\ LinesBelow(Append(d, line), h, marks) = Chopped(LinesBelow(d, h, marks))
         /\ LinesBelow(d, h, marks) # <<>>
         /\ Last(LinesBelow(d, h, marks)) = d[Len(d)].text
<1>1. PICK L, e, own : L = Len(d) /\ e = Append(d, line) /\ own = Own(d, h, marks)
  OBVIOUS
<1>2. /\ own \in SUBSET (1..L) /\ L \in Nat
      /\ LinesBelow(d, h, marks) = Chosen(own, TextAt(d))
  BY <1>1, LinesAreChosen
<1>3. DOMAIN d = 1..L /\ L \in 1..L
  BY <1>1, <1>2, LenProperties
<1>4. L \in own
  BY <1>1, <1>3 DEF Own, Open
<1>5. Own(e, h, marks) = own
  <2>1. Own(e, h, marks) = own \cup (IF Open(d, h) /\ line.mark \in marks THEN {L + 1} ELSE {})
    BY <1>1, OwnNext
  <2>2. line.mark \notin marks
    BY DEF Marks
  <2>. QED  BY <2>1, <2>2
<1>6. LinesBelow(e, h, marks) = Chosen(own, TextAt(e))
  <2>1. e \in Seq(DiffLine)
    BY <1>1, NextLine
  <2>. QED  BY <1>5, <2>1, LinesAreChosen
<1>7. ASSUME NEW i \in own
      PROVE  /\ TextAt(d)[i] \in LFText /\ TextAt(e)[i] \in LFText
             /\ TextAt(e)[i] = IF i = L THEN Front(TextAt(d)[i]) ELSE TextAt(d)[i]
  <2>1. i \in 1..L /\ TextAt(d)[i] \in LFText
    BY <1>1, <1>2, LinesAreTexts
  <2>2. TextAt(e)[i] = IF i = L /\ line.mark = "\\" THEN Front(TextAt(d)[i]) ELSE TextAt(d)[i]
    BY <1>1, <2>1, TextNext
  <2>3. Front(TextAt(d)[i]) \in LFText
    BY <2>1, FrontText
  <2>. QED  BY <2>1, <2>2, <2>3
<1>8. PICK f, g : f = TextAt(e) /\ g = TextAt(d)
  OBVIOUS
<1>9. Chosen(own, f) = Chopped(Chosen(own, g))
  <2>1. /\ \A i \in own : g[i] \in LFText /\ f[i] \in LFText
        /\ \A i \in own \ {L} : f[i] = g[i]
        /\ f[L] = Front(g[L])
    BY <1>4, <1>7, <1>8
  <2>2. PICK N, P : N = L /\ P = own
    OBVIOUS
  <2>3. N \in Nat /\ P \in SUBSET (1..N) /\ N \in P
    BY <1>2, <1>4, <2>2
  <2>4. /\ \A i \in P : g[i] \in LFText /\ f[i] \in LFText
        /\ \A i \in P \ {N} : f[i] = g[i]
        /\ f[N] = Front(g[N])
    BY <2>1, <2>2
  <2>5. Chosen(P, f) = Chopped(Chosen(P, g))
    BY <2>3, <2>4, ChosenChopped
  <2>. QED  BY <2>2, <2>5
<1>10. TextAt(d)[L] = d[L].text
  <2>1. ~(L < Len(d)) /\ L \in DOMAIN d
    BY <1>1, <1>2, <1>3
  <2>. QED  BY <2>1 DEF TextAt
<1>11. Chosen(own, g) # <<>> /\ Last(Chosen(own, g)) = g[L]
  <2>1. \A i \in own : g[i] \in LFText
    BY <1>7, <1>8
  <2>. QED  BY <1>2, <1>4, <2>1, ChosenLast
<1>. QED  BY <1>1, <1>2, <1>6, <1>8, <1>9, <1>10, <1>11

LEMMA BelowNothing ==
  ASSUME NEW d \in Seq(DiffLine), NEW h, h = Len(d), NEW marks
  PROVE  LinesBelow(d, h, marks) = <<>>
<1>1. Own(d, h, marks) = {}
  <2>1. \A i \in DOMAIN d : ~(i > h)
    BY LenProperties
  <2>. QED  BY <2>1 DEF Own
<1>2. LinesBelow(d, h, marks) = Chosen({}, TextAt(d))
  BY <1>1, LinesAreChosen
<1>3. Chosen({}, TextAt(d)) = <<>>
  <2>1. Cardinality({}) = 0
    BY FS_EmptySet
  <2>2. Chosen({}, TextAt(d)) \in Seq(LFText) /\ Len(Chosen({}, TextAt(d))) = 0
    BY <2>1, ChosenSeq
  <2>. QED  BY <2>2, EmptySeq
<1>. QED  BY <1>2, <1>3

-----------------------------------------------------------------------------
(* What the parser has understood of the lines it has read *)

(* The file a line of a diff belongs to, and its hunks. *)
Under(d, m, q) ==
  \E n \in 1..m : Names(d[n], q) /\ \A k \in (n + 1)..m : d[k].mark # "+++"

LEMMA HunksAreUnder ==
  ASSUME NEW d, NEW q
  PROVE  HunksOf(d, q) = {h \in DOMAIN d : d[h].mark = "@@" /\ Under(d, h, q)}
BY DEF HunksOf, Under

LEMMA OneFile ==
  ASSUME NEW d, NEW m \in Nat, NEW p, NEW q, Under(d, m, p), Under(d, m, q)
  PROVE  p = q
<1>1. PICK i \in 1..m : Names(d[i], p) /\ \A k \in (i + 1)..m : d[k].mark # "+++"
  BY DEF Under
<1>2. PICK j \in 1..m : Names(d[j], q) /\ \A k \in (j + 1)..m : d[k].mark # "+++"
  BY DEF Under
<1>3. ~(i < j) /\ ~(j < i)
  <2>1. ASSUME i < j PROVE FALSE
    <3>1. j \in (i + 1)..m
      BY <2>1
    <3>. QED  BY <1>1, <1>2, <3>1 DEF Names
  <2>2. ASSUME j < i PROVE FALSE
    <3>1. i \in (j + 1)..m
      BY <2>2
    <3>. QED  BY <1>1, <1>2, <3>1 DEF Names
  <2>. QED  BY <2>1, <2>2
<1>4. i = j
  BY <1>3
<1>. QED  BY <1>1, <1>2, <1>4 DEF Names

LEMMA UnderNext ==
  ASSUME NEW d \in Seq(DiffLine), NEW line \in DiffLine, NEW q,
         NEW e, e = Append(d, line), NEW L, L = Len(d)
  PROVE  /\ \A m \in 0..L : Under(e, m, q) <=> Under(d, m, q)
         /\ Under(e, L + 1, q) <=> IF line.mark = "+++" THEN Names(line, q) ELSE Under(d, L, q)
<1>1. L \in Nat /\ (\A i \in 1..L : e[i] = d[i]) /\ e[L + 1] = line
  BY NextLine
<1>2. ASSUME NEW m \in 0..L PROVE Under(e, m, q) <=> Under(d, m, q)
  <2>1. \A n \in 1..m : n \in 1..L /\ \A k \in (n + 1)..m : k \in 1..L
    BY <1>1
  <2>. QED  BY <1>1, <2>1 DEF Under
<1>3. CASE line.mark = "+++"
  <2>1. L + 1 \in 1..(L + 1) /\ \A k \in ((L + 1) + 1)..(L + 1) : FALSE
    BY <1>1
  <2>2. Names(line, q) => Under(e, L + 1, q)
    BY <1>1, <2>1 DEF Under
  <2>3. ASSUME Under(e, L + 1, q) PROVE Names(line, q)
    <3>1. PICK n \in 1..(L + 1) :
            Names(e[n], q) /\ \A k \in (n + 1)..(L + 1) : e[k].mark # "+++"
      BY <2>3 DEF Under
    <3>2. n = L + 1
      <4>1. ASSUME n # L + 1 PROVE FALSE
        <5>1. L + 1 \in (n + 1)..(L + 1)
          BY <1>1, <4>1
        <5>. QED  BY <1>1, <1>3, <3>1, <5>1
      <4>. QED  BY <4>1
    <3>. QED  BY <1>1, <3>1, <3>2
  <2>. QED  BY <1>2, <1>3, <2>2, <2>3
<1>4. CASE line.mark # "+++"
  <2>1. ASSUME Under(d, L, q) PROVE Under(e, L + 1, q)
    <3>1. PICK n \in 1..L : Names(d[n], q) /\ \A k \in (n + 1)..L : d[k].mark # "+++"
      BY <2>1 DEF Under
    <3>2. n \in 1..(L + 1) /\ Names(e[n], q)
      BY <1>1, <3>1
    <3>3. ASSUME NEW k \in (n + 1)..(L + 1) PROVE e[k].mark # "+++"
      <4>1. k = L + 1 \/ (k \in (n + 1)..L /\ k \in 1..L)
        BY <1>1
      <4>. QED  BY <1>1, <1>4, <3>1, <4>1
    <3>. QED  BY <3>2, <3>3 DEF Under
  <2>2. ASSUME Under(e, L + 1, q) PROVE Under(d, L, q)
    <3>1. PICK n \in 1..(L + 1) :
            Names(e[n], q) /\ \A k \in (n + 1)..(L + 1) : e[k].mark # "+++"
      BY <2>2 DEF Under
    <3>2. n # L + 1
      BY <1>1, <1>4, <3>1 DEF Names
    <3>3. n \in 1..L /\ Names(d[n], q)
      <4>1. n \in 1..L
        BY <1>1, <3>2
      <4>. QED  BY <1>1, <3>1, <4>1
    <3>4. ASSUME NEW k \in (n + 1)..L PROVE d[k].mark # "+++"
      <4>1. k \in (n + 1)..(L + 1) /\ k \in 1..L
        BY <1>1, <3>3
      <4>. QED  BY <1>1, <3>1, <4>1
    <3>. QED  BY <3>3, <3>4 DEF Under
  <2>. QED  BY <1>2, <1>4, <2>1, <2>2
<1>. QED  BY <1>2, <1>3, <1>4

LEMMA HunksNext ==
  ASSUME NEW d \in Seq(DiffLine), NEW line \in DiffLine, NEW q
  PROVE  HunksOf(Append(d, line), q) =
           HunksOf(d, q) \cup (IF line.mark = "@@" /\ Under(d, Len(d), q) THEN {Len(d) + 1} ELSE {})
<1>0. PICK L \in Nat : L = Len(d)
  BY LenProperties
<1>1. PICK e : L = Len(d) /\ e = Append(d, line)
  BY <1>0
<1>2. /\ DOMAIN d = 1..L /\ DOMAIN e = 1..(L + 1)
      /\ (\A i \in 1..L : e[i] = d[i]) /\ e[L + 1] = line
  BY <1>1, NextLine
<1>3. ASSUME NEW h \in 1..L PROVE h \in HunksOf(e, q) <=> h \in HunksOf(d, q)
  <2>1. h \in 0..L /\ h \in DOMAIN d /\ h \in DOMAIN e /\ e[h] = d[h]
    BY <1>2
  <2>2. Under(e, h, q) <=> Under(d, h, q)
    BY <1>1, <2>1, UnderNext
  <2>. QED  BY <2>1, <2>2, HunksAreUnder
<1>4. L + 1 \in HunksOf(e, q) <=> line.mark = "@@" /\ Under(d, L, q)
  <2>1. Under(e, L + 1, q) <=> IF line.mark = "+++" THEN Names(line, q) ELSE Under(d, L, q)
    BY <1>1, UnderNext
  <2>2. L + 1 \in HunksOf(e, q) <=> line.mark = "@@" /\ Under(e, L + 1, q)
    <3>1. L + 1 \in DOMAIN e /\ e[L + 1] = line
      BY <1>2
    <3>. QED  BY <3>1, HunksAreUnder
  <2>. QED  BY <2>1, <2>2
<1>5. HunksOf(e, q) \in SUBSET (1..(L + 1)) /\ HunksOf(d, q) \in SUBSET (1..L)
  BY <1>2, HunksAreUnder
<1>6. \A i \in 1..(L + 1) : i \in 1..L \/ i = L + 1
  OBVIOUS
<1>. QED  BY <1>1, <1>3, <1>4, <1>5, <1>6

(* What the parser knows of the lines it has read. *)
Reads(hunk, d, h) ==
  /\ hunk.start = d[h].oldStart
  /\ hunk.old = LinesBelow(d, h, {" ", "-"})
  /\ hunk.new = LinesBelow(d, h, {" ", "+"})

HunksRead(hunks, d, q) ==
  /\ Len(hunks) = Cardinality(HunksOf(d, q))
  /\ \A h \in HunksOf(d, q) : Reads(hunks[Upto(HunksOf(d, q), h)], d, h)

LEMMA ReadsSame ==
  ASSUME NEW d \in Seq(DiffLine), NEW line \in DiffLine, NEW h \in 1..Len(d), NEW hunk,
         line.mark \notin BodyMarks \/ ~Open(d, h), Reads(hunk, d, h)
  PROVE  Reads(hunk, Append(d, line), h)
<1>1. ASSUME NEW marks \in SUBSET Marks
      PROVE  LinesBelow(Append(d, line), h, marks) = LinesBelow(d, h, marks)
  <2>1. Open(d, h) => line.mark \notin marks
    BY DEF Marks, BodyMarks
  <2>2. line.mark = "\\" => Len(d) \notin Own(d, h, marks)
    <3>1. Len(d) \in Own(d, h, marks) => Open(d, h)
      BY DEF Own, Open
    <3>. QED  BY <3>1 DEF BodyMarks
  <2>. QED  BY <2>1, <2>2, BelowSame
<1>2. {" ", "-"} \in SUBSET Marks /\ {" ", "+"} \in SUBSET Marks
  BY DEF Marks
<1>3. Append(d, line)[h] = d[h]
  BY NextLine
<1>. QED  BY <1>1, <1>2, <1>3 DEF Reads

LEMMA HunksReadSame ==
  ASSUME NEW d \in Seq(DiffLine), NEW line \in DiffLine, NEW q, NEW hunks,
         ~(line.mark = "@@" /\ Under(d, Len(d), q)),
         line.mark \notin BodyMarks \/ \A h \in HunksOf(d, q) : ~Open(d, h),
         HunksRead(hunks, d, q)
  PROVE  HunksRead(hunks, Append(d, line), q)
<1>1. HunksOf(Append(d, line), q) = HunksOf(d, q)
  BY HunksNext
<1>2. ASSUME NEW h \in HunksOf(d, q)
      PROVE  Reads(hunks[Upto(HunksOf(d, q), h)], Append(d, line), h)
  <2>1. h \in 1..Len(d)
    BY NextLine DEF HunksOf
  <2>2. Reads(hunks[Upto(HunksOf(d, q), h)], d, h)
    BY DEF HunksRead
  <2>3. line.mark \notin BodyMarks \/ ~Open(d, h)
    OBVIOUS
  <2>. QED  BY <2>1, <2>2, <2>3, ReadsSame
<1>. QED  BY <1>1, <1>2 DEF HunksRead

LEMMA HunkPlaces ==
  ASSUME NEW d \in Seq(DiffLine), NEW q
  PROVE  /\ HunksOf(d, q) \in SUBSET (1..Len(d)) /\ Len(d) \in Nat
         /\ Cardinality(HunksOf(d, q)) \in Nat
         /\ \A h \in HunksOf(d, q) :
              Upto(HunksOf(d, q), h) \in 1..Cardinality(HunksOf(d, q)) /\ d[h].mark = "@@"
<1>1. HunksOf(d, q) \in SUBSET (1..Len(d)) /\ Len(d) \in Nat
  BY LenProperties DEF HunksOf
<1>2. \A h \in HunksOf(d, q) : d[h].mark = "@@"
  BY DEF HunksOf
<1>3. Cardinality(HunksOf(d, q)) \in Nat
  BY <1>1, Counting
<1>. QED  BY <1>1, <1>2, <1>3, PlaceOf

LEMMA HunkOpened ==
  ASSUME NEW d \in Seq(DiffLine), NEW line \in DiffLine, line.mark = "@@",
         NEW q, Under(d, Len(d), q), NEW hunks \in Seq(Hunk), HunksRead(hunks, d, q),
         NEW hunk \in OpenHunk(line)
  PROVE  HunksRead(Append(hunks, hunk), Append(d, line), q)
<1>0. PICK L \in Nat : L = Len(d)
  BY LenProperties
<1>1. PICK e : L = Len(d) /\ e = Append(d, line)
  BY <1>0
<1>2. PICK H, K, new : H = HunksOf(d, q) /\ K = Cardinality(H) /\ new = H \cup {L + 1}
  OBVIOUS
<1>3. H \in SUBSET (1..L) /\ K \in Nat /\ \A h \in H : Upto(H, h) \in 1..K
  BY <1>1, <1>2, HunkPlaces
<1>4. HunksOf(e, q) = new
  BY <1>1, <1>2, HunksNext
<1>5. /\ Cardinality(new) = K + 1 /\ Upto(new, L + 1) = K + 1
      /\ \A i \in 0..L : Upto(new, i) = Upto(H, i)
  <2>1. PICK n : n = L + 1
    OBVIOUS
  <2>2. H \in SUBSET (1..L)
    BY <1>3
  <2>3. Cardinality(H \cup {n}) = Cardinality(H) + 1
    BY <2>1, <2>2, Joined
  <2>4. Upto(H \cup {n}, n) = Cardinality(H) + 1
    BY <2>1, <2>2, Joined
  <2>5. ASSUME NEW i \in 0..L PROVE Upto(H \cup {n}, i) = Upto(H, i)
    <3>1. ~(n <= i)
      BY <2>1
    <3>2. {j \in H \cup {n} : j <= i} = {j \in H : j <= i}
      BY <3>1
    <3>. QED  BY <3>2 DEF Upto
  <2>. QED  BY <1>2, <2>1, <2>3, <2>4, <2>5
<1>6. PICK more : more = Append(hunks, hunk)
  OBVIOUS
<1>7. /\ Len(hunks) = K /\ Len(more) = K + 1 /\ more[K + 1] = hunk
      /\ \A k \in 1..K : more[k] = hunks[k]
  <2>1. Len(hunks) = K
    BY <1>2 DEF HunksRead
  <2>2. hunk \in {[start |-> line.oldStart, oldCount |-> line.oldCount, newCount |-> line.newCount,
                   old |-> <<>>, new |-> <<>>, last |-> "none"]}
    BY DEF OpenHunk
  <2>. QED  BY <1>3, <1>6, <2>1, AppendProperties
<1>8. ASSUME NEW h \in H PROVE Reads(more[Upto(new, h)], e, h)
  <2>1. h \in 0..L /\ h \in 1..Len(d)
    BY <1>1, <1>3
  <2>2. Upto(new, h) = Upto(H, h) /\ Upto(H, h) \in 1..K
    BY <1>3, <1>5, <2>1
  <2>3. Reads(hunks[Upto(H, h)], d, h)
    BY <1>2 DEF HunksRead
  <2>4. more[Upto(new, h)] = hunks[Upto(H, h)]
    BY <1>7, <2>2
  <2>5. line.mark \notin BodyMarks
    BY DEF BodyMarks
  <2>. QED  BY <1>1, <2>1, <2>3, <2>4, <2>5, ReadsSame
<1>9. Reads(more[Upto(new, L + 1)], e, L + 1)
  <2>1. e \in Seq(DiffLine) /\ L + 1 = Len(e) /\ e[L + 1] = line
    BY <1>1, NextLine
  <2>2. \A marks : LinesBelow(e, L + 1, marks) = <<>>
    BY <2>1, BelowNothing
  <2>3. more[Upto(new, L + 1)] = hunk
    BY <1>5, <1>7
  <2>4. hunk.start = line.oldStart /\ hunk.old = <<>> /\ hunk.new = <<>>
    BY DEF OpenHunk
  <2>. QED  BY <2>1, <2>2, <2>3, <2>4 DEF Reads
<1>. QED  BY <1>1, <1>2, <1>4, <1>5, <1>6, <1>7, <1>8, <1>9 DEF HunksRead

(* The header of the hunk that is being read is the last one. *)
LEMMA LastHeader ==
  ASSUME NEW d \in Seq(DiffLine), NEW q, NEW last \in HunksOf(d, q), Open(d, last)
  PROVE  /\ Upto(HunksOf(d, q), last) = Cardinality(HunksOf(d, q))
         /\ \A h \in 1..Len(d) : d[h].mark = "@@" /\ h # last => ~Open(d, h)
         /\ \A h \in HunksOf(d, q) : h # last =>
              Upto(HunksOf(d, q), h) # Cardinality(HunksOf(d, q))
<1>1. PICK H, L : H = HunksOf(d, q) /\ L = Len(d)
  OBVIOUS
<1>2. H \in SUBSET (1..L) /\ L \in Nat /\ d[last].mark = "@@" /\ \A h \in H : d[h].mark = "@@"
  BY <1>1, HunkPlaces
<1>3. last \in 1..L
  BY <1>1, <1>2
<1>4. ASSUME NEW h \in 1..L, d[h].mark = "@@" PROVE ~(last < h)
  <2>1. ASSUME last < h PROVE FALSE
    <3>1. h \in (last + 1)..L
      BY <1>3, <2>1
    <3>. QED  BY <1>1, <1>4, <3>1 DEF Open, BodyMarks
  <2>. QED  BY <2>1
<1>5. ASSUME NEW h \in 1..L, d[h].mark = "@@", h # last PROVE ~Open(d, h)
  <2>1. h < last
    BY <1>3, <1>4, <1>5
  <2>2. last \in (h + 1)..L
    BY <1>3, <2>1
  <2>. QED  BY <1>1, <1>2, <2>2 DEF Open, BodyMarks
<1>6. Upto(H, last) = Cardinality(H)
  <2>1. \A h \in H : h <= last
    <3>1. ASSUME NEW h \in H PROVE h <= last
      <4>1. h \in 1..L /\ d[h].mark = "@@"
        BY <1>2
      <4>. QED  BY <1>3, <1>4, <4>1
    <3>. QED  BY <3>1
  <2>2. {j \in H : j <= last} = H
    BY <2>1
  <2>. QED  BY <2>2 DEF Upto
<1>7. ASSUME NEW h \in H, h # last PROVE Upto(H, h) # Cardinality(H)
  <2>1. h \in {0} \cup H /\ last \in {0} \cup H
    BY <1>1
  <2>. QED  BY <1>2, <1>6, <1>7, <2>1, OneEnd
<1>. QED  BY <1>1, <1>5, <1>6, <1>7

LEMMA HunkGrown ==
  ASSUME NEW d \in Seq(DiffLine), NEW line \in DiffLine, line.mark \in BodyMarks,
         NEW q, NEW hunks \in Seq(Hunk), HunksRead(hunks, d, q),
         NEW last \in HunksOf(d, q), Open(d, last),
         NEW hunk \in Hunk, Reads(hunk, Append(d, line), last)
  PROVE  HunksRead(Append(Front(hunks), hunk), Append(d, line), q)
<1>0. PICK L \in Nat : L = Len(d)
  BY LenProperties
<1>1. PICK e : L = Len(d) /\ e = Append(d, line)
  BY <1>0
<1>2. PICK H, K : H = HunksOf(d, q) /\ K = Cardinality(H)
  OBVIOUS
<1>3. H \in SUBSET (1..L) /\ K \in Nat /\ \A h \in H : Upto(H, h) \in 1..K /\ d[h].mark = "@@"
  BY <1>1, <1>2, HunkPlaces
<1>4. HunksOf(e, q) = H
  <2>1. line.mark # "@@"
    BY DEF BodyMarks
  <2>. QED  BY <1>1, <1>2, <2>1, HunksNext
<1>5. Len(hunks) = K /\ \A h \in H : Reads(hunks[Upto(H, h)], d, h)
  BY <1>2 DEF HunksRead
<1>6. /\ Upto(H, last) = K /\ K \in 1..K
      /\ \A h \in 1..L : d[h].mark = "@@" /\ h # last => ~Open(d, h)
      /\ \A h \in H : h # last => Upto(H, h) # K
  <2>1. Upto(H, last) = K
    BY <1>2, LastHeader
  <2>2. K \in 1..K
    BY <1>2, <1>3, <2>1
  <2>. QED  BY <1>1, <1>2, <2>1, <2>2, LastHeader
<1>7. PICK front, grown : front = Front(hunks) /\ grown = Append(front, hunk)
  OBVIOUS
<1>8. hunks # <<>>
  BY <1>5, <1>6, EmptySeq
<1>9. front \in Seq(Hunk) /\ Len(front) = K - 1 /\ \A k \in 1..(K - 1) : front[k] = hunks[k]
  <2>1. front \in Seq(Hunk) /\ Len(front) = K - 1
    BY <1>5, <1>7, <1>8, LastAndFront
  <2>2. front = SubSeq(hunks, 1, K - 1)
    BY <1>5, <1>7 DEF Front
  <2>3. \A k \in 1..K : hunks[k] \in Hunk
    BY <1>5, ElementOfSeq
  <2>4. \A k \in 1..(K - 1) : hunks[k] \in Hunk
    BY <1>3, <2>3
  <2>5. \A k \in 1..(K - 1 - 1 + 1) : SubSeq(hunks, 1, K - 1)[k] = hunks[1 + k - 1]
    BY <1>3, <2>4, SubSeqProperties
  <2>. QED  BY <1>3, <2>1, <2>2, <2>5
<1>10. /\ Len(grown) = K /\ grown[K] = hunk
       /\ \A k \in 1..K : k # K => grown[k] = hunks[k]
  <2>1. /\ Len(grown) = (K - 1) + 1 /\ grown[(K - 1) + 1] = hunk
        /\ \A k \in 1..(K - 1) : grown[k] = front[k]
    BY <1>7, <1>9, AppendProperties
  <2>2. \A k \in 1..K : k # K => k \in 1..(K - 1)
    BY <1>3
  <2>3. (K - 1) + 1 = K
    BY <1>3
  <2>. QED  BY <1>9, <2>1, <2>2, <2>3
<1>11. ASSUME NEW h \in H PROVE Reads(grown[Upto(H, h)], e, h)
  <2>1. CASE h = last
    BY <1>1, <1>6, <1>10, <2>1
  <2>2. CASE h # last
    <3>1. h \in 1..L /\ ~Open(d, h) /\ Upto(H, h) \in 1..K /\ Upto(H, h) # K
      BY <1>3, <1>6, <2>2
    <3>2. grown[Upto(H, h)] = hunks[Upto(H, h)]
      BY <1>10, <3>1
    <3>3. Reads(hunks[Upto(H, h)], d, h)
      BY <1>5
    <3>. QED  BY <1>1, <3>1, <3>2, <3>3, ReadsSame
  <2>. QED  BY <2>1, <2>2
<1>. QED  BY <1>1, <1>2, <1>4, <1>7, <1>10, <1>11 DEF HunksRead

(* Which line the parser read last, as far as "\\" needs to know. *)
LastLine(hunk, d, h) ==
  \/ hunk.last = "none" /\ h = Len(d)
  \/ /\ hunk.last \in Marks /\ h < Len(d)
     /\ \/ d[Len(d)].mark = hunk.last
        \/ d[Len(d)].mark = "\\" /\ \E side \in Sides(hunk.last) : ~EndsWithNewline(hunk[side])

LEMMA TwoSides ==
  ASSUME NEW mark \in Marks
  PROVE  /\ Sides(mark) \subseteq {"old", "new"} /\ Sides(mark) # {}
         /\ "old" \in Sides(mark) <=> mark \in {" ", "-"}
         /\ "new" \in Sides(mark) <=> mark \in {" ", "+"}
BY DEF Marks, Sides

LEMMA LineRead ==
  ASSUME NEW d \in Seq(DiffLine), NEW line \in DiffLine, line.mark \in Marks,
         NEW h \in 1..Len(d), Open(d, h), NEW hunk \in Hunk, Reads(hunk, d, h),
         NEW grown \in AddLine(hunk, line)
  PROVE  Reads(grown, Append(d, line), h) /\ LastLine(grown, Append(d, line), h)
<1>0. PICK L \in Nat : L = Len(d)
  BY LenProperties
<1>1. PICK e : L = Len(d) /\ e = Append(d, line)
  BY <1>0
<1>2. Len(e) = L + 1 /\ e[L + 1] = line /\ e[h] = d[h]
  BY <1>1, NextLine
<1>3. /\ "old" \in Sides(line.mark) <=> line.mark \in {" ", "-"}
      /\ "new" \in Sides(line.mark) <=> line.mark \in {" ", "+"}
  BY TwoSides
<1>4. PICK old, new :
        /\ old = IF "old" \in Sides(line.mark) THEN Append(hunk.old, line.text) ELSE hunk.old
        /\ new = IF "new" \in Sides(line.mark) THEN Append(hunk.new, line.text) ELSE hunk.new
  OBVIOUS
<1>5. grown = [hunk EXCEPT !.last = line.mark, !.old = old, !.new = new]
  BY <1>4 DEF AddLine
<1>6. grown.start = hunk.start /\ grown.old = old /\ grown.new = new /\ grown.last = line.mark
  BY <1>5 DEF Hunk
<1>7. ASSUME NEW marks \in SUBSET Marks
      PROVE  LinesBelow(e, h, marks) = IF line.mark \in marks
                                         THEN Append(LinesBelow(d, h, marks), line.text)
                                         ELSE LinesBelow(d, h, marks)
  <2>1. CASE line.mark \in marks
    BY <1>1, <2>1, BelowAdded
  <2>2. CASE line.mark \notin marks
    <3>1. line.mark # "\\"
      BY DEF Marks
    <3>. QED  BY <1>1, <2>2, <3>1, BelowSame
  <2>. QED  BY <2>1, <2>2
<1>8. {" ", "-"} \in SUBSET Marks /\ {" ", "+"} \in SUBSET Marks
  BY DEF Marks
<1>9. old = LinesBelow(e, h, {" ", "-"})
  BY <1>3, <1>4, <1>7, <1>8 DEF Reads
<1>10. new = LinesBelow(e, h, {" ", "+"})
  BY <1>3, <1>4, <1>7, <1>8 DEF Reads
<1>11. Reads(grown, e, h)
  BY <1>2, <1>6, <1>9, <1>10 DEF Reads
<1>12. LastLine(grown, e, h)
  <2>1. h < Len(e) /\ e[Len(e)].mark = grown.last /\ grown.last \in Marks
    BY <1>1, <1>2, <1>6
  <2>. QED  BY <2>1 DEF LastLine
<1>. QED  BY <1>1, <1>11, <1>12

LEMMA ChoppedEnd ==
  ASSUME NEW lines \in Seq(LFText), EndsWithNewline(lines), Last(lines) \in LineText
  PROVE  ~EndsWithNewline(Chopped(lines))
<1>1. lines # <<>> /\ Last(lines) # <<>>
  BY DEF EndsWithNewline
<1>2. PICK n, x : n = Len(lines) /\ x = Last(lines)
  OBVIOUS
<1>3. n \in 1..Len(lines) /\ x = lines[n] /\ x \in Seq(LFChar) /\ x \in LineText
  BY <1>1, <1>2, LastAndFront, Characters
<1>4. PICK m \in Nat : m = Len(x) /\ DOMAIN x = 1..m /\ \A i \in 1..m : x[i] \in LFChar
  BY <1>3, LenProperties, ElementOfSeq
<1>5. PICK y : y = Front(x)
  OBVIOUS
<1>6. y \in Seq(LFChar) /\ y \in LFText /\ Len(y) = m - 1 /\ \A i \in 1..(m - 1) : y[i] = x[i]
  <2>1. y \in Seq(LFChar) /\ Len(y) = m - 1
    BY <1>1, <1>2, <1>3, <1>4, <1>5, LastAndFront
  <2>2. y = SubSeq(x, 1, m - 1)
    BY <1>4, <1>5 DEF Front
  <2>3. \A i \in 1..(m - 1) : x[i] \in LFChar
    BY <1>4
  <2>4. \A i \in 1..(m - 1 - 1 + 1) : SubSeq(x, 1, m - 1)[i] = x[1 + i - 1]
    BY <1>4, <2>3, SubSeqProperties
  <2>. QED  BY <1>4, <2>1, <2>2, <2>4, Characters
<1>7. PICK cut : cut = [lines EXCEPT ![n] = y]
  OBVIOUS
<1>8. cut \in Seq(LFText) /\ Len(cut) = n /\ cut[n] = y
  BY <1>2, <1>3, <1>6, <1>7, ExceptSeq
<1>9. Chopped(lines) = cut
  BY <1>2, <1>3, <1>5, <1>7, Zenon DEF Chopped
<1>10. Last(cut) = y
  BY <1>8 DEF Last
<1>11. ASSUME y # <<>> PROVE Last(y) # LF
  <2>1. Len(y) \in 1..Len(y) /\ Last(y) = y[Len(y)]
    BY <1>6, <1>11, LastAndFront
  <2>2. PICK i \in 1..(m - 1) : i = Len(y) /\ Last(y) = x[i]
    BY <1>6, <2>1
  <2>3. i \in DOMAIN x /\ i # Len(x)
    BY <1>4
  <2>4. x[i] \notin {LF, SEP}
    BY <1>3, <2>3 DEF LineText
  <2>. QED  BY <2>2, <2>4
<1>. QED  BY <1>9, <1>10, <1>11 DEF EndsWithNewline

LEMMA NewlineGone ==
  ASSUME NEW d \in Seq(DiffLine), NEW line \in DiffLine, line.mark = "\\",
         NEW h \in 1..Len(d), Open(d, h), NEW hunk \in Hunk, Reads(hunk, d, h),
         LastLine(hunk, d, h), NEW cut \in RemoveLastNewline(hunk)
  PROVE  Reads(cut, Append(d, line), h) /\ LastLine(cut, Append(d, line), h)
<1>0. PICK L \in Nat : L = Len(d)
  BY LenProperties
<1>1. PICK e : L = Len(d) /\ e = Append(d, line)
  BY <1>0
<1>2. Len(e) = L + 1 /\ e[L + 1] = line /\ e[h] = d[h] /\ DOMAIN d = 1..L
  BY <1>1, NextLine
<1>3. hunk.last # "none" /\ \A side \in Sides(hunk.last) : EndsWithNewline(hunk[side])
  BY DEF RemoveLastNewline
<1>4. hunk.last \in Marks /\ h < L /\ d[L].mark = hunk.last
  BY <1>1, <1>3 DEF LastLine
<1>5. /\ "old" \in Sides(hunk.last) <=> hunk.last \in {" ", "-"}
      /\ "new" \in Sides(hunk.last) <=> hunk.last \in {" ", "+"}
      /\ hunk.last \in {" ", "-"} \/ hunk.last \in {" ", "+"}
  BY <1>4, TwoSides DEF Marks
<1>6. PICK old, new :
        /\ old = IF "old" \in Sides(hunk.last) THEN Chopped(hunk.old) ELSE hunk.old
        /\ new = IF "new" \in Sides(hunk.last) THEN Chopped(hunk.new) ELSE hunk.new
  OBVIOUS
<1>7. cut = [hunk EXCEPT !.old = old, !.new = new]
  BY <1>6 DEF RemoveLastNewline
<1>8. cut.start = hunk.start /\ cut.old = old /\ cut.new = new /\ cut.last = hunk.last
  BY <1>7 DEF Hunk
<1>9. ASSUME NEW marks \in SUBSET Marks
      PROVE  /\ LinesBelow(e, h, marks) = IF hunk.last \in marks
                                            THEN Chopped(LinesBelow(d, h, marks))
                                            ELSE LinesBelow(d, h, marks)
             /\ hunk.last \in marks => Last(LinesBelow(d, h, marks)) = d[L].text
  <2>1. CASE hunk.last \in marks
    BY <1>1, <1>4, <2>1, BelowChopped
  <2>2. CASE hunk.last \notin marks
    <3>1. line.mark \notin marks
      BY DEF Marks
    <3>2. Len(d) \notin Own(d, h, marks)
      BY <1>1, <1>4, <2>2 DEF Own
    <3>. QED  BY <1>1, <2>2, <3>1, <3>2, BelowSame
  <2>. QED  BY <2>1, <2>2
<1>10. {" ", "-"} \in SUBSET Marks /\ {" ", "+"} \in SUBSET Marks
  BY DEF Marks
<1>11. old = LinesBelow(e, h, {" ", "-"})
  BY <1>5, <1>6, <1>9, <1>10 DEF Reads
<1>12. new = LinesBelow(e, h, {" ", "+"})
  BY <1>5, <1>6, <1>9, <1>10 DEF Reads
<1>13. Reads(cut, e, h)
  BY <1>2, <1>8, <1>11, <1>12 DEF Reads
<1>14. d[L].text \in LineText
  <2>1. L \in DOMAIN d
    BY <1>2, <1>4
  <2>. QED  BY <1>4, <2>1, OwnText
<1>15. hunk.old \in Seq(LFText) /\ hunk.new \in Seq(LFText)
  BY DEF Hunk
<1>16. \E side \in Sides(cut.last) : ~EndsWithNewline(cut[side])
  <2>1. CASE hunk.last \in {" ", "-"}
    <3>1. EndsWithNewline(hunk.old) /\ Last(hunk.old) = d[L].text
      BY <1>3, <1>5, <1>9, <1>10, <2>1 DEF Reads
    <3>2. ~EndsWithNewline(Chopped(hunk.old))
      BY <1>14, <1>15, <3>1, ChoppedEnd
    <3>. QED  BY <1>5, <1>6, <1>8, <2>1, <3>2
  <2>2. CASE hunk.last \in {" ", "+"}
    <3>1. EndsWithNewline(hunk.new) /\ Last(hunk.new) = d[L].text
      BY <1>3, <1>5, <1>9, <1>10, <2>2 DEF Reads
    <3>2. ~EndsWithNewline(Chopped(hunk.new))
      BY <1>14, <1>15, <3>1, ChoppedEnd
    <3>. QED  BY <1>5, <1>6, <1>8, <2>2, <3>2
  <2>. QED  BY <1>5, <2>1, <2>2
<1>17. LastLine(cut, e, h)
  <2>1. cut.last \in Marks /\ h < Len(e) /\ e[Len(e)].mark = "\\"
    BY <1>1, <1>2, <1>4, <1>8
  <2>. QED  BY <1>16, <2>1 DEF LastLine
<1>. QED  BY <1>1, <1>13, <1>17

(* What holds of the parser's state behind the lines d. *)
Distinct(files) == \A i, j \in DOMAIN files : files[i].path = files[j].path => i = j
AllRead(files, d) == \A k \in DOMAIN files : HunksRead(files[k].hunks, d, files[k].path)
Found(files, d) ==
  \A q : (\A k \in DOMAIN files : files[k].path # q) => \A n \in DOMAIN d : ~Names(d[n], q)
Newest(files, d) == files # <<>> => Under(d, Len(d), Last(files).path)
Outside(mode, d) == mode # "hunk" /\ d # <<>> => d[Len(d)].mark \notin BodyMarks
Within(file, d) ==
  \E h \in HunksOf(d, file.path) : Open(d, h) /\ LastLine(Last(file.hunks), d, h)

Parsed(s, d) ==
  /\ s \in Parser
  /\ Distinct(s.files) /\ AllRead(s.files, d) /\ Found(s.files, d) /\ Newest(s.files, d)
  /\ Outside(s.mode, d)
  /\ s.mode = "hunk" => Within(Last(s.files), d)

LEMMA LastFile ==
  ASSUME NEW s \in Parser, s.files # <<>>
  PROVE  /\ Len(s.files) \in DOMAIN s.files /\ Last(s.files) = s.files[Len(s.files)]
         /\ Last(s.files) \in Patch /\ Last(s.files).hunks \in Seq(Hunk)
         /\ DOMAIN s.files = 1..Len(s.files)
<1>1. s.files \in Seq(Patch)
  BY DEF Parser
<1>2. Last(s.files) \in Patch
  BY <1>1, LastAndFront
<1>. QED  BY <1>1, <1>2, LastAndFront, LenProperties DEF Patch

LEMMA FoundNext ==
  ASSUME NEW d \in Seq(DiffLine), NEW line \in DiffLine, NEW files, Found(files, d),
         line.mark # "+++"
  PROVE  Found(files, Append(d, line))
<1>0. PICK L \in Nat : L = Len(d)
  BY LenProperties
<1>1. PICK e : L = Len(d) /\ e = Append(d, line)
  BY <1>0
<1>2. /\ DOMAIN e = 1..(L + 1) /\ DOMAIN d = 1..L
      /\ (\A i \in 1..L : e[i] = d[i]) /\ e[L + 1] = line
  BY <1>1, NextLine
<1>3. ASSUME NEW q, \A k \in DOMAIN files : files[k].path # q, NEW n \in DOMAIN e
      PROVE  ~Names(e[n], q)
  <2>1. n \in 1..L \/ n = L + 1
    BY <1>2
  <2>2. CASE n \in 1..L
    <3>1. ~Names(d[n], q)
      BY <1>2, <1>3, <2>2 DEF Found
    <3>. QED  BY <1>2, <2>2, <3>1
  <2>3. CASE n = L + 1
    BY <1>2, <2>3 DEF Names
  <2>. QED  BY <2>1, <2>2, <2>3
<1>. QED  BY <1>1, <1>3 DEF Found

LEMMA NewestNext ==
  ASSUME NEW d \in Seq(DiffLine), NEW line \in DiffLine, NEW files, Newest(files, d),
         line.mark # "+++"
  PROVE  Newest(files, Append(d, line))
<1>0. PICK L \in Nat : L = Len(d)
  BY LenProperties
<1>1. PICK e : L = Len(d) /\ e = Append(d, line)
  BY <1>0
<1>2. Len(e) = L + 1
  BY <1>1, NextLine
<1>3. ASSUME NEW q PROVE Under(e, L + 1, q) <=> Under(d, L, q)
  BY <1>1, UnderNext
<1>. QED  BY <1>1, <1>2, <1>3 DEF Newest

(* A line that changes no file the parser has found. *)
LEMMA OtherLine ==
  ASSUME NEW d \in Seq(DiffLine), NEW line \in DiffLine, NEW s, Parsed(s, d),
         line.mark \notin BodyMarks \cup {"@@", "+++"},
         NEW r \in Parser, r.files = s.files, r.mode # "hunk"
  PROVE  Parsed(r, Append(d, line))
<1>1. AllRead(r.files, Append(d, line))
  <2>1. ASSUME NEW k \in DOMAIN s.files
        PROVE  HunksRead(s.files[k].hunks, Append(d, line), s.files[k].path)
    <3>1. HunksRead(s.files[k].hunks, d, s.files[k].path)
      BY DEF Parsed, AllRead
    <3>. QED  BY <3>1, HunksReadSame
  <2>. QED  BY <2>1 DEF AllRead
<1>2. Found(r.files, Append(d, line)) /\ Newest(r.files, Append(d, line))
  BY FoundNext, NewestNext DEF Parsed
<1>3. Outside(r.mode, Append(d, line))
  <2>1. Append(d, line)[Len(Append(d, line))] = line
    BY NextLine
  <2>. QED  BY <2>1 DEF Outside
<1>. QED  BY <1>1, <1>2, <1>3 DEF Parsed

(* The name of a file no line before it had. *)
LEMMA FileLine ==
  ASSUME NEW d \in Seq(DiffLine), NEW line \in DiffLine, NEW s, Parsed(s, d),
         line.mark = "+++", \A k \in DOMAIN s.files : s.files[k].path # line.path,
         NEW file \in Patch, file = [path |-> line.path, hunks |-> <<>>],
         NEW r \in Parser, r.files = Append(s.files, file), r.mode = "headed"
  PROVE  Parsed(r, Append(d, line))
<1>0. PICK L \in Nat : L = Len(d)
  BY LenProperties
<1>1. PICK e : L = Len(d) /\ e = Append(d, line)
  BY <1>0
<1>2. /\ e \in Seq(DiffLine) /\ DOMAIN e = 1..(L + 1) /\ DOMAIN d = 1..L /\ Len(e) = L + 1
      /\ (\A i \in 1..L : e[i] = d[i]) /\ e[L + 1] = line
  BY <1>1, NextLine
<1>14. PICK n \in Nat : n = Len(s.files)
  BY LenProperties DEF Parsed, Parser
<1>3. PICK m : n = Len(s.files) /\ m = n + 1
  BY <1>14
<1>4. /\ DOMAIN s.files = 1..n /\ DOMAIN r.files = 1..m /\ Len(r.files) = m
      /\ (\A k \in 1..n : r.files[k] = s.files[k]) /\ r.files[m] = file
  <2>1. s.files \in Seq(Patch)
    BY DEF Parsed, Parser
  <2>. QED  BY <1>3, <2>1, AppendProperties, LenProperties
<1>5. \A k \in 1..m : k \in 1..n \/ k = m
  BY <1>3
<1>6. m \in 1..m /\ m \notin 1..n /\ \A k \in 1..n : k \in 1..m
  BY <1>3
<1>7. file.path = line.path /\ file.hunks = <<>>
  OBVIOUS
<1>8. Distinct(r.files)
  <2>1. ASSUME NEW i \in 1..m, NEW j \in 1..m, r.files[i].path = r.files[j].path
        PROVE  i = j
    <3>1. CASE i \in 1..n /\ j \in 1..n
      BY <1>4, <2>1, <3>1 DEF Parsed, Distinct
    <3>2. CASE i = m /\ j = m
      BY <3>2
    <3>3. CASE i \in 1..n /\ j = m
      BY <1>4, <1>7, <2>1, <3>3
    <3>4. CASE i = m /\ j \in 1..n
      BY <1>4, <1>7, <2>1, <3>4
    <3>. QED  BY <1>5, <3>1, <3>2, <3>3, <3>4
  <2>. QED  BY <1>4, <2>1 DEF Distinct
<1>9. ASSUME NEW q PROVE HunksOf(e, q) = HunksOf(d, q)
  BY <1>1, HunksNext
<1>10. AllRead(r.files, e)
  <2>1. ASSUME NEW k \in 1..n PROVE HunksRead(r.files[k].hunks, e, r.files[k].path)
    <3>1. HunksRead(s.files[k].hunks, d, s.files[k].path)
      BY <1>4 DEF Parsed, AllRead
    <3>2. line.mark # "@@" /\ line.mark \notin BodyMarks
      BY DEF BodyMarks
    <3>. QED  BY <1>1, <1>4, <3>1, <3>2, HunksReadSame
  <2>2. HunksRead(file.hunks, e, file.path)
    <3>1. ASSUME NEW h \in HunksOf(d, line.path) PROVE FALSE
      <4>1. PICK i \in 1..h : Names(d[i], line.path)
        BY DEF HunksOf
      <4>2. i \in DOMAIN d
        BY <1>2 DEF HunksOf
      <4>. QED  BY <4>1, <4>2 DEF Parsed, Found
    <3>2. HunksOf(e, line.path) = {}
      BY <1>9, <3>1
    <3>3. Cardinality({}) = 0 /\ Len(<<>>) = 0
      BY FS_EmptySet
    <3>. QED  BY <1>7, <3>2, <3>3 DEF HunksRead
  <2>. QED  BY <1>4, <1>5, <2>1, <2>2 DEF AllRead
<1>11. Found(r.files, e)
  <2>1. ASSUME NEW q, \A k \in DOMAIN r.files : r.files[k].path # q, NEW i \in DOMAIN e
        PROVE  ~Names(e[i], q)
    <3>1. q # line.path
      BY <1>4, <1>6, <1>7, <2>1
    <3>2. \A k \in DOMAIN s.files : s.files[k].path # q
      BY <1>4, <1>6, <2>1
    <3>3. CASE i \in 1..L
      BY <1>2, <3>2, <3>3 DEF Parsed, Found
    <3>4. CASE i = L + 1
      BY <1>2, <3>1, <3>4 DEF Names
    <3>. QED  BY <1>2, <3>3, <3>4
  <2>. QED  BY <2>1 DEF Found
<1>12. Newest(r.files, e)
  <2>1. Last(r.files) = file
    BY <1>4 DEF Last
  <2>2. Under(e, L + 1, line.path)
    <3>1. Names(line, line.path)
      BY DEF Names
    <3>. QED  BY <1>1, <3>1, UnderNext
  <2>. QED  BY <1>2, <1>7, <2>1, <2>2 DEF Newest
<1>13. Outside(r.mode, e)
  BY <1>2 DEF Outside, BodyMarks
<1>. QED  BY <1>1, <1>8, <1>10, <1>11, <1>12, <1>13 DEF Parsed

LEMMA NewestHunks ==
  ASSUME NEW s \in Parser, s.files # <<>>, NEW hunks \in Seq(Hunk), hunks # <<>>,
         NEW r, r = WithHunks(s, hunks), NEW n, n = Len(s.files)
  PROVE  /\ r \in Parser /\ r.mode = "hunk" /\ r.files # <<>>
         /\ DOMAIN r.files = DOMAIN s.files /\ n \in DOMAIN s.files
         /\ \A k \in DOMAIN s.files : k # n => r.files[k] = s.files[k]
         /\ r.files[n].path = s.files[n].path /\ r.files[n].hunks = hunks
         /\ Last(r.files) = r.files[n] /\ Last(s.files) = s.files[n]
<1>1. r \in Parser
  BY HunksSet
<1>2. PICK files, p : files = s.files /\ p = files[n]
  OBVIOUS
<1>3. n \in 1..Len(files) /\ DOMAIN files = 1..Len(files) /\ Last(s.files) = s.files[n] /\ p \in Patch
      /\ files \in Seq(Patch)
  <2>1. files \in Seq(Patch)
    BY <1>2 DEF Parser
  <2>. QED  BY <1>2, <2>1, LastFile
<1>4. PICK q : q = [p EXCEPT !.hunks = hunks]
  OBVIOUS
<1>5. q \in Patch /\ q.path = p.path /\ q.hunks = hunks
  <2>1. PICK H : H = Seq(Hunk)
    OBVIOUS
  <2>2. p \in [path : Paths, hunks : H] /\ hunks \in H
    BY <1>3, <2>1 DEF Patch
  <2>3. q \in [path : Paths, hunks : H] /\ q.path = p.path /\ q.hunks = hunks
    BY <1>4, <2>2
  <2>. QED  BY <2>1, <2>3 DEF Patch
<1>6. r = [s EXCEPT !.mode = "hunk", !.files = [files EXCEPT ![n] = q]]
  BY <1>2, <1>4, Zenon DEF WithHunks
<1>7. PICK new : new = [files EXCEPT ![n] = q]
  OBVIOUS
<1>8. /\ new \in Seq(Patch) /\ Len(new) = Len(files)
      /\ \A k \in 1..Len(files) : new[k] = IF k = n THEN q ELSE files[k]
  BY <1>3, <1>5, <1>7, ExceptSeq
<1>9. r.files = new /\ r.mode = "hunk"
  BY <1>6, <1>7 DEF Parser
<1>10. DOMAIN new = 1..Len(files)
  BY <1>8, LenProperties
<1>11. Last(r.files) = new[n] /\ r.files # <<>>
  <2>1. Last(new) = new[Len(new)]
    BY DEF Last
  <2>2. new # <<>>
    BY <1>3, <1>8, EmptySeq
  <2>. QED  BY <1>2, <1>8, <1>9, <2>1, <2>2
<1>. QED  BY <1>1, <1>2, <1>3, <1>5, <1>8, <1>9, <1>10, <1>11

(* A line that changes the hunks of the file found last. *)
LEMMA HunkLine ==
  ASSUME NEW d \in Seq(DiffLine), NEW line \in DiffLine, NEW s, Parsed(s, d), s.files # <<>>,
         line.mark \in BodyMarks \cup {"@@"},
         NEW hunks \in Seq(Hunk), hunks # <<>>,
         HunksRead(hunks, Append(d, line), Last(s.files).path),
         line.mark \in BodyMarks => s.mode = "hunk",
         \E h \in HunksOf(Append(d, line), Last(s.files).path) :
            Open(Append(d, line), h) /\ LastLine(Last(hunks), Append(d, line), h)
  PROVE  Parsed(WithHunks(s, hunks), Append(d, line))
<1>0. PICK L \in Nat : L = Len(d)
  BY LenProperties
<1>1. PICK e, r, n :
        /\ L = Len(d) /\ e = Append(d, line) /\ r = WithHunks(s, hunks) /\ n = Len(s.files)
  BY <1>0
<1>2. s \in Parser
  BY DEF Parsed
<1>3. /\ r \in Parser /\ r.mode = "hunk" /\ r.files # <<>>
      /\ DOMAIN r.files = DOMAIN s.files /\ n \in DOMAIN s.files
      /\ \A k \in DOMAIN s.files : k # n => r.files[k] = s.files[k]
      /\ r.files[n].path = s.files[n].path /\ r.files[n].hunks = hunks
      /\ Last(r.files) = r.files[n] /\ Last(s.files) = s.files[n]
  BY <1>1, <1>2, NewestHunks
<1>4. \A k \in DOMAIN s.files : r.files[k].path = s.files[k].path
  BY <1>3
<1>5. line.mark # "+++"
  BY DEF BodyMarks
<1>6. Distinct(r.files)
  BY <1>3, <1>4 DEF Parsed, Distinct
<1>7. Under(d, L, s.files[n].path)
  BY <1>1, <1>3 DEF Parsed, Newest
<1>8. AllRead(r.files, e)
  <2>1. ASSUME NEW k \in DOMAIN s.files, k # n
        PROVE  HunksRead(s.files[k].hunks, e, s.files[k].path)
    <3>1. HunksRead(s.files[k].hunks, d, s.files[k].path)
      BY DEF Parsed, AllRead
    <3>2. s.files[k].path # s.files[n].path
      BY <1>3, <2>1 DEF Parsed, Distinct
    <3>3. ~Under(d, L, s.files[k].path)
      BY <1>7, <3>2, OneFile
    <3>4. ASSUME line.mark \in BodyMarks, NEW h \in HunksOf(d, s.files[k].path)
          PROVE  ~Open(d, h)
      <4>1. PICK last \in HunksOf(d, s.files[n].path) : Open(d, last)
        BY <1>3, <3>4 DEF Parsed, Within
      <4>2. h # last
        <5>1. Under(d, h, s.files[k].path) /\ Under(d, last, s.files[n].path)
          BY HunksAreUnder
        <5>2. h \in Nat
          BY <1>1, HunkPlaces
        <5>. QED  BY <3>2, <5>1, <5>2, OneFile
      <4>3. h \in 1..Len(d) /\ d[h].mark = "@@"
        BY HunkPlaces
      <4>. QED  BY <4>1, <4>2, <4>3, LastHeader
    <3>. QED  BY <1>1, <3>1, <3>3, <3>4, HunksReadSame
  <2>2. HunksRead(r.files[n].hunks, e, r.files[n].path)
    BY <1>1, <1>3
  <2>. QED  BY <1>3, <2>1, <2>2 DEF AllRead
<1>9. Found(r.files, e)
  <2>1. Found(s.files, e)
    BY <1>1, <1>5, FoundNext DEF Parsed
  <2>. QED  BY <1>3, <1>4, <2>1 DEF Found
<1>10. Newest(r.files, e)
  <2>1. Newest(s.files, e)
    BY <1>1, <1>5, NewestNext DEF Parsed
  <2>. QED  BY <1>3, <2>1 DEF Newest
<1>11. Outside(r.mode, e)
  BY <1>3 DEF Outside
<1>12. Within(Last(r.files), e)
  BY <1>1, <1>3 DEF Within
<1>. QED  BY <1>1, <1>3, <1>6, <1>8, <1>9, <1>10, <1>11, <1>12 DEF Parsed

LEMMA AppendedLast ==
  ASSUME NEW S, NEW t \in Seq(S), NEW x \in S
  PROVE  Append(t, x) \in Seq(S) /\ Append(t, x) # <<>> /\ Last(Append(t, x)) = x
<1>1. PICK u : u = Append(t, x)
  OBVIOUS
<1>2. u \in Seq(S) /\ Len(u) = Len(t) + 1 /\ u[Len(t) + 1] = x /\ Len(t) \in Nat
  BY <1>1, AppendProperties, LenProperties
<1>3. u # <<>>
  BY <1>2, EmptySeq
<1>. QED  BY <1>1, <1>2, <1>3 DEF Last

LEMMA HeaderLine ==
  ASSUME NEW d \in Seq(DiffLine), NEW line \in DiffLine, NEW s, Parsed(s, d), s.files # <<>>,
         line.mark = "@@", NEW hunk \in OpenHunk(line)
  PROVE  Parsed(WithHunks(s, Append(Last(s.files).hunks, hunk)), Append(d, line))
<1>0. PICK L \in Nat : L = Len(d)
  BY LenProperties
<1>1. PICK e, hunks, q :
        /\ L = Len(d) /\ e = Append(d, line)
        /\ hunks = Last(s.files).hunks /\ q = Last(s.files).path
  BY <1>0
<1>2. hunks \in Seq(Hunk) /\ Len(s.files) \in DOMAIN s.files /\ Last(s.files) = s.files[Len(s.files)]
  BY <1>1, LastFile DEF Parsed
<1>3. hunk \in Hunk /\ hunk.last = "none"
  <2>1. hunk = [start |-> line.oldStart, oldCount |-> line.oldCount, newCount |-> line.newCount,
                old |-> <<>>, new |-> <<>>, last |-> "none"]
    BY DEF OpenHunk
  <2>2. line.oldStart \in Nat /\ line.oldCount \in Nat /\ line.newCount \in Nat
    BY DEF DiffLine
  <2>3. PICK T, none : T = Seq(LFText) /\ none = <<>> /\ none \in T
    BY EmptySeq
  <2>4. hunk \in [start : Nat, oldCount : Nat, newCount : Nat, old : T, new : T,
                  last : {"none", " ", "-", "+"}]
    BY <2>1, <2>2, <2>3
  <2>. QED  BY <2>1, <2>3, <2>4 DEF Hunk
<1>4. PICK more : more = Append(hunks, hunk)
  OBVIOUS
<1>5. more \in Seq(Hunk) /\ more # <<>> /\ Last(more) = hunk
  BY <1>2, <1>3, <1>4, AppendedLast
<1>6. Under(d, L, q) /\ HunksRead(hunks, d, q)
  BY <1>1, <1>2 DEF Parsed, Newest, AllRead
<1>7. HunksRead(more, e, q)
  BY <1>1, <1>2, <1>4, <1>6, HunkOpened
<1>8. L + 1 \in HunksOf(e, q)
  BY <1>1, <1>6, HunksNext
<1>9. Len(e) = L + 1
  BY <1>1, NextLine
<1>10. Open(e, L + 1) /\ LastLine(hunk, e, L + 1)
  <2>1. \A k \in ((L + 1) + 1)..(L + 1) : FALSE
    OBVIOUS
  <2>. QED  BY <1>3, <1>9, <2>1 DEF Open, LastLine
<1>11. line.mark \notin BodyMarks
  BY DEF BodyMarks
<1>12. \E h \in HunksOf(e, q) : Open(e, h) /\ LastLine(Last(more), e, h)
  BY <1>5, <1>8, <1>10
<1>. QED  BY <1>1, <1>4, <1>5, <1>7, <1>11, <1>12, HunkLine

LEMMA BodyLine ==
  ASSUME NEW d \in Seq(DiffLine), NEW line \in DiffLine, NEW s, Parsed(s, d), s.mode = "hunk",
         line.mark \in BodyMarks, NEW hunks, hunks = Last(s.files).hunks,
         NEW hunk \in IF line.mark = "\\" THEN RemoveLastNewline(Last(hunks))
                                          ELSE AddLine(Last(hunks), line)
  PROVE  Parsed(WithHunks(s, Append(Front(hunks), hunk)), Append(d, line))
<1>0. PICK L \in Nat : L = Len(d)
  BY LenProperties
<1>1. PICK e, q, old : /\ L = Len(d) /\ e = Append(d, line)
                       /\ q = Last(s.files).path /\ old = Last(hunks)
  BY <1>0
<1>2. s.files # <<>> /\ hunks # <<>>
  BY DEF Parsed, Parser
<1>3. /\ hunks \in Seq(Hunk) /\ Len(s.files) \in DOMAIN s.files
      /\ Last(s.files) = s.files[Len(s.files)]
  BY <1>2, LastFile DEF Parsed
<1>4. old \in Hunk /\ Front(hunks) \in Seq(Hunk)
  BY <1>1, <1>2, <1>3, LastAndFront
<1>5. HunksRead(hunks, d, q)
  BY <1>1, <1>3 DEF Parsed, AllRead
<1>6. PICK h \in HunksOf(d, q) : Open(d, h) /\ LastLine(old, d, h)
  BY <1>1 DEF Parsed, Within
<1>7. h \in 1..Len(d)
  BY HunkPlaces
<1>8. Reads(old, d, h)
  <2>1. Reads(hunks[Upto(HunksOf(d, q), h)], d, h) /\ Len(hunks) = Cardinality(HunksOf(d, q))
    BY <1>5 DEF HunksRead
  <2>2. Upto(HunksOf(d, q), h) = Cardinality(HunksOf(d, q))
    BY <1>6, LastHeader
  <2>. QED  BY <1>1, <2>1, <2>2 DEF Last
<1>9. hunk \in Hunk /\ Reads(hunk, e, h) /\ LastLine(hunk, e, h)
  <2>1. CASE line.mark = "\\"
    <3>1. hunk \in RemoveLastNewline(old)
      BY <1>1, <2>1
    <3>2. hunk \in Hunk
      BY <1>4, <3>1, NewlineRemoved
    <3>. QED  BY <1>1, <1>4, <1>6, <1>7, <1>8, <2>1, <3>1, <3>2, NewlineGone
  <2>2. CASE line.mark # "\\"
    <3>1. hunk \in AddLine(old, line)
      BY <1>1, <2>2
    <3>2. line.mark \in Marks /\ line.mark \in {" ", "-", "+"}
      BY <2>2 DEF BodyMarks, Marks
    <3>3. hunk \in Hunk
      BY <1>4, <3>1, <3>2, LineOfHunk
    <3>. QED  BY <1>1, <1>4, <1>6, <1>7, <1>8, <3>1, <3>2, <3>3, LineRead
  <2>. QED  BY <2>1, <2>2
<1>10. PICK more : more = Append(Front(hunks), hunk)
  OBVIOUS
<1>11. more \in Seq(Hunk) /\ more # <<>> /\ Last(more) = hunk
  BY <1>4, <1>9, <1>10, AppendedLast
<1>12. HunksRead(more, e, q)
  BY <1>1, <1>3, <1>5, <1>6, <1>9, <1>10, HunkGrown
<1>13. \E x \in HunksOf(e, q) : Open(e, x) /\ LastLine(Last(more), e, x)
  <2>1. h \in HunksOf(e, q)
    BY <1>1, HunksNext
  <2>2. Open(e, h)
    <3>1. Len(e) = L + 1 /\ e[L + 1] = line /\ \A k \in 1..L : e[k] = d[k]
      BY <1>1, NextLine
    <3>2. \A k \in (h + 1)..(L + 1) : k = L + 1 \/ (k \in (h + 1)..L /\ k \in 1..L)
      BY <1>1, <1>7
    <3>. QED  BY <1>1, <1>6, <3>1, <3>2 DEF Open
  <2>. QED  BY <1>9, <1>11, <2>1, <2>2
<1>. QED  BY <1>1, <1>2, <1>10, <1>11, <1>12, <1>13, HunkLine

(* ParseLine keeps it, whatever the line. *)
LEMMA LineUnderstood ==
  ASSUME NEW d \in Seq(DiffLine), NEW line \in DiffLine, NEW s, Parsed(s, d),
         NEW r \in ParseLine(s, line)
  PROVE  Parsed(r, Append(d, line))
<1>1. s \in Parser /\ r \in Parser
  BY LineParsed DEF Parsed
<1>2. s.mode \in {"headed", "hunk"} => s.files # <<>>
  BY <1>1 DEF Parser
<1>3. CASE s.mode = "hunk" /\ line.mark \in {" ", "-", "+", "\\"}
  <2>1. PICK hunks : hunks = Last(s.files).hunks
    OBVIOUS
  <2>2. PICK hunk \in IF line.mark = "\\" THEN RemoveLastNewline(Last(hunks))
                                          ELSE AddLine(Last(hunks), line) :
          r = WithHunks(s, Append(Front(hunks), hunk))
    BY <1>3, <2>1 DEF ParseLine
  <2>3. line.mark \in BodyMarks
    BY <1>3 DEF BodyMarks
  <2>. QED  BY <1>3, <2>1, <2>2, <2>3, BodyLine
<1>4. CASE s.mode \in {"headed", "hunk"} /\ line.mark = "@@" /\ HunkClosed(s)
  <2>1. PICK hunk \in OpenHunk(line) : r = WithHunks(s, Append(Last(s.files).hunks, hunk))
    BY <1>4 DEF ParseLine
  <2>. QED  BY <1>2, <1>4, <2>1, HeaderLine
<1>5. CASE s.mode = "old" /\ line.mark = "+++" /\ line.path = s.path
             /\ (\A k \in DOMAIN s.files : s.files[k].path # s.path)
  <2>1. PICK file \in Patch : file = [path |-> line.path, hunks |-> <<>>]
    <3>1. line.path \in Paths
      BY <1>1, <1>5 DEF Parser
    <3>. QED  BY <3>1, EmptySeq DEF Patch
  <2>2. r = [s EXCEPT !.mode = "headed", !.files = Append(s.files, file)]
    BY <1>5, <2>1 DEF ParseLine
  <2>3. r.files = Append(s.files, file) /\ r.mode = "headed"
    BY <1>1, <2>2 DEF Parser
  <2>4. \A k \in DOMAIN s.files : s.files[k].path # line.path
    BY <1>5
  <2>. QED  BY <1>1, <1>5, <2>1, <2>3, <2>4, FileLine
<1>6. CASE s.mode \in {"top", "hunk"} /\ line.mark = "---" /\ HunkClosed(s)
             /\ line.path # "unusable"
  <2>1. r = [s EXCEPT !.mode = "old", !.path = line.path]
    BY <1>6 DEF ParseLine
  <2>2. r.files = s.files /\ r.mode # "hunk"
    BY <1>1, <2>1 DEF Parser
  <2>3. line.mark \notin BodyMarks \cup {"@@", "+++"}
    BY <1>6 DEF BodyMarks
  <2>. QED  BY <1>1, <2>2, <2>3, OtherLine
<1>7. CASE s.mode = "top" /\ line.mark \in {"diff --git", "index"}
  <2>1. r = s
    BY <1>7 DEF ParseLine
  <2>2. line.mark \notin BodyMarks \cup {"@@", "+++"}
    BY <1>7 DEF BodyMarks
  <2>. QED  BY <1>1, <1>7, <2>1, <2>2, OtherLine
<1>8. CASE s.mode = "hunk" /\ line.mark = "diff --git" /\ HunkClosed(s)
  <2>1. r = [s EXCEPT !.mode = "top"]
    BY <1>8 DEF ParseLine
  <2>2. r.files = s.files /\ r.mode # "hunk"
    BY <1>1, <2>1 DEF Parser
  <2>3. line.mark \notin BodyMarks \cup {"@@", "+++"}
    BY <1>8 DEF BodyMarks
  <2>. QED  BY <1>1, <2>2, <2>3, OtherLine
<1>9. CASE ~ \/ s.mode = "hunk" /\ line.mark \in {" ", "-", "+", "\\"}
             \/ s.mode \in {"headed", "hunk"} /\ line.mark = "@@" /\ HunkClosed(s)
             \/ s.mode = "top" /\ line.mark \in {"diff --git", "index"}
             \/ s.mode = "hunk" /\ line.mark = "diff --git" /\ HunkClosed(s)
             \/ s.mode \in {"top", "hunk"} /\ line.mark = "---" /\ HunkClosed(s)
                  /\ line.path # "unusable"
             \/ s.mode = "old" /\ line.mark = "+++" /\ line.path = s.path
                  /\ (\A k \in DOMAIN s.files : s.files[k].path # s.path)
  <2>1. ParseLine(s, line) = {}
    BY <1>9, Zenon DEF ParseLine
  <2>. QED  BY <2>1
<1>. QED  BY <1>3, <1>4, <1>5, <1>6, <1>7, <1>8, <1>9

LEMMA PrefixNext ==
  ASSUME NEW S, NEW t \in Seq(S), NEW n \in 1..Len(t)
  PROVE  Append(SubSeq(t, 1, n - 1), t[n]) = SubSeq(t, 1, n)
<1>1. n \in 0..Len(t) /\ n - 1 \in 0..Len(t) /\ n - 1 + 1 = n
  BY LenProperties
<1>2. PICK a, b : a = SubSeq(t, 1, n - 1) /\ b = SubSeq(t, 1, n)
  OBVIOUS
<1>3. /\ a \in Seq(S) /\ Len(a) = n - 1 /\ \A i \in 1..(n - 1) : a[i] = t[i]
      /\ b \in Seq(S) /\ Len(b) = n /\ \A i \in 1..n : b[i] = t[i]
  BY <1>1, <1>2, Prefix
<1>4. t[n] \in S
  BY ElementOfSeq
<1>5. /\ Append(a, t[n]) \in Seq(S) /\ Len(Append(a, t[n])) = n
      /\ Append(a, t[n])[n] = t[n] /\ \A i \in 1..(n - 1) : Append(a, t[n])[i] = t[i]
  <2>1. /\ Append(a, t[n]) \in Seq(S) /\ Len(Append(a, t[n])) = Len(a) + 1
        /\ Append(a, t[n])[Len(a) + 1] = t[n]
        /\ \A i \in 1..Len(a) : Append(a, t[n])[i] = a[i]
    BY <1>3, <1>4, AppendProperties
  <2>. QED  BY <1>1, <1>3, <2>1
<1>6. \A i \in 1..n : i = n \/ i \in 1..(n - 1)
  OBVIOUS
<1>7. \A i \in 1..n : Append(a, t[n])[i] = b[i]
  BY <1>3, <1>5, <1>6
<1>8. Append(a, t[n]) = b
  BY <1>3, <1>5, <1>7, SeqEqual
<1>. QED  BY <1>2, <1>8

LEMMA BlankUnderstood ==
  ASSUME Blank \in Parser
  PROVE  Parsed(Blank, <<>>)
<1>1. Blank.files = <<>> /\ Blank.mode = "top"
  BY DEF Blank
<1>2. DOMAIN <<>> = {} /\ \A k \in DOMAIN <<>> : FALSE
  <2>1. Len(<<>>) = 0 /\ DOMAIN <<>> = 1..Len(<<>>)
    BY EmptySeq, LenProperties
  <2>. QED  BY <2>1
<1>3. Distinct(<<>>) /\ AllRead(<<>>, <<>>) /\ Found(<<>>, <<>>) /\ Newest(<<>>, <<>>)
  BY <1>2 DEF Distinct, AllRead, Found, Newest
<1>4. Outside("top", <<>>)
  BY DEF Outside
<1>. QED  BY <1>1, <1>3, <1>4 DEF Parsed

LEMMA DiffUnderstood ==
  ASSUME NEW document \in Seq(DiffLine), NEW files \in ParseUnifiedDiff(document)
  PROVE  \E s : Parsed(s, document) /\ s.files = files
<1>1. PICK N \in Nat : N = Len(document)
  BY LenProperties
<1>2. PICK f \in [0..N -> Parser] :
        /\ f[0] = Blank /\ f[N].files = files
        /\ \A n \in 1..N : f[n] \in ParseLine(f[n - 1], document[n])
  BY <1>1, ParserRun
<1>. DEFINE T == {n \in 0..N : Parsed(f[n], SubSeq(document, 1, n))}
<1>3. 0 \in T
  <2>1. SubSeq(document, 1, 0) = <<>>
    <3>1. 0 \in 0..Len(document)
      BY <1>1
    <3>2. SubSeq(document, 1, 0) \in Seq(DiffLine) /\ Len(SubSeq(document, 1, 0)) = 0
      BY <3>1, Prefix
    <3>. QED  BY <3>2, EmptySeq
  <2>2. Blank \in Parser
    BY <1>2
  <2>. QED  BY <1>2, <2>1, <2>2, BlankUnderstood
<1>4. ASSUME NEW n \in 1..N, n - 1 \in T PROVE n \in T
  <2>1. PICK d, line : d = SubSeq(document, 1, n - 1) /\ line = document[n]
    OBVIOUS
  <2>2. d \in Seq(DiffLine) /\ line \in DiffLine
    BY <1>1, <2>1, Prefix, ElementOfSeq
  <2>3. Append(d, line) = SubSeq(document, 1, n)
    BY <1>1, <2>1, PrefixNext
  <2>4. Parsed(f[n - 1], d) /\ f[n] \in ParseLine(f[n - 1], line)
    BY <1>2, <1>4, <2>1
  <2>5. Parsed(f[n], Append(d, line))
    BY <2>2, <2>4, LineUnderstood
  <2>. QED  BY <2>3, <2>5
<1>. HIDE DEF T
<1>5. N \in T
  <2>1. \A n \in 0..N : n \in T
    BY <1>3, <1>4, Stepwise
  <2>. QED  BY <2>1
<1>6. SubSeq(document, 1, N) = document
  BY <1>1, SubSeqFull
<1>. QED  BY <1>2, <1>5, <1>6 DEF T

-----------------------------------------------------------------------------
(* Hunks, one after the other *)

LEMMA OneMoreAfter ==
  ASSUME NEW S, NEW x \in Seq(S), NEW a \in Seq(S), NEW c \in S
  PROVE  x \o Append(a, c) = Append(x \o a, c)
<1>1. PICK one : one = <<c>> /\ one \in Seq(S)
  BY Singletons
<1>2. Append(a, c) = a \o one
  BY <1>1, AppendIsConcat
<1>3. x \o a \in Seq(S)
  BY ConcatProperties
<1>4. Append(x \o a, c) = (x \o a) \o one
  BY <1>1, <1>3, AppendIsConcat
<1>. QED  BY <1>1, <1>2, <1>4, ConcatAssociative

LEMMA FlattenConcat ==
  ASSUME NEW S, NEW x \in Seq(Seq(S)), NEW y \in Seq(Seq(S))
  PROVE  FlattenSeq(x \o y) = FlattenSeq(x) \o FlattenSeq(y)
<1>0. PICK P : P = Seq(S)
  OBVIOUS
<1>1. PICK N \in Nat : P = Seq(S) /\ N = Len(y)
  BY <1>0, LenProperties
<1>. DEFINE p(n) == SubSeq(y, 1, n)
            T == {n \in 0..N : FlattenSeq(x \o p(n)) = FlattenSeq(x) \o FlattenSeq(p(n))}
<1>2. 0 \in T
  <2>1. p(0) = <<>>
    BY <1>1, Prefix, EmptySeq
  <2>2. x \o <<>> = x
    BY ConcatEmptySeq
  <2>3. FlattenSeq(x) \in Seq(S) /\ FlattenSeq(x) \o <<>> = FlattenSeq(x)
    BY Pieces, ConcatEmptySeq
  <2>4. FlattenSeq(x \o p(0)) = FlattenSeq(x) \o FlattenSeq(p(0))
    BY <2>1, <2>2, <2>3, FlattenEmpty, Zenon
  <2>. QED  BY <1>1, <2>4
<1>3. ASSUME NEW n \in 1..N, n - 1 \in T PROVE n \in T
  <2>1. PICK a, c, b : a = p(n - 1) /\ c = y[n] /\ b = x \o a
    OBVIOUS
  <2>2. a \in Seq(P) /\ c \in P /\ b \in Seq(P)
    BY <1>1, <2>1, Prefix, ElementOfSeq, ConcatProperties
  <2>3. p(n) = Append(a, c)
    BY <1>1, <2>1, PrefixNext
  <2>4. x \o Append(a, c) = Append(b, c)
    <3>1. x \in Seq(P)
      BY <1>1
    <3>. QED  BY <2>1, <2>2, <3>1, OneMoreAfter
  <2>5. FlattenSeq(Append(b, c)) = FlattenSeq(b) \o c /\ FlattenSeq(Append(a, c)) = FlattenSeq(a) \o c
    BY <1>1, <2>2, FlattenAppend
  <2>6. FlattenSeq(b) = FlattenSeq(x) \o FlattenSeq(a)
    BY <1>3, <2>1
  <2>7. (FlattenSeq(x) \o FlattenSeq(a)) \o c = FlattenSeq(x) \o (FlattenSeq(a) \o c)
    <3>1. FlattenSeq(x) \in Seq(S) /\ FlattenSeq(a) \in Seq(S) /\ c \in Seq(S)
      BY <1>1, <2>2, Pieces
    <3>. QED  BY <3>1, ConcatAssociative
  <2>8. FlattenSeq(x \o p(n)) = FlattenSeq(x) \o FlattenSeq(p(n))
    BY <2>3, <2>4, <2>5, <2>6, <2>7
  <2>. QED  BY <2>8
<1>. HIDE DEF T
<1>4. N \in T
  <2>1. \A n \in 0..N : n \in T
    BY <1>1, <1>2, <1>3, Stepwise
  <2>. QED  BY <2>1
<1>5. p(N) = y
  BY <1>1, SubSeqFull
<1>. QED  BY <1>4, <1>5 DEF T

(* What stands behind the first c elements of a sequence cut in two places. *)
LEMMA Behind ==
  ASSUME NEW head \in Seq(LFText), NEW rest \in Seq(LFText), NEW c \in 0..Len(head)
  PROVE  /\ SubSeq(head \o rest, c + 1, Len(head \o rest))
              = SubSeq(head, c + 1, Len(head)) \o rest
         /\ c <= Len(head \o rest) /\ \A i \in 1..c : (head \o rest)[i] = head[i]
<1>2. PICK v : v = head \o rest
  OBVIOUS
<1>3. v \in Seq(LFText)
  BY <1>2, ConcatProperties
<1>4. PICK h \in Nat, r \in Nat : h = Len(head) /\ r = Len(rest)
  BY <1>3, LenProperties
<1>5. /\ Len(v) = h + r /\ \A i \in 1..h : v[i] = head[i]
      /\ \A i \in 1..r : v[h + i] = rest[i]
  BY <1>2, <1>3, <1>4, ConcatProperties
<1>6. /\ c \in 0..h /\ c \in 0..(h + r) /\ h \in 0..h /\ h + r \in 0..(h + r)
      /\ c <= h /\ c <= h + r
  BY <1>4
<1>7. PICK a, b : a = SubSeq(head, c + 1, h) /\ b = SubSeq(v, c + 1, h + r)
  OBVIOUS
<1>8. a \in Seq(LFText) /\ Len(a) = h - c /\ \A i \in 1..(h - c) : a[i] = head[c + i]
  BY <1>4, <1>6, <1>7, Slice
<1>9. b \in Seq(LFText) /\ Len(b) = h + r - c /\ \A i \in 1..(h + r - c) : b[i] = v[c + i]
  <2>1. PICK n : n = h + r
    OBVIOUS
  <2>2. c \in 0..Len(v) /\ n \in 0..Len(v) /\ c <= n
    BY <1>5, <1>6, <2>1
  <2>3. /\ SubSeq(v, c + 1, n) \in Seq(LFText) /\ Len(SubSeq(v, c + 1, n)) = n - c
        /\ \A i \in 1..(n - c) : SubSeq(v, c + 1, n)[i] = v[c + i]
    BY <1>3, <2>2, Slice
  <2>. QED  BY <1>7, <2>1, <2>3
<1>10. PICK k \in Nat : k = h - c
  <2>1. h - c \in Nat
    BY <1>6
  <2>. QED  BY <2>1
<1>11. /\ a \o rest \in Seq(LFText) /\ Len(a \o rest) = k + r
       /\ \A i \in 1..k : (a \o rest)[i] = a[i]
       /\ \A i \in 1..r : (a \o rest)[k + i] = rest[i]
  <2>1. /\ a \o rest \in Seq(LFText) /\ Len(a \o rest) = Len(a) + Len(rest)
        /\ \A i \in 1..Len(a) + Len(rest) :
             (a \o rest)[i] = IF i <= Len(a) THEN a[i] ELSE rest[i - Len(a)]
    BY <1>3, <1>8, ConcatProperties
  <2>2. Len(a) = k /\ Len(rest) = r
    BY <1>4, <1>8, <1>10
  <2>3. ASSUME NEW i \in 1..k PROVE (a \o rest)[i] = a[i]
    BY <2>1, <2>2
  <2>4. ASSUME NEW i \in 1..r PROVE (a \o rest)[k + i] = rest[i]
    <3>1. k + i \in 1..(k + r) /\ ~(k + i <= k) /\ k + i - k = i
      OBVIOUS
    <3>. QED  BY <2>1, <2>2, <3>1
  <2>. QED  BY <2>1, <2>2, <2>3, <2>4
<1>12. ASSUME NEW i \in 1..(k + r) PROVE (a \o rest)[i] = b[i]
  <2>1. i \in 1..(h + r - c)
    BY <1>10
  <2>2. CASE i \in 1..k
    <3>1. c + i \in 1..h /\ i \in 1..(h - c)
      BY <1>6, <1>10, <2>2
    <3>2. (a \o rest)[i] = a[i] /\ a[i] = head[c + i] /\ b[i] = v[c + i] /\ v[c + i] = head[c + i]
      BY <1>5, <1>8, <1>9, <1>11, <2>1, <2>2, <3>1, Zenon
    <3>. QED  BY <3>2
  <2>3. CASE i \notin 1..k
    <3>1. PICK j \in 1..r : i = k + j
      <4>1. i - k \in 1..r /\ i = k + (i - k)
        BY <2>3
      <4>. QED  BY <4>1
    <3>2. c + i = h + j
      BY <1>6, <1>10, <3>1
    <3>3. (a \o rest)[i] = rest[j] /\ b[i] = v[h + j] /\ v[h + j] = rest[j]
      <4>1. (a \o rest)[i] = rest[j]
        BY <1>11, <3>1, Zenon
      <4>2. b[i] = v[h + j]
        BY <1>9, <2>1, <3>2
      <4>3. v[h + j] = rest[j]
        BY <1>5
      <4>. QED  BY <4>1, <4>2, <4>3
    <3>. QED  BY <3>3
  <2>. QED  BY <2>2, <2>3
<1>13. a \o rest = b
  <2>1. Len(b) = k + r
    BY <1>9, <1>10
  <2>. QED  BY <1>9, <1>11, <1>12, <2>1, SeqEqual
<1>14. \A i \in 1..c : v[i] = head[i]
  BY <1>5, <1>6
<1>. QED  BY <1>2, <1>4, <1>5, <1>6, <1>7, <1>13, <1>14, Zenon

LEMMA TextsJoin ==
  ASSUME NEW s \in Seq(LFChar), NEW t \in Seq(LFChar), NEW u \in Seq(LFChar)
  PROVE  (s \o t) \o u = s \o (t \o u)
BY ConcatAssociative

LEMMA LinesJoin ==
  ASSUME NEW s \in Seq(LFText), NEW t \in Seq(LFText), NEW u \in Seq(LFText)
  PROVE  (s \o t) \o u = s \o (t \o u)
BY ConcatAssociative

LEMMA HunkDone ==
  ASSUME NEW source \in Seq(LFText), NEW hunk \in Hunk,
         NEW s \in [cursor : 0..Len(source), output : LFText], NEW r \in ApplyHunk(source, s, hunk),
         NEW w \in Seq(LFText), Agrees(w, source, r.cursor)
  PROVE  /\ Inserted(hunk, w) \in Seq(LFText)
         /\ Agrees(Inserted(hunk, w), source, s.cursor)
         /\ Finished(s, Inserted(hunk, w)) = Finished(r, w)
<1>1. PICK L \in Nat, M \in Nat : L = Len(source) /\ M = Len(w)
  BY LenProperties
<1>2. PICK c \in 0..L : c = s.cursor
  BY <1>1
<1>3. PICK out \in Seq(LFChar) : out = s.output
  BY Characters
<1>4. hunk.old \in Seq(LFText) /\ hunk.new \in Seq(LFText) /\ hunk.start \in Nat
  BY DEF Hunk
<1>5. PICK h \in Int : h = HunkStart(hunk)
  BY <1>4 DEF HunkStart
<1>6. PICK n \in Nat : n = Len(hunk.old)
  BY <1>4, LenProperties
<1>7. /\ h >= c /\ h + n <= L
      /\ r = [cursor |-> h + n,
              output |-> out \o FlattenSeq(SubSeq(source, c + 1, h)) \o FlattenSeq(hunk.new)]
  BY <1>1, <1>2, <1>3, <1>5, <1>6 DEF ApplyHunk
<1>8. /\ c \in 0..h /\ h \in 0..L /\ h \in Nat /\ h + n \in 0..L /\ c <= h /\ h <= h + n
      /\ r.cursor = h + n
  BY <1>2, <1>7
<1>9. h + n <= M /\ \A i \in 1..(h + n) : w[i] = source[i]
  BY <1>1, <1>8 DEF Agrees
<1>10. h \in 0..M /\ h + n \in 0..M /\ M \in 0..M
  BY <1>8, <1>9
<1>11. PICK head, tail : head = SubSeq(w, 1, h) /\ tail = SubSeq(w, h + n + 1, M)
  OBVIOUS
<1>12. head \in Seq(LFText) /\ Len(head) = h /\ \A i \in 1..h : head[i] = source[i]
  <2>1. head \in Seq(LFText) /\ Len(head) = h
    BY <1>1, <1>10, <1>11, Prefix
  <2>2. ASSUME NEW i \in 1..h PROVE head[i] = source[i]
    <3>1. /\ SubSeq(w, 0 + 1, h) \in Seq(LFText) /\ Len(SubSeq(w, 0 + 1, h)) = h - 0
          /\ \A k \in 1..(h - 0) : SubSeq(w, 0 + 1, h)[k] = w[0 + k]
      <4>1. 0 \in 0..Len(w) /\ h \in 0..Len(w) /\ 0 <= h
        BY <1>1, <1>10
      <4>. QED  BY <4>1, Slice
    <3>2. head[i] = w[i]
      BY <1>11, <3>1
    <3>3. i \in 1..(h + n)
      BY <1>8
    <3>. QED  BY <1>9, <3>2, <3>3
  <2>. QED  BY <2>1, <2>2
<1>13. tail \in Seq(LFText)
  <2>1. PICK b : b = h + n
    OBVIOUS
  <2>2. b \in 0..Len(w) /\ M \in 0..Len(w) /\ b <= M
    BY <1>1, <1>9, <1>10, <2>1
  <2>. QED  BY <1>11, <2>1, <2>2, Slice
<1>14. PICK v : v = head \o hunk.new \o tail
  OBVIOUS
<1>15. v = Inserted(hunk, w)
  BY <1>1, <1>5, <1>6, <1>11, <1>14 DEF Inserted
<1>16. /\ v \in Seq(LFText) /\ SubSeq(v, c + 1, Len(v)) = SubSeq(head, c + 1, h) \o hunk.new \o tail
       /\ c <= Len(v) /\ \A i \in 1..c : v[i] = head[i]
  <2>1. c \in 0..Len(head)
    BY <1>8, <1>12
  <2>2. PICK new : new = hunk.new
    OBVIOUS
  <2>3. new \in Seq(LFText)
    BY <1>4, <2>2
  <2>4. PICK rest : rest = new \o tail
    OBVIOUS
  <2>5. rest \in Seq(LFText)
    BY <1>13, <2>3, <2>4, ConcatProperties
  <2>6. v = head \o rest /\ v \in Seq(LFText)
    <3>1. v = (head \o new) \o tail
      BY <1>14, <2>2
    <3>2. (head \o new) \o tail = head \o rest
      <4>1. head \in Seq(LFText)
        BY <1>12
      <4>2. (head \o new) \o tail = head \o (new \o tail)
        BY <4>1, <1>13, <2>3, LinesJoin
      <4>. QED  BY <4>2, <2>4
    <3>3. head \o rest \in Seq(LFText)
      BY <1>12, <2>5, ConcatProperties
    <3>. QED  BY <3>1, <3>2, <3>3
  <2>7. /\ SubSeq(v, c + 1, Len(v)) = SubSeq(head, c + 1, h) \o rest
        /\ c <= Len(v) /\ \A i \in 1..c : v[i] = head[i]
    BY <1>12, <2>1, <2>5, <2>6, Behind
  <2>8. SubSeq(head, c + 1, h) \in Seq(LFText)
    <3>1. c \in 0..Len(head) /\ h \in 0..Len(head)
      BY <1>8, <1>12
    <3>. QED  BY <1>8, <1>12, <3>1, Slice
  <2>9. SubSeq(head, c + 1, h) \o rest = SubSeq(head, c + 1, h) \o new \o tail
    BY <1>13, <2>3, <2>4, <2>8, LinesJoin
  <2>. QED  BY <2>2, <2>6, <2>7, <2>9
<1>17. Agrees(v, source, c)
  <2>1. \A i \in 1..c : i \in 1..h
    BY <1>8
  <2>. QED  BY <1>12, <1>16, <2>1 DEF Agrees
<1>18. PICK a : a = SubSeq(source, c + 1, h)
  OBVIOUS
<1>19. a \in Seq(LFText) /\ SubSeq(head, c + 1, h) = a
  <2>1. a \in Seq(LFText) /\ Len(a) = h - c /\ \A i \in 1..(h - c) : a[i] = source[c + i]
    <3>1. c \in 0..Len(source) /\ h \in 0..Len(source) /\ c <= h
      BY <1>1, <1>8
    <3>. QED  BY <1>18, <3>1, Slice
  <2>2. PICK b : b = SubSeq(head, c + 1, h)
    OBVIOUS
  <2>3. b \in Seq(LFText) /\ Len(b) = h - c /\ \A i \in 1..(h - c) : b[i] = head[c + i]
    <3>1. c \in 0..Len(head) /\ h \in 0..Len(head)
      BY <1>8, <1>12
    <3>. QED  BY <1>8, <1>12, <2>2, <3>1, Slice
  <2>4. \A i \in 1..(h - c) : c + i \in 1..h
    BY <1>8
  <2>5. \A i \in 1..(h - c) : a[i] = b[i]
    BY <1>12, <2>1, <2>3, <2>4
  <2>6. a = b
    BY <2>1, <2>3, <2>5, SeqEqual
  <2>. QED  BY <2>1, <2>2, <2>6
<1>20. PICK fa, fn, ft : fa = FlattenSeq(a) /\ fn = FlattenSeq(hunk.new) /\ ft = FlattenSeq(tail)
  OBVIOUS
<1>21. fa \in Seq(LFChar) /\ fn \in Seq(LFChar) /\ ft \in Seq(LFChar)
  BY <1>4, <1>13, <1>19, <1>20, Characters, Pieces
<1>22. FlattenSeq(a \o hunk.new \o tail) = (fa \o fn) \o ft
  <2>1. PICK n1, t1 : n1 = hunk.new /\ t1 = tail
    OBVIOUS
  <2>2. a \in Seq(Seq(LFChar)) /\ n1 \in Seq(Seq(LFChar)) /\ t1 \in Seq(Seq(LFChar))
    BY <1>4, <1>13, <1>19, <2>1, Characters
  <2>3. a \o n1 \in Seq(Seq(LFChar))
    BY <2>2, ConcatProperties
  <2>4. FlattenSeq(a \o n1) = fa \o fn
    BY <1>20, <2>1, <2>2, FlattenConcat
  <2>5. FlattenSeq((a \o n1) \o t1) = FlattenSeq(a \o n1) \o FlattenSeq(t1)
    BY <2>2, <2>3, FlattenConcat
  <2>. QED  BY <1>20, <2>1, <2>4, <2>5
<1>23. out \o ((fa \o fn) \o ft) = ((out \o fa) \o fn) \o ft
  <2>1. fa \o fn \in Seq(LFChar) /\ out \o fa \in Seq(LFChar)
    BY <1>3, <1>21, ConcatProperties
  <2>2. out \o ((fa \o fn) \o ft) = (out \o (fa \o fn)) \o ft
    <3>1. PICK x : x = fa \o fn
      OBVIOUS
    <3>2. x \in Seq(LFChar) /\ out \in Seq(LFChar)
      BY <1>3, <2>1, <3>1
    <3>3. out \o (x \o ft) = (out \o x) \o ft
      BY <3>2, <1>21, TextsJoin
    <3>. QED  BY <3>1, <3>3
  <2>3. out \o (fa \o fn) = (out \o fa) \o fn
    <3>1. out \in Seq(LFChar)
      BY <1>3
    <3>. QED  BY <3>1, <1>21, TextsJoin
  <2>. QED  BY <2>2, <2>3
<1>24. Finished(s, v) = Finished(r, w)
  <2>1. Finished(s, v) = out \o ((fa \o fn) \o ft)
    BY <1>2, <1>3, <1>16, <1>19, <1>22 DEF Finished
  <2>2. r.output = (out \o fa) \o fn
    BY <1>7, <1>18, <1>20
  <2>3. Finished(r, w) = ((out \o fa) \o fn) \o ft
    BY <1>1, <1>8, <1>11, <1>20, <2>2 DEF Finished
  <2>. QED  BY <1>23, <2>1, <2>3
<1>. QED  BY <1>2, <1>15, <1>16, <1>17, <1>24

(* The lines of a file in ByHand, hunk by hunk. *)
HandMade(f, document, path, t, K) ==
  /\ f[0] = CanonicalLines(t) /\ ByHand(document, path, t) = FlattenSeq(f[K])
  /\ \A k \in 1..K : f[k] = HunkByHand(document, EndOf(HunksOf(document, path), K - k + 1), f[k - 1])

LEMMA ByHandRun ==
  ASSUME NEW document, NEW path, NEW t, NEW K \in Nat, K = Cardinality(HunksOf(document, path))
  PROVE  \E f : HandMade(f, document, path, t, K)
<1>0. PICK hunks : hunks = HunksOf(document, path)
  OBVIOUS
<1>. DEFINE Next1(k, lines) == HunkByHand(document, EndOf(hunks, K - k + 1), lines)
            Body(m, f) == [k \in 0..m |-> IF k = 0 THEN CanonicalLines(t) ELSE Next1(k, f[k - 1])]
            T == {m \in 0..K : \E f : f = Body(m, f)}
            lines == CHOOSE f : f = Body(K, f)
<1>1. ByHand(document, path, t) = FlattenSeq(lines[K])
  BY <1>0 DEF ByHand
<1>. HIDE DEF Next1
<1>2. 0 \in T
  <2>1. PICK f : f = [k \in 0..0 |-> CanonicalLines(t)]
    OBVIOUS
  <2>2. f = Body(0, f)
    BY <2>1
  <2>. QED  BY <2>2
<1>3. ASSUME NEW m \in 1..K, m - 1 \in T PROVE m \in T
  <2>1. PICK f : f = Body(m - 1, f)
    BY <1>3
  <2>2. PICK g : g = [k \in 0..m |-> IF k = 0 THEN CanonicalLines(t) ELSE Next1(k, f[k - 1])]
    OBVIOUS
  <2>3. ASSUME NEW k \in 0..(m - 1) PROVE g[k] = f[k]
    <3>1. k \in 0..m
      OBVIOUS
    <3>2. g[k] = IF k = 0 THEN CanonicalLines(t) ELSE Next1(k, f[k - 1])
      BY <2>2, <3>1
    <3>3. f[k] = IF k = 0 THEN CanonicalLines(t) ELSE Next1(k, f[k - 1])
      BY <2>1
    <3>. QED  BY <3>2, <3>3
  <2>4. ASSUME NEW k \in 0..m
        PROVE  g[k] = IF k = 0 THEN CanonicalLines(t) ELSE Next1(k, g[k - 1])
    <3>1. CASE k = 0
      BY <2>2, <3>1
    <3>2. CASE k # 0
      <4>1. k - 1 \in 0..(m - 1)
        BY <3>2
      <4>2. g[k - 1] = f[k - 1]
        BY <2>3, <4>1
      <4>3. g[k] = Next1(k, f[k - 1])
        BY <2>2, <3>2
      <4>. QED  BY <3>2, <4>2, <4>3
    <3>. QED  BY <3>1, <3>2
  <2>5. g = Body(m, g)
    BY <2>2, <2>4
  <2>. QED  BY <2>5
<1>. HIDE DEF T
<1>4. K \in T
  <2>1. \A m \in 0..K : m \in T
    BY <1>2, <1>3, Stepwise
  <2>. QED  BY <2>1
<1>5. lines = Body(K, lines)
  BY <1>4 DEF T
<1>. HIDE DEF lines
<1>6. \A k \in 0..K : lines[k] = IF k = 0 THEN CanonicalLines(t) ELSE Next1(k, lines[k - 1])
  BY <1>5
<1>7. 0 \in 0..K /\ \A k \in 1..K : k \in 0..K /\ k # 0
  OBVIOUS
<1>8. lines[0] = CanonicalLines(t) /\ \A k \in 1..K : lines[k] = Next1(k, lines[k - 1])
  BY <1>6, <1>7
<1>9. HandMade(lines, document, path, t, K)
  BY <1>0, <1>1, <1>8 DEF Next1, HandMade
<1>. QED  BY <1>9

LEMMA ReadByHand ==
  ASSUME NEW document, NEW h, NEW hunk \in Hunk, Reads(hunk, document, h), NEW w
  PROVE  HunkByHand(document, h, w) = Inserted(hunk, w)
<1>1. hunk.start \in Nat
  BY DEF Hunk
<1>2. /\ hunk.start = document[h].oldStart
      /\ hunk.old = LinesBelow(document, h, {" ", "-"})
      /\ hunk.new = LinesBelow(document, h, {" ", "+"})
  BY DEF Reads
<1>3. HunkStart(hunk) = document[h].oldStart - (IF hunk.old = <<>> THEN 0 ELSE 1)
  <2>1. PICK n \in Nat : n = hunk.start /\ n = document[h].oldStart
    BY <1>1, <1>2
  <2>2. HunkStart(hunk) = IF hunk.old = <<>> THEN n ELSE n - 1
    BY <2>1 DEF HunkStart
  <2>. QED  BY <2>1, <2>2
<1>. QED  BY <1>2, <1>3 DEF HunkByHand, Inserted

(* Done from the last hunk back, the hunks give what apply_file_diff gives. *)
LEMMA HunksByHand ==
  ASSUME NEW document \in Seq(DiffLine), NEW path, NEW hunks \in Seq(Hunk),
         HunksRead(hunks, document, path), NEW t \in LFText, SEP \notin Range(t),
         NEW u \in ApplyFileDiff(t, hunks)
  PROVE  u = ByHand(document, path, t)
<1>1. PICK H, source : H = HunksOf(document, path) /\ source = SplitLines(t)
  OBVIOUS
<1>2. PICK K \in Nat : K = Cardinality(H) /\ K = Len(hunks)
  BY <1>1, HunkPlaces DEF HunksRead
<1>3. source = CanonicalLines(t)
  <2>1. Ends(t, {LF, SEP}) = Ends(t, {LF})
    BY SameLines
  <2>. QED  BY <1>1, <2>1 DEF SplitLines, CanonicalLines, SplitAfter
<1>4. source \in Seq(LFText)
  BY <1>1, SourceLines
<1>5. PICK f \in [0..K -> States(source)] :
        /\ f[0] = Begin /\ u = Finished(f[K], source)
        /\ \A k \in 1..K : f[k] \in ApplyHunk(source, f[k - 1], hunks[k])
  BY <1>1, <1>2, ApplyRun
<1>6. PICK g : /\ g[0] = source /\ ByHand(document, path, t) = FlattenSeq(g[K])
               /\ \A m \in 1..K : g[m] = HunkByHand(document, EndOf(H, K - m + 1), g[m - 1])
  <2>1. PICK g : HandMade(g, document, path, t, K)
    BY <1>1, <1>2, ByHandRun
  <2>. QED  BY <1>1, <1>3, <2>1 DEF HandMade
<1>7. ASSUME NEW k \in 1..K, NEW w
      PROVE  HunkByHand(document, EndOf(H, k), w) = Inserted(hunks[k], w)
  <2>1. H \in SUBSET (1..Len(document)) /\ Len(document) \in Nat
    BY <1>1, HunkPlaces
  <2>2. PICK h : h = EndOf(H, k)
    OBVIOUS
  <2>3. h \in H /\ Upto(H, h) = k
    BY <1>2, <2>1, <2>2, OneOf
  <2>5. Reads(hunks[k], document, h)
    BY <1>1, <2>3 DEF HunksRead
  <2>6. hunks[k] \in Hunk
    BY <1>2, ElementOfSeq
  <2>. QED  BY <2>2, <2>5, <2>6, ReadByHand
<1>. DEFINE Good(m) == /\ g[m] \in Seq(LFText)
                       /\ Agrees(g[m], source, f[K - m].cursor)
                       /\ Finished(f[K - m], g[m]) = u
            T == {m \in 0..K : Good(m)}
<1>8. 0 \in T
  <2>1. K - 0 = K /\ K \in 0..K
    BY <1>2
  <2>2. f[K].cursor \in 0..Len(source) /\ Len(source) \in Nat
    BY <1>4, <1>5, <2>1, LenProperties DEF States
  <2>3. Agrees(source, source, f[K].cursor)
    BY <2>2 DEF Agrees
  <2>. QED  BY <1>4, <1>5, <1>6, <2>1, <2>3
<1>9. ASSUME NEW m \in 1..K, m - 1 \in T PROVE m \in T
  <2>1. PICK k \in 1..K : k = K - m + 1
    <3>1. K - m + 1 \in 1..K
      BY <1>2
    <3>. QED  BY <3>1
  <2>2. K - (m - 1) = k /\ K - m = k - 1 /\ k - 1 \in 0..K /\ k \in 0..K
    BY <1>2, <2>1
  <2>3. PICK w, s, r, hunk : w = g[m - 1] /\ s = f[k - 1] /\ r = f[k] /\ hunk = hunks[k]
    OBVIOUS
  <2>4. w \in Seq(LFText) /\ Agrees(w, source, r.cursor) /\ Finished(r, w) = u
    BY <1>9, <2>2, <2>3
  <2>5. s \in [cursor : 0..Len(source), output : LFText]
    BY <1>5, <2>2, <2>3 DEF States
  <2>6. r \in ApplyHunk(source, s, hunk)
    BY <1>5, <2>3
  <2>7. hunk \in Hunk
    BY <1>2, <2>3, ElementOfSeq
  <2>8. g[m] = Inserted(hunk, w)
    BY <1>6, <1>7, <2>1, <2>3
  <2>9. /\ Inserted(hunk, w) \in Seq(LFText) /\ Agrees(Inserted(hunk, w), source, s.cursor)
        /\ Finished(s, Inserted(hunk, w)) = Finished(r, w)
    BY <1>4, <2>4, <2>5, <2>6, <2>7, HunkDone
  <2>10. Good(m)
    BY <2>2, <2>3, <2>4, <2>8, <2>9
  <2>. QED  BY <2>10
<1>. HIDE DEF T
<1>10. K \in T
  <2>1. \A m \in 0..K : m \in T
    BY <1>2, <1>8, <1>9, Stepwise
  <2>. QED  BY <1>2, <2>1
<1>11. g[K] \in Seq(LFText) /\ Finished(Begin, g[K]) = u
  <2>1. K - K = 0
    BY <1>2
  <2>. QED  BY <1>5, <1>10, <2>1 DEF T
<1>12. Finished(Begin, g[K]) = FlattenSeq(g[K])
  <2>1. Begin.cursor + 1 = 1 /\ Begin.output = <<>>
    BY DEF Begin
  <2>2. SubSeq(g[K], 1, Len(g[K])) = g[K]
    BY <1>11, SubSeqFull
  <2>3. FlattenSeq(g[K]) \in Seq(LFChar)
    BY <1>11, Characters, Pieces
  <2>4. <<>> \o FlattenSeq(g[K]) = FlattenSeq(g[K])
    BY <2>3, ConcatEmptySeq
  <2>. QED  BY <2>1, <2>2, <2>4 DEF Finished
<1>. QED  BY <1>6, <1>11, <1>12

-----------------------------------------------------------------------------
LEMMA NoNewSeparator ==
  ASSUME NEW t \in Text, SEP \notin Range(t)
  PROVE  SEP \notin Range(Decoded(t))
<1>1. t \in Seq(Char) /\ \A c \in Char : c # CR => c \in LFChar
  BY Characters
<1>2. \A i \in DOMAIN t : t[i] \in Char /\ t[i] # SEP
  BY <1>1, ElementOfSeq, LenProperties DEF Range
<1>. DEFINE ss == [i \in DOMAIN t |-> IF t[i] = CR THEN <<>> ELSE <<t[i]>>]
<1>3. PICK S : S = LFChar \ {SEP}
  OBVIOUS
<1>4. \A i \in DOMAIN t : ss[i] \in Seq(S)
  <2>1. ASSUME NEW i \in DOMAIN t, t[i] # CR PROVE <<t[i]>> \in Seq(S)
    <3>1. t[i] \in S
      BY <1>1, <1>2, <1>3, <2>1
    <3>. QED  BY <3>1, Singletons
  <2>2. <<>> \in Seq(S)
    BY EmptySeq
  <2>. QED  BY <2>1, <2>2
<1>5. ss \in Seq(Seq(S))
  <2>1. DOMAIN ss = DOMAIN t /\ ss = [i \in DOMAIN t |-> ss[i]]
    OBVIOUS
  <2>. HIDE DEF ss
  <2>. QED  BY <1>1, <1>4, <2>1, OnePerCharacter
<1>6. Decoded(t) = FlattenSeq(ss)
  BY DEF Decoded
<1>. HIDE DEF ss
<1>7. Decoded(t) \in Seq(S)
  BY <1>5, <1>6, Pieces
<1>8. \A i \in DOMAIN Decoded(t) : Decoded(t)[i] \in S
  BY <1>7, ElementOfSeq, LenProperties
<1>. QED  BY <1>3, <1>8 DEF Range

(* A file no hunk of the diff is for. *)
LEMMA Untouched ==
  ASSUME NEW document \in Seq(DiffLine), NEW path, NEW t \in LFText, HunksOf(document, path) = {}
  PROVE  ByHand(document, path, t) = t
<1>1. Cardinality(HunksOf(document, path)) = 0
  BY FS_EmptySet
<1>2. PICK K \in Nat : K = 0 /\ K = Cardinality(HunksOf(document, path))
  BY <1>1
<1>3. PICK f : HandMade(f, document, path, t, K)
  BY <1>2, ByHandRun
<1>4. ByHand(document, path, t) = FlattenSeq(CanonicalLines(t))
  BY <1>2, <1>3 DEF HandMade
<1>5. PICK breaks, lines, e : /\ breaks = {LF} /\ lines = SplitAfter(t, breaks)
                              /\ e = LineEnds(t, breaks)
  OBVIOUS
<1>6. FlattenSeq(lines) = t
  BY <1>5, LinesAreTheText, Characters
<1>. QED  BY <1>4, <1>5, <1>6 DEF CanonicalLines

LEMMA PatchedByHand ==
  ASSUME NEW document \in Seq(DiffLine), NEW files \in ParseUnifiedDiff(document),
         NEW path, NEW bytes \in Text, SEP \notin Range(bytes),
         NEW after \in Patched(files, path, bytes)
  PROVE  Decoded(after) = ByHand(document, path, Decoded(bytes))
<1>1. PICK s : Parsed(s, document) /\ s.files = files
  BY DiffUnderstood
<1>2. PICK t \in LFText : t = Decoded(bytes)
  BY DecodedIsLF
<1>3. SEP \notin Range(t)
  BY <1>2, NoNewSeparator
<1>4. CASE \A k \in DOMAIN files : files[k].path # path
  <2>1. after = bytes
    BY <1>4 DEF Patched
  <2>2. \A n \in DOMAIN document : ~Names(document[n], path)
    BY <1>1, <1>4 DEF Parsed, Found
  <2>3. HunksOf(document, path) = {}
    <3>1. ASSUME NEW h \in HunksOf(document, path) PROVE FALSE
      <4>1. PICK n \in 1..h : Names(document[n], path)
        BY DEF HunksOf
      <4>2. h \in 1..Len(document) /\ Len(document) \in Nat /\ DOMAIN document = 1..Len(document)
        BY HunkPlaces, LenProperties
      <4>3. n \in DOMAIN document
        BY <4>2
      <4>. QED  BY <2>2, <4>1, <4>3
    <3>. QED  BY <3>1
  <2>. QED  BY <1>2, <2>1, <2>3, Untouched
<1>5. CASE ~ \A k \in DOMAIN files : files[k].path # path
  <2>1. Patched(files, path, bytes) =
          {Encoded(updated, Style(bytes)) :
             updated \in UNION {IF Editable(bytes) /\ files[k].path = path
                                  THEN ApplyFileDiff(Decoded(bytes), files[k].hunks)
                                  ELSE {} : k \in DOMAIN files}}
    BY <1>5, Zenon DEF Patched
  <2>2. PICK k \in DOMAIN files :
          /\ Editable(bytes) /\ files[k].path = path
          /\ \E updated \in ApplyFileDiff(Decoded(bytes), files[k].hunks) :
               after = Encoded(updated, Style(bytes))
    BY <2>1
  <2>3. PICK hunks : hunks = files[k].hunks
    OBVIOUS
  <2>4. hunks \in Seq(Hunk)
    <3>1. files \in Seq(Patch)
      BY <1>1 DEF Parsed, Parser
    <3>2. files[k] \in Patch
      BY <3>1, LenProperties, ElementOfSeq
    <3>. QED  BY <2>3, <3>2 DEF Patch
  <2>5. HunksRead(hunks, document, path)
    BY <1>1, <2>2, <2>3 DEF Parsed, AllRead
  <2>6. PICK updated \in ApplyFileDiff(t, hunks) : after = Encoded(updated, Style(bytes))
    BY <1>2, <2>2, <2>3
  <2>7. updated \in LFText
    BY <2>4, AppliedDiff
  <2>8. updated = ByHand(document, path, t)
    BY <1>3, <2>4, <2>5, HunksByHand
  <2>9. Decoded(after) = updated
    BY <2>2, <2>6, <2>7, EncodedBytes
  <2>. QED  BY <1>2, <2>8, <2>9
<1>. QED  BY <1>4, <1>5

-----------------------------------------------------------------------------
(* Every action, and what it leaves in the two files *)

Texts == raw \in Text /\ other \in Text

StylesKept == StyleKept(raw, raw') /\ StyleKept(other, other')

LEMMA OtherKept ==
  ASSUME Texts, other' = other
  PROVE  other' \in Text /\ StyleKept(other, other')
BY DEF Texts, StyleKept

LEMMA EditsExactly ==
  ASSUME Texts, NEW old \in Text, NEW new \in Text, NEW n,
         NEW name \in {"replace_exact", "insert_before", "insert_after", "delete_exact"},
         old # <<>>, name = "delete_exact" => new = <<>>,
         EditExactly(name, old, new, n)
  PROVE  /\ Texts' /\ StylesKept
         /\ name \in {"replace_exact", "delete_exact"} =>
              Counted(Decoded(raw), Decoded(raw'), request')
         /\ request' = [action |-> name, old |-> Normalize(old), new |-> Normalize(new), count |-> n]
<1>1. PICK t \in LFText, o \in LFText, w \in LFText :
        t = Decoded(raw) /\ o = Normalize(old) /\ w = Normalize(new)
  BY DecodedIsLF, NormalizedIsLF DEF Texts
<1>2. PICK updated \in CASE name = "replace_exact" -> ReplaceExact(t, o, w, n)
                         [] name = "insert_before" -> Insert(t, o, w, n, TRUE)
                         [] name = "insert_after"  -> Insert(t, o, w, n, FALSE)
                         [] name = "delete_exact"  -> DeleteExact(t, o, n) :
        Write(updated)
  BY <1>1, Zenon DEF EditExactly
<1>3. /\ ReplaceExact(t, o, w, n) \subseteq LFText
      /\ DeleteExact(t, o, n) \subseteq LFText
      /\ \A before \in BOOLEAN : Insert(t, o, w, n, before) \subseteq LFText
  BY ExactlyEdited
<1>4. updated \in LFText
  BY <1>2, <1>3
<1>5. raw' \in Text /\ StyleKept(raw, raw') /\ Decoded(raw') = updated
  BY <1>2, <1>4, Written DEF Texts
<1>6. /\ other' = other
      /\ request' = [action |-> name, old |-> Normalize(old), new |-> Normalize(new), count |-> n]
  BY Zenon DEF EditExactly
<1>7. o # <<>> /\ (name = "delete_exact" => w = <<>>)
  BY <1>1, NormalizedSome, NormalizedEmpty
<1>8. PICK q : q = [action |-> name, old |-> o, new |-> w, count |-> n]
  OBVIOUS
<1>9. request' = q /\ q.old = o /\ q.new = w /\ q.count = n
  BY <1>1, <1>6, <1>8
<1>10. ASSUME name \in {"replace_exact", "delete_exact"} PROVE Counted(t, updated, q)
  <2>1. updated # t => updated = Replace(t, o, w) /\ Count(t, o) = n
    <3>1. CASE name = "replace_exact"
      BY <1>2, <3>1 DEF ReplaceExact
    <3>2. CASE name = "delete_exact"
      BY <1>2, <1>7, <3>2 DEF DeleteExact
    <3>. QED  BY <1>10, <3>1, <3>2
  <2>2. PICK P : P = Positions(t, o)
    OBVIOUS
  <2>3. t \in Seq(LFChar) /\ o \in Seq(LFChar) /\ w \in Seq(LFChar)
    BY Characters
  <2>4. P \in Copies(t, o, Count(t, o))
    BY <2>2, <2>3, FoundCopies
  <2>5. Replaced(t, P, o, w, Replace(t, o, w))
    BY <1>7, <2>2, <2>3, ReplacedCopies
  <2>6. updated # t => P \in Copies(t, o, n) /\ Replaced(t, P, o, w, updated)
    BY <2>1, <2>4, <2>5
  <2>. QED  BY <1>9, <2>6 DEF Counted
<1>. QED  BY <1>1, <1>5, <1>6, <1>9, <1>10, OtherKept DEF Texts, StylesKept

LEMMA EditsRange ==
  ASSUME Texts, NEW first \in Nat, NEW last \in Nat, NEW guard, NEW content \in Text,
         NEW name \in {"replace_range", "before", "after"},
         name # "replace_range" => first = last,
         EditRange(name, first, last, guard, content)
  PROVE  /\ Texts' /\ StylesKept
         /\ Decoded(raw') = RangeResult(Decoded(raw), request')
<1>1. PICK t \in LFText, c \in LFText : t = Decoded(raw) /\ c = Normalize(content)
  BY DecodedIsLF, NormalizedIsLF DEF Texts
<1>2. PICK updated :
        /\ Write(updated)
        /\ updated \in CASE name = "replace_range" -> ReplaceRange(t, first, last, guard, c)
                         [] name = "before"        -> InsertAtLine(t, first, guard, c, TRUE)
                         [] name = "after"         -> InsertAtLine(t, first, guard, c, FALSE)
  BY <1>1, Zenon DEF EditRange
<1>3. PICK q : q = [action |-> name, first |-> first, last |-> last, content |-> content]
  OBVIOUS
<1>. DEFINE head == FirstLines(t, first - 1)
            upto == FirstLines(t, last)
<1>. HIDE DEF head, upto
<1>0. RangeResult(t, q) =
        CASE name = "replace_range" -> head \o c \o Rest(t, upto)
          [] name = "before" -> head \o c \o Rest(t, head)
          [] name = "after"  -> upto \o c \o Rest(t, upto)
  <2>1. q.action = name /\ q.first = first /\ q.last = last /\ Normalize(q.content) = c
    BY <1>1, <1>3
  <2>. QED  BY <2>1, Zenon DEF RangeResult, head, upto
<1>4. request' = q /\ other' = other
  BY <1>3 DEF EditRange
<1>5. updated \in LFText /\ updated = RangeResult(t, q)
  <2>1. CASE name = "replace_range"
    <3>1. updated \in ReplaceRange(t, first, last, guard, c)
      BY <1>2, <2>1
    <3>2. updated \in LFText
      BY <3>1, LinesReplaced
    <3>3. updated = FirstLines(t, first - 1) \o c \o Rest(t, FirstLines(t, last))
      BY <3>1, LinesReplaced
    <3>4. RangeResult(t, q) = FirstLines(t, first - 1) \o c \o Rest(t, FirstLines(t, last))
      BY <1>0, <2>1 DEF head, upto
    <3>. QED  BY <3>2, <3>3, <3>4
  <2>2. CASE name = "before"
    <3>1. updated \in InsertsBefore(t, first, guard, c)
      BY <1>2, <2>2 DEF InsertsBefore
    <3>2. updated \in LFText
      BY <3>1, InsertedBeforeLine
    <3>3. updated = InsertedBehind(t, first - 1, c)
      BY <3>1, InsertedBeforeLine
    <3>4. RangeResult(t, q) = InsertedBehind(t, first - 1, c)
      BY <1>0, <2>2 DEF InsertedBehind, head, upto
    <3>. QED  BY <3>2, <3>3, <3>4
  <2>3. CASE name = "after"
    <3>1. updated \in InsertsAfter(t, first, guard, c)
      BY <1>2, <2>3 DEF InsertsAfter
    <3>2. updated \in LFText
      BY <3>1, InsertedAfterLine
    <3>3. updated = InsertedBehind(t, first, c)
      BY <3>1, InsertedAfterLine
    <3>4. RangeResult(t, q) = InsertedBehind(t, last, c)
      <4>1. RangeResult(t, q) = upto \o c \o Rest(t, upto)
        BY <1>0, <2>3
      <4>. QED  BY <4>1, Zenon DEF InsertedBehind, upto
    <3>. QED  BY <2>3, <3>2, <3>3, <3>4
  <2>. QED  BY <2>1, <2>2, <2>3
<1>6. raw' \in Text /\ StyleKept(raw, raw') /\ Decoded(raw') = updated
  BY <1>2, <1>5, Written DEF Texts
<1>. QED  BY <1>1, <1>4, <1>5, <1>6, OtherKept DEF Texts, StylesKept

LEMMA AppliesDiff ==
  ASSUME Texts, NEW document \in Seq(DiffLine), ApplyDiff(document)
  PROVE  /\ Texts' /\ StylesKept
         /\ request' = [action |-> "apply_diff", document |-> document]
         /\ SEP \notin Range(raw) => Decoded(raw') = ByHand(document, "raw", Decoded(raw))
         /\ SEP \notin Range(other) => Decoded(other') = ByHand(document, "other", Decoded(other))
<1>1. PICK files \in ParseUnifiedDiff(document) :
        raw' \in Patched(files, "raw", raw) /\ other' \in Patched(files, "other", other)
  BY Zenon DEF ApplyDiff
<1>2. files \in Seq(Patch)
  BY <1>1, ParsedDiff
<1>3. raw' \in Text /\ StyleKept(raw, raw')
  BY <1>1, <1>2, PatchedBytes DEF Texts
<1>4. other' \in Text /\ StyleKept(other, other')
  BY <1>1, <1>2, PatchedBytes DEF Texts
<1>5. request' = [action |-> "apply_diff", document |-> document]
  BY Zenon DEF ApplyDiff
<1>6. SEP \notin Range(raw) => Decoded(raw') = ByHand(document, "raw", Decoded(raw))
  BY <1>1, PatchedByHand DEF Texts
<1>7. SEP \notin Range(other) => Decoded(other') = ByHand(document, "other", Decoded(other))
  BY <1>1, PatchedByHand DEF Texts
<1>8. Texts' /\ StylesKept
  BY <1>3, <1>4 DEF Texts, StylesKept
<1>. QED  BY <1>5, <1>6, <1>7, <1>8

LEMMA TransfersRange ==
  ASSUME Texts, NEW first \in Nat, NEW last \in Nat, NEW line \in Nat,
         TransferRange(first, last, line)
  PROVE  /\ Texts' /\ StylesKept
         /\ request' = [action |-> "move_range", first |-> first, last |-> last, line |-> line]
         /\ Decoded(raw') = FirstLines(Decoded(raw), first - 1)
                              \o Rest(Decoded(raw), FirstLines(Decoded(raw), last))
         /\ Landing(Decoded(other), Decoded(other'), line,
                    Rest(FirstLines(Decoded(raw), last), FirstLines(Decoded(raw), first - 1)))
<1>1. PICK t \in LFText, d \in LFText : t = Decoded(raw) /\ d = Decoded(other)
  BY DecodedIsLF DEF Texts
<1>2. /\ Editable(other)
      /\ request' = [action |-> "move_range", first |-> first, last |-> last, line |-> line]
  BY Zenon DEF TransferRange
<1>3. PICK moved \in MoveRange(t, d, first, last, line) :
        Write(moved.source) /\ other' = Encoded(moved.destination, Style(other))
  BY <1>1, Zenon DEF TransferRange
<1>4. PICK u, v : u = moved.source /\ v = moved.destination
  OBVIOUS
<1>5. /\ u \in LFText /\ v \in LFText
      /\ u = FirstLines(t, first - 1) \o Rest(t, FirstLines(t, last))
      /\ Landing(d, v, line, Rest(FirstLines(t, last), FirstLines(t, first - 1)))
  BY <1>3, <1>4, RangeMoved
<1>6. raw' \in Text /\ StyleKept(raw, raw') /\ Decoded(raw') = u
  BY <1>3, <1>4, <1>5, Written DEF Texts
<1>7. other' \in Text /\ StyleKept(other, other') /\ Decoded(other') = v
  BY <1>2, <1>3, <1>4, <1>5, EncodedBytes DEF Texts
<1>8. Texts' /\ StylesKept
  BY <1>6, <1>7 DEF Texts, StylesKept
<1>. QED  BY <1>1, <1>2, <1>5, <1>6, <1>7, <1>8, Zenon

(* Both files are what the text of the diff makes of them. *)
DiffDone ==
  /\ SEP \notin Range(raw) =>
       Decoded(raw') = ByHand(request'.document, "raw", Decoded(raw))
  /\ SEP \notin Range(other) =>
       Decoded(other') = ByHand(request'.document, "other", Decoded(other))

LEMMA Requests ==
  ASSUME Texts, Next
  PROVE  /\ Texts' /\ StylesKept
         /\ Edited({"replace_exact", "delete_exact"}) =>
              Counted(Decoded(raw), Decoded(raw'), request')
         /\ Edited({"replace_range", "before", "after"}) =>
              Decoded(raw') = RangeResult(Decoded(raw), request')
         /\ Edited({"apply_diff"}) => DiffDone
         /\ Edited({"move_range"}) =>
              /\ Decoded(raw') = FirstLines(Decoded(raw), request'.first - 1)
                                   \o Rest(Decoded(raw), FirstLines(Decoded(raw), request'.last))
              /\ Landing(Decoded(other), Decoded(other'), request'.line,
                         Rest(FirstLines(Decoded(raw), request'.last),
                              FirstLines(Decoded(raw), request'.first - 1)))
<1>. DEFINE Exactly == {"replace_exact", "insert_before", "insert_after", "delete_exact"}
            Ranges == {"replace_range", "before", "after"}
            Exact == {"replace_exact", "delete_exact"}
            Known == Edited(Exact) => Counted(Decoded(raw), Decoded(raw'), request')
            Good(old, new, name) == old # <<>> /\ (name = "delete_exact" => new = <<>>)
            Local == Edited(Ranges) => Decoded(raw') = RangeResult(Decoded(raw), request')
            Done == Edited({"apply_diff"}) => DiffDone
            Moved == Edited({"move_range"}) =>
                       /\ Decoded(raw') = FirstLines(Decoded(raw), request'.first - 1)
                                   \o Rest(Decoded(raw), FirstLines(Decoded(raw), request'.last))
                       /\ Landing(Decoded(other), Decoded(other'), request'.line,
                                  Rest(FirstLines(Decoded(raw), request'.last),
                                       FirstLines(Decoded(raw), request'.first - 1)))
<1>1. <<>> \in Text /\ Word \subseteq Text /\ Diffs \subseteq Seq(DiffLine) /\ MaxLine \in Nat
  BY TextAssumption, EmptySeq DEF Text
<1>2. \/ \E old, new \in Text, n \in 1..MaxLine, name \in Exactly :
           Good(old, new, name) /\ EditExactly(name, old, new, n)
      \/ \E first, last \in 1..MaxLine, guard \in Word, content \in Word :
           EditRange("replace_range", first, last, guard, content)
      \/ \E line \in 1..MaxLine, guard \in Word, content \in Word, name \in {"before", "after"} :
           EditRange(name, line, line, guard, content)
      \/ \E document \in Diffs : ApplyDiff(document)
      \/ \E first, last, line \in 1..MaxLine : TransferRange(first, last, line)
  BY <1>1, Zenon DEF Next, Request
<1>3. CASE \E old, new \in Text, n \in 1..MaxLine, name \in Exactly :
             Good(old, new, name) /\ EditExactly(name, old, new, n)
  <2>1. PICK old \in Text, new \in Text, n \in 1..MaxLine, name \in Exactly :
          Good(old, new, name) /\ EditExactly(name, old, new, n)
    BY <1>3
  <2>2. /\ Texts' /\ StylesKept
        /\ name \in Exact => Counted(Decoded(raw), Decoded(raw'), request')
    BY <2>1, EditsExactly
  <2>3. request'.action = name
    BY <2>1 DEF EditExactly
  <2>4. ~Edited(Ranges) /\ ~Edited({"apply_diff"}) /\ ~Edited({"move_range"})
    BY <2>3 DEF Edited
  <2>5. Known
    BY <2>2, <2>3 DEF Edited
  <2>. QED  BY <2>2, <2>4, <2>5
<1>4. CASE \E first, last \in 1..MaxLine, guard \in Word, content \in Word :
             EditRange("replace_range", first, last, guard, content)
  <2>1. PICK first \in Nat, last \in Nat, guard \in Word, content \in Text :
          EditRange("replace_range", first, last, guard, content)
    BY <1>1, <1>4
  <2>2. Texts' /\ StylesKept /\ Decoded(raw') = RangeResult(Decoded(raw), request')
    BY <2>1, EditsRange
  <2>3. request'.action = "replace_range"
    BY <2>1 DEF EditRange
  <2>4. ~Edited(Exact) /\ ~Edited({"apply_diff"}) /\ ~Edited({"move_range"})
    BY <2>3 DEF Edited
  <2>. QED  BY <2>2, <2>4
<1>5. CASE \E line \in 1..MaxLine, guard \in Word, content \in Word, name \in {"before", "after"} :
             EditRange(name, line, line, guard, content)
  <2>1. PICK line \in Nat, guard \in Word, content \in Text, name \in {"before", "after"} :
          EditRange(name, line, line, guard, content)
    BY <1>1, <1>5
  <2>2. Texts' /\ StylesKept /\ Decoded(raw') = RangeResult(Decoded(raw), request')
    BY <2>1, EditsRange
  <2>3. request'.action = name
    BY <2>1 DEF EditRange
  <2>4. ~Edited(Exact) /\ ~Edited({"apply_diff"}) /\ ~Edited({"move_range"})
    BY <2>3 DEF Edited
  <2>. QED  BY <2>2, <2>4
<1>6. CASE \E document \in Diffs : ApplyDiff(document)
  <2>1. PICK document \in Seq(DiffLine) : ApplyDiff(document)
    BY <1>1, <1>6
  <2>2. PICK q : q = request'
    OBVIOUS
  <2>3. /\ Texts' /\ StylesKept /\ q = [action |-> "apply_diff", document |-> document]
        /\ SEP \notin Range(raw) => Decoded(raw') = ByHand(document, "raw", Decoded(raw))
        /\ SEP \notin Range(other) => Decoded(other') = ByHand(document, "other", Decoded(other))
    BY <2>1, <2>2, AppliesDiff
  <2>4. q.action = "apply_diff" /\ q.document = document
    BY <2>3
  <2>5. ~Edited(Exact) /\ ~Edited(Ranges) /\ ~Edited({"move_range"})
    BY <2>2, <2>4 DEF Edited
  <2>6. DiffDone
    BY <2>2, <2>3, <2>4 DEF DiffDone
  <2>. QED  BY <2>3, <2>5, <2>6
<1>7. CASE \E first, last, line \in 1..MaxLine : TransferRange(first, last, line)
  <2>1. PICK first \in Nat, last \in Nat, line \in Nat : TransferRange(first, last, line)
    BY <1>1, <1>7
  <2>2. PICK q : q = request'
    OBVIOUS
  <2>3. /\ Texts' /\ StylesKept
        /\ q = [action |-> "move_range", first |-> first, last |-> last, line |-> line]
        /\ Decoded(raw') = FirstLines(Decoded(raw), first - 1)
                              \o Rest(Decoded(raw), FirstLines(Decoded(raw), last))
        /\ Landing(Decoded(other), Decoded(other'), line,
                    Rest(FirstLines(Decoded(raw), last), FirstLines(Decoded(raw), first - 1)))
    BY <2>1, <2>2, TransfersRange
  <2>4. q.action = "move_range" /\ q.first = first /\ q.last = last /\ q.line = line
    BY <2>3
  <2>5. ~Edited(Exact) /\ ~Edited(Ranges) /\ ~Edited({"apply_diff"})
    BY <2>2, <2>4 DEF Edited
  <2>6. Moved
    BY <2>2, <2>3, <2>4, Zenon
  <2>. QED  BY <2>3, <2>5, <2>6
<1>. QED  BY <1>2, <1>3, <1>4, <1>5, <1>6, <1>7

LEMMA Stutters ==
  ASSUME Texts, UNCHANGED vars
  PROVE  Texts' /\ StylesKept /\ \A names : ~Edited(names)
BY DEF Texts, StylesKept, StyleKept, vars, Edited

-----------------------------------------------------------------------------
(* The theorems *)

(* The two files hold texts throughout: what the planner decodes, edits,     *)
(* parses from a diff, applies, moves and renders is a sequence of           *)
(* characters again, whatever the job asks for.                              *)
THEOREM TextsStay == Spec => []Texts
<1>1. Init => Texts
  BY TextAssumption DEF Init, Texts
<1>2. Texts /\ [Next]_vars => Texts'
  BY Requests, Stutters
<1>. QED  BY <1>1, <1>2, PTL DEF Spec

(* Whatever _update_state renders, LF stays LF, CRLF stays CRLF, a file      *)
(* without line breaks takes LF, and no file gets mixed newlines.            *)
THEOREM NewlineStyleIsKept == Spec => KeepsNewlineStyle
<1>1. Texts /\ [Next]_vars => [StyleKept(raw, raw') /\ StyleKept(other, other')]_vars
  BY Requests, Stutters DEF StylesKept
<1>. QED  BY <1>1, TextsStay, PTL DEF Spec, KeepsNewlineStyle

(* In replace_exact and delete_exact exactly the expected number of disjoint *)
(* copies changes, and each other character is where the copies before it    *)
(* have moved it.                                                            *)
THEOREM ExactEditsChangeTheCopies == Spec => ExactEditsAreCounted
<1>1. Texts /\ [Next]_vars =>
        [Edited({"replace_exact", "delete_exact"}) =>
           Counted(Decoded(raw), Decoded(raw'), request')]_vars
  BY Requests, Stutters
<1>. QED  BY <1>1, TextsStay, PTL DEF Spec, ExactEditsAreCounted

(* replace_range and the insertions at a line keep every character of the    *)
(* other lines: the offsets of select_line_range are those of whole lines.   *)
THEOREM RangeEditsStayLocal == Spec => RangeEditsAreLocal
<1>1. Texts /\ [Next]_vars =>
        [Edited({"replace_range", "before", "after"}) =>
           Decoded(raw') = RangeResult(Decoded(raw), request')]_vars
  BY Requests, Stutters
<1>. QED  BY <1>1, TextsStay, PTL DEF Spec, RangeEditsAreLocal

(* An accepted diff changes each file as its text says: whatever the parser  *)
(* and the cursor do, the lines below each header, and nothing else, take    *)
(* the place of the lines the header names.                                  *)
THEOREM DiffsDoWhatTheySay == Spec => DiffAppliesAtItsLines
<1>1. Texts /\ [Next]_vars =>
        [Edited({"apply_diff"}) =>
           /\ SEP \notin Range(raw) =>
                Decoded(raw') = ByHand(request'.document, "raw", Decoded(raw))
           /\ SEP \notin Range(other) =>
                Decoded(other') = ByHand(request'.document, "other", Decoded(other))]_vars
  BY Requests, Stutters DEF DiffDone
<1>. QED  BY <1>1, TextsStay, PTL DEF Spec, DiffAppliesAtItsLines

(* In move_range whole lines leave the source and enter the destination in   *)
(* one piece behind a line break.                                            *)
THEOREM MovesKeepAll == Spec => MovesLoseNothing
<1>1. Texts /\ [Next]_vars =>
        [Edited({"move_range"}) =>
           LET t == Decoded(raw)
               head == FirstLines(t, request'.first - 1)
               upto == FirstLines(t, request'.last)
           IN /\ Decoded(raw') = head \o Rest(t, upto)
              /\ Landing(Decoded(other), Decoded(other'), request'.line, Rest(upto, head))]_vars
  BY Requests, Stutters
<1>. QED  BY <1>1, TextsStay, PTL DEF Spec, MovesLoseNothing

=============================================================================
