--------------------------- MODULE PlannerProofs ---------------------------
(***************************************************************************)
(* Proofs about Planner, for any paths, trees, jobs and user edits.        *)
(* Theorems, in this order:                                                *)
(*                                                                         *)
(*   PlanningIsSound                                                       *)
(*     the invariant: the overlay has each path once and has read what is  *)
(*     on the disk, and its directories are planned or there;              *)
(*   PlanningMeansActions                                                  *)
(*     planning a job does what performing its actions would do;           *)
(*   ConsentIsKept                                                         *)
(*     the plan carried out does what the approved one showed;             *)
(*   PlansFitTransaction                                                   *)
(*     a plan has the order and structure Transaction assumes;             *)
(*   AcceptedPlansApply                                                    *)
(*     no effect of an accepted plan finds its place taken.                *)
(*                                                                         *)
(* First come lemmas about sequences and what Kept keeps of one, and about *)
(* paths and trees; then what each planner method adds to the              *)
(* overlay (...Extends) and what that means for the workspace (...Means).  *)
(* The last two theorems rest on the order in which actions first ask for  *)
(* a path, which is the order of the lists of a plan.                      *)
(***************************************************************************)
EXTENDS Planner, FiniteSetTheorems, SequenceTheorems, WellFoundedInduction, TLAPS

-----------------------------------------------------------------------------
(* What is kept of a sequence *)

Places(seq, S) == {k \in DOMAIN seq : seq[k] \in S}
UpTo(seq, S, k) == {j \in Places(seq, S) : j <= k}
Rank(seq, S, k) == Cardinality(UpTo(seq, S, k))

LEMMA PlacesFinite ==
  ASSUME NEW T, NEW seq \in Seq(T), NEW S
  PROVE  /\ Places(seq, S) \subseteq Nat
         /\ IsFiniteSet(Places(seq, S))
         /\ Cardinality(Places(seq, S)) \in Nat
<1>1. DOMAIN seq = 1..Len(seq) /\ Len(seq) \in Nat
  OBVIOUS
<1>2. IsFiniteSet(1..Len(seq))
  BY <1>1, FS_Interval
<1>3. Places(seq, S) \subseteq 1..Len(seq)
  BY <1>1 DEF Places
<1>4. IsFiniteSet(Places(seq, S))
  BY <1>2, <1>3, FS_Subset
<1>5. Cardinality(Places(seq, S)) \in Nat
  BY <1>4, FS_CardinalityType
<1>. QED  BY <1>1, <1>3, <1>4, <1>5

LEMMA RankType ==
  ASSUME NEW T, NEW seq \in Seq(T), NEW S, NEW k \in Places(seq, S)
  PROVE  /\ k \in Nat
         /\ IsFiniteSet(UpTo(seq, S, k))
         /\ Rank(seq, S, k) \in 1..Cardinality(Places(seq, S))
<1>1. IsFiniteSet(Places(seq, S)) /\ k \in Nat /\ Cardinality(Places(seq, S)) \in Nat
  BY PlacesFinite
<1>2. UpTo(seq, S, k) \in SUBSET Places(seq, S)
  BY DEF UpTo
<1>3. IsFiniteSet(UpTo(seq, S, k))
  BY <1>1, <1>2, FS_Subset
<1>4. Rank(seq, S, k) <= Cardinality(Places(seq, S))
  BY <1>1, <1>2, FS_Subset DEF Rank
<1>5. Rank(seq, S, k) \in Nat
  BY <1>3, FS_CardinalityType DEF Rank
<1>6. k \in UpTo(seq, S, k)
  BY <1>1 DEF UpTo
<1>7. Rank(seq, S, k) # 0
  BY <1>3, <1>6, FS_EmptySet DEF Rank
<1>. QED  BY <1>1, <1>3, <1>4, <1>5, <1>7

(* A later place has a higher rank. *)
LEMMA RankGrows ==
  ASSUME NEW T, NEW seq \in Seq(T), NEW S,
         NEW k \in Places(seq, S), NEW l \in Places(seq, S), k < l
  PROVE  Rank(seq, S, k) < Rank(seq, S, l)
<1>1. /\ k \in Nat /\ l \in Nat
      /\ IsFiniteSet(UpTo(seq, S, k)) /\ IsFiniteSet(UpTo(seq, S, l))
      /\ Rank(seq, S, k) \in 1..Cardinality(Places(seq, S))
      /\ Rank(seq, S, l) \in 1..Cardinality(Places(seq, S))
  BY RankType
<1>2. Places(seq, S) \subseteq Nat /\ Cardinality(Places(seq, S)) \in Nat
  BY PlacesFinite
<1>3. UpTo(seq, S, k) \in SUBSET UpTo(seq, S, l)
  BY <1>1, <1>2 DEF UpTo
<1>4. l \in UpTo(seq, S, l) /\ l \notin UpTo(seq, S, k)
  BY <1>1 DEF UpTo
<1>5. Rank(seq, S, k) <= Rank(seq, S, l) /\ Rank(seq, S, k) # Rank(seq, S, l)
  BY <1>1, <1>3, <1>4, FS_Subset DEF Rank
<1>. QED  BY <1>1, <1>2, <1>5

LEMMA RankIsInjective ==
  ASSUME NEW T, NEW seq \in Seq(T), NEW S,
         NEW k \in Places(seq, S), NEW l \in Places(seq, S),
         Rank(seq, S, k) = Rank(seq, S, l)
  PROVE  k = l
<1>1. /\ k \in Nat /\ l \in Nat
      /\ Rank(seq, S, k) \in 1..Cardinality(Places(seq, S))
      /\ Rank(seq, S, l) \in 1..Cardinality(Places(seq, S))
  BY RankType
<1>2. Cardinality(Places(seq, S)) \in Nat
  BY PlacesFinite
<1>3. k < l => Rank(seq, S, k) < Rank(seq, S, l)
  BY RankGrows
<1>4. l < k => Rank(seq, S, l) < Rank(seq, S, k)
  BY RankGrows
<1>. QED  BY <1>1, <1>2, <1>3, <1>4

(* Every number up to the number of places is the rank of one: otherwise    *)
(* two places would have to share a rank.                                   *)
LEMMA EveryRankOccurs ==
  ASSUME NEW T, NEW seq \in Seq(T), NEW S,
         NEW n \in 1..Cardinality(Places(seq, S))
  PROVE  \E k \in Places(seq, S) : Rank(seq, S, k) = n
<1>1. IsFiniteSet(Places(seq, S)) /\ Cardinality(Places(seq, S)) \in Nat
  BY PlacesFinite
<1>. SUFFICES ASSUME \A k \in Places(seq, S) : Rank(seq, S, k) # n
              PROVE  FALSE
  OBVIOUS
<1>2. PICK P : P = Places(seq, S)
  OBVIOUS
<1>3. PICK R : R = (1..Cardinality(P)) \ {n}
  OBVIOUS
<1>4. PICK f : f = [k \in P |-> Rank(seq, S, k)]
  OBVIOUS
<1>5. IsFiniteSet(1..Cardinality(P)) /\ Cardinality(1..Cardinality(P)) = Cardinality(P)
  BY <1>1, <1>2, FS_Interval
<1>6. IsFiniteSet(R) /\ Cardinality(R) = Cardinality(P) - 1
  BY <1>2, <1>3, <1>5, FS_RemoveElement
<1>7. f \in [P -> R]
  <2>. SUFFICES ASSUME NEW k \in P
                PROVE  Rank(seq, S, k) \in R
    BY <1>4
  <2>. QED  BY <1>2, <1>3, RankType
<1>8. Cardinality(R) < Cardinality(P)
  BY <1>1, <1>2, <1>6
<1>9. \E k, l \in P : k # l /\ f[k] = f[l]
  BY <1>1, <1>2, <1>6, <1>7, <1>8, FS_PigeonHole
<1>10. PICK k \in P, l \in P : k # l /\ f[k] = f[l]
  BY <1>9
<1>11. Rank(seq, S, k) = Rank(seq, S, l)
  BY <1>4, <1>10
<1>. QED  BY <1>2, <1>10, <1>11, RankIsInjective

(* What is kept, listed by the places it is taken from. *)
Enumerated(seq, S) ==
  \E n \in Nat : \E f \in [1..n -> Places(seq, S)] :
    /\ Kept(seq, S) = [i \in 1..n |-> seq[f[i]]]
    /\ \A i, j \in 1..n : i < j => f[i] < f[j]
    /\ \A k \in Places(seq, S) : \E i \in 1..n : f[i] = k

(* Kept lists the places in their order, and leaves none out.               *)
LEMMA KeptPlaces ==
  ASSUME NEW T, NEW seq \in Seq(T), NEW S
  PROVE  Enumerated(seq, S)
<1>1. PICK P : P = Places(seq, S)
  OBVIOUS
<1>2. PICK n \in Nat : n = Cardinality(P)
  BY <1>1, PlacesFinite
<1>3. PICK f : f = [i \in 1..n |-> CHOOSE k \in P : Rank(seq, S, k) = i]
  OBVIOUS
<1>4. \A i \in 1..n : f[i] \in P /\ Rank(seq, S, f[i]) = i
  BY <1>1, <1>2, <1>3, EveryRankOccurs
<1>5. f \in [1..n -> P]
  BY <1>3, <1>4
<1>6. \A i \in 1..n : f[i] = CHOOSE k \in P : Cardinality({j \in P : j <= k}) = i
  BY <1>1, <1>3 DEF Rank, UpTo
<1>7. Kept(seq, S) = [i \in 1..n |-> seq[f[i]]]
  <2>1. Kept(seq, S) =
          [i \in 1..Cardinality(P) |->
             seq[CHOOSE k \in P : Cardinality({j \in P : j <= k}) = i]]
    BY <1>1 DEF Kept, Places
  <2>. QED  BY <1>2, <1>6, <2>1
<1>8. ASSUME NEW i \in 1..n, NEW j \in 1..n, i < j
      PROVE  f[i] < f[j]
  <2>1. PICK k \in P : k = f[i]
    BY <1>4
  <2>2. PICK l \in P : l = f[j]
    BY <1>4
  <2>3. Rank(seq, S, k) = i /\ Rank(seq, S, l) = j
    BY <1>4, <2>1, <2>2
  <2>4. k \in Nat /\ l \in Nat
    BY <1>1, RankType
  <2>5. ~(l < k)
    <3>1. l < k => Rank(seq, S, l) < Rank(seq, S, k)
      BY <1>1, RankGrows
    <3>. QED  BY <1>2, <1>8, <2>3, <3>1
  <2>6. l # k
    BY <1>2, <1>8, <2>3
  <2>. QED  BY <2>1, <2>2, <2>4, <2>5, <2>6
<1>9. ASSUME NEW k \in P
      PROVE  \E i \in 1..n : f[i] = k
  <2>1. PICK i \in 1..n : i = Rank(seq, S, k)
    BY <1>1, <1>2, RankType
  <2>2. PICK l \in P : l = f[i]
    BY <1>4
  <2>3. Rank(seq, S, l) = Rank(seq, S, k)
    BY <1>4, <2>1, <2>2
  <2>4. l = k
    BY <1>1, <2>3, RankIsInjective
  <2>. QED  BY <2>2, <2>4
<1>10. \A i, j \in 1..n : i < j => f[i] < f[j]
  BY <1>8
<1>11. \A k \in P : \E i \in 1..n : f[i] = k
  BY <1>9
<1>12. \E m \in Nat : \E g \in [1..m -> P] :
         /\ Kept(seq, S) = [i \in 1..m |-> seq[g[i]]]
         /\ \A i, j \in 1..m : i < j => g[i] < g[j]
         /\ \A k \in P : \E i \in 1..m : g[i] = k
  BY <1>5, <1>7, <1>10, <1>11
<1>. QED  BY <1>1, <1>12, Zenon DEF Enumerated

(* What is kept: the elements of the set, each where it was.                *)
LEMMA KeptElements ==
  ASSUME NEW T, NEW seq \in Seq(T), NEW S
  PROVE  /\ Kept(seq, S) \in Seq(T)
         /\ Kept(seq, S) \in Seq(T \cap S)
         /\ Range(Kept(seq, S)) = Range(seq) \cap S
<1>0. PICK n \in Nat : \E f \in [1..n -> Places(seq, S)] :
        /\ Kept(seq, S) = [i \in 1..n |-> seq[f[i]]]
        /\ \A i, j \in 1..n : i < j => f[i] < f[j]
        /\ \A k \in Places(seq, S) : \E i \in 1..n : f[i] = k
  <2>1. Enumerated(seq, S)
    BY KeptPlaces
  <2>. QED  BY <2>1, Zenon DEF Enumerated
<1>1. PICK f \in [1..n -> Places(seq, S)] :
        /\ Kept(seq, S) = [i \in 1..n |-> seq[f[i]]]
        /\ \A i, j \in 1..n : i < j => f[i] < f[j]
        /\ \A k \in Places(seq, S) : \E i \in 1..n : f[i] = k
  BY <1>0
<1>2. \A i \in 1..n : f[i] \in DOMAIN seq /\ seq[f[i]] \in T \cap S
  BY <1>1 DEF Places
<1>3. Kept(seq, S) \in Seq(T) /\ Kept(seq, S) \in Seq(T \cap S)
  BY <1>1, <1>2
<1>4. Range(Kept(seq, S)) \subseteq Range(seq) \cap S
  BY <1>1, <1>2 DEF Range
<1>5. ASSUME NEW x \in Range(seq) \cap S
      PROVE  x \in Range(Kept(seq, S))
  <2>1. PICK k \in DOMAIN seq : seq[k] = x
    BY DEF Range
  <2>2. PICK i \in 1..n : f[i] = k
    BY <1>1, <2>1 DEF Places
  <2>. QED  BY <1>1, <2>1, <2>2 DEF Range
<1>. QED  BY <1>3, <1>4, <1>5

(* ... and in the same order.                                               *)
LEMMA KeptOrder ==
  ASSUME NEW T, NEW seq \in Seq(T), NEW S
  PROVE  /\ \A i, j \in DOMAIN Kept(seq, S) : i < j =>
              \E k, l \in DOMAIN seq :
                k < l /\ seq[k] = Kept(seq, S)[i] /\ seq[l] = Kept(seq, S)[j]
         /\ \A k, l \in DOMAIN seq : (k < l /\ seq[k] \in S /\ seq[l] \in S) =>
              \E i, j \in DOMAIN Kept(seq, S) :
                i < j /\ seq[k] = Kept(seq, S)[i] /\ seq[l] = Kept(seq, S)[j]
         /\ IsInjective(seq) => IsInjective(Kept(seq, S))
<1>0. PICK n \in Nat : \E f \in [1..n -> Places(seq, S)] :
        /\ Kept(seq, S) = [i \in 1..n |-> seq[f[i]]]
        /\ \A i, j \in 1..n : i < j => f[i] < f[j]
        /\ \A k \in Places(seq, S) : \E i \in 1..n : f[i] = k
  <2>1. Enumerated(seq, S)
    BY KeptPlaces
  <2>. QED  BY <2>1, Zenon DEF Enumerated
<1>1. PICK f \in [1..n -> Places(seq, S)] :
        /\ Kept(seq, S) = [i \in 1..n |-> seq[f[i]]]
        /\ \A i, j \in 1..n : i < j => f[i] < f[j]
        /\ \A k \in Places(seq, S) : \E i \in 1..n : f[i] = k
  BY <1>0
<1>2. \A i \in 1..n : f[i] \in DOMAIN seq /\ f[i] \in Nat
  BY <1>1, PlacesFinite DEF Places
<1>3. DOMAIN Kept(seq, S) = 1..n
  BY <1>1
<1>4. \A i, j \in DOMAIN Kept(seq, S) : i < j =>
        \E k, l \in DOMAIN seq :
          k < l /\ seq[k] = Kept(seq, S)[i] /\ seq[l] = Kept(seq, S)[j]
  BY <1>1, <1>2, <1>3
<1>5. ASSUME NEW k \in DOMAIN seq, NEW l \in DOMAIN seq, k < l, seq[k] \in S, seq[l] \in S
      PROVE  \E i, j \in DOMAIN Kept(seq, S) :
               i < j /\ seq[k] = Kept(seq, S)[i] /\ seq[l] = Kept(seq, S)[j]
  <2>1. PICK i \in 1..n : f[i] = k
    BY <1>1, <1>5 DEF Places
  <2>2. PICK j \in 1..n : f[j] = l
    BY <1>1, <1>5 DEF Places
  <2>3. i < j
    <3>1. j < i => f[j] < f[i]
      BY <1>1
    <3>2. k \in Nat /\ l \in Nat
      BY <1>2, <2>1, <2>2
    <3>. QED  BY <1>5, <2>1, <2>2, <3>1, <3>2
  <2>. QED  BY <1>1, <1>3, <2>1, <2>2, <2>3
<1>6. ASSUME IsInjective(seq), NEW i \in 1..n, NEW j \in 1..n, seq[f[i]] = seq[f[j]]
      PROVE  i = j
  <2>1. f[i] = f[j]
    BY <1>2, <1>6 DEF IsInjective
  <2>2. ~(f[i] < f[j]) /\ ~(f[j] < f[i])
    BY <1>2, <2>1
  <2>3. ~(i < j) /\ ~(j < i)
    BY <1>1, <2>2
  <2>. QED  BY <2>3
<1>7. IsInjective(seq) => IsInjective(Kept(seq, S))
  BY <1>1, <1>3, <1>6 DEF IsInjective
<1>. QED  BY <1>4, <1>5, <1>7

-----------------------------------------------------------------------------
(* Paths *)

(* The directories above a path are the ones its name passes through.       *)
LEMMA ParentsAbove ==
  ASSUME NEW p \in Path
  PROVE  /\ Parents[p] \in Seq(Path)
         /\ Above(p) \subseteq Path
         /\ p \notin Above(p)
         /\ IsInjective(Parents[p])
         /\ \A k \in DOMAIN Parents[p] : \A q \in Above(Parents[p][k]) :
              \E j \in DOMAIN Parents[p] : j < k /\ Parents[p][j] = q
         /\ \A q \in Above(p) : Above(q) \subseteq Above(p)
<1>1. Parents[p] \in Seq(Path)
  BY PlannerAssumption
<1>2. \A k \in DOMAIN Parents[p] : Parents[Parents[p][k]] = SubSeq(Parents[p], 1, k - 1)
  BY PlannerAssumption
<1>3. /\ DOMAIN Parents[p] = 1..Len(Parents[p]) /\ Len(Parents[p]) \in Nat
      /\ \A k \in DOMAIN Parents[p] : Parents[p][k] \in Path
  BY <1>1
<1>4. \A k \in DOMAIN Parents[p] :
        /\ Len(Parents[Parents[p][k]]) = k - 1
        /\ \A j \in 1..(k - 1) : Parents[Parents[p][k]][j] = Parents[p][j]
  <2>. SUFFICES ASSUME NEW k \in DOMAIN Parents[p]
                PROVE  /\ Len(Parents[Parents[p][k]]) = k - 1
                       /\ \A j \in 1..(k - 1) : Parents[Parents[p][k]][j] = Parents[p][j]
    OBVIOUS
  <2>1. PICK s \in Seq(Path) : s = Parents[p]
    BY <1>1
  <2>2. k \in 1..Len(s)
    BY <1>3, <2>1
  <2>3. Len(SubSeq(s, 1, k - 1)) = k - 1
    BY <2>2
  <2>4. \A j \in 1..(k - 1) : SubSeq(s, 1, k - 1)[j] = s[j]
    BY <2>2
  <2>. QED  BY <1>2, <2>1, <2>3, <2>4
<1>5. Above(p) \subseteq Path
  BY <1>3 DEF Above, Range
<1>6. p \notin Above(p)
  <2>. SUFFICES ASSUME NEW k \in DOMAIN Parents[p], Parents[p][k] = p
                PROVE  FALSE
    BY DEF Above, Range
  <2>. QED  BY <1>3, <1>4
<1>7. IsInjective(Parents[p])
  <2>. SUFFICES ASSUME NEW i \in DOMAIN Parents[p], NEW j \in DOMAIN Parents[p],
                       Parents[p][i] = Parents[p][j]
                PROVE  i = j
    BY DEF IsInjective
  <2>1. i - 1 = j - 1
    BY <1>4
  <2>. QED  BY <1>3, <2>1
<1>8. ASSUME NEW k \in DOMAIN Parents[p], NEW q \in Above(Parents[p][k])
      PROVE  \E j \in DOMAIN Parents[p] : j < k /\ Parents[p][j] = q
  <2>1. PICK r \in Path : r = Parents[p][k]
    BY <1>3
  <2>2. Parents[r] \in Seq(Path)
    BY PlannerAssumption
  <2>3. PICK j \in 1..Len(Parents[r]) : Parents[r][j] = q
    BY <1>8, <2>1, <2>2 DEF Above, Range
  <2>4. j \in 1..(k - 1)
    BY <1>4, <2>1, <2>3
  <2>5. Parents[p][j] = q
    BY <1>4, <2>1, <2>3, <2>4
  <2>6. j \in DOMAIN Parents[p] /\ j < k
    BY <1>3, <2>4
  <2>. QED  BY <2>5, <2>6
<1>9. ASSUME NEW q \in Above(p)
      PROVE  Above(q) \subseteq Above(p)
  <2>1. PICK k \in DOMAIN Parents[p] : Parents[p][k] = q
    BY DEF Above, Range
  <2>2. \A r \in Above(q) : \E j \in DOMAIN Parents[p] : Parents[p][j] = r
    BY <1>8, <2>1
  <2>. QED  BY <2>2 DEF Above, Range
<1>10. \A k \in DOMAIN Parents[p] : \A q \in Above(Parents[p][k]) :
         \E j \in DOMAIN Parents[p] : j < k /\ Parents[p][j] = q
  BY <1>8
<1>11. \A q \in Above(p) : Above(q) \subseteq Above(p)
  BY <1>9
<1>. QED  BY <1>1, <1>5, <1>6, <1>7, <1>10, <1>11

(* Appending what is not there yet.                                         *)
LEMMA InjectiveConcatenation ==
  ASSUME NEW T, NEW s \in Seq(T), NEW t \in Seq(T), IsInjective(s), IsInjective(t),
         Range(s) \cap Range(t) = {}
  PROVE  /\ s \o t \in Seq(T)
         /\ IsInjective(s \o t)
         /\ Range(s \o t) = Range(s) \cup Range(t)
<1>1. /\ s \o t \in Seq(T) /\ Len(s \o t) = Len(s) + Len(t)
      /\ \A i \in 1..(Len(s) + Len(t)) :
           (s \o t)[i] = IF i <= Len(s) THEN s[i] ELSE t[i - Len(s)]
  BY ConcatProperties
<1>2. PICK m \in Nat, n \in Nat : m = Len(s) /\ n = Len(t)
  BY LenProperties
<1>3. DOMAIN s = 1..m /\ DOMAIN t = 1..n /\ DOMAIN (s \o t) = 1..(m + n)
  BY <1>1, <1>2, LenProperties
<1>4. PICK u : u = s \o t
  OBVIOUS
<1>5. \A i \in 1..(m + n) : \/ i \in 1..m /\ u[i] = s[i]
                            \/ i - m \in 1..n /\ u[i] = t[i - m]
  BY <1>1, <1>2, <1>4
<1>6. \A i \in 1..m : u[i] = s[i]
  BY <1>1, <1>2, <1>4
<1>7. \A i \in 1..n : u[m + i] = t[i] /\ m + i \in 1..(m + n)
  BY <1>1, <1>2, <1>4
<1>8. Range(u) = Range(s) \cup Range(t)
  <2>1. ASSUME NEW i \in 1..(m + n) PROVE u[i] \in Range(s) \cup Range(t)
    BY <1>3, <1>5 DEF Range
  <2>2. ASSUME NEW i \in 1..m PROVE s[i] \in Range(u)
    <3>1. i \in 1..(m + n)
      OBVIOUS
    <3>. QED  BY <1>3, <1>4, <1>6, <3>1 DEF Range
  <2>3. ASSUME NEW i \in 1..n PROVE t[i] \in Range(u)
    BY <1>3, <1>4, <1>7 DEF Range
  <2>4. /\ Range(u) = {u[i] : i \in 1..(m + n)}
        /\ Range(s) = {s[i] : i \in 1..m} /\ Range(t) = {t[i] : i \in 1..n}
    BY <1>3, <1>4 DEF Range
  <2>. QED  BY <2>1, <2>2, <2>3, <2>4
<1>9. ASSUME NEW i \in 1..(m + n), NEW j \in 1..(m + n), u[i] = u[j]
      PROVE  i = j
  <2>1. CASE i \in 1..m /\ j \in 1..m
    BY <1>3, <1>6, <1>9, <2>1 DEF IsInjective
  <2>2. CASE i - m \in 1..n /\ j - m \in 1..n
    <3>1. u[i] = t[i - m] /\ u[j] = t[j - m]
      BY <1>5, <2>2
    <3>2. i - m = j - m
      BY <1>3, <1>9, <2>2, <3>1 DEF IsInjective
    <3>. QED  BY <3>2
  <2>3. CASE (i \in 1..m /\ j - m \in 1..n) \/ (j \in 1..m /\ i - m \in 1..n)
    <3>1. \A k \in 1..m : u[k] \in Range(s)
      BY <1>3, <1>6 DEF Range
    <3>2. ASSUME NEW k \in 1..(m + n), k - m \in 1..n PROVE u[k] \in Range(t)
      <4>1. u[k] = t[k - m]
        BY <1>5, <3>2
      <4>. QED  BY <1>3, <3>2, <4>1 DEF Range
    <3>. QED  BY <1>9, <2>3, <3>1, <3>2
  <2>. QED  BY <2>1, <2>2, <2>3
<1>10. IsInjective(u)
  BY <1>3, <1>4, <1>9 DEF IsInjective
<1>. QED  BY <1>1, <1>4, <1>8, <1>10

LEMMA ShortSequences ==
  /\ \A T : \A p \in T :
       <<p>> \in Seq(T) /\ Range(<<p>>) = {p} /\ IsInjective(<<p>>)
  /\ \A T : \A p, q \in T :
       /\ <<p, q>> \in Seq(T) /\ Range(<<p, q>>) = {p, q}
       /\ p # q => IsInjective(<<p, q>>)
  /\ \A T : <<>> \in Seq(T)
  /\ Range(<<>>) = {} /\ IsInjective(<<>>)
<1>1. ASSUME NEW T, NEW p \in T
      PROVE  <<p>> \in Seq(T) /\ Range(<<p>>) = {p} /\ IsInjective(<<p>>)
  <2>1. <<p>> \in Seq(T) /\ DOMAIN <<p>> = {1} /\ <<p>>[1] = p
    OBVIOUS
  <2>. QED  BY <2>1 DEF Range, IsInjective
<1>2. ASSUME NEW T, NEW p \in T, NEW q \in T
      PROVE  /\ <<p, q>> \in Seq(T) /\ Range(<<p, q>>) = {p, q}
             /\ p # q => IsInjective(<<p, q>>)
  <2>1. <<p, q>> \in Seq(T) /\ DOMAIN <<p, q>> = {1, 2}
    OBVIOUS
  <2>2. <<p, q>>[1] = p /\ <<p, q>>[2] = q
    OBVIOUS
  <2>3. Range(<<p, q>>) = {p, q}
    BY <2>1, <2>2 DEF Range
  <2>. QED  BY <2>1, <2>2, <2>3 DEF IsInjective
<1>3. \A T : <<>> \in Seq(T)
  OBVIOUS
<1>4. DOMAIN <<>> = {}
  OBVIOUS
<1>5. Range(<<>>) = {} /\ IsInjective(<<>>)
  BY <1>4 DEF Range, IsInjective
<1>. QED  BY <1>1, <1>2, <1>3, <1>5

-----------------------------------------------------------------------------
(* The overlay *)

Planning == pc \in {"planning", "revalidating"}

Ops == {"create_directory", "create_file", "edit", "apply_diff", "transfer", "move_file"}
PlannedAction ==
  [op : Ops, disposition : {"CREATE", "MODIFY", "NO_CHANGE"}, paths : Seq(Path)]
FileState == Text \cup {MISSING}
Fingerprint == Content \cup {UNREAD}

OverlayType ==
  /\ order \in Seq(Path) /\ created_directories \in Seq(Path)
  /\ original \in [Path -> FileState] /\ current \in [Path -> FileState]
  /\ deleted \subseteq Path
  /\ fingerprints \in [Path -> Fingerprint]
  /\ action_plans \in Seq(PlannedAction)

(* A path is in the overlay once, as a file or as a directory, but for the  *)
(* directory that is planned where a file was moved from; and what is above *)
(* it is no file.                                                           *)
OverlayOK ==
  /\ IsInjective(order) /\ IsInjective(created_directories)
  /\ deleted \subseteq Files
  /\ \A p \in deleted : original[p] \in Text
  /\ \A p \in Files : current[p] \in Text
  /\ Files \cap PlannedDirectories \subseteq deleted
  /\ \A p \in Files \cup PlannedDirectories : NoFileAbove(p)

(* The overlay is one over the files on the disk.                           *)
DiskOK ==
  /\ WellFormed(disk)
  /\ \A p \in Files : original[p] = disk[p]
  /\ \A p \in PlannedDirectories \ deleted : disk[p] = MISSING
  /\ \A p \in Files \cup PlannedDirectories : \A q \in Above(p) \ PlannedDirectories :
       disk[q] = DIRECTORY
  /\ \A p \in Path : fingerprints[p] \in {UNREAD, disk[p]}

MeaningOK == \A p \in Path \ (deleted \cap PlannedDirectories) : View(p) = world[p]

(* What the planned actions ask for: a file, or a directory that is new.    *)
Asked(A) ==
  {e \in [action : DOMAIN A, file : {1, 2}] :
     /\ e.file \in DOMAIN A[e.action].paths
     /\ A[e.action].op = "create_directory" => A[e.action].disposition = "CREATE"}
Target(A, e) == A[e.action].paths[e.file]
ForDirectory(A, e) == A[e.action].op = "create_directory"
NewFiles == {p \in Files : original[p] = MISSING}

(* Whether directory d must be there when e has been done.                  *)
Needs(A, new, e, d) ==
  \/ ForDirectory(A, e) /\ d \in Above(Target(A, e)) \cup {Target(A, e)}
  \/ ~ForDirectory(A, e) /\ Target(A, e) \in new /\ d \in Above(Target(A, e))

NotAfter(f, e) == f = e \/ Before(f, e)

(* Every path of the overlay is there because an action asks for it, and    *)
(* the overlay has them in the order in which the actions first ask.        *)
AskedOK ==
  /\ \A k \in DOMAIN action_plans :
       LET a == action_plans[k] IN
       Len(a.paths) \in {1, 2} /\ (a.op = "create_directory" => Len(a.paths) = 1)
  /\ \A e \in Asked(action_plans) :
       Target(action_plans, e) \in IF ForDirectory(action_plans, e)
                                   THEN PlannedDirectories ELSE Files
  /\ \A p \in Files : \E e \in Asked(action_plans) :
       ~ForDirectory(action_plans, e) /\ Target(action_plans, e) = p
  /\ \A d \in PlannedDirectories : \E e \in Asked(action_plans) :
       Needs(action_plans, NewFiles, e, d)

DirectoriesInOrder ==
  /\ \A j \in DOMAIN created_directories :
       \A q \in Above(created_directories[j]) \cap PlannedDirectories :
         \E i \in DOMAIN created_directories : i < j /\ created_directories[i] = q
  /\ \A i, j \in DOMAIN created_directories : i < j =>
       \A e \in Asked(action_plans) : Needs(action_plans, NewFiles, e, created_directories[j]) =>
         \E f \in Asked(action_plans) :
           NotAfter(f, e) /\ Needs(action_plans, NewFiles, f, created_directories[i])

FilesInOrder ==
  \A i, j \in DOMAIN order : (i < j /\ order[i] \in NewFiles /\ order[j] \in NewFiles) =>
    \A e \in Asked(action_plans) :
      (~ForDirectory(action_plans, e) /\ Target(action_plans, e) = order[j]) =>
        \E f \in Asked(action_plans) :
          /\ Before(f, e)
          /\ ~ForDirectory(action_plans, f) /\ Target(action_plans, f) = order[i]

(* A file is moved away before anything asks for a directory in its place,  *)
(* and no other directory is asked for by an action after one that needed   *)
(* it.                                                                      *)
NothingTooLate ==
  /\ \A d \in PlannedDirectories \cap deleted, e \in Asked(action_plans) :
       Needs(action_plans, NewFiles, e, d) =>
         \E f \in Asked(action_plans) :
           /\ Before(f, e)
           /\ ~ForDirectory(action_plans, f) /\ Target(action_plans, f) = d
  /\ \A e, f \in Asked(action_plans) :
       (ForDirectory(action_plans, f) /\ Before(e, f)) =>
         /\ Target(action_plans, f) \notin Above(Target(action_plans, e))
         /\ Target(action_plans, f) = Target(action_plans, e) =>
              Target(action_plans, f) \in deleted

StructureOK == AskedOK /\ DirectoriesInOrder /\ FilesInOrder /\ NothingTooLate

(* Files that were there are in directories that were there.                *)
OldFilesHavePlaces ==
  \A p \in Files : original[p] # MISSING => Above(p) \cap PlannedDirectories = {}

-----------------------------------------------------------------------------
(* What planning one action adds to the overlay                             *)

(* The files that enter it, the directories that are to be made as well,    *)
(* and what is noted of the action.                                         *)
NewPlaces(files, dirs) ==
  /\ \A p \in Range(files) : p \notin PlannedDirectories \cup Range(dirs)
  /\ \A p \in Range(dirs) :
       p \in deleted \/ (p \notin Files \cup Range(files) /\ disk[p] = MISSING)
  /\ \A p \in Range(files) \cup Range(dirs) : \A q \in Above(p) :
       /\ q \notin Files \cup Range(files)
       /\ q \in PlannedDirectories \cup Range(dirs) \/ disk[q] = DIRECTORY
  /\ \A j \in DOMAIN dirs : \A q \in Above(dirs[j]) \cap Range(dirs) :
       \E i \in DOMAIN dirs : i < j /\ dirs[i] = q

NewRecord(files, dirs, rec) ==
  /\ rec \in PlannedAction /\ Len(rec.paths) \in {1, 2}
  /\ rec.op = "create_directory" =>
       /\ files = <<>> /\ Len(rec.paths) = 1
       /\ rec.disposition # "CREATE" => dirs = <<>>
       /\ rec.disposition = "CREATE" =>
            /\ rec.paths[1] \in PlannedDirectories \cup Range(dirs)
            /\ Range(dirs) \subseteq Above(rec.paths[1]) \cup {rec.paths[1]}
            /\ \/ rec.paths[1] \in deleted
               \/ disk[rec.paths[1]] = MISSING
                    /\ rec.paths[1] \notin Files \cup PlannedDirectories
  /\ rec.op # "create_directory" =>
       /\ Range(rec.paths) \subseteq Files \cup Range(files)
       /\ Range(files) \subseteq Range(rec.paths)
       /\ \A p \in Range(files) : disk[p] = MISSING => p = rec.paths[1]
       /\ dirs # <<>> =>
            /\ Range(dirs) \subseteq Above(rec.paths[1])
            /\ original'[rec.paths[1]] = MISSING

Extended(files, dirs, rec) ==
  /\ files \in Seq(Path \ Files) /\ IsInjective(files)
  /\ dirs \in Seq(Path \ PlannedDirectories) /\ IsInjective(dirs)
  /\ order' = order \o files
  /\ created_directories' = created_directories \o dirs
  /\ action_plans' = Append(action_plans, rec)
  /\ deleted \subseteq deleted'
  /\ \A p \in deleted' \ deleted : p \in Range(files) /\ disk[p] \in Text
  /\ original' \in [Path -> FileState] /\ current' \in [Path -> FileState]
  /\ \A p \in Path : original'[p] = IF p \in Range(files) THEN disk[p] ELSE original[p]
  /\ \A p \in Files \cup Range(files) : current'[p] \in Text
  /\ fingerprints' \in [Path -> Fingerprint]
  /\ \A p \in Path : fingerprints'[p] \in {fingerprints[p], disk[p]}
  /\ NewPlaces(files, dirs)
  /\ NewRecord(files, dirs, rec)

-----------------------------------------------------------------------------
(* Facts about the handlers                                                 *)

LEMMA Kinds ==
  /\ \A t \in Text : t # MISSING /\ t # DIRECTORY /\ t # UNREAD
  /\ MISSING # DIRECTORY /\ MISSING # UNREAD /\ DIRECTORY # UNREAD
  /\ "file" # MISSING /\ "file" # DIRECTORY
BY PlannerAssumption DEF MISSING, DIRECTORY, UNREAD

LEMMA ActionType ==
  ASSUME NEW a \in Action
  PROVE  /\ a.op \in Ops
         /\ a.op \in {"create_directory", "create_file", "edit", "transfer", "move_file"} =>
              a.path \in Path
         /\ a.op = "create_file" => a.text \in Text
         /\ a.op \in {"edit", "apply_diff", "transfer"} => a.edit \in Edits
         /\ a.op = "apply_diff" => a.first \in Path /\ a.second \in Path
         /\ a.op \in {"transfer", "move_file"} =>
              a.destination \in Path /\ a.guard \in Text
  BY DEF Action, Ops

LEMMA PlannedDirectoriesType ==
  ASSUME OverlayType
  PROVE  Files \subseteq Path /\ PlannedDirectories \subseteq Path
<1>1. \A s \in Seq(Path) : Range(s) \subseteq Path
  BY DEF Range
<1>. QED  BY <1>1 DEF OverlayType, Files, PlannedDirectories

(* The directories a path still needs.                                      *)
LEMMA MissingParentsFacts ==
  ASSUME OverlayType, OverlayOK, DiskOK, disk \in [Path -> Content],
         NEW p \in Path, ParentsFit(p)
  PROVE  LET dirs == MissingParents(p) IN
         /\ dirs \in Seq(Path \ PlannedDirectories) /\ IsInjective(dirs)
         /\ Range(dirs) \subseteq Above(p)
         /\ \A q \in Range(dirs) : disk[q] = MISSING /\ q \notin Files
         /\ \A q \in Above(p) :
              /\ q \notin Files
              /\ q \in PlannedDirectories \cup Range(dirs) \/ disk[q] = DIRECTORY
         /\ \A j \in DOMAIN dirs : \A q \in Above(dirs[j]) \cap Range(dirs) :
              \E i \in DOMAIN dirs : i < j /\ dirs[i] = q
<1>1. PICK S : S = {q \in Above(p) \ PlannedDirectories : disk[q] = MISSING}
  OBVIOUS
<1>2. PICK dirs : dirs = Kept(Parents[p], S)
  OBVIOUS
<1>3. MissingParents(p) = dirs
  BY <1>1, <1>2 DEF MissingParents
<1>4. Parents[p] \in Seq(Path) /\ IsInjective(Parents[p]) /\ Above(p) \subseteq Path
  BY ParentsAbove
<1>5. Range(Parents[p]) = Above(p)
  BY DEF Above
<1>6. dirs \in Seq(Path \cap S) /\ Range(dirs) = Above(p) \cap S
  BY <1>2, <1>4, <1>5, KeptElements
<1>7. IsInjective(dirs)
  BY <1>2, <1>4, KeptOrder
<1>8. dirs \in Seq(Path \ PlannedDirectories)
  <2>1. Path \cap S \subseteq Path \ PlannedDirectories
    BY <1>1
  <2>. QED  BY <1>6, <2>1
<1>9. \A q \in Range(dirs) : disk[q] = MISSING /\ q \notin Files
  BY <1>1, <1>6 DEF ParentsFit, NoFileAbove
<1>10. \A q \in Above(p) :
         /\ q \notin Files
         /\ q \in PlannedDirectories \cup Range(dirs) \/ disk[q] = DIRECTORY
  <2>. SUFFICES ASSUME NEW q \in Above(p)
                PROVE  /\ q \notin Files
                       /\ q \in PlannedDirectories \cup Range(dirs) \/ disk[q] = DIRECTORY
    OBVIOUS
  <2>1. q \notin Files
    BY DEF ParentsFit, NoFileAbove
  <2>2. q \notin PlannedDirectories => disk[q] \notin Text
    BY DEF ParentsFit
  <2>3. disk[q] \in Text \cup {MISSING, DIRECTORY}
    BY <1>4 DEF Content
  <2>. QED  BY <1>1, <1>6, <2>1, <2>2, <2>3
<1>11. ASSUME NEW j \in DOMAIN dirs, NEW q \in Above(dirs[j]) \cap Range(dirs)
       PROVE  \E i \in DOMAIN dirs : i < j /\ dirs[i] = q
  <2>1. dirs[j] \in Above(p) \cap S
    BY <1>6 DEF Range
  <2>2. PICK l \in DOMAIN Parents[p] : Parents[p][l] = dirs[j]
    BY <2>1 DEF Above, Range
  <2>3. q \in Above(Parents[p][l])
    BY <2>2
  <2>4. PICK k \in DOMAIN Parents[p] : k < l /\ Parents[p][k] = q
    <3>1. \A k \in DOMAIN Parents[p] : \A r \in Above(Parents[p][k]) :
            \E i \in DOMAIN Parents[p] : i < k /\ Parents[p][i] = r
      BY ParentsAbove
    <3>. QED  BY <2>3, <3>1
  <2>5. Parents[p][k] \in S /\ Parents[p][l] \in S
    BY <1>6, <2>1, <2>2, <2>4
  <2>6. PICK i \in DOMAIN dirs, m \in DOMAIN dirs :
          i < m /\ Parents[p][k] = dirs[i] /\ Parents[p][l] = dirs[m]
    BY <1>2, <1>4, <2>4, <2>5, KeptOrder
  <2>7. m = j
    BY <1>7, <2>2, <2>6 DEF IsInjective
  <2>. QED  BY <2>4, <2>6, <2>7
<1>12. \A j \in DOMAIN dirs : \A q \in Above(dirs[j]) \cap Range(dirs) :
         \E i \in DOMAIN dirs : i < j /\ dirs[i] = q
  BY <1>11
<1>. QED  BY <1>3, <1>6, <1>7, <1>8, <1>9, <1>10, <1>12

-----------------------------------------------------------------------------
(* What each handler adds                                                   *)

Base ==
  /\ disk \in [Path -> Content]
  /\ OverlayType /\ OverlayOK /\ DiskOK

LEMMA SeenFacts ==
  ASSUME Base, NEW S, Seen(S)
  PROVE  /\ fingerprints' \in [Path -> Fingerprint]
         /\ \A p \in Path : fingerprints'[p] \in {fingerprints[p], disk[p]}
  BY DEF Base, Seen, OverlayType, Fingerprint

LEMMA PlannedFacts ==
  ASSUME NEW op \in Ops, NEW how \in {"CREATE", "MODIFY", "NO_CHANGE"},
         NEW paths \in Seq(Path), Planned(op, how, paths)
  PROVE  \E rec \in PlannedAction :
           /\ rec.op = op /\ rec.disposition = how /\ rec.paths = paths
           /\ action_plans' = Append(action_plans, rec)
<1> DEFINE r == [op |-> op, disposition |-> how, paths |-> paths]
<1>1. r \in PlannedAction
  BY DEF PlannedAction
<1>2. action_plans' = Append(action_plans, r)
  BY DEF Planned
<1>. QED  BY <1>1, <1>2

(* An action that adds no file and no directory.                            *)
LEMMA NothingNew ==
  ASSUME Base
  PROVE  /\ NewPlaces(<<>>, <<>>)
         /\ <<>> \in Seq(Path \ Files) /\ <<>> \in Seq(Path \ PlannedDirectories)
         /\ IsInjective(<<>>) /\ Range(<<>>) = {}
         /\ order = order \o <<>> /\ created_directories = created_directories \o <<>>
<1>1. Range(<<>>) = {} /\ IsInjective(<<>>)
  BY ShortSequences
<1>2. DOMAIN <<>> = {}
  OBVIOUS
<1>3. order = order \o <<>> /\ created_directories = created_directories \o <<>>
  BY ConcatEmptySeq DEF Base, OverlayType
<1>4. <<>> \in Seq(Path \ Files) /\ <<>> \in Seq(Path \ PlannedDirectories)
  BY ShortSequences
<1>. QED  BY <1>1, <1>2, <1>3, <1>4 DEF NewPlaces

LEMMA CreateDirectoryExtends ==
  ASSUME Base, NEW a \in Action, a.op = "create_directory", PlanCreateDirectory(a)
  PROVE  \E files, dirs, rec : Extended(files, dirs, rec)
<1>1. PICK p \in Path : p = a.path
  BY ActionType
<1>2. /\ Resolves(p) /\ NoFileAbove(p)
      /\ \/ VirtualKind(p) = DIRECTORY
         \/ VirtualKind(p) = MISSING /\ ParentsFit(p)
  BY <1>1 DEF PlanCreateDirectory, CanCreateDirectory
<1>3. /\ fingerprints' \in [Path -> Fingerprint]
      /\ \A q \in Path : fingerprints'[q] \in {fingerprints[q], disk[q]}
  <2>1. \E S : Seen(S)
    BY DEF PlanCreateDirectory
  <2>. QED  BY <2>1, SeenFacts
<1>4. /\ order' = order /\ original' = original /\ current' = current /\ deleted' = deleted
  BY DEF PlanCreateDirectory
<1>5. /\ <<p>> \in Seq(Path) /\ Range(<<p>>) = {p} /\ IsInjective(<<p>>)
  BY ShortSequences
<1>6. /\ original' \in [Path -> FileState] /\ current' \in [Path -> FileState]
      /\ \A q \in Files \cup Range(<<>>) : current'[q] \in Text
      /\ \A q \in Path : original'[q] = IF q \in Range(<<>>) THEN disk[q] ELSE original[q]
  BY <1>4, ShortSequences DEF Base, OverlayType, OverlayOK
<1>7. CASE VirtualKind(p) # MISSING
  <2>1. PICK rec \in PlannedAction :
          /\ rec.op = "create_directory" /\ rec.disposition = "NO_CHANGE" /\ rec.paths = <<p>>
          /\ action_plans' = Append(action_plans, rec)
    <3>1. PICK op \in Ops : op = "create_directory"
      BY DEF Ops
    <3>2. PICK how \in {"CREATE", "MODIFY", "NO_CHANGE"} : how = "NO_CHANGE"
      OBVIOUS
    <3>3. PICK paths \in Seq(Path) : paths = <<p>>
      BY <1>5
    <3>4. Planned(op, how, paths)
      BY <1>1, <1>7, <3>1, <3>2, <3>3 DEF PlanCreateDirectory
    <3>5. \E rec \in PlannedAction :
            /\ rec.op = op /\ rec.disposition = how /\ rec.paths = paths
            /\ action_plans' = Append(action_plans, rec)
      BY <3>4, PlannedFacts
    <3>. QED  BY <3>1, <3>2, <3>3, <3>5
  <2>2. created_directories' = created_directories
    BY <1>1, <1>7 DEF PlanCreateDirectory
  <2>3. NewRecord(<<>>, <<>>, rec)
    BY <2>1 DEF NewRecord
  <2>4. Extended(<<>>, <<>>, rec)
    BY <1>3, <1>4, <1>6, <2>1, <2>2, <2>3, NothingNew DEF Extended
  <2>. QED  BY <2>4
<1>8. CASE VirtualKind(p) = MISSING
  <2>1. PICK rec \in PlannedAction :
          /\ rec.op = "create_directory" /\ rec.disposition = "CREATE" /\ rec.paths = <<p>>
          /\ action_plans' = Append(action_plans, rec)
    <3>1. PICK op \in Ops : op = "create_directory"
      BY DEF Ops
    <3>2. PICK how \in {"CREATE", "MODIFY", "NO_CHANGE"} : how = "CREATE"
      OBVIOUS
    <3>3. PICK paths \in Seq(Path) : paths = <<p>>
      BY <1>5
    <3>4. Planned(op, how, paths)
      BY <1>1, <1>8, <3>1, <3>2, <3>3 DEF PlanCreateDirectory
    <3>5. \E rec \in PlannedAction :
            /\ rec.op = op /\ rec.disposition = how /\ rec.paths = paths
            /\ action_plans' = Append(action_plans, rec)
      BY <3>4, PlannedFacts
    <3>. QED  BY <3>1, <3>2, <3>3, <3>5
  <2>2. ParentsFit(p)
    BY <1>2, <1>8, Kinds
  <2>3. PICK above : above = MissingParents(p)
    OBVIOUS
  <2>4. PICK own : own = Kept(<<p>>, Path \ PlannedDirectories)
    OBVIOUS
  <2>5. PICK dirs : dirs = above \o own
    OBVIOUS
  <2>6. /\ above \in Seq(Path \ PlannedDirectories) /\ IsInjective(above)
        /\ Range(above) \subseteq Above(p)
        /\ \A q \in Range(above) : disk[q] = MISSING /\ q \notin Files
        /\ \A q \in Above(p) :
             /\ q \notin Files
             /\ q \in PlannedDirectories \cup Range(above) \/ disk[q] = DIRECTORY
        /\ \A j \in DOMAIN above : \A q \in Above(above[j]) \cap Range(above) :
             \E i \in DOMAIN above : i < j /\ above[i] = q
    BY <2>2, <2>3, MissingParentsFacts DEF Base
  <2>7. /\ own \in Seq(Path \cap (Path \ PlannedDirectories))
        /\ Range(own) = {p} \cap (Path \ PlannedDirectories)
    <3>1. /\ Kept(<<p>>, Path \ PlannedDirectories) \in Seq(Path \cap (Path \ PlannedDirectories))
          /\ Range(Kept(<<p>>, Path \ PlannedDirectories))
               = Range(<<p>>) \cap (Path \ PlannedDirectories)
      BY <1>5, KeptElements, Zenon
    <3>. QED  BY <1>5, <2>4, <3>1
  <2>8. IsInjective(own)
    BY <1>5, <2>4, KeptOrder
  <2>9. own \in Seq(Path \ PlannedDirectories)
    <3>1. Path \cap (Path \ PlannedDirectories) = Path \ PlannedDirectories
      OBVIOUS
    <3>. QED  BY <2>7, <3>1
  <2>10. p \notin Above(p) /\ \A q \in Above(p) : Above(q) \subseteq Above(p)
    BY ParentsAbove
  <2>11. Range(above) \cap Range(own) = {}
    BY <2>6, <2>7, <2>10
  <2>12. /\ dirs \in Seq(Path \ PlannedDirectories) /\ IsInjective(dirs)
         /\ Range(dirs) = Range(above) \cup Range(own)
    BY <2>5, <2>6, <2>8, <2>9, <2>11, InjectiveConcatenation
  <2>13. created_directories' = created_directories \o dirs
    <3>1. created_directories' = (created_directories \o above) \o own
      BY <1>1, <1>8, <2>3, <2>4 DEF PlanCreateDirectory
    <3>2. /\ created_directories \in Seq(Path) /\ above \in Seq(Path) /\ own \in Seq(Path)
      <4>1. Path \ PlannedDirectories \subseteq Path
        OBVIOUS
      <4>. QED  BY <2>6, <2>9, <4>1 DEF Base, OverlayType
    <3>. QED  BY <2>5, <3>1, <3>2, ConcatAssociative
  <2>14. p \in deleted \/ (p \notin Files /\ p \notin PlannedDirectories /\ disk[p] = MISSING)
    <3>1. disk[p] \in Text \cup {MISSING, DIRECTORY}
      BY DEF Base, Content
    <3>. QED  BY <1>8, <3>1, Kinds DEF VirtualKind
  <2>15. Range(<<>>) = {}
    BY ShortSequences
  <2>16. ASSUME NEW j \in DOMAIN dirs, NEW q \in Above(dirs[j]) \cap Range(dirs)
         PROVE  \E i \in DOMAIN dirs : i < j /\ dirs[i] = q
    <3>1. PICK m \in Nat, n \in Nat : m = Len(above) /\ n = Len(own)
      BY <2>6, <2>9, LenProperties
    <3>2. /\ Len(dirs) = m + n
          /\ \A i \in 1..(m + n) : dirs[i] = IF i <= m THEN above[i] ELSE own[i - m]
      BY <2>5, <2>6, <2>9, <3>1, ConcatProperties
    <3>3. DOMAIN dirs = 1..(m + n) /\ DOMAIN above = 1..m /\ DOMAIN own = 1..n
      BY <2>6, <2>9, <2>12, <3>1, <3>2, LenProperties
    <3>4. \A i \in 1..m : dirs[i] = above[i] /\ i \in DOMAIN dirs
      BY <3>2, <3>3
    <3>5. CASE j \in 1..m
      <4>1. dirs[j] = above[j] /\ above[j] \in Above(p)
        BY <2>6, <3>3, <3>4, <3>5 DEF Range
      <4>2. q \in Above(p)
        BY <2>10, <4>1
      <4>3. q \in Range(above)
        BY <2>7, <2>10, <2>12, <4>2
      <4>4. PICK i \in DOMAIN above : i < j /\ above[i] = q
        BY <2>6, <3>3, <3>5, <4>1, <4>3
      <4>. QED  BY <3>3, <3>4, <4>4
    <3>6. CASE j \notin 1..m
      <4>1. j \in 1..(m + n) /\ j - m \in 1..n /\ dirs[j] = own[j - m]
        BY <3>2, <3>3, <3>6
      <4>2. dirs[j] = p
        BY <2>7, <3>3, <4>1 DEF Range
      <4>3. q \in Range(above)
        BY <2>7, <2>10, <2>12, <4>2
      <4>4. PICK i \in 1..m : above[i] = q
        BY <3>3, <4>3 DEF Range
      <4>. QED  BY <3>4, <3>6, <4>1, <4>4
    <3>. QED  BY <3>5, <3>6
  <2>17. NewPlaces(<<>>, dirs)
    <3>1. \A q \in Range(dirs) : q \in deleted \/ (q \notin Files /\ disk[q] = MISSING)
      BY <2>6, <2>7, <2>12, <2>14
    <3>2. \A d \in Range(dirs) : \A q \in Above(d) :
            /\ q \notin Files
            /\ q \in PlannedDirectories \cup Range(dirs) \/ disk[q] = DIRECTORY
      BY <2>6, <2>7, <2>10, <2>12
    <3>3. \A j \in DOMAIN dirs : \A q \in Above(dirs[j]) \cap Range(dirs) :
            \E i \in DOMAIN dirs : i < j /\ dirs[i] = q
      BY <2>16
    <3>. QED  BY <2>15, <3>1, <3>2, <3>3 DEF NewPlaces
  <2>18. NewRecord(<<>>, dirs, rec)
    <3>1. rec.paths[1] = p /\ Len(rec.paths) = 1
      BY <2>1
    <3>2. p \in PlannedDirectories \cup Range(dirs)
      BY <2>7, <2>12
    <3>3. Range(dirs) \subseteq Above(p) \cup {p}
      BY <2>6, <2>7, <2>12
    <3>. QED  BY <2>1, <2>14, <3>1, <3>2, <3>3 DEF NewRecord
  <2>19. Extended(<<>>, dirs, rec)
    BY <1>3, <1>4, <1>6, <2>1, <2>12, <2>13, <2>17, <2>18, NothingNew DEF Extended
  <2>. QED  BY <2>19
<1>. QED  BY <1>7, <1>8

LEMMA UpdateFacts ==
  ASSUME Base, NEW S \in SUBSET Path, NEW text \in [S -> Text], Update(S, text),
         \A p \in S \ Files : disk[p] \in FileState
  PROVE  /\ original' \in [Path -> FileState] /\ current' \in [Path -> FileState]
         /\ \A p \in Path : original'[p] = IF p \in S \ Files THEN disk[p] ELSE original[p]
         /\ \A p \in Path : current'[p] = IF p \in S THEN text[p] ELSE current[p]
         /\ \A p \in Files \cup S : current'[p] \in Text
<1>1. /\ original' = [p \in Path |-> IF p \in S \ Files THEN disk[p] ELSE original[p]]
      /\ current' = [p \in Path |-> IF p \in S THEN text[p] ELSE current[p]]
  BY DEF Update
<1>2. /\ original \in [Path -> FileState] /\ current \in [Path -> FileState]
      /\ Files \subseteq Path /\ \A p \in Files : current[p] \in Text
  BY PlannedDirectoriesType DEF Base, OverlayType, OverlayOK
<1>3. original' \in [Path -> FileState]
  BY <1>1, <1>2
<1>4. \A p \in Path : (IF p \in S THEN text[p] ELSE current[p]) \in FileState
  BY <1>2 DEF FileState
<1>5. current' \in [Path -> FileState]
  BY <1>1, <1>4
<1>6. \A p \in Path : current'[p] = IF p \in S THEN text[p] ELSE current[p]
  BY <1>1
<1>7. \A p \in Files \cup S : current'[p] \in Text
  BY <1>2, <1>6
<1>. QED  BY <1>1, <1>3, <1>5, <1>6, <1>7

(* Handlers that read files and give them new texts.                        *)
LEMMA LoadingExtends ==
  ASSUME Base, NEW seq \in Seq(Path), IsInjective(seq), Len(seq) \in {1, 2},
         \A p \in Range(seq) : Readable(p),
         NEW text \in [Range(seq) -> Text], Update(Range(seq), text),
         order' = Loaded(seq), \E S : Seen(S),
         NEW op \in Ops, op # "create_directory",
         NEW how \in {"CREATE", "MODIFY", "NO_CHANGE"}, Planned(op, how, seq),
         deleted' = deleted, created_directories' = created_directories
  PROVE  \E files, dirs, rec : Extended(files, dirs, rec)
<1>1. PICK files : files = Kept(seq, Path \ Files)
  OBVIOUS
<1>2. /\ files \in Seq(Path \cap (Path \ Files))
      /\ Range(files) = Range(seq) \cap (Path \ Files)
      /\ IsInjective(files)
  BY <1>1, KeptElements, KeptOrder
<1>3. files \in Seq(Path \ Files)
  <2>1. Path \cap (Path \ Files) = Path \ Files
    OBVIOUS
  <2>. QED  BY <1>2, <2>1
<1>4. Range(seq) \subseteq Path
  BY DEF Range
<1>5. \A p \in Range(files) : p \in Range(seq) \ Files
  BY <1>2
<1>6. \A p \in Range(seq) \ Files :
        disk[p] \in Text /\ p \notin PlannedDirectories /\ p \notin deleted /\ NoFileAbove(p)
  BY DEF Readable
<1>7. /\ original' \in [Path -> FileState] /\ current' \in [Path -> FileState]
      /\ \A p \in Path : original'[p] = IF p \in Range(seq) \ Files THEN disk[p] ELSE original[p]
      /\ \A p \in Files \cup Range(seq) : current'[p] \in Text
  BY <1>4, <1>6, UpdateFacts DEF FileState
<1>8. Range(files) = Range(seq) \ Files
  BY <1>2, <1>4
<1>9. order' = order \o files
  BY <1>1 DEF Loaded
<1>10. PICK rec \in PlannedAction :
         /\ rec.op = op /\ rec.disposition = how /\ rec.paths = seq
         /\ action_plans' = Append(action_plans, rec)
  BY PlannedFacts
<1>11. Range(<<>>) = {} /\ DOMAIN <<>> = {}
  BY ShortSequences
<1>12. NewPlaces(files, <<>>)
  <2>1. ASSUME NEW p \in Range(files), NEW q \in Above(p)
        PROVE  q \notin Files \cup Range(files) /\ disk[q] = DIRECTORY
    <3>1. p \in Path /\ q \in Path
      BY <1>4, <1>5, ParentsAbove
    <3>2. disk[p] # MISSING
      BY <1>5, <1>6, Kinds
    <3>3. disk[q] = DIRECTORY
      BY <3>1, <3>2 DEF Base, DiskOK, WellFormed
    <3>4. q \notin Files
      BY <1>5, <1>6 DEF NoFileAbove
    <3>5. q \notin Range(files)
      BY <1>5, <1>6, <3>3, Kinds
    <3>. QED  BY <3>3, <3>4, <3>5
  <2>. QED  BY <1>5, <1>6, <1>11, <2>1 DEF NewPlaces
<1>13. NewRecord(files, <<>>, rec)
  <2>1. Range(seq) \subseteq Files \cup Range(files) /\ Range(files) \subseteq Range(seq)
    BY <1>8
  <2>2. \A p \in Range(files) : disk[p] # MISSING
    BY <1>5, <1>6, Kinds
  <2>. QED  BY <1>10, <2>1, <2>2 DEF NewRecord
<1>14. /\ fingerprints' \in [Path -> Fingerprint]
       /\ \A p \in Path : fingerprints'[p] \in {fingerprints[p], disk[p]}
  BY SeenFacts
<1>15. Extended(files, <<>>, rec)
  BY <1>2, <1>3, <1>7, <1>8, <1>9, <1>10, <1>12, <1>13, <1>14, NothingNew DEF Extended
<1>. QED  BY <1>15

LEMMA TextOfReadable ==
  ASSUME Base, NEW p \in Path, Readable(p)
  PROVE  TextOf(p) \in Text
  BY DEF Base, OverlayOK, Readable, TextOf

LEMMA EditExtends ==
  ASSUME Base, NEW a \in Action, a.op = "edit", PlanEdit(a)
  PROVE  \E files, dirs, rec : Extended(files, dirs, rec)
<1>1. PICK p \in Path : p = a.path
  BY ActionType
<1>2. Readable(p)
  BY <1>1 DEF PlanEdit, CanEdit
<1>3. PICK t \in Edit(a.edit, TextOf(p)) :
        /\ Update({p}, [q \in {p} |-> t])
        /\ Planned("edit", IF t = TextOf(p) THEN "NO_CHANGE" ELSE "MODIFY", <<p>>)
  BY <1>1 DEF PlanEdit
<1>4. t \in Text
  BY <1>2, <1>3, TextOfReadable, ActionType, PlannerAssumption
<1>5. PICK text \in [{p} -> Text] : text = [q \in {p} |-> t]
  BY <1>4
<1>6. PICK how \in {"CREATE", "MODIFY", "NO_CHANGE"} :
        how = IF t = TextOf(p) THEN "NO_CHANGE" ELSE "MODIFY"
  OBVIOUS
<1>7. <<p>> \in Seq(Path) /\ Range(<<p>>) = {p} /\ IsInjective(<<p>>) /\ Len(<<p>>) = 1
  BY ShortSequences
<1>8. order' = Loaded(<<p>>) /\ (\E S : Seen(S))
  BY <1>1 DEF PlanEdit
<1>9. deleted' = deleted /\ created_directories' = created_directories
  BY DEF PlanEdit
<1>10. Update(Range(<<p>>), text)
  BY <1>3, <1>5, <1>7
<1>11. Planned("edit", how, <<p>>)
  BY <1>3, <1>6
<1>. QED
  BY <1>2, <1>5, <1>7, <1>8, <1>9, <1>10, <1>11, LoadingExtends DEF Ops

LEMMA ApplyDiffExtends ==
  ASSUME Base, NEW a \in Action, a.op = "apply_diff", PlanApplyDiff(a)
  PROVE  \E files, dirs, rec : Extended(files, dirs, rec)
<1>1. PICK p \in Path, q \in Path : p = a.first /\ q = a.second
  BY ActionType
<1>2. p # q /\ Readable(p) /\ Readable(q)
  BY <1>1 DEF PlanApplyDiff, CanApplyDiff
<1>3. PICK text \in [{p, q} -> Text] :
        /\ Update({p, q}, text)
        /\ Planned("apply_diff",
                   IF \A r \in {p, q} : text[r] = TextOf(r) THEN "NO_CHANGE" ELSE "MODIFY",
                   <<p, q>>)
  BY <1>1 DEF PlanApplyDiff
<1>4. PICK how \in {"CREATE", "MODIFY", "NO_CHANGE"} :
        how = IF \A r \in {p, q} : text[r] = TextOf(r) THEN "NO_CHANGE" ELSE "MODIFY"
  OBVIOUS
<1>5. /\ <<p, q>> \in Seq(Path) /\ Range(<<p, q>>) = {p, q} /\ IsInjective(<<p, q>>)
      /\ Len(<<p, q>>) = 2
  BY <1>2, ShortSequences
<1>6. order' = Loaded(<<p, q>>) /\ (\E S : Seen(S))
  BY <1>1 DEF PlanApplyDiff
<1>7. deleted' = deleted /\ created_directories' = created_directories
  BY DEF PlanApplyDiff
<1>8. text \in [Range(<<p, q>>) -> Text] /\ Update(Range(<<p, q>>), text)
  BY <1>3, <1>5
<1>9. Planned("apply_diff", how, <<p, q>>)
  BY <1>3, <1>4
<1>10. \A r \in Range(<<p, q>>) : Readable(r)
  BY <1>2, <1>5
<1>. QED
  BY <1>5, <1>6, <1>7, <1>8, <1>9, <1>10, LoadingExtends DEF Ops

LEMMA TransferExtends ==
  ASSUME Base, NEW a \in Action, a.op = "transfer", PlanTransfer(a)
  PROVE  \E files, dirs, rec : Extended(files, dirs, rec)
<1>1. PICK p \in Path, q \in Path : p = a.path /\ q = a.destination
  BY ActionType
<1>2. p # q /\ Readable(p) /\ Readable(q)
  BY <1>1 DEF PlanTransfer, CanTransfer
<1>3. PICK t \in Transfer(a.edit, TextOf(p), TextOf(q)) :
        Update({p, q}, [r \in {p, q} |-> IF r = p THEN t.source ELSE t.destination])
  BY <1>1 DEF PlanTransfer
<1>4. t.source \in Text /\ t.destination \in Text
  BY <1>2, <1>3, TextOfReadable, ActionType, PlannerAssumption
<1>5. PICK text \in [{p, q} -> Text] :
        text = [r \in {p, q} |-> IF r = p THEN t.source ELSE t.destination]
  BY <1>4
<1>6. /\ <<p, q>> \in Seq(Path) /\ Range(<<p, q>>) = {p, q} /\ IsInjective(<<p, q>>)
      /\ Len(<<p, q>>) = 2
  BY <1>2, ShortSequences
<1>7. order' = Loaded(<<p, q>>) /\ (\E S : Seen(S)) /\ Planned("transfer", "MODIFY", <<p, q>>)
  BY <1>1 DEF PlanTransfer
<1>8. deleted' = deleted /\ created_directories' = created_directories
  BY DEF PlanTransfer
<1>9. text \in [Range(<<p, q>>) -> Text] /\ Update(Range(<<p, q>>), text)
  BY <1>3, <1>5, <1>6
<1>10. \A r \in Range(<<p, q>>) : Readable(r)
  BY <1>2, <1>6
<1>. QED
  BY <1>6, <1>7, <1>8, <1>9, <1>10, LoadingExtends DEF Ops

LEMMA CreateFileExtends ==
  ASSUME Base, NEW a \in Action, a.op = "create_file", PlanCreateFile(a)
  PROVE  \E files, dirs, rec : Extended(files, dirs, rec)
<1>1. PICK p \in Path : p = a.path
  BY ActionType
<1>2. /\ p \notin deleted /\ Resolves(p) /\ ParentsFit(p)
      /\ VirtualKind(p) = MISSING \/ VirtualKind(p) = "file"
  BY <1>1 DEF PlanCreateFile, CanCreateFile
<1>3. PICK dirs : dirs = MissingParents(p)
  OBVIOUS
<1>4. PICK files : files = Kept(<<p>>, Path \ Files)
  OBVIOUS
<1>5. /\ dirs \in Seq(Path \ PlannedDirectories) /\ IsInjective(dirs)
      /\ Range(dirs) \subseteq Above(p)
      /\ \A q \in Range(dirs) : disk[q] = MISSING /\ q \notin Files
      /\ \A q \in Above(p) :
           /\ q \notin Files
           /\ q \in PlannedDirectories \cup Range(dirs) \/ disk[q] = DIRECTORY
      /\ \A j \in DOMAIN dirs : \A q \in Above(dirs[j]) \cap Range(dirs) :
           \E i \in DOMAIN dirs : i < j /\ dirs[i] = q
  BY <1>2, <1>3, MissingParentsFacts DEF Base
<1>6. /\ <<p>> \in Seq(Path) /\ Range(<<p>>) = {p} /\ IsInjective(<<p>>)
      /\ Len(<<p>>) = 1 /\ <<p>>[1] = p
  BY ShortSequences
<1>7. /\ files \in Seq(Path \ Files) /\ IsInjective(files)
      /\ Range(files) = {p} \ Files
  <2>1. Path \cap (Path \ Files) = Path \ Files
    OBVIOUS
  <2>2. files \in Seq(Path \cap (Path \ Files)) /\ Range(files) = Range(<<p>>) \cap (Path \ Files)
    BY <1>4, <1>6, KeptElements
  <2>3. IsInjective(files)
    BY <1>4, <1>6, KeptOrder
  <2>. QED  BY <1>6, <2>1, <2>2, <2>3
<1>8. disk[p] \in Text \cup {MISSING, DIRECTORY}
  BY DEF Base, Content
<1>9. p \notin Files => disk[p] \in FileState /\ p \notin PlannedDirectories
  BY <1>2, <1>8, Kinds DEF VirtualKind, FileState
<1>10. /\ original' \in [Path -> FileState] /\ current' \in [Path -> FileState]
       /\ \A q \in Path : original'[q] = IF q \in {p} \ Files THEN disk[q] ELSE original[q]
       /\ \A q \in Files \cup {p} : current'[q] \in Text
  <2>1. PICK S \in SUBSET Path : S = {p}
    OBVIOUS
  <2>2. PICK text \in [S -> Text] : text = [q \in {p} |-> a.text]
    BY ActionType, <2>1
  <2>3. Update(S, text)
    BY <1>1, <2>1, <2>2 DEF PlanCreateFile
  <2>4. \A q \in S \ Files : disk[q] \in FileState
    BY <1>9, <2>1
  <2>5. /\ original' \in [Path -> FileState] /\ current' \in [Path -> FileState]
        /\ \A q \in Path : original'[q] = IF q \in S \ Files THEN disk[q] ELSE original[q]
        /\ \A q \in Files \cup S : current'[q] \in Text
    BY <2>3, <2>4, UpdateFacts
  <2>. QED  BY <2>1, <2>5
<1>11. PICK rec \in PlannedAction :
         /\ rec.op = "create_file" /\ rec.paths = <<p>>
         /\ action_plans' = Append(action_plans, rec)
  <2>1. PICK op \in Ops : op = "create_file"
    BY DEF Ops
  <2>2. PICK how \in {"CREATE", "MODIFY", "NO_CHANGE"} :
          how = IF VirtualKind(p) = MISSING THEN "CREATE" ELSE "NO_CHANGE"
    OBVIOUS
  <2>3. PICK paths \in Seq(Path) : paths = <<p>>
    BY <1>6
  <2>4. Planned(op, how, paths)
    BY <1>1, <2>1, <2>2, <2>3 DEF PlanCreateFile
  <2>5. \E rec \in PlannedAction :
          /\ rec.op = op /\ rec.disposition = how /\ rec.paths = paths
          /\ action_plans' = Append(action_plans, rec)
    BY <2>4, PlannedFacts
  <2>. QED  BY <2>1, <2>3, <2>5
<1>12. /\ fingerprints' \in [Path -> Fingerprint]
       /\ \A q \in Path : fingerprints'[q] \in {fingerprints[q], disk[q]}
  <2>1. \E S : Seen(S)
    BY DEF PlanCreateFile
  <2>. QED  BY <2>1, SeenFacts
<1>13. /\ order' = order \o files /\ created_directories' = created_directories \o dirs
       /\ deleted' = deleted
  BY <1>1, <1>3, <1>4 DEF PlanCreateFile, Loaded
<1>14. p \notin Above(p) /\ \A q \in Above(p) : Above(q) \subseteq Above(p)
  BY ParentsAbove
<1>15. NewPlaces(files, dirs)
  <2>1. \A q \in Range(files) : q \notin PlannedDirectories \cup Range(dirs)
    BY <1>5, <1>7, <1>9, <1>14
  <2>2. \A q \in Range(dirs) : q \notin Files \cup Range(files) /\ disk[q] = MISSING
    BY <1>5, <1>7, <1>14
  <2>3. ASSUME NEW d \in Range(files) \cup Range(dirs), NEW q \in Above(d)
        PROVE  /\ q \notin Files \cup Range(files)
               /\ q \in PlannedDirectories \cup Range(dirs) \/ disk[q] = DIRECTORY
    <3>1. q \in Above(p)
      BY <1>5, <1>7, <1>14, <2>3
    <3>. QED  BY <1>5, <1>7, <1>14, <3>1
  <2>. QED  BY <1>5, <2>1, <2>2, <2>3 DEF NewPlaces
<1>16. dirs # <<>> => disk[p] = MISSING
  <2>. SUFFICES ASSUME disk[p] # MISSING PROVE dirs = <<>>
    OBVIOUS
  <2>1. \A q \in Above(p) : disk[q] = DIRECTORY
    BY DEF Base, DiskOK, WellFormed
  <2>2. Range(dirs) = {}
    BY <1>5, <2>1, Kinds
  <2>. QED  BY <1>5, <2>2, EmptySeq DEF Range
<1>17. original'[p] = disk[p]
  BY <1>10 DEF Base, DiskOK
<1>18. NewRecord(files, dirs, rec)
  <2>1. rec.paths[1] = p /\ Len(rec.paths) = 1 /\ Range(rec.paths) = {p}
    BY <1>6, <1>11
  <2>. QED  BY <1>5, <1>7, <1>11, <1>16, <1>17, <2>1 DEF NewRecord
<1>19. Extended(files, dirs, rec)
  <2>1. \A q \in Path : original'[q] = IF q \in Range(files) THEN disk[q] ELSE original[q]
    BY <1>7, <1>10
  <2>2. \A q \in Files \cup Range(files) : current'[q] \in Text
    BY <1>7, <1>10
  <2>. QED
    BY <1>5, <1>7, <1>10, <1>11, <1>12, <1>13, <1>15, <1>18, <2>1, <2>2 DEF Extended
<1>. QED  BY <1>19

LEMMA FileMoveExtends ==
  ASSUME Base, NEW a \in Action, a.op = "move_file", PlanFileMove(a)
  PROVE  \E files, dirs, rec : Extended(files, dirs, rec)
<1>1. PICK p \in Path, q \in Path : p = a.path /\ q = a.destination
  BY ActionType
<1>2. /\ p # q /\ p \notin Files /\ q \notin Files /\ q \notin deleted
      /\ disk[p] # MISSING /\ Readable(p) /\ p \notin Above(q)
      /\ VirtualKind(q) = MISSING /\ ParentsFit(q)
  BY <1>1 DEF PlanFileMove, CanMoveFile
<1>3. PICK dirs : dirs = MissingParents(q)
  OBVIOUS
<1>4. PICK files : files = <<p, q>>
  OBVIOUS
<1>5. /\ dirs \in Seq(Path \ PlannedDirectories) /\ IsInjective(dirs)
      /\ Range(dirs) \subseteq Above(q)
      /\ \A r \in Range(dirs) : disk[r] = MISSING /\ r \notin Files
      /\ \A r \in Above(q) :
           /\ r \notin Files
           /\ r \in PlannedDirectories \cup Range(dirs) \/ disk[r] = DIRECTORY
      /\ \A j \in DOMAIN dirs : \A r \in Above(dirs[j]) \cap Range(dirs) :
           \E i \in DOMAIN dirs : i < j /\ dirs[i] = r
  BY <1>2, <1>3, MissingParentsFacts DEF Base
<1>6. files \in Seq(Path \ Files) /\ IsInjective(files) /\ Range(files) = {p, q}
  BY <1>2, <1>4, ShortSequences
<1>7. disk[p] \in Text /\ p \notin PlannedDirectories /\ NoFileAbove(p)
  BY <1>2 DEF Readable
<1>8. disk[q] = MISSING /\ q \notin PlannedDirectories
  <2>1. disk[q] \in Text \cup {MISSING, DIRECTORY}
    BY DEF Base, Content
  <2>. QED  BY <1>2, <2>1, Kinds DEF VirtualKind
<1>9. \A r \in Above(p) : r \notin Files /\ disk[r] = DIRECTORY
  BY <1>2, <1>7 DEF NoFileAbove, Base, DiskOK, WellFormed
<1>10. /\ original' \in [Path -> FileState] /\ current' \in [Path -> FileState]
       /\ \A r \in Path : original'[r] = IF r \in {p, q} \ Files THEN disk[r] ELSE original[r]
       /\ \A r \in Files \cup {p, q} : current'[r] \in Text
  <2>1. PICK S \in SUBSET Path : S = {p, q}
    OBVIOUS
  <2>2. PICK text \in [S -> Text] : text = [r \in {p, q} |-> disk[p]]
    BY <1>7, <2>1
  <2>3. Update(S, text)
    BY <1>1, <2>1, <2>2 DEF PlanFileMove
  <2>4. \A r \in S \ Files : disk[r] \in FileState
    BY <1>7, <1>8, <2>1 DEF FileState
  <2>5. /\ original' \in [Path -> FileState] /\ current' \in [Path -> FileState]
        /\ \A r \in Path : original'[r] = IF r \in S \ Files THEN disk[r] ELSE original[r]
        /\ \A r \in Files \cup S : current'[r] \in Text
    BY <2>3, <2>4, UpdateFacts
  <2>. QED  BY <2>1, <2>5
<1>11. /\ <<q, p>> \in Seq(Path) /\ Range(<<q, p>>) = {q, p} /\ Len(<<q, p>>) = 2
       /\ <<q, p>>[1] = q
  BY ShortSequences
<1>12. PICK rec \in PlannedAction :
         /\ rec.op = "move_file" /\ rec.paths = <<q, p>>
         /\ action_plans' = Append(action_plans, rec)
  <2>1. PICK op \in Ops : op = "move_file"
    BY DEF Ops
  <2>2. PICK how \in {"CREATE", "MODIFY", "NO_CHANGE"} : how = "MODIFY"
    OBVIOUS
  <2>3. PICK paths \in Seq(Path) : paths = <<q, p>>
    BY <1>11
  <2>4. Planned(op, how, paths)
    BY <1>1, <2>1, <2>2, <2>3 DEF PlanFileMove
  <2>5. \E rec \in PlannedAction :
          /\ rec.op = op /\ rec.disposition = how /\ rec.paths = paths
          /\ action_plans' = Append(action_plans, rec)
    BY <2>4, PlannedFacts
  <2>. QED  BY <2>1, <2>3, <2>5
<1>13. /\ fingerprints' \in [Path -> Fingerprint]
       /\ \A r \in Path : fingerprints'[r] \in {fingerprints[r], disk[r]}
  <2>1. \E S : Seen(S)
    BY DEF PlanFileMove
  <2>. QED  BY <2>1, SeenFacts
<1>14. /\ order' = order \o files /\ created_directories' = created_directories \o dirs
       /\ deleted' = deleted \cup {p}
  BY <1>1, <1>3, <1>4 DEF PlanFileMove
<1>15. q \notin Above(q) /\ p \notin Above(p) /\ \A r \in Above(q) : Above(r) \subseteq Above(q)
  BY ParentsAbove
<1>16. NewPlaces(files, dirs)
  <2>1. \A r \in Range(files) : r \notin PlannedDirectories \cup Range(dirs)
    BY <1>2, <1>5, <1>6, <1>7, <1>8, <1>15
  <2>2. \A r \in Range(dirs) : r \notin Files \cup Range(files) /\ disk[r] = MISSING
    BY <1>2, <1>5, <1>6, <1>15
  <2>3. ASSUME NEW d \in Range(files) \cup Range(dirs), NEW r \in Above(d)
        PROVE  /\ r \notin Files \cup Range(files)
               /\ r \in PlannedDirectories \cup Range(dirs) \/ disk[r] = DIRECTORY
    <3>1. CASE d = p
      <4>1. r \notin Files /\ disk[r] = DIRECTORY
        BY <1>9, <2>3, <3>1
      <4>2. r # q /\ r # p
        BY <1>7, <1>8, <4>1, Kinds
      <4>. QED  BY <1>6, <4>1, <4>2
    <3>2. CASE d # p
      <4>1. r \in Above(q)
        BY <1>5, <1>6, <1>15, <2>3, <3>2
      <4>. QED  BY <1>2, <1>5, <1>6, <1>15, <4>1
    <3>. QED  BY <3>1, <3>2
  <2>. QED  BY <1>5, <2>1, <2>2, <2>3 DEF NewPlaces
<1>17. original'[q] = MISSING
  BY <1>2, <1>8, <1>10
<1>18. NewRecord(files, dirs, rec)
  <2>1. rec.paths[1] = q /\ Len(rec.paths) = 2 /\ Range(rec.paths) = {q, p}
    BY <1>11, <1>12
  <2>2. \A r \in Range(files) : disk[r] = MISSING => r = q
    BY <1>6, <1>7, Kinds
  <2>. QED  BY <1>5, <1>6, <1>12, <1>17, <2>1, <2>2 DEF NewRecord
<1>19. Extended(files, dirs, rec)
  <2>1. \A r \in Path : original'[r] = IF r \in Range(files) THEN disk[r] ELSE original[r]
    BY <1>2, <1>6, <1>10
  <2>2. \A r \in Files \cup Range(files) : current'[r] \in Text
    BY <1>6, <1>10
  <2>3. deleted \subseteq deleted'
          /\ \A r \in deleted' \ deleted : r \in Range(files) /\ disk[r] \in Text
    BY <1>6, <1>7, <1>14
  <2>. QED
    BY <1>5, <1>6, <1>10, <1>12, <1>13, <1>14, <1>16, <1>18, <2>1, <2>2, <2>3 DEF Extended
<1>. QED  BY <1>19

LEMMA ActionExtends ==
  ASSUME Base, NEW a \in Action, PlanAction(a)
  PROVE  \E files, dirs, rec : Extended(files, dirs, rec)
<1>1. \/ a.op = "create_directory" /\ PlanCreateDirectory(a)
      \/ a.op = "create_file" /\ PlanCreateFile(a)
      \/ a.op = "edit" /\ PlanEdit(a)
      \/ a.op = "apply_diff" /\ PlanApplyDiff(a)
      \/ a.op = "transfer" /\ PlanTransfer(a)
      \/ a.op = "move_file" /\ PlanFileMove(a)
  BY DEF PlanAction
<1>. QED
  BY <1>1, CreateDirectoryExtends, CreateFileExtends, EditExtends, ApplyDiffExtends,
     TransferExtends, FileMoveExtends

-----------------------------------------------------------------------------
(* An extended overlay is still one                                         *)

Ends(s, t, u) ==
  LET new == DOMAIN u \ DOMAIN s IN
  /\ \A i \in DOMAIN s : i \in DOMAIN u /\ u[i] = s[i]
  /\ \A j \in new : \E l \in DOMAIN t :
       u[j] = t[l] /\ \A k \in DOMAIN t : k < l => \E i \in DOMAIN u : i < j /\ u[i] = t[k]
  /\ \A i \in DOMAIN s, j \in new : i < j
  /\ \A i, j \in DOMAIN u : (i < j /\ j \in DOMAIN s) => i \in DOMAIN s

LEMMA ListEnds ==
  ASSUME NEW T, NEW s \in Seq(T), NEW t \in Seq(T)
  PROVE  Ends(s, t, s \o t)
<1>0. PICK u : u = s \o t
  OBVIOUS
<1>1. PICK m \in Nat, n \in Nat : m = Len(s) /\ n = Len(t)
  BY LenProperties
<1>2. /\ DOMAIN s = 1..m /\ DOMAIN t = 1..n /\ DOMAIN u = 1..(m + n)
      /\ \A i \in 1..(m + n) : u[i] = IF i <= m THEN s[i] ELSE t[i - m]
  <2>1. /\ s \o t \in Seq(T) /\ Len(s \o t) = Len(s) + Len(t)
        /\ \A i \in 1..(Len(s) + Len(t)) :
             (s \o t)[i] = IF i <= Len(s) THEN s[i] ELSE t[i - Len(s)]
    BY ConcatProperties
  <2>. QED  BY <1>0, <1>1, <2>1, LenProperties
<1>3. \A i \in DOMAIN s : i \in DOMAIN u /\ u[i] = s[i]
  BY <1>2
<1>4. ASSUME NEW j \in DOMAIN u \ DOMAIN s
      PROVE  \E l \in DOMAIN t :
               u[j] = t[l] /\ \A k \in DOMAIN t : k < l => \E i \in DOMAIN u : i < j /\ u[i] = t[k]
  <2>1. PICK l \in 1..n : j = m + l
    <3>1. j \in 1..(m + n) /\ j \notin 1..m
      BY <1>2
    <3>2. j - m \in 1..n /\ j = m + (j - m)
      BY <3>1
    <3>. QED  BY <3>2
  <2>2. u[j] = t[l]
    BY <1>2, <2>1
  <2>3. ASSUME NEW k \in 1..n, k < l PROVE m + k \in DOMAIN u /\ m + k < j /\ u[m + k] = t[k]
    BY <1>2, <2>1, <2>3
  <2>. QED  BY <1>2, <2>2, <2>3
<1>5. \A i \in DOMAIN s, j \in DOMAIN u \ DOMAIN s : i < j
  BY <1>2
<1>6. \A i, j \in DOMAIN u : (i < j /\ j \in DOMAIN s) => i \in DOMAIN s
  BY <1>2
<1>. QED  BY <1>0, <1>3, <1>4, <1>5, <1>6 DEF Ends

(* The lists of the overlay grow at their ends.                             *)
LEMMA ListsGrow ==
  ASSUME Base, NEW files, NEW dirs, NEW rec, Extended(files, dirs, rec)
  PROVE  /\ order' \in Seq(Path) /\ IsInjective(order')
         /\ Range(order') = Files \cup Range(files)
         /\ created_directories' \in Seq(Path) /\ IsInjective(created_directories')
         /\ Range(created_directories') = PlannedDirectories \cup Range(dirs)
         /\ Range(files) \subseteq Path \ Files
         /\ Range(dirs) \subseteq Path \ PlannedDirectories
         /\ files \in Seq(Path) /\ dirs \in Seq(Path)
<1>1. /\ order \in Seq(Path) /\ IsInjective(order)
      /\ created_directories \in Seq(Path) /\ IsInjective(created_directories)
  BY DEF Base, OverlayType, OverlayOK
<1>2. /\ files \in Seq(Path \ Files) /\ IsInjective(files) /\ order' = order \o files
      /\ dirs \in Seq(Path \ PlannedDirectories) /\ IsInjective(dirs)
      /\ created_directories' = created_directories \o dirs
  BY DEF Extended
<1>3. /\ files \in Seq(Path) /\ Range(files) \subseteq Path \ Files
      /\ dirs \in Seq(Path) /\ Range(dirs) \subseteq Path \ PlannedDirectories
  BY <1>2 DEF Range
<1>4. Range(order) \cap Range(files) = {} /\ Range(created_directories) \cap Range(dirs) = {}
  BY <1>3 DEF Files, PlannedDirectories
<1>5. /\ order \o files \in Seq(Path) /\ IsInjective(order \o files)
      /\ Range(order \o files) = Range(order) \cup Range(files)
  BY <1>1, <1>2, <1>3, <1>4, InjectiveConcatenation
<1>6. /\ created_directories \o dirs \in Seq(Path) /\ IsInjective(created_directories \o dirs)
      /\ Range(created_directories \o dirs) = Range(created_directories) \cup Range(dirs)
  BY <1>1, <1>2, <1>3, <1>4, InjectiveConcatenation
<1>. QED  BY <1>2, <1>3, <1>5, <1>6 DEF Files, PlannedDirectories

LEMMA OverlayStep ==
  ASSUME Base, disk' = disk,
         NEW files, NEW dirs, NEW rec, Extended(files, dirs, rec)
  PROVE  Base'
<1>1. /\ order' \in Seq(Path) /\ IsInjective(order')
      /\ Range(order') = Files \cup Range(files)
      /\ created_directories' \in Seq(Path) /\ IsInjective(created_directories')
      /\ Range(created_directories') = PlannedDirectories \cup Range(dirs)
      /\ Range(files) \subseteq Path \ Files
      /\ Range(dirs) \subseteq Path \ PlannedDirectories
  BY ListsGrow
<1>2. Files' = Files \cup Range(files) /\ PlannedDirectories' = PlannedDirectories \cup Range(dirs)
  BY <1>1 DEF Files, PlannedDirectories
<1>3. /\ deleted \subseteq deleted'
      /\ \A p \in deleted' \ deleted : p \in Range(files) /\ disk[p] \in Text
      /\ original' \in [Path -> FileState] /\ current' \in [Path -> FileState]
      /\ \A p \in Path : original'[p] = IF p \in Range(files) THEN disk[p] ELSE original[p]
      /\ \A p \in Files \cup Range(files) : current'[p] \in Text
      /\ fingerprints' \in [Path -> Fingerprint]
      /\ \A p \in Path : fingerprints'[p] \in {fingerprints[p], disk[p]}
  BY DEF Extended
<1>4. /\ \A p \in Range(files) : p \notin PlannedDirectories \cup Range(dirs)
      /\ \A p \in Range(dirs) :
           p \in deleted \/ (p \notin Files \cup Range(files) /\ disk[p] = MISSING)
      /\ \A p \in Range(files) \cup Range(dirs) : \A q \in Above(p) :
           /\ q \notin Files \cup Range(files)
           /\ q \in PlannedDirectories \cup Range(dirs) \/ disk[q] = DIRECTORY
  BY DEF Extended, NewPlaces
<1>5. /\ deleted \subseteq Files /\ (\A p \in deleted : original[p] \in Text)
      /\ Files \cap PlannedDirectories \subseteq deleted
      /\ \A p \in Files \cup PlannedDirectories : Above(p) \cap Files = {}
  BY DEF Base, OverlayOK, NoFileAbove
<1>6. /\ WellFormed(disk)
      /\ \A p \in Files : original[p] = disk[p]
      /\ \A p \in PlannedDirectories \ deleted : disk[p] = MISSING
      /\ \A p \in Files \cup PlannedDirectories : \A q \in Above(p) \ PlannedDirectories :
           disk[q] = DIRECTORY
      /\ \A p \in Path : fingerprints[p] \in {UNREAD, disk[p]}
  BY DEF Base, DiskOK
<1>7. Files \subseteq Path /\ PlannedDirectories \subseteq Path
  BY PlannedDirectoriesType DEF Base
<1>8. OverlayType'
  <2>1. action_plans' \in Seq(PlannedAction)
    <3>1. action_plans \in Seq(PlannedAction) /\ rec \in PlannedAction
          /\ action_plans' = Append(action_plans, rec)
      BY DEF Base, OverlayType, Extended, NewRecord
    <3>. QED  BY <3>1, AppendProperties
  <2>2. deleted' \subseteq Path
    BY <1>1, <1>3, <1>5, <1>7
  <2>. QED  BY <1>1, <1>3, <2>1, <2>2 DEF OverlayType
<1>9. \A p \in Range(files) : disk[p] # DIRECTORY
  <2>1. \A p \in Range(files) : original'[p] = disk[p] /\ original'[p] \in FileState
    BY <1>1, <1>3
  <2>. QED  BY <2>1, Kinds DEF FileState
<1>10. OverlayOK'
  <2>1. deleted' \subseteq Files'
    BY <1>2, <1>3, <1>5
  <2>2. \A p \in deleted' : original'[p] \in Text
    <3>1. \A p \in deleted' \ deleted : original'[p] \in Text
      BY <1>1, <1>3
    <3>2. \A p \in deleted : original'[p] = original[p]
      BY <1>1, <1>3, <1>5, <1>7
    <3>. QED  BY <1>5, <3>1, <3>2
  <2>3. \A p \in Files' : current'[p] \in Text
    BY <1>2, <1>3
  <2>4. Files' \cap PlannedDirectories' \subseteq deleted'
    BY <1>2, <1>3, <1>4, <1>5
  <2>5. ASSUME NEW p \in Files' \cup PlannedDirectories', NEW q \in Above(p)
        PROVE  q \notin Files'
    <3>1. CASE p \in Range(files) \cup Range(dirs)
      BY <1>2, <1>4, <2>5, <3>1
    <3>2. CASE p \in Files \cup PlannedDirectories
      <4>1. q \notin Files
        BY <1>5, <2>5, <3>2
      <4>2. q \in PlannedDirectories \/ disk[q] = DIRECTORY
        BY <1>6, <2>5, <3>2
      <4>3. q \notin Range(files)
        BY <1>4, <1>9, <4>2
      <4>. QED  BY <1>2, <4>1, <4>3
    <3>. QED  BY <1>2, <3>1, <3>2
  <2>6. \A p \in Files' \cup PlannedDirectories' : NoFileAbove(p)'
    BY <2>5 DEF NoFileAbove, Above
  <2>. QED  BY <1>1, <2>1, <2>2, <2>3, <2>4, <2>6 DEF OverlayOK
<1>11. DiskOK'
  <2>1. WellFormed(disk)'
    BY <1>6 DEF WellFormed, Above
  <2>2. \A p \in Files' : original'[p] = disk'[p]
    BY <1>1, <1>2, <1>3, <1>6, <1>7
  <2>3. \A p \in PlannedDirectories' \ deleted' : disk'[p] = MISSING
    BY <1>2, <1>3, <1>4, <1>6
  <2>4. \A p \in Files' \cup PlannedDirectories' : \A q \in Above(p) \ PlannedDirectories' :
          disk'[q] = DIRECTORY
    BY <1>2, <1>4, <1>6
  <2>5. \A p \in Path : fingerprints'[p] \in {UNREAD, disk'[p]}
    BY <1>3, <1>6
  <2>. QED  BY <2>1, <2>2, <2>3, <2>4, <2>5 DEF DiskOK, Above
<1>12. disk' \in [Path -> Content]
  BY DEF Base
<1>. QED  BY <1>8, <1>10, <1>11, <1>12 DEF Base

(* What one more action asks for comes after everything before it.          *)
EffectsGrow(A, B, rec) ==
  LET new == Asked(B) \ Asked(A) IN
  /\ \A k \in DOMAIN B : (k \in DOMAIN A /\ B[k] = A[k]) \/ B[k] = rec
  /\ \A e \in Asked(A) :
       /\ e \in Asked(B) /\ Target(B, e) = Target(A, e)
       /\ ForDirectory(B, e) <=> ForDirectory(A, e)
  /\ \A e \in new :
       /\ e.file \in DOMAIN rec.paths /\ Target(B, e) = rec.paths[e.file]
       /\ ForDirectory(B, e) <=> rec.op = "create_directory"
       /\ rec.op = "create_directory" => rec.disposition = "CREATE"
       /\ \A f \in Asked(A) : Before(f, e) /\ ~Before(e, f)
       /\ \A f \in new : Before(f, e) => f.file < e.file
  /\ (rec.op = "create_directory" => rec.disposition = "CREATE") =>
       \A i \in DOMAIN rec.paths : \E e \in new :
         /\ e.file = i
         /\ \A f \in new : i = 1 => NotAfter(e, f)

LEMMA AskedGrows ==
  ASSUME NEW A \in Seq(PlannedAction), NEW rec \in PlannedAction, Len(rec.paths) \in {1, 2}
  PROVE  EffectsGrow(A, Append(A, rec), rec)
<1>0. PICK B : B = Append(A, rec)
  OBVIOUS
<1>1. PICK n \in Nat : n = Len(A)
  BY LenProperties
<1>2. /\ B \in Seq(PlannedAction) /\ DOMAIN A = 1..n /\ DOMAIN B = 1..(n + 1)
      /\ \A k \in 1..n : B[k] = A[k]
      /\ B[n + 1] = rec
  BY <1>0, <1>1, AppendProperties, LenProperties
<1>3. \A k \in DOMAIN B : (k \in DOMAIN A /\ B[k] = A[k]) \/ B[k] = rec
  BY <1>2
<1>4. DOMAIN rec.paths \subseteq {1, 2} /\ 1 \in DOMAIN rec.paths
  <2>1. rec.paths \in Seq(Path)
    BY DEF PlannedAction
  <2>2. DOMAIN rec.paths = 1..Len(rec.paths)
    BY <2>1, LenProperties
  <2>3. PICK m \in {1, 2} : m = Len(rec.paths)
    OBVIOUS
  <2>4. 1..m \subseteq {1, 2} /\ 1 \in 1..m
    OBVIOUS
  <2>. QED  BY <2>2, <2>3, <2>4
<1>5. ASSUME NEW e \in Asked(A)
      PROVE  /\ e \in Asked(B) /\ Target(B, e) = Target(A, e)
             /\ ForDirectory(B, e) <=> ForDirectory(A, e)
             /\ e.action \in 1..n
  <2>1. /\ e \in [action : 1..n, file : {1, 2}]
        /\ e.file \in DOMAIN A[e.action].paths
        /\ A[e.action].op = "create_directory" => A[e.action].disposition = "CREATE"
    BY <1>2 DEF Asked
  <2>2. e.action \in 1..n /\ e.action \in 1..(n + 1) /\ B[e.action] = A[e.action]
    BY <1>2, <2>1
  <2>3. e \in [action : 1..(n + 1), file : {1, 2}]
    BY <2>1, <2>2
  <2>. QED  BY <1>2, <2>1, <2>2, <2>3 DEF Asked, Target, ForDirectory
<1>6. ASSUME NEW e \in Asked(B) \ Asked(A)
      PROVE  /\ e.action = n + 1 /\ e.file \in {1, 2}
             /\ e.file \in DOMAIN rec.paths
             /\ rec.op = "create_directory" => rec.disposition = "CREATE"
  <2>1. /\ e \in [action : 1..(n + 1), file : {1, 2}]
        /\ e.file \in DOMAIN B[e.action].paths
        /\ B[e.action].op = "create_directory" => B[e.action].disposition = "CREATE"
    BY <1>2 DEF Asked
  <2>2. e.action \notin 1..n
    <3>. SUFFICES ASSUME e.action \in 1..n PROVE FALSE
      OBVIOUS
    <3>1. e \in [action : 1..n, file : {1, 2}]
      BY <2>1
    <3>2. e \in Asked(A)
      BY <1>2, <2>1, <3>1 DEF Asked
    <3>. QED  BY <3>2
  <2>3. e.action = n + 1
    BY <2>1, <2>2
  <2>. QED  BY <1>2, <2>1, <2>3
<1>7. ASSUME NEW e \in Asked(B) \ Asked(A)
      PROVE  /\ e.file \in DOMAIN rec.paths /\ Target(B, e) = rec.paths[e.file]
             /\ ForDirectory(B, e) <=> rec.op = "create_directory"
             /\ rec.op = "create_directory" => rec.disposition = "CREATE"
             /\ \A f \in Asked(A) : Before(f, e) /\ ~Before(e, f)
             /\ \A f \in Asked(B) \ Asked(A) : Before(f, e) => f.file < e.file
  <2>1. e.action = n + 1
    BY <1>6
  <2>2. \A f \in Asked(A) : Before(f, e) /\ ~Before(e, f)
    <3>. SUFFICES ASSUME NEW f \in Asked(A) PROVE Before(f, e) /\ ~Before(e, f)
      OBVIOUS
    <3>1. f.action \in 1..n
      BY <1>5
    <3>. QED  BY <2>1, <3>1 DEF Before
  <2>3. \A f \in Asked(B) \ Asked(A) : Before(f, e) => f.file < e.file
    <3>. SUFFICES ASSUME NEW f \in Asked(B) \ Asked(A), Before(f, e) PROVE f.file < e.file
      OBVIOUS
    <3>1. f.action = n + 1
      BY <1>6
    <3>. QED  BY <2>1, <3>1 DEF Before
  <2>. QED  BY <1>2, <1>6, <2>1, <2>2, <2>3 DEF Target, ForDirectory
<1>8. ASSUME rec.op = "create_directory" => rec.disposition = "CREATE", NEW i \in DOMAIN rec.paths
      PROVE  \E e \in Asked(B) \ Asked(A) :
               /\ e.file = i
               /\ \A f \in Asked(B) \ Asked(A) : i = 1 => NotAfter(e, f)
  <2>1. PICK e : e = [action |-> n + 1, file |-> i]
    OBVIOUS
  <2>2. e \in [action : 1..(n + 1), file : {1, 2}] /\ e.action = n + 1 /\ e.file = i
    BY <1>4, <2>1
  <2>3. e \in Asked(B)
    BY <1>2, <1>8, <2>2 DEF Asked
  <2>4. e \notin Asked(A)
    <3>. SUFFICES ASSUME e \in Asked(A) PROVE FALSE
      OBVIOUS
    <3>1. e.action \in 1..n
      BY <1>5
    <3>. QED  BY <2>2, <3>1
  <2>5. ASSUME NEW f \in Asked(B) \ Asked(A), i = 1 PROVE NotAfter(e, f)
    <3>1. f.action = n + 1 /\ f.file \in {1, 2}
      BY <1>6
    <3>2. CASE f.file = 1
      <4>1. f \in [action : 1..(n + 1), file : {1, 2}]
        BY <1>2 DEF Asked
      <4>2. f = e
        BY <2>1, <2>5, <3>1, <3>2, <4>1
      <4>. QED  BY <4>2 DEF NotAfter
    <3>3. CASE f.file = 2
      BY <2>2, <2>5, <3>1, <3>3 DEF NotAfter, Before
    <3>. QED  BY <3>1, <3>2, <3>3
  <2>. QED  BY <2>2, <2>3, <2>4, <2>5
<1>. QED  BY <1>0, <1>3, <1>5, <1>7, <1>8 DEF EffectsGrow

-----------------------------------------------------------------------------
(* The overlay means what the actions mean                                  *)

LEMMA ConcatenationRange ==
  ASSUME NEW T, NEW s \in Seq(T), NEW t \in Seq(T)
  PROVE  Range(s \o t) = Range(s) \cup Range(t)
<1>1. PICK u : u = s \o t
  OBVIOUS
<1>2. PICK m \in Nat, n \in Nat : m = Len(s) /\ n = Len(t)
  BY LenProperties
<1>3. /\ DOMAIN s = 1..m /\ DOMAIN t = 1..n /\ DOMAIN u = 1..(m + n)
      /\ \A i \in 1..(m + n) : u[i] = IF i <= m THEN s[i] ELSE t[i - m]
  <2>1. /\ s \o t \in Seq(T) /\ Len(s \o t) = Len(s) + Len(t)
        /\ \A i \in 1..(Len(s) + Len(t)) :
             (s \o t)[i] = IF i <= Len(s) THEN s[i] ELSE t[i - Len(s)]
    BY ConcatProperties
  <2>. QED  BY <1>1, <1>2, <2>1, LenProperties
<1>4. \A i \in 1..m : i \in 1..(m + n) /\ u[i] = s[i]
  BY <1>3
<1>5. \A k \in 1..n : m + k \in 1..(m + n) /\ u[m + k] = t[k]
  BY <1>3
<1>6. \A i \in 1..(m + n) : i \in 1..m \/ (i - m \in 1..n /\ u[i] = t[i - m])
  BY <1>3
<1>7. \A x : x \in Range(u) <=> \E i \in 1..(m + n) : u[i] = x
  BY <1>3 DEF Range
<1>8. \A x : x \in Range(s) <=> \E i \in 1..m : s[i] = x
  BY <1>3 DEF Range
<1>9. \A x : x \in Range(t) <=> \E i \in 1..n : t[i] = x
  BY <1>3 DEF Range
<1>10. ASSUME NEW x PROVE x \in Range(u) <=> x \in Range(s) \cup Range(t)
  BY <1>4, <1>5, <1>6, <1>7, <1>8, <1>9
<1>11. Range(u) = Range(s) \cup Range(t)
  BY <1>10
<1>. QED  BY <1>1, <1>11

LEMMA FilesGrow ==
  ASSUME OverlayType, NEW seq \in Seq(Path), order' = Loaded(seq)
  PROVE  Files' = Files \cup Range(seq)
<1>1. PICK kept : kept = Kept(seq, Path \ Files)
  OBVIOUS
<1>2. kept \in Seq(Path) /\ Range(kept) = Range(seq) \cap (Path \ Files)
  BY <1>1, KeptElements
<1>3. order \in Seq(Path) /\ order' = order \o kept
  BY <1>1 DEF OverlayType, Loaded
<1>4. Range(order \o kept) = Range(order) \cup Range(kept)
  BY <1>2, <1>3, ConcatenationRange
<1>5. Range(seq) \subseteq Path
  BY DEF Range
<1>. QED  BY <1>2, <1>3, <1>4, <1>5 DEF Files

LEMMA DirectoriesGrow ==
  ASSUME OverlayType, NEW dirs \in Seq(Path),
         created_directories' = created_directories \o dirs
  PROVE  PlannedDirectories' = PlannedDirectories \cup Range(dirs)
<1>1. created_directories \in Seq(Path)
  BY DEF OverlayType
<1>2. Range(created_directories \o dirs) = Range(created_directories) \cup Range(dirs)
  BY <1>1, ConcatenationRange
<1>. QED  BY <1>2 DEF PlannedDirectories

(* What is read is what is there.                                           *)
LEMMA ReadingMeans ==
  ASSUME Base, MeaningOK, NEW p \in Path, Readable(p)
  PROVE  TextOf(p) = world[p] /\ View(p) = world[p] /\ p \notin deleted \cup PlannedDirectories
<1>1. p \notin deleted /\ p \notin PlannedDirectories
  BY DEF Readable
<1>2. View(p) = world[p]
  BY <1>1 DEF MeaningOK
<1>. QED  BY <1>1, <1>2 DEF View, TextOf

(* Making what is above a path, when the overlay has it all.                *)
LEMMA ParentsMean ==
  ASSUME Base, MeaningOK, NEW p \in Path, NEW dirs,
         \A q \in Above(p) :
           /\ q \notin Files
           /\ q \in PlannedDirectories \cup dirs \/ disk[q] = DIRECTORY,
         \A q \in dirs \cap Above(p) : disk[q] = MISSING
  PROVE  /\ WithParents(world, p) \in [Path -> {WithParents(world, p)[q] : q \in Path}]
         /\ \A q \in Above(p) : WithParents(world, p)[q] = DIRECTORY
         /\ \A q \in Path \ Above(p) : WithParents(world, p)[q] = world[q]
<1>1. ASSUME NEW q \in Above(p) PROVE world[q] \in {MISSING, DIRECTORY} /\ q \in Path
  <2>1. q \in Path /\ q \notin Files
    BY ParentsAbove
  <2>2. q \notin deleted
    BY <2>1 DEF Base, OverlayOK
  <2>3. View(q) = world[q]
    BY <2>1, <2>2 DEF MeaningOK
  <2>. QED  BY <2>1, <2>2, <2>3 DEF View
<1>. QED  BY <1>1 DEF WithParents

LEMMA EditMeans ==
  ASSUME Base, MeaningOK, disk' = disk, world \in [Path -> Content],
         NEW a \in Action, a.op = "edit", PlanEdit(a), world' = Perform(world, a)
  PROVE  MeaningOK' /\ world' \in [Path -> Content]
<1>1. PICK p \in Path : p = a.path
  BY ActionType
<1>2. Readable(p)
  BY <1>1 DEF PlanEdit, CanEdit
<1>3. TextOf(p) = world[p] /\ p \notin deleted \cup PlannedDirectories
  BY <1>2, ReadingMeans
<1>4. PICK t \in Edit(a.edit, world[p]) : Update({p}, [q \in {p} |-> t])
  BY <1>1, <1>3 DEF PlanEdit
<1>5. world[p] \in Text
  BY <1>2, <1>3, TextOfReadable
<1>6. t \in Text /\ \A u \in Edit(a.edit, world[p]) : u = t
  BY <1>5, ActionType, PlannerAssumption
<1>7. (CHOOSE u \in Edit(a.edit, world[p]) : TRUE) = t
  BY <1>4, <1>6
<1>8. world' = [world EXCEPT ![p] = t]
  BY <1>1, <1>7 DEF Perform
<1>9. current' = [q \in Path |-> IF q = p THEN t ELSE current[q]]
  BY <1>4 DEF Update
<1>10. <<p>> \in Seq(Path) /\ Range(<<p>>) = {p}
  BY ShortSequences
<1>11. Files' = Files \cup {p} /\ deleted' = deleted /\ PlannedDirectories' = PlannedDirectories
  BY <1>1, <1>10, FilesGrow DEF PlanEdit, Base, PlannedDirectories
<1>12. ASSUME NEW q \in Path \ (deleted \cap PlannedDirectories) PROVE View(q)' = world'[q]
  <2>1. View(q) = world[q]
    BY DEF MeaningOK
  <2>2. CASE q = p
    BY <1>3, <1>8, <1>9, <1>11, <2>2 DEF View
  <2>3. CASE q # p
    BY <1>8, <1>9, <1>11, <2>1, <2>3 DEF View
  <2>. QED  BY <2>2, <2>3
<1>13. world' \in [Path -> Content]
  BY <1>6, <1>8 DEF Content
<1>. QED  BY <1>11, <1>12, <1>13 DEF MeaningOK

LEMMA ApplyDiffMeans ==
  ASSUME Base, MeaningOK, disk' = disk, world \in [Path -> Content],
         NEW a \in Action, a.op = "apply_diff", PlanApplyDiff(a), world' = Perform(world, a)
  PROVE  MeaningOK' /\ world' \in [Path -> Content]
<1>1. PICK p \in Path, r \in Path : p = a.first /\ r = a.second
  BY ActionType
<1>2. Readable(p) /\ Readable(r) /\ p # r
  BY <1>1 DEF PlanApplyDiff, CanApplyDiff
<1>3. \A q \in {p, r} :
        TextOf(q) = world[q] /\ q \notin deleted \cup PlannedDirectories /\ world[q] \in Text
  BY <1>2, ReadingMeans, TextOfReadable
<1>4. PICK t \in [{p, r} -> Text] :
        (\A q \in {p, r} : t[q] \in Edit(a.edit, TextOf(q))) /\ Update({p, r}, t)
  BY <1>1 DEF PlanApplyDiff
<1>5. \A q \in {p, r} : t[q] \in Edit(a.edit, world[q])
  BY <1>3, <1>4
<1>6. \A q \in {p, r} : \A u \in Edit(a.edit, world[q]) : u = t[q]
  BY <1>3, <1>5, ActionType, PlannerAssumption
<1>7. \A q \in {p, r} : (CHOOSE u \in Edit(a.edit, world[q]) : TRUE) = t[q]
  BY <1>5, <1>6
<1>8. world' = [q \in Path |-> IF q \in {p, r} THEN t[q] ELSE world[q]]
  <2>1. world' = [q \in Path |-> IF q \in {p, r}
                                 THEN CHOOSE u \in Edit(a.edit, world[q]) : TRUE ELSE world[q]]
    BY <1>1 DEF Perform
  <2>. QED  BY <1>7, <2>1
<1>9. current' = [q \in Path |-> IF q \in {p, r} THEN t[q] ELSE current[q]]
  BY <1>4 DEF Update
<1>10. <<p, r>> \in Seq(Path) /\ Range(<<p, r>>) = {p, r}
  BY ShortSequences
<1>11. /\ Files' = Files \cup {p, r} /\ deleted' = deleted
       /\ PlannedDirectories' = PlannedDirectories
  BY <1>1, <1>10, FilesGrow DEF PlanApplyDiff, Base, PlannedDirectories
<1>12. ASSUME NEW q \in Path \ (deleted \cap PlannedDirectories) PROVE View(q)' = world'[q]
  <2>1. View(q) = world[q]
    BY DEF MeaningOK
  <2>2. CASE q \in {p, r}
    BY <1>3, <1>8, <1>9, <1>11, <2>2 DEF View
  <2>3. CASE q \notin {p, r}
    BY <1>8, <1>9, <1>11, <2>1, <2>3 DEF View
  <2>. QED  BY <2>2, <2>3
<1>13. world' \in [Path -> Content]
  BY <1>4, <1>8 DEF Content
<1>. QED  BY <1>11, <1>12, <1>13 DEF MeaningOK

LEMMA TransferMeans ==
  ASSUME Base, MeaningOK, disk' = disk, world \in [Path -> Content],
         NEW a \in Action, a.op = "transfer", PlanTransfer(a), world' = Perform(world, a)
  PROVE  MeaningOK' /\ world' \in [Path -> Content]
<1>1. PICK p \in Path, r \in Path : p = a.path /\ r = a.destination
  BY ActionType
<1>2. Readable(p) /\ Readable(r) /\ p # r
  BY <1>1 DEF PlanTransfer, CanTransfer
<1>3. /\ TextOf(p) = world[p] /\ p \notin deleted \cup PlannedDirectories /\ world[p] \in Text
      /\ TextOf(r) = world[r] /\ r \notin deleted \cup PlannedDirectories /\ world[r] \in Text
  BY <1>2, ReadingMeans, TextOfReadable
<1>4. PICK t \in Transfer(a.edit, world[p], world[r]) :
        Update({p, r}, [q \in {p, r} |-> IF q = p THEN t.source ELSE t.destination])
  BY <1>1, <1>3 DEF PlanTransfer
<1>5. /\ t.source \in Text /\ t.destination \in Text
      /\ \A u \in Transfer(a.edit, world[p], world[r]) : u = t
  BY <1>3, <1>4, ActionType, PlannerAssumption
<1>6. (CHOOSE u \in Transfer(a.edit, world[p], world[r]) : TRUE) = t
  BY <1>4, <1>5
<1>7. world' = [world EXCEPT ![p] = t.source, ![r] = t.destination]
  BY <1>1, <1>6 DEF Perform
<1>8. current' = [q \in Path |-> IF q = p THEN t.source
                                 ELSE IF q = r THEN t.destination ELSE current[q]]
  BY <1>2, <1>4 DEF Update
<1>9. <<p, r>> \in Seq(Path) /\ Range(<<p, r>>) = {p, r}
  BY ShortSequences
<1>10. /\ Files' = Files \cup {p, r} /\ deleted' = deleted
       /\ PlannedDirectories' = PlannedDirectories
  BY <1>1, <1>9, FilesGrow DEF PlanTransfer, Base, PlannedDirectories
<1>11. ASSUME NEW q \in Path \ (deleted \cap PlannedDirectories) PROVE View(q)' = world'[q]
  <2>1. View(q) = world[q]
    BY DEF MeaningOK
  <2>2. CASE q = p
    BY <1>2, <1>3, <1>7, <1>8, <1>10, <2>2 DEF View
  <2>3. CASE q = r
    BY <1>2, <1>3, <1>7, <1>8, <1>10, <2>3 DEF View
  <2>4. CASE q # p /\ q # r
    BY <1>7, <1>8, <1>10, <2>1, <2>4 DEF View
  <2>. QED  BY <2>2, <2>3, <2>4
<1>12. world' \in [Path -> Content]
  BY <1>5, <1>7 DEF Content
<1>. QED  BY <1>10, <1>11, <1>12 DEF MeaningOK

LEMMA CreateDirectoryMeans ==
  ASSUME Base, MeaningOK, disk' = disk, world \in [Path -> Content],
         NEW a \in Action, a.op = "create_directory", PlanCreateDirectory(a),
         world' = Perform(world, a)
  PROVE  MeaningOK' /\ world' \in [Path -> Content]
<1>1. PICK p \in Path : p = a.path
  BY ActionType
<1>2. /\ Resolves(p) /\ NoFileAbove(p)
      /\ \/ VirtualKind(p) = DIRECTORY
         \/ VirtualKind(p) = MISSING /\ ParentsFit(p)
  BY <1>1 DEF PlanCreateDirectory, CanCreateDirectory
<1>3. deleted' = deleted /\ order' = order /\ current' = current /\ Files' = Files
  BY DEF PlanCreateDirectory, Files
<1>4. deleted \subseteq Files
  BY DEF Base, OverlayOK
<1>5. world' = [WithParents(world, p) EXCEPT ![p] = DIRECTORY]
  BY <1>1 DEF Perform
<1>6. PICK dirs \in Seq(Path) :
        /\ PlannedDirectories' = PlannedDirectories \cup Range(dirs)
        /\ Range(dirs) \subseteq Above(p) \cup {p}
        /\ \A q \in Above(p) :
             /\ q \notin Files
             /\ q \in PlannedDirectories \cup Range(dirs) \/ disk[q] = DIRECTORY
        /\ \A q \in Range(dirs) \cap Above(p) : disk[q] = MISSING
        /\ \/ p \in PlannedDirectories \cup Range(dirs)
           \/ disk[p] = DIRECTORY /\ p \notin deleted
        /\ p \in Files => p \in deleted
  <2>1. CASE VirtualKind(p) # MISSING
    <3>1. p \notin deleted /\ p \notin Files /\ (p \in PlannedDirectories \/ disk[p] = DIRECTORY)
      BY <1>2, <2>1, Kinds DEF VirtualKind
    <3>2. \A q \in Above(p) :
            q \notin Files /\ (q \in PlannedDirectories \/ disk[q] = DIRECTORY)
      <4>1. \A q \in Above(p) : q \notin Files
        BY <1>2 DEF NoFileAbove
      <4>2. CASE p \in PlannedDirectories
        BY <4>1, <4>2 DEF Base, DiskOK
      <4>3. CASE disk[p] = DIRECTORY
        BY <4>1, <4>3, Kinds DEF Base, DiskOK, WellFormed
      <4>. QED  BY <3>1, <4>2, <4>3
    <3>3. created_directories' = created_directories
      BY <1>1, <2>1 DEF PlanCreateDirectory
    <3>4. PlannedDirectories' = PlannedDirectories
      BY <3>3 DEF PlannedDirectories
    <3>5. <<>> \in Seq(Path) /\ Range(<<>>) = {}
      BY ShortSequences
    <3>. QED  BY <3>1, <3>2, <3>4, <3>5
  <2>2. CASE VirtualKind(p) = MISSING
    <3>1. PICK up : up = MissingParents(p)
      OBVIOUS
    <3>2. PICK own : own = Kept(<<p>>, Path \ PlannedDirectories)
      OBVIOUS
    <3>3. ParentsFit(p)
      BY <1>2, <2>2, Kinds
    <3>4. /\ up \in Seq(Path \ PlannedDirectories)
          /\ Range(up) \subseteq Above(p)
          /\ \A q \in Range(up) : disk[q] = MISSING /\ q \notin Files
          /\ \A q \in Above(p) :
               /\ q \notin Files
               /\ q \in PlannedDirectories \cup Range(up) \/ disk[q] = DIRECTORY
      BY <3>1, <3>3, MissingParentsFacts DEF Base
    <3>5. <<p>> \in Seq(Path) /\ Range(<<p>>) = {p}
      BY ShortSequences
    <3>6. own \in Seq(Path) /\ Range(own) = {p} \ PlannedDirectories
      <4>1. own \in Seq(Path) /\ Range(own) = Range(<<p>>) \cap (Path \ PlannedDirectories)
        BY <3>2, <3>5, KeptElements
      <4>. QED  BY <3>5, <4>1
    <3>7. up \in Seq(Path)
      BY <3>4
    <3>8. PICK dirs : dirs = up \o own
      OBVIOUS
    <3>9. dirs \in Seq(Path)
      BY <3>6, <3>7, <3>8, ConcatProperties
    <3>10. Range(dirs) = Range(up) \cup ({p} \ PlannedDirectories)
      BY <3>6, <3>7, <3>8, ConcatenationRange
    <3>11. created_directories' = created_directories \o dirs
      <4>1. created_directories' = (created_directories \o up) \o own
        BY <1>1, <2>2, <3>1, <3>2 DEF PlanCreateDirectory
      <4>2. created_directories \in Seq(Path)
        BY DEF Base, OverlayType
      <4>3. (created_directories \o up) \o own = created_directories \o (up \o own)
        BY <3>6, <3>7, <4>2, ConcatAssociative
      <4>. QED  BY <3>8, <4>1, <4>3
    <3>12. PlannedDirectories' = PlannedDirectories \cup Range(dirs)
      BY <3>9, <3>11, DirectoriesGrow DEF Base
    <3>13. p \in Files => p \in deleted
      BY <2>2, Kinds DEF VirtualKind
    <3>14. p \notin Above(p)
      BY ParentsAbove
    <3>. QED  BY <3>4, <3>9, <3>10, <3>12, <3>13, <3>14
  <2>. QED  BY <2>1, <2>2
<1>7. /\ WithParents(world, p) \in [Path -> {WithParents(world, p)[q] : q \in Path}]
      /\ \A q \in Above(p) : WithParents(world, p)[q] = DIRECTORY
      /\ \A q \in Path \ Above(p) : WithParents(world, p)[q] = world[q]
  <2>1. PICK S : S = Range(dirs)
    OBVIOUS
  <2>2. /\ \A q \in Above(p) :
             /\ q \notin Files
             /\ q \in PlannedDirectories \cup S \/ disk[q] = DIRECTORY
        /\ \A q \in S \cap Above(p) : disk[q] = MISSING
    BY <1>6, <2>1
  <2>. QED  BY <2>2, ParentsMean
<1>8. /\ world'[p] = DIRECTORY
      /\ \A q \in Above(p) : world'[q] = DIRECTORY
      /\ \A q \in Path \ (Above(p) \cup {p}) : world'[q] = world[q]
      /\ world' \in [Path -> Content]
  <2>1. p \notin Above(p) /\ Above(p) \subseteq Path
    BY ParentsAbove
  <2>2. world' = [q \in Path |-> IF q = p THEN DIRECTORY ELSE WithParents(world, p)[q]]
    BY <1>5, <1>7
  <2>3. \A q \in Path : WithParents(world, p)[q] \in Content
    BY <1>7 DEF Content
  <2>4. world' \in [Path -> Content]
    BY <2>2, <2>3 DEF Content
  <2>. QED  BY <1>7, <2>1, <2>2, <2>4
<1>9. ASSUME NEW q \in Path \ (deleted' \cap PlannedDirectories') PROVE View(q)' = world'[q]
  <2>1. CASE q = p
    BY <1>3, <1>4, <1>6, <1>8, <2>1 DEF View
  <2>2. CASE q \in Above(p)
    BY <1>3, <1>4, <1>6, <1>8, <2>2 DEF View
  <2>3. CASE q \notin Above(p) \cup {p}
    <3>1. View(q) = world[q]
      BY <1>3, <1>6 DEF MeaningOK
    <3>. QED  BY <1>3, <1>6, <1>8, <2>3, <3>1 DEF View
  <2>. QED  BY <2>1, <2>2, <2>3
<1>. QED  BY <1>8, <1>9 DEF MeaningOK

(* A new file and the directories above it.                                 *)
LEMMA NewFileMeans ==
  ASSUME Base, MeaningOK, disk' = disk, world \in [Path -> Content],
         NEW p \in Path, ParentsFit(p),
         created_directories' = created_directories \o MissingParents(p)
  PROVE  /\ PlannedDirectories \subseteq PlannedDirectories'
         /\ PlannedDirectories' \ PlannedDirectories \subseteq Above(p)
         /\ \A q \in Above(p) :
              /\ q \notin Files
              /\ q \in PlannedDirectories' \/ disk[q] = DIRECTORY
         /\ WithParents(world, p) \in [Path -> {WithParents(world, p)[q] : q \in Path}]
         /\ \A q \in Above(p) : WithParents(world, p)[q] = DIRECTORY
         /\ \A q \in Path \ Above(p) : WithParents(world, p)[q] = world[q]
<1>1. PICK up : up = MissingParents(p)
  OBVIOUS
<1>2. /\ up \in Seq(Path \ PlannedDirectories)
      /\ Range(up) \subseteq Above(p)
      /\ \A q \in Range(up) : disk[q] = MISSING /\ q \notin Files
      /\ \A q \in Above(p) :
           /\ q \notin Files
           /\ q \in PlannedDirectories \cup Range(up) \/ disk[q] = DIRECTORY
  BY <1>1, MissingParentsFacts DEF Base
<1>3. up \in Seq(Path)
  BY <1>2
<1>4. PlannedDirectories' = PlannedDirectories \cup Range(up)
  BY <1>1, <1>3, DirectoriesGrow DEF Base
<1>5. PICK S : S = Range(up)
  OBVIOUS
<1>6. /\ \A q \in Above(p) :
           /\ q \notin Files
           /\ q \in PlannedDirectories \cup S \/ disk[q] = DIRECTORY
      /\ \A q \in S \cap Above(p) : disk[q] = MISSING
  BY <1>2, <1>5
<1>7. /\ WithParents(world, p) \in [Path -> {WithParents(world, p)[q] : q \in Path}]
      /\ \A q \in Above(p) : WithParents(world, p)[q] = DIRECTORY
      /\ \A q \in Path \ Above(p) : WithParents(world, p)[q] = world[q]
  BY <1>6, ParentsMean
<1>. QED  BY <1>2, <1>4, <1>7

LEMMA CreateFileMeans ==
  ASSUME Base, MeaningOK, disk' = disk, world \in [Path -> Content],
         NEW a \in Action, a.op = "create_file", PlanCreateFile(a),
         world' = Perform(world, a)
  PROVE  MeaningOK' /\ world' \in [Path -> Content]
<1>1. PICK p \in Path : p = a.path
  BY ActionType
<1>2. /\ p \notin deleted /\ ParentsFit(p)
      /\ created_directories' = created_directories \o MissingParents(p)
      /\ order' = Loaded(<<p>>) /\ deleted' = deleted
  BY <1>1 DEF PlanCreateFile, CanCreateFile
<1>3. <<p>> \in Seq(Path) /\ Range(<<p>>) = {p}
  BY ShortSequences
<1>4. Files' = Files \cup {p}
  BY <1>2, <1>3, FilesGrow DEF Base
<1>5. /\ PlannedDirectories \subseteq PlannedDirectories'
      /\ PlannedDirectories' \ PlannedDirectories \subseteq Above(p)
      /\ \A q \in Above(p) :
           /\ q \notin Files
           /\ q \in PlannedDirectories' \/ disk[q] = DIRECTORY
      /\ WithParents(world, p) \in [Path -> {WithParents(world, p)[q] : q \in Path}]
      /\ \A q \in Above(p) : WithParents(world, p)[q] = DIRECTORY
      /\ \A q \in Path \ Above(p) : WithParents(world, p)[q] = world[q]
  BY <1>2, NewFileMeans
<1>6. current' = [q \in Path |-> IF q = p THEN a.text ELSE current[q]]
  BY <1>1 DEF PlanCreateFile, Update
<1>7. a.text \in Text
  BY ActionType
<1>8. world' = [q \in Path |-> IF q = p THEN a.text ELSE WithParents(world, p)[q]]
  BY <1>1, <1>5 DEF Perform
<1>9. p \notin Above(p) /\ Above(p) \subseteq Path
  BY ParentsAbove
<1>10. world' \in [Path -> Content]
  <2>1. \A q \in Path : WithParents(world, p)[q] \in Content
    BY <1>5 DEF Content
  <2>. QED  BY <1>7, <1>8, <2>1 DEF Content
<1>11. deleted \subseteq Files
  BY DEF Base, OverlayOK
<1>12. ASSUME NEW q \in Path \ (deleted' \cap PlannedDirectories') PROVE View(q)' = world'[q]
  <2>1. CASE q = p
    BY <1>2, <1>4, <1>6, <1>8, <2>1 DEF View
  <2>2. CASE q \in Above(p)
    <3>1. q # p /\ q \notin Files' /\ q \notin deleted'
      BY <1>2, <1>4, <1>5, <1>9, <1>11, <2>2
    <3>2. world'[q] = DIRECTORY
      BY <1>5, <1>8, <2>2, <3>1
    <3>. QED  BY <1>5, <2>2, <3>1, <3>2 DEF View
  <2>3. CASE q \notin Above(p) \cup {p}
    <3>1. View(q) = world[q]
      BY <1>2, <1>5 DEF MeaningOK
    <3>2. world'[q] = world[q]
      BY <1>5, <1>8, <2>3
    <3>. QED  BY <1>2, <1>4, <1>5, <1>6, <2>3, <3>1, <3>2 DEF View
  <2>. QED  BY <2>1, <2>2, <2>3
<1>. QED  BY <1>10, <1>12 DEF MeaningOK

LEMMA FileMoveMeans ==
  ASSUME Base, MeaningOK, disk' = disk, world \in [Path -> Content],
         NEW a \in Action, a.op = "move_file", PlanFileMove(a),
         world' = Perform(world, a)
  PROVE  MeaningOK' /\ world' \in [Path -> Content]
<1>1. PICK s \in Path, p \in Path : s = a.path /\ p = a.destination
  BY ActionType
<1>2. /\ s # p /\ s \notin Files /\ p \notin Files /\ p \notin deleted
      /\ Readable(s) /\ s \notin Above(p) /\ ParentsFit(p)
      /\ created_directories' = created_directories \o MissingParents(p)
      /\ order' = order \o <<s, p>> /\ deleted' = deleted \cup {s}
  BY <1>1 DEF PlanFileMove, CanMoveFile
<1>3. <<s, p>> \in Seq(Path) /\ Range(<<s, p>>) = {s, p}
  BY ShortSequences
<1>4. Files' = Files \cup {s, p}
  <2>1. order \in Seq(Path)
    BY DEF Base, OverlayType
  <2>2. PICK t \in Seq(Path) : t = <<s, p>>
    BY <1>3
  <2>3. Range(order \o t) = Range(order) \cup Range(t)
    BY <2>1, ConcatenationRange
  <2>. QED  BY <1>2, <1>3, <2>2, <2>3 DEF Files
<1>5. /\ PlannedDirectories \subseteq PlannedDirectories'
      /\ PlannedDirectories' \ PlannedDirectories \subseteq Above(p)
      /\ \A q \in Above(p) :
           /\ q \notin Files
           /\ q \in PlannedDirectories' \/ disk[q] = DIRECTORY
      /\ WithParents(world, p) \in [Path -> {WithParents(world, p)[q] : q \in Path}]
      /\ \A q \in Above(p) : WithParents(world, p)[q] = DIRECTORY
      /\ \A q \in Path \ Above(p) : WithParents(world, p)[q] = world[q]
  BY <1>2, NewFileMeans
<1>6. current' = [q \in Path |-> IF q \in {s, p} THEN disk[s] ELSE current[q]]
  BY <1>1 DEF PlanFileMove, Update
<1>7. disk[s] \in Text /\ world[s] = disk[s]
  BY <1>2, ReadingMeans DEF Readable, TextOf
<1>8. world' = [q \in Path |-> IF q = s THEN MISSING
                               ELSE IF q = p THEN disk[s] ELSE WithParents(world, p)[q]]
  <2>1. world' = [WithParents(world, p) EXCEPT ![p] = world[s], ![s] = MISSING]
    BY <1>1 DEF Perform
  <2>. QED  BY <1>2, <1>5, <1>7, <2>1
<1>9. p \notin Above(p) /\ Above(p) \subseteq Path
  BY ParentsAbove
<1>10. world' \in [Path -> Content]
  <2>1. \A q \in Path : WithParents(world, p)[q] \in Content
    BY <1>5 DEF Content
  <2>. QED  BY <1>7, <1>8, <2>1 DEF Content
<1>11. deleted \subseteq Files
  BY DEF Base, OverlayOK
<1>12. ASSUME NEW q \in Path \ (deleted' \cap PlannedDirectories') PROVE View(q)' = world'[q]
  <2>1. CASE q = p
    BY <1>2, <1>4, <1>6, <1>8, <2>1 DEF View
  <2>2. CASE q = s
    BY <1>2, <1>8, <2>2 DEF View
  <2>3. CASE q \in Above(p)
    <3>1. q # p /\ q # s /\ q \notin Files' /\ q \notin deleted'
      BY <1>2, <1>4, <1>5, <1>9, <1>11, <2>3
    <3>2. world'[q] = DIRECTORY
      BY <1>5, <1>8, <2>3, <3>1
    <3>. QED  BY <1>5, <2>3, <3>1, <3>2 DEF View
  <2>4. CASE q \notin Above(p) \cup {p, s}
    <3>1. View(q) = world[q]
      BY <1>2, <1>5 DEF MeaningOK
    <3>2. world'[q] = world[q]
      BY <1>5, <1>8, <2>4
    <3>. QED  BY <1>2, <1>4, <1>5, <1>6, <2>4, <3>1, <3>2 DEF View
  <2>. QED  BY <2>1, <2>2, <2>3, <2>4
<1>. QED  BY <1>10, <1>12 DEF MeaningOK

LEMMA ActionMeans ==
  ASSUME Base, MeaningOK, disk' = disk, world \in [Path -> Content],
         NEW a \in Action, PlanAction(a), world' = Perform(world, a)
  PROVE  MeaningOK' /\ world' \in [Path -> Content]
<1>1. \/ a.op = "create_directory" /\ PlanCreateDirectory(a)
      \/ a.op = "create_file" /\ PlanCreateFile(a)
      \/ a.op = "edit" /\ PlanEdit(a)
      \/ a.op = "apply_diff" /\ PlanApplyDiff(a)
      \/ a.op = "transfer" /\ PlanTransfer(a)
      \/ a.op = "move_file" /\ PlanFileMove(a)
  BY DEF PlanAction
<1>. QED
  BY <1>1, CreateDirectoryMeans, CreateFileMeans, EditMeans, ApplyDiffMeans,
     TransferMeans, FileMoveMeans

LEMMA ActionKeeps ==
  ASSUME Base, MeaningOK, disk' = disk, world \in [Path -> Content],
         NEW a \in Action, PlanAction(a), world' = Perform(world, a)
  PROVE  Base' /\ MeaningOK' /\ world' \in [Path -> Content]
<1>1. PICK files, dirs, rec : Extended(files, dirs, rec)
  BY ActionExtends
<1>2. Base'
  BY <1>1, OverlayStep
<1>. QED  BY <1>2, ActionMeans

-----------------------------------------------------------------------------
(* Plans                                                                    *)

(* What kind of thing a plan is.                                            *)
FileChange == [path : Path, disposition : {"CREATE", "MODIFY", "DELETE"},
               before : FileState, content : FileState]
IsPlan(x) ==
  /\ x.actions \in Seq(PlannedAction)
  /\ x.checks \subseteq Path
  /\ x.file_changes \in Seq(FileChange)
  /\ x.directories_to_create \in Seq(Path)
  /\ x.formatting_targets \subseteq Path
  /\ x.fingerprints \in [Path -> Fingerprint]

Changed == {p \in Files : NetChange(p)}

LEMMA FileChangesFacts ==
  ASSUME OverlayType
  PROVE  /\ FileChanges \in Seq(FileChange)
         /\ DOMAIN FileChanges = DOMAIN Kept(order, Changed)
         /\ \A k \in DOMAIN FileChanges : FileChanges[k] = Change(Kept(order, Changed)[k])
         /\ Range(FileChanges) = {Change(p) : p \in Changed}
         /\ \A p \in Changed : Change(p) \in FileChange /\ Change(p).path = p
<1>1. PICK changed : changed = Kept(order, Changed)
  OBVIOUS
<1>2. order \in Seq(Path) /\ Changed \subseteq Path
  BY PlannedDirectoriesType DEF OverlayType, Changed
<1>3. changed \in Seq(Path) /\ Range(changed) = Range(order) \cap Changed
  BY <1>1, <1>2, KeptElements
<1>4. Range(changed) = Changed
  BY <1>3 DEF Changed, Files
<1>5. FileChanges = [k \in DOMAIN changed |-> Change(changed[k])]
  BY <1>1 DEF FileChanges, Changed
<1>6. ASSUME NEW p \in Changed PROVE Change(p) \in FileChange /\ Change(p).path = p
  <2>1. p \in Path /\ original[p] \in FileState /\ current[p] \in FileState
    BY <1>2 DEF OverlayType
  <2>2. MISSING \in FileState
    BY DEF FileState
  <2>. QED  BY <2>1, <2>2 DEF Change, FileChange
<1>7. PICK n \in Nat : n = Len(changed)
  BY <1>3, LenProperties
<1>8. DOMAIN changed = 1..n
  BY <1>3, <1>7, LenProperties
<1>9. \A k \in 1..n : changed[k] \in Changed
  BY <1>4, <1>8 DEF Range
<1>10. FileChanges \in Seq(FileChange)
  <2>1. \A k \in 1..n : Change(changed[k]) \in FileChange
    BY <1>6, <1>9
  <2>2. FileChanges \in [1..n -> FileChange]
    BY <1>5, <1>8, <2>1
  <2>. QED  BY <2>2
<1>11. Range(FileChanges) = {Change(p) : p \in Changed}
  <2>1. \A p \in Changed : \E k \in DOMAIN changed : changed[k] = p
    BY <1>4 DEF Range
  <2>2. \A k \in DOMAIN changed : changed[k] \in Changed
    BY <1>8, <1>9
  <2>3. Range(FileChanges) = {FileChanges[k] : k \in DOMAIN changed}
    BY <1>5 DEF Range
  <2>4. \A k \in DOMAIN changed : FileChanges[k] = Change(changed[k])
    BY <1>5
  <2>. QED  BY <2>1, <2>2, <2>3, <2>4
<1>. QED  BY <1>1, <1>5, <1>6, <1>10, <1>11

LEMMA PlanIsPlan ==
  ASSUME Base, check \in Check
  PROVE  IsPlan(Plan)
<1>1. OverlayType /\ disk \in [Path -> Content]
  BY DEF Base
<1>2. FileChanges \in Seq(FileChange) /\ \A c \in Range(FileChanges) : c.path \in Path
  <2>1. FileChanges \in Seq(FileChange)
    BY <1>1, FileChangesFacts
  <2>2. \A c \in Range(FileChanges) : c \in FileChange
    BY <2>1 DEF Range
  <2>. QED  BY <2>1, <2>2 DEF FileChange
<1>3. CheckPaths \subseteq Path
  <2>1. RuffPaths \subseteq Path
    BY PlannerAssumption DEF RuffPaths
  <2>2. check.name # "ruff" => check.path \in Path
    BY DEF Check
  <2>. QED  BY <2>1, <2>2 DEF CheckPaths
<1>4. {c.path : c \in {d \in Range(FileChanges) :
                        d.path \in Python /\ d.disposition # "DELETE"}} \subseteq Path
  BY <1>2
<1>5. [p \in Path |-> IF p \in CheckPaths /\ disk[p] # MISSING
                      THEN disk[p] ELSE fingerprints[p]] \in [Path -> Fingerprint]
  BY <1>1 DEF OverlayType, Fingerprint
<1>. QED  BY <1>1, <1>2, <1>3, <1>4, <1>5 DEF Plan, IsPlan, OverlayType

LEMMA NoPlanIsPlan == IsPlan(NoPlan)
<1>1. \A T : <<>> \in Seq(T)
  BY ShortSequences
<1>. QED  BY <1>1 DEF IsPlan, NoPlan, Fingerprint

-----------------------------------------------------------------------------
(* Both plannings                                                           *)

PlanningInv ==
  /\ pc \in PCs /\ next \in Nat \ {0}
  /\ job \in Seq(Action) /\ check \in Check
  /\ disk \in [Path -> Content] /\ world \in [Path -> Content]
  /\ pc \in {"planning", "asking", "revalidating"} => WellFormed(disk)
  /\ IsPlan(plan)
  /\ Planning => Base /\ MeaningOK

EmptyOverlayOverDisk ==
  /\ EmptyOverlay /\ WellFormed(disk) /\ world = disk /\ disk \in [Path -> Content]

LEMMA EmptyIsOK == EmptyOverlayOverDisk => Base /\ MeaningOK
<1>. SUFFICES ASSUME EmptyOverlayOverDisk PROVE Base /\ MeaningOK
  OBVIOUS
<1>. USE DEF EmptyOverlayOverDisk, EmptyOverlay
<1>1. Files = {} /\ PlannedDirectories = {} /\ deleted = {}
  BY ShortSequences DEF Files, PlannedDirectories
<1>2. IsInjective(order) /\ IsInjective(created_directories)
  BY ShortSequences
<1>3. OverlayType
  <2>1. order \in Seq(Path) /\ created_directories \in Seq(Path)
        /\ action_plans \in Seq(PlannedAction)
    BY ShortSequences
  <2>. QED  BY <2>1 DEF OverlayType, FileState, Fingerprint
<1>4. OverlayOK
  BY <1>1, <1>2 DEF OverlayOK
<1>5. DiskOK
  BY <1>1 DEF DiskOK
<1>6. MeaningOK
  BY <1>1 DEF MeaningOK, View
<1>. QED  BY <1>3, <1>4, <1>5, <1>6 DEF Base

LEMMA PlanningInit == Init => PlanningInv
<1>. SUFFICES ASSUME Init PROVE PlanningInv
  OBVIOUS
<1>1. disk \in [Path -> Content] /\ WellFormed(disk) /\ check \in Check
  BY PlannerAssumption DEF Init
<1>2. EmptyOverlayOverDisk
  BY <1>1 DEF Init, EmptyOverlayOverDisk
<1>3. Base /\ MeaningOK
  BY <1>2, EmptyIsOK
<1>4. job \in Seq(Action)
  BY ShortSequences DEF Init
<1>. QED  BY <1>1, <1>3, <1>4, NoPlanIsPlan DEF Init, PlanningInv, PCs

LEMMA ApplyingKeepsDisk ==
  ASSUME PlanningInv, ApplyDirectory \/ ApplyFile
  PROVE  disk' \in [Path -> Content]
<1>1. \A ds : Make(disk, ds) \in [Path -> Content]
  BY DEF Make, PlanningInv, Content
<1>2. CASE ApplyDirectory
  BY <1>1, <1>2 DEF ApplyDirectory
<1>3. CASE ApplyFile
  <2>1. CASE UNCHANGED <<disk, made, written>>
    BY <2>1 DEF PlanningInv
  <2>2. CASE \E c \in ChangesOf(InHand) :
               disk' = [Make(disk, RequiredBy(c)) EXCEPT ![c.path] = c.content]
    <3>1. PICK c \in ChangesOf(InHand) :
            disk' = [Make(disk, RequiredBy(c)) EXCEPT ![c.path] = c.content]
      BY <2>2
    <3>2. c \in Range(plan.file_changes)
      BY DEF ChangesOf
    <3>3. c \in FileChange
      BY <3>2 DEF PlanningInv, IsPlan, Range
    <3>4. c.content \in Content
      BY <3>3 DEF FileChange, FileState, Content
    <3>. QED  BY <1>1, <3>1, <3>4
  <2>. QED  BY <1>3, <2>1, <2>2 DEF ApplyFile
<1>. QED  BY <1>2, <1>3

LEMMA PlanningStep ==
  ASSUME PlanningInv, Next
  PROVE  PlanningInv'
<1>1. ASSUME NEW a \in Action, PlanAction(a), world' = Perform(world, a), Planning,
             UNCHANGED <<disk, check, pc, plan>>, job' \in Seq(Action), next' \in Nat \ {0}
      PROVE  PlanningInv'
  <2>1. Base /\ MeaningOK /\ world \in [Path -> Content] /\ disk' = disk
    BY <1>1 DEF PlanningInv
  <2>2. Base' /\ MeaningOK' /\ world' \in [Path -> Content]
    BY <1>1, <2>1, ActionKeeps
  <2>3. WellFormed(disk)'
    BY <2>1 DEF Base, DiskOK, WellFormed, Above
  <2>4. IsPlan(plan)'
    BY <1>1 DEF PlanningInv, IsPlan
  <2>. QED  BY <1>1, <2>2, <2>3, <2>4 DEF PlanningInv
<1>2. CASE PlanNext
  <2>1. PICK a \in Actions :
          PlanAction(a) /\ job' = Append(job, a) /\ world' = Perform(world, a)
    BY <1>2 DEF PlanNext
  <2>2. a \in Action
    BY PlannerAssumption
  <2>3. Planning /\ UNCHANGED <<disk, check, pc, next, plan>>
    BY <1>2 DEF PlanNext, Planning
  <2>4. job' \in Seq(Action)
    BY <2>1, <2>2, AppendProperties DEF PlanningInv
  <2>5. next' \in Nat \ {0}
    BY <2>3 DEF PlanningInv
  <2>. QED  BY <1>1, <2>1, <2>2, <2>3, <2>4, <2>5
<1>3. CASE ReplanNext
  <2>1. /\ PlanAction(job[next]) /\ world' = Perform(world, job[next])
        /\ next <= Len(job) /\ next' = next + 1
    BY <1>3 DEF ReplanNext
  <2>2. PICK a \in Action : a = job[next]
    <3>1. next \in 1..Len(job)
      BY <2>1 DEF PlanningInv
    <3>. QED  BY <3>1, LenProperties DEF PlanningInv
  <2>3. Planning /\ UNCHANGED <<disk, check, pc, job, plan>>
    BY <1>3 DEF ReplanNext, Planning
  <2>4. job' \in Seq(Action) /\ next' \in Nat \ {0}
    BY <2>1, <2>3 DEF PlanningInv
  <2>. QED  BY <1>1, <2>1, <2>2, <2>3, <2>4
<1>4. CASE CompletePlan
  <2>1. IsPlan(Plan)
    BY <1>4, PlanIsPlan DEF CompletePlan, PlanningInv, Planning
  <2>2. plan' = Plan /\ pc' = "asking" /\ UNCHANGED <<disk, world, job, check, next>>
    BY <1>4 DEF CompletePlan
  <2>3. IsPlan(plan')
    BY <2>1, <2>2
  <2>4. IsPlan(plan)'
    BY <2>3 DEF IsPlan
  <2>5. WellFormed(disk)
    BY <1>4 DEF CompletePlan, PlanningInv
  <2>6. WellFormed(disk)'
    BY <2>2, <2>5 DEF WellFormed, Above
  <2>. QED  BY <2>2, <2>4, <2>6 DEF PlanningInv, PCs, Planning
<1>5. CASE UserEdit
  <2>1. PICK p \in Path, c \in Content :
          disk' = [disk EXCEPT ![p] = c] /\ WellFormed(disk')
    BY <1>5 DEF UserEdit
  <2>2. disk' \in [Path -> Content]
    BY <2>1 DEF PlanningInv
  <2>3. WellFormed(disk)'
    BY <2>1 DEF WellFormed, Above
  <2>4. pc = "asking" /\ UNCHANGED <<job, check, pc, next, plan, world>>
    BY <1>5 DEF UserEdit
  <2>5. IsPlan(plan)'
    BY <2>4 DEF PlanningInv, IsPlan
  <2>. QED  BY <2>2, <2>3, <2>4, <2>5 DEF PlanningInv, Planning
<1>6. CASE Revalidate
  <2>1. UNCHANGED <<disk, job, check, next, plan>> /\ pc' = "revalidating" /\ world' = disk
    BY <1>6 DEF Revalidate
  <2>2. WellFormed(disk) /\ disk \in [Path -> Content]
    BY <1>6 DEF Revalidate, PlanningInv
  <2>3. WellFormed(disk)'
    BY <2>1, <2>2 DEF WellFormed, Above
  <2>4. EmptyOverlayOverDisk'
    BY <1>6, <2>1, <2>2, <2>3 DEF Revalidate, EmptyOverlayOverDisk, EmptyOverlay
  <2>5. EmptyOverlayOverDisk' => Base' /\ MeaningOK'
    BY EmptyIsOK, PTL
  <2>6. IsPlan(plan)'
    BY <2>1 DEF PlanningInv, IsPlan
  <2>. QED  BY <2>1, <2>2, <2>3, <2>4, <2>5, <2>6 DEF PlanningInv, PCs
<1>7. ASSUME UNCHANGED <<disk, job, check, next, plan, world>>,
             pc' \in PCs \ {"planning", "asking", "revalidating"}
      PROVE  PlanningInv'
  <2>1. IsPlan(plan)'
    BY <1>7 DEF PlanningInv, IsPlan
  <2>. QED  BY <1>7, <2>1 DEF PlanningInv, Planning
<1>8. CASE PlanningError \/ Decline \/ ReplanFails \/ Accept \/ Stale \/ Finish \/ FinishFails
  <2>1. /\ UNCHANGED <<disk, job, check, next, plan, world>>
        /\ pc' \in PCs \ {"planning", "asking", "revalidating"}
    BY <1>8 DEF PlanningError, Decline, ReplanFails, Accept, Stale, Finish, FinishFails, End, PCs
  <2>. QED  BY <1>7, <2>1
<1>9. CASE ApplyDirectory \/ ApplyFile
  <2>1. /\ UNCHANGED <<job, check, pc, next, plan, world>> /\ pc = "applying"
    BY <1>9 DEF ApplyDirectory, ApplyFile, Applying
  <2>2. disk' \in [Path -> Content]
    BY <1>9, ApplyingKeepsDisk
  <2>3. IsPlan(plan)'
    BY <2>1 DEF PlanningInv, IsPlan
  <2>. QED  BY <2>1, <2>2, <2>3 DEF PlanningInv, Planning
<1>. QED
  BY <1>2, <1>3, <1>4, <1>5, <1>6, <1>8, <1>9 DEF Next

LEMMA PlanningStutter ==
  ASSUME PlanningInv, UNCHANGED vars
  PROVE  PlanningInv'
<1>1. /\ UNCHANGED <<disk, job, check, pc, next, plan, world>> 
      /\ UNCHANGED <<order, original, current, deleted, created_directories,
                     fingerprints, action_plans>>
  BY DEF vars, planner
<1>2. Files' = Files /\ PlannedDirectories' = PlannedDirectories
  BY <1>1 DEF Files, PlannedDirectories
<1>3. WellFormed(disk)' <=> WellFormed(disk)
  BY <1>1 DEF WellFormed, Above
<1>4. OverlayType' <=> OverlayType
  BY <1>1 DEF OverlayType
<1>5. OverlayOK' <=> OverlayOK
  BY <1>1, <1>2 DEF OverlayOK, NoFileAbove, Above
<1>6. DiskOK' <=> DiskOK
  BY <1>1, <1>2, <1>3 DEF DiskOK, Above
<1>7. MeaningOK' <=> MeaningOK
  BY <1>1, <1>2 DEF MeaningOK, View
<1>8. IsPlan(plan)'
  BY <1>1 DEF PlanningInv, IsPlan
<1>9. Planning' <=> Planning
  BY <1>1 DEF Planning
<1>10. Base' <=> Base
  BY <1>1, <1>4, <1>5, <1>6 DEF Base
<1>. QED  BY <1>1, <1>3, <1>7, <1>8, <1>9, <1>10 DEF PlanningInv

(* What every state of the planner keeps: each variable has its type, the   *)
(* overlay is one over the files on the disk and means what the actions     *)
(* planned so far mean.                                                     *)
THEOREM PlanningIsSound == Spec => []PlanningInv
<1>1. PlanningInv /\ [Next]_vars => PlanningInv'
  BY PlanningStep, PlanningStutter
<1>. QED  BY <1>1, PlanningInit, PTL DEF Spec

(* Planning an action on the overlay means what performing it on the        *)
(* workspace means, for every tree, job and edit of the user: the overlay   *)
(* of planner._Planner never disagrees with the job carried out literally.  *)
THEOREM PlanningMeansActions == Spec => []PlanMeansActions
<1>1. PlanningInv => PlanMeansActions
  BY DEF PlanningInv, Planning, MeaningOK, PlanMeansActions
<1>. QED  BY <1>1, PlanningIsSound, PTL

-----------------------------------------------------------------------------
(* What an approved plan promises                                           *)

PathsOf(changes) == {c.path : c \in Range(changes)}

(* What plan x leads to is workspace w, and it starts from workspace v.     *)
Promises(x, w, v) ==
  LET dirs == Range(x.directories_to_create) IN
  /\ \A c \in Range(x.file_changes) : c.path \notin dirs => w[c.path] = c.content
  /\ \A d \in dirs \ PathsOf(x.file_changes) : w[d] = DIRECTORY
  /\ \A p \in Path \ (PathsOf(x.file_changes) \cup dirs) :
       w[p] = v[p] /\ x.fingerprints[p] \in {UNREAD, v[p]}

(* The plan of a finished planning promises what the actions mean.          *)
LEMMA PlanPromises ==
  ASSUME Base, MeaningOK, check \in Check
  PROVE  Promises(Plan, world, disk)
<1>1. OverlayType
  BY DEF Base
<1>2. /\ Range(FileChanges) = {Change(p) : p \in Changed}
      /\ \A p \in Changed : Change(p) \in FileChange /\ Change(p).path = p
  BY <1>1, FileChangesFacts
<1>3. PathsOf(FileChanges) = Changed
  <2>1. \A p \in Changed : Change(p).path = p
    BY <1>2
  <2>. QED  BY <1>2, <2>1 DEF PathsOf
<1>4. Files \subseteq Path /\ PlannedDirectories \subseteq Path /\ Changed \subseteq Files
  BY <1>1, PlannedDirectoriesType DEF Changed
<1>5. /\ deleted \subseteq Files /\ Files \cap PlannedDirectories \subseteq deleted
      /\ \A p \in Files : original[p] = disk[p]
  BY DEF Base, OverlayOK, DiskOK
<1>6. \A p \in Path \ (deleted \cap PlannedDirectories) : View(p) = world[p]
  BY DEF MeaningOK
<1>7. ASSUME NEW p \in Changed, p \notin PlannedDirectories PROVE world[p] = Change(p).content
  <2>1. View(p) = world[p]
    BY <1>4, <1>6, <1>7
  <2>2. Change(p).content = IF p \in deleted THEN MISSING ELSE current[p]
    BY DEF Change
  <2>. QED  BY <1>4, <1>7, <2>1, <2>2 DEF View
<1>8. ASSUME NEW d \in PlannedDirectories, d \notin Changed PROVE world[d] = DIRECTORY
  <2>1. d \notin deleted
    BY <1>5, <1>8 DEF Changed, NetChange
  <2>2. d \notin Files
    BY <1>5, <2>1
  <2>3. View(d) = world[d]
    BY <1>4, <1>6, <2>1
  <2>. QED  BY <2>1, <2>2, <2>3 DEF View
<1>9. ASSUME NEW p \in Path, p \notin Changed, p \notin PlannedDirectories
      PROVE  world[p] = disk[p]
  <2>1. p \notin deleted
    BY <1>5, <1>9 DEF Changed, NetChange
  <2>2. View(p) = world[p]
    BY <1>6, <1>9
  <2>3. CASE p \in Files
    <3>1. current[p] = original[p]
      BY <1>9, <2>1, <2>3 DEF Changed, NetChange
    <3>. QED  BY <1>5, <2>1, <2>2, <2>3, <3>1 DEF View
  <2>4. CASE p \notin Files
    BY <1>9, <2>1, <2>2, <2>4 DEF View
  <2>. QED  BY <2>3, <2>4
<1>10. ASSUME NEW p \in Path PROVE Plan.fingerprints[p] \in {UNREAD, disk[p]}
  <2>1. fingerprints[p] \in {UNREAD, disk[p]}
    BY DEF Base, DiskOK
  <2>2. Plan.fingerprints[p] \in {disk[p], fingerprints[p]}
    BY DEF Plan
  <2>. QED  BY <2>1, <2>2
<1>11. /\ Plan.file_changes = FileChanges /\ Plan.directories_to_create = created_directories
  BY DEF Plan
<1>12. Range(Plan.directories_to_create) = PlannedDirectories
  BY <1>11 DEF PlannedDirectories
<1>13. \A c \in Range(Plan.file_changes) :
         c.path \notin PlannedDirectories => world[c.path] = c.content
  <2>1. \A c \in Range(FileChanges) : \E p \in Changed : c = Change(p) /\ c.path = p
    BY <1>2
  <2>. QED  BY <1>7, <1>11, <2>1
<1>14. \A d \in PlannedDirectories \ Changed : world[d] = DIRECTORY
  BY <1>8
<1>15. \A p \in Path \ (Changed \cup PlannedDirectories) :
         world[p] = disk[p] /\ Plan.fingerprints[p] \in {UNREAD, disk[p]}
  BY <1>9, <1>10
<1>. QED  BY <1>3, <1>11, <1>12, <1>13, <1>14, <1>15 DEF Promises

(* The tools of the plan are pointed at what is there.                      *)
Served(x, w) ==
  /\ \A p \in x.checks : w[p] # MISSING /\ (check.name = "ruff" => w[p] \in Text)
  /\ \A p \in x.formatting_targets :
       \E c \in Range(x.file_changes) : c.path = p /\ c.content \in Text

LEMMA PlanServes ==
  ASSUME Base, MeaningOK, check \in Check, CheckFits
  PROVE  Served(Plan, world)
<1>1. OverlayType /\ disk \in [Path -> Content]
  BY DEF Base
<1>2. CheckPaths \subseteq Path
  BY PlanIsPlan DEF IsPlan, Plan
<1>3. ASSUME NEW p \in CheckPaths
      PROVE  world[p] # MISSING /\ (check.name = "ruff" => world[p] \in Text)
  <2>1. p \in Path /\ VirtualKind(p) # MISSING /\ (check.name = "ruff" => VirtualKind(p) = "file")
    BY <1>2, <1>3 DEF CheckFits
  <2>2. p \notin deleted
    BY <2>1 DEF VirtualKind
  <2>3. View(p) = world[p]
    BY <2>1, <2>2 DEF MeaningOK
  <2>4. CASE p \in Files
    <3>1. current[p] \in Text
      BY <2>4 DEF Base, OverlayOK
    <3>. QED  BY <2>2, <2>3, <2>4, <3>1, Kinds DEF View
  <2>5. CASE p \notin Files /\ p \in PlannedDirectories
    BY <2>1, <2>2, <2>3, <2>5, Kinds DEF View, VirtualKind
  <2>6. CASE p \notin Files /\ p \notin PlannedDirectories
    <3>1. disk[p] \in Text \cup {MISSING, DIRECTORY}
      BY <1>1, <2>1 DEF Content
    <3>2. VirtualKind(p) = (IF disk[p] \in Text THEN "file" ELSE disk[p]) /\ View(p) = disk[p]
      BY <2>2, <2>6 DEF View, VirtualKind
    <3>. QED  BY <2>1, <2>3, <3>1, <3>2, Kinds
  <2>. QED  BY <2>4, <2>5, <2>6
<1>4. /\ Range(FileChanges) = {Change(p) : p \in Changed}
      /\ \A p \in Changed : Change(p) \in FileChange /\ Change(p).path = p
  BY <1>1, FileChangesFacts
<1>5. ASSUME NEW c \in Range(FileChanges), c.disposition # "DELETE" PROVE c.content \in Text
  <2>1. PICK p \in Changed : c = Change(p)
    BY <1>4
  <2>2. p \notin deleted /\ p \in Files
    BY <1>5, <2>1 DEF Change, Changed
  <2>. QED  BY <2>1, <2>2 DEF Change, Base, OverlayOK
<1>6. /\ Plan.checks = CheckPaths /\ Plan.file_changes = FileChanges
      /\ Plan.formatting_targets = {c.path : c \in {d \in Range(FileChanges) :
                                            d.path \in Python /\ d.disposition # "DELETE"}}
  BY DEF Plan
<1>. QED  BY <1>3, <1>5, <1>6 DEF Served

-----------------------------------------------------------------------------
(* Consent                                                                  *)

(* Paths of a workspace the plan says nothing of.                           *)
Undeclared == Path \ (DeclaredFiles \cup DeclaredDirectories)

ConsentInv ==
  /\ PlanningInv
  /\ pc \in {"asking", "revalidating", "applying", "done"} =>
       \E v \in [Path -> Content] : Promises(plan, preview, v)
  /\ pc \in {"applying", "done"} =>
       \E v \in [Path -> Content] :
         /\ Promises(plan, world, v)
         /\ \A p \in Undeclared : disk[p] = v[p]
         /\ Served(plan, world)
  /\ pc = "done" =>
       /\ \A c \in Range(plan.file_changes) : disk[c.path] = c.content
       /\ \A d \in DeclaredDirectories : disk[d] = DIRECTORY

LEMMA ConsentInit == Init => ConsentInv
<1>. SUFFICES ASSUME Init PROVE ConsentInv
  OBVIOUS
<1>. QED  BY PlanningInit DEF Init, ConsentInv

LEMMA PlanKept ==
  ASSUME UNCHANGED plan
  PROVE  /\ Undeclared' = Undeclared /\ DeclaredDirectories' = DeclaredDirectories
         /\ DeclaredFiles' = DeclaredFiles
  BY DEF Undeclared, DeclaredFiles, DeclaredDirectories

LEMMA DeclaredPaths ==
  /\ DeclaredFiles = PathsOf(plan.file_changes)
  /\ DeclaredDirectories = Range(plan.directories_to_create)
  BY DEF DeclaredFiles, DeclaredDirectories, PathsOf

(* Carrying a plan out touches what the plan declares.                      *)
LEMMA ApplyingTouchesDeclared ==
  ASSUME PlanningInv, ApplyDirectory \/ ApplyFile
  PROVE  \A p \in Undeclared : disk'[p] = disk[p]
<1>. SUFFICES ASSUME NEW p \in Undeclared PROVE disk'[p] = disk[p]
  OBVIOUS
<1>1. p \in Path /\ p \notin DeclaredFiles /\ p \notin DeclaredDirectories
  BY DEF Undeclared
<1>2. disk \in [Path -> Content] /\ IsPlan(plan)
  BY DEF PlanningInv
<1>3. ASSUME NEW ds, Range(ds) \subseteq DeclaredDirectories PROVE Make(disk, ds)[p] = disk[p]
  BY <1>1, <1>3 DEF Make
<1>4. \A q : Range(Required(q)) \subseteq DeclaredDirectories
  <2>. SUFFICES ASSUME NEW q PROVE Range(Required(q)) \subseteq DeclaredDirectories
    OBVIOUS
  <2>1. PICK S : S = (Above(q) \cup {q}) \ Range(made)
    OBVIOUS
  <2>2. plan.directories_to_create \in Seq(Path)
    BY <1>2 DEF IsPlan
  <2>3. Range(Kept(plan.directories_to_create, S)) = DeclaredDirectories \cap S
    BY <2>2, KeptElements DEF DeclaredDirectories
  <2>. QED  BY <2>1, <2>3 DEF Required
<1>5. Range(<<>>) = {}
  BY ShortSequences
<1>6. CASE ApplyDirectory
  <2>1. PICK ds : ds = (IF Here.disposition = "CREATE" THEN Required(InHand) ELSE <<>>)
    OBVIOUS
  <2>2. disk' = Make(disk, ds)
    BY <1>6, <2>1 DEF ApplyDirectory
  <2>3. Range(ds) \subseteq DeclaredDirectories
    BY <1>4, <1>5, <2>1
  <2>. QED  BY <1>3, <2>2, <2>3
<1>7. CASE ApplyFile
  <2>1. CASE UNCHANGED <<disk, made, written>>
    BY <2>1
  <2>2. CASE \E c \in ChangesOf(InHand) :
               disk' = [Make(disk, RequiredBy(c)) EXCEPT ![c.path] = c.content]
    <3>1. PICK c \in ChangesOf(InHand) :
            disk' = [Make(disk, RequiredBy(c)) EXCEPT ![c.path] = c.content]
      BY <2>2
    <3>2. c.path # p
      BY <1>1 DEF ChangesOf, DeclaredFiles
    <3>3. Range(RequiredBy(c)) \subseteq DeclaredDirectories
      BY <1>4, <1>5 DEF RequiredBy
    <3>4. Make(disk, RequiredBy(c))[p] = disk[p]
      BY <1>3, <3>3
    <3>5. Make(disk, RequiredBy(c)) = [q \in Path |-> Make(disk, RequiredBy(c))[q]]
      BY DEF Make
    <3>. QED  BY <1>1, <3>1, <3>2, <3>4, <3>5
  <2>. QED  BY <1>7, <2>1, <2>2 DEF ApplyFile
<1>. QED  BY <1>6, <1>7

LEMMA ConsentStep ==
  ASSUME ConsentInv, Next
  PROVE  ConsentInv'
<1>1. PlanningInv /\ PlanningInv'
  BY PlanningStep DEF ConsentInv
<1>2. CASE pc' \notin {"asking", "revalidating", "applying", "done"}
  BY <1>1, <1>2 DEF ConsentInv
<1>3. CASE CompletePlan
  <2>1. Planning /\ plan' = Plan /\ preview' = world /\ pc' = "asking"
    BY <1>3 DEF CompletePlan, Planning
  <2>2. Promises(Plan, world, disk) /\ disk \in [Path -> Content]
    BY <1>1, <2>1, PlanPromises DEF PlanningInv
  <2>3. \E v \in [Path -> Content] : Promises(plan', preview', v)
    BY <2>1, <2>2
  <2>. QED  BY <1>1, <2>1, <2>3 DEF ConsentInv, Promises
<1>4. ASSUME UNCHANGED <<plan, preview>>, pc \in {"asking", "revalidating"},
             pc' \in {"asking", "revalidating"}
      PROVE  ConsentInv'
  <2>1. \E v \in [Path -> Content] : Promises(plan, preview, v)'
    BY <1>4 DEF ConsentInv, Promises
  <2>. QED  BY <1>1, <1>4, <2>1 DEF ConsentInv
<1>5. CASE UserEdit \/ Revalidate \/ ReplanNext
  <2>1. /\ UNCHANGED <<plan, preview>> /\ pc \in {"asking", "revalidating"}
        /\ pc' \in {"asking", "revalidating"}
    BY <1>5 DEF UserEdit, Revalidate, ReplanNext
  <2>. QED  BY <1>4, <2>1
<1>6. CASE Accept
  <2>1. /\ Planning /\ CheckFits /\ Plan = plan /\ UNCHANGED <<disk, plan, preview, world, check>>
        /\ pc = "revalidating" /\ pc' = "applying"
    BY <1>6 DEF Accept, SamePlan, Planning
  <2>2. Promises(plan, world, disk) /\ Served(plan, world) /\ disk \in [Path -> Content]
    <3>1. Base /\ MeaningOK /\ check \in Check /\ CheckFits /\ disk \in [Path -> Content]
      BY <1>1, <2>1 DEF PlanningInv
    <3>2. Promises(Plan, world, disk) /\ Served(Plan, world)
      BY <3>1, PlanPromises, PlanServes
    <3>. QED  BY <2>1, <3>1, <3>2
  <2>3. PICK v \in [Path -> Content] : v = disk
    BY <2>2
  <2>4. Promises(plan, world, v)' /\ (\A p \in Undeclared' : disk'[p] = v[p])
          /\ Served(plan, world)'
    <3>1. Promises(plan, world, v)'
      BY <2>1, <2>2, <2>3 DEF Promises
    <3>2. Served(plan, world)'
      BY <2>1, <2>2 DEF Served
    <3>. QED  BY <2>1, <2>3, <3>1, <3>2
  <2>5. \E u \in [Path -> Content] : Promises(plan, preview, u)'
    BY <2>1 DEF ConsentInv, Promises
  <2>. QED  BY <1>1, <2>1, <2>4, <2>5 DEF ConsentInv
<1>7. ASSUME UNCHANGED <<plan, preview, world, check>>, pc = "applying",
             pc' \in {"applying", "done"},
             \A p \in Undeclared : disk'[p] = disk[p],
             pc' = "done" =>
               /\ \A c \in Range(plan.file_changes) : disk'[c.path] = c.content
               /\ \A d \in DeclaredDirectories : disk'[d] = DIRECTORY
      PROVE  ConsentInv'
  <2>1. Undeclared' = Undeclared /\ DeclaredDirectories' = DeclaredDirectories
    BY <1>7, PlanKept
  <2>2. \E u \in [Path -> Content] : Promises(plan, preview, u)'
    BY <1>7 DEF ConsentInv, Promises
  <2>3. PICK v \in [Path -> Content] :
          /\ Promises(plan, world, v)
          /\ \A p \in Undeclared : disk[p] = v[p]
          /\ Served(plan, world)
    BY <1>7 DEF ConsentInv
  <2>4. Promises(plan, world, v)'
    BY <1>7, <2>3 DEF Promises
  <2>5. \A p \in Undeclared' : disk'[p] = v[p]
    BY <1>7, <2>1, <2>3
  <2>6. Served(plan, world)'
    BY <1>7, <2>3 DEF Served
  <2>7. \E u \in [Path -> Content] :
          Promises(plan, world, u)' /\ (\A p \in Undeclared' : disk'[p] = u[p])
            /\ Served(plan, world)'
    BY <2>4, <2>5, <2>6
  <2>. QED  BY <1>1, <1>7, <2>1, <2>2, <2>7 DEF ConsentInv
<1>8. CASE ApplyDirectory \/ ApplyFile
  <2>1. UNCHANGED <<plan, preview, world, check, pc>> /\ pc = "applying"
    BY <1>8 DEF ApplyDirectory, ApplyFile, Applying
  <2>2. \A p \in Undeclared : disk'[p] = disk[p]
    BY <1>1, <1>8, ApplyingTouchesDeclared
  <2>. QED  BY <1>7, <2>1, <2>2
<1>9. CASE Finish
  <2>1. UNCHANGED <<plan, preview, world, check, disk>> /\ pc = "applying" /\ pc' = "done"
    BY <1>9 DEF Finish, End
  <2>2. /\ \A c \in Range(plan.file_changes) : disk[c.path] = c.content
        /\ \A d \in DeclaredDirectories : disk[d] = DIRECTORY
    BY <1>9 DEF Finish, DoneAsPlanned, DeclaredDirectories
  <2>. QED  BY <1>7, <2>1, <2>2
<1>10. CASE PlanNext \/ PlanningError \/ Decline \/ ReplanFails \/ Stale \/ FinishFails
  <2>1. pc' \notin {"asking", "revalidating", "applying", "done"}
    BY <1>10 DEF PlanNext, PlanningError, Decline, ReplanFails, Stale, FinishFails, End
  <2>. QED  BY <1>2, <2>1
<1>. QED
  BY <1>3, <1>5, <1>6, <1>8, <1>9, <1>10 DEF Next

LEMMA ConsentStutter ==
  ASSUME ConsentInv, UNCHANGED vars
  PROVE  ConsentInv'
<1>1. PlanningInv'
  BY PlanningStutter DEF ConsentInv
<1>2. UNCHANGED <<plan, preview, world, check, pc, disk>>
  BY DEF vars
<1>3. UNCHANGED <<Undeclared, DeclaredDirectories>>
  BY <1>2, PlanKept
<1>4. \A v : Promises(plan, world, v)' <=> Promises(plan, world, v)
  BY <1>2 DEF Promises
<1>5. \A v : Promises(plan, preview, v)' <=> Promises(plan, preview, v)
  BY <1>2 DEF Promises
<1>6. Served(plan, world)' <=> Served(plan, world)
  BY <1>2 DEF Served
<1>. QED  BY <1>1, <1>2, <1>3, <1>4, <1>5, <1>6 DEF ConsentInv

LEMMA ConsentInvariant == Spec => []ConsentInv
<1>1. ConsentInv /\ [Next]_vars => ConsentInv'
  BY ConsentStep, ConsentStutter
<1>. QED  BY <1>1, ConsentInit, PTL DEF Spec

(* When a run is done, a path that is declared holds what it was to hold.   *)
LEMMA DoneHolds ==
  ASSUME ConsentInv, pc = "done",
         NEW w, NEW v, Promises(plan, w, v),
         NEW p \in DeclaredFiles \cup DeclaredDirectories
  PROVE  p \in Path /\ disk[p] = w[p]
<1>1. /\ \A c \in Range(plan.file_changes) : disk[c.path] = c.content
      /\ \A d \in DeclaredDirectories : disk[d] = DIRECTORY
      /\ IsPlan(plan)
  BY DEF ConsentInv, PlanningInv
<1>2. /\ \A c \in Range(plan.file_changes) : c.path \notin DeclaredDirectories =>
           w[c.path] = c.content
      /\ \A d \in DeclaredDirectories \ DeclaredFiles : w[d] = DIRECTORY
  BY DeclaredPaths DEF Promises
<1>3. \A c \in Range(plan.file_changes) : c.path \in Path /\ c.content # DIRECTORY
  <2>1. \A c \in Range(plan.file_changes) : c \in FileChange
    BY <1>1 DEF IsPlan, Range
  <2>. QED  BY <2>1, Kinds DEF FileChange, FileState
<1>4. DeclaredDirectories \subseteq Path
  BY <1>1 DEF IsPlan, DeclaredDirectories, Range
<1>5. CASE p \in DeclaredFiles
  <2>1. PICK c \in Range(plan.file_changes) : c.path = p
    BY <1>5 DEF DeclaredFiles
  <2>2. p \notin DeclaredDirectories
    BY <1>1, <1>3, <2>1
  <2>. QED  BY <1>1, <1>2, <1>3, <2>1, <2>2
<1>6. CASE p \notin DeclaredFiles
  BY <1>1, <1>2, <1>4, <1>6
<1>. QED  BY <1>5, <1>6

(* Whatever the user does to the files while being asked: a run that goes   *)
(* through leaves every path the approved plan changes or looked at as in   *)
(* the preview that was shown, although the job is planned again before it  *)
(* is carried out.                                                          *)
THEOREM ConsentIsKept == Spec => []ConsentCoversTheResult
<1>1. ConsentInv => ConsentCoversTheResult
  <2>. SUFFICES ASSUME ConsentInv, pc = "done", NEW p \in Path
                PROVE  \/ disk[p] = preview[p]
                       \/ /\ plan.fingerprints[p] = UNREAD
                          /\ p \notin DeclaredFiles \cup DeclaredDirectories
    BY DEF ConsentCoversTheResult
  <2>1. PICK v \in [Path -> Content] : Promises(plan, preview, v)
    BY DEF ConsentInv
  <2>2. PICK u \in [Path -> Content] :
          Promises(plan, world, u) /\ \A q \in Undeclared : disk[q] = u[q]
    BY DEF ConsentInv
  <2>3. CASE p \in DeclaredFiles \cup DeclaredDirectories
    BY <2>1, <2>3, DoneHolds
  <2>4. CASE p \in Undeclared
    <3>1. /\ preview[p] = v[p] /\ plan.fingerprints[p] \in {UNREAD, v[p]}
          /\ plan.fingerprints[p] \in {UNREAD, u[p]}
      BY <2>1, <2>2, <2>4, DeclaredPaths DEF Promises, Undeclared
    <3>2. disk[p] = u[p]
      BY <2>2, <2>4
    <3>. QED  BY <2>4, <3>1, <3>2 DEF Undeclared
  <2>. QED  BY <2>3, <2>4 DEF Undeclared
<1>. QED  BY <1>1, ConsentInvariant, PTL

-----------------------------------------------------------------------------
(* Why everything in the overlay is there, and in which order               *)

LEMMA ExtensionGrowsEffects ==
  ASSUME Base, NEW files, NEW dirs, NEW rec, Extended(files, dirs, rec)
  PROVE  EffectsGrow(action_plans, action_plans', rec)
<1>1. action_plans \in Seq(PlannedAction) /\ action_plans' = Append(action_plans, rec)
  BY DEF Base, OverlayType, Extended
<1>2. rec \in PlannedAction /\ Len(rec.paths) \in {1, 2}
  BY DEF Extended, NewRecord
<1>3. EffectsGrow(action_plans, Append(action_plans, rec), rec)
  BY <1>1, <1>2, AskedGrows
<1>. QED  BY <1>1, <1>3

LEMMA StructureStep ==
  ASSUME Base, StructureOK, disk' = disk,
         NEW files, NEW dirs, NEW rec, Extended(files, dirs, rec)
  PROVE  StructureOK'
<1>1. PICK A, B : A = action_plans /\ B = action_plans'
  OBVIOUS
<1>2. PICK Old, New : Old = Asked(A) /\ New = Asked(B) \ Asked(A)
  OBVIOUS
<1>3. PICK F, D, X : F = Files /\ D = PlannedDirectories /\ X = deleted
  OBVIOUS
<1>4. PICK NF, NF2 : NF = NewFiles /\ NF2 = NewFiles'
  OBVIOUS
<1>5. /\ Range(order') = F \cup Range(files)
      /\ Range(created_directories') = D \cup Range(dirs)
      /\ IsInjective(order') /\ IsInjective(created_directories')
      /\ Range(files) \subseteq Path \ F /\ Range(dirs) \subseteq Path \ D
      /\ files \in Seq(Path) /\ dirs \in Seq(Path)
      /\ order' \in Seq(Path) /\ created_directories' \in Seq(Path)
  BY <1>3, ListsGrow
<1>6. Files' = F \cup Range(files) /\ PlannedDirectories' = D \cup Range(dirs)
  BY <1>5 DEF Files, PlannedDirectories
<1>7. EffectsGrow(A, B, rec)
  BY <1>1, ExtensionGrowsEffects
<1>8. /\ \A e \in Old :
           /\ e \in Asked(B) /\ Target(B, e) = Target(A, e)
           /\ ForDirectory(B, e) <=> ForDirectory(A, e)
      /\ \A e \in New :
           /\ e.file \in DOMAIN rec.paths /\ Target(B, e) = rec.paths[e.file]
           /\ ForDirectory(B, e) <=> rec.op = "create_directory"
           /\ rec.op = "create_directory" => rec.disposition = "CREATE"
           /\ \A f \in Old : Before(f, e) /\ ~Before(e, f)
           /\ \A f \in New : Before(f, e) => f.file < e.file
      /\ (rec.op = "create_directory" => rec.disposition = "CREATE") =>
           \A i \in DOMAIN rec.paths : \E e \in New :
             /\ e.file = i
             /\ \A f \in New : i = 1 => NotAfter(e, f)
      /\ \A k \in DOMAIN B : (k \in DOMAIN A /\ B[k] = A[k]) \/ B[k] = rec
      /\ Asked(B) = Old \cup New
  <2>1. Old \subseteq Asked(B)
    BY <1>2, <1>7 DEF EffectsGrow
  <2>. QED  BY <1>2, <1>7, <2>1 DEF EffectsGrow
<1>9. /\ \A p \in Range(files) : p \notin D \cup Range(dirs)
      /\ \A p \in Range(dirs) : p \in X \/ (p \notin F \cup Range(files) /\ disk[p] = MISSING)
      /\ \A j \in DOMAIN dirs : \A q \in Above(dirs[j]) \cap Range(dirs) :
           \E i \in DOMAIN dirs : i < j /\ dirs[i] = q
  BY <1>3 DEF Extended, NewPlaces
<1>10. /\ Len(rec.paths) \in {1, 2}
       /\ rec.op = "create_directory" =>
            /\ files = <<>> /\ Len(rec.paths) = 1
            /\ rec.disposition # "CREATE" => dirs = <<>>
            /\ rec.disposition = "CREATE" =>
                 /\ rec.paths[1] \in D \cup Range(dirs)
                 /\ Range(dirs) \subseteq Above(rec.paths[1]) \cup {rec.paths[1]}
                 /\ \/ rec.paths[1] \in X
                    \/ disk[rec.paths[1]] = MISSING /\ rec.paths[1] \notin F \cup D
       /\ rec.op # "create_directory" =>
            /\ Range(rec.paths) \subseteq F \cup Range(files)
            /\ Range(files) \subseteq Range(rec.paths)
            /\ \A p \in Range(files) : disk[p] = MISSING => p = rec.paths[1]
            /\ dirs # <<>> =>
                 /\ Range(dirs) \subseteq Above(rec.paths[1])
                 /\ original'[rec.paths[1]] = MISSING
  BY <1>3 DEF Extended, NewRecord
<1>11. /\ X \subseteq deleted' /\ deleted' \ X \subseteq Range(files)
       /\ \A p \in Path : original'[p] = IF p \in Range(files) THEN disk[p] ELSE original[p]
       /\ order' = order \o files /\ created_directories' = created_directories \o dirs
  BY <1>3 DEF Extended
<1>12. /\ X \subseteq F /\ F \cap D \subseteq X
       /\ \A p \in F \cup D : Above(p) \cap F = {}
       /\ \A p \in F \cup D : \A q \in Above(p) \ D : disk[q] = DIRECTORY
       /\ F \subseteq Path /\ D \subseteq Path
  BY <1>3, PlannedDirectoriesType DEF Base, OverlayOK, DiskOK, NoFileAbove
<1>13. Range(<<>>) = {} /\ DOMAIN <<>> = {}
  BY ShortSequences
<1>14. /\ DOMAIN rec.paths \subseteq {1, 2} /\ 1 \in DOMAIN rec.paths
       /\ \A p : p \in Range(rec.paths) <=> \E i \in DOMAIN rec.paths : rec.paths[i] = p
       /\ Len(rec.paths) = 1 => DOMAIN rec.paths = {1}
  <2>1. rec.paths \in Seq(Path)
    BY DEF Extended, NewRecord, PlannedAction
  <2>2. DOMAIN rec.paths = 1..Len(rec.paths)
    BY <2>1, LenProperties
  <2>3. PICK m \in {1, 2} : m = Len(rec.paths)
    BY <1>10
  <2>4. 1..m \subseteq {1, 2} /\ 1 \in 1..m /\ (m = 1 => 1..m = {1})
    OBVIOUS
  <2>5. \A p : p \in Range(rec.paths) <=> \E i \in DOMAIN rec.paths : rec.paths[i] = p
    BY DEF Range
  <2>. QED  BY <2>2, <2>3, <2>4, <2>5
<1>15. /\ \A e \in Old : Target(A, e) \in IF ForDirectory(A, e) THEN D ELSE F
       /\ \A p \in F : \E e \in Old : ~ForDirectory(A, e) /\ Target(A, e) = p
       /\ \A d \in D : \E e \in Old : Needs(A, NF, e, d)
       /\ \A k \in DOMAIN A :
            Len(A[k].paths) \in {1, 2} /\ (A[k].op = "create_directory" => Len(A[k].paths) = 1)
  BY <1>1, <1>2, <1>3, <1>4 DEF StructureOK, AskedOK
<1>16. NF2 \cap F = NF /\ NF2 \subseteq F \cup Range(files)
       /\ \A p \in F \cup Range(files) : p \in NF2 <=> original'[p] = MISSING
  BY <1>3, <1>4, <1>5, <1>6, <1>11, <1>12 DEF NewFiles
<1>17. \A e \in Old : \A d : Needs(B, NF2, e, d) <=> Needs(A, NF, e, d)
  BY <1>8, <1>15, <1>16 DEF Needs
(* What was asked for before needs no directory that is new.                *)
<1>18. ASSUME NEW e \in Old, NEW d \in Range(dirs), Needs(A, NF, e, d) PROVE FALSE
  <2>1. Target(A, e) \in F \cup D /\ d \in Above(Target(A, e)) \cup {Target(A, e)}
    BY <1>15, <1>18 DEF Needs
  <2>2. d \in Above(Target(A, e))
    BY <1>5, <1>15, <1>18 DEF Needs
  <2>3. d \notin F /\ disk[d] = DIRECTORY
    BY <1>5, <1>12, <2>1, <2>2
  <2>. QED  BY <1>9, <1>12, <2>3, Kinds
(* If there is a new directory, the first path of the action needs it.      *)
<1>19. ASSUME Range(dirs) # {}
       PROVE  \E e \in New :
                (\A d \in Range(dirs) : Needs(B, NF2, e, d)) /\ \A f \in New : NotAfter(e, f)
  <2>1. dirs # <<>>
    BY <1>13, <1>19
  <2>2. PICK e \in New : e.file = 1 /\ \A f \in New : NotAfter(e, f)
    BY <1>8, <1>10, <1>14, <2>1
  <2>3. Target(B, e) = rec.paths[1] /\ (ForDirectory(B, e) <=> rec.op = "create_directory")
    BY <1>8, <2>2
  <2>4. CASE rec.op = "create_directory"
    <3>1. Range(dirs) \subseteq Above(rec.paths[1]) \cup {rec.paths[1]}
      BY <1>10, <2>1, <2>4
    <3>. QED  BY <2>2, <2>3, <2>4, <3>1 DEF Needs
  <2>5. CASE rec.op # "create_directory"
    <3>1. rec.paths[1] \in F \cup Range(files)
      BY <1>10, <1>14, <2>5
    <3>2. rec.paths[1] \in NF2
      BY <1>10, <1>16, <2>1, <2>5, <3>1
    <3>3. Range(dirs) \subseteq Above(rec.paths[1])
      BY <1>10, <2>1, <2>5
    <3>. QED  BY <2>2, <2>3, <2>5, <3>2, <3>3 DEF Needs
  <2>. QED  BY <2>4, <2>5
<1>20. ASSUME NEW p \in Range(files)
       PROVE  /\ rec.op # "create_directory"
              /\ \E e \in New : ~ForDirectory(B, e) /\ Target(B, e) = p
  <2>1. files # <<>>
    BY <1>13, <1>20
  <2>2. rec.op # "create_directory"
    BY <1>10, <2>1
  <2>3. PICK i \in DOMAIN rec.paths : rec.paths[i] = p
    BY <1>10, <1>14, <1>20, <2>2
  <2>4. PICK e \in New : e.file = i
    BY <1>8, <2>2
  <2>5. Target(B, e) = rec.paths[i] /\ ~ForDirectory(B, e)
    BY <1>8, <2>2, <2>4
  <2>. QED  BY <2>2, <2>3, <2>5
<1>21. AskedOK'
  <2>1. \A k \in DOMAIN B :
          Len(B[k].paths) \in {1, 2} /\ (B[k].op = "create_directory" => Len(B[k].paths) = 1)
    <3>. SUFFICES ASSUME NEW k \in DOMAIN B
                  PROVE  /\ Len(B[k].paths) \in {1, 2}
                         /\ B[k].op = "create_directory" => Len(B[k].paths) = 1
      OBVIOUS
    <3>1. (k \in DOMAIN A /\ B[k] = A[k]) \/ B[k] = rec
      BY <1>8
    <3>. QED  BY <1>10, <1>15, <3>1
  <2>2. ASSUME NEW e \in Old \cup New
        PROVE  Target(B, e) \in
                 IF ForDirectory(B, e) THEN D \cup Range(dirs) ELSE F \cup Range(files)
    <3>1. CASE e \in Old
      BY <1>8, <1>15, <3>1
    <3>2. CASE e \in New /\ rec.op = "create_directory"
      <4>1. rec.disposition = "CREATE" /\ Target(B, e) = rec.paths[e.file] /\ ForDirectory(B, e)
            /\ e.file \in DOMAIN rec.paths
        BY <1>8, <3>2
      <4>2. e.file = 1
        BY <1>10, <1>14, <3>2, <4>1
      <4>. QED  BY <1>10, <3>2, <4>1, <4>2
    <3>3. CASE e \in New /\ rec.op # "create_directory"
      <4>1. Target(B, e) = rec.paths[e.file] /\ ~ForDirectory(B, e) /\ e.file \in DOMAIN rec.paths
        BY <1>8, <3>3
      <4>2. Target(B, e) \in Range(rec.paths)
        BY <1>14, <4>1
      <4>. QED  BY <1>10, <3>3, <4>1, <4>2
    <3>. QED  BY <3>1, <3>2, <3>3
  <2>3. ASSUME NEW p \in F \cup Range(files)
        PROVE  \E e \in Old \cup New : ~ForDirectory(B, e) /\ Target(B, e) = p
    BY <1>8, <1>15, <1>20
  <2>4. ASSUME NEW d \in D \cup Range(dirs)
        PROVE  \E e \in Old \cup New : Needs(B, NF2, e, d)
    <3>1. CASE d \in D
      BY <1>15, <1>17, <3>1
    <3>2. CASE d \in Range(dirs)
      BY <1>19, <3>2
    <3>. QED  BY <3>1, <3>2
  <2>5. Asked(action_plans') = Old \cup New
    BY <1>1, <1>8
  <2>6. \A k \in DOMAIN action_plans' :
          /\ Len(action_plans'[k].paths) \in {1, 2}
          /\ action_plans'[k].op = "create_directory" => Len(action_plans'[k].paths) = 1
    BY <1>1, <2>1
  <2>7. \A e \in Asked(action_plans') :
          Target(action_plans', e) \in IF ForDirectory(action_plans', e)
                                       THEN PlannedDirectories' ELSE Files'
    BY <1>1, <1>6, <2>2, <2>5
  <2>8. \A p \in Files' : \E e \in Asked(action_plans') :
          ~ForDirectory(action_plans', e) /\ Target(action_plans', e) = p
    BY <1>1, <1>6, <2>3, <2>5
  <2>9. \A d \in PlannedDirectories' : \E e \in Asked(action_plans') :
          Needs(action_plans', NewFiles', e, d)
    BY <1>1, <1>4, <1>6, <2>4, <2>5
  <2>. QED  BY <2>6, <2>7, <2>8, <2>9 DEF AskedOK
<1>22. PICK s, t : s = created_directories /\ t = created_directories'
  OBVIOUS
<1>23. /\ Range(s) = D /\ Range(t) = D \cup Range(dirs)
       /\ Ends(s, dirs, t) /\ IsInjective(t)
       /\ \A i \in DOMAIN s : s[i] \in D
       /\ \A l \in DOMAIN dirs : dirs[l] \in Range(dirs)
       /\ \A d \in D : \E i \in DOMAIN s : s[i] = d
  <2>1. s \in Seq(Path) /\ t = s \o dirs
    BY <1>11, <1>22 DEF Base, OverlayType
  <2>2. Ends(s, dirs, t)
    BY <1>5, <2>1, ListEnds
  <2>3. Range(s) = D /\ Range(t) = D \cup Range(dirs) /\ IsInjective(t)
    BY <1>3, <1>5, <1>22 DEF PlannedDirectories
  <2>4. \A l \in DOMAIN dirs : dirs[l] \in Range(dirs)
    BY DEF Range
  <2>5. (\A i \in DOMAIN s : s[i] \in D) /\ \A d \in D : \E i \in DOMAIN s : s[i] = d
    BY <2>3 DEF Range
  <2>. QED  BY <2>2, <2>3, <2>4, <2>5
<1>24. /\ \A j \in DOMAIN s : \A q \in Above(s[j]) \cap D : \E i \in DOMAIN s : i < j /\ s[i] = q
       /\ \A i, j \in DOMAIN s : i < j =>
            \A e \in Old : Needs(A, NF, e, s[j]) =>
              \E f \in Old : NotAfter(f, e) /\ Needs(A, NF, f, s[i])
  BY <1>1, <1>2, <1>3, <1>4, <1>22 DEF StructureOK, DirectoriesInOrder
<1>25. DirectoriesInOrder'
  <2>1. /\ \A i \in DOMAIN s : i \in DOMAIN t /\ t[i] = s[i]
        /\ \A j \in DOMAIN t \ DOMAIN s : \E l \in DOMAIN dirs :
             t[j] = dirs[l] /\ \A k \in DOMAIN dirs : k < l =>
               \E i \in DOMAIN t : i < j /\ t[i] = dirs[k]
        /\ \A i \in DOMAIN s, j \in DOMAIN t \ DOMAIN s : i < j
        /\ \A i, j \in DOMAIN t : (i < j /\ j \in DOMAIN s) => i \in DOMAIN s
    BY <1>23 DEF Ends
  <2>2. ASSUME NEW j \in DOMAIN t, NEW q \in Above(t[j]) \cap (D \cup Range(dirs))
        PROVE  \E i \in DOMAIN t : i < j /\ t[i] = q
    <3>1. CASE j \in DOMAIN s
      <4>1. t[j] = s[j] /\ s[j] \in D
        BY <1>23, <2>1, <3>1
      <4>2. q \in D
        <5>. SUFFICES ASSUME q \notin D PROVE FALSE
          OBVIOUS
        <5>1. disk[q] = DIRECTORY /\ q \notin F
          BY <1>12, <2>2, <4>1
        <5>2. q \in X \/ disk[q] = MISSING
          BY <1>9, <2>2
        <5>. QED  BY <1>12, <5>1, <5>2, Kinds
      <4>3. PICK i \in DOMAIN s : i < j /\ s[i] = q
        BY <1>24, <2>2, <3>1, <4>1, <4>2
      <4>. QED  BY <2>1, <4>3
    <3>2. CASE j \notin DOMAIN s
      <4>1. PICK l \in DOMAIN dirs :
              t[j] = dirs[l] /\ \A k \in DOMAIN dirs : k < l =>
                \E i \in DOMAIN t : i < j /\ t[i] = dirs[k]
        BY <2>1, <3>2
      <4>2. CASE q \in D
        <5>1. PICK i \in DOMAIN s : s[i] = q
          BY <1>23, <4>2
        <5>. QED  BY <2>1, <3>2, <5>1
      <4>3. CASE q \in Range(dirs)
        <5>1. PICK k \in DOMAIN dirs : k < l /\ dirs[k] = q
          BY <1>9, <2>2, <4>1, <4>3
        <5>. QED  BY <4>1, <5>1
      <4>. QED  BY <2>2, <4>2, <4>3
    <3>. QED  BY <3>1, <3>2
  <2>3. ASSUME NEW i \in DOMAIN t, NEW j \in DOMAIN t, i < j,
               NEW e \in Old \cup New, Needs(B, NF2, e, t[j])
        PROVE  \E f \in Old \cup New : NotAfter(f, e) /\ Needs(B, NF2, f, t[i])
    <3>1. CASE e \in Old
      <4>1. Needs(A, NF, e, t[j])
        BY <1>17, <2>3, <3>1
      <4>2. j \in DOMAIN s
        <5>. SUFFICES ASSUME j \notin DOMAIN s PROVE FALSE
          OBVIOUS
        <5>1. t[j] \in Range(dirs)
          BY <1>23, <2>1
        <5>. QED  BY <1>18, <3>1, <4>1, <5>1
      <4>3. i \in DOMAIN s /\ t[i] = s[i] /\ t[j] = s[j]
        BY <2>1, <2>3, <4>2
      <4>4. PICK f \in Old : NotAfter(f, e) /\ Needs(A, NF, f, s[i])
        BY <1>24, <2>3, <3>1, <4>1, <4>2, <4>3
      <4>. QED  BY <1>17, <4>3, <4>4
    <3>2. CASE e \in New /\ i \in DOMAIN s
      <4>1. t[i] \in D
        BY <1>23, <2>1, <3>2
      <4>2. PICK f \in Old : Needs(A, NF, f, t[i])
        BY <1>15, <4>1
      <4>3. Needs(B, NF2, f, t[i]) /\ NotAfter(f, e)
        BY <1>8, <1>17, <3>2, <4>2 DEF NotAfter
      <4>. QED  BY <4>3
    <3>3. CASE e \in New /\ i \notin DOMAIN s
      <4>1. t[i] \in Range(dirs)
        BY <1>23, <2>1, <3>3
      <4>. QED  BY <1>19, <3>3, <4>1
    <3>. QED  BY <3>1, <3>2, <3>3
  <2>4. Asked(action_plans') = Old \cup New
    BY <1>1, <1>8
  <2>5. \A j \in DOMAIN created_directories' :
          \A q \in Above(created_directories'[j]) \cap PlannedDirectories' :
            \E i \in DOMAIN created_directories' : i < j /\ created_directories'[i] = q
    BY <1>6, <1>22, <2>2
  <2>6. \A i, j \in DOMAIN created_directories' : i < j =>
          \A e \in Asked(action_plans') :
            Needs(action_plans', NewFiles', e, created_directories'[j]) =>
              \E f \in Asked(action_plans') :
                NotAfter(f, e) /\ Needs(action_plans', NewFiles', f, created_directories'[i])
    BY <1>1, <1>4, <1>22, <2>3, <2>4
  <2>. QED  BY <2>5, <2>6 DEF DirectoriesInOrder, Above
<1>26. FilesInOrder'
  <2>1. PICK o, u : o = order /\ u = order'
    OBVIOUS
  <2>2. /\ Range(o) = F /\ Range(u) = F \cup Range(files) /\ Ends(o, files, u) /\ IsInjective(u)
        /\ \A i \in DOMAIN o : o[i] \in F
        /\ \A l \in DOMAIN files : files[l] \in Range(files)
    <3>1. o \in Seq(Path) /\ u = o \o files
      BY <1>11, <2>1 DEF Base, OverlayType
    <3>2. Ends(o, files, u)
      BY <1>5, <3>1, ListEnds
    <3>3. Range(o) = F /\ Range(u) = F \cup Range(files) /\ IsInjective(u)
      BY <1>3, <1>5, <2>1 DEF Files
    <3>4. (\A l \in DOMAIN files : files[l] \in Range(files)) /\ \A i \in DOMAIN o : o[i] \in F
      BY <3>3 DEF Range
    <3>. QED  BY <3>2, <3>3, <3>4
  <2>3. /\ \A i \in DOMAIN o : i \in DOMAIN u /\ u[i] = o[i]
        /\ \A j \in DOMAIN u \ DOMAIN o : \E l \in DOMAIN files : u[j] = files[l]
        /\ \A i, j \in DOMAIN u : (i < j /\ j \in DOMAIN o) => i \in DOMAIN o
        /\ DOMAIN u \subseteq Nat
    <3>1. u \in Seq(Path)
      BY <1>5, <2>1
    <3>2. DOMAIN u \subseteq Nat
      BY <3>1, LenProperties
    <3>. QED  BY <2>2, <3>2 DEF Ends
  <2>4. \A i, j \in DOMAIN o : (i < j /\ o[i] \in NF /\ o[j] \in NF) =>
          \A e \in Old : (~ForDirectory(A, e) /\ Target(A, e) = o[j]) =>
            \E f \in Old : Before(f, e) /\ ~ForDirectory(A, f) /\ Target(A, f) = o[i]
    BY <1>1, <1>2, <1>4, <2>1 DEF StructureOK, FilesInOrder
  <2>5. ASSUME NEW i \in DOMAIN u, NEW j \in DOMAIN u, i < j, u[i] \in NF2, u[j] \in NF2,
               NEW e \in Old \cup New, ~ForDirectory(B, e), Target(B, e) = u[j]
        PROVE  \E f \in Old \cup New : Before(f, e) /\ ~ForDirectory(B, f) /\ Target(B, f) = u[i]
    <3>1. CASE e \in Old
      <4>1. ~ForDirectory(A, e) /\ Target(A, e) = u[j] /\ u[j] \in F
        BY <1>8, <1>15, <2>5, <3>1
      <4>2. j \in DOMAIN o
        <5>. SUFFICES ASSUME j \notin DOMAIN o PROVE FALSE
          OBVIOUS
        <5>1. u[j] \in Range(files)
          BY <2>2, <2>3
        <5>. QED  BY <1>5, <4>1, <5>1
      <4>3. i \in DOMAIN o /\ u[i] = o[i] /\ u[j] = o[j] /\ o[i] \in F
        BY <2>2, <2>3, <2>5, <4>2
      <4>4. o[i] \in NF /\ o[j] \in NF
        BY <1>16, <2>5, <4>1, <4>3
      <4>5. PICK f \in Old : Before(f, e) /\ ~ForDirectory(A, f) /\ Target(A, f) = o[i]
        BY <2>4, <2>5, <3>1, <4>1, <4>2, <4>3, <4>4
      <4>. QED  BY <1>8, <4>3, <4>5
    <3>2. CASE e \in New /\ i \in DOMAIN o
      <4>1. u[i] \in F
        BY <2>2, <2>3, <3>2
      <4>2. PICK f \in Old : ~ForDirectory(A, f) /\ Target(A, f) = u[i]
        BY <1>15, <4>1
      <4>. QED  BY <1>8, <3>2, <4>2
    <3>3. CASE e \in New /\ i \notin DOMAIN o
      <4>1. j \notin DOMAIN o
        BY <2>3, <2>5, <3>3
      <4>2. u[i] \in Range(files) /\ u[j] \in Range(files)
        BY <2>2, <2>3, <3>3, <4>1
      <4>3. disk[u[i]] = MISSING /\ disk[u[j]] = MISSING
        BY <1>5, <1>11, <1>16, <2>5, <4>2
      <4>4. rec.op # "create_directory"
        BY <1>20, <4>2
      <4>5. u[i] = u[j]
        BY <1>10, <4>2, <4>3, <4>4
      <4>6. i = j
        BY <2>2, <4>5 DEF IsInjective
      <4>. QED  BY <2>3, <2>5, <4>6
    <3>. QED  BY <3>1, <3>2, <3>3
  <2>6. Asked(action_plans') = Old \cup New
    BY <1>1, <1>8
  <2>7. \A i, j \in DOMAIN order' : (i < j /\ order'[i] \in NewFiles' /\ order'[j] \in NewFiles') =>
          \A e \in Asked(action_plans') :
            (~ForDirectory(action_plans', e) /\ Target(action_plans', e) = order'[j]) =>
              \E f \in Asked(action_plans') :
                /\ Before(f, e)
                /\ ~ForDirectory(action_plans', f) /\ Target(action_plans', f) = order'[i]
    BY <1>1, <1>4, <2>1, <2>5, <2>6
  <2>. QED  BY <2>7 DEF FilesInOrder
<1>27. NothingTooLate'
  <2>1. /\ \A d \in D \cap X, e \in Old : Needs(A, NF, e, d) =>
             \E f \in Old : Before(f, e) /\ ~ForDirectory(A, f) /\ Target(A, f) = d
        /\ \A e, f \in Old : (ForDirectory(A, f) /\ Before(e, f)) =>
             /\ Target(A, f) \notin Above(Target(A, e))
             /\ Target(A, f) = Target(A, e) => Target(A, f) \in X
    BY <1>1, <1>2, <1>3, <1>4 DEF StructureOK, NothingTooLate
  <2>2. ASSUME NEW d \in (D \cup Range(dirs)) \cap deleted', NEW e \in Old \cup New,
               Needs(B, NF2, e, d)
        PROVE  \E f \in Old \cup New : Before(f, e) /\ ~ForDirectory(B, f) /\ Target(B, f) = d
    <3>1. d \in X
      BY <1>9, <1>11, <2>2
    <3>2. CASE e \in New
      <4>1. PICK f \in Old : ~ForDirectory(A, f) /\ Target(A, f) = d
        BY <1>12, <1>15, <3>1
      <4>. QED  BY <1>8, <3>2, <4>1
    <3>3. CASE e \in Old
      <4>1. Needs(A, NF, e, d)
        BY <1>17, <2>2, <3>3
      <4>2. d \in D
        BY <1>18, <2>2, <3>3, <4>1
      <4>3. PICK f \in Old : Before(f, e) /\ ~ForDirectory(A, f) /\ Target(A, f) = d
        BY <2>1, <3>1, <3>3, <4>1, <4>2
      <4>. QED  BY <1>8, <4>3
    <3>. QED  BY <3>2, <3>3
  <2>3. ASSUME NEW e \in Old \cup New, NEW f \in Old \cup New, ForDirectory(B, f), Before(e, f)
        PROVE  /\ Target(B, f) \notin Above(Target(B, e))
               /\ Target(B, f) = Target(B, e) => Target(B, f) \in deleted'
    <3>1. CASE e \in Old /\ f \in Old
      BY <1>8, <1>11, <2>1, <2>3, <3>1
    <3>2. CASE e \in New /\ f \in Old
      BY <1>8, <2>3, <3>2
    <3>3. CASE f \in New
      <4>1. rec.op = "create_directory" /\ rec.disposition = "CREATE"
            /\ Target(B, f) = rec.paths[f.file] /\ f.file \in DOMAIN rec.paths
        BY <1>8, <2>3, <3>3
      <4>2. f.file = 1 /\ DOMAIN rec.paths = {1}
        BY <1>10, <1>14, <4>1
      <4>3. e \in Old
        <5>. SUFFICES ASSUME e \in New PROVE FALSE
          OBVIOUS
        <5>1. e.file \in DOMAIN rec.paths /\ e.file < f.file
          BY <1>8, <2>3, <3>3
        <5>2. e.file = 1
          BY <4>2, <5>1
        <5>. QED  BY <4>2, <5>1, <5>2
      <4>4. Target(B, e) = Target(A, e) /\ Target(A, e) \in F \cup D
        BY <1>8, <1>15, <4>3
      <4>5. \/ Target(B, f) \in X
            \/ disk[Target(B, f)] = MISSING /\ Target(B, f) \notin F \cup D
        BY <1>10, <4>1, <4>2
      <4>6. Target(B, f) \notin Above(Target(A, e))
        BY <1>12, <4>4, <4>5, Kinds
      <4>7. Target(B, f) = Target(A, e) => Target(B, f) \in X
        BY <4>4, <4>5
      <4>. QED  BY <1>11, <4>4, <4>6, <4>7
    <3>. QED  BY <3>1, <3>2, <3>3
  <2>4. Asked(action_plans') = Old \cup New
    BY <1>1, <1>8
  <2>5. \A d \in PlannedDirectories' \cap deleted', e \in Asked(action_plans') :
          Needs(action_plans', NewFiles', e, d) =>
            \E f \in Asked(action_plans') :
              /\ Before(f, e)
              /\ ~ForDirectory(action_plans', f) /\ Target(action_plans', f) = d
    BY <1>1, <1>4, <1>6, <2>2, <2>4
  <2>6. \A e, f \in Asked(action_plans') :
          (ForDirectory(action_plans', f) /\ Before(e, f)) =>
            /\ Target(action_plans', f) \notin Above(Target(action_plans', e))
            /\ Target(action_plans', f) = Target(action_plans', e) =>
                 Target(action_plans', f) \in deleted'
    BY <1>1, <2>3, <2>4
  <2>. QED  BY <2>5, <2>6 DEF NothingTooLate, Above
<1>. QED  BY <1>21, <1>25, <1>26, <1>27 DEF StructureOK

LEMMA OldFilesPlaces ==
  ASSUME Base
  PROVE  OldFilesHavePlaces
<1>. SUFFICES ASSUME NEW p \in Files, original[p] # MISSING, NEW q \in Above(p),
                     q \in PlannedDirectories
              PROVE  FALSE
  BY DEF OldFilesHavePlaces
<1>1. p \in Path /\ disk[p] # MISSING
  BY PlannedDirectoriesType DEF Base, DiskOK
<1>2. disk[q] = DIRECTORY
  BY <1>1 DEF Base, DiskOK, WellFormed
<1>3. q \notin deleted
  BY DEF Base, OverlayOK, NoFileAbove
<1>. QED  BY <1>2, <1>3, Kinds DEF Base, DiskOK

LEMMA NothingPlannedIsStructured ==
  EmptyOverlayOverDisk => StructureOK
<1>. SUFFICES ASSUME EmptyOverlayOverDisk PROVE StructureOK
  OBVIOUS
<1>1. /\ order = <<>> /\ created_directories = <<>> /\ action_plans = <<>> /\ deleted = {}
      /\ DOMAIN <<>> = {} /\ Range(<<>>) = {}
  BY ShortSequences DEF EmptyOverlayOverDisk, EmptyOverlay
<1>2. Files = {} /\ PlannedDirectories = {}
  BY <1>1 DEF Files, PlannedDirectories
<1>3. Asked(action_plans) = {}
  BY <1>1 DEF Asked
<1>4. AskedOK
  BY <1>1, <1>2, <1>3 DEF AskedOK
<1>5. DirectoriesInOrder /\ FilesInOrder /\ NothingTooLate
  BY <1>1, <1>2, <1>3 DEF DirectoriesInOrder, FilesInOrder, NothingTooLate
<1>. QED  BY <1>4, <1>5 DEF StructureOK

(* A plan is the overlay it was made from.                                  *)
PlanIsOverlay ==
  /\ plan.actions = action_plans
  /\ plan.file_changes = FileChanges
  /\ plan.directories_to_create = created_directories
  /\ OverlayType /\ OverlayOK /\ StructureOK /\ OldFilesHavePlaces

StructureInv ==
  /\ PlanningInv
  /\ Planning => StructureOK
  /\ pc \in {"asking", "applying"} => PlanIsOverlay

LEMMA OverlayKept ==
  ASSUME UNCHANGED <<order, original, current, deleted, created_directories,
                     fingerprints, action_plans>>
  PROVE  /\ StructureOK' <=> StructureOK
         /\ UNCHANGED plan => (PlanIsOverlay' <=> PlanIsOverlay)
<1>1. Files' = Files /\ PlannedDirectories' = PlannedDirectories
  BY DEF Files, PlannedDirectories
<1>2. NewFiles' = NewFiles
  BY <1>1 DEF NewFiles
<1>3. AskedOK' <=> AskedOK
  BY <1>1, <1>2 DEF AskedOK
<1>4. DirectoriesInOrder' <=> DirectoriesInOrder
  BY <1>1, <1>2 DEF DirectoriesInOrder, Above
<1>5. FilesInOrder' <=> FilesInOrder
  BY <1>1, <1>2 DEF FilesInOrder
<1>6. NothingTooLate' <=> NothingTooLate
  BY <1>1, <1>2 DEF NothingTooLate, Above
<1>7. StructureOK' <=> StructureOK
  BY <1>3, <1>4, <1>5, <1>6 DEF StructureOK
<1>8. OverlayType' <=> OverlayType
  BY DEF OverlayType
<1>9. OverlayOK' <=> OverlayOK
  BY <1>1 DEF OverlayOK, NoFileAbove, Above
<1>10. OldFilesHavePlaces' <=> OldFilesHavePlaces
  BY <1>1 DEF OldFilesHavePlaces, Above
<1>11. FileChanges' = FileChanges
  BY <1>1 DEF FileChanges, NetChange, Change, Kept
<1>12. UNCHANGED plan => (PlanIsOverlay' <=> PlanIsOverlay)
  BY <1>7, <1>8, <1>9, <1>10, <1>11 DEF PlanIsOverlay
<1>. QED  BY <1>7, <1>12

LEMMA StructureInit == Init => StructureInv
<1>. SUFFICES ASSUME Init PROVE StructureInv
  OBVIOUS
<1>1. PlanningInv /\ pc = "planning"
  BY PlanningInit DEF Init
<1>2. WellFormed(disk) /\ disk \in [Path -> Content]
  BY PlannerAssumption DEF Init
<1>3. EmptyOverlayOverDisk
  BY <1>2 DEF Init, EmptyOverlayOverDisk
<1>4. StructureOK
  BY <1>3, NothingPlannedIsStructured
<1>. QED  BY <1>1, <1>4 DEF StructureInv

LEMMA StructureInvStep ==
  ASSUME StructureInv, Next
  PROVE  StructureInv'
<1>1. PlanningInv /\ PlanningInv'
  BY PlanningStep DEF StructureInv
<1>2. CASE pc' \in {"refused", "stale", "failed", "done"}
  BY <1>1, <1>2 DEF StructureInv, Planning
<1>3. ASSUME NEW a \in Action, PlanAction(a), Planning, UNCHANGED <<disk, pc>>
      PROVE  StructureInv'
  <2>1. Base /\ StructureOK
    BY <1>1, <1>3 DEF PlanningInv, StructureInv
  <2>2. PICK files, dirs, rec : Extended(files, dirs, rec)
    BY <1>3, <2>1, ActionExtends
  <2>3. StructureOK'
    BY <1>3, <2>1, <2>2, StructureStep
  <2>. QED  BY <1>1, <1>3, <2>3 DEF StructureInv, Planning
<1>4. CASE PlanNext
  <2>1. PICK a \in Actions : PlanAction(a)
    BY <1>4 DEF PlanNext
  <2>2. a \in Action /\ Planning /\ UNCHANGED <<disk, pc>>
    BY <1>4, PlannerAssumption DEF PlanNext, Planning
  <2>. QED  BY <1>3, <2>1, <2>2
<1>5. CASE ReplanNext
  <2>1. PlanAction(job[next]) /\ next <= Len(job)
    BY <1>5 DEF ReplanNext
  <2>2. PICK a \in Action : a = job[next]
    <3>1. next \in 1..Len(job)
      BY <1>1, <2>1 DEF PlanningInv
    <3>. QED  BY <1>1, <3>1, LenProperties DEF PlanningInv
  <2>3. Planning /\ UNCHANGED <<disk, pc>>
    BY <1>5 DEF ReplanNext, Planning
  <2>. QED  BY <1>3, <2>1, <2>2, <2>3
<1>6. CASE CompletePlan
  <2>1. Base /\ StructureOK /\ plan' = Plan /\ pc' = "asking"
    BY <1>1, <1>6 DEF CompletePlan, Planning, PlanningInv, StructureInv
  <2>2. UNCHANGED <<order, original, current, deleted, created_directories,
                    fingerprints, action_plans>>
    BY <1>6 DEF CompletePlan, planner
  <2>3. OldFilesHavePlaces /\ OverlayType /\ OverlayOK
    BY <2>1, OldFilesPlaces DEF Base
  <2>4. Files' = Files /\ PlannedDirectories' = PlannedDirectories
    BY <2>2 DEF Files, PlannedDirectories
  <2>5. StructureOK'
    BY <2>1, <2>2, OverlayKept
  <2>6. OverlayType' /\ OverlayOK' /\ OldFilesHavePlaces'
    BY <2>2, <2>3, <2>4 DEF OverlayType, OverlayOK, OldFilesHavePlaces, NoFileAbove, Above
  <2>7. FileChanges' = FileChanges
    BY <2>2, <2>4 DEF FileChanges, NetChange, Change, Kept
  <2>8. /\ plan'.actions = action_plans' /\ plan'.file_changes = FileChanges'
        /\ plan'.directories_to_create = created_directories'
    BY <2>1, <2>2, <2>7 DEF Plan
  <2>9. PlanIsOverlay'
    BY <2>5, <2>6, <2>8 DEF PlanIsOverlay
  <2>. QED  BY <1>1, <2>1, <2>9 DEF StructureInv, Planning
<1>7. CASE Revalidate
  <2>1. disk' = disk /\ pc' = "revalidating" /\ world' = disk
    BY <1>7 DEF Revalidate
  <2>2. WellFormed(disk) /\ disk \in [Path -> Content]
    BY <1>1, <1>7 DEF Revalidate, PlanningInv
  <2>3. WellFormed(disk)'
    BY <2>1, <2>2 DEF WellFormed, Above
  <2>4. EmptyOverlayOverDisk'
    BY <1>7, <2>1, <2>2, <2>3 DEF Revalidate, EmptyOverlayOverDisk, EmptyOverlay
  <2>5. EmptyOverlayOverDisk' => StructureOK'
    BY NothingPlannedIsStructured, PTL
  <2>. QED  BY <1>1, <2>1, <2>4, <2>5 DEF StructureInv
<1>8. CASE Accept
  <2>1. Base /\ StructureOK /\ plan = Plan /\ UNCHANGED plan /\ pc' = "applying"
    BY <1>1, <1>8 DEF Accept, SamePlan, Planning, PlanningInv, StructureInv
  <2>2. UNCHANGED <<order, original, current, deleted, created_directories,
                    fingerprints, action_plans>>
    BY <1>8 DEF Accept, planner
  <2>3. PlanIsOverlay
    BY <2>1, OldFilesPlaces DEF PlanIsOverlay, Base, Plan
  <2>4. PlanIsOverlay'
    BY <2>1, <2>2, <2>3, OverlayKept
  <2>. QED  BY <1>1, <2>1, <2>4 DEF StructureInv, Planning
<1>9. CASE UserEdit \/ ApplyDirectory \/ ApplyFile
  <2>1. UNCHANGED <<order, original, current, deleted, created_directories,
                    fingerprints, action_plans>>
    BY <1>9 DEF UserEdit, ApplyDirectory, ApplyFile, planner
  <2>2. UNCHANGED <<plan, pc>> /\ pc \in {"asking", "applying"}
    BY <1>9 DEF UserEdit, ApplyDirectory, ApplyFile, Applying
  <2>3. PlanIsOverlay'
    BY <2>1, <2>2, OverlayKept DEF StructureInv
  <2>. QED  BY <1>1, <2>2, <2>3 DEF StructureInv, Planning
<1>10. CASE PlanningError \/ Decline \/ ReplanFails \/ Stale \/ Finish \/ FinishFails
  <2>1. pc' \in {"refused", "stale", "failed", "done"}
    BY <1>10 DEF PlanningError, Decline, ReplanFails, Stale, Finish, FinishFails, End
  <2>. QED  BY <1>2, <2>1
<1>. QED
  BY <1>4, <1>5, <1>6, <1>7, <1>8, <1>9, <1>10 DEF Next

LEMMA StructureInvariant == Spec => []StructureInv
<1>1. StructureInv /\ UNCHANGED vars => StructureInv'
  <2>. SUFFICES ASSUME StructureInv, UNCHANGED vars PROVE StructureInv'
    OBVIOUS
  <2>1. UNCHANGED <<order, original, current, deleted, created_directories,
                    fingerprints, action_plans>> /\ UNCHANGED <<plan, pc>>
    BY DEF vars, planner
  <2>2. PlanningInv'
    BY PlanningStutter DEF StructureInv
  <2>. QED  BY <2>1, <2>2, OverlayKept DEF StructureInv, Planning
<1>2. StructureInv /\ [Next]_vars => StructureInv'
  BY <1>1, StructureInvStep
<1>. QED  BY <1>2, StructureInit, PTL DEF Spec

(* What the parts of a plan are in the overlay.                             *)
LEMMA PlanParts ==
  ASSUME PlanIsOverlay
  PROVE  /\ Effects = Asked(action_plans)
         /\ \A e : PathOf(e) = Target(action_plans, e)
         /\ \A e : MakesDirectory(e) <=> ForDirectory(action_plans, e)
         /\ Range(plan.file_changes) = {Change(p) : p \in Changed}
         /\ \A p \in Changed : Change(p) \in FileChange /\ Change(p).path = p
         /\ DeclaredFiles = Changed /\ DeclaredDirectories = PlannedDirectories
         /\ deleted \subseteq Changed
         /\ NewFiles \subseteq Changed /\ Created = NewFiles
         /\ ReusesVacatedPath <=> deleted \cap PlannedDirectories # {}
<1>1. /\ Effects = Asked(action_plans)
      /\ \A e : PathOf(e) = Target(action_plans, e)
      /\ \A e : MakesDirectory(e) <=> ForDirectory(action_plans, e)
  BY DEF PlanIsOverlay, Effects, Asked, PathOf, Target, MakesDirectory, ForDirectory
<1>2. /\ Range(plan.file_changes) = {Change(p) : p \in Changed}
      /\ \A p \in Changed : Change(p) \in FileChange /\ Change(p).path = p
  BY FileChangesFacts DEF PlanIsOverlay
<1>3. DeclaredFiles = Changed
  BY <1>2 DEF DeclaredFiles
<1>4. DeclaredDirectories = PlannedDirectories
  BY DEF DeclaredDirectories, PlanIsOverlay, PlannedDirectories
<1>5. deleted \subseteq Changed
  BY DEF PlanIsOverlay, OverlayOK, Changed, NetChange
<1>6. NewFiles \subseteq Changed
  BY Kinds DEF NewFiles, PlanIsOverlay, OverlayOK, Changed, NetChange
<1>7. \A p \in Changed : (Change(p).disposition = "DELETE" <=> p \in deleted)
  BY DEF Change
<1>8. \A p \in Changed : (Change(p).disposition = "CREATE" <=> p \in NewFiles)
  <2>1. \A p \in deleted : original[p] # MISSING
    BY Kinds DEF PlanIsOverlay, OverlayOK
  <2>. QED  BY <2>1 DEF Change, NewFiles, Changed
<1>9. Created = NewFiles
  <2>1. \A p : p \in Created <=> \E q \in Changed : Change(q).disposition = "CREATE" /\ p = q
    BY <1>2 DEF Created
  <2>. QED  BY <1>6, <1>8, <2>1
<1>10. ReusesVacatedPath <=> deleted \cap PlannedDirectories # {}
  <2>1. ReusesVacatedPath <=>
          \E p \in Changed : Change(p).disposition = "DELETE" /\ p \in PlannedDirectories
    BY <1>2, <1>4 DEF ReusesVacatedPath
  <2>. QED  BY <1>5, <1>7, <2>1
<1>. QED  BY <1>1, <1>2, <1>3, <1>4, <1>5, <1>6, <1>9, <1>10

(* Every plan is one that Transaction can carry out: a path is declared     *)
(* once, as one thing, a directory is made before what is put into it and   *)
(* because an action needs it, and files that were there need no new        *)
(* directory.  The bridge between the two modules holds for every job.      *)
THEOREM PlansFitTransaction == Spec => []PlanFitsTransaction
<1>1. StructureInv => PlanFitsTransaction
  <2>. SUFFICES ASSUME StructureInv, pc \in {"asking", "applying"}, ~ReusesVacatedPath
                PROVE  PlanFitsTransaction
    BY DEF PlanFitsTransaction
  <2>1. PICK A, changes, dirs : /\ A = action_plans /\ changes = plan.file_changes
                                /\ dirs = plan.directories_to_create
    OBVIOUS
  <2>2. PlanIsOverlay /\ changes = FileChanges /\ dirs = created_directories
    BY <2>1 DEF StructureInv, PlanIsOverlay
  <2>3. /\ Effects = Asked(A)
        /\ \A e : PathOf(e) = Target(A, e)
        /\ \A e : MakesDirectory(e) <=> ForDirectory(A, e)
        /\ Range(changes) = {Change(p) : p \in Changed}
        /\ \A p \in Changed : Change(p) \in FileChange /\ Change(p).path = p
        /\ DeclaredFiles = Changed /\ Range(dirs) = PlannedDirectories
        /\ Created = NewFiles /\ deleted \cap PlannedDirectories = {}
    BY <2>1, <2>2, PlanParts DEF DeclaredDirectories
  <2>4. \A i, j \in DOMAIN changes : changes[i].path = changes[j].path => i = j
    <3>1. PICK kept : kept = Kept(order, Changed)
      OBVIOUS
    <3>2. order \in Seq(Path) /\ IsInjective(order)
      BY <2>2 DEF PlanIsOverlay, OverlayType, OverlayOK
    <3>3. IsInjective(kept) /\ Range(kept) \subseteq Changed
      <4>1. IsInjective(kept)
        BY <3>1, <3>2, KeptOrder
      <4>2. Range(kept) = Range(order) \cap Changed
        BY <3>1, <3>2, KeptElements
      <4>. QED  BY <4>1, <4>2
    <3>4. DOMAIN changes = DOMAIN kept /\ \A k \in DOMAIN changes : changes[k] = Change(kept[k])
      BY <2>2, <3>1, FileChangesFacts DEF PlanIsOverlay
    <3>5. \A k \in DOMAIN changes : changes[k].path = kept[k]
      BY <2>3, <3>3, <3>4 DEF Range
    <3>. QED  BY <3>3, <3>4, <3>5 DEF IsInjective
  <2>5. IsInjective(dirs)
    BY <2>2 DEF PlanIsOverlay, OverlayOK
  <2>6. ASSUME NEW d \in Range(dirs)
        PROVE  \E e \in Effects :
                 \/ PathOf(e) = d
                 \/ d \in Above(PathOf(e)) /\ (MakesDirectory(e) \/ PathOf(e) \in Created)
    <3>1. PICK e \in Asked(A) : Needs(A, NewFiles, e, d)
      BY <2>1, <2>2, <2>3 DEF PlanIsOverlay, StructureOK, AskedOK
    <3>. QED  BY <2>3, <3>1 DEF Needs
  <2>7. ASSUME NEW e \in Effects, NEW f \in Effects, MakesDirectory(f), Before(e, f)
        PROVE  PathOf(f) \notin Above(PathOf(e)) \cup {PathOf(e)}
    <3>1. /\ Target(A, f) \notin Above(Target(A, e))
          /\ Target(A, f) = Target(A, e) => Target(A, f) \in deleted
      BY <2>1, <2>2, <2>3, <2>7 DEF PlanIsOverlay, StructureOK, NothingTooLate
    <3>2. Target(A, f) \in PlannedDirectories
      BY <2>1, <2>2, <2>3, <2>7 DEF PlanIsOverlay, StructureOK, AskedOK
    <3>. QED  BY <2>3, <3>1, <3>2
  <2>8. \A p \in DeclaredFiles : \E e \in Effects : PathOf(e) = p
    <3>1. \A p \in Files : \E e \in Asked(A) : Target(A, e) = p
      BY <2>1, <2>2 DEF PlanIsOverlay, StructureOK, AskedOK
    <3>. QED  BY <2>3, <3>1 DEF Changed
  <2>9. ASSUME NEW c \in Range(changes), c.disposition # "CREATE"
        PROVE  Above(c.path) \cap Range(dirs) = {}
    <3>1. PICK p \in Changed : c = Change(p) /\ c.path = p
      BY <2>3
    <3>2. original[p] # MISSING
      <4>1. p \in deleted => original[p] # MISSING
        BY <2>2, Kinds DEF PlanIsOverlay, OverlayOK
      <4>. QED  BY <2>9, <3>1, <4>1 DEF Change
    <3>. QED  BY <2>2, <2>3, <3>1, <3>2 DEF PlanIsOverlay, OldFilesHavePlaces, Changed
  <2>. QED
    BY <2>1, <2>4, <2>5, <2>6, <2>7, <2>8, <2>9 DEF PlanFitsTransaction
<1>. QED  BY <1>1, StructureInvariant, PTL

-----------------------------------------------------------------------------
(* Carrying a plan out                                                      *)

(* The tree an overlay stands on.                                           *)
StandsOn(v) ==
  /\ \A p \in Files : original[p] = v[p]
  /\ \A p \in PlannedDirectories \ deleted : v[p] = MISSING
  /\ \A p \in Files \cup PlannedDirectories : \A q \in Above(p) \ PlannedDirectories :
       v[q] = DIRECTORY

(* What has been asked for so far.                                          *)
At == [action |-> step, file |-> file]
Over(e) == Before(e, At)
Cursor ==
  /\ step \in 1..(Len(action_plans) + 1) /\ file \in {1, 2}
  /\ step <= Len(action_plans) => file \in DOMAIN action_plans[step].paths
  /\ step = Len(action_plans) + 1 => file = 1

MadeSoFar ==
  {d \in PlannedDirectories : \E e \in Asked(action_plans) :
     Over(e) /\ Needs(action_plans, NewFiles, e, d)}
WrittenSoFar ==
  {p \in Changed : \E e \in Asked(action_plans) :
     Over(e) /\ ~ForDirectory(action_plans, e) /\ Target(action_plans, e) = p}

(* The elements in S of one list are in the order of another.               *)
OrderedLike(s, u, S) ==
  \A i, j \in DOMAIN s : (i < j /\ s[i] \in S /\ s[j] \in S) =>
    \A k, l \in DOMAIN u : (u[k] = s[i] /\ u[l] = s[j]) => k < l

(* The directories and the files of the actions so far are there, in the    *)
(* order of the plan, and nothing else of the tree is touched.              *)
Applied(v) ==
  /\ StandsOn(v)
  /\ made \in Seq(Path) /\ IsInjective(made)
  /\ written \in Seq(Path) /\ IsInjective(written)
  /\ Range(made) = MadeSoFar /\ Range(written) = WrittenSoFar
  /\ OrderedLike(made, created_directories, Path)
  /\ OrderedLike(written, order, NewFiles)
  /\ \A p \in Path :
       disk[p] = IF p \in Range(made) THEN DIRECTORY
                 ELSE IF p \in Range(written) THEN Change(p).content ELSE v[p]

LEMMA OrderedConcat ==
  ASSUME NEW T, NEW S, NEW s \in Seq(T), NEW t \in Seq(T), NEW u \in Seq(T),
         OrderedLike(s, u, S), OrderedLike(t, u, S),
         \A x \in Range(s) \cap S, y \in Range(t) \cap S :
           \A k, l \in DOMAIN u : (u[k] = x /\ u[l] = y) => k < l
  PROVE  OrderedLike(s \o t, u, S)
<1>1. PICK w : w = s \o t
  OBVIOUS
<1>2. PICK m \in Nat, n \in Nat : m = Len(s) /\ n = Len(t)
  BY LenProperties
<1>3. /\ DOMAIN s = 1..m /\ DOMAIN t = 1..n /\ DOMAIN w = 1..(m + n)
      /\ \A i \in 1..(m + n) : w[i] = IF i <= m THEN s[i] ELSE t[i - m]
  <2>1. /\ s \o t \in Seq(T) /\ Len(s \o t) = Len(s) + Len(t)
        /\ \A i \in 1..(Len(s) + Len(t)) :
             (s \o t)[i] = IF i <= Len(s) THEN s[i] ELSE t[i - Len(s)]
    BY ConcatProperties
  <2>. QED  BY <1>1, <1>2, <2>1, LenProperties
<1>4. /\ \A i \in 1..m : s[i] \in Range(s)
      /\ \A i \in 1..n : t[i] \in Range(t)
  BY <1>3 DEF Range
<1>5. SUFFICES ASSUME NEW i \in 1..(m + n), NEW j \in 1..(m + n), i < j, w[i] \in S, w[j] \in S,
                      NEW k \in DOMAIN u, NEW l \in DOMAIN u, u[k] = w[i], u[l] = w[j]
               PROVE  k < l
  BY <1>1, <1>3 DEF OrderedLike
<1>6. CASE j <= m
  <2>1. i \in 1..m /\ j \in 1..m /\ w[i] = s[i] /\ w[j] = s[j]
    BY <1>3, <1>5, <1>6
  <2>. QED  BY <1>3, <1>5, <2>1 DEF OrderedLike
<1>7. CASE i <= m /\ m < j
  <2>1. i \in 1..m /\ j - m \in 1..n /\ w[i] = s[i] /\ w[j] = t[j - m]
    BY <1>3, <1>5, <1>7
  <2>. QED  BY <1>4, <1>5, <2>1
<1>8. CASE m < i
  <2>1. i - m \in 1..n /\ j - m \in 1..n /\ i - m < j - m /\ w[i] = t[i - m] /\ w[j] = t[j - m]
    BY <1>3, <1>5, <1>8
  <2>. QED  BY <1>3, <1>5, <2>1 DEF OrderedLike
<1>. QED  BY <1>5, <1>6, <1>7, <1>8

LEMMA LeastNumber ==
  ASSUME NEW T, T \subseteq Nat, T # {}
  PROVE  \E least \in T : \A n \in T : ~(n < least)
<1>1. \E least \in T : \A n \in T : ~(<<n, least>> \in OpToRel(<, Nat))
  BY NatLessThanWellFounded, WFMin
<1>. QED  BY <1>1 DEF OpToRel

(* Two lists of the same elements in the same order are the same.           *)
LEMMA SameList ==
  ASSUME NEW T, NEW s \in Seq(T), NEW t \in Seq(T), IsInjective(s), IsInjective(t),
         Range(s) = Range(t), OrderedLike(s, t, T)
  PROVE  s = t
<1>1. PICK m \in Nat, n \in Nat : m = Len(s) /\ n = Len(t)
  BY LenProperties
<1>2. /\ DOMAIN s = 1..m /\ DOMAIN t = 1..n
      /\ \A i \in 1..m : s[i] \in T
      /\ \A i \in 1..n : t[i] \in T
  BY <1>1, LenProperties
<1>3. /\ \A i \in 1..m : \E k \in 1..n : t[k] = s[i]
      /\ \A k \in 1..n : \E i \in 1..m : s[i] = t[k]
  BY <1>2 DEF Range
<1>4. /\ \A i, j \in 1..m : s[i] = s[j] => i = j
      /\ \A i, j \in 1..n : t[i] = t[j] => i = j
  BY <1>2 DEF IsInjective
<1>5. \A i, j \in 1..m : i < j => \A k, l \in 1..n : (t[k] = s[i] /\ t[l] = s[j]) => k < l
  BY <1>2 DEF OrderedLike
<1>6. PICK Bad : Bad = {i \in Nat : \/ i \in 1..m /\ (i \notin 1..n \/ s[i] # t[i])
                                    \/ i \in 1..n /\ (i \notin 1..m \/ s[i] # t[i])}
  OBVIOUS
<1>7. Bad = {}
  <2>. SUFFICES ASSUME Bad # {} PROVE FALSE
    OBVIOUS
  <2>1. PICK k \in Bad : \A i \in Bad : ~(i < k)
    <3>1. Bad \subseteq Nat
      BY <1>6
    <3>. QED  BY <3>1, LeastNumber
  <2>2. \A i \in Nat : i < k => ~(i \in Bad)
    BY <2>1
  <2>3. k \in Nat
    BY <1>6
  <2>4. \A i \in 1..m : i < k => i \in 1..n /\ s[i] = t[i]
    BY <1>6, <2>2
  <2>5. \A i \in 1..n : i < k => i \in 1..m /\ s[i] = t[i]
    BY <1>6, <2>2
  <2>6. CASE k \in 1..m
    <3>1. PICK l \in 1..n : t[l] = s[k]
      BY <1>3, <2>6
    <3>2. ~(l < k)
      <4>. SUFFICES ASSUME l < k PROVE FALSE
        OBVIOUS
      <4>1. l \in 1..m /\ s[l] = s[k]
        BY <2>5, <3>1
      <4>. QED  BY <1>4, <2>3, <2>6, <4>1
    <3>3. k \in 1..n
      BY <2>6, <3>2
    <3>4. s[k] # t[k]
      BY <1>6, <2>6, <3>3
    <3>5. PICK i \in 1..m : s[i] = t[k]
      BY <1>3, <3>3
    <3>6. ~(i < k)
      <4>. SUFFICES ASSUME i < k PROVE FALSE
        OBVIOUS
      <4>1. i \in 1..n /\ t[i] = t[k]
        BY <2>4, <3>5
      <4>. QED  BY <1>4, <2>3, <3>3, <4>1
    <3>7. k < i /\ k < l
      <4>1. i # k /\ l # k
        BY <3>1, <3>4, <3>5
      <4>. QED  BY <2>3, <3>2, <3>6, <4>1
    <3>8. l < k
      BY <1>5, <2>6, <3>1, <3>3, <3>5, <3>7
    <3>. QED  BY <3>2, <3>8
  <2>7. CASE k \in 1..n /\ k \notin 1..m
    <3>1. PICK i \in 1..m : s[i] = t[k]
      BY <1>3, <2>7
    <3>2. i < k
      BY <2>7
    <3>3. i \in 1..n /\ t[i] = t[k]
      BY <2>4, <3>1, <3>2
    <3>. QED  BY <1>4, <2>7, <3>2, <3>3
  <2>. QED  BY <1>6, <2>1, <2>6, <2>7
<1>8. \A i \in Nat : i \in 1..m <=> i \in 1..n
  BY <1>6, <1>7
<1>9. m = n
  <2>1. m > 0 => m \in 1..n
    BY <1>8
  <2>2. n > 0 => n \in 1..m
    BY <1>8
  <2>. QED  BY <2>1, <2>2
<1>10. \A i \in 1..m : s[i] = t[i]
  BY <1>6, <1>7
<1>. QED  BY <1>1, <1>2, <1>9, <1>10, SeqEqual

(* What is kept of a list is in its order.                                  *)
LEMMA KeptOrdered ==
  ASSUME NEW T, NEW s \in Seq(T), NEW S, IsInjective(s)
  PROVE  OrderedLike(Kept(s, S), s, T)
<1>1. PICK kept : kept = Kept(s, S)
  OBVIOUS
<1>2. \A i, j \in DOMAIN kept : i < j =>
        \E k, l \in DOMAIN s : k < l /\ s[k] = kept[i] /\ s[l] = kept[j]
  BY <1>1, KeptOrder
<1>. QED  BY <1>1, <1>2 DEF OrderedLike, IsInjective

LEMMA KeptOrderedLike ==
  ASSUME NEW T, NEW s \in Seq(T), NEW S, NEW u \in Seq(T), OrderedLike(s, u, S)
  PROVE  OrderedLike(Kept(s, S), u, T)
<1>1. PICK kept : kept = Kept(s, S)
  OBVIOUS
<1>2. \A i, j \in DOMAIN kept : i < j =>
        \E k, l \in DOMAIN s : k < l /\ s[k] = kept[i] /\ s[l] = kept[j]
  BY <1>1, KeptOrder
<1>3. \A i \in DOMAIN kept : kept[i] \in S
  <2>1. Range(kept) = Range(s) \cap S
    BY <1>1, KeptElements
  <2>. QED  BY <2>1 DEF Range
<1>. QED  BY <1>1, <1>2, <1>3 DEF OrderedLike

(* A run under way.                                                         *)
Midway(v) ==
  /\ PlanIsOverlay /\ Cursor /\ Applied(v)
  /\ v \in [Path -> Content] /\ disk \in [Path -> Content]

(* What an earlier action asked for is there already.                       *)
LEMMA EarlierIsOver ==
  ASSUME PlanIsOverlay, Cursor, NEW e \in Asked(action_plans), NEW f \in Asked(action_plans)
  PROVE  /\ (Over(e) /\ NotAfter(f, e)) => Over(f)
         /\ (e = At /\ Before(f, e)) => Over(f)
<1>1. action_plans \in Seq(PlannedAction)
  BY DEF PlanIsOverlay, OverlayType
<1>2. /\ e.action \in Nat /\ f.action \in Nat
      /\ e.file \in Nat /\ f.file \in Nat
  BY <1>1, LenProperties DEF Asked
<1>3. step \in Nat /\ file \in Nat
  BY <1>1, LenProperties DEF Cursor
<1>. QED  BY <1>2, <1>3 DEF Over, NotAfter, Before, At

(* A directory in the place of a file is made when the file is gone.        *)
LEMMA VacatedBefore ==
  ASSUME PlanIsOverlay, Cursor, NEW d \in PlannedDirectories \cap deleted,
         NEW e \in Asked(action_plans), Over(e) \/ e = At,
         Needs(action_plans, NewFiles, e, d)
  PROVE  d \in WrittenSoFar
<1>1. PICK f \in Asked(action_plans) :
        /\ Before(f, e)
        /\ ~ForDirectory(action_plans, f) /\ Target(action_plans, f) = d
  BY DEF PlanIsOverlay, StructureOK, NothingTooLate
<1>2. Over(f)
  BY <1>1, EarlierIsOver DEF NotAfter
<1>3. d \in Changed
  BY PlanParts
<1>. QED  BY <1>1, <1>2, <1>3 DEF WrittenSoFar

(* Where the sets of paths of a run meet.                                   *)
LEMMA MidwaySets ==
  ASSUME NEW v, Midway(v)
  PROVE  /\ Range(made) = MadeSoFar /\ Range(made) \subseteq PlannedDirectories
         /\ Range(written) = WrittenSoFar /\ Range(written) \subseteq Changed
         /\ Changed \subseteq Files /\ Files \subseteq Path /\ PlannedDirectories \subseteq Path
         /\ Files \cap PlannedDirectories \subseteq deleted
         /\ NewFiles \cap PlannedDirectories = {}
         /\ Range(made) \cap Files \subseteq Range(written)
         /\ \A p \in Files \cup PlannedDirectories : Above(p) \cap Files = {}
<1>. USE DEF Midway
<1>1. Range(made) = MadeSoFar /\ Range(written) = WrittenSoFar
  BY DEF Applied
<1>2. MadeSoFar \subseteq PlannedDirectories /\ WrittenSoFar \subseteq Changed
  BY DEF MadeSoFar, WrittenSoFar
<1>3. Changed \subseteq Files /\ Files \subseteq Path /\ PlannedDirectories \subseteq Path
  BY PlannedDirectoriesType DEF PlanIsOverlay, Changed
<1>4. Files \cap PlannedDirectories \subseteq deleted
  BY DEF PlanIsOverlay, OverlayOK
<1>5. NewFiles \cap PlannedDirectories = {}
  BY <1>4, Kinds DEF PlanIsOverlay, OverlayOK, NewFiles
<1>6. ASSUME NEW p \in MadeSoFar, p \in Files PROVE p \in WrittenSoFar
  <2>1. p \in PlannedDirectories \cap deleted
    BY <1>2, <1>4, <1>6
  <2>2. PICK e \in Asked(action_plans) : Over(e) /\ Needs(action_plans, NewFiles, e, p)
    BY <1>6 DEF MadeSoFar
  <2>. QED  BY <2>1, <2>2, VacatedBefore
<1>7. \A p \in Files \cup PlannedDirectories : Above(p) \cap Files = {}
  BY DEF PlanIsOverlay, OverlayOK, NoFileAbove
<1>. QED  BY <1>1, <1>2, <1>3, <1>4, <1>5, <1>6, <1>7

(* The directories that come next: the ones needed and not yet made.        *)
NextOnes == {d \in PlannedDirectories : Needs(action_plans, NewFiles, At, d)}

LEMMA NextDirectories ==
  ASSUME NEW v, Midway(v), At \in Asked(action_plans), NEW p, p = Target(action_plans, At),
         ForDirectory(action_plans, At) \/ p \in NewFiles,
         NEW ds, ds = Required(p)
  PROVE  /\ ds \in Seq(Path) /\ IsInjective(ds)
         /\ Range(ds) = NextOnes \ Range(made)
         /\ OrderedLike(ds, created_directories, Path)
         /\ p \in Path
<1>1. /\ created_directories \in Seq(Path) /\ IsInjective(created_directories)
      /\ plan.directories_to_create = created_directories
  BY DEF Midway, PlanIsOverlay, OverlayType, OverlayOK
<1>2. PICK S : S = (Above(p) \cup {p}) \ Range(made)
  OBVIOUS
<1>3. ds = Kept(created_directories, S)
  BY <1>1, <1>2 DEF Required
<1>4. ds \in Seq(Path) /\ Range(ds) = PlannedDirectories \cap S
  <2>0. created_directories \in Seq(Path) /\ ds = Kept(created_directories, S)
    BY <1>1, <1>3
  <2>1. ds \in Seq(Path)
    <3>1. PICK T, s : T = Path /\ s = created_directories
      OBVIOUS
    <3>2. s \in Seq(T)
      BY <2>0, <3>1
    <3>3. Kept(s, S) \in Seq(T)
      BY <3>2, KeptElements
    <3>. QED  BY <2>0, <3>1, <3>3
  <2>2. Range(ds) = Range(created_directories) \cap S
    BY <2>0, KeptElements
  <2>. QED  BY <2>1, <2>2 DEF PlannedDirectories
<1>5. IsInjective(ds)
  BY <1>1, <1>3, KeptOrder
<1>6. OrderedLike(ds, created_directories, Path)
  BY <1>1, <1>3, KeptOrdered
<1>7. NewFiles \cap PlannedDirectories = {}
  BY MidwaySets
<1>8. \A d \in PlannedDirectories :
        Needs(action_plans, NewFiles, At, d) <=> d \in Above(p) \cup {p}
  <2>1. ~ForDirectory(action_plans, At) => p \notin PlannedDirectories
    BY <1>7
  <2>. QED  BY <2>1 DEF Needs
<1>9. Range(ds) = NextOnes \ Range(made)
  BY <1>2, <1>4, <1>8 DEF NextOnes
<1>10. p \in Path
  <2>1. p \in Files \cup PlannedDirectories
    BY DEF Midway, PlanIsOverlay, StructureOK, AskedOK
  <2>. QED  BY <2>1, MidwaySets
<1>. QED  BY <1>4, <1>5, <1>6, <1>9, <1>10

(* They can be made one by one: nothing is in their places and each is in a *)
(* directory that is there or made before.                                  *)
LEMMA NextDirectoriesFit ==
  ASSUME NEW v, Midway(v), At \in Asked(action_plans), NEW p, p = Target(action_plans, At),
         ForDirectory(action_plans, At) \/ p \in NewFiles,
         NEW ds, ds = Required(p)
  PROVE  CanMake(disk, ds)
<1>1. /\ ds \in Seq(Path) /\ IsInjective(ds)
      /\ Range(ds) = NextOnes \ Range(made)
      /\ OrderedLike(ds, created_directories, Path)
      /\ p \in Path
  BY NextDirectories
<1>2. /\ Range(made) = MadeSoFar /\ Range(made) \subseteq PlannedDirectories
      /\ Range(written) = WrittenSoFar /\ Range(written) \subseteq Changed
      /\ Changed \subseteq Files /\ Files \subseteq Path /\ PlannedDirectories \subseteq Path
      /\ Files \cap PlannedDirectories \subseteq deleted
      /\ \A q \in Files \cup PlannedDirectories : Above(q) \cap Files = {}
  BY MidwaySets
<1>3. \A q \in Path : disk[q] = IF q \in Range(made) THEN DIRECTORY
                                ELSE IF q \in Range(written) THEN Change(q).content ELSE v[q]
  BY DEF Midway, Applied
<1>4. StandsOn(v)
  BY DEF Midway, Applied
<1>. SUFFICES ASSUME NEW k \in DOMAIN ds
              PROVE  /\ disk[ds[k]] = MISSING
                     /\ \A q \in Above(ds[k]) :
                          disk[q] = DIRECTORY \/ \E j \in 1..(k - 1) : ds[j] = q
  BY DEF CanMake
<1>5. PICK d \in Path : d = ds[k]
  BY <1>1, LenProperties
<1>6. d \in NextOnes /\ d \notin Range(made) /\ d \in PlannedDirectories
  BY <1>1, <1>5 DEF Range, NextOnes
<1>7. disk[d] = MISSING
  <2>1. CASE d \in deleted
    <3>1. d \in Range(written)
      BY <1>2, <1>6, <2>1, VacatedBefore DEF NextOnes, Midway
    <3>2. Change(d).content = MISSING
      BY <2>1 DEF Change
    <3>. QED  BY <1>3, <1>6, <3>1, <3>2
  <2>2. CASE d \notin deleted
    <3>1. d \notin Range(written)
      BY <1>2, <1>6, <2>2
    <3>. QED  BY <1>3, <1>4, <1>6, <2>2, <3>1 DEF StandsOn
  <2>. QED  BY <2>1, <2>2
<1>8. ASSUME NEW q \in Above(d), disk[q] # DIRECTORY
      PROVE  \E j \in 1..(k - 1) : ds[j] = q
  <2>1. q \in Path /\ Above(d) \subseteq Path
    BY <1>5, <1>8, ParentsAbove
  <2>2. q \notin Files
    BY <1>2, <1>6, <1>8
  <2>3. q \notin Range(made) /\ q \notin Range(written)
    BY <1>2, <1>3, <1>8, <2>1, <2>2
  <2>4. q \in PlannedDirectories
    BY <1>3, <1>4, <1>6, <1>8, <2>1, <2>3 DEF StandsOn
  <2>5. Above(d) \subseteq Above(p)
    <3>1. d \in Above(p) \cup {p}
      BY <1>6 DEF NextOnes, Needs
    <3>. QED  BY <1>1, <3>1, ParentsAbove
  <2>6. q \in NextOnes
    BY <1>8, <2>4, <2>5 DEF NextOnes, Needs
  <2>7. PICK j \in DOMAIN ds : ds[j] = q
    BY <1>1, <2>3, <2>6 DEF Range
  <2>8. PICK l \in DOMAIN created_directories : created_directories[l] = d
    BY <1>6 DEF PlannedDirectories, Range
  <2>9. PICK i \in DOMAIN created_directories : i < l /\ created_directories[i] = q
    BY <1>8, <2>4, <2>8 DEF Midway, PlanIsOverlay, StructureOK, DirectoriesInOrder
  <2>10. k \in Nat /\ j \in Nat /\ j >= 1 /\ i \in Int /\ l \in Int
    <3>1. created_directories \in Seq(Path)
      BY DEF Midway, PlanIsOverlay, OverlayType
    <3>. QED  BY <1>1, <3>1, LenProperties, <2>7, <2>8, <2>9
  <2>11. ~(k < j)
    BY <1>1, <1>5, <2>1, <2>7, <2>8, <2>9, <2>10 DEF OrderedLike
  <2>12. k # j
    BY <1>5, <1>6, <1>8, <2>7, ParentsAbove
  <2>13. j \in 1..(k - 1)
    BY <2>10, <2>11, <2>12
  <2>. QED  BY <2>7, <2>13
<1>. QED  BY <1>5, <1>7, <1>8

(* The list of the directories that are made stays in the order of the plan. *)
LEMMA DirectoriesStayInOrder ==
  ASSUME NEW v, Midway(v), At \in Asked(action_plans), NEW p, p = Target(action_plans, At),
         ForDirectory(action_plans, At) \/ p \in NewFiles,
         NEW ds, ds = Required(p)
  PROVE  /\ made \o ds \in Seq(Path) /\ IsInjective(made \o ds)
         /\ Range(made \o ds) = Range(made) \cup NextOnes
         /\ OrderedLike(made \o ds, created_directories, Path)
<1>1. /\ ds \in Seq(Path) /\ IsInjective(ds)
      /\ Range(ds) = NextOnes \ Range(made)
      /\ OrderedLike(ds, created_directories, Path)
      /\ p \in Path
  BY NextDirectories
<1>2. /\ made \in Seq(Path) /\ IsInjective(made)
      /\ OrderedLike(made, created_directories, Path)
  BY DEF Midway, Applied
<1>3. created_directories \in Seq(Path)
  BY DEF Midway, PlanIsOverlay, OverlayType
<1>4. Range(made) = MadeSoFar
  BY MidwaySets
<1>5. /\ made \o ds \in Seq(Path) /\ IsInjective(made \o ds)
      /\ Range(made \o ds) = Range(made) \cup Range(ds)
  BY <1>1, <1>2, InjectiveConcatenation
<1>6. ASSUME NEW x \in Range(made), NEW y \in Range(ds),
             NEW k \in DOMAIN created_directories, NEW l \in DOMAIN created_directories,
             created_directories[k] = x, created_directories[l] = y
      PROVE  k < l
  <2>1. k \in Int /\ l \in Int /\ k # l
    BY <1>1, <1>3, <1>6, LenProperties
  <2>2. ~(l < k)
    <3>. SUFFICES ASSUME l < k PROVE FALSE
      OBVIOUS
    <3>1. PICK e \in Asked(action_plans) : Over(e) /\ Needs(action_plans, NewFiles, e, x)
      BY <1>4 DEF MadeSoFar
    <3>2. PICK f \in Asked(action_plans) :
            NotAfter(f, e) /\ Needs(action_plans, NewFiles, f, y)
      BY <1>6, <3>1 DEF Midway, PlanIsOverlay, StructureOK, DirectoriesInOrder
    <3>3. Over(f)
      BY <3>1, <3>2, EarlierIsOver DEF Midway
    <3>4. y \in PlannedDirectories /\ y \notin Range(made)
      BY <1>1 DEF NextOnes
    <3>5. y \in MadeSoFar
      BY <3>2, <3>3, <3>4 DEF MadeSoFar
    <3>. QED  BY <1>4, <3>4, <3>5
  <2>. QED  BY <2>1, <2>2
<1>7. OrderedLike(made \o ds, created_directories, Path)
  BY <1>1, <1>2, <1>3, <1>6, OrderedConcat
<1>8. Range(made) \cup Range(ds) = Range(made) \cup NextOnes
  BY <1>1
<1>. QED  BY <1>5, <1>7, <1>8

(* Whatever is next goes through.                                           *)
LEMMA HereIs ==
  ASSUME NEW v, Midway(v), step <= Len(plan.actions)
  PROVE  /\ Here = action_plans[step] /\ InHand = Target(action_plans, At)
         /\ Here.op = "create_directory" <=> ForDirectory(action_plans, At)
         /\ At \in Asked(action_plans)
              <=> (Here.op = "create_directory" => Here.disposition = "CREATE")
         /\ step \in DOMAIN action_plans /\ file \in DOMAIN Here.paths
         /\ DOMAIN Here.paths = 1..Len(Here.paths) /\ Len(Here.paths) \in {1, 2}
<1>1. /\ plan.actions = action_plans /\ action_plans \in Seq(PlannedAction)
      /\ Cursor /\ AskedOK
  BY DEF Midway, PlanIsOverlay, OverlayType, StructureOK
<1>2. step \in DOMAIN action_plans
  BY <1>1, LenProperties DEF Cursor
<1>3. Here = action_plans[step] /\ At.action = step /\ At.file = file
  BY <1>1 DEF Here, At
<1>4. file \in DOMAIN Here.paths /\ file \in {1, 2}
  BY <1>1, <1>3 DEF Cursor
<1>5. InHand = Target(action_plans, At)
  BY <1>3 DEF InHand, Target
<1>6. Here.op = "create_directory" <=> ForDirectory(action_plans, At)
  BY <1>3 DEF ForDirectory
<1>7. At \in Asked(action_plans) <=> (Here.op = "create_directory" => Here.disposition = "CREATE")
  BY <1>2, <1>3, <1>4 DEF Asked, At
<1>8. DOMAIN Here.paths = 1..Len(Here.paths) /\ Len(Here.paths) \in {1, 2}
  <2>1. Here.paths \in Seq(Path)
    <3>1. Here \in PlannedAction
      BY <1>1, <1>2, <1>3, LenProperties
    <3>. QED  BY <3>1 DEF PlannedAction
  <2>. QED  BY <1>1, <1>2, <1>3, <2>1, LenProperties DEF AskedOK
<1>. QED  BY <1>2, <1>3, <1>4, <1>5, <1>6, <1>7, <1>8

(* The change of a file that has not been changed yet.                      *)
LEMMA NextFile ==
  ASSUME NEW v, Midway(v), step <= Len(plan.actions), Here.op # "create_directory",
         InHand \notin Range(written), NEW c \in ChangesOf(InHand)
  PROVE  /\ InHand \in Changed /\ c = Change(InHand) /\ c.path = InHand /\ InHand \in Path
         /\ InHand \notin Range(made) /\ disk[InHand] = c.before
         /\ c.disposition = "CREATE" <=> InHand \in NewFiles
         /\ InHand \notin PlannedDirectories \/ c.disposition # "CREATE"
<1>1. PICK p : p = InHand
  OBVIOUS
<1>2. PlanIsOverlay
  BY DEF Midway
<1>3. /\ Range(plan.file_changes) = {Change(q) : q \in Changed}
      /\ \A q \in Changed : Change(q) \in FileChange /\ Change(q).path = q
  BY <1>2, PlanParts
<1>4. p \in Changed /\ c = Change(p) /\ c.path = p
  BY <1>1, <1>3 DEF ChangesOf
<1>5. /\ Range(made) \cap Files \subseteq Range(written)
      /\ Changed \subseteq Files /\ Files \subseteq Path
      /\ NewFiles \cap PlannedDirectories = {}
  BY MidwaySets
<1>6. p \notin Range(made) /\ p \in Path /\ p \in Files
  BY <1>1, <1>4, <1>5
<1>7. disk[p] = v[p] /\ v[p] = original[p]
  BY <1>1, <1>6 DEF Midway, Applied, StandsOn
<1>8. c.before = original[p]
  BY <1>4 DEF Change
<1>9. c.disposition = "CREATE" <=> p \in NewFiles
  <2>1. p \in deleted => original[p] # MISSING
    BY <1>2, Kinds DEF PlanIsOverlay, OverlayOK
  <2>. QED  BY <1>4, <1>6, <2>1 DEF Change, NewFiles
<1>. QED  BY <1>1, <1>4, <1>5, <1>6, <1>7, <1>8, <1>9

LEMMA NextFileFits ==
  ASSUME NEW v, Midway(v), step <= Len(plan.actions), Here.op # "create_directory",
         InHand \notin Range(written), NEW c \in ChangesOf(InHand)
  PROVE  CanMake(disk, RequiredBy(c)) /\ CanWrite(Make(disk, RequiredBy(c)), c)
<1>1. PICK p : p = InHand
  OBVIOUS
<1>2. /\ p \in Changed /\ c = Change(p) /\ c.path = p /\ p \in Path
      /\ p \notin Range(made) /\ disk[p] = c.before
      /\ c.disposition = "CREATE" <=> p \in NewFiles
      /\ p \notin PlannedDirectories \/ c.disposition # "CREATE"
  BY <1>1, NextFile
<1>3. /\ At \in Asked(action_plans) /\ ~ForDirectory(action_plans, At)
      /\ p = Target(action_plans, At)
  BY <1>1, HereIs
<1>4. PICK ds : ds = RequiredBy(c)
  OBVIOUS
<1>5. c.disposition = "CREATE" => ds = Required(p)
  BY <1>2, <1>4 DEF RequiredBy
<1>6. c.disposition # "CREATE" => ds = <<>>
  BY <1>4 DEF RequiredBy
<1>7. CanMake(disk, ds)
  <2>1. CASE c.disposition = "CREATE"
    BY <1>2, <1>3, <1>5, <2>1, NextDirectoriesFit
  <2>2. CASE c.disposition # "CREATE"
    <3>1. DOMAIN <<>> = {}
      OBVIOUS
    <3>. QED  BY <1>6, <2>2, <3>1 DEF CanMake
  <2>. QED  BY <2>1, <2>2
<1>8. Range(ds) = IF c.disposition = "CREATE" THEN NextOnes \ Range(made) ELSE {}
  <2>1. c.disposition = "CREATE" => Range(ds) = NextOnes \ Range(made)
    BY <1>2, <1>3, <1>5, NextDirectories
  <2>2. c.disposition # "CREATE" => Range(ds) = {}
    BY <1>6, ShortSequences
  <2>. QED  BY <2>1, <2>2
<1>9. Make(disk, ds)[p] = c.before
  <2>1. p \notin Range(ds)
    BY <1>2, <1>8 DEF NextOnes
  <2>. QED  BY <1>2, <2>1 DEF Make
<1>10. ASSUME NEW q \in Above(p) PROVE Make(disk, ds)[q] = DIRECTORY
  <2>1. /\ Changed \subseteq Files /\ Range(written) \subseteq Changed
        /\ Range(made) \subseteq PlannedDirectories
        /\ \A r \in Files \cup PlannedDirectories : Above(r) \cap Files = {}
    BY MidwaySets
  <2>2. q \in Path /\ q \notin Files /\ q \notin Range(written)
    BY <1>2, <1>10, <2>1, ParentsAbove
  <2>3. CASE q \notin PlannedDirectories
    <3>1. disk[q] = v[q]
      BY <2>1, <2>2, <2>3 DEF Midway, Applied
    <3>2. v[q] = DIRECTORY
      BY <1>2, <1>10, <2>1, <2>3 DEF Midway, Applied, StandsOn
    <3>. QED  BY <2>2, <3>1, <3>2 DEF Make
  <2>4. CASE q \in PlannedDirectories
    <3>1. original[p] = MISSING
      BY <1>2, <1>10, <2>1, <2>4 DEF Midway, PlanIsOverlay, OldFilesHavePlaces
    <3>2. p \in NewFiles
      BY <1>2, <2>1, <3>1 DEF NewFiles
    <3>3. q \in NextOnes
      BY <1>3, <1>10, <2>4, <3>2 DEF NextOnes, Needs
    <3>4. q \in Range(ds) \/ q \in Range(made)
      BY <1>2, <1>8, <3>2, <3>3
    <3>5. q \in Range(made) => disk[q] = DIRECTORY
      BY <2>2 DEF Midway, Applied
    <3>. QED  BY <2>2, <3>4, <3>5 DEF Make
  <2>. QED  BY <2>3, <2>4
<1>11. CanWrite(Make(disk, ds), c)
  BY <1>2, <1>9, <1>10 DEF CanWrite
<1>. QED  BY <1>4, <1>7, <1>11

LEMMA EffectsArePossible ==
  ASSUME NEW v, Midway(v), step <= Len(plan.actions)
  PROVE  EffectPossible
<1>1. ASSUME Here.op = "create_directory", Here.disposition = "CREATE"
      PROVE  CanMake(disk, Required(InHand))
  <2>1. /\ At \in Asked(action_plans) /\ ForDirectory(action_plans, At)
        /\ InHand = Target(action_plans, At)
    BY <1>1, HereIs
  <2>. QED  BY <2>1, NextDirectoriesFit
<1>2. ASSUME Here.op # "create_directory", InHand \notin Range(written),
             NEW c \in ChangesOf(InHand)
      PROVE  CanMake(disk, RequiredBy(c)) /\ CanWrite(Make(disk, RequiredBy(c)), c)
  BY <1>2, NextFileFits
<1>. QED  BY <1>1, <1>2 DEF EffectPossible

(* One path further.                                                        *)
SameOverlay ==
  UNCHANGED <<order, original, current, deleted, created_directories,
              fingerprints, action_plans, plan>>

LEMMA OverlayStays ==
  ASSUME SameOverlay
  PROVE  /\ Files' = Files /\ PlannedDirectories' = PlannedDirectories
         /\ NewFiles' = NewFiles /\ Changed' = Changed
         /\ PlanIsOverlay' <=> PlanIsOverlay
         /\ \A v : StandsOn(v)' <=> StandsOn(v)
         /\ \A p : Change(p)' = Change(p)
<1>. USE DEF SameOverlay
<1>1. Files' = Files /\ PlannedDirectories' = PlannedDirectories
  BY DEF Files, PlannedDirectories
<1>2. NewFiles' = NewFiles
  BY <1>1 DEF NewFiles
<1>3. Changed' = Changed
  BY <1>1 DEF Changed, NetChange
<1>4. PlanIsOverlay' <=> PlanIsOverlay
  BY OverlayKept
<1>5. \A v : StandsOn(v)' <=> StandsOn(v)
  BY <1>1 DEF StandsOn, Above
<1>6. \A p : Change(p)' = Change(p)
  BY DEF Change
<1>. QED  BY <1>1, <1>2, <1>3, <1>4, <1>5, <1>6

(* After a step, one more asked for is over.                                *)
LEMMA CursorMoves ==
  ASSUME NEW v, Midway(v), step <= Len(plan.actions), Forward, SameOverlay
  PROVE  /\ Cursor'
         /\ \A e \in Asked(action_plans) : Over(e)' <=> Over(e) \/ e = At
<1>1. /\ Here = action_plans[step] /\ step \in DOMAIN action_plans
      /\ file \in DOMAIN Here.paths /\ DOMAIN Here.paths = 1..Len(Here.paths)
      /\ Len(Here.paths) \in {1, 2}
  BY HereIs
<1>2. action_plans \in Seq(PlannedAction) /\ AskedOK /\ Cursor
  BY DEF Midway, PlanIsOverlay, OverlayType, StructureOK
<1>3. PICK n \in Nat : n = Len(action_plans) /\ DOMAIN action_plans = 1..n
  BY <1>2, LenProperties
<1>4. action_plans' = action_plans
  BY DEF SameOverlay
<1>5. PICK m \in {1, 2} : m = Len(Here.paths)
  BY <1>1
<1>6. step \in 1..n /\ file \in 1..m
  BY <1>1, <1>3, <1>5
<1>7. ASSUME NEW k \in 1..n
      PROVE  1 \in DOMAIN action_plans[k].paths
  <2>1. Len(action_plans[k].paths) \in {1, 2}
    BY <1>2, <1>3 DEF AskedOK
  <2>2. action_plans[k].paths \in Seq(Path)
    <3>1. action_plans[k] \in PlannedAction
      BY <1>2, <1>3, LenProperties
    <3>. QED  BY <3>1 DEF PlannedAction
  <2>. QED  BY <2>1, <2>2, LenProperties
<1>8. Cursor'
  <2>1. CASE file < m /\ file' = file + 1 /\ step' = step
    <3>a. step \in Nat /\ file \in Nat /\ file >= 1
      BY <1>3, <1>6
    <3>b. m = 1 \/ m = 2
      BY <1>5
    <3>0. file \in Nat /\ step \in Nat /\ m = 2 /\ file = 1
      BY <2>1, <3>a, <3>b
    <3>1. file' \in {1, 2} /\ file' \in 1..m /\ step' # n + 1
      BY <1>3, <1>6, <2>1, <3>0
    <3>2. file' \in DOMAIN action_plans[step].paths
      BY <1>1, <1>5, <3>1
    <3>. QED  BY <1>3, <1>4, <1>6, <2>1, <3>1, <3>2 DEF Cursor
  <2>2. CASE file = m /\ file' = 1 /\ step' = step + 1
    <3>1. step' \in 1..(n + 1)
      BY <1>6, <2>2
    <3>2. step' <= n => file' \in DOMAIN action_plans[step'].paths
      BY <1>6, <1>7, <2>2
    <3>. QED  BY <1>3, <1>4, <2>2, <3>1, <3>2 DEF Cursor
  <2>. QED  BY <1>5, <2>1, <2>2 DEF Forward
<1>9. ASSUME NEW e \in Asked(action_plans)
      PROVE  Over(e)' <=> Over(e) \/ e = At
  <2>1. PICK a \in 1..n, f \in {1, 2} : e = [action |-> a, file |-> f]
    BY <1>3 DEF Asked
  <2>2. f \in DOMAIN action_plans[a].paths
    BY <2>1 DEF Asked
  <2>3. a = step => f \in 1..m
    BY <1>1, <1>5, <2>2
  <2>4. Over(e) <=> (a < step \/ (a = step /\ f < file))
    BY <2>1 DEF Over, Before, At
  <2>5. Over(e)' <=> (a < step' \/ (a = step' /\ f < file'))
    BY <2>1 DEF Over, Before, At
  <2>6. e = At <=> (a = step /\ f = file)
    BY <2>1 DEF At
  <2>7. CASE file < m /\ file' = file + 1 /\ step' = step
    BY <1>6, <2>4, <2>5, <2>6, <2>7
  <2>8. CASE file = m /\ file' = 1 /\ step' = step + 1
    BY <1>6, <2>3, <2>4, <2>5, <2>6, <2>8
  <2>. QED  BY <1>5, <2>7, <2>8 DEF Forward
<1>. QED  BY <1>8, <1>9

NextFiles ==
  {p \in Changed : ~ForDirectory(action_plans, At) /\ Target(action_plans, At) = p}

LEMMA SoFarGrows ==
  ASSUME NEW v, Midway(v), step <= Len(plan.actions), Forward, SameOverlay
  PROVE  /\ Cursor' /\ PlanIsOverlay' /\ StandsOn(v)'
         /\ At \in Asked(action_plans) =>
              MadeSoFar' = MadeSoFar \cup NextOnes /\ WrittenSoFar' = WrittenSoFar \cup NextFiles
         /\ At \notin Asked(action_plans) =>
              MadeSoFar' = MadeSoFar /\ WrittenSoFar' = WrittenSoFar
<1>1. Cursor' /\ \A e \in Asked(action_plans) : Over(e)' <=> Over(e) \/ e = At
  BY CursorMoves
<1>2. /\ PlannedDirectories' = PlannedDirectories
      /\ NewFiles' = NewFiles /\ Changed' = Changed
      /\ PlanIsOverlay' <=> PlanIsOverlay
      /\ \A u : StandsOn(u)' <=> StandsOn(u)
  BY OverlayStays
<1>3. PICK A : A = action_plans
  OBVIOUS
<1>4. A = action_plans'
  BY <1>3 DEF SameOverlay
<1>5. MadeSoFar' = {d \in PlannedDirectories : \E e \in Asked(A) :
                      (Over(e) \/ e = At) /\ Needs(A, NewFiles, e, d)}
  <2>1. MadeSoFar' = {d \in PlannedDirectories : \E e \in Asked(A) :
                        Over(e)' /\ Needs(A, NewFiles, e, d)}
    BY <1>2, <1>4 DEF MadeSoFar
  <2>. QED  BY <1>1, <1>3, <2>1
<1>6. WrittenSoFar' = {p \in Changed : \E e \in Asked(A) :
                         (Over(e) \/ e = At) /\ ~ForDirectory(A, e) /\ Target(A, e) = p}
  <2>1. WrittenSoFar' = {p \in Changed : \E e \in Asked(A) :
                           Over(e)' /\ ~ForDirectory(A, e) /\ Target(A, e) = p}
    BY <1>2, <1>4 DEF WrittenSoFar
  <2>. QED  BY <1>1, <1>3, <2>1
<1>7. At \in Asked(A) =>
        MadeSoFar' = MadeSoFar \cup NextOnes /\ WrittenSoFar' = WrittenSoFar \cup NextFiles
  BY <1>3, <1>5, <1>6 DEF MadeSoFar, WrittenSoFar, NextOnes, NextFiles
<1>8. At \notin Asked(A) =>
        MadeSoFar' = MadeSoFar /\ WrittenSoFar' = WrittenSoFar
  BY <1>3, <1>5, <1>6 DEF MadeSoFar, WrittenSoFar
<1>. QED  BY <1>1, <1>2, <1>3, <1>7, <1>8 DEF Midway, Applied

(* What the two kinds of steps leave behind.                                *)
LEMMA DirectoryApplied ==
  ASSUME NEW v, Midway(v), ApplyDirectory, Forward, SameOverlay
  PROVE  Midway(v)'
<1>1. /\ step <= Len(plan.actions) /\ Here.op = "create_directory" /\ UNCHANGED written
      /\ plan.actions = action_plans
  BY DEF ApplyDirectory, Applying, Midway, PlanIsOverlay
<1>2. PICK ds : /\ ds = (IF Here.disposition = "CREATE" THEN Required(InHand) ELSE <<>>)
                /\ disk' = Make(disk, ds) /\ made' = made \o ds
  BY DEF ApplyDirectory
<1>3. ForDirectory(action_plans, At) /\ InHand = Target(action_plans, At)
  BY <1>1, HereIs
<1>4. At \in Asked(action_plans) <=> Here.disposition = "CREATE"
  BY <1>1, HereIs
<1>5. /\ Cursor' /\ PlanIsOverlay' /\ StandsOn(v)'
      /\ At \in Asked(action_plans) =>
           MadeSoFar' = MadeSoFar \cup NextOnes /\ WrittenSoFar' = WrittenSoFar \cup NextFiles
      /\ At \notin Asked(action_plans) =>
           MadeSoFar' = MadeSoFar /\ WrittenSoFar' = WrittenSoFar
  BY <1>1, SoFarGrows
<1>6. /\ made \in Seq(Path) /\ IsInjective(made) /\ OrderedLike(made, created_directories, Path)
      /\ Range(made) = MadeSoFar /\ Range(written) = WrittenSoFar
  BY DEF Midway, Applied
<1>7. /\ made' \in Seq(Path) /\ IsInjective(made')
      /\ OrderedLike(made', created_directories, Path)
      /\ Range(made') = MadeSoFar'
      /\ Range(made') = Range(made) \cup Range(ds)
      /\ ds \in Seq(Path)
  <2>1. CASE Here.disposition = "CREATE"
    <3>1. ds = Required(InHand) /\ At \in Asked(action_plans)
      BY <1>2, <1>4, <2>1
    <3>2. /\ made \o ds \in Seq(Path) /\ IsInjective(made \o ds)
          /\ Range(made \o ds) = Range(made) \cup NextOnes
          /\ OrderedLike(made \o ds, created_directories, Path)
      BY <1>3, <3>1, DirectoriesStayInOrder
    <3>3. ds \in Seq(Path) /\ Range(ds) = NextOnes \ Range(made)
      BY <1>3, <3>1, NextDirectories
    <3>. QED  BY <1>2, <1>5, <1>6, <3>1, <3>2, <3>3
  <2>2. CASE Here.disposition # "CREATE"
    <3>1. ds = <<>> /\ At \notin Asked(action_plans)
      BY <1>2, <1>4, <2>2
    <3>2. made \o ds = made
      BY <1>6, <3>1, ConcatEmptySeq
    <3>3. ds \in Seq(Path) /\ Range(ds) = {}
      BY <3>1, ShortSequences
    <3>. QED  BY <1>2, <1>5, <1>6, <3>1, <3>2, <3>3
  <2>. QED  BY <2>1, <2>2
<1>8. Range(written') = WrittenSoFar'
  <2>1. NextFiles = {}
    BY <1>3 DEF NextFiles
  <2>. QED  BY <1>1, <1>5, <1>6, <2>1
<1>9. \A p \in Path :
        disk'[p] = IF p \in Range(made') THEN DIRECTORY
                   ELSE IF p \in Range(written') THEN Change(p).content ELSE v[p]
  <2>1. \A p \in Path : disk'[p] = IF p \in Range(ds) THEN DIRECTORY ELSE disk[p]
    BY <1>2 DEF Make
  <2>. QED  BY <1>1, <1>7, <2>1 DEF Midway, Applied
<1>10. Applied(v)'
  <2>1. /\ \A p : Change(p)' = Change(p)
        /\ NewFiles' = NewFiles /\ order' = order /\ created_directories' = created_directories
    BY OverlayStays DEF SameOverlay
  <2>2. \A p \in Path :
          disk'[p] = IF p \in Range(made') THEN DIRECTORY
                     ELSE IF p \in Range(written') THEN Change(p)'.content ELSE v[p]
    BY <1>9, <2>1
  <2>3. /\ written' \in Seq(Path) /\ IsInjective(written')
        /\ OrderedLike(written', order', NewFiles')
    BY <1>1, <2>1 DEF Midway, Applied
  <2>. QED  BY <1>5, <1>7, <1>8, <2>1, <2>2, <2>3 DEF Applied
<1>11. disk' \in [Path -> Content]
  BY <1>2 DEF Make, Midway, Content
<1>. QED  BY <1>5, <1>10, <1>11 DEF Midway

(* A path that is not changed, or not again, asks for nothing new.          *)
LEMMA NothingLeft ==
  ASSUME NEW v, Midway(v), step <= Len(plan.actions), Here.op # "create_directory",
         ChangesOf(InHand) = {} \/ InHand \in Range(written)
  PROVE  NextOnes \subseteq MadeSoFar /\ NextFiles \subseteq WrittenSoFar
<1>1. /\ At \in Asked(action_plans) /\ ~ForDirectory(action_plans, At)
      /\ InHand = Target(action_plans, At)
  BY HereIs
<1>2. PICK p : p = InHand
  OBVIOUS
<1>3. /\ Range(plan.file_changes) = {Change(q) : q \in Changed}
      /\ \A q \in Changed : Change(q) \in FileChange /\ Change(q).path = q
      /\ NewFiles \subseteq Changed
  BY PlanParts DEF Midway
<1>4. p \in Changed => p \in WrittenSoFar
  <2>1. p \in Changed => Change(p) \in ChangesOf(p)
    BY <1>3 DEF ChangesOf
  <2>. QED  BY <1>2, <2>1, MidwaySets
<1>5. NextFiles \subseteq WrittenSoFar
  BY <1>1, <1>2, <1>4 DEF NextFiles
<1>6. ASSUME NEW d \in NextOnes PROVE d \in MadeSoFar
  <2>1. p \in NewFiles /\ d \in Above(p) /\ d \in PlannedDirectories
    BY <1>1, <1>2 DEF NextOnes, Needs
  <2>2. PICK e \in Asked(action_plans) :
          Over(e) /\ ~ForDirectory(action_plans, e) /\ Target(action_plans, e) = p
    BY <1>3, <1>4, <2>1 DEF WrittenSoFar
  <2>3. Needs(action_plans, NewFiles, e, d)
    BY <2>1, <2>2 DEF Needs
  <2>. QED  BY <2>1, <2>2, <2>3 DEF MadeSoFar
<1>. QED  BY <1>5, <1>6

LEMMA FileUntouchedApplied ==
  ASSUME NEW v, Midway(v), step <= Len(plan.actions), Here.op # "create_directory",
         ChangesOf(InHand) = {} \/ InHand \in Range(written),
         UNCHANGED <<disk, made, written>>, Forward, SameOverlay
  PROVE  Midway(v)'
<1>1. At \in Asked(action_plans)
  BY HereIs
<1>2. /\ Cursor' /\ PlanIsOverlay' /\ StandsOn(v)'
      /\ MadeSoFar' = MadeSoFar \cup NextOnes /\ WrittenSoFar' = WrittenSoFar \cup NextFiles
  BY <1>1, SoFarGrows
<1>3. NextOnes \subseteq MadeSoFar /\ NextFiles \subseteq WrittenSoFar
  BY NothingLeft
<1>4. MadeSoFar' = MadeSoFar /\ WrittenSoFar' = WrittenSoFar
  BY <1>2, <1>3
<1>5. /\ \A p : Change(p)' = Change(p)
      /\ NewFiles' = NewFiles /\ order' = order /\ created_directories' = created_directories
  BY OverlayStays DEF SameOverlay
<1>6. /\ made' = made /\ written' = written /\ disk' = disk
  OBVIOUS
<1>7. \A p \in Path :
        disk'[p] = IF p \in Range(made') THEN DIRECTORY
                   ELSE IF p \in Range(written') THEN Change(p)'.content ELSE v[p]
  BY <1>5, <1>6 DEF Midway, Applied
<1>8. /\ made' \in Seq(Path) /\ IsInjective(made')
      /\ written' \in Seq(Path) /\ IsInjective(written')
      /\ Range(made') = MadeSoFar' /\ Range(written') = WrittenSoFar'
      /\ OrderedLike(made', created_directories', Path)
      /\ OrderedLike(written', order', NewFiles')
  BY <1>4, <1>5, <1>6 DEF Midway, Applied
<1>9. Applied(v)'
  BY <1>2, <1>7, <1>8 DEF Applied
<1>. QED  BY <1>2, <1>6, <1>9 DEF Midway

(* The changed files stay in the order of the plan.                         *)
LEMMA FilesStayInOrder ==
  ASSUME NEW v, Midway(v), step <= Len(plan.actions), Here.op # "create_directory",
         NEW p \in Changed, p = InHand, p \notin Range(written)
  PROVE  /\ Append(written, p) \in Seq(Path) /\ IsInjective(Append(written, p))
         /\ Range(Append(written, p)) = Range(written) \cup {p}
         /\ OrderedLike(Append(written, p), order, NewFiles)
<1>1. /\ At \in Asked(action_plans) /\ ~ForDirectory(action_plans, At)
      /\ p = Target(action_plans, At)
  BY HereIs
<1>2. /\ written \in Seq(Path) /\ IsInjective(written) /\ OrderedLike(written, order, NewFiles)
      /\ Range(written) = WrittenSoFar /\ order \in Seq(Path)
  BY DEF Midway, Applied, PlanIsOverlay, OverlayType
<1>3. p \in Path /\ p \in Files
  BY MidwaySets
<1>4. <<p>> \in Seq(Path) /\ Range(<<p>>) = {p} /\ IsInjective(<<p>>)
  BY <1>3, ShortSequences
<1>5. Append(written, p) = written \o <<p>>
  BY <1>2, <1>3, AppendIsConcat
<1>6. /\ written \o <<p>> \in Seq(Path) /\ IsInjective(written \o <<p>>)
      /\ Range(written \o <<p>>) = Range(written) \cup {p}
  <2>1. PICK s, t : s = written /\ t = <<p>>
    OBVIOUS
  <2>2. s \in Seq(Path) /\ IsInjective(s) /\ t \in Seq(Path) /\ IsInjective(t)
    BY <1>2, <1>4, <2>1
  <2>3. Range(s) \cap Range(t) = {} /\ Range(t) = {p}
    BY <1>4, <2>1
  <2>4. s \o t \in Seq(Path) /\ IsInjective(s \o t) /\ Range(s \o t) = Range(s) \cup Range(t)
    BY <2>2, <2>3, InjectiveConcatenation
  <2>. QED  BY <2>1, <2>3, <2>4
<1>7. OrderedLike(<<p>>, order, NewFiles)
  <2>1. DOMAIN <<p>> = {1}
    OBVIOUS
  <2>. QED  BY <2>1 DEF OrderedLike
<1>8. ASSUME NEW x \in Range(written) \cap NewFiles, NEW y \in Range(<<p>>) \cap NewFiles,
             NEW k \in DOMAIN order, NEW l \in DOMAIN order, order[k] = x, order[l] = y
      PROVE  k < l
  <2>1. y = p /\ y \in NewFiles /\ x \in NewFiles
    BY <1>4, <1>8
  <2>2. k \in Int /\ l \in Int /\ k # l
    BY <1>2, <1>8, <2>1, LenProperties
  <2>3. ~(l < k)
    <3>. SUFFICES ASSUME l < k PROVE FALSE
      OBVIOUS
    <3>1. PICK e \in Asked(action_plans) :
            Over(e) /\ ~ForDirectory(action_plans, e) /\ Target(action_plans, e) = x
      BY <1>2, <1>8 DEF WrittenSoFar
    <3>2. PICK f \in Asked(action_plans) :
            Before(f, e) /\ ~ForDirectory(action_plans, f) /\ Target(action_plans, f) = y
      BY <1>8, <2>1, <3>1 DEF Midway, PlanIsOverlay, StructureOK, FilesInOrder
    <3>3. Over(f)
      BY <3>1, <3>2, EarlierIsOver DEF NotAfter, Midway
    <3>4. y \in WrittenSoFar
      BY <2>1, <3>2, <3>3 DEF WrittenSoFar
    <3>. QED  BY <1>2, <2>1, <3>4
  <2>. QED  BY <2>2, <2>3
<1>9. OrderedLike(written \o <<p>>, order, NewFiles)
  BY <1>2, <1>4, <1>7, <1>8, OrderedConcat
<1>. QED  BY <1>5, <1>6, <1>9

LEMMA FileWrittenApplied ==
  ASSUME NEW v, Midway(v), step <= Len(plan.actions), Here.op # "create_directory",
         InHand \notin Range(written), NEW c \in ChangesOf(InHand),
         disk' = [Make(disk, RequiredBy(c)) EXCEPT ![c.path] = c.content],
         made' = made \o RequiredBy(c), written' = Append(written, InHand),
         Forward, SameOverlay
  PROVE  Midway(v)'
<1>1. PICK p : p = InHand
  OBVIOUS
<1>2. /\ p \in Changed /\ c = Change(p) /\ c.path = p /\ p \in Path
      /\ p \notin Range(made)
      /\ c.disposition = "CREATE" <=> p \in NewFiles
      /\ p \notin PlannedDirectories \/ c.disposition # "CREATE"
  BY <1>1, NextFile
<1>3. /\ At \in Asked(action_plans) /\ ~ForDirectory(action_plans, At)
      /\ p = Target(action_plans, At)
  BY <1>1, HereIs
<1>4. PICK ds : ds = RequiredBy(c)
  OBVIOUS
<1>5. /\ made \in Seq(Path) /\ IsInjective(made) /\ OrderedLike(made, created_directories, Path)
      /\ Range(made) = MadeSoFar /\ Range(written) = WrittenSoFar
  BY DEF Midway, Applied
<1>6. /\ made \o ds \in Seq(Path) /\ IsInjective(made \o ds)
      /\ OrderedLike(made \o ds, created_directories, Path)
      /\ Range(made \o ds) = Range(made) \cup NextOnes
      /\ Range(made \o ds) = Range(made) \cup Range(ds)
      /\ p \notin Range(ds)
  <2>1. CASE c.disposition = "CREATE"
    <3>1. ds = Required(p) /\ p \in NewFiles /\ p \notin PlannedDirectories
      BY <1>2, <1>4, <2>1 DEF RequiredBy
    <3>2. /\ made \o ds \in Seq(Path) /\ IsInjective(made \o ds)
          /\ Range(made \o ds) = Range(made) \cup NextOnes
          /\ OrderedLike(made \o ds, created_directories, Path)
      BY <1>3, <3>1, DirectoriesStayInOrder
    <3>3. Range(ds) = NextOnes \ Range(made)
      BY <1>3, <3>1, NextDirectories
    <3>. QED  BY <3>1, <3>2, <3>3 DEF NextOnes
  <2>2. CASE c.disposition # "CREATE"
    <3>1. ds = <<>> /\ p \notin NewFiles
      BY <1>2, <1>4, <2>2 DEF RequiredBy
    <3>2. made \o ds = made
      BY <1>5, <3>1, ConcatEmptySeq
    <3>3. Range(ds) = {}
      BY <3>1, ShortSequences
    <3>4. NextOnes = {}
      BY <1>3, <3>1 DEF NextOnes, Needs
    <3>. QED  BY <1>5, <3>2, <3>3, <3>4
  <2>. QED  BY <2>1, <2>2
<1>7. /\ Append(written, p) \in Seq(Path) /\ IsInjective(Append(written, p))
      /\ Range(Append(written, p)) = Range(written) \cup {p}
      /\ OrderedLike(Append(written, p), order, NewFiles)
  BY <1>1, <1>2, FilesStayInOrder
<1>8. /\ Cursor' /\ PlanIsOverlay' /\ StandsOn(v)'
      /\ MadeSoFar' = MadeSoFar \cup NextOnes /\ WrittenSoFar' = WrittenSoFar \cup NextFiles
  BY <1>3, SoFarGrows
<1>9. NextFiles = {p}
  BY <1>2, <1>3 DEF NextFiles
<1>10. made' = made \o ds /\ written' = Append(written, p)
  BY <1>1, <1>4
<1>11. Range(made') = MadeSoFar' /\ Range(written') = WrittenSoFar'
  BY <1>5, <1>6, <1>7, <1>8, <1>9, <1>10
<1>12. disk' = [Make(disk, ds) EXCEPT ![p] = c.content]
  BY <1>2, <1>4
<1>13. \A q \in Path :
         disk'[q] = IF q \in Range(made') THEN DIRECTORY
                    ELSE IF q \in Range(written') THEN Change(q).content ELSE v[q]
  <2>. SUFFICES ASSUME NEW q \in Path
                PROVE  disk'[q] = IF q \in Range(made') THEN DIRECTORY
                                  ELSE IF q \in Range(written') THEN Change(q).content ELSE v[q]
    OBVIOUS
  <2>1. disk'[q] = IF q = p THEN c.content ELSE IF q \in Range(ds) THEN DIRECTORY ELSE disk[q]
    BY <1>12 DEF Make
  <2>2. disk[q] = IF q \in Range(made) THEN DIRECTORY
                  ELSE IF q \in Range(written) THEN Change(q).content ELSE v[q]
    BY DEF Midway, Applied
  <2>3. p \notin Range(made') /\ p \in Range(written')
    BY <1>2, <1>6, <1>7, <1>10
  <2>. QED  BY <1>2, <1>6, <1>7, <1>10, <2>1, <2>2, <2>3
<1>14. /\ \A q : Change(q)' = Change(q)
       /\ NewFiles' = NewFiles /\ order' = order /\ created_directories' = created_directories
  BY OverlayStays DEF SameOverlay
<1>15. \A q \in Path :
         disk'[q] = IF q \in Range(made') THEN DIRECTORY
                    ELSE IF q \in Range(written') THEN Change(q)'.content ELSE v[q]
  BY <1>13, <1>14
<1>16. /\ made' \in Seq(Path) /\ IsInjective(made')
       /\ written' \in Seq(Path) /\ IsInjective(written')
       /\ OrderedLike(made', created_directories', Path)
       /\ OrderedLike(written', order', NewFiles')
  BY <1>6, <1>7, <1>10, <1>14
<1>17. Applied(v)'
  BY <1>8, <1>11, <1>15, <1>16 DEF Applied
<1>18. disk' \in [Path -> Content]
  <2>1. c.content \in Content
    <3>1. Change(p) \in FileChange
      BY <1>2, PlanParts DEF Midway
    <3>. QED  BY <1>2, <3>1 DEF FileChange, FileState, Content
  <2>2. Make(disk, ds) \in [Path -> Content]
    BY DEF Make, Midway, Content
  <2>. QED  BY <1>12, <2>1, <2>2
<1>. QED  BY <1>8, <1>17, <1>18 DEF Midway

(* At the end of a run.                                                     *)
LEMMA SameOrder ==
  ASSUME NEW T, NEW s \in Seq(T), NEW u \in Seq(T), NEW o \in Seq(T),
         IsInjective(s), IsInjective(u), Range(s) = Range(u), Range(s) \subseteq Range(o),
         OrderedLike(s, o, T), OrderedLike(u, o, T)
  PROVE  s = u
<1>1. /\ \A i \in DOMAIN s : s[i] \in T /\ i \in Int
      /\ \A i \in DOMAIN u : u[i] \in T /\ i \in Int
      /\ \A i \in DOMAIN o : o[i] \in T /\ i \in Int
  BY LenProperties
<1>2. ASSUME NEW i \in DOMAIN s, NEW j \in DOMAIN s, i < j,
             NEW k \in DOMAIN u, NEW l \in DOMAIN u, u[k] = s[i], u[l] = s[j]
      PROVE  k < l
  <2>1. PICK x \in DOMAIN o, y \in DOMAIN o : o[x] = s[i] /\ o[y] = s[j]
    BY <1>2 DEF Range
  <2>2. x < y
    BY <1>1, <1>2, <2>1 DEF OrderedLike
  <2>3. ~(l < k)
    <3>. SUFFICES ASSUME l < k PROVE FALSE
      OBVIOUS
    <3>1. y < x
      BY <1>1, <1>2, <2>1 DEF OrderedLike
    <3>. QED  BY <1>1, <2>2, <3>1
  <2>4. k # l
    BY <1>1, <1>2 DEF IsInjective
  <2>. QED  BY <1>1, <2>3, <2>4
<1>3. OrderedLike(s, u, T)
  BY <1>2 DEF OrderedLike
<1>. QED  BY <1>3, SameList

LEMMA EverythingIsDone ==
  ASSUME NEW v, Midway(v), step > Len(plan.actions)
  PROVE  MadeSoFar = PlannedDirectories /\ WrittenSoFar = Changed
<1>1. /\ plan.actions = action_plans /\ action_plans \in Seq(PlannedAction) /\ Cursor /\ AskedOK
  BY DEF Midway, PlanIsOverlay, OverlayType, StructureOK
<1>2. PICK n \in Nat : n = Len(action_plans) /\ DOMAIN action_plans = 1..n
  BY <1>1, LenProperties
<1>3. step = n + 1
  BY <1>1, <1>2 DEF Cursor
<1>4. \A e \in Asked(action_plans) : e.action \in 1..n
  BY <1>2 DEF Asked
<1>5. \A e \in Asked(action_plans) : Over(e)
  BY <1>3, <1>4 DEF Over, Before, At
<1>6. MadeSoFar = PlannedDirectories
  BY <1>1, <1>5 DEF MadeSoFar, AskedOK
<1>7. WrittenSoFar = Changed
  <2>1. Changed \subseteq Files
    BY DEF Changed
  <2>. QED  BY <1>1, <1>5, <2>1 DEF WrittenSoFar, AskedOK
<1>. QED  BY <1>6, <1>7

LEMMA AllDoneAsPlanned ==
  ASSUME NEW v, Midway(v), step > Len(plan.actions), ~ReusesVacatedPath
  PROVE  DoneAsPlanned
<1>1. PlanIsOverlay
  BY DEF Midway
<1>2. /\ Range(plan.file_changes) = {Change(q) : q \in Changed}
      /\ \A q \in Changed : Change(q) \in FileChange /\ Change(q).path = q
      /\ NewFiles \subseteq Changed /\ Created = NewFiles
      /\ deleted \cap PlannedDirectories = {}
  BY <1>1, PlanParts
<1>3. /\ made \in Seq(Path) /\ IsInjective(made) /\ OrderedLike(made, created_directories, Path)
      /\ written \in Seq(Path) /\ IsInjective(written) /\ OrderedLike(written, order, NewFiles)
      /\ Range(made) = PlannedDirectories /\ Range(written) = Changed
  BY EverythingIsDone DEF Midway, Applied
<1>4. /\ created_directories \in Seq(Path) /\ IsInjective(created_directories)
      /\ order \in Seq(Path) /\ IsInjective(order)
      /\ plan.directories_to_create = created_directories /\ plan.file_changes = FileChanges
      /\ OverlayType
  BY <1>1 DEF PlanIsOverlay, OverlayType, OverlayOK
<1>5. /\ Changed \subseteq Files /\ Files \subseteq Path /\ PlannedDirectories \subseteq Path
      /\ Files \cap PlannedDirectories \subseteq deleted
  BY MidwaySets
<1>6. made = plan.directories_to_create
  <2>1. Range(made) = Range(created_directories)
    BY <1>3 DEF PlannedDirectories
  <2>. QED  BY <1>3, <1>4, <2>1, SameList
<1>7. PICK paths : paths = Kept(order, Changed)
  OBVIOUS
<1>8. /\ paths \in Seq(Path) /\ Range(paths) = Changed /\ IsInjective(paths)
      /\ OrderedLike(paths, order, Path)
  <2>1. paths \in Seq(Path) /\ Range(paths) = Range(order) \cap Changed
    BY <1>4, <1>7, KeptElements
  <2>2. IsInjective(paths)
    BY <1>4, <1>7, KeptOrder
  <2>3. OrderedLike(paths, order, Path)
    BY <1>4, <1>7, KeptOrdered
  <2>. QED  BY <1>5, <2>1, <2>2, <2>3 DEF Files
<1>9. [k \in DOMAIN plan.file_changes |-> plan.file_changes[k].path] = paths
  <2>1. DOMAIN FileChanges = DOMAIN paths /\ \A k \in DOMAIN FileChanges :
          FileChanges[k] = Change(paths[k])
    BY <1>4, <1>7, FileChangesFacts
  <2>2. \A k \in DOMAIN paths : paths[k] \in Changed
    BY <1>8 DEF Range
  <2>3. \A k \in DOMAIN paths : FileChanges[k].path = paths[k]
    BY <1>2, <2>1, <2>2
  <2>4. paths = [k \in DOMAIN paths |-> paths[k]]
    BY <1>8
  <2>. QED  BY <1>4, <2>1, <2>3, <2>4
<1>10. Kept(written, Created) = Kept(paths, Created)
  <2>1. PICK s, u : s = Kept(written, NewFiles) /\ u = Kept(paths, NewFiles)
    OBVIOUS
  <2>2. s \in Seq(Path) /\ Range(s) = Range(written) \cap NewFiles
    BY <1>3, <2>1, KeptElements
  <2>3. u \in Seq(Path) /\ Range(u) = Range(paths) \cap NewFiles
    BY <1>8, <2>1, KeptElements
  <2>4. IsInjective(s)
    BY <1>3, <2>1, KeptOrder
  <2>5. IsInjective(u)
    BY <1>8, <2>1, KeptOrder
  <2>6. OrderedLike(s, order, Path)
    BY <1>3, <1>4, <2>1, KeptOrderedLike
  <2>7. OrderedLike(u, order, Path)
    <3>1. OrderedLike(paths, order, NewFiles)
      <4>1. \A i \in DOMAIN paths : paths[i] \in Path
        BY <1>8, LenProperties
      <4>. QED  BY <1>8, <4>1 DEF OrderedLike
    <3>. QED  BY <1>4, <1>8, <2>1, <3>1, KeptOrderedLike
  <2>8. Range(s) = Range(u) /\ Range(s) \subseteq Range(order)
    BY <1>2, <1>3, <1>5, <1>8, <2>2, <2>3 DEF Files
  <2>9. s = u
    BY <1>4, <2>2, <2>3, <2>4, <2>5, <2>6, <2>7, <2>8, SameOrder
  <2>. QED  BY <1>2, <2>1, <2>9
<1>11. ASSUME NEW c \in Range(plan.file_changes)
       PROVE  c.path \in Range(written) /\ disk[c.path] = c.content
  <2>1. PICK p \in Changed : c = Change(p) /\ c.path = p
    BY <1>2
  <2>2. p \in Path /\ p \in Range(written) /\ p \notin Range(made)
    BY <1>2, <1>3, <1>5
  <2>3. disk[p] = Change(p).content
    BY <2>2 DEF Midway, Applied
  <2>. QED  BY <2>1, <2>2, <2>3
<1>12. \A d \in Range(plan.directories_to_create) : disk[d] = DIRECTORY
  <2>1. \A d \in Range(made) : d \in Path
    BY <1>3, <1>5
  <2>2. \A d \in Range(made) : disk[d] = DIRECTORY
    BY <2>1 DEF Midway, Applied
  <2>. QED  BY <1>6, <2>2
<1>. QED  BY <1>6, <1>9, <1>10, <1>11, <1>12 DEF DoneAsPlanned

-----------------------------------------------------------------------------
(* Every approved plan can be carried out                                   *)

NothingApplied == step = 1 /\ file = 1 /\ made = <<>> /\ written = <<>>

ApplyInv ==
  /\ StructureInv
  /\ pc \in {"planning", "asking", "revalidating"} => NothingApplied
  /\ pc = "applying" => \E v \in [Path -> Content] : Midway(v)
  /\ pc = "failed" => ReusesVacatedPath

LEMMA BeginsUntouched ==
  ASSUME PlanIsOverlay, Base, NothingApplied
  PROVE  Midway(disk)
<1>1. action_plans \in Seq(PlannedAction) /\ AskedOK /\ disk \in [Path -> Content]
  BY DEF PlanIsOverlay, OverlayType, StructureOK, Base
<1>2. PICK n \in Nat : n = Len(action_plans) /\ DOMAIN action_plans = 1..n
  BY <1>1, LenProperties
<1>3. ASSUME NEW k \in 1..n PROVE 1 \in DOMAIN action_plans[k].paths
  <2>1. Len(action_plans[k].paths) \in {1, 2}
    BY <1>1, <1>2 DEF AskedOK
  <2>2. action_plans[k].paths \in Seq(Path)
    <3>1. action_plans[k] \in PlannedAction
      BY <1>1, <1>2, LenProperties
    <3>. QED  BY <3>1 DEF PlannedAction
  <2>. QED  BY <2>1, <2>2, LenProperties
<1>4. Cursor
  <2>1. step = 1 /\ file = 1
    BY DEF NothingApplied
  <2>. QED  BY <1>2, <1>3, <2>1 DEF Cursor
<1>5. \A e \in Asked(action_plans) : ~Over(e)
  <2>1. \A e \in Asked(action_plans) : e.action \in 1..n /\ e.file \in {1, 2}
    BY <1>2 DEF Asked
  <2>. QED  BY <2>1 DEF Over, Before, At, NothingApplied
<1>6. MadeSoFar = {} /\ WrittenSoFar = {}
  BY <1>5 DEF MadeSoFar, WrittenSoFar
<1>7. StandsOn(disk)
  BY DEF StandsOn, Base, DiskOK
<1>8. /\ made \in Seq(Path) /\ IsInjective(made) /\ Range(made) = {}
      /\ written \in Seq(Path) /\ IsInjective(written) /\ Range(written) = {}
      /\ DOMAIN made = {} /\ DOMAIN written = {}
  BY ShortSequences DEF NothingApplied
<1>9. OrderedLike(made, created_directories, Path) /\ OrderedLike(written, order, NewFiles)
  BY <1>8 DEF OrderedLike
<1>10. Applied(disk)
  BY <1>6, <1>7, <1>8, <1>9 DEF Applied
<1>. QED  BY <1>1, <1>4, <1>10 DEF Midway

LEMMA ApplyInit == Init => ApplyInv
<1>. SUFFICES ASSUME Init PROVE ApplyInv
  OBVIOUS
<1>. QED  BY StructureInit DEF Init, ApplyInv, NothingApplied

LEMMA MidwayStep ==
  ASSUME NEW v, Midway(v), ApplyDirectory \/ ApplyFile
  PROVE  Midway(v)'
<1>1. SameOverlay /\ Forward /\ step <= Len(plan.actions)
  BY DEF ApplyDirectory, ApplyFile, SameOverlay, planner, Applying
<1>2. CASE ApplyDirectory
  BY <1>1, <1>2, DirectoryApplied
<1>3. CASE ApplyFile
  <2>1. Here.op # "create_directory"
    BY <1>3 DEF ApplyFile
  <2>2. CASE /\ ChangesOf(InHand) = {} \/ InHand \in Range(written)
             /\ UNCHANGED <<disk, made, written>>
    BY <1>1, <2>1, <2>2, FileUntouchedApplied
  <2>3. CASE /\ InHand \notin Range(written)
             /\ \E c \in ChangesOf(InHand) :
                  /\ disk' = [Make(disk, RequiredBy(c)) EXCEPT ![c.path] = c.content]
                  /\ made' = made \o RequiredBy(c)
             /\ written' = Append(written, InHand)
    BY <1>1, <2>1, <2>3, FileWrittenApplied
  <2>. QED  BY <1>3, <2>2, <2>3 DEF ApplyFile
<1>. QED  BY <1>2, <1>3

LEMMA ApplyStep ==
  ASSUME ApplyInv, Next
  PROVE  ApplyInv'
<1>1. StructureInv /\ StructureInv'
  BY StructureInvStep DEF ApplyInv
<1>2. CASE pc' \in {"refused", "stale", "done"}
  BY <1>1, <1>2 DEF ApplyInv
<1>3. ASSUME pc \in {"planning", "asking", "revalidating"},
             pc' \in {"planning", "asking", "revalidating"}, UNCHANGED execution
      PROVE  ApplyInv'
  <2>1. NothingApplied'
    BY <1>3 DEF ApplyInv, NothingApplied, execution
  <2>. QED  BY <1>1, <1>3, <2>1 DEF ApplyInv
<1>4. CASE PlanNext \/ CompletePlan \/ UserEdit \/ Revalidate \/ ReplanNext
  <2>1. /\ pc \in {"planning", "asking", "revalidating"}
        /\ pc' \in {"planning", "asking", "revalidating"} /\ UNCHANGED execution
    BY <1>4 DEF PlanNext, CompletePlan, UserEdit, Revalidate, ReplanNext, execution
  <2>. QED  BY <1>3, <2>1
<1>5. CASE PlanningError \/ Decline \/ ReplanFails \/ Stale \/ Finish
  <2>1. pc' \in {"refused", "stale", "done"}
    BY <1>5 DEF PlanningError, Decline, ReplanFails, Stale, Finish, End
  <2>. QED  BY <1>2, <2>1
<1>6. CASE Accept
  <2>1. /\ pc = "revalidating" /\ pc' = "applying" /\ UNCHANGED <<disk, execution, plan, planner>>
        /\ plan = Plan
    BY <1>6 DEF Accept, SamePlan
  <2>2. Base /\ StructureOK /\ NothingApplied
    BY <1>1, <2>1 DEF ApplyInv, StructureInv, Planning, PlanningInv
  <2>3. PlanIsOverlay
    BY <2>1, <2>2, OldFilesPlaces DEF PlanIsOverlay, Base, Plan
  <2>4. PICK v \in [Path -> Content] : v = disk
    BY <2>2 DEF Base
  <2>5. Midway(v)
    BY <2>2, <2>3, <2>4, BeginsUntouched
  <2>6. Midway(v)'
    <3>1. SameOverlay
      BY <2>1 DEF SameOverlay, planner
    <3>2. /\ PlanIsOverlay' /\ StandsOn(v)' /\ NewFiles' = NewFiles /\ Changed' = Changed
          /\ PlannedDirectories' = PlannedDirectories /\ \A p : Change(p)' = Change(p)
      BY <2>5, <3>1, OverlayStays DEF Midway, Applied
    <3>3. UNCHANGED <<disk, step, file, made, written, action_plans, order, created_directories>>
      BY <2>1, <3>1 DEF execution, SameOverlay
    <3>4. Cursor'
      BY <2>5, <3>3 DEF Cursor, Midway
    <3>5. MadeSoFar' = MadeSoFar /\ WrittenSoFar' = WrittenSoFar
      BY <3>2, <3>3 DEF MadeSoFar, WrittenSoFar, Over, At
    <3>6. Applied(v)'
      BY <2>5, <3>2, <3>3, <3>5 DEF Midway, Applied
    <3>. QED  BY <2>5, <3>2, <3>3, <3>4, <3>6 DEF Midway
  <2>. QED  BY <1>1, <2>1, <2>6 DEF ApplyInv
<1>7. CASE ApplyDirectory \/ ApplyFile
  <2>1. pc = "applying" /\ pc' = "applying"
    BY <1>7 DEF ApplyDirectory, ApplyFile, Applying
  <2>2. PICK v \in [Path -> Content] : Midway(v)
    BY <2>1 DEF ApplyInv
  <2>3. Midway(v)'
    BY <1>7, <2>2, MidwayStep
  <2>. QED  BY <1>1, <2>1, <2>3 DEF ApplyInv
<1>8. CASE FinishFails
  <2>1. pc = "applying" /\ pc' = "failed" /\ step > Len(plan.actions) /\ ~DoneAsPlanned
        /\ UNCHANGED plan
    BY <1>8 DEF FinishFails, End
  <2>2. PICK v \in [Path -> Content] : Midway(v)
    BY <2>1 DEF ApplyInv
  <2>3. ReusesVacatedPath
    BY <2>1, <2>2, AllDoneAsPlanned
  <2>4. ReusesVacatedPath'
    BY <2>1, <2>3 DEF ReusesVacatedPath, DeclaredDirectories
  <2>. QED  BY <1>1, <2>1, <2>4 DEF ApplyInv
<1>. QED  BY <1>4, <1>5, <1>6, <1>7, <1>8 DEF Next

LEMMA ApplyInvariant == Spec => []ApplyInv
<1>1. ApplyInv /\ UNCHANGED vars => ApplyInv'
  <2>. SUFFICES ASSUME ApplyInv, UNCHANGED vars PROVE ApplyInv'
    OBVIOUS
  <2>1. SameOverlay /\ UNCHANGED <<disk, pc, step, file, made, written>>
    BY DEF vars, planner, execution, SameOverlay
  <2>2. StructureInv'
    <3>1. PlanningInv'
      BY PlanningStutter DEF ApplyInv, StructureInv
    <3>. QED  BY <2>1, <3>1, OverlayKept DEF ApplyInv, StructureInv, Planning, SameOverlay
  <2>3. ASSUME NEW v, Midway(v) PROVE Midway(v)'
    <3>1. /\ PlanIsOverlay' /\ StandsOn(v)' /\ NewFiles' = NewFiles /\ Changed' = Changed
          /\ PlannedDirectories' = PlannedDirectories /\ \A p : Change(p)' = Change(p)
      BY <2>1, <2>3, OverlayStays DEF Midway, Applied
    <3>2. UNCHANGED <<action_plans, order, created_directories>>
      BY <2>1 DEF SameOverlay
    <3>3. Cursor'
      BY <2>1, <2>3, <3>2 DEF Cursor, Midway
    <3>4. MadeSoFar' = MadeSoFar /\ WrittenSoFar' = WrittenSoFar
      BY <2>1, <3>1, <3>2 DEF MadeSoFar, WrittenSoFar, Over, At
    <3>5. Applied(v)'
      BY <2>1, <2>3, <3>1, <3>2, <3>4 DEF Midway, Applied
    <3>. QED  BY <2>1, <2>3, <3>1, <3>3, <3>5 DEF Midway
  <2>4. NothingApplied => NothingApplied'
    BY <2>1 DEF NothingApplied
  <2>5. ReusesVacatedPath => ReusesVacatedPath'
    BY <2>1 DEF SameOverlay, ReusesVacatedPath, DeclaredDirectories
  <2>6. pc' = pc
    BY <2>1
  <2>. QED  BY <2>2, <2>3, <2>4, <2>5, <2>6 DEF ApplyInv
<1>2. ApplyInv /\ [Next]_vars => ApplyInv'
  BY <1>1, ApplyStep
<1>. QED  BY <1>2, ApplyInit, PTL DEF Spec

(* A plan that was accepted can be carried out, effect by effect, although  *)
(* the actions are merged into net changes: each directory and each file    *)
(* finds its place ready.  It fails its verification at the end only when   *)
(* it makes a directory where a file was moved from; when it is done, the   *)
(* workspace is what performing the actions one by one would have left, and *)
(* the tools are pointed at files that are there.                           *)
THEOREM AcceptedPlansApply == Spec => []AcceptedPlanApplies
<1>1. ApplyInv /\ ConsentInv => AcceptedPlanApplies
  <2>. SUFFICES ASSUME ApplyInv, ConsentInv PROVE AcceptedPlanApplies
    OBVIOUS
  <2>1. Applying => EffectPossible
    <3>. SUFFICES ASSUME Applying PROVE EffectPossible
      OBVIOUS
    <3>1. PICK v \in [Path -> Content] : Midway(v)
      BY DEF Applying, ApplyInv
    <3>. QED  BY <3>1, EffectsArePossible DEF Applying
  <2>2. pc = "failed" => ReusesVacatedPath
    BY DEF ApplyInv
  <2>3. ASSUME pc = "done"
        PROVE  /\ disk = world
               /\ \A p \in plan.checks :
                    disk[p] # MISSING /\ (check.name = "ruff" => disk[p] \in Text)
               /\ \A p \in plan.formatting_targets : disk[p] \in Text
    <3>1. /\ disk \in [Path -> Content] /\ world \in [Path -> Content] /\ IsPlan(plan)
      BY DEF ConsentInv, PlanningInv
    <3>2. PICK v \in [Path -> Content] :
            /\ Promises(plan, world, v)
            /\ \A p \in Undeclared : disk[p] = v[p]
            /\ Served(plan, world)
      BY <2>3 DEF ConsentInv
    <3>3. ASSUME NEW p \in Path PROVE disk[p] = world[p]
      <4>1. CASE p \in DeclaredFiles \cup DeclaredDirectories
        BY <2>3, <3>2, <4>1, DoneHolds
      <4>2. CASE p \in Undeclared
        BY <3>2, <4>2, DeclaredPaths DEF Promises, Undeclared
      <4>. QED  BY <3>3, <4>1, <4>2 DEF Undeclared
    <3>4. disk = world
      BY <3>1, <3>3
    <3>5. \A p \in plan.checks :
            disk[p] # MISSING /\ (check.name = "ruff" => disk[p] \in Text)
      BY <3>2, <3>4 DEF Served
    <3>6. ASSUME NEW p \in plan.formatting_targets PROVE disk[p] \in Text
      <4>1. PICK c \in Range(plan.file_changes) : c.path = p /\ c.content \in Text
        BY <3>2 DEF Served
      <4>2. disk[c.path] = c.content
        BY <2>3 DEF ConsentInv
      <4>. QED  BY <4>1, <4>2
    <3>. QED  BY <3>4, <3>5, <3>6
  <2>. QED  BY <2>1, <2>2, <2>3 DEF AcceptedPlanApplies
<1>. QED  BY <1>1, ApplyInvariant, ConsentInvariant, PTL
=============================================================================
