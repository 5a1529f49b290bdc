--------------------------- MODULE SegmentsProofs ---------------------------
(***************************************************************************)
(* What the operators of module Segments return, for every recording: the  *)
(* lemmas the theorems of RecorderProofs rest on.                          *)
(*                                                                         *)
(* Segmentation walks a recording and concatenates what it finds, so the   *)
(* facts needed are inductive: the pieces of a walk follow each other from *)
(* the first operation to behind the last (StartsWalk), and what is        *)
(* concatenated per piece is what would be concatenated per operation      *)
(* (Regroup).  The induction is over sets of numbers: LeastNumber gives    *)
(* the least counterexample, from the well-foundedness of strict inclusion *)
(* on finite sets.  FlattenSeq is a fold; FlattenSums states it as partial *)
(* sums, and the other Flatten lemmas follow from that form.               *)
(***************************************************************************)
EXTENDS Segments, FiniteSetTheorems, SequenceTheorems, WellFoundedInduction, TLAPS

-----------------------------------------------------------------------------
(* Induction.  A set of numbers has a least member, so what holds of a     *)
(* number whenever it holds of those before it, or behind it, holds of all.*)

LEMMA LeastNumber ==
    ASSUME NEW T \in SUBSET Nat, T # {}
    PROVE  \E m \in T : \A k \in T : m <= k
<1> DEFINE D == {0..k : k \in T}
           L == FiniteSubsetsOf(Nat)
<1>1. IsWellFoundedOn(StrictSubsetOrdering(Nat), L)
  BY FS_StrictSubsetOrderingWellFounded
<1>2. D \subseteq L /\ D # {}
  <2>1. ASSUME NEW k \in T PROVE 0..k \in L
    <3>1. k \in Int /\ 0..k \in SUBSET Nat
      OBVIOUS
    <3>2. IsFiniteSet(0..k)
      BY <3>1, FS_Interval
    <3> QED  BY <3>1, <3>2 DEF FiniteSubsetsOf
  <2> QED  BY <2>1
<1>3. \E x \in D : \A y \in D : ~(<<y, x>> \in StrictSubsetOrdering(Nat))
  <2> HIDE DEF D, L
  <2> QED  BY <1>1, <1>2, WFMin
<1>4. PICK m \in T : \A k \in T : ~(<<0..k, 0..m>> \in StrictSubsetOrdering(Nat))
  BY <1>3
<1>5. ASSUME NEW k \in T, k < m PROVE FALSE
  <2>1. m \in 0..m /\ m \notin 0..k
    BY <1>5
  <2>2. 0..k \subseteq 0..m /\ 0..k # 0..m /\ 0..k \subseteq Nat /\ 0..m \subseteq Nat
    BY <1>5, <2>1
  <2> QED  BY <1>4, <2>2, FS_Interval DEF StrictSubsetOrdering, FiniteSubsetsOf
<1> QED  BY <1>5

LEMMA UpwardInduction ==
    ASSUME NEW n \in Nat, NEW S,
           \A i \in 0..n : (\A j \in 0..(i - 1) : j \in S) => i \in S
    PROVE  \A i \in 0..n : i \in S
<1> DEFINE Bad == {i \in 0..n : i \notin S}
<1> SUFFICES ASSUME Bad # {} PROVE FALSE
  OBVIOUS
<1>1. Bad \in SUBSET Nat
  OBVIOUS
<1>2. PICK m \in Bad : \A k \in Bad : m <= k
  <2> HIDE DEF Bad
  <2> QED  BY <1>1, LeastNumber
<1> QED  BY <1>2

LEMMA DownwardInduction ==
    ASSUME NEW n \in Nat, NEW S,
           \A i \in 1..n : (\A j \in (i + 1)..n : j \in S) => i \in S
    PROVE  \A i \in 1..n : i \in S
<1> DEFINE Bad == {k \in 0..n : k # n /\ n - k \notin S}
<1>1. Bad = {}
  <2> SUFFICES ASSUME Bad # {} PROVE FALSE
    OBVIOUS
  <2>1. Bad \in SUBSET Nat
    OBVIOUS
  <2>2. PICK m \in Bad : \A k \in Bad : m <= k
    <3> HIDE DEF Bad
    <3> QED  BY <2>1, LeastNumber
  <2>3. ASSUME NEW j \in (n - m + 1)..n PROVE j \in S
    <3>1. n - j \in 0..n /\ n - j < m /\ n - (n - j) = j /\ n - j # n
      OBVIOUS
    <3>2. n - j \notin Bad
      BY <2>2, <3>1
    <3> QED  BY <3>1, <3>2
  <2>4. n - m \in 1..n
    OBVIOUS
  <2> QED  BY <2>2, <2>3, <2>4
<1>2. ASSUME NEW i \in 1..n PROVE i \in S
  <2>1. n - i \in 0..n /\ n - i # n /\ n - (n - i) = i
    OBVIOUS
  <2> QED  BY <1>1, <2>1
<1> QED  BY <1>2

-----------------------------------------------------------------------------
(* FlattenSeq.  F is the flattening of s, one sequence after the other.    *)

Sums(S, s, F) ==
    /\ F \in [0..Len(s) -> Seq(S)]
    /\ F[0] = <<>>
    /\ \A i \in 1..Len(s) : F[i] = F[i - 1] \o s[i]

LEMMA FlattenSums ==
    ASSUME NEW S, NEW s \in Seq(Seq(S))
    PROVE  \E F : Sums(S, s, F) /\ FlattenSeq(s) = F[Len(s)]
<1> DEFINE n == Len(s)
           Partial(m, F) == /\ F \in [0..m -> Seq(S)]
                            /\ F[0] = <<>>
                            /\ \A i \in 1..m : F[i] = F[i - 1] \o s[i]
           Good == {m \in 0..n : \E F : Partial(m, F)}
<1>1. n \in Nat /\ \A i \in 1..n : s[i] \in Seq(S)
  BY ElementOfSeq
<1>2. ASSUME NEW m \in 0..n, \A j \in 0..(m - 1) : j \in Good PROVE m \in Good
  <2>1. CASE m = 0
    <3>1. Partial(0, [i \in 0..0 |-> <<>>])
      BY EmptySeq
    <3> HIDE DEF Partial
    <3> QED  BY <1>1, <2>1, <3>1
  <2>2. CASE m # 0
    <3>1. m - 1 \in 0..n /\ m - 1 \in 0..(m - 1) /\ m \in 1..n
      BY <1>1, <2>2
    <3>2. PICK F : Partial(m - 1, F)
      BY <1>2, <3>1
    <3> DEFINE G == [i \in 0..m |-> IF i = m THEN F[m - 1] \o s[m] ELSE F[i]]
    <3>3. F[m - 1] \in Seq(S) /\ s[m] \in Seq(S)
      BY <1>1, <3>1, <3>2
    <3>4. F[m - 1] \o s[m] \in Seq(S)
      BY <3>3, ConcatProperties
    <3>5. G \in [0..m -> Seq(S)]
      BY <3>1, <3>2, <3>4
    <3>6. ASSUME NEW i \in 1..m PROVE G[i] = G[i - 1] \o s[i]
      <4>1. i - 1 \in 0..(m - 1) /\ i - 1 # m /\ i - 1 \in 0..m
        BY <3>1
      <4>2. G[i - 1] = F[i - 1]
        BY <4>1
      <4>3. CASE i = m
        <5>1. m \in 0..m /\ G[m] = F[m - 1] \o s[m]
          <6>1. m \in 0..m
            BY <3>1
          <6> QED  BY <6>1
        <5> HIDE DEF G
        <5> QED  BY <4>2, <4>3, <5>1
      <4>4. CASE i # m
        <5>1. i \in 1..(m - 1)
          BY <3>1, <4>4
        <5>2. F[i] = F[i - 1] \o s[i]
          BY <3>2, <5>1
        <5>3. G[i] = F[i]
          BY <4>4
        <5> HIDE DEF G
        <5> QED  BY <4>2, <5>2, <5>3
      <4> QED  BY <4>3, <4>4
    <3>7. G[0] = <<>>
      BY <2>2, <3>2
    <3> HIDE DEF G
    <3> QED  BY <3>5, <3>6, <3>7
  <2> QED  BY <2>1, <2>2
<1>3. PICK F : Sums(S, s, F)
  <2>1. n \in Good
    <3> HIDE DEF Good
    <3>1. \A i \in 0..n : i \in Good
      BY <1>1, <1>2, UpwardInduction
    <3> QED  BY <1>1, <3>1
  <2> QED  BY <2>1 DEF Sums
<1>4. CASE n = 0
  <2>1. s = <<>>
    BY <1>4, EmptySeq
  <2>2. FlattenSeq(s) = s
    BY <1>4, Zenon DEF FlattenSeq
  <2> QED  BY <1>3, <1>4, <2>1, <2>2 DEF Sums
<1>5. CASE n # 0
  <2> DEFINE Equation(g) == g = [i \in 1..n |-> IF i = 1 THEN s[i] ELSE g[i - 1] \o s[i]]
             flatten == CHOOSE g : Equation(g)
             R == [i \in 1..n |-> F[i]]
  <2>1. FlattenSeq(s) = flatten[n]
    BY <1>5, Zenon DEF FlattenSeq
  <2>2. Equation(R)
    <3>1. ASSUME NEW i \in 1..n
          PROVE  F[i] = IF i = 1 THEN s[i] ELSE R[i - 1] \o s[i]
      <4>1. CASE i = 1
        <5>4. F[i] = F[i - 1] \o s[i] /\ F[0] = <<>>
          BY <1>3 DEF Sums
        <5>1. i - 1 = 0 /\ F[i] = F[0] \o s[i]
          <6>1. F[1] = F[1 - 1] \o s[1] /\ 1 - 1 = 0
            BY <4>1, <5>4
          <6> QED  BY ONLY <4>1, <6>1
        <5>2. PICK x \in Seq(S) : x = s[i]
          BY <1>1
        <5>3. <<>> \o x = x
          BY ConcatEmptySeq
        <5> QED  BY <4>1, <5>1, <5>2, <5>3, <5>4
      <4>2. CASE i # 1
        <5>1. i - 1 \in 1..n
          BY <1>1, <4>2
        <5>2. F[i] = F[i - 1] \o s[i]
          BY <1>3 DEF Sums
        <5> QED  BY <4>2, <5>1, <5>2
      <4> QED  BY <4>1, <4>2
    <3> QED  BY <3>1
  <2>3. Equation(flatten)
    <3> HIDE DEF Equation, R
    <3> QED  BY <2>2
  <2> HIDE DEF flatten
  <2> DEFINE Same == {i \in 0..n : i # 0 => flatten[i] = F[i]}
  <2>4. ASSUME NEW i \in 0..n, \A j \in 0..(i - 1) : j \in Same PROVE i \in Same
    <3>1. CASE i = 0
      BY <3>1
    <3>2. CASE i = 1
      <4>1. flatten[1] = s[1]
        BY <1>1, <2>3, <3>2
      <4>3. i \in 1..n
        BY <1>1, <1>5, <3>2
      <4>6. F[i] = F[i - 1] \o s[i] /\ F[0] = <<>>
        BY <1>3, <4>3 DEF Sums
      <4>2. F[0] = <<>> /\ F[i] = F[0] \o s[i]
        <5>1. F[1] = F[1 - 1] \o s[1] /\ 1 - 1 = 0
          BY <3>2, <4>6
        <5> QED  BY ONLY <3>2, <4>6, <5>1
      <4>4. PICK x \in Seq(S) : x = s[i]
        BY <1>1, <4>3
      <4>5. <<>> \o x = x
        BY ConcatEmptySeq
      <4> QED  BY <3>2, <4>1, <4>2, <4>4, <4>5
    <3>3. CASE i \notin {0, 1}
      <4>1. i \in 1..n /\ i - 1 \in 0..(i - 1) /\ i - 1 # 0
        BY <1>1, <3>3
      <4>2. flatten[i] = flatten[i - 1] \o s[i]
        BY <2>3, <3>3, <4>1
      <4>3. F[i] = F[i - 1] \o s[i]
        BY <1>3, <4>1 DEF Sums
      <4> QED  BY <2>4, <4>1, <4>2, <4>3
    <3> QED  BY <3>1, <3>2, <3>3
  <2>5. n \in Same
    <3> HIDE DEF Same
    <3>1. \A i \in 0..n : i \in Same
      BY <1>1, <2>4, UpwardInduction
    <3> QED  BY <1>1, <3>1
  <2> QED  BY <1>3, <1>5, <2>1, <2>5
<1> QED  BY <1>3, <1>4, <1>5

(* The flattening of a sequence that starts like another one does.         *)
LEMMA SumsAgree ==
    ASSUME NEW S, NEW s, NEW t, Len(s) \in Nat, Len(t) \in Nat, Len(s) <= Len(t),
           \A i \in 1..Len(s) : t[i] = s[i],
           NEW F \in [0..Len(s) -> Seq(S)], Sums(S, s, F),
           NEW G \in [0..Len(t) -> Seq(S)], Sums(S, t, G)
    PROVE  G[Len(s)] = F[Len(s)]
<1> DEFINE Same == {i \in 0..Len(s) : G[i] = F[i]}
<1>1. ASSUME NEW i \in 0..Len(s), \A j \in 0..(i - 1) : j \in Same PROVE i \in Same
  <2>1. CASE i = 0
    BY <2>1 DEF Sums
  <2>2. CASE i # 0
    <3>1. i \in 1..Len(s) /\ i \in 1..Len(t) /\ i - 1 \in 0..(i - 1)
      BY <2>2
    <3>2. F[i] = F[i - 1] \o s[i] /\ G[i] = G[i - 1] \o t[i]
      BY <3>1 DEF Sums
    <3>3. G[i - 1] = F[i - 1]
      BY <1>1, <3>1
    <3> QED  BY <3>1, <3>2, <3>3
  <2> QED  BY <2>1, <2>2
<1>2. \A i \in 0..Len(s) : i \in Same
  <2> HIDE DEF Same
  <2> QED  BY <1>1, UpwardInduction
<1> QED  BY <1>2

LEMMA FlattenType ==
    ASSUME NEW S, NEW s \in Seq(Seq(S))
    PROVE  FlattenSeq(s) \in Seq(S)
<1>1. PICK F : Sums(S, s, F) /\ FlattenSeq(s) = F[Len(s)]
  BY FlattenSums
<1>2. Len(s) \in 0..Len(s)
  OBVIOUS
<1> QED  BY <1>1, <1>2 DEF Sums

LEMMA FlattenEmpty == FlattenSeq(<<>>) = <<>>
<1>1. Len(<<>>) = 0
  OBVIOUS
<1> QED  BY <1>1, Zenon DEF FlattenSeq

LEMMA FlattenAppend ==
    ASSUME NEW S, NEW s \in Seq(Seq(S)), NEW x \in Seq(S)
    PROVE  FlattenSeq(Append(s, x)) = FlattenSeq(s) \o x
<1> DEFINE t == Append(s, x)
<1>1. t \in Seq(Seq(S)) /\ Len(s) \in Nat /\ Len(t) = Len(s) + 1 /\ t[Len(t)] = x
      /\ \A i \in 1..Len(s) : t[i] = s[i]
  OBVIOUS
<1> HIDE DEF t
<1>2. PICK F : Sums(S, s, F) /\ FlattenSeq(s) = F[Len(s)]
  BY FlattenSums
<1>3. PICK G : Sums(S, t, G) /\ FlattenSeq(t) = G[Len(t)]
  BY <1>1, FlattenSums
<1>4. G[Len(s)] = F[Len(s)]
  <2>1. Len(s) <= Len(t) /\ Len(t) \in Nat /\ Len(s) \in 0..Len(s)
    BY <1>1
  <2>3. Sums(S, s, F) /\ Sums(S, t, G) /\ (\A i \in 1..Len(s) : t[i] = s[i])
        /\ Len(s) \in Nat
    BY <1>1, <1>2, <1>3
  <2>4. F \in [0..Len(s) -> Seq(S)] /\ G \in [0..Len(t) -> Seq(S)]
    BY <2>3 DEF Sums
  <2> QED  BY <2>1, <2>3, <2>4, SumsAgree
<1>5. G[Len(t)] = G[Len(t) - 1] \o t[Len(t)] /\ Len(t) - 1 = Len(s)
  <2>1. Len(t) \in 1..Len(t) /\ Len(t) - 1 = Len(s)
    BY <1>1
  <2> QED  BY <1>3, <2>1 DEF Sums
<1>6. FlattenSeq(t) = FlattenSeq(s) \o x
  BY <1>1, <1>2, <1>3, <1>4, <1>5
<1> QED  BY <1>6 DEF t

LEMMA FlattenOne ==
    ASSUME NEW S, NEW x \in Seq(S)
    PROVE  FlattenSeq(<<x>>) = x
<1>1. <<>> \in Seq(Seq(S)) /\ Append(<<>>, x) = <<x>>
  OBVIOUS
<1>2. FlattenSeq(<<x>>) = <<>> \o x
  BY <1>1, FlattenAppend, FlattenEmpty
<1> QED  BY <1>2, ConcatEmptySeq

(* Flattening distributes over concatenation.                              *)
LEMMA FlattenConcat ==
    ASSUME NEW S, NEW s \in Seq(Seq(S)), NEW t \in Seq(Seq(S))
    PROVE  FlattenSeq(s \o t) = FlattenSeq(s) \o FlattenSeq(t)
<1> DEFINE m == Len(s)  n == Len(t)  u == s \o t
<1>1. u \in Seq(Seq(S)) /\ Len(u) = m + n /\ m \in Nat /\ n \in Nat
      /\ (\A i \in 1..m : u[i] = s[i]) /\ (\A i \in 1..n : u[m + i] = t[i])
  BY ConcatProperties
<1> HIDE DEF u
<1>2. PICK F : Sums(S, s, F) /\ FlattenSeq(s) = F[m]
  BY FlattenSums
<1>3. PICK G : Sums(S, t, G) /\ FlattenSeq(t) = G[n]
  BY FlattenSums
<1>4. PICK H : Sums(S, u, H) /\ FlattenSeq(u) = H[m + n]
  BY <1>1, FlattenSums
<1>5. H[m] = F[m]
  <2>1. m <= Len(u) /\ Len(u) \in Nat /\ m \in 0..m
    BY <1>1
  <2>3. Sums(S, s, F) /\ Sums(S, u, H) /\ (\A i \in 1..m : u[i] = s[i]) /\ m \in Nat
    BY <1>1, <1>2, <1>4
  <2>4. F \in [0..m -> Seq(S)] /\ H \in [0..Len(u) -> Seq(S)]
    BY <2>3 DEF Sums
  <2> QED  BY <2>1, <2>3, <2>4, SumsAgree
<1>6. F[m] \in Seq(S) /\ \A i \in 0..n : G[i] \in Seq(S)
  <2>1. m \in 0..m
    BY <1>1
  <2>2. F \in [0..m -> Seq(S)] /\ G \in [0..n -> Seq(S)]
    BY <1>2, <1>3 DEF Sums
  <2> QED  BY <2>1, <2>2
<1> DEFINE Same == {i \in 0..n : H[m + i] = F[m] \o G[i]}
<1>7. ASSUME NEW i \in 0..n, \A j \in 0..(i - 1) : j \in Same PROVE i \in Same
  <2>1. CASE i = 0
    <3>1. G[0] = <<>> /\ H[m + 0] = H[m]
      BY <1>1, <1>3 DEF Sums
    <3>2. F[m] \o <<>> = F[m]
      BY <1>6, ConcatEmptySeq
    <3> QED  BY <1>5, <2>1, <3>1, <3>2
  <2>2. CASE i # 0
    <3>1. i \in 1..n /\ m + i \in 1..(m + n) /\ (m + i) - 1 = m + (i - 1)
          /\ i - 1 \in 0..(i - 1) /\ i - 1 \in 0..n
      BY <1>1, <2>2
    <3>2. H[m + i] = H[m + (i - 1)] \o t[i] /\ G[i] = G[i - 1] \o t[i]
      BY <1>1, <1>3, <1>4, <3>1 DEF Sums
    <3>3. H[m + (i - 1)] = F[m] \o G[i - 1]
      BY <1>7, <3>1
    <3>4. G[i - 1] \in Seq(S) /\ t[i] \in Seq(S)
      BY <1>6, <3>1, ElementOfSeq
    <3>6. F[m] \in Seq(S)
      BY <1>6
    <3>7. PICK a \in Seq(S), b \in Seq(S), c \in Seq(S) :
              a = F[m] /\ b = G[i - 1] /\ c = t[i]
      BY <3>4, <3>6
    <3>8. (a \o b) \o c = a \o (b \o c)
      <4>1. a \in Seq(S) /\ b \in Seq(S) /\ c \in Seq(S)
        OBVIOUS
      <4> QED  BY <4>1, ConcatAssociative, SMTT(30)
    <3>5. (F[m] \o G[i - 1]) \o t[i] = F[m] \o (G[i - 1] \o t[i])
      BY <3>7, <3>8
    <3> QED  BY <3>1, <3>2, <3>3, <3>5
  <2> QED  BY <2>1, <2>2
<1>8. n \in Same
  <2> HIDE DEF Same
  <2>1. \A i \in 0..n : i \in Same
    BY <1>1, <1>7, UpwardInduction
  <2> QED  BY <1>1, <2>1
<1> QED  BY <1>2, <1>3, <1>4, <1>8 DEF u

LEMMA RangeOfConcat ==
    ASSUME NEW S, NEW s \in Seq(S), NEW t \in Seq(S), NEW x
    PROVE  x \in ToSet(s \o t) <=> x \in ToSet(s) \/ x \in ToSet(t)
<1>1. /\ s \o t \in Seq(S) /\ Len(s \o t) = Len(s) + Len(t)
      /\ \A i \in 1..Len(s) + Len(t) :
             (s \o t)[i] = IF i <= Len(s) THEN s[i] ELSE t[i - Len(s)]
  BY ConcatProperties
<1>2. Len(s) \in Nat /\ Len(t) \in Nat
  OBVIOUS
<1> DEFINE u == s \o t
<1>3. DOMAIN u = 1..(Len(s) + Len(t)) /\ DOMAIN s = 1..Len(s) /\ DOMAIN t = 1..Len(t)
  BY <1>1, LenProperties
<1> HIDE DEF u
<1>4. ASSUME NEW i \in 1..Len(s) + Len(t) PROVE u[i] \in ToSet(s) \cup ToSet(t)
  <2>1. CASE i <= Len(s)
    BY <1>1, <1>2, <1>3, <2>1 DEF ToSet, u
  <2>2. CASE ~(i <= Len(s))
    <3>1. i - Len(s) \in 1..Len(t)
      BY <1>2, <2>2
    <3> QED  BY <1>1, <1>3, <2>2, <3>1 DEF ToSet, u
  <2> QED  BY <2>1, <2>2
<1>5. ASSUME NEW i \in 1..Len(s) PROVE s[i] \in ToSet(u)
  BY <1>1, <1>2, <1>3 DEF ToSet, u
<1>6. ASSUME NEW i \in 1..Len(t) PROVE t[i] \in ToSet(u)
  <2>1. Len(s) + i \in 1..Len(s) + Len(t) /\ ~(Len(s) + i <= Len(s)) /\ (Len(s) + i) - Len(s) = i
    BY <1>2
  <2>2. u[Len(s) + i] = t[i]
    BY <1>1, <2>1 DEF u
  <2> QED  BY <1>3, <2>1, <2>2 DEF ToSet
<1>7. x \in ToSet(u) => x \in ToSet(s) \cup ToSet(t)
  BY <1>3, <1>4 DEF ToSet
<1>8. x \in ToSet(s) \/ x \in ToSet(t) => x \in ToSet(u)
  <2>1. \A y : y \in ToSet(s) => \E i \in 1..Len(s) : y = s[i]
    BY <1>3 DEF ToSet
  <2>2. \A y : y \in ToSet(t) => \E i \in 1..Len(t) : y = t[i]
    BY <1>3 DEF ToSet
  <2> QED  BY <1>5, <1>6, <2>1, <2>2
<1> QED  BY <1>7, <1>8 DEF u

(* What a flattening holds.                                                *)
LEMMA FlattenRange ==
    ASSUME NEW S, NEW s \in Seq(Seq(S)), NEW x
    PROVE  x \in ToSet(FlattenSeq(s)) <=> \E i \in 1..Len(s) : x \in ToSet(s[i])
<1>1. PICK F : Sums(S, s, F) /\ FlattenSeq(s) = F[Len(s)]
  BY FlattenSums
<1>2. Len(s) \in Nat /\ \A i \in 1..Len(s) : s[i] \in Seq(S)
  BY ElementOfSeq
<1> DEFINE Good == {n \in 0..Len(s) : x \in ToSet(F[n]) <=> \E i \in 1..n : x \in ToSet(s[i])}
<1>3. ASSUME NEW n \in 0..Len(s), \A j \in 0..(n - 1) : j \in Good PROVE n \in Good
  <2>1. CASE n = 0
    BY <1>1, <2>1 DEF Sums, ToSet
  <2>2. CASE n # 0
    <3>1. n \in 1..Len(s) /\ n - 1 \in 0..(n - 1) /\ n - 1 \in 0..Len(s)
      BY <1>2, <2>2
    <3>2. F[n] = F[n - 1] \o s[n] /\ F[n - 1] \in Seq(S) /\ s[n] \in Seq(S)
      BY <1>1, <1>2, <3>1 DEF Sums
    <3>3. x \in ToSet(F[n]) <=> x \in ToSet(F[n - 1]) \/ x \in ToSet(s[n])
      BY <3>2, RangeOfConcat
    <3>4. x \in ToSet(F[n - 1]) <=> \E i \in 1..(n - 1) : x \in ToSet(s[i])
      BY <1>3, <3>1
    <3>5. 1..n = (1..(n - 1)) \cup {n}
      BY <3>1
    <3> QED  BY <3>3, <3>4, <3>5
  <2> QED  BY <2>1, <2>2
<1>4. Len(s) \in Good
  <2> HIDE DEF Good
  <2>1. \A i \in 0..Len(s) : i \in Good
    BY <1>2, <1>3, UpwardInduction
  <2> QED  BY <1>2, <2>1
<1> QED  BY <1>1, <1>4

-----------------------------------------------------------------------------
(* The walk over the operations of one buffer.                             *)

LEMMA FirstOfIs ==
    ASSUME NEW O, NEW ops \in Seq(O), NEW i \in 1..Len(ops) + 1, NEW K
    PROVE  /\ FirstOf(ops, i, K) \in i..Len(ops) + 1
           /\ \A k \in i..FirstOf(ops, i, K) - 1 : ops[k].kind \notin K
           /\ FirstOf(ops, i, K) <= Len(ops) => ops[FirstOf(ops, i, K)].kind \in K
<1> DEFINE found == {k \in i..Len(ops) : ops[k].kind \in K}
<1>1. Len(ops) \in Nat /\ found \in SUBSET Nat
  OBVIOUS
<1>2. CASE found = {}
  <2>1. FirstOf(ops, i, K) = Len(ops) + 1
    BY <1>2 DEF FirstOf
  <2>2. \A k \in i..Len(ops) : ops[k].kind \notin K
    BY <1>2
  <2> QED  BY <1>1, <2>1, <2>2
<1>3. CASE found # {}
  <2> DEFINE first == CHOOSE k \in found : \A m \in found : k <= m
  <2>1. FirstOf(ops, i, K) = first
    BY <1>3 DEF FirstOf
  <2>2. \E k \in found : \A m \in found : k <= m
    <3> HIDE DEF found
    <3> QED  BY <1>1, <1>3, LeastNumber
  <2>3. first \in found /\ \A m \in found : first <= m
    <3> HIDE DEF found
    <3> QED  BY <2>2
  <2> HIDE DEF first
  <2>4. first \in i..Len(ops) /\ ops[first].kind \in K
    BY <2>3
  <2>5. ASSUME NEW k \in i..first - 1 PROVE ops[k].kind \notin K
    <3>1. k \in i..Len(ops) /\ ~(first <= k)
      BY <1>1, <2>4
    <3> QED  BY <2>3, <3>1
  <2> QED  BY <1>1, <2>1, <2>4, <2>5
<1> QED  BY <1>2, <1>3

LEMMA PassEndIs ==
    ASSUME NEW O, NEW ops \in Seq(O), NEW i \in 1..Len(ops)
    PROVE  /\ PassEnd(ops, i) \in i + 1..Len(ops) + 1
           /\ \A k \in i + 1..PassEnd(ops, i) - 1 : ops[k].kind # "end"
           /\ PassEnd(ops, i) <= Len(ops) => ops[PassEnd(ops, i)].kind = "end"
<1>1. i + 1 \in 1..Len(ops) + 1
  OBVIOUS
<1> QED  BY <1>1, FirstOfIs DEF PassEnd

(* A piece is a render pass that names children, one boundary operation,   *)
(* or a run that ends before the next one.                                 *)
LEMMA AfterIs ==
    ASSUME NEW O, NEW ops \in Seq(O), NEW i \in 1..Len(ops)
    PROVE  /\ After(ops, i) \in i + 1..Len(ops) + 1
           /\ NamesChildren(ops, i) =>
                  /\ PassEnd(ops, i) \in i + 1..Len(ops)
                  /\ After(ops, i) = PassEnd(ops, i) + 1
           /\ ~NamesChildren(ops, i) /\ ops[i].kind \in BoundaryKinds =>
                  After(ops, i) = i + 1
           /\ ~NamesChildren(ops, i) /\ ops[i].kind \notin BoundaryKinds =>
                  /\ After(ops, i) = FirstOf(ops, i + 1, BoundaryKinds)
                  /\ \A k \in i..After(ops, i) - 1 : ops[k].kind \notin BoundaryKinds
<1>1. Len(ops) \in Nat /\ i + 1 \in 1..Len(ops) + 1
  OBVIOUS
<1>2. CASE NamesChildren(ops, i)
  <2>1. PassEnd(ops, i) \in i + 1..Len(ops) + 1 /\ PassEnd(ops, i) <= Len(ops)
    BY <1>2, PassEndIs DEF NamesChildren
  <2>2. After(ops, i) = PassEnd(ops, i) + 1
    BY <1>2 DEF After
  <2> QED  BY <1>1, <1>2, <2>1, <2>2
<1>3. CASE ~NamesChildren(ops, i) /\ ops[i].kind \in BoundaryKinds
  <2>1. After(ops, i) = i + 1
    BY <1>3 DEF After
  <2> QED  BY <1>1, <1>3, <2>1
<1>4. CASE ~NamesChildren(ops, i) /\ ops[i].kind \notin BoundaryKinds
  <2>1. After(ops, i) = FirstOf(ops, i + 1, BoundaryKinds)
    BY <1>4 DEF After
  <2>2. /\ After(ops, i) \in i + 1..Len(ops) + 1
        /\ \A k \in i + 1..After(ops, i) - 1 : ops[k].kind \notin BoundaryKinds
    BY <1>1, <2>1, FirstOfIs
  <2>3. ASSUME NEW k \in i..After(ops, i) - 1 PROVE ops[k].kind \notin BoundaryKinds
    <3>1. k = i \/ k \in i + 1..After(ops, i) - 1
      BY <2>2
    <3> QED  BY <1>4, <2>2, <3>1
  <2> QED  BY <1>4, <2>1, <2>2, <2>3
<1> QED  BY <1>2, <1>3, <1>4

(* starts holds where the pieces of a walk from i begin.                   *)
Walked(ops, i, starts) ==
    /\ starts \in Seq(1..Len(ops))
    /\ i > Len(ops) => starts = <<>>
    /\ i <= Len(ops) =>
           /\ starts # <<>>
           /\ starts[1] = i
           /\ After(ops, starts[Len(starts)]) = Len(ops) + 1
           /\ \A n \in 1..Len(starts) - 1 : starts[n + 1] = After(ops, starts[n])

LEMMA WalkedOn ==
    ASSUME NEW O, NEW ops \in Seq(O), NEW i \in 1..Len(ops), NEW rest,
           Walked(ops, After(ops, i), rest)
    PROVE  Walked(ops, i, <<i>> \o rest)
<1> DEFINE N == Len(ops)  m == Len(rest)  all == <<i>> \o rest
<1>1. N \in Nat /\ After(ops, i) \in i + 1..N + 1
  BY AfterIs
<1>2. rest \in Seq(1..N) /\ m \in Nat /\ <<i>> \in Seq(1..N) /\ Len(<<i>>) = 1
  BY DEF Walked
<1>3. /\ all \in Seq(1..N) /\ Len(all) = 1 + m /\ all # <<>>
      /\ \A n \in 1..1 + m : all[n] = IF n <= 1 THEN <<i>>[n] ELSE rest[n - 1]
  <2>1. /\ all \in Seq(1..N) /\ Len(all) = 1 + m
        /\ \A n \in 1..1 + m : all[n] = IF n <= 1 THEN <<i>>[n] ELSE rest[n - 1]
    BY <1>2, ConcatProperties
  <2> HIDE DEF all
  <2>2. all # <<>>
    BY <1>2, <2>1
  <2> QED  BY <2>1, <2>2
<1> HIDE DEF all
<1>4. all[1] = i /\ \A n \in 1..m : all[n + 1] = rest[n]
  <2>1. all[1] = i
    BY <1>2, <1>3
  <2>2. ASSUME NEW n \in 1..m PROVE all[n + 1] = rest[n]
    <3>1. n + 1 \in 1..1 + m /\ ~(n + 1 <= 1) /\ (n + 1) - 1 = n
      BY <1>2
    <3> QED  BY <1>3, <3>1
  <2> QED  BY <2>1, <2>2
<1>5. CASE After(ops, i) = N + 1
  <2>1. rest = <<>> /\ m = 0
    BY <1>1, <1>5 DEF Walked
  <2>2. Len(all) = 1 /\ all[Len(all)] = i
    BY <1>3, <1>4, <2>1
  <2>3. Walked(ops, i, all)
    BY <1>1, <1>3, <1>4, <1>5, <2>2 DEF Walked
  <2> QED  BY <2>3 DEF all
<1>6. CASE After(ops, i) # N + 1
  <2>1. After(ops, i) <= N
    BY <1>1, <1>6
  <2>2. /\ rest # <<>> /\ rest[1] = After(ops, i) /\ After(ops, rest[m]) = N + 1
        /\ \A n \in 1..m - 1 : rest[n + 1] = After(ops, rest[n])
    BY <2>1 DEF Walked
  <2>3. m \in 1..m /\ m >= 1
    BY <1>2, <2>2, EmptySeq
  <2>4. all[Len(all)] = rest[m]
    BY <1>2, <1>3, <1>4, <2>3
  <2>5. ASSUME NEW n \in 1..Len(all) - 1 PROVE all[n + 1] = After(ops, all[n])
    <3>1. CASE n = 1
      <4>1. all[1 + 1] = rest[1]
        BY <1>4, <2>3
      <4> QED  BY <1>4, <2>2, <3>1, <4>1
    <3>2. CASE n # 1
      <4>1. n \in 1..m /\ n - 1 \in 1..m /\ n - 1 \in 1..m - 1 /\ (n - 1) + 1 = n
        BY <1>2, <1>3, <3>2
      <4>2. all[n + 1] = rest[n] /\ all[(n - 1) + 1] = rest[n - 1]
        BY <1>4, <4>1
      <4>3. rest[(n - 1) + 1] = After(ops, rest[n - 1])
        BY <2>2, <4>1
      <4> QED  BY <4>1, <4>2, <4>3
    <3> QED  BY <3>1, <3>2
  <2>6. After(ops, all[Len(all)]) = N + 1
    BY <2>2, <2>4
  <2>7. Walked(ops, i, all)
    BY <1>1, <1>3, <1>4, <2>5, <2>6 DEF Walked
  <2> QED  BY <2>7 DEF all
<1> QED  BY <1>5, <1>6

LEMMA StartsWalk ==
    ASSUME NEW O, NEW ops \in Seq(O)
    PROVE  Walked(ops, 1, Starts(ops))
<1> DEFINE N == Len(ops)
           Step(F, i) == IF i > N THEN <<>> ELSE <<i>> \o F[After(ops, i)]
           Partial(i, F) == /\ F \in [i..N + 1 -> Seq(1..N)]
                            /\ \A j \in i..N + 1 : F[j] = Step(F, j)
           Good == {i \in 1..N + 1 : \E F : Partial(i, F)}
<1>1. N \in Nat /\ N + 1 \in Nat
  OBVIOUS
<1>2. \A i \in 1..N : After(ops, i) \in i + 1..N + 1
  BY AfterIs
<1>3. ASSUME NEW i \in 1..N + 1, \A j \in (i + 1)..(N + 1) : j \in Good PROVE i \in Good
  <2>1. CASE i = N + 1
    <3> DEFINE F == [j \in N + 1..N + 1 |-> <<>>]
    <3>1. F \in [N + 1..N + 1 -> Seq(1..N)]
      OBVIOUS
    <3>2. \A j \in N + 1..N + 1 : F[j] = Step(F, j)
      BY <1>1
    <3> QED  BY <2>1, <3>1, <3>2
  <2>2. CASE i # N + 1
    <3>1. i \in 1..N /\ i + 1 \in (i + 1)..(N + 1)
      BY <1>1, <2>2
    <3>2. PICK F : Partial(i + 1, F)
      BY <1>3, <3>1
    <3> DEFINE G == [j \in i..N + 1 |-> IF j = i THEN <<i>> \o F[After(ops, i)] ELSE F[j]]
    <3>3. F[After(ops, i)] \in Seq(1..N) /\ <<i>> \in Seq(1..N)
      BY <1>2, <3>1, <3>2
    <3>4. <<i>> \o F[After(ops, i)] \in Seq(1..N)
      BY <3>3, ConcatProperties
    <3>5. G \in [i..N + 1 -> Seq(1..N)]
      <4>1. ASSUME NEW j \in i..N + 1, j # i PROVE F[j] \in Seq(1..N)
        <5>1. j \in i + 1..N + 1
          BY <3>1, <4>1
        <5> QED  BY <3>2, <5>1
      <4> QED  BY <3>4, <4>1
    <3>6. \A j \in i + 1..N + 1 : G[j] = F[j]
      BY <3>1
    <3>7. ASSUME NEW j \in i..N + 1 PROVE G[j] = Step(G, j)
      <4>1. CASE j = i
        <5>1. After(ops, i) \in i + 1..N + 1
          BY <1>2, <3>1
        <5>2. G[After(ops, i)] = F[After(ops, i)] /\ ~(i > N)
          BY <3>1, <3>6, <5>1
        <5>3. G[i] = <<i>> \o F[After(ops, i)]
          BY <3>1
        <5> HIDE DEF G
        <5> QED  BY <4>1, <5>2, <5>3
      <4>2. CASE j # i
        <5>1. j \in i + 1..N + 1
          BY <3>1, <4>2
        <5>2. F[j] = Step(F, j) /\ G[j] = F[j]
          BY <3>2, <3>6, <5>1
        <5>3. CASE j > N
          <6> HIDE DEF G
          <6> QED  BY <5>2, <5>3
        <5>4. CASE ~(j > N)
          <6>1. j \in 1..N
            BY <1>1, <3>1, <5>1, <5>4
          <6>2. After(ops, j) \in i + 1..N + 1
            BY <1>2, <5>1, <6>1
          <6>3. G[After(ops, j)] = F[After(ops, j)]
            BY <3>6, <6>2
          <6> HIDE DEF G
          <6> QED  BY <5>2, <5>4, <6>3
        <5> QED  BY <5>3, <5>4
      <4> QED  BY <4>1, <4>2
    <3> HIDE DEF G
    <3> QED  BY <3>1, <3>5, <3>7
  <2> QED  BY <2>1, <2>2
<1>4. 1 \in Good
  <2> HIDE DEF Good
  <2>1. \A i \in 1..N + 1 : i \in Good
    BY <1>1, <1>3, DownwardInduction
  <2> QED  BY <1>1, <2>1
<1> DEFINE Equation(g) == g = [i \in 1..N + 1 |-> IF i > N THEN <<>> ELSE <<i>> \o g[After(ops, i)]]
           From == CHOOSE g : Equation(g)
<1>5. Starts(ops) = From[1]
  BY Zenon DEF Starts
<1>6. \E g : Equation(g)
  <2>1. PICK F : Partial(1, F)
    BY <1>4
  <2>2. Equation(F)
    BY <2>1
  <2> QED  BY <2>2
<1>7. Equation(From)
  <2> HIDE DEF Equation
  <2> QED  BY <1>6
<1> HIDE DEF From
<1> DEFINE Done == {i \in 1..N + 1 : Walked(ops, i, From[i])}
<1>8. ASSUME NEW i \in 1..N + 1, \A j \in (i + 1)..(N + 1) : j \in Done PROVE i \in Done
  <2>1. CASE i > N
    <3>1. From[i] = <<>>
      BY <1>7, <2>1
    <3>2. <<>> \in Seq(1..N) /\ ~(i <= N)
      BY <1>1, <2>1
    <3> QED  BY <3>1, <3>2 DEF Walked
  <2>2. CASE ~(i > N)
    <3>1. i \in 1..N
      BY <1>1, <2>2
    <3>2. From[i] = <<i>> \o From[After(ops, i)]
      BY <1>7, <2>2
    <3>3. Walked(ops, After(ops, i), From[After(ops, i)])
      BY <1>2, <1>8, <3>1
    <3>4. PICK rest : rest = From[After(ops, i)]
      OBVIOUS
    <3>5. Walked(ops, i, <<i>> \o rest)
      BY <3>1, <3>3, <3>4, WalkedOn
    <3> QED  BY <3>2, <3>4, <3>5
  <2> QED  BY <2>1, <2>2
<1>9. 1 \in Done
  <2> HIDE DEF Done
  <2>1. \A i \in 1..N + 1 : i \in Done
    BY <1>1, <1>8, DownwardInduction
  <2> QED  BY <1>1, <2>1
<1> QED  BY <1>5, <1>9

(* Every operation lies in a piece.                                        *)
LEMMA EveryPosition ==
    ASSUME NEW O, NEW ops \in Seq(O), NEW k \in 1..Len(ops)
    PROVE  \E i \in ToSet(Starts(ops)) :
               i \in 1..Len(ops) /\ i <= k /\ k < After(ops, i)
<1> DEFINE N == Len(ops)  starts == Starts(ops)  m == Len(starts)
<1>1. Walked(ops, 1, starts)
  BY StartsWalk
<1> HIDE DEF starts
<1>2. /\ starts \in Seq(1..N) /\ m \in Nat \ {0} /\ N \in Nat
      /\ starts[1] = 1 /\ After(ops, starts[m]) = N + 1
      /\ \A n \in 1..m - 1 : starts[n + 1] = After(ops, starts[n])
  BY <1>1, EmptySeq DEF Walked
<1>3. \A n \in 1..m : /\ starts[n] \in 1..N /\ starts[n] \in ToSet(starts)
                      /\ After(ops, starts[n]) \in starts[n] + 1..N + 1
  <2>1. \A n \in 1..m : starts[n] \in 1..N
    BY <1>2, ElementOfSeq
  <2>2. \A n \in 1..m : starts[n] \in ToSet(starts)
    BY <1>2 DEF ToSet
  <2>3. \A i \in 1..N : After(ops, i) \in i + 1..N + 1
    BY AfterIs
  <2> QED  BY <2>1, <2>2, <2>3
<1> SUFFICES ASSUME \A n \in 1..m : ~(starts[n] <= k /\ k < After(ops, starts[n]))
             PROVE  FALSE
  BY <1>3 DEF starts
<1> DEFINE Before == {n \in 0..m : n # 0 => starts[n] <= k}
<1>4. ASSUME NEW n \in 0..m, \A j \in 0..(n - 1) : j \in Before PROVE n \in Before
  <2>1. CASE n = 0
    BY <2>1
  <2>2. CASE n = 1
    BY <1>2, <2>2
  <2>3. CASE n \notin {0, 1}
    <3>1. n - 1 \in 1..m /\ n - 1 \in 1..m - 1 /\ n - 1 \in 0..(n - 1) /\ (n - 1) + 1 = n
      BY <1>2, <2>3
    <3>2. starts[n - 1] <= k
      BY <1>4, <3>1
    <3>3. After(ops, starts[n - 1]) <= k
      <4>1. ~(k < After(ops, starts[n - 1]))
        BY <3>1, <3>2
      <4>2. After(ops, starts[n - 1]) \in starts[n - 1] + 1..N + 1 /\ starts[n - 1] \in 1..N
        BY <1>3, <3>1
      <4> QED  BY <1>2, <4>1, <4>2
    <3>4. starts[n] = After(ops, starts[n - 1])
      BY <1>2, <3>1
    <3> QED  BY <3>3, <3>4
  <2> QED  BY <2>1, <2>2, <2>3
<1>5. m \in Before
  <2> HIDE DEF Before
  <2>1. \A n \in 0..m : n \in Before
    BY <1>2, <1>4, UpwardInduction
  <2> QED  BY <1>2, <2>1
<1>6. starts[m] <= k /\ m \in 1..m
  BY <1>2, <1>5
<1> QED  BY <1>2, <1>6

-----------------------------------------------------------------------------
(* The segments of the recordings rec of the buffers B, made of operations *)
(* in O.                                                                   *)

PartRecords(B)    == [buffer : B, first : Nat, count : Nat]
SegmentRecords(B) == [parts : Seq(PartRecords(B)), frontend : BOOLEAN, indirect : BOOLEAN]

(* The recordings of the buffers of B, whose operations name such buffers. *)
OfBuffers(B, O, rec) ==
    /\ rec \in [B -> Seq(O)]
    /\ \A op \in O : op.children \in Seq(B)

(* What the operations of the render pass opened at i name.                *)
PassNames(ops, i) ==
    FlattenSeq([k \in 1..(PassEnd(ops, i) - i + 1) |-> ops[i + k - 1].children])

LEMMA MadeSeq ==
    ASSUME NEW n \in Nat, NEW S, NEW s, s = [k \in 1..n |-> s[k]],
           \A k \in 1..n : s[k] \in S
    PROVE  s \in Seq(S) /\ Len(s) = n
OBVIOUS

LEMMA OneSegment ==
    ASSUME NEW B, NEW b \in B, NEW first \in Nat, NEW count \in Nat,
           NEW frontend \in BOOLEAN, NEW indirect \in BOOLEAN, NEW seg,
           seg = Segment(<<Part(b, first, count)>>, frontend, indirect)
    PROVE  /\ seg \in SegmentRecords(B)
           /\ seg.parts = <<Part(b, first, count)>>
           /\ seg.frontend = frontend /\ seg.indirect = indirect
<1>1. Part(b, first, count) \in PartRecords(B)
  BY DEF Part, PartRecords
<1>2. <<Part(b, first, count)>> \in Seq(PartRecords(B))
  BY <1>1
<1> QED  BY <1>2 DEF Segment, SegmentRecords

LEMMA PassNamesAre ==
    ASSUME NEW B, NEW O, \A op \in O : op.children \in Seq(B),
           NEW ops \in Seq(O), NEW i \in 1..Len(ops), PassEnd(ops, i) <= Len(ops)
    PROVE  /\ PassNames(ops, i) \in Seq(B)
           /\ \A c : c \in ToSet(PassNames(ops, i)) <=>
                  \E k \in i..PassEnd(ops, i) : c \in ToSet(ops[k].children)
<1> DEFINE j == PassEnd(ops, i)
           n == j - i + 1
           lists == [k \in 1..n |-> ops[i + k - 1].children]
<1>1. j \in i + 1..Len(ops) /\ n \in Nat /\ Len(ops) \in Nat
  BY PassEndIs
<1>2. ASSUME NEW k \in 1..n
      PROVE  i + k - 1 \in i..j /\ ops[i + k - 1].children \in Seq(B)
  <2>1. i + k - 1 \in i..j /\ i + k - 1 \in 1..Len(ops)
    BY <1>1
  <2> QED  BY <2>1, ElementOfSeq
<1>3. lists \in Seq(Seq(B)) /\ Len(lists) = n
  <2>1. \A k \in 1..n : lists[k] \in Seq(B)
    BY <1>2
  <2>2. lists = [k \in 1..n |-> lists[k]]
    OBVIOUS
  <2> HIDE DEF lists, n
  <2> QED  BY <1>1, <2>1, <2>2, MadeSeq
<1>4. PassNames(ops, i) = FlattenSeq(lists)
  BY DEF PassNames
<1>5. ASSUME NEW c
      PROVE  (\E k \in 1..n : c \in ToSet(lists[k])) <=>
             (\E k \in i..j : c \in ToSet(ops[k].children))
  <2>1. ASSUME NEW k \in i..j, c \in ToSet(ops[k].children)
        PROVE  \E m \in 1..n : c \in ToSet(lists[m])
    <3>1. k - i + 1 \in 1..n /\ i + (k - i + 1) - 1 = k
      BY <1>1
    <3>2. lists[k - i + 1] = ops[k].children
      BY <3>1
    <3> QED  BY <2>1, <3>1, <3>2
  <2>2. ASSUME NEW k \in 1..n, c \in ToSet(lists[k])
        PROVE  \E m \in i..j : c \in ToSet(ops[m].children)
    <3>1. i + k - 1 \in i..j /\ lists[k] = ops[i + k - 1].children
      BY <1>2
    <3> QED  BY <2>2, <3>1
  <2> QED  BY <2>1, <2>2
<1> HIDE DEF lists, n
<1>6. PassNames(ops, i) \in Seq(B)
  BY <1>3, <1>4, FlattenType
<1>7. \A c : c \in ToSet(PassNames(ops, i)) <=> \E k \in 1..n : c \in ToSet(lists[k])
  BY <1>3, <1>4, FlattenRange
<1> QED  BY <1>5, <1>6, <1>7

(* A render pass that names children: its own range, and each child whole. *)
LEMMA PassSegmentIs ==
    ASSUME NEW B, NEW O, NEW rec, OfBuffers(B, O, rec),
           NEW b \in B,
           NEW i \in 1..Len(rec[b]), PassEnd(rec[b], i) <= Len(rec[b])
    PROVE  /\ PassSegment(rec, b, i) \in SegmentRecords(B)
           /\ ~PassSegment(rec, b, i).frontend
           /\ PassSegment(rec, b, i).indirect <=>
                  \/ HasIndirect(rec[b], i, PassEnd(rec[b], i))
                  \/ \E n \in 1..Len(PassNames(rec[b], i)) :
                         HasIndirect(rec[PassNames(rec[b], i)[n]], 1,
                                     Len(rec[PassNames(rec[b], i)[n]]))
           /\ Len(PassSegment(rec, b, i).parts) = 1 + Len(PassNames(rec[b], i))
           /\ PassSegment(rec, b, i).parts[1] =
                  Part(b, i, PassEnd(rec[b], i) - i + 1)
           /\ \A n \in 1..Len(PassNames(rec[b], i)) :
                  PassSegment(rec, b, i).parts[1 + n] =
                      Part(PassNames(rec[b], i)[n], 1, Len(rec[PassNames(rec[b], i)[n]]))
<1> rec \in [B -> Seq(O)] /\ \A op \in O : op.children \in Seq(B)
  BY DEF OfBuffers
<1> DEFINE named == PassNames(rec[b], i)
           j     == PassEnd(rec[b], i)
           own   == <<Part(b, i, j - i + 1)>>
           whole == [n \in 1..Len(named) |-> Part(named[n], 1, Len(rec[named[n]]))]
           late  == \/ HasIndirect(rec[b], i, j)
                    \/ \E n \in 1..Len(named) :
                           HasIndirect(rec[named[n]], 1, Len(rec[named[n]]))
<1>1. PassSegment(rec, b, i) = Segment(own \o whole, FALSE, late)
  BY DEF PassSegment, PassNames
<1>2. rec[b] \in Seq(O) /\ Len(rec[b]) \in Nat /\ j \in i + 1..Len(rec[b])
  BY PassEndIs
<1>3. named \in Seq(B) /\ Len(named) \in Nat
  <2>1. PICK ops \in Seq(O) : ops = rec[b]
    BY <1>2
  <2>2. PassNames(ops, i) \in Seq(B)
    BY <2>1, PassNamesAre
  <2> QED  BY <2>1, <2>2
<1> HIDE DEF named, j
<1>4. own \in Seq(PartRecords(B)) /\ Len(own) = 1
  <2>1. Part(b, i, j - i + 1) \in PartRecords(B)
    BY <1>2 DEF Part, PartRecords
  <2> QED  BY <2>1
<1>5. whole \in Seq(PartRecords(B)) /\ Len(whole) = Len(named)
  <2>1. ASSUME NEW n \in 1..Len(named)
        PROVE  Part(named[n], 1, Len(rec[named[n]])) \in PartRecords(B)
    <3>1. named[n] \in B
      BY <1>3, ElementOfSeq
    <3>2. Len(rec[named[n]]) \in Nat
      BY <3>1
    <3> QED  BY <3>1, <3>2 DEF Part, PartRecords
  <2> QED  BY <1>3, <2>1
<1>6. /\ own \o whole \in Seq(PartRecords(B)) /\ Len(own \o whole) = 1 + Len(named)
      /\ \A n \in 1..1 + Len(named) :
             (own \o whole)[n] = IF n <= 1 THEN own[n] ELSE whole[n - 1]
  <2>1. PICK s \in Seq(PartRecords(B)) : s = own
    BY <1>4
  <2>2. PICK t \in Seq(PartRecords(B)) : t = whole
    BY <1>5
  <2>3. Len(s) = 1 /\ Len(t) = Len(named)
    BY <1>4, <1>5, <2>1, <2>2
  <2> HIDE DEF own, whole
  <2>4. /\ s \o t \in Seq(PartRecords(B)) /\ Len(s \o t) = Len(s) + Len(t)
        /\ \A n \in 1..Len(s) + Len(t) :
               (s \o t)[n] = IF n <= Len(s) THEN s[n] ELSE t[n - Len(s)]
    BY ConcatProperties
  <2> QED  BY <2>1, <2>2, <2>3, <2>4
<1> DEFINE parts == own \o whole
<1>7. parts[1] = Part(b, i, j - i + 1)
  <2>1. 1 \in 1..1 + Len(named) /\ 1 <= 1
    BY <1>3
  <2>2. parts[1] = own[1]
    BY <1>6, <2>1
  <2> QED  BY <2>2
<1>8. ASSUME NEW n \in 1..Len(named)
      PROVE  parts[1 + n] = Part(named[n], 1, Len(rec[named[n]]))
  <2>1. 1 + n \in 1..1 + Len(named) /\ ~(1 + n <= 1) /\ (1 + n) - 1 = n
    BY <1>3
  <2>2. parts[1 + n] = whole[n]
    BY <1>6, <2>1
  <2> QED  BY <2>2
<1>9. late \in BOOLEAN
  BY DEF HasIndirect
<1> HIDE DEF own, whole, late, parts
<1>10. Segment(parts, FALSE, late) =
           [parts |-> parts, frontend |-> FALSE, indirect |-> late]
  BY DEF Segment
<1>11. parts \in Seq(PartRecords(B)) /\ Len(parts) = 1 + Len(named)
  BY <1>6 DEF parts
<1>12. PassSegment(rec, b, i) = [parts |-> parts, frontend |-> FALSE, indirect |-> late]
  BY <1>1, <1>10 DEF parts
<1>13. /\ PassSegment(rec, b, i) \in SegmentRecords(B)
       /\ PassSegment(rec, b, i).parts = parts
       /\ PassSegment(rec, b, i).frontend = FALSE
       /\ PassSegment(rec, b, i).indirect = late
  BY <1>9, <1>11, <1>12 DEF SegmentRecords
<1> QED  BY <1>7, <1>8, <1>11, <1>13 DEF own, whole, late, parts, named, j

LEMMA OwnSegmentIs ==
    ASSUME NEW B, NEW O, NEW rec, OfBuffers(B, O, rec),
           NEW b \in B, NEW i \in 1..Len(rec[b])
    PROVE  LET seg == OwnSegment(rec, b, i)
               ops == rec[b]
           IN  /\ seg \in SegmentRecords(B)
               /\ NamesChildren(ops, i) => seg = PassSegment(rec, b, i)
               /\ ~NamesChildren(ops, i) =>
                      /\ seg.parts = <<Part(b, i, After(ops, i) - i)>>
                      /\ seg.frontend <=> ops[i].kind \in FrontendKinds \cup {"execute"}
                      /\ seg.indirect <=> HasIndirect(ops, i, After(ops, i) - 1)
<1> rec \in [B -> Seq(O)] /\ \A op \in O : op.children \in Seq(B)
  BY DEF OfBuffers
<1>1. rec[b] \in Seq(O)
  OBVIOUS
<1>2. CASE NamesChildren(rec[b], i)
  <2>1. OwnSegment(rec, b, i) = PassSegment(rec, b, i)
    BY <1>2 DEF OwnSegment
  <2>2. PassEnd(rec[b], i) <= Len(rec[b])
    BY <1>2 DEF NamesChildren
  <2>3. PassSegment(rec, b, i) \in SegmentRecords(B)
    BY <2>2, PassSegmentIs
  <2> QED  BY <1>2, <2>1, <2>3
<1>3. CASE ~NamesChildren(rec[b], i)
  <2> DEFINE next == After(rec[b], i)
             host == rec[b][i].kind \in FrontendKinds \cup {"execute"}
             late == HasIndirect(rec[b], i, next - 1)
  <2>1. OwnSegment(rec, b, i) = Segment(<<Part(b, i, next - i)>>, host, late)
    BY <1>3 DEF OwnSegment
  <2>2. next \in i + 1..Len(rec[b]) + 1
    BY <1>1, AfterIs
  <2>3. next - i \in Nat /\ i \in Nat /\ host \in BOOLEAN /\ late \in BOOLEAN
    BY <1>1, <2>2 DEF HasIndirect
  <2> HIDE DEF next, host, late
  <2>4. /\ Segment(<<Part(b, i, next - i)>>, host, late) \in SegmentRecords(B)
        /\ Segment(<<Part(b, i, next - i)>>, host, late).parts = <<Part(b, i, next - i)>>
        /\ Segment(<<Part(b, i, next - i)>>, host, late).frontend = host
        /\ Segment(<<Part(b, i, next - i)>>, host, late).indirect = late
    BY <2>3, OneSegment
  <2> QED  BY <1>3, <2>1, <2>4 DEF next, host, late
<1> QED  BY <1>2, <1>3

LEMMA EmptySegmentIs ==
    ASSUME NEW B, NEW b \in B
    PROVE  /\ EmptySegment(b) \in SegmentRecords(B)
           /\ EmptySegment(b).parts = <<Part(b, 1, 0)>>
           /\ EmptySegment(b).frontend /\ ~EmptySegment(b).indirect
<1>1. Part(b, 1, 0) \in PartRecords(B)
  BY DEF Part, PartRecords
<1>2. <<Part(b, 1, 0)>> \in Seq(PartRecords(B))
  BY <1>1
<1> QED  BY <1>2 DEF EmptySegment, Segment, SegmentRecords

(* A child is its empty segment, or one segment for each of its pieces.    *)
LEMMA ChildSegmentsAre ==
    ASSUME NEW B, NEW O, NEW rec, OfBuffers(B, O, rec),
           NEW c \in B
    PROVE  /\ ChildSegments(rec, c) \in Seq(SegmentRecords(B))
           /\ ChildSegments(rec, c) # <<>>
           /\ rec[c] = <<>> => ToSet(ChildSegments(rec, c)) = {EmptySegment(c)}
           /\ rec[c] # <<>> => ToSet(ChildSegments(rec, c)) =
                  {OwnSegment(rec, c, i) : i \in ToSet(Starts(rec[c]))}
<1> rec \in [B -> Seq(O)] /\ \A op \in O : op.children \in Seq(B)
  BY DEF OfBuffers
<1>1. rec[c] \in Seq(O)
  OBVIOUS
<1>2. CASE rec[c] = <<>>
  <2>1. ChildSegments(rec, c) = <<EmptySegment(c)>>
    BY <1>2 DEF ChildSegments
  <2>2. EmptySegment(c) \in SegmentRecords(B)
    BY EmptySegmentIs
  <2> HIDE DEF EmptySegment
  <2>3. ToSet(<<EmptySegment(c)>>) = {EmptySegment(c)}
    BY DEF ToSet
  <2> QED  BY <1>2, <2>1, <2>2, <2>3
<1>3. CASE rec[c] # <<>>
  <2> DEFINE starts == Starts(rec[c])
             all == [n \in 1..Len(starts) |-> OwnSegment(rec, c, starts[n])]
  <2>1. Walked(rec[c], 1, starts)
    BY <1>1, StartsWalk
  <2>2. Len(rec[c]) \in Nat \ {0}
    BY <1>1, <1>3, EmptySeq
  <2> HIDE DEF starts
  <2>3. starts \in Seq(1..Len(rec[c])) /\ Len(starts) \in Nat \ {0}
    BY <2>1, <2>2, EmptySeq DEF Walked
  <2>4. \A n \in 1..Len(starts) : starts[n] \in 1..Len(rec[c])
    BY <2>3, ElementOfSeq
  <2>5. \A n \in 1..Len(starts) : OwnSegment(rec, c, starts[n]) \in SegmentRecords(B)
    BY <2>4, OwnSegmentIs
  <2>6. all \in Seq(SegmentRecords(B)) /\ Len(all) = Len(starts) /\ all # <<>>
    <3>1. all = [n \in 1..Len(starts) |-> all[n]] /\ \A n \in 1..Len(starts) : all[n] \in SegmentRecords(B)
      BY <2>5
    <3> HIDE DEF all
    <3>2. all \in Seq(SegmentRecords(B)) /\ Len(all) = Len(starts)
      BY <2>3, <3>1, MadeSeq
    <3> QED  BY <2>3, <3>2, EmptySeq
  <2>7. ChildSegments(rec, c) = all
    BY <1>3 DEF ChildSegments, starts
  <2>8. ToSet(all) = {OwnSegment(rec, c, i) : i \in ToSet(starts)}
    <3>1. DOMAIN all = 1..Len(starts) /\ DOMAIN starts = 1..Len(starts)
      BY <2>3
    <3> QED  BY <3>1 DEF ToSet
  <2> QED  BY <1>3, <2>6, <2>7, <2>8 DEF starts
<1> QED  BY <1>2, <1>3

LEMMA LastOfConcat ==
    ASSUME NEW S, NEW s \in Seq(S), NEW t \in Seq(S), t # <<>>
    PROVE  /\ s \o t \in Seq(S) /\ s \o t # <<>>
           /\ Len(s \o t) \in 1..Len(s) + Len(t)
           /\ (s \o t)[Len(s \o t)] = t[Len(t)]
<1>1. /\ s \o t \in Seq(S) /\ Len(s \o t) = Len(s) + Len(t)
      /\ \A i \in 1..Len(s) + Len(t) :
             (s \o t)[i] = IF i <= Len(s) THEN s[i] ELSE t[i - Len(s)]
  BY ConcatProperties
<1>2. Len(t) \in Nat \ {0} /\ Len(s) \in Nat
  BY EmptySeq
<1>3. Len(s) + Len(t) \in 1..Len(s) + Len(t) /\ ~(Len(s) + Len(t) <= Len(s))
      /\ (Len(s) + Len(t)) - Len(s) = Len(t)
  BY <1>2
<1>4. (s \o t)[Len(s) + Len(t)] = t[Len(t)]
  BY <1>1, <1>3
<1> QED  BY <1>1, <1>2, <1>3, <1>4, EmptySeq

LEMMA LastOfFlatten ==
    ASSUME NEW S, NEW ss \in Seq(Seq(S)), NEW n \in Nat \ {0}, Len(ss) = n, ss[n] # <<>>
    PROVE  /\ FlattenSeq(ss) \in Seq(S) /\ FlattenSeq(ss) # <<>>
           /\ FlattenSeq(ss)[Len(FlattenSeq(ss))] = ss[n][Len(ss[n])]
<1>1. PICK F : Sums(S, ss, F) /\ FlattenSeq(ss) = F[n]
  BY FlattenSums
<1>2. PICK last \in Seq(S) : last = ss[n]
  <2>1. n \in 1..Len(ss)
    OBVIOUS
  <2> QED  BY <2>1, ElementOfSeq
<1>3. n \in 1..n /\ n - 1 \in 0..n
  OBVIOUS
<1>4. PICK front \in Seq(S) : front = F[n - 1]
  BY <1>1, <1>3 DEF Sums
<1>5. FlattenSeq(ss) = front \o last
  BY <1>1, <1>2, <1>3, <1>4 DEF Sums
<1>6. /\ front \o last \in Seq(S) /\ front \o last # <<>>
      /\ (front \o last)[Len(front \o last)] = last[Len(last)]
  BY <1>2, LastOfConcat
<1> QED  BY <1>2, <1>5, <1>6

(* The pieces of buffer b: its own segment, last, after those of children. *)
LEMMA PieceIs ==
    ASSUME NEW B, NEW O, NEW rec, OfBuffers(B, O, rec),
           NEW b \in B, NEW i \in 1..Len(rec[b])
    PROVE  /\ Piece(rec, b, i) \in Seq(SegmentRecords(B))
           /\ Piece(rec, b, i) # <<>>
           /\ Piece(rec, b, i)[Len(Piece(rec, b, i))] = OwnSegment(rec, b, i)
           /\ \A seg : seg \in ToSet(Piece(rec, b, i)) <=>
                  \/ seg = OwnSegment(rec, b, i)
                  \/ /\ rec[b][i].kind = "execute"
                     /\ \E c \in ToSet(rec[b][i].children) :
                            seg \in ToSet(ChildSegments(rec, c))
<1> rec \in [B -> Seq(O)] /\ \A op \in O : op.children \in Seq(B)
  BY DEF OfBuffers
<1>1. PICK op \in O : op = rec[b][i]
  BY ElementOfSeq
<1>2. PICK own \in SegmentRecords(B) : own = OwnSegment(rec, b, i)
  BY OwnSegmentIs
<1>3. /\ <<own>> \in Seq(SegmentRecords(B)) /\ <<own>> # <<>>
      /\ Len(<<own>>) = 1 /\ <<own>>[1] = own /\ ToSet(<<own>>) = {own}
  BY DEF ToSet
<1>4. CASE op.kind # "execute"
  BY <1>1, <1>2, <1>3, <1>4 DEF Piece
<1>5. CASE op.kind = "execute"
  <2>1. PICK names \in Seq(B) : names = op.children
    OBVIOUS
  <2> DEFINE lists == [n \in 1..Len(names) |-> ChildSegments(rec, names[n])]
  <2>2. \A n \in 1..Len(names) : names[n] \in B /\ lists[n] = ChildSegments(rec, names[n])
    BY ElementOfSeq
  <2>3. lists \in Seq(Seq(SegmentRecords(B))) /\ Len(lists) = Len(names)
    <3>1. \A n \in 1..Len(names) : lists[n] \in Seq(SegmentRecords(B))
      BY <2>2, ChildSegmentsAre
    <3>2. lists = [n \in 1..Len(names) |-> lists[n]] /\ Len(names) \in Nat
      OBVIOUS
    <3> HIDE DEF lists
    <3> QED  BY <3>1, <3>2, MadeSeq
  <2>4. Piece(rec, b, i) = FlattenSeq(lists) \o <<own>>
    BY <1>1, <1>2, <1>5, <2>1 DEF Piece, ChildrenThenParent
  <2> HIDE DEF lists
  <2>5. PICK children \in Seq(SegmentRecords(B)) : children = FlattenSeq(lists)
    BY <2>3, FlattenType
  <2>6. PICK last \in Seq(SegmentRecords(B)) : last = <<own>>
    BY <1>3
  <2>7. /\ children \o last \in Seq(SegmentRecords(B)) /\ children \o last # <<>>
        /\ (children \o last)[Len(children \o last)] = last[Len(last)]
    <3>1. last # <<>>
      BY <1>3, <2>6
    <3> QED  BY <3>1, LastOfConcat
  <2>8. last[Len(last)] = own
    BY <1>3, <2>6
  <2>9. \A seg : seg \in ToSet(children \o last) <=>
                     seg \in ToSet(children) \/ seg \in ToSet(last)
    BY RangeOfConcat
  <2>10. \A seg : seg \in ToSet(children) <=>
                      \E n \in 1..Len(names) : seg \in ToSet(ChildSegments(rec, names[n]))
    BY <2>2, <2>3, <2>5, FlattenRange
  <2>11. ToSet(names) = {names[n] : n \in 1..Len(names)}
    BY DEF ToSet
  <2>12. Piece(rec, b, i) = children \o last
    BY <2>4, <2>5, <2>6
  <2>13. ASSUME NEW seg
         PROVE  seg \in ToSet(children) <=>
                    \E c \in ToSet(names) : seg \in ToSet(ChildSegments(rec, c))
    BY <2>10, <2>11
  <2>14. ASSUME NEW seg
         PROVE  seg \in ToSet(children \o last) <=>
                    \/ seg = own
                    \/ \E c \in ToSet(names) : seg \in ToSet(ChildSegments(rec, c))
    BY <1>3, <2>6, <2>9, <2>13
  <2> QED  BY <1>1, <1>2, <1>5, <2>1, <2>7, <2>8, <2>12, <2>14
<1> QED  BY <1>4, <1>5

(* The segments of a recording that is not empty.                          *)
LEMMA SegmentOperationsAre ==
    ASSUME NEW B, NEW O, NEW rec, OfBuffers(B, O, rec),
           NEW b \in B, rec[b] # <<>>
    PROVE  /\ SegmentOperations(rec, b) \in Seq(SegmentRecords(B))
           /\ SegmentOperations(rec, b) # <<>>
           /\ \A seg : seg \in ToSet(SegmentOperations(rec, b)) <=>
                  \E i \in ToSet(Starts(rec[b])) : seg \in ToSet(Piece(rec, b, i))
           /\ \E i \in 1..Len(rec[b]) :
                  SegmentOperations(rec, b)[Len(SegmentOperations(rec, b))] =
                      OwnSegment(rec, b, i)
<1> rec \in [B -> Seq(O)] /\ \A op \in O : op.children \in Seq(B)
  BY DEF OfBuffers
<1> DEFINE starts == Starts(rec[b])
           all == [n \in 1..Len(starts) |-> Piece(rec, b, starts[n])]
<1>1. Walked(rec[b], 1, starts)
  BY StartsWalk
<1>2. Len(rec[b]) \in Nat \ {0}
  BY EmptySeq
<1> HIDE DEF starts
<1>3. starts \in Seq(1..Len(rec[b])) /\ Len(starts) \in Nat \ {0}
  BY <1>1, <1>2, EmptySeq DEF Walked
<1>4. \A n \in 1..Len(starts) : starts[n] \in 1..Len(rec[b])
  BY <1>3, ElementOfSeq
<1>5. \A n \in 1..Len(starts) : all[n] = Piece(rec, b, starts[n])
  OBVIOUS
<1>6. \A n \in 1..Len(starts) : /\ Piece(rec, b, starts[n]) \in Seq(SegmentRecords(B))
                                /\ Piece(rec, b, starts[n]) # <<>>
                                /\ Piece(rec, b, starts[n])[Len(Piece(rec, b, starts[n]))] =
                                       OwnSegment(rec, b, starts[n])
  <2>1. ASSUME NEW i \in 1..Len(rec[b])
        PROVE  /\ Piece(rec, b, i) \in Seq(SegmentRecords(B)) /\ Piece(rec, b, i) # <<>>
               /\ Piece(rec, b, i)[Len(Piece(rec, b, i))] = OwnSegment(rec, b, i)
    <3>1. /\ Piece(rec, b, i) \in Seq(SegmentRecords(B))
          /\ Piece(rec, b, i) # <<>>
          /\ Piece(rec, b, i)[Len(Piece(rec, b, i))] = OwnSegment(rec, b, i)
          /\ \A seg : seg \in ToSet(Piece(rec, b, i)) <=>
                 \/ seg = OwnSegment(rec, b, i)
                 \/ /\ rec[b][i].kind = "execute"
                    /\ \E c \in ToSet(rec[b][i].children) :
                           seg \in ToSet(ChildSegments(rec, c))
      BY PieceIs
    <3> QED  BY <3>1
  <2> QED  BY <1>4, <2>1
<1>7. all \in Seq(Seq(SegmentRecords(B))) /\ Len(all) = Len(starts)
  <2>1. \A n \in 1..Len(starts) : all[n] \in Seq(SegmentRecords(B))
    BY <1>5, <1>6
  <2>2. all = [n \in 1..Len(starts) |-> all[n]] /\ Len(starts) \in Nat
    BY <1>3
  <2> HIDE DEF all
  <2> QED  BY <2>1, <2>2, MadeSeq
<1>8. SegmentOperations(rec, b) = FlattenSeq(all)
  BY DEF SegmentOperations, starts
<1> HIDE DEF all
<1>9. Len(starts) \in 1..Len(starts)
  BY <1>3
<1>10. /\ FlattenSeq(all) \in Seq(SegmentRecords(B)) /\ FlattenSeq(all) # <<>>
       /\ FlattenSeq(all)[Len(FlattenSeq(all))] = all[Len(starts)][Len(all[Len(starts)])]
  <2>1. all[Len(starts)] # <<>>
    BY <1>5, <1>6, <1>9
  <2> QED  BY <1>3, <1>7, <2>1, LastOfFlatten
<1>11. all[Len(starts)][Len(all[Len(starts)])] = OwnSegment(rec, b, starts[Len(starts)])
  BY <1>5, <1>6, <1>9
<1>12. \A seg : seg \in ToSet(FlattenSeq(all)) <=>
                    \E n \in 1..Len(starts) : seg \in ToSet(Piece(rec, b, starts[n]))
  BY <1>5, <1>7, FlattenRange
<1>13. ToSet(starts) = {starts[n] : n \in 1..Len(starts)}
  BY <1>3 DEF ToSet
<1> QED  BY <1>4, <1>8, <1>9, <1>10, <1>11, <1>12, <1>13 DEF starts

(* A record of one buffer: split if anything in it is special.             *)
LEMMA SpecialOne ==
    ASSUME NEW rec, NEW b
    PROVE  Special(rec, <<b>>) <=>
               \E k \in 1..Len(rec[b]) : rec[b][k].kind \in BoundaryKinds \cup IndirectKinds
<1>1. Len(<<b>>) = 1 /\ <<b>>[1] = b /\ 1..1 = {1}
  OBVIOUS
<1> QED  BY <1>1 DEF Special

LEMMA ExpandSpecial ==
    ASSUME NEW B, NEW O, NEW rec, OfBuffers(B, O, rec), NEW b \in B, Special(rec, <<b>>)
    PROVE  rec[b] # <<>> /\ ExpandRecord(rec, <<b>>) = SegmentOperations(rec, b)
<1> rec \in [B -> Seq(O)] /\ \A op \in O : op.children \in Seq(B)
  BY DEF OfBuffers
<1>1. Len(<<b>>) = 1 /\ <<b>>[1] = b /\ 1..1 = {1}
  OBVIOUS
<1>2. rec[b] # <<>>
  BY SpecialOne
<1>3. PICK segs \in Seq(SegmentRecords(B)) : segs = SegmentOperations(rec, b)
  BY <1>2, SegmentOperationsAre
<1>4. [n \in 1..Len(<<b>>) |-> SegmentOperations(rec, <<b>>[n])] = <<segs>>
  BY <1>1, <1>3
<1>5. FlattenSeq(<<segs>>) = segs
  BY FlattenOne
<1> QED  BY <1>2, <1>3, <1>4, <1>5 DEF ExpandRecord

LEMMA ExpandOther ==
    ASSUME NEW rec, NEW b, ~Special(rec, <<b>>)
    PROVE  ExpandRecord(rec, <<b>>) =
               <<Segment(<<Part(b, 1, Len(rec[b]))>>, FALSE, FALSE)>>
<1>1. Len(<<b>>) = 1 /\ <<b>>[1] = b /\ 1..1 = {1}
  OBVIOUS
<1>2. [n \in 1..Len(<<b>>) |-> Part(<<b>>[n], 1, Len(rec[<<b>>[n]]))] =
          <<Part(b, 1, Len(rec[b]))>>
  BY <1>1
<1> QED  BY <1>2 DEF ExpandRecord

(* Every part of an expanded record is within the recording of the buffer  *)
(* submitted or of one it names.                                           *)
WithinRecording(rec, part) ==
    /\ part.first \in 1..Len(rec[part.buffer]) + 1 /\ part.count \in Nat
    /\ part.first + part.count <= Len(rec[part.buffer]) + 1

NamedBy(rec, b, c) == \E op \in ToSet(rec[b]) : c \in ToSet(op.children)

ComeOf(rec, b, seg) ==
    \A part \in ToSet(seg.parts) :
        WithinRecording(rec, part) /\ (part.buffer = b \/ NamedBy(rec, b, part.buffer))

LEMMA InToSet ==
    ASSUME NEW S, NEW s \in Seq(S), NEW x \in ToSet(s)
    PROVE  x \in S
BY ElementOfSeq DEF ToSet

LEMMA ToSetOne == ASSUME NEW x PROVE ToSet(<<x>>) = {x}
<1>1. DOMAIN <<x>> = {1} /\ <<x>>[1] = x
  OBVIOUS
<1> QED  BY <1>1 DEF ToSet

LEMMA PartIs ==
    ASSUME NEW b, NEW first, NEW count
    PROVE  /\ Part(b, first, count).buffer = b
           /\ Part(b, first, count).first = first
           /\ Part(b, first, count).count = count
BY DEF Part

LEMMA OwnParts ==
    ASSUME NEW B, NEW O, NEW rec, OfBuffers(B, O, rec), NEW b \in B,
           NEW i \in 1..Len(rec[b])
    PROVE  ComeOf(rec, b, OwnSegment(rec, b, i))
<1>1. rec[b] \in Seq(O) /\ \A op \in O : op.children \in Seq(B)
  BY DEF OfBuffers
<1>2. After(rec[b], i) \in i + 1..Len(rec[b]) + 1 /\ Len(rec[b]) \in Nat
  BY <1>1, AfterIs
<1>3. CASE ~NamesChildren(rec[b], i)
  <2>1. OwnSegment(rec, b, i).parts = <<Part(b, i, After(rec[b], i) - i)>>
    BY <1>3, OwnSegmentIs
  <2>2. ToSet(OwnSegment(rec, b, i).parts) = {Part(b, i, After(rec[b], i) - i)}
    BY <2>1 DEF ToSet
  <2>3. WithinRecording(rec, Part(b, i, After(rec[b], i) - i))
    BY <1>2 DEF WithinRecording, Part
  <2> QED  BY <2>2, <2>3 DEF ComeOf, Part
<1>4. CASE NamesChildren(rec[b], i)
  <2> DEFINE j     == PassEnd(rec[b], i)
             named == PassNames(rec[b], i)
             seg   == PassSegment(rec, b, i)
  <2>1. j \in i + 1..Len(rec[b])
    BY <1>1, <1>4, AfterIs
  <2>2. /\ seg \in SegmentRecords(B) /\ Len(seg.parts) = 1 + Len(named)
        /\ seg.parts[1] = Part(b, i, j - i + 1)
        /\ \A n \in 1..Len(named) :
               seg.parts[1 + n] = Part(named[n], 1, Len(rec[named[n]]))
    BY <1>2, <2>1, PassSegmentIs
  <2>3. /\ named \in Seq(B)
        /\ \A c : c \in ToSet(named) <=>
               \E k \in i..j : c \in ToSet(rec[b][k].children)
    <3>1. PICK ops \in Seq(O) : ops = rec[b]
      BY <1>1
    <3>2. i \in 1..Len(ops) /\ PassEnd(ops, i) <= Len(ops)
      BY <1>2, <2>1, <3>1
    <3> HIDE DEF named, j
    <3>3. /\ PassNames(ops, i) \in Seq(B)
          /\ \A c : c \in ToSet(PassNames(ops, i)) <=>
                 \E k \in i..PassEnd(ops, i) : c \in ToSet(ops[k].children)
      BY ONLY <1>1, <3>1, <3>2, PassNamesAre
    <3> QED  BY <3>1, <3>3 DEF named, j
  <2>4. OwnSegment(rec, b, i) = seg
    BY <1>4, OwnSegmentIs
  <2> HIDE DEF j, named, seg
  <2>5. ASSUME NEW n \in 1..Len(named)
        PROVE  WithinRecording(rec, seg.parts[1 + n]) /\ NamedBy(rec, b, seg.parts[1 + n].buffer)
    <3>1. named[n] \in B /\ named[n] \in ToSet(named)
      BY <2>3 DEF ToSet
    <3>2. rec[named[n]] \in Seq(O)
      BY <3>1 DEF OfBuffers
    <3>3. WithinRecording(rec, seg.parts[1 + n])
      <4>1. Len(rec[named[n]]) \in Nat
        BY <3>2
      <4>2. /\ seg.parts[1 + n].buffer = named[n] /\ seg.parts[1 + n].first = 1
            /\ seg.parts[1 + n].count = Len(rec[named[n]])
        <5>1. seg.parts[1 + n] = Part(named[n], 1, Len(rec[named[n]]))
          BY <2>2
        <5> QED  BY ONLY <5>1, PartIs
      <4> QED  BY <4>1, <4>2 DEF WithinRecording
    <3>4. PICK k \in i..j : named[n] \in ToSet(rec[b][k].children)
      BY <2>3, <3>1
    <3>5. rec[b][k] \in ToSet(rec[b])
      BY <1>1, <1>2, <2>1 DEF ToSet
    <3> QED  BY <2>2, <3>3, <3>4, <3>5, PartIs DEF NamedBy
  <2>6. WithinRecording(rec, seg.parts[1]) /\ seg.parts[1].buffer = b
    BY <1>2, <2>1, <2>2 DEF WithinRecording, Part
  <2>7. Len(named) \in Nat /\ DOMAIN seg.parts = 1..1 + Len(named)
    BY <2>2, <2>3 DEF SegmentRecords
  <2>8. \A m \in 1..1 + Len(named) : m = 1 \/ \E n \in 1..Len(named) : m = 1 + n
    <3>1. \A m \in 1..1 + Len(named) : m # 1 => m - 1 \in 1..Len(named) /\ m = 1 + (m - 1)
      BY <2>7
    <3> QED  BY <3>1
  <2>9. \A part \in ToSet(seg.parts) : \E m \in 1..1 + Len(named) : part = seg.parts[m]
    BY <2>7 DEF ToSet
  <2> QED  BY <2>4, <2>5, <2>6, <2>8, <2>9 DEF ComeOf
<1> QED  BY <1>3, <1>4

LEMMA EmptyParts ==
    ASSUME NEW B, NEW rec, NEW b \in B, rec[b] = <<>>
    PROVE  ComeOf(rec, b, EmptySegment(b))
<1>1. ToSet(EmptySegment(b).parts) = {Part(b, 1, 0)}
  BY EmptySegmentIs, ToSetOne
<1>2. WithinRecording(rec, Part(b, 1, 0))
  BY DEF WithinRecording, Part
<1> QED  BY <1>1, <1>2 DEF ComeOf, Part

(* A child names no children.                                              *)
LEMMA ChildParts ==
    ASSUME NEW B, NEW O, NEW rec, OfBuffers(B, O, rec), NEW b, NEW c \in B,
           NamedBy(rec, b, c), \A op \in ToSet(rec[c]) : op.children = <<>>,
           NEW seg \in ToSet(ChildSegments(rec, c))
    PROVE  ComeOf(rec, b, seg)
<1>1. rec[c] \in Seq(O)
  BY DEF OfBuffers
<1>2. ComeOf(rec, c, seg)
  <2>1. CASE rec[c] = <<>>
    <3>1. ToSet(ChildSegments(rec, c)) = {EmptySegment(c)}
      BY <2>1, ChildSegmentsAre
    <3> QED  BY <2>1, <3>1, EmptyParts
  <2>2. CASE rec[c] # <<>>
    <3>1. PICK i \in ToSet(Starts(rec[c])) : seg = OwnSegment(rec, c, i)
      BY <2>2, ChildSegmentsAre
    <3>2. i \in 1..Len(rec[c])
      BY <1>1, <3>1, StartsWalk, ElementOfSeq DEF Walked, ToSet
    <3> QED  BY <3>1, <3>2, OwnParts
  <2> QED  BY <2>1, <2>2
<1>3. \A d : ~NamedBy(rec, c, d)
  BY DEF NamedBy, ToSet
<1> QED  BY <1>2, <1>3 DEF ComeOf

LEMMA ExpandedParts ==
    ASSUME NEW B, NEW O, NEW rec, OfBuffers(B, O, rec), NEW b \in B,
           \A c : NamedBy(rec, b, c) => \A op \in ToSet(rec[c]) : op.children = <<>>
    PROVE  /\ ExpandRecord(rec, <<b>>) \in Seq(SegmentRecords(B))
           /\ \A seg \in ToSet(ExpandRecord(rec, <<b>>)) : ComeOf(rec, b, seg)
<1>1. rec[b] \in Seq(O) /\ \A op \in O : op.children \in Seq(B)
  BY DEF OfBuffers
<1>2. CASE ~Special(rec, <<b>>)
  <2> DEFINE seg == Segment(<<Part(b, 1, Len(rec[b]))>>, FALSE, FALSE)
  <2>1. ExpandRecord(rec, <<b>>) = <<seg>>
    BY <1>2, ExpandOther
  <2>2. seg \in SegmentRecords(B) /\ seg.parts = <<Part(b, 1, Len(rec[b]))>>
    <3>1. PICK n \in Nat : n = Len(rec[b])
      BY <1>1
    <3>2. Part(b, 1, n) \in PartRecords(B)
      BY DEF Part, PartRecords
    <3>3. <<Part(b, 1, n)>> \in Seq(PartRecords(B))
      BY <3>2
    <3> QED  BY <3>1, <3>3 DEF Segment, SegmentRecords
  <2>3. WithinRecording(rec, Part(b, 1, Len(rec[b])))
    BY <1>1 DEF WithinRecording, Part
  <2>4. ComeOf(rec, b, seg)
    <3>1. \A part \in ToSet(seg.parts) : part = Part(b, 1, Len(rec[b]))
      BY <2>2, ToSetOne
    <3>2. Part(b, 1, Len(rec[b])).buffer = b
      BY DEF Part
    <3> QED  BY <2>3, <3>1, <3>2 DEF ComeOf
  <2> HIDE DEF seg
  <2>5. <<seg>> \in Seq(SegmentRecords(B))
    BY <2>2
  <2> QED  BY <2>1, <2>4, <2>5, ToSetOne
<1>3. CASE Special(rec, <<b>>)
  <2>1. rec[b] # <<>> /\ ExpandRecord(rec, <<b>>) = SegmentOperations(rec, b)
    BY <1>3, ExpandSpecial
  <2>2. /\ SegmentOperations(rec, b) \in Seq(SegmentRecords(B))
        /\ \A seg : seg \in ToSet(SegmentOperations(rec, b)) <=>
               \E i \in ToSet(Starts(rec[b])) : seg \in ToSet(Piece(rec, b, i))
    BY <2>1, SegmentOperationsAre
  <2>3. ASSUME NEW i \in ToSet(Starts(rec[b])), NEW seg \in ToSet(Piece(rec, b, i))
        PROVE  ComeOf(rec, b, seg)
    <3>1. i \in 1..Len(rec[b])
      BY <1>1, <2>3, StartsWalk, ElementOfSeq DEF Walked, ToSet
    <3>2. \/ seg = OwnSegment(rec, b, i)
          \/ \E c \in ToSet(rec[b][i].children) : seg \in ToSet(ChildSegments(rec, c))
      BY <2>3, <3>1, PieceIs
    <3>3. ASSUME NEW c \in ToSet(rec[b][i].children), seg \in ToSet(ChildSegments(rec, c))
          PROVE  ComeOf(rec, b, seg)
      <4>1. rec[b][i] \in O /\ rec[b][i] \in ToSet(rec[b])
        BY <1>1, <3>1 DEF ToSet
      <4>2. NamedBy(rec, b, c) /\ c \in B
        <5>1. NamedBy(rec, b, c)
          BY <4>1 DEF NamedBy
        <5>2. rec[b][i].children \in Seq(B)
          BY <1>1, <4>1
        <5> QED  BY <5>1, <5>2, InToSet
      <4> QED  BY <3>3, <4>2, ChildParts
    <3> QED  BY <3>1, <3>2, <3>3, OwnParts
  <2> QED  BY <2>1, <2>2, <2>3
<1> QED  BY <1>2, <1>3

-----------------------------------------------------------------------------
Maps(g, A, S) == g \in [A -> Seq(S)]

(* What each element stands for, one after the other.                      *)
FlatMap(g, s) == FlattenSeq([n \in 1..Len(s) |-> g[s[n]]])

(* Elements i .. j - 1. *)
Slice(X, i, j) == [k \in 1..(j - i) |-> X[i + k - 1]]

LEMMA SameSeq ==
    ASSUME NEW S, NEW s \in Seq(S), NEW t \in Seq(S), Len(s) = Len(t),
           \A i \in 1..Len(s) : s[i] = t[i]
    PROVE  s = t
OBVIOUS

LEMMA ListOf ==
    ASSUME NEW A, NEW S, NEW g, Maps(g, A, S), NEW s \in Seq(A), NEW list,
           list = [n \in 1..Len(s) |-> g[s[n]]]
    PROVE  /\ list \in Seq(Seq(S)) /\ Len(list) = Len(s)
           /\ \A n \in 1..Len(s) : list[n] = g[s[n]] /\ s[n] \in A
<1> g \in [A -> Seq(S)]
  BY DEF Maps
<1>1. \A n \in 1..Len(s) : s[n] \in A
  BY ElementOfSeq
<1>2. \A n \in 1..Len(s) : list[n] = g[s[n]] /\ list[n] \in Seq(S)
  BY <1>1
<1>3. list = [n \in 1..Len(s) |-> list[n]] /\ Len(s) \in Nat
  OBVIOUS
<1>4. list \in Seq(Seq(S)) /\ Len(list) = Len(s)
  BY ONLY <1>2, <1>3, MadeSeq
<1> QED  BY <1>1, <1>2, <1>4

LEMMA FlatMapType ==
    ASSUME NEW A, NEW S, NEW g, Maps(g, A, S), NEW s \in Seq(A)
    PROVE  FlatMap(g, s) \in Seq(S)
<1> g \in [A -> Seq(S)]
  BY DEF Maps
<1>1. PICK list : list = [n \in 1..Len(s) |-> g[s[n]]]
  OBVIOUS
<1>2. list \in Seq(Seq(S))
  BY <1>1, ListOf
<1> QED  BY <1>1, <1>2, FlattenType DEF FlatMap

LEMMA FlatMapOne ==
    ASSUME NEW A, NEW S, NEW g, Maps(g, A, S), NEW a \in A
    PROVE  FlatMap(g, <<a>>) = g[a]
<1> g \in [A -> Seq(S)]
  BY DEF Maps
<1>1. PICK x \in Seq(S) : x = g[a]
  OBVIOUS
<1>2. Len(<<a>>) = 1 /\ <<a>>[1] = a /\ 1..1 = {1}
  OBVIOUS
<1>3. [n \in 1..Len(<<a>>) |-> g[<<a>>[n]]] = <<x>>
  BY <1>1, <1>2
<1> QED  BY <1>1, <1>3, FlattenOne DEF FlatMap

LEMMA FlatMapConcat ==
    ASSUME NEW A, NEW S, NEW g, Maps(g, A, S), NEW s \in Seq(A), NEW t \in Seq(A)
    PROVE  FlatMap(g, s \o t) = FlatMap(g, s) \o FlatMap(g, t)
<1> g \in [A -> Seq(S)]
  BY DEF Maps
<1>1. PICK l : l = [n \in 1..Len(s) |-> g[s[n]]]
  OBVIOUS
<1>2. PICK m : m = [n \in 1..Len(t) |-> g[t[n]]]
  OBVIOUS
<1>3. PICK u \in Seq(A) : /\ u = s \o t /\ Len(u) = Len(s) + Len(t)
                          /\ \A i \in 1..Len(s) + Len(t) :
                                 u[i] = IF i <= Len(s) THEN s[i] ELSE t[i - Len(s)]
  <2>1. /\ s \o t \in Seq(A) /\ Len(s \o t) = Len(s) + Len(t)
        /\ \A i \in 1..Len(s) + Len(t) :
               (s \o t)[i] = IF i <= Len(s) THEN s[i] ELSE t[i - Len(s)]
    BY ConcatProperties
  <2> QED  BY <2>1
<1>4. PICK all : all = [n \in 1..Len(u) |-> g[u[n]]]
  OBVIOUS
<1>5. /\ l \in Seq(Seq(S)) /\ Len(l) = Len(s)
      /\ \A n \in 1..Len(s) : l[n] = g[s[n]]
  BY <1>1, ListOf
<1>6. /\ m \in Seq(Seq(S)) /\ Len(m) = Len(t)
      /\ \A n \in 1..Len(t) : m[n] = g[t[n]]
  BY <1>2, ListOf
<1>7. /\ all \in Seq(Seq(S)) /\ Len(all) = Len(u)
      /\ \A n \in 1..Len(u) : all[n] = g[u[n]]
  BY <1>4, ListOf
<1>8. /\ l \o m \in Seq(Seq(S)) /\ Len(l \o m) = Len(l) + Len(m)
      /\ \A i \in 1..Len(l) + Len(m) :
             (l \o m)[i] = IF i <= Len(l) THEN l[i] ELSE m[i - Len(l)]
  <2>1. PICK T : T = Seq(S)
    OBVIOUS
  <2>2. l \in Seq(T) /\ m \in Seq(T)
    BY <1>5, <1>6, <2>1
  <2>3. /\ l \o m \in Seq(T) /\ Len(l \o m) = Len(l) + Len(m)
        /\ \A i \in 1..Len(l) + Len(m) :
               (l \o m)[i] = IF i <= Len(l) THEN l[i] ELSE m[i - Len(l)]
    BY ONLY <2>2, ConcatProperties
  <2> QED  BY <2>1, <2>3
<1>9. Len(s) \in Nat /\ Len(t) \in Nat
  OBVIOUS
<1>10. \A i \in 1..Len(s) + Len(t) : all[i] = (l \o m)[i]
  <2>1. ASSUME NEW i \in 1..Len(s) + Len(t) PROVE all[i] = (l \o m)[i]
    <3>1. CASE i <= Len(s)
      <4>1. i \in 1..Len(s)
        BY <1>9, <3>1
      <4>2. all[i] = g[u[i]] /\ u[i] = s[i] /\ (l \o m)[i] = l[i] /\ l[i] = g[s[i]]
        BY <1>3, <1>5, <1>6, <1>7, <1>8, <3>1, <4>1
      <4> QED  BY <4>2
    <3>2. CASE ~(i <= Len(s))
      <4>1. i - Len(s) \in 1..Len(t)
        BY <1>9, <3>2
      <4>2. /\ all[i] = g[u[i]] /\ u[i] = t[i - Len(s)]
            /\ (l \o m)[i] = m[i - Len(s)] /\ m[i - Len(s)] = g[t[i - Len(s)]]
        BY <1>3, <1>5, <1>6, <1>7, <1>8, <3>2, <4>1
      <4> QED  BY <4>2
    <3> QED  BY <3>1, <3>2
  <2> QED  BY <2>1
<1>11. all = l \o m
  <2>1. PICK lm \in Seq(Seq(S)) : lm = l \o m
    BY <1>8
  <2>2. Len(all) = Len(lm) /\ Len(lm) = Len(s) + Len(t)
    BY <1>3, <1>5, <1>6, <1>7, <1>8, <2>1
  <2>3. \A i \in 1..Len(all) : all[i] = lm[i]
    BY <1>10, <2>1, <2>2
  <2> QED  BY ONLY <1>7, <2>1, <2>2, <2>3, SameSeq
<1>12. FlattenSeq(l \o m) = FlattenSeq(l) \o FlattenSeq(m)
  BY <1>5, <1>6, FlattenConcat
<1> QED  BY <1>1, <1>2, <1>3, <1>4, <1>11, <1>12 DEF FlatMap

LEMMA FlatMapFlatten ==
    ASSUME NEW A, NEW S, NEW g, Maps(g, A, S), NEW ss \in Seq(Seq(A)), NEW list,
           list = [n \in 1..Len(ss) |-> FlatMap(g, ss[n])]
    PROVE  /\ list \in Seq(Seq(S))
           /\ FlatMap(g, FlattenSeq(ss)) = FlattenSeq(list)
<1> g \in [A -> Seq(S)]
  BY DEF Maps
<1>1. \A n \in 1..Len(ss) : ss[n] \in Seq(A) /\ list[n] = FlatMap(g, ss[n])
  BY ElementOfSeq
<1>2. list \in Seq(Seq(S)) /\ Len(list) = Len(ss) /\ Len(ss) \in Nat
  <2>1. \A n \in 1..Len(ss) : list[n] \in Seq(S)
    BY <1>1, FlatMapType
  <2>2. list = [n \in 1..Len(ss) |-> list[n]] /\ Len(ss) \in Nat
    OBVIOUS
  <2> QED  BY ONLY <2>1, <2>2, MadeSeq
<1>3. PICK F : Sums(A, ss, F) /\ FlattenSeq(ss) = F[Len(ss)]
  BY FlattenSums
<1>4. PICK G : Sums(S, list, G) /\ FlattenSeq(list) = G[Len(list)]
  BY <1>2, FlattenSums
<1>5. /\ F \in [0..Len(ss) -> Seq(A)] /\ F[0] = <<>>
      /\ \A n \in 1..Len(ss) : F[n] = F[n - 1] \o ss[n]
  BY <1>3 DEF Sums
<1>6. /\ G \in [0..Len(ss) -> Seq(S)] /\ G[0] = <<>>
      /\ \A n \in 1..Len(ss) : G[n] = G[n - 1] \o list[n]
  BY <1>2, <1>4 DEF Sums
<1> DEFINE Good == {n \in 0..Len(ss) : FlatMap(g, F[n]) = G[n]}
<1>7. ASSUME NEW n \in 0..Len(ss), \A j \in 0..(n - 1) : j \in Good PROVE n \in Good
  <2>1. CASE n = 0
    <3>1. FlatMap(g, <<>>) = <<>>
      BY FlattenEmpty DEF FlatMap
    <3> QED  BY <1>5, <1>6, <2>1, <3>1
  <2>2. CASE n # 0
    <3>1. n \in 1..Len(ss) /\ n - 1 \in 0..Len(ss) /\ n - 1 \in 0..(n - 1)
      BY <1>2, <2>2
    <3>2. FlatMap(g, F[n - 1]) = G[n - 1]
      BY <1>7, <3>1
    <3>3. PICK f \in Seq(A) : f = F[n - 1]
      BY <1>5, <3>1
    <3>4. PICK x \in Seq(A) : x = ss[n]
      BY <1>1, <3>1
    <3>5. F[n] = f \o x /\ G[n] = G[n - 1] \o FlatMap(g, x)
      BY <1>1, <1>5, <1>6, <3>1, <3>3, <3>4
    <3>6. FlatMap(g, f \o x) = FlatMap(g, f) \o FlatMap(g, x)
      BY FlatMapConcat
    <3> QED  BY <3>2, <3>3, <3>5, <3>6
  <2> QED  BY <2>1, <2>2
<1>8. Len(ss) \in Good
  <2> HIDE DEF Good
  <2>1. \A n \in 0..Len(ss) : n \in Good
    BY <1>2, <1>7, UpwardInduction
  <2>2. Len(ss) \in 0..Len(ss)
    BY <1>2
  <2> QED  BY <2>1, <2>2
<1> QED  BY <1>2, <1>3, <1>4, <1>8

LEMMA SliceIs ==
    ASSUME NEW S, NEW X \in Seq(S), NEW i \in 1..Len(X) + 1, NEW j \in i..Len(X) + 1
    PROVE  /\ Slice(X, i, j) \in Seq(S) /\ Len(Slice(X, i, j)) = j - i
           /\ \A k \in 1..j - i : Slice(X, i, j)[k] = X[i + k - 1] /\ i + k - 1 \in 1..Len(X)
<1> DEFINE s == Slice(X, i, j)
<1>1. Len(X) \in Nat /\ j - i \in Nat
  OBVIOUS
<1>2. \A k \in 1..j - i : s[k] = X[i + k - 1] /\ i + k - 1 \in 1..Len(X)
  BY <1>1 DEF Slice
<1>3. \A k \in 1..j - i : s[k] \in S
  BY <1>2, ElementOfSeq
<1>4. s = [k \in 1..j - i |-> s[k]]
  BY DEF Slice
<1> HIDE DEF s
<1>5. s \in Seq(S) /\ Len(s) = j - i
  BY ONLY <1>1, <1>3, <1>4, MadeSeq
<1> QED  BY <1>2, <1>5 DEF s

LEMMA SliceWhole ==
    ASSUME NEW S, NEW X \in Seq(S) PROVE Slice(X, 1, Len(X) + 1) = X
<1>1. Len(X) \in Nat /\ (Len(X) + 1) - 1 = Len(X)
  OBVIOUS
<1>2. Slice(X, 1, Len(X) + 1) = [k \in 1..Len(X) |-> X[1 + k - 1]]
  BY <1>1 DEF Slice
<1>3. \A k \in 1..Len(X) : 1 + k - 1 = k
  OBVIOUS
<1>4. X = [k \in 1..Len(X) |-> X[k]]
  OBVIOUS
<1> QED  BY <1>2, <1>3, <1>4

LEMMA SliceJoin ==
    ASSUME NEW S, NEW X \in Seq(S), NEW i \in 1..Len(X) + 1, NEW j \in i..Len(X) + 1
    PROVE  Slice(X, 1, i) \o Slice(X, i, j) = Slice(X, 1, j)
<1>1. /\ Len(X) \in Nat /\ i \in Nat /\ j \in Nat /\ 1 \in 1..Len(X) + 1
      /\ i \in 1..Len(X) + 1 /\ j \in 1..Len(X) + 1
  OBVIOUS
<1>2. PICK a \in Seq(S) : a = Slice(X, 1, i) /\ Len(a) = i - 1
                          /\ \A k \in 1..i - 1 : a[k] = X[1 + k - 1]
  <2>1. /\ Slice(X, 1, i) \in Seq(S) /\ Len(Slice(X, 1, i)) = i - 1
        /\ \A k \in 1..i - 1 : Slice(X, 1, i)[k] = X[1 + k - 1]
    BY <1>1, SliceIs
  <2> QED  BY <2>1
<1>3. PICK b \in Seq(S) : b = Slice(X, i, j) /\ Len(b) = j - i
                          /\ \A k \in 1..j - i : b[k] = X[i + k - 1]
  <2>1. /\ Slice(X, i, j) \in Seq(S) /\ Len(Slice(X, i, j)) = j - i
        /\ \A k \in 1..j - i : Slice(X, i, j)[k] = X[i + k - 1]
    BY <1>1, SliceIs
  <2> QED  BY <2>1
<1>4. PICK c \in Seq(S) : c = Slice(X, 1, j) /\ Len(c) = j - 1
                          /\ \A k \in 1..j - 1 : c[k] = X[1 + k - 1]
  <2>1. /\ Slice(X, 1, j) \in Seq(S) /\ Len(Slice(X, 1, j)) = j - 1
        /\ \A k \in 1..j - 1 : Slice(X, 1, j)[k] = X[1 + k - 1]
    BY <1>1, SliceIs
  <2> QED  BY <2>1
<1>5. /\ a \o b \in Seq(S) /\ Len(a \o b) = Len(a) + Len(b)
      /\ \A k \in 1..Len(a) + Len(b) :
             (a \o b)[k] = IF k <= Len(a) THEN a[k] ELSE b[k - Len(a)]
  BY ConcatProperties
<1>6. Len(a) + Len(b) = j - 1
  <2>1. i \in Nat /\ j \in Nat /\ Len(a) = i - 1 /\ Len(b) = j - i
    BY <1>1, <1>2, <1>3
  <2> QED  BY ONLY <2>1
<1>7. ASSUME NEW k \in 1..j - 1 PROVE (a \o b)[k] = c[k]
  <2>1. CASE k <= i - 1
    <3>1. k \in 1..i - 1
      BY <1>1, <2>1
    <3> QED  BY <1>2, <1>4, <1>5, <1>6, <2>1, <3>1
  <2>2. CASE ~(k <= i - 1)
    <3>1. k - (i - 1) \in 1..j - i /\ i + (k - (i - 1)) - 1 = k /\ 1 + k - 1 = k
      BY <1>1, <2>2
    <3>2. (a \o b)[k] = b[k - (i - 1)]
      BY <1>2, <1>5, <1>6, <2>2
    <3> QED  BY <1>3, <1>4, <3>1, <3>2
  <2> QED  BY <2>1, <2>2
<1>8. PICK ab \in Seq(S) : ab = a \o b
  BY <1>5
<1>9. ab = c
  <2>1. Len(ab) = Len(c) /\ \A k \in 1..Len(ab) : ab[k] = c[k]
    BY <1>4, <1>5, <1>6, <1>7, <1>8
  <2> QED  BY ONLY <2>1, ab \in Seq(S), c \in Seq(S), SameSeq
<1> QED  BY <1>2, <1>3, <1>4, <1>8, <1>9

LEMMA FlattenSingles ==
    ASSUME NEW S, NEW a \in Seq(S), NEW list, list = [n \in 1..Len(a) |-> <<a[n]>>]
    PROVE  list \in Seq(Seq(S)) /\ FlattenSeq(list) = a
<1>1. \A n \in 1..Len(a) : a[n] \in S /\ list[n] = <<a[n]>>
  BY ElementOfSeq
<1>2. list \in Seq(Seq(S)) /\ Len(list) = Len(a) /\ Len(a) \in Nat
  <2>1. \A n \in 1..Len(a) : list[n] \in Seq(S)
    BY <1>1
  <2>2. list = [n \in 1..Len(a) |-> list[n]] /\ Len(a) \in Nat
    OBVIOUS
  <2> QED  BY ONLY <2>1, <2>2, MadeSeq
<1>3. PICK G : Sums(S, list, G) /\ FlattenSeq(list) = G[Len(list)]
  BY <1>2, FlattenSums
<1>4. /\ G \in [0..Len(a) -> Seq(S)] /\ G[0] = <<>>
      /\ \A n \in 1..Len(a) : G[n] = G[n - 1] \o list[n]
  BY <1>2, <1>3 DEF Sums
<1> DEFINE Good == {n \in 0..Len(a) : G[n] = Slice(a, 1, n + 1)}
<1>5. ASSUME NEW n \in 0..Len(a), \A j \in 0..(n - 1) : j \in Good PROVE n \in Good
  <2>1. CASE n = 0
    <3>1. Slice(a, 1, 0 + 1) = <<>>
      BY DEF Slice
    <3> QED  BY <1>4, <2>1, <3>1
  <2>2. CASE n # 0
    <3>1. n \in 1..Len(a) /\ n - 1 \in 0..(n - 1) /\ (n - 1) + 1 = n /\ n + 1 \in n..Len(a) + 1
          /\ n \in 1..Len(a) + 1
      BY <1>2, <2>2
    <3>2. G[n - 1] = Slice(a, 1, n)
      BY <1>5, <3>1
    <3>3. Slice(a, n, n + 1) = <<a[n]>>
      <4>1. 1..((n + 1) - n) = {1} /\ n + 1 - 1 = n
        BY <3>1
      <4> QED  BY <4>1 DEF Slice
    <3>4. G[n] = Slice(a, 1, n) \o Slice(a, n, n + 1)
      BY <1>1, <1>4, <3>1, <3>2, <3>3
    <3>5. Slice(a, 1, n) \o Slice(a, n, n + 1) = Slice(a, 1, n + 1)
      BY <3>1, SliceJoin
    <3> QED  BY <3>4, <3>5
  <2> QED  BY <2>1, <2>2
<1>6. Len(a) \in Good
  <2> HIDE DEF Good
  <2>1. \A n \in 0..Len(a) : n \in Good
    BY <1>2, <1>5, UpwardInduction
  <2>2. Len(a) \in 0..Len(a)
    BY <1>2
  <2> QED  BY <2>1, <2>2
<1> QED  BY <1>2, <1>3, <1>6, SliceWhole

LEMMA FlattenEmpties ==
    ASSUME NEW S, NEW list \in Seq(Seq(S)), \A n \in 1..Len(list) : list[n] = <<>>
    PROVE  FlattenSeq(list) = <<>>
<1>1. PICK f \in Seq(S) : f = FlattenSeq(list)
  BY FlattenType
<1>2. \A x : x \notin ToSet(f)
  <2>1. \A x : x \notin ToSet(<<>>)
    BY DEF ToSet
  <2> QED  BY <1>1, <2>1, FlattenRange
<1>3. Len(f) = 0
  <2> SUFFICES ASSUME Len(f) # 0 PROVE FALSE
    OBVIOUS
  <2>1. 1 \in 1..Len(f) /\ DOMAIN f = 1..Len(f)
    OBVIOUS
  <2>2. f[1] \in ToSet(f)
    BY <2>1 DEF ToSet
  <2> QED  BY <1>2, <2>2
<1> QED  BY <1>1, <1>3, EmptySeq

(* Y holds, for each piece of the walk over ops, what X holds for the      *)
(* operations of that piece.                                               *)
Regrouped(S, O, ops, X, Y) ==
    /\ ops \in Seq(O)
    /\ X \in Seq(Seq(S)) /\ Len(X) = Len(ops)
    /\ Y \in Seq(Seq(S)) /\ Len(Y) = Len(Starts(ops))
    /\ \A n \in 1..Len(Y) :
           Y[n] = FlattenSeq(Slice(X, Starts(ops)[n], After(ops, Starts(ops)[n])))

LEMMA Regroup ==
    ASSUME NEW S, NEW O, NEW ops, NEW X, NEW Y, Regrouped(S, O, ops, X, Y)
    PROVE  FlattenSeq(Y) = FlattenSeq(X)
<1> SUFFICES ASSUME NEW starts, starts = Starts(ops), ops \in Seq(O),
                    X \in Seq(Seq(S)), Len(X) = Len(ops),
                    Y \in Seq(Seq(S)), Len(Y) = Len(starts),
                    \A n \in 1..Len(Y) :
                        Y[n] = FlattenSeq(Slice(X, starts[n], After(ops, starts[n])))
             PROVE  FlattenSeq(Y) = FlattenSeq(X)
  BY DEF Regrouped
<1> DEFINE N == Len(ops)  m == Len(starts)
<1>1. Walked(ops, 1, starts) /\ N \in Nat
  BY StartsWalk
<1>2. CASE N = 0
  <2>1. starts = <<>>
    BY <1>1, <1>2 DEF Walked
  <2>2. Len(X) = 0 /\ Len(Y) = 0
    BY <1>2, <2>1
  <2>3. X = <<>> /\ Y = <<>>
    BY <2>2, EmptySeq
  <2> QED  BY <2>3
<1>3. CASE N # 0
  <2>1. /\ starts \in Seq(1..N) /\ starts # <<>> /\ starts[1] = 1
        /\ After(ops, starts[m]) = N + 1
        /\ \A n \in 1..m - 1 : starts[n + 1] = After(ops, starts[n])
    BY <1>1, <1>3 DEF Walked
  <2>2. m \in Nat \ {0}
    BY <2>1, EmptySeq
  <2>3. \A n \in 1..m : starts[n] \in 1..N /\ After(ops, starts[n]) \in starts[n] + 1..N + 1
    <3>1. \A i \in 1..N : After(ops, i) \in i + 1..N + 1
      BY AfterIs
    <3> QED  BY <2>1, <3>1, ElementOfSeq
  <2>4. PICK F : Sums(S, Y, F) /\ FlattenSeq(Y) = F[Len(Y)]
    BY FlattenSums
  <2>5. /\ F \in [0..m -> Seq(S)] /\ F[0] = <<>>
        /\ \A n \in 1..m : F[n] = F[n - 1] \o Y[n]
    BY <2>4 DEF Sums
  <2> DEFINE Good == {n \in 0..m : n # 0 =>
                          F[n] = FlattenSeq(Slice(X, 1, After(ops, starts[n])))}
  <2>6. ASSUME NEW n \in 1..m, NEW before, before \in Seq(Seq(S)),
               before = Slice(X, 1, starts[n]), F[n - 1] = FlattenSeq(before)
        PROVE  F[n] = FlattenSeq(Slice(X, 1, After(ops, starts[n])))
    <3>0. PICK i \in 1..Len(X) + 1 : i = starts[n]
      BY <1>1, <2>3
    <3>1. PICK j \in i..Len(X) + 1 : i = starts[n] /\ j = After(ops, starts[n])
      BY <1>1, <2>3, <3>0
    <3>2. PICK here \in Seq(Seq(S)) : here = Slice(X, i, j)
      BY SliceIs
    <3>3. before \o here = Slice(X, 1, j)
      BY <2>6, <3>1, <3>2, SliceJoin
    <3>4. FlattenSeq(before \o here) = FlattenSeq(before) \o FlattenSeq(here)
      BY <2>6, FlattenConcat
    <3>5. F[n] = F[n - 1] \o Y[n] /\ Y[n] = FlattenSeq(here)
      BY <2>2, <2>5, <3>1, <3>2
    <3> QED  BY <2>6, <3>1, <3>3, <3>4, <3>5
  <2>7. ASSUME NEW n \in 0..m, \A j \in 0..(n - 1) : j \in Good PROVE n \in Good
    <3>1. CASE n = 0
      BY <3>1
    <3>2. CASE n = 1
      <4>1. Slice(X, 1, 1) = <<>> /\ <<>> \in Seq(Seq(S))
        BY EmptySeq DEF Slice
      <4>2. 1 \in 1..m /\ 1 - 1 = 0
        BY <2>2
      <4>3. F[1 - 1] = FlattenSeq(<<>>)
        BY <2>5, <4>2, FlattenEmpty
      <4>4. F[1] = FlattenSeq(Slice(X, 1, After(ops, starts[1])))
        BY ONLY <2>1, <2>6, <4>1, <4>2, <4>3
      <4> QED  BY <3>2, <4>4
    <3>3. CASE n \notin {0, 1}
      <4>1. n \in 1..m /\ n - 1 \in 1..m - 1 /\ n - 1 \in 0..(n - 1) /\ (n - 1) + 1 = n /\ n - 1 # 0
        BY <2>2, <3>3
      <4>2. starts[n] = After(ops, starts[n - 1])
        BY <2>1, <4>1
      <4>3. F[n - 1] = FlattenSeq(Slice(X, 1, starts[n]))
        BY <2>7, <4>1, <4>2
      <4>4. Slice(X, 1, starts[n]) \in Seq(Seq(S))
        <5>1. PICK i \in 1..Len(X) + 1 : i = starts[n]
          BY <1>1, <2>3, <4>1
        <5>2. 1 \in 1..Len(X) + 1
          BY <1>1
        <5>3. Slice(X, 1, i) \in Seq(Seq(S))
          BY <5>2, SliceIs
        <5> QED  BY <5>1, <5>3
      <4>5. F[n] = FlattenSeq(Slice(X, 1, After(ops, starts[n])))
        BY ONLY <2>6, <4>1, <4>3, <4>4
      <4> QED  BY <4>5
    <3> QED  BY <3>1, <3>2, <3>3
  <2>8. m \in Good
    <3> HIDE DEF Good
    <3>1. \A n \in 0..m : n \in Good
      BY <2>2, <2>7, UpwardInduction
    <3>2. m \in 0..m
      BY <2>2
    <3> QED  BY <3>1, <3>2
  <2>9. FlattenSeq(Y) = FlattenSeq(Slice(X, 1, N + 1))
    BY <2>1, <2>2, <2>4, <2>8
  <2> QED  BY <2>9, SliceWhole
<1> QED  BY <1>2, <1>3
=============================================================================
