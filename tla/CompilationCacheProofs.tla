------------------------ MODULE CompilationCacheProofs ------------------------
(***************************************************************************)
(* Theorems of module CompilationCache, for any number of threads,         *)
(* pipelines and entries, and for any sizes and budgets:                   *)
(*                                                                         *)
(*   TypeCorrect          Spec => []TypeOK                                 *)
(*   LeasesStayCounted    Spec => []LeasesCounted                          *)
(*   CopiesStayBounded    Spec => []CopiesBounded                          *)
(*   LeastRecentGoesFirst Spec => EvictsLeastRecent                        *)
(*   BudgetsHold          Spec => []WithinBudget                           *)
(*                                                                         *)
(* LeasesCounted is not inductive: a hit counts one more use of the first  *)
(* entry of a hash chain, and an eviction frees an entry of the order of   *)
(* use; Indexed says that both are entries of the cache, and that the      *)
(* freed one is in neither list afterwards because it was there once.      *)
(* Creation hands a lease from the thread to a pipeline; OneMaker says     *)
(* that this pipeline had none, for one thread only makes it.              *)
(***************************************************************************)
EXTENDS CompilationCache, FiniteSetTheorems, SequenceTheorems,
        WellFoundedInduction, TLAPS

(* A thread under way makes one pipeline, which no other thread makes and  *)
(* which has no program yet; it holds a lease only when it is built.       *)
OneMaker ==
    /\ \A t \in Threads :
           /\ pc[t] # "idle" => /\ making[t] \in Pipelines
                                /\ wanted[t] \in Keys
                                /\ pipeline[making[t]] = "none"
           /\ leased[t] # NoEntry => pc[t] = "built"
    /\ \A t, u \in Threads :
           (making[t] \in Pipelines /\ making[t] = making[u]) => t = u

Once(entries) ==
    \A i, j \in 1..Len(entries) : entries[i] = entries[j] => i = j

(* The hash chains and the order of use hold entries of the cache, once.   *)
Indexed ==
    /\ Once(lru)
    /\ \A i \in 1..Len(lru) : entryKey[lru[i]] # NoKey
    /\ \A k \in Keys :
           /\ Once(bucket[k])
           /\ \A i \in 1..Len(bucket[k]) : entryKey[bucket[k][i]] = k

Inv == TypeOK /\ OneMaker /\ Indexed /\ LeasesCounted

-----------------------------------------------------------------------------
(* Sequences and sets. *)

LEMMA TakenOut ==
    ASSUME NEW S, NEW s \in Seq(S), NEW a \in 1..Len(s), Once(s)
    PROVE  /\ Without(s, s[a]) \in Seq(S)
           /\ Len(Without(s, s[a])) = Len(s) - 1
           /\ \A i \in 1..Len(Without(s, s[a])) :
                  Without(s, s[a])[i] = IF i < a THEN s[i] ELSE s[i + 1]
<1>1. (CHOOSE i \in 1..Len(s) : s[i] = s[a]) = a
  BY DEF Once
<1>2. Without(s, s[a]) = SubSeq(s, 1, a - 1) \o SubSeq(s, a + 1, Len(s))
  BY <1>1 DEF Without, RemoveAt
<1>3. /\ SubSeq(s, 1, a - 1) \in Seq(S)
      /\ Len(SubSeq(s, 1, a - 1)) = a - 1
      /\ \A i \in 1..(a - 1) : SubSeq(s, 1, a - 1)[i] = s[i]
  OBVIOUS
<1>4. /\ SubSeq(s, a + 1, Len(s)) \in Seq(S)
      /\ Len(SubSeq(s, a + 1, Len(s))) = Len(s) - a
      /\ \A i \in 1..(Len(s) - a) : SubSeq(s, a + 1, Len(s))[i] = s[a + i]
  OBVIOUS
<1> DEFINE l == SubSeq(s, 1, a - 1)
           r == SubSeq(s, a + 1, Len(s))
<1>5. /\ l \o r \in Seq(S)
      /\ Len(l \o r) = Len(s) - 1
      /\ \A i \in 1..(Len(s) - 1) : (l \o r)[i] = IF i < a THEN l[i] ELSE r[i - (a - 1)]
  <2> HIDE DEF l, r
  <2>1. /\ l \in Seq(S) /\ Len(l) = a - 1
        /\ r \in Seq(S) /\ Len(r) = Len(s) - a
    BY <1>3, <1>4 DEF l, r
  <2>2. /\ l \o r \in Seq(S)
        /\ Len(l \o r) = Len(l) + Len(r)
        /\ \A i \in 1..(Len(l) + Len(r)) :
               (l \o r)[i] = IF i <= Len(l) THEN l[i] ELSE r[i - Len(l)]
    BY <2>1, ConcatProperties
  <2>3. Len(l) + Len(r) = Len(s) - 1
    BY <2>1
  <2>4. \A i \in 1..(Len(s) - 1) : i <= Len(l) <=> i < a
    BY <2>1
  <2> QED  BY <2>1, <2>2, <2>3, <2>4
<1>6. \A i \in 1..(Len(s) - 1) : (l \o r)[i] = IF i < a THEN s[i] ELSE s[i + 1]
  <2> SUFFICES ASSUME NEW i \in 1..(Len(s) - 1)
               PROVE  (l \o r)[i] = IF i < a THEN s[i] ELSE s[i + 1]
    OBVIOUS
  <2>1. i < a => l[i] = s[i]
    BY <1>3
  <2>2. ~(i < a) => r[i - (a - 1)] = s[a + (i - (a - 1))] /\ a + (i - (a - 1)) = i + 1
    BY <1>4
  <2> HIDE DEF l, r
  <2> QED  BY <1>5, <2>1, <2>2
<1> QED  BY <1>2, <1>5, <1>6

(* An element that is not there is not taken out. *)
LEMMA NothingTakenOut ==
    ASSUME NEW s, NEW c, \A i \in 1..Len(s) : s[i] # c
    PROVE  Without(s, c) = s
BY DEF Without

(* What is left once c is taken out. *)
LEMMA Left ==
    ASSUME NEW S, NEW s \in Seq(S), NEW c, Once(s)
    PROVE  /\ Without(s, c) \in Seq(S)
           /\ Len(Without(s, c)) <= Len(s)
           /\ Once(Without(s, c))
           /\ \A i \in 1..Len(Without(s, c)) :
                  /\ Without(s, c)[i] # c
                  /\ \E j \in 1..Len(s) : s[j] = Without(s, c)[i]
<1>1. CASE \A i \in 1..Len(s) : s[i] # c
  BY <1>1, NothingTakenOut
<1>2. CASE \E a \in 1..Len(s) : s[a] = c
  <2>1. PICK a \in 1..Len(s) : s[a] = c
    BY <1>2
  <2> DEFINE w == Without(s, c)
  <2>2. /\ w \in Seq(S) /\ Len(w) = Len(s) - 1
        /\ \A i \in 1..Len(w) : w[i] = IF i < a THEN s[i] ELSE s[i + 1]
    BY <2>1, TakenOut
  <2> HIDE DEF w
  <2>3. \A i \in 1..Len(w) : /\ (IF i < a THEN i ELSE i + 1) \in 1..Len(s)
                             /\ (IF i < a THEN i ELSE i + 1) # a
    BY <2>2
  <2>4. \A i \in 1..Len(w) : w[i] # c
    BY <2>1, <2>2, <2>3 DEF Once
  <2>5. Once(w)
    BY <2>2, <2>3 DEF Once
  <2> QED  BY <2>2, <2>3, <2>4, <2>5 DEF w
<1> QED  BY <1>1, <1>2

(* One more at the front. *)
LEMMA InFront ==
    ASSUME NEW S, NEW s \in Seq(S), NEW c \in S
    PROVE  /\ <<c>> \o s \in Seq(S)
           /\ Len(<<c>> \o s) = Len(s) + 1
           /\ (<<c>> \o s)[1] = c
           /\ \A i \in 2..(Len(s) + 1) : (<<c>> \o s)[i] = s[i - 1]
OBVIOUS

LEMMA OnceInFront ==
    ASSUME NEW S, NEW s \in Seq(S), NEW c \in S, Once(s),
           \A i \in 1..Len(s) : s[i] # c
    PROVE  Once(<<c>> \o s)
<1> DEFINE w == <<c>> \o s
<1>1. /\ Len(w) = Len(s) + 1 /\ w[1] = c
      /\ \A i \in 2..(Len(s) + 1) : w[i] = s[i - 1]
  BY InFront
<1> HIDE DEF w
<1>2. Once(w)
  <2> SUFFICES ASSUME NEW i \in 1..Len(w), NEW j \in 1..Len(w), w[i] = w[j]
               PROVE  i = j
    BY DEF Once
  <2>1. CASE i = 1 /\ j = 1
    BY <2>1
  <2>2. CASE i = 1 /\ j # 1
    BY <2>2, <1>1
  <2>3. CASE i # 1 /\ j = 1
    BY <2>3, <1>1
  <2>4. CASE i # 1 /\ j # 1
    <3>1. /\ i - 1 \in 1..Len(s) /\ j - 1 \in 1..Len(s)
          /\ w[i] = s[i - 1] /\ w[j] = s[j - 1]
      BY <2>4, <1>1
    <3>2. s[i - 1] = s[j - 1]
      BY <3>1
    <3>3. i - 1 = j - 1
      BY <3>1, <3>2 DEF Once
    <3> QED  BY <3>3
  <2> QED  BY <2>1, <2>2, <2>3, <2>4
<1> QED  BY <1>2 DEF w

(* How many have the value c, when one of them changes. *)
Count(S, f, c) == Cardinality({x \in S : f[x] = c})

LEMMA CountIsNat ==
    ASSUME NEW S, IsFiniteSet(S), NEW f, NEW c
    PROVE  /\ IsFiniteSet({x \in S : f[x] = c})
           /\ Count(S, f, c) \in Nat
BY FS_Subset, FS_CardinalityType DEF Count

LEMMA NoneIsNone ==
    ASSUME NEW S, IsFiniteSet(S), NEW f, NEW c, Count(S, f, c) = 0
    PROVE  \A x \in S : f[x] # c
BY CountIsNat, FS_EmptySet DEF Count

Is(x, c) == IF x = c THEN 1 ELSE 0

LEMMA CountChange ==
    ASSUME NEW S, IsFiniteSet(S), NEW f, NEW g, NEW x \in S,
           \A y \in S : y # x => g[y] = f[y], NEW c
    PROVE  /\ Count(S, f, c) \in Nat
           /\ Count(S, g, c) = Count(S, f, c) + Is(g[x], c) - Is(f[x], c)
<1> DEFINE F == {y \in S : f[y] = c}
           G == {y \in S : g[y] = c}
<1>1. IsFiniteSet(F) /\ Cardinality(F) \in Nat
  BY FS_Subset, FS_CardinalityType
<1>2. CASE (f[x] = c) = (g[x] = c)
  <2>1. F = G /\ Is(g[x], c) = Is(f[x], c) /\ Is(f[x], c) \in Nat
    BY <1>2 DEF Is
  <2> HIDE DEF F, G
  <2>2. Cardinality(G) = Cardinality(F) + Is(g[x], c) - Is(f[x], c)
    BY <1>1, <2>1
  <2> QED  BY <1>1, <2>2 DEF Count, F, G
<1>3. CASE f[x] # c /\ g[x] = c
  <2>1. G = F \cup {x} /\ x \notin F /\ Is(g[x], c) = 1 /\ Is(f[x], c) = 0
    BY <1>3 DEF Is
  <2> HIDE DEF F, G
  <2>2. Cardinality(G) = Cardinality(F) + 1
    BY <1>1, <2>1, FS_AddElement
  <2> QED  BY <1>1, <2>1, <2>2 DEF Count, F, G
<1>4. CASE f[x] = c /\ g[x] # c
  <2>1. G = F \ {x} /\ x \in F /\ Is(g[x], c) = 0 /\ Is(f[x], c) = 1
    BY <1>4 DEF Is
  <2> HIDE DEF F, G
  <2>2. Cardinality(G) = Cardinality(F) - 1
    BY <1>1, <2>1, FS_RemoveElement
  <2> QED  BY <1>1, <2>1, <2>2 DEF Count, F, G
<1> QED  BY <1>2, <1>3, <1>4

LEMMA LeasesAreCounts ==
    ASSUME NEW c
    PROVE  Leases(c) = Count(Pipelines, pipeline, c) + Count(Threads, leased, c)
BY DEF Leases, Count

LEMMA LeasesAreNat ==
    ASSUME NEW c
    PROVE  /\ Leases(c) \in Nat
           /\ Leases(c) = 0 => /\ \A p \in Pipelines : pipeline[p] # c
                               /\ \A t \in Threads : leased[t] # c
<1>1. Count(Pipelines, pipeline, c) \in Nat /\ Count(Threads, leased, c) \in Nat
  BY CountIsNat, CacheAssumption
<1>2. Leases(c) = 0 => /\ Count(Pipelines, pipeline, c) = 0
                       /\ Count(Threads, leased, c) = 0
  BY <1>1, LeasesAreCounts
<1> QED  BY <1>1, <1>2, LeasesAreCounts, NoneIsNone, CacheAssumption

-----------------------------------------------------------------------------
(* Types.  *)

LEMMA WithoutType ==
    ASSUME NEW s \in Seq(Entries), NEW c
    PROVE  Without(s, c) \in Seq(Entries)
<1>1. CASE \A i \in 1..Len(s) : s[i] # c
  BY <1>1, NothingTakenOut
<1>2. CASE \E i \in 1..Len(s) : s[i] = c
  <2> DEFINE a == CHOOSE i \in 1..Len(s) : s[i] = c
  <2>1. a \in 1..Len(s)
    BY <1>2
  <2>2. Without(s, c) = SubSeq(s, 1, a - 1) \o SubSeq(s, a + 1, Len(s))
    BY <1>2 DEF Without, RemoveAt
  <2> HIDE DEF a
  <2> QED  BY <2>1, <2>2
<1> QED  BY <1>1, <1>2

LEMMA TouchedType ==
    ASSUME TypeOK, NEW c \in Entries
    PROVE  Touched(c) \in Seq(Entries)
<1>1. Without(lru, c) \in Seq(Entries)
  BY WithoutType DEF TypeOK
<1> QED  BY <1>1, InFront DEF Touched

LEMMA FirstOfBucket ==
    ASSUME TypeOK, NEW k \in Keys, bucket[k] # <<>>
    PROVE  /\ bucket[k][1] \in Entries
           /\ 1 \in 1..Len(bucket[k])
BY DEF TypeOK

LEMMA VictimIsEvictable ==
    ASSUME TypeOK, Evictable # {}
    PROVE  /\ Victim \in 1..Len(lru)
           /\ lru[Victim] \in Entries
           /\ refcount[lru[Victim]] <= 0
           /\ \A j \in 1..Len(lru) : refcount[lru[j]] <= 0 => j <= Victim
<1> DEFINE n == Len(lru)
<1>1. n \in Nat
  BY DEF TypeOK
<1>2. Evictable \subseteq 1..n
  BY DEF Evictable
<1>3. PICK m \in Evictable : \A j \in Evictable : j <= m
  <2> DEFINE I == {n - j : j \in Evictable}
             Less == OpToRel(<, Nat)
  <2>1. I # {} /\ I \subseteq Nat
    BY <1>1, <1>2
  <2>2. PICK i \in I : \A h \in I : ~ (<<h, i>> \in Less)
    <3> HIDE DEF I
    <3> QED  BY <2>1, NatLessThanWellFounded, WFMin
  <2>3. \A g, h \in Nat : g < h => <<g, h>> \in Less
    BY DEF OpToRel
  <2>4. i \in Nat /\ \A h \in I : h \in Nat /\ i <= h
    <3> HIDE DEF I, Less
    <3>1. i \in Nat
      BY <2>1
    <3>2. \A h \in I : h \in Nat /\ ~(h < i)
      BY <3>1, <2>1, <2>2, <2>3
    <3> QED  BY <3>1, <3>2
  <2>5. PICK m \in Evictable : i = n - m
    BY <2>2
  <2>6. \A j \in Evictable : n - j \in I
    OBVIOUS
  <2>7. \A j \in Evictable : j \in Int /\ i <= n - j
    <3> HIDE DEF I
    <3> QED  BY <1>2, <2>4, <2>6
  <2>8. \A j \in Evictable : j <= m
    <3> HIDE DEF I
    <3> QED  BY <1>1, <2>5, <2>7
  <2> QED  BY <2>8
<1>4. Victim \in Evictable /\ \A j \in Evictable : j <= Victim
  BY <1>3 DEF Victim
<1> QED  BY <1>4 DEF Evictable, TypeOK

LEMMA TypeInit == Init => TypeOK
BY CacheAssumption DEF Init, TypeOK, Places

LEMMA TypeStep ==
    ASSUME TypeOK, OneMaker, Indexed, [Next]_vars
    PROVE  TypeOK'
<1> USE CacheAssumption
<1>1. CASE UNCHANGED vars
  BY <1>1 DEF TypeOK, vars, threadVars, cacheVars
<1>2. ASSUME NEW t \in Threads, NEW p \in Pipelines, NEW k \in Keys, LookupHit(t, p, k)
      PROVE  TypeOK'
  <2>1. bucket[k][1] \in Entries
    BY <1>2, FirstOfBucket DEF LookupHit
  <2>2. lru' \in Seq(Entries)
    BY <1>2, <2>1, TouchedType DEF LookupHit
  <2> QED  BY <1>2, <2>1, <2>2 DEF TypeOK, LookupHit, Begin, Goto, Places
<1>3. ASSUME NEW t \in Threads, NEW p \in Pipelines, NEW k \in Keys, LookupMiss(t, p, k)
      PROVE  TypeOK'
  BY <1>3 DEF TypeOK, LookupMiss, Begin, Goto, Places, cacheVars
<1>4. ASSUME NEW t \in Threads, CompileFails(t)
      PROVE  TypeOK'
  BY <1>4 DEF TypeOK, CompileFails, Done, Goto, Places, cacheVars
<1>5. ASSUME NEW t \in Threads, Insert(t)
      PROVE  TypeOK'
  BY <1>5 DEF TypeOK, Insert, Goto, Places, cacheVars
<1>6. ASSUME NEW t \in Threads, Evict(t)
      PROVE  TypeOK'
  <2> DEFINE c == lru[Victim]
  <2>1. c \in Entries /\ Victim \in 1..Len(lru)
    BY <1>6, VictimIsEvictable DEF Evict
  <2>2. entryKey[c] \in Keys
    BY <2>1 DEF Indexed, TypeOK
  <2>3. lru' \in Seq(Entries) /\ Without(bucket[entryKey[c]], c) \in Seq(Entries)
    BY <1>6, <2>2, WithoutType DEF TypeOK, Evict
  <2>4. bucket' \in [Keys -> Seq(Entries)]
    BY <1>6, <2>2, <2>3 DEF TypeOK, Evict
  <2>5. currentBytes' \in Int /\ currentEntries' \in Int
    BY <1>6, <2>2 DEF TypeOK, Evict
  <2> QED  BY <1>6, <2>3, <2>4, <2>5 DEF TypeOK, Evict, threadVars
<1>7. ASSUME NEW t \in Threads, Refuse(t)
      PROVE  TypeOK'
  BY <1>7 DEF TypeOK, Refuse, Goto, Places, cacheVars
<1>8. ASSUME NEW t \in Threads, Store(t)
      PROVE  TypeOK'
  <2>1. wanted[t] \in Keys
    BY <1>8 DEF OneMaker, Store
  <2>2. PICK c \in Entries :
            /\ entryKey' = [entryKey EXCEPT ![c] = wanted[t]]
            /\ refcount' = [refcount EXCEPT ![c] = 1]
            /\ bucket' = [bucket EXCEPT ![wanted[t]] = <<c>> \o @]
            /\ lru' = <<c>> \o lru
            /\ leased' = [leased EXCEPT ![t] = c]
    BY <1>8 DEF Store
  <2>3. <<c>> \o bucket[wanted[t]] \in Seq(Entries) /\ lru' \in Seq(Entries)
    BY <2>1, <2>2, InFront DEF TypeOK
  <2>4. bucket' \in [Keys -> Seq(Entries)]
    BY <2>1, <2>2, <2>3 DEF TypeOK
  <2>5. /\ entryKey' \in [Entries -> Keys \cup {NoKey}]
        /\ refcount' \in [Entries -> Int]
        /\ leased' \in [Threads -> Entries \cup {NoEntry}]
    BY <2>1, <2>2 DEF TypeOK
  <2>6. currentBytes' \in Int /\ currentEntries' \in Int
    BY <1>8, <2>1 DEF TypeOK, Store
  <2>7. pc' \in [Threads -> Places]
    BY <1>8 DEF TypeOK, Store, Goto, Places
  <2> QED  BY <1>8, <2>3, <2>4, <2>5, <2>6, <2>7 DEF TypeOK, Store
<1>9. ASSUME NEW t \in Threads, Finish(t)
      PROVE  TypeOK'
  <2>1. pipeline' \in [Pipelines -> {"none", "own"} \cup Entries]
    BY <1>9 DEF TypeOK, Finish
  <2> QED  BY <1>9, <2>1 DEF TypeOK, Finish, Done, Goto, Places, cacheVars
<1>10. ASSUME NEW t \in Threads, GiveUp(t)
       PROVE  TypeOK'
  BY <1>10 DEF TypeOK, GiveUp, Release, Done, Goto, Places, cacheVars
<1>11. ASSUME NEW p \in Pipelines, DestroyPipeline(p)
       PROVE  TypeOK'
  BY <1>11 DEF TypeOK, DestroyPipeline, Release, threadVars, cacheVars
<1> QED  BY <1>1, <1>2, <1>3, <1>4, <1>5, <1>6, <1>7, <1>8, <1>9, <1>10, <1>11
         DEF Next

-----------------------------------------------------------------------------
(* Who makes which pipeline. *)

LEMMA MakerInit == Init => OneMaker
BY CacheAssumption DEF Init, OneMaker

LEMMA MakerStep ==
    ASSUME TypeOK, OneMaker, [Next]_vars
    PROVE  OneMaker'
<1> USE CacheAssumption DEF TypeOK, OneMaker
<1>1. CASE UNCHANGED vars
  BY <1>1 DEF vars, threadVars
<1>2. ASSUME NEW t \in Threads, NEW p \in Pipelines, NEW k \in Keys, Begin(t, p, k),
             pc' \in {[pc EXCEPT ![t] = "built"], [pc EXCEPT ![t] = "compiling"]},
             \A u \in Threads \ {t} : leased'[u] = leased[u],
             leased'[t] # NoEntry => pc'[t] = "built",
             pipeline' = pipeline
      PROVE  OneMaker'
  BY <1>2 DEF Begin
<1>3. ASSUME NEW t \in Threads, NEW p \in Pipelines, NEW k \in Keys, LookupHit(t, p, k)
      PROVE  OneMaker'
  <2>1. leased' = [leased EXCEPT ![t] = bucket[k][1]] /\ pipeline' = pipeline
    BY <1>3 DEF LookupHit
  <2>2. pc' = [pc EXCEPT ![t] = "built"] /\ Begin(t, p, k)
    BY <1>3 DEF LookupHit, Goto
  <2> QED  BY <1>2, <2>1, <2>2
<1>4. ASSUME NEW t \in Threads, NEW p \in Pipelines, NEW k \in Keys, LookupMiss(t, p, k)
      PROVE  OneMaker'
  <2>1. leased' = leased /\ pipeline' = pipeline /\ leased[t] = NoEntry
    BY <1>4 DEF LookupMiss, Begin
  <2>2. pc' = [pc EXCEPT ![t] = "compiling"] /\ Begin(t, p, k)
    BY <1>4 DEF LookupMiss, Goto
  <2> QED  BY <1>2, <2>1, <2>2
<1>5. ASSUME NEW t \in Threads, Done(t), pipeline' = pipeline
      PROVE  OneMaker'
  BY <1>5 DEF Done, Goto
<1>6. ASSUME NEW t \in Threads, NEW where \in {"built", "evicting"}, Goto(t, where),
             pc[t] # "idle", leased[t] = NoEntry,
             UNCHANGED <<making, wanted, pipeline>>,
             leased' \in {leased, [leased EXCEPT ![t] = leased'[t]]},
             leased'[t] # NoEntry => where = "built"
      PROVE  OneMaker'
  BY <1>6 DEF Goto
<1>7. ASSUME NEW t \in Threads, CompileFails(t)
      PROVE  OneMaker'
  <2>1. CASE Done(t)
    BY <1>5, <1>7, <2>1 DEF CompileFails
  <2>2. CASE Goto(t, "built") /\ UNCHANGED <<making, wanted, leased>>
    BY <1>6, <1>7, <2>2 DEF CompileFails
  <2> QED  BY <1>7, <2>1, <2>2 DEF CompileFails
<1>8. ASSUME NEW t \in Threads, Insert(t)
      PROVE  OneMaker'
  BY <1>6, <1>8 DEF Insert
<1>9. ASSUME NEW t \in Threads, Evict(t)
      PROVE  OneMaker'
  BY <1>9 DEF Evict, threadVars
<1>10. ASSUME NEW t \in Threads, Refuse(t)
       PROVE  OneMaker'
  BY <1>6, <1>10 DEF Refuse
<1>11. ASSUME NEW t \in Threads, Store(t)
       PROVE  OneMaker'
  <2>1. PICK c \in Entries : leased' = [leased EXCEPT ![t] = c]
    BY <1>11 DEF Store
  <2>2. leased' = [leased EXCEPT ![t] = leased'[t]]
    BY <2>1
  <2> QED  BY <1>6, <1>11, <2>2 DEF Store
<1>12. ASSUME NEW t \in Threads, Finish(t)
       PROVE  OneMaker'
  <2>1. \A u \in Threads \ {t} : pc[u] # "idle" => making[u] # making[t]
    BY <1>12 DEF Finish
  <2>2. \A u \in Threads \ {t} : pc[u] # "idle" => pipeline'[making[u]] = "none"
    BY <1>12, <2>1 DEF Finish
  <2> QED  BY <1>12, <2>2 DEF Finish, Done, Goto
<1>13. ASSUME NEW t \in Threads, GiveUp(t)
       PROVE  OneMaker'
  BY <1>5, <1>13 DEF GiveUp
<1>14. ASSUME NEW p \in Pipelines, DestroyPipeline(p)
       PROVE  OneMaker'
  BY <1>14 DEF DestroyPipeline, threadVars
<1> QED  BY <1>1, <1>3, <1>4, <1>7, <1>8, <1>9, <1>10, <1>11, <1>12, <1>13, <1>14
         DEF Next

-----------------------------------------------------------------------------
(* The lists of the cache. *)

LEMMA IndexInit == Init => Indexed
BY DEF Init, Indexed, Once

(* Steps that leave the lists and the keys alone. *)
LEMMA OtherSteps ==
    ASSUME [Next]_vars
    PROVE  \/ UNCHANGED <<entryKey, bucket, lru>>
           \/ \E t \in Threads, p \in Pipelines, k \in Keys : LookupHit(t, p, k)
           \/ \E t \in Threads : Evict(t) \/ Store(t)
<1>1. CASE UNCHANGED vars
  BY <1>1 DEF vars, cacheVars
<1>2. ASSUME NEW t \in Threads, NEW p \in Pipelines, NEW k \in Keys, LookupMiss(t, p, k)
      PROVE  UNCHANGED <<entryKey, bucket, lru>>
  BY <1>2 DEF LookupMiss, cacheVars
<1>3. ASSUME NEW t \in Threads, CompileFails(t) \/ Insert(t) \/ Refuse(t) \/ Finish(t)
      PROVE  UNCHANGED <<entryKey, bucket, lru>>
  BY <1>3 DEF CompileFails, Insert, Refuse, Finish, cacheVars
<1>4. ASSUME NEW t \in Threads, GiveUp(t)
      PROVE  UNCHANGED <<entryKey, bucket, lru>>
  BY <1>4 DEF GiveUp, Release, cacheVars
<1>5. ASSUME NEW p \in Pipelines, DestroyPipeline(p)
      PROVE  UNCHANGED <<entryKey, bucket, lru>>
  BY <1>5 DEF DestroyPipeline, Release, cacheVars
<1> QED  BY <1>1, <1>2, <1>3, <1>4, <1>5 DEF Next

LEMMA IndexStep ==
    ASSUME TypeOK, OneMaker, Indexed, [Next]_vars
    PROVE  Indexed'
<1> USE CacheAssumption
<1>1. CASE UNCHANGED <<entryKey, bucket, lru>>
  BY <1>1 DEF Indexed, Once
<1>2. ASSUME NEW t \in Threads, NEW p \in Pipelines, NEW k \in Keys, LookupHit(t, p, k)
      PROVE  Indexed'
  <2> DEFINE c == bucket[k][1]
             rest == Without(lru, c)
  <2>1. c \in Entries /\ entryKey[c] # NoKey
    BY <1>2, FirstOfBucket DEF Indexed, LookupHit
  <2>2. /\ rest \in Seq(Entries) /\ Once(rest)
        /\ \A i \in 1..Len(rest) : /\ rest[i] # c
                                   /\ \E j \in 1..Len(lru) : lru[j] = rest[i]
    BY Left DEF Indexed, TypeOK
  <2>3. lru' = <<c>> \o rest /\ UNCHANGED <<entryKey, bucket>>
    BY <1>2 DEF LookupHit, Touched
  <2>4. \A i \in 1..Len(rest) : entryKey[rest[i]] # NoKey
    BY <2>2 DEF Indexed
  <2> HIDE DEF c, rest
  <2>5. Once(lru')
    BY <2>1, <2>2, <2>3, OnceInFront
  <2>6. \A i \in 1..Len(lru') : entryKey'[lru'[i]] # NoKey
    BY <2>1, <2>2, <2>3, <2>4, InFront
  <2>7. \A n \in Keys : /\ Once(bucket'[n])
                        /\ \A i \in 1..Len(bucket'[n]) : entryKey'[bucket'[n][i]] = n
    BY <2>3 DEF Indexed
  <2> QED  BY <2>5, <2>6, <2>7 DEF Indexed, Once
<1>3. ASSUME NEW t \in Threads, Evict(t)
      PROVE  Indexed'
  <2> DEFINE c == lru[Victim]
             k == entryKey[c]
             rest == Without(lru, c)
             chain == Without(bucket[k], c)
  <2>1. c \in Entries /\ k \in Keys
    BY <1>3, VictimIsEvictable DEF Evict, Indexed, TypeOK
  <2>2. /\ rest \in Seq(Entries) /\ Once(rest)
        /\ \A i \in 1..Len(rest) : /\ rest[i] # c
                                   /\ \E j \in 1..Len(lru) : lru[j] = rest[i]
    <3> HIDE DEF c, k
    <3>1. lru \in Seq(Entries) /\ Once(lru)
      BY DEF Indexed, TypeOK
    <3> QED  BY <3>1, Left
  <2>3. /\ chain \in Seq(Entries) /\ Once(chain)
        /\ \A i \in 1..Len(chain) :
               /\ chain[i] # c
               /\ \E j \in 1..Len(bucket[k]) : bucket[k][j] = chain[i]
    <3> HIDE DEF c, k
    <3> QED  BY <2>1, Left DEF Indexed, TypeOK
  <2>4. /\ lru' = rest /\ bucket' = [bucket EXCEPT ![k] = chain]
        /\ entryKey' = [entryKey EXCEPT ![c] = NoKey]
    BY <1>3 DEF Evict
  <2>5. \A d \in Entries : d # c => entryKey'[d] = entryKey[d]
    BY <2>4 DEF TypeOK
  <2>6. k = entryKey[c]
    OBVIOUS
  <2> HIDE DEF c, k, rest, chain
  <2>7. \A i \in 1..Len(lru') : entryKey'[lru'[i]] # NoKey
    <3>1. ASSUME NEW i \in 1..Len(rest)
          PROVE  rest[i] \in Entries /\ entryKey[rest[i]] # NoKey
      <4>1. rest[i] \in Entries
        BY <2>2
      <4>2. PICK j \in 1..Len(lru) : lru[j] = rest[i]
        BY <2>2
      <4>3. entryKey[lru[j]] # NoKey
        BY DEF Indexed
      <4> QED  BY <4>1, <4>2, <4>3
    <3> QED  BY <2>2, <2>4, <2>5, <3>1
  <2>8. ASSUME NEW n \in Keys
        PROVE  /\ Once(bucket'[n])
               /\ \A i \in 1..Len(bucket'[n]) : entryKey'[bucket'[n][i]] = n
    <3>1. CASE n = k
      <4>1. bucket'[n] = chain
        BY <2>1, <2>4, <3>1 DEF TypeOK
      <4>2. \A i \in 1..Len(chain) : chain[i] \in Entries /\ entryKey[chain[i]] = k
        <5>1. bucket[k] \in Seq(Entries)
          BY <2>1 DEF TypeOK
        <5>2. \A j \in 1..Len(bucket[k]) :
                  bucket[k][j] \in Entries /\ entryKey[bucket[k][j]] = k
          BY <2>1, <5>1 DEF Indexed
        <5> QED  BY <2>3, <5>2
      <4>3. \A i \in 1..Len(chain) : entryKey'[chain[i]] = k
        BY <2>3, <2>5, <4>2
      <4>4. Once(chain)
        BY <2>3
      <4> QED  BY <3>1, <4>1, <4>3, <4>4
    <3>2. CASE n # k
      <4>1. bucket'[n] = bucket[n]
        BY <2>4, <3>2 DEF TypeOK
      <4>2. \A i \in 1..Len(bucket[n]) : /\ bucket[n][i] \in Entries
                                         /\ entryKey[bucket[n][i]] = n
        BY DEF Indexed, TypeOK
      <4> QED  BY <2>5, <2>6, <3>2, <4>1, <4>2 DEF Indexed
    <3> QED  BY <3>1, <3>2
  <2> QED  BY <2>2, <2>4, <2>7, <2>8 DEF Indexed, Once
<1>4. ASSUME NEW t \in Threads, Store(t)
      PROVE  Indexed'
  <2>1. wanted[t] \in Keys
    BY <1>4 DEF OneMaker, Store
  <2>2. PICK c \in Entries :
            /\ entryKey[c] = NoKey
            /\ entryKey' = [entryKey EXCEPT ![c] = wanted[t]]
            /\ bucket' = [bucket EXCEPT ![wanted[t]] = <<c>> \o @]
            /\ lru' = <<c>> \o lru
    BY <1>4 DEF Store
  <2>3. \A d \in Entries : entryKey'[d] = IF d = c THEN wanted[t] ELSE entryKey[d]
    BY <2>2 DEF TypeOK
  <2>4. \A i \in 1..Len(lru) : lru[i] \in Entries /\ lru[i] # c
    BY <2>2 DEF Indexed, TypeOK
  <2>5. Once(lru')
    BY <2>2, <2>4, OnceInFront DEF Indexed, TypeOK
  <2>6. \A i \in 1..Len(lru') : entryKey'[lru'[i]] # NoKey
    <3>1. /\ Len(lru') = Len(lru) + 1 /\ lru'[1] = c
          /\ \A i \in 2..(Len(lru) + 1) : lru'[i] = lru[i - 1]
      BY <2>2, InFront DEF TypeOK
    <3>2. \A i \in 1..Len(lru) : entryKey'[lru[i]] # NoKey
      BY <2>3, <2>4 DEF Indexed
    <3>3. Len(lru) \in Nat
      BY DEF TypeOK
    <3>4. entryKey'[c] # NoKey
      BY <2>1, <2>3
    <3> QED  BY <3>1, <3>2, <3>3, <3>4
  <2>7. ASSUME NEW n \in Keys
        PROVE  /\ Once(bucket'[n])
               /\ \A i \in 1..Len(bucket'[n]) : entryKey'[bucket'[n][i]] = n
    <3>1. \A i \in 1..Len(bucket[n]) : /\ bucket[n][i] \in Entries
                                       /\ entryKey[bucket[n][i]] = n
                                       /\ bucket[n][i] # c
      BY <2>2 DEF Indexed, TypeOK
    <3>2. CASE n = wanted[t]
      <4>1. bucket'[n] = <<c>> \o bucket[n]
        BY <2>2, <3>2 DEF TypeOK
      <4>2. Once(bucket'[n])
        <5>1. bucket[n] \in Seq(Entries) /\ Once(bucket[n])
          BY DEF Indexed, TypeOK
        <5> QED  BY <3>1, <4>1, <5>1, OnceInFront
      <4>3. /\ Len(bucket'[n]) = Len(bucket[n]) + 1 /\ bucket'[n][1] = c
            /\ \A i \in 2..(Len(bucket[n]) + 1) : bucket'[n][i] = bucket[n][i - 1]
        BY <4>1, InFront DEF TypeOK
      <4>4. \A i \in 1..Len(bucket[n]) : entryKey'[bucket[n][i]] = n
        BY <2>3, <3>1
      <4>5. Len(bucket[n]) \in Nat
        BY DEF TypeOK
      <4>6. ASSUME NEW i \in 1..Len(bucket'[n])
            PROVE  entryKey'[bucket'[n][i]] = n
        <5>1. CASE i = 1
          BY <2>3, <3>2, <4>3, <5>1
        <5>2. CASE i # 1
          <6>1. i \in 2..(Len(bucket[n]) + 1) /\ i - 1 \in 1..Len(bucket[n])
            BY <4>3, <4>5, <5>2
          <6> QED  BY <4>3, <4>4, <6>1
        <5> QED  BY <5>1, <5>2
      <4> QED  BY <4>2, <4>6
    <3>3. CASE n # wanted[t]
      <4>1. bucket'[n] = bucket[n]
        BY <2>2, <3>3 DEF TypeOK
      <4> QED  BY <2>3, <3>1, <4>1 DEF Indexed
    <3> QED  BY <3>2, <3>3
  <2> QED  BY <2>5, <2>6, <2>7 DEF Indexed, Once
<1> QED  BY <1>1, <1>2, <1>3, <1>4, OtherSteps

-----------------------------------------------------------------------------
(* The counts of users. *)

(* An entry somebody uses is one of the cache. *)
LEMMA UsedIsKept ==
    ASSUME TypeOK, LeasesCounted, NEW c \in Entries,
           \/ \E p \in Pipelines : pipeline[p] = c
           \/ \E t \in Threads : leased[t] = c
    PROVE  entryKey[c] # NoKey
BY LeasesAreNat DEF LeasesCounted

LEMMA CountsInit == Init => LeasesCounted
<1> SUFFICES ASSUME Init, NEW c \in Entries
             PROVE  IF entryKey[c] = NoKey THEN Leases(c) = 0 ELSE refcount[c] = Leases(c)
  BY DEF LeasesCounted
<1>1. /\ {p \in Pipelines : pipeline[p] = c} = {}
      /\ {t \in Threads : leased[t] = c} = {}
  BY CacheAssumption DEF Init
<1>2. Leases(c) = 0
  BY <1>1, FS_EmptySet DEF Leases
<1> QED  BY <1>2 DEF Init

LEMMA ThreadCount ==
    ASSUME NEW t \in Threads, IsFiniteSet(Threads), NEW c,
           \A u \in Threads : u # t => leased'[u] = leased[u]
    PROVE  Count(Threads, leased', c) =
               Count(Threads, leased, c) + Is(leased'[t], c) - Is(leased[t], c)
BY CountChange

LEMMA PipelineCount ==
    ASSUME NEW p \in Pipelines, IsFiniteSet(Pipelines), NEW c,
           \A q \in Pipelines : q # p => pipeline'[q] = pipeline[q]
    PROVE  Count(Pipelines, pipeline', c) =
               Count(Pipelines, pipeline, c) + Is(pipeline'[p], c) - Is(pipeline[p], c)
BY CountChange

(* The leases after a step that changes one thread's lease, one pipeline,  *)
(* or both.                                                                *)
LEMMA ThreadLease ==
    ASSUME TypeOK, NEW t \in Threads, NEW v, leased' = [leased EXCEPT ![t] = v]
    PROVE  \A c : /\ Count(Threads, leased, c) \in Nat
                  /\ Count(Threads, leased', c) =
                         Count(Threads, leased, c) + Is(v, c) - Is(leased[t], c)
<1>0. leased'[t] = v
  BY DEF TypeOK
<1>1. \A u \in Threads : u # t => leased'[u] = leased[u]
  BY DEF TypeOK
<1>2. IsFiniteSet(Threads)
  BY CacheAssumption
<1> TAKE c
<1>3. Count(Threads, leased', c) = Count(Threads, leased, c) + Is(leased'[t], c) - Is(leased[t], c)
  BY ONLY <1>1, <1>2, t \in Threads, ThreadCount
<1>4. Count(Threads, leased, c) \in Nat
  BY <1>2, CountIsNat
<1> QED  BY <1>0, <1>3, <1>4

LEMMA PipelineLease ==
    ASSUME TypeOK, NEW p \in Pipelines, NEW v, pipeline' = [pipeline EXCEPT ![p] = v]
    PROVE  \A c : /\ Count(Pipelines, pipeline, c) \in Nat
                  /\ Count(Pipelines, pipeline', c) =
                         Count(Pipelines, pipeline, c) + Is(v, c) - Is(pipeline[p], c)
<1>0. pipeline'[p] = v
  BY DEF TypeOK
<1>1. \A q \in Pipelines : q # p => pipeline'[q] = pipeline[q]
  BY DEF TypeOK
<1>2. IsFiniteSet(Pipelines)
  BY CacheAssumption
<1> TAKE c
<1>3. Count(Pipelines, pipeline', c) = Count(Pipelines, pipeline, c) + Is(pipeline'[p], c) - Is(pipeline[p], c)
  BY ONLY <1>1, <1>2, p \in Pipelines, PipelineCount
<1>4. Count(Pipelines, pipeline, c) \in Nat
  BY <1>2, CountIsNat
<1> QED  BY <1>0, <1>3, <1>4

LEMMA LeasesNext ==
    ASSUME NEW c
    PROVE  Leases(c)' = Count(Pipelines, pipeline', c) + Count(Threads, leased', c)
BY DEF Leases, Count

LEMMA IsNat == ASSUME NEW x, NEW c PROVE Is(x, c) \in Nat
BY DEF Is

LEMMA LeaseTaken ==
    ASSUME TypeOK, NEW t \in Threads, NEW v, leased' = [leased EXCEPT ![t] = v],
           pipeline' = pipeline, NEW c
    PROVE  Leases(c)' = Leases(c) + Is(v, c) - Is(leased[t], c)
<1>1. Count(Pipelines, pipeline, c) \in Nat /\ Count(Pipelines, pipeline', c) = Count(Pipelines, pipeline, c)
  BY CountIsNat, CacheAssumption
<1>2. /\ Count(Threads, leased, c) \in Nat
      /\ Count(Threads, leased', c) = Count(Threads, leased, c) + Is(v, c) - Is(leased[t], c)
  BY ThreadLease
<1>3. Is(v, c) \in Nat /\ Is(leased[t], c) \in Nat
  BY IsNat
<1>4. /\ Leases(c) = Count(Pipelines, pipeline, c) + Count(Threads, leased, c)
      /\ Leases(c)' = Count(Pipelines, pipeline', c) + Count(Threads, leased', c)
  BY LeasesAreCounts, LeasesNext
<1> QED  BY <1>1, <1>2, <1>3, <1>4

LEMMA PipelineTakes ==
    ASSUME TypeOK, NEW p \in Pipelines, NEW v, pipeline' = [pipeline EXCEPT ![p] = v],
           leased' = leased, NEW c
    PROVE  Leases(c)' = Leases(c) + Is(v, c) - Is(pipeline[p], c)
<1>1. Count(Threads, leased, c) \in Nat /\ Count(Threads, leased', c) = Count(Threads, leased, c)
  BY CountIsNat, CacheAssumption
<1>2. /\ Count(Pipelines, pipeline, c) \in Nat
      /\ Count(Pipelines, pipeline', c) = Count(Pipelines, pipeline, c) + Is(v, c) - Is(pipeline[p], c)
  BY PipelineLease
<1>3. Is(v, c) \in Nat /\ Is(pipeline[p], c) \in Nat
  BY IsNat
<1>4. /\ Leases(c) = Count(Pipelines, pipeline, c) + Count(Threads, leased, c)
      /\ Leases(c)' = Count(Pipelines, pipeline', c) + Count(Threads, leased', c)
  BY LeasesAreCounts, LeasesNext
<1> QED  BY <1>1, <1>2, <1>3, <1>4

LEMMA LeasePasses ==
    ASSUME NEW t \in Threads, \A u \in Threads : u # t => leased'[u] = leased[u],
           NEW p \in Pipelines,
           \A q \in Pipelines : q # p => pipeline'[q] = pipeline[q], NEW c
    PROVE  Leases(c)' = Leases(c) + Is(leased'[t], c) - Is(leased[t], c)
                                  + Is(pipeline'[p], c) - Is(pipeline[p], c)
<1>1. /\ Count(Pipelines, pipeline, c) \in Nat
      /\ Count(Threads, leased, c) \in Nat
  BY CountIsNat, CacheAssumption
<1>2. IsFiniteSet(Threads) /\ IsFiniteSet(Pipelines)
  BY CacheAssumption
<1>3. Count(Pipelines, pipeline', c) =
          Count(Pipelines, pipeline, c) + Is(pipeline'[p], c) - Is(pipeline[p], c)
  BY <1>2, PipelineCount
<1>4. Count(Threads, leased', c) =
          Count(Threads, leased, c) + Is(leased'[t], c) - Is(leased[t], c)
  BY <1>2, ThreadCount
<1>5. /\ Is(leased'[t], c) \in Nat /\ Is(leased[t], c) \in Nat
      /\ Is(pipeline'[p], c) \in Nat /\ Is(pipeline[p], c) \in Nat
  BY IsNat
<1>6. /\ Leases(c) = Count(Pipelines, pipeline, c) + Count(Threads, leased, c)
      /\ Leases(c)' = Count(Pipelines, pipeline', c) + Count(Threads, leased', c)
  BY LeasesAreCounts, LeasesNext
<1> QED  BY <1>1, <1>3, <1>4, <1>5, <1>6

(* Where neither keys nor counts nor users change. *)
LEMMA SameCounts ==
    ASSUME LeasesCounted, UNCHANGED <<pipeline, leased, entryKey, refcount>>
    PROVE  LeasesCounted'
BY DEF LeasesCounted, Leases

(* The counts follow the users, of entries of the cache only. *)
LEMMA CountsFollow ==
    ASSUME TypeOK, LeasesCounted, entryKey' = entryKey,
           \A c \in Entries :
               /\ refcount'[c] - refcount[c] = Leases(c)' - Leases(c)
               /\ refcount'[c] \in Int /\ Leases(c)' \in Int
               /\ entryKey[c] = NoKey => Leases(c)' = Leases(c)
    PROVE  LeasesCounted'
<1> SUFFICES ASSUME NEW c \in Entries
             PROVE  IF entryKey'[c] = NoKey THEN Leases(c)' = 0
                                            ELSE refcount'[c] = Leases(c)'
  BY DEF LeasesCounted
<1>1. refcount[c] \in Int /\ Leases(c) \in Int
  BY LeasesAreNat DEF TypeOK
<1> QED  BY <1>1 DEF LeasesCounted

LEMMA CountsStep ==
    ASSUME Inv, [Next]_vars
    PROVE  LeasesCounted'
<1> USE CacheAssumption
<1>t. TypeOK /\ OneMaker /\ Indexed /\ LeasesCounted
  BY DEF Inv
<1>n. /\ "none" \notin Entries /\ "own" \notin Entries /\ NoEntry \notin Entries
      /\ \A c \in Entries : Leases(c) \in Nat
  BY LeasesAreNat
<1>1. CASE UNCHANGED vars
  BY <1>1, <1>t, SameCounts DEF vars, threadVars, cacheVars
<1>2. ASSUME NEW t \in Threads, NEW p \in Pipelines, NEW k \in Keys, LookupHit(t, p, k)
      PROVE  LeasesCounted'
  <2>1. PICK e \in Entries : e = bucket[k][1]
    BY <1>2, <1>t, FirstOfBucket DEF LookupHit
  <2>2. entryKey[e] # NoKey
    BY <1>2, <1>t, <2>1, FirstOfBucket DEF Indexed, LookupHit
  <2>3. leased[t] = NoEntry
    BY <1>2, <1>t DEF OneMaker, LookupHit, Begin
  <2>4. /\ leased' = [leased EXCEPT ![t] = e] /\ pipeline' = pipeline
        /\ entryKey' = entryKey /\ refcount' = [refcount EXCEPT ![e] = @ + 1]
    BY <1>2, <2>1 DEF LookupHit
  <2>5. \A c \in Entries : Leases(c)' = Leases(c) + Is(e, c) - Is(leased[t], c)
    BY <1>t, <2>4, LeaseTaken
  <2>6. \A c \in Entries : Leases(c)' = IF c = e THEN Leases(c) + 1 ELSE Leases(c)
    BY <1>n, <2>3, <2>5 DEF Is
  <2>7. /\ refcount'[e] = refcount[e] + 1
        /\ \A c \in Entries : c # e => refcount'[c] = refcount[c]
        /\ \A c \in Entries : refcount[c] \in Int
    BY <1>t, <2>4 DEF TypeOK
  <2> QED  BY <1>t, <1>n, <2>2, <2>4, <2>6, <2>7, CountsFollow
<1>3. ASSUME NEW t \in Threads, NEW p \in Pipelines, NEW k \in Keys, LookupMiss(t, p, k)
      PROVE  LeasesCounted'
  BY <1>3, <1>t, SameCounts DEF LookupMiss, cacheVars
<1>4. ASSUME NEW t \in Threads, leased[t] = NoEntry, Done(t)
      PROVE  leased' = leased
  <2>1. leased' = [leased EXCEPT ![t] = NoEntry]
    BY <1>4 DEF Done
  <2> QED  BY <1>4, <1>t, <2>1 DEF TypeOK
<1>5. ASSUME NEW t \in Threads, CompileFails(t)
      PROVE  LeasesCounted'
  <2>1. leased[t] = NoEntry
    BY <1>5, <1>t DEF OneMaker, CompileFails
  <2>2. leased' = leased
    BY <1>4, <1>5, <2>1 DEF CompileFails
  <2> QED  BY <1>5, <1>t, <2>2, SameCounts DEF CompileFails, cacheVars
<1>6. ASSUME NEW t \in Threads, Insert(t) \/ Refuse(t)
      PROVE  LeasesCounted'
  BY <1>6, <1>t, SameCounts DEF Insert, Refuse, cacheVars
<1>7. ASSUME NEW t \in Threads, Evict(t)
      PROVE  LeasesCounted'
  <2>1. PICK e \in Entries : e = lru[Victim]
    BY <1>7, <1>t, VictimIsEvictable DEF Evict
  <2>2. entryKey[e] # NoKey /\ refcount[e] <= 0
    BY <1>7, <1>t, <2>1, VictimIsEvictable DEF Evict, Indexed
  <2>3. entryKey' = [entryKey EXCEPT ![e] = NoKey]
        /\ UNCHANGED <<pipeline, leased, refcount>>
    BY <1>7, <2>1 DEF Evict, threadVars
  <2>4. Leases(e) = 0
    <3>1. refcount[e] = Leases(e)
      BY <1>t, <2>2 DEF LeasesCounted
    <3> QED  BY <1>n, <2>2, <3>1
  <2> SUFFICES ASSUME NEW c \in Entries
               PROVE  IF entryKey'[c] = NoKey THEN Leases(c)' = 0
                                              ELSE refcount'[c] = Leases(c)'
    BY DEF LeasesCounted
  <2>5. Leases(c)' = Leases(c)
    BY <2>3 DEF Leases
  <2>6. entryKey'[c] = IF c = e THEN NoKey ELSE entryKey[c]
    BY <1>t, <2>3 DEF TypeOK
  <2> QED  BY <1>t, <2>3, <2>4, <2>5, <2>6 DEF LeasesCounted
<1>8. ASSUME NEW t \in Threads, Store(t)
      PROVE  LeasesCounted'
  <2>1. leased[t] = NoEntry /\ wanted[t] \in Keys
    BY <1>8, <1>t DEF OneMaker, Store
  <2>2. PICK e \in Entries :
            /\ entryKey[e] = NoKey
            /\ entryKey' = [entryKey EXCEPT ![e] = wanted[t]]
            /\ refcount' = [refcount EXCEPT ![e] = 1]
            /\ leased' = [leased EXCEPT ![t] = e]
    BY <1>8 DEF Store
  <2>3. pipeline' = pipeline
    BY <1>8 DEF Store
  <2> SUFFICES ASSUME NEW c \in Entries
               PROVE  IF entryKey'[c] = NoKey THEN Leases(c)' = 0
                                              ELSE refcount'[c] = Leases(c)'
    BY DEF LeasesCounted
  <2>4. Leases(c)' = Leases(c) + Is(e, c) - Is(leased[t], c)
    BY <1>t, <2>2, <2>3, LeaseTaken
  <2>5. Leases(c)' = IF c = e THEN Leases(c) + 1 ELSE Leases(c)
    BY <1>n, <2>1, <2>4 DEF Is
  <2>6. CASE c = e
    <3>1. Leases(c) = 0 /\ refcount'[c] = 1 /\ entryKey'[c] # NoKey
      BY <1>t, <2>1, <2>2, <2>6 DEF LeasesCounted, TypeOK
    <3> QED  BY <2>5, <2>6, <3>1
  <2>7. CASE c # e
    <3>1. refcount'[c] = refcount[c] /\ entryKey'[c] = entryKey[c]
      BY <1>t, <2>2, <2>7 DEF TypeOK
    <3>2. Leases(c)' = Leases(c)
      BY <2>5, <2>7
    <3> QED  BY <1>t, <3>1, <3>2 DEF LeasesCounted
  <2> QED  BY <2>6, <2>7
<1>9. ASSUME NEW t \in Threads, Finish(t)
      PROVE  LeasesCounted'
  <2>1. making[t] \in Pipelines /\ pipeline[making[t]] = "none"
    BY <1>9, <1>t DEF OneMaker, Finish
  <2>2. /\ leased' = [leased EXCEPT ![t] = NoEntry]
        /\ UNCHANGED <<entryKey, refcount>>
    BY <1>9 DEF Finish, Done, cacheVars
  <2>3. PICK p \in Pipelines : p = making[t]
    BY <2>1
  <2>4. /\ leased'[t] = NoEntry
        /\ \A u \in Threads : u # t => leased'[u] = leased[u]
    BY <1>t, <2>2 DEF TypeOK
  <2>5. /\ pipeline'[p] = IF leased[t] = NoEntry THEN "own" ELSE leased[t]
        /\ \A q \in Pipelines : q # p => pipeline'[q] = pipeline[q]
    BY <1>9, <1>t, <2>3 DEF Finish, TypeOK
  <2> SUFFICES ASSUME NEW c \in Entries
               PROVE  IF entryKey'[c] = NoKey THEN Leases(c)' = 0
                                              ELSE refcount'[c] = Leases(c)'
    BY DEF LeasesCounted
  <2>6. Leases(c)' = Leases(c) + Is(leased'[t], c) - Is(leased[t], c)
                               + Is(pipeline'[p], c) - Is(pipeline[p], c)
    <3>1. /\ \A u \in Threads : u # t => leased'[u] = leased[u]
          /\ \A q \in Pipelines : q # p => pipeline'[q] = pipeline[q]
      BY <2>4, <2>5
    <3> QED  BY ONLY <3>1, t \in Threads, p \in Pipelines, LeasePasses
  <2>7. Leases(c)' = Leases(c)
    <3>1. Is(leased'[t], c) = 0 /\ Is(pipeline[p], c) = 0
      BY <1>n, <2>1, <2>3, <2>4 DEF Is
    <3>2. Is(pipeline'[p], c) = Is(leased[t], c) /\ Is(leased[t], c) \in Nat
      BY <1>n, <2>5 DEF Is
    <3> QED  BY <1>n, <2>6, <3>1, <3>2
  <2> QED  BY <1>t, <2>2, <2>7 DEF LeasesCounted
<1>10. ASSUME NEW t \in Threads, GiveUp(t)
       PROVE  LeasesCounted'
  <2>1. CASE leased[t] = NoEntry
    <3>1. leased' = leased /\ UNCHANGED cacheVars /\ pipeline' = pipeline
      BY <1>4, <1>10, <2>1 DEF GiveUp
    <3> QED  BY <1>t, <3>1, SameCounts DEF cacheVars
  <2>2. CASE leased[t] # NoEntry
    <3>1. PICK e \in Entries : e = leased[t]
      BY <1>t, <2>2 DEF TypeOK
    <3>2. /\ leased' = [leased EXCEPT ![t] = NoEntry] /\ pipeline' = pipeline
          /\ entryKey' = entryKey /\ refcount' = [refcount EXCEPT ![e] = @ - 1]
      BY <1>10, <2>2, <3>1 DEF GiveUp, Release, Done
    <3>3. entryKey[e] # NoKey
      BY <1>t, <3>1, UsedIsKept
    <3>4. \A c \in Entries : Leases(c)' = Leases(c) + Is(NoEntry, c) - Is(leased[t], c)
      BY <1>t, <3>2, LeaseTaken
    <3>5. \A c \in Entries : Leases(c)' = IF c = e THEN Leases(c) - 1 ELSE Leases(c)
      BY <1>n, <3>1, <3>4 DEF Is
    <3>6. /\ refcount'[e] = refcount[e] - 1
          /\ \A c \in Entries : c # e => refcount'[c] = refcount[c]
          /\ \A c \in Entries : refcount[c] \in Int
      BY <1>t, <3>2 DEF TypeOK
    <3> QED  BY <1>t, <1>n, <3>2, <3>3, <3>5, <3>6, CountsFollow
  <2> QED  BY <2>1, <2>2
<1>11. ASSUME NEW p \in Pipelines, DestroyPipeline(p)
       PROVE  LeasesCounted'
  <2>1. pipeline' = [pipeline EXCEPT ![p] = "none"] /\ leased' = leased
    BY <1>11 DEF DestroyPipeline, threadVars
  <2>2. \A c \in Entries : Leases(c)' = Leases(c) + Is("none", c) - Is(pipeline[p], c)
    BY <1>t, <2>1, PipelineTakes
  <2>3. CASE pipeline[p] = "own"
    <3>1. UNCHANGED <<entryKey, refcount>>
      BY <1>11, <2>3 DEF DestroyPipeline, cacheVars
    <3> SUFFICES ASSUME NEW c \in Entries
                 PROVE  IF entryKey'[c] = NoKey THEN Leases(c)' = 0
                                                ELSE refcount'[c] = Leases(c)'
      BY DEF LeasesCounted
    <3>2. Leases(c)' = Leases(c)
      BY <1>n, <2>2, <2>3 DEF Is
    <3> QED  BY <1>t, <3>1, <3>2 DEF LeasesCounted
  <2>4. CASE pipeline[p] # "own"
    <3>1. PICK e \in Entries : e = pipeline[p]
      BY <1>11, <1>t, <2>4 DEF TypeOK, DestroyPipeline
    <3>2. entryKey' = entryKey /\ refcount' = [refcount EXCEPT ![e] = @ - 1]
      BY <1>11, <2>4, <3>1 DEF DestroyPipeline, Release
    <3>3. entryKey[e] # NoKey
      BY <1>t, <3>1, UsedIsKept
    <3>4. \A c \in Entries : Leases(c)' = IF c = e THEN Leases(c) - 1 ELSE Leases(c)
      BY <1>n, <2>2, <3>1 DEF Is
    <3>5. /\ refcount'[e] = refcount[e] - 1
          /\ \A c \in Entries : c # e => refcount'[c] = refcount[c]
          /\ \A c \in Entries : refcount[c] \in Int
      BY <1>t, <3>2 DEF TypeOK
    <3> QED  BY <1>t, <1>n, <3>2, <3>3, <3>4, <3>5, CountsFollow
  <2> QED  BY <2>3, <2>4
<1> QED  BY <1>1, <1>2, <1>3, <1>5, <1>6, <1>7, <1>8, <1>9, <1>10, <1>11 DEF Next

LEMMA InvInit == Init => Inv
BY TypeInit, MakerInit, IndexInit, CountsInit DEF Inv

LEMMA InvStep == Inv /\ [Next]_vars => Inv'
BY TypeStep, MakerStep, IndexStep, CountsStep DEF Inv

LEMMA InvHolds == Spec => []Inv
BY InvInit, InvStep, PTL DEF Spec

(* Every variable of the cache and of its users keeps its type. *)
THEOREM TypeCorrect == Spec => []TypeOK
<1>1. Inv => TypeOK
  BY DEF Inv
<1> QED  BY <1>1, InvHolds, PTL

(* Reference counts are the numbers of users, and freed memory has none    *)
(* (ps5vk_cache_entry_release, evict_unreferenced).                        *)
THEOREM LeasesStayCounted == Spec => []LeasesCounted
<1>1. Inv => LeasesCounted
  BY DEF Inv
<1> QED  BY <1>1, InvHolds, PTL

-----------------------------------------------------------------------------
(* Copies of one program. *)

(* The threads that may still store a copy. *)
Copying(k) == {t \in Threads : pc[t] \in {"compiling", "evicting"} /\ wanted[t] = k}

LEMMA CopyingIsFinite ==
    \A k : /\ IsFiniteSet(Copying(k)) /\ Cardinality(Copying(k)) \in Nat
           /\ Cardinality(Copying(k)) <= Cardinality(Threads)
           /\ IsFiniteSet(Copying(k)') /\ Cardinality(Copying(k)') \in Nat
           /\ Cardinality(Copying(k)') <= Cardinality(Threads)
<1> TAKE k
<1>1. Copying(k) \subseteq Threads /\ Copying(k)' \subseteq Threads
  BY DEF Copying
<1> QED  BY <1>1, CacheAssumption, FS_Subset, FS_CardinalityType

(* No thread begins to copy the program and no copy is stored. *)
LEMMA NoMoreCopies ==
    ASSUME CopiesBounded, NEW k \in Keys,
           Len(bucket[k]) \in Nat, Len(bucket'[k]) \in Nat,
           Len(bucket'[k]) <= Len(bucket[k]),
           \A u \in Threads : u \in Copying(k)' => u \in Copying(k)
    PROVE  Len(bucket'[k]) + Cardinality(Copying(k)') <= Cardinality(Threads)
<1>1. Copying(k)' \subseteq Copying(k)
  BY DEF Copying
<1>2. Cardinality(Copying(k)') <= Cardinality(Copying(k))
  BY <1>1, CopyingIsFinite, FS_Subset
<1>3. Len(bucket[k]) + Cardinality(Copying(k)) <= Cardinality(Threads)
  BY DEF CopiesBounded, Copying
<1>4. Cardinality(Threads) \in Nat
  BY CacheAssumption, FS_CardinalityType
<1> QED  BY <1>2, <1>3, <1>4, CopyingIsFinite

LEMMA CopiesInit == Init => CopiesBounded
<1> SUFFICES ASSUME Init, NEW k \in Keys
             PROVE  Len(bucket[k]) + Cardinality(Copying(k)) <= Cardinality(Threads)
  BY DEF CopiesBounded, Copying
<1>1. Len(bucket[k]) = 0
  BY DEF Init
<1>2. Cardinality(Threads) \in Nat
  BY CacheAssumption, FS_CardinalityType
<1> QED  BY <1>1, <1>2, CopyingIsFinite

LEMMA CopiesStep ==
    ASSUME Inv, Inv', CopiesBounded, [Next]_vars
    PROVE  CopiesBounded'
<1>t. TypeOK /\ TypeOK' /\ OneMaker /\ Indexed
  BY DEF Inv
<1> SUFFICES ASSUME NEW n \in Keys
             PROVE  Len(bucket'[n]) + Cardinality(Copying(n)') <= Cardinality(Threads)
  BY DEF CopiesBounded, Copying
<1>0. Len(bucket[n]) \in Nat /\ Len(bucket'[n]) \in Nat
  BY <1>t DEF TypeOK
<1>s. ASSUME Len(bucket'[n]) <= Len(bucket[n]),
             \A u \in Threads : u \in Copying(n)' => u \in Copying(n)
      PROVE  Len(bucket'[n]) + Cardinality(Copying(n)') <= Cardinality(Threads)
  BY <1>0, <1>s, NoMoreCopies
<1>1. CASE UNCHANGED vars
  BY <1>0, <1>1, <1>s DEF vars, threadVars, cacheVars, Copying
<1>2. ASSUME NEW t \in Threads, NEW p \in Pipelines, NEW k \in Keys, LookupHit(t, p, k)
      PROVE  Len(bucket'[n]) + Cardinality(Copying(n)') <= Cardinality(Threads)
  BY <1>0, <1>2, <1>s, <1>t DEF LookupHit, Begin, Goto, Copying, TypeOK
<1>3. ASSUME NEW t \in Threads, NEW p \in Pipelines, NEW k \in Keys, LookupMiss(t, p, k)
      PROVE  Len(bucket'[n]) + Cardinality(Copying(n)') <= Cardinality(Threads)
  <2>1. CASE n = k
    <3>1. Len(bucket'[n]) = 0
      BY <1>3, <2>1 DEF LookupMiss, cacheVars
    <3>2. Cardinality(Threads) \in Nat
      BY CacheAssumption, FS_CardinalityType
    <3> QED  BY <3>1, <3>2, CopyingIsFinite
  <2>2. CASE n # k
    BY <1>0, <1>3, <1>s, <1>t, <2>2 DEF LookupMiss, Begin, Goto, Copying, TypeOK, cacheVars
  <2> QED  BY <2>1, <2>2
<1>4. ASSUME NEW t \in Threads, Done(t), bucket' = bucket
      PROVE  Len(bucket'[n]) + Cardinality(Copying(n)') <= Cardinality(Threads)
  BY <1>0, <1>4, <1>s, <1>t DEF Done, Goto, Copying, TypeOK
<1>5. ASSUME NEW t \in Threads, NEW where \in Places, Goto(t, where),
             pc[t] \in {"compiling", "evicting"}, wanted' = wanted, bucket' = bucket
      PROVE  Len(bucket'[n]) + Cardinality(Copying(n)') <= Cardinality(Threads)
  BY <1>0, <1>5, <1>s, <1>t DEF Goto, Copying, TypeOK
<1>6. ASSUME NEW t \in Threads, CompileFails(t) \/ Insert(t) \/ Refuse(t)
      PROVE  Len(bucket'[n]) + Cardinality(Copying(n)') <= Cardinality(Threads)
  BY <1>4, <1>5, <1>6 DEF CompileFails, Insert, Refuse, cacheVars, Places
<1>7. ASSUME NEW t \in Threads, Finish(t) \/ GiveUp(t)
      PROVE  Len(bucket'[n]) + Cardinality(Copying(n)') <= Cardinality(Threads)
  BY <1>4, <1>7 DEF Finish, GiveUp, Release, cacheVars
<1>8. ASSUME NEW p \in Pipelines, DestroyPipeline(p)
      PROVE  Len(bucket'[n]) + Cardinality(Copying(n)') <= Cardinality(Threads)
  BY <1>0, <1>8, <1>s DEF DestroyPipeline, Release, threadVars, cacheVars, Copying
<1>9. ASSUME NEW t \in Threads, Evict(t)
      PROVE  Len(bucket'[n]) + Cardinality(Copying(n)') <= Cardinality(Threads)
  <2>1. \A u \in Threads : u \in Copying(n)' => u \in Copying(n)
    BY <1>9 DEF Evict, threadVars, Copying
  <2>2. PICK c : bucket' = [bucket EXCEPT ![entryKey[c]] = Without(@, c)]
    BY <1>9 DEF Evict
  <2>3. Len(Without(bucket[n], c)) <= Len(bucket[n])
    BY <1>t, Left DEF Indexed, TypeOK
  <2>4. bucket'[n] \in {bucket[n], Without(bucket[n], c)}
    BY <1>t, <2>2 DEF TypeOK
  <2> QED  BY <1>0, <1>s, <2>1, <2>3, <2>4
<1>10. ASSUME NEW t \in Threads, Store(t)
       PROVE  Len(bucket'[n]) + Cardinality(Copying(n)') <= Cardinality(Threads)
  <2>1. PICK c \in Entries : bucket' = [bucket EXCEPT ![wanted[t]] = <<c>> \o @]
    BY <1>10 DEF Store
  <2>2. /\ pc[t] = "evicting" /\ pc'[t] = "built" /\ wanted' = wanted
        /\ \A u \in Threads : u # t => pc'[u] = pc[u]
    BY <1>10, <1>t DEF Store, Goto, TypeOK
  <2>3. CASE n = wanted[t]
    <3>1. bucket'[n] = <<c>> \o bucket[n]
      BY <1>t, <2>1, <2>3 DEF TypeOK
    <3>2. Len(bucket'[n]) = Len(bucket[n]) + 1
      BY <1>t, <3>1, InFront DEF TypeOK
    <3>3. Copying(n)' = Copying(n) \ {t} /\ t \in Copying(n)
      BY <2>2, <2>3 DEF Copying
    <3>4. Cardinality(Copying(n)') = Cardinality(Copying(n)) - 1
      BY <3>3, CopyingIsFinite, FS_RemoveElement
    <3>5. Len(bucket[n]) + Cardinality(Copying(n)) <= Cardinality(Threads)
      BY DEF CopiesBounded, Copying
    <3>6. Cardinality(Threads) \in Nat
      BY CacheAssumption, FS_CardinalityType
    <3> QED  BY <1>0, <3>2, <3>4, <3>5, <3>6, CopyingIsFinite
  <2>4. CASE n # wanted[t]
    <3>1. bucket'[n] = bucket[n]
      BY <1>t, <2>1, <2>4 DEF TypeOK
    <3>2. \A u \in Threads : u \in Copying(n)' => u \in Copying(n)
      BY <2>2 DEF Copying
    <3> QED  BY <1>0, <1>s, <3>1, <3>2
  <2> QED  BY <2>3, <2>4
<1> QED  BY <1>1, <1>2, <1>3, <1>6, <1>7, <1>8, <1>9, <1>10 DEF Next

(* There are never more copies of a program, stored or still to be stored, *)
(* than threads (ps5vk_cache_lookup before the compilation,                *)
(* ps5vk_cache_insert after it).                                           *)
THEOREM CopiesStayBounded == Spec => []CopiesBounded
<1>1. Inv /\ Inv' /\ CopiesBounded /\ [Next]_vars => CopiesBounded'
  BY CopiesStep
<1> QED  BY <1>1, CopiesInit, InvHolds, PTL DEF Spec

-----------------------------------------------------------------------------
(* The order of use. *)

LEMMA OneOrder ==
    ASSUME NEW S, NEW s \in Seq(S), Once(s), NEW c, NEW d,
           MoreRecent(s, c, d), MoreRecent(s, d, c)
    PROVE  FALSE
<1>1. PICK i \in 1..Len(s), j \in 1..Len(s) : i < j /\ s[i] = c /\ s[j] = d
  BY DEF MoreRecent
<1>2. PICK h \in 1..Len(s), l \in 1..Len(s) : h < l /\ s[h] = d /\ s[l] = c
  BY DEF MoreRecent
<1>3. i = l /\ j = h
  BY <1>1, <1>2 DEF Once
<1> QED  BY <1>1, <1>2, <1>3

LEMMA OrderOfTheRest ==
    ASSUME NEW S, NEW s \in Seq(S), Once(s), NEW e, NEW c, NEW d,
           MoreRecent(Without(s, e), c, d)
    PROVE  MoreRecent(s, c, d)
<1>1. CASE \A i \in 1..Len(s) : s[i] # e
  BY <1>1, NothingTakenOut
<1>2. CASE \E a \in 1..Len(s) : s[a] = e
  <2>1. PICK a \in 1..Len(s) : s[a] = e
    BY <1>2
  <2> DEFINE w == Without(s, e)
  <2>2. /\ Len(w) = Len(s) - 1
        /\ \A i \in 1..Len(w) : w[i] = IF i < a THEN s[i] ELSE s[i + 1]
    BY <2>1, TakenOut
  <2>3. PICK i \in 1..Len(w), j \in 1..Len(w) : i < j /\ w[i] = c /\ w[j] = d
    BY DEF MoreRecent
  <2> HIDE DEF w
  <2> DEFINE h == IF i < a THEN i ELSE i + 1
             l == IF j < a THEN j ELSE j + 1
  <2>4. h \in 1..Len(s) /\ l \in 1..Len(s) /\ h < l
    BY <2>2, <2>3
  <2>5. s[h] = c /\ s[l] = d
    BY <2>2, <2>3
  <2> HIDE DEF h, l
  <2> QED  BY <2>4, <2>5 DEF MoreRecent
<1> QED  BY <1>1, <1>2

LEMMA OrderBehindTheFront ==
    ASSUME NEW S, NEW s \in Seq(S), NEW e \in S, NEW c, NEW d,
           MoreRecent(<<e>> \o s, d, c), d # e
    PROVE  MoreRecent(s, d, c)
<1> DEFINE w == <<e>> \o s
<1>1. /\ Len(w) = Len(s) + 1 /\ w[1] = e
      /\ \A i \in 2..(Len(s) + 1) : w[i] = s[i - 1]
  BY InFront
<1>2. PICK i \in 1..Len(w), j \in 1..Len(w) : i < j /\ w[i] = d /\ w[j] = c
  BY DEF MoreRecent
<1> HIDE DEF w
<1>3. i # 1
  BY <1>1, <1>2
<1>4. /\ i - 1 \in 1..Len(s) /\ j - 1 \in 1..Len(s) /\ i - 1 < j - 1
      /\ s[i - 1] = d /\ s[j - 1] = c
  BY <1>1, <1>2, <1>3
<1> QED  BY <1>4 DEF MoreRecent

(* Only an entry nobody uses leaves, and nothing older was free to leave.  *)
LEMMA OnlyTheOldestLeaves ==
    ASSUME Inv, [Next]_vars, NEW c \in Entries,
           entryKey[c] # NoKey, entryKey'[c] = NoKey
    PROVE  /\ refcount[c] = 0
           /\ \A d \in Entries : MoreRecent(lru, c, d) => refcount[d] > 0
<1>t. TypeOK /\ OneMaker /\ Indexed /\ LeasesCounted
  BY DEF Inv
<1>1. ASSUME NEW t \in Threads, Store(t)
      PROVE  FALSE
  <2>1. wanted[t] \in Keys
    BY <1>1, <1>t DEF OneMaker, Store
  <2>2. PICK e \in Entries : entryKey' = [entryKey EXCEPT ![e] = wanted[t]]
    BY <1>1 DEF Store
  <2>3. entryKey'[c] \in {entryKey[c], wanted[t]}
    BY <1>t, <2>2 DEF TypeOK
  <2> QED  BY <2>1, <2>3, CacheAssumption
<1>2. ASSUME NEW t \in Threads, NEW p \in Pipelines, NEW k \in Keys, LookupHit(t, p, k)
      PROVE  FALSE
  BY <1>2 DEF LookupHit
<1>3. PICK t \in Threads : Evict(t)
  BY <1>1, <1>2, OtherSteps
<1>4. /\ Victim \in 1..Len(lru) /\ lru[Victim] \in Entries
      /\ refcount[lru[Victim]] <= 0
      /\ \A j \in 1..Len(lru) : refcount[lru[j]] <= 0 => j <= Victim
  BY <1>3, <1>t, VictimIsEvictable DEF Evict
<1>5. PICK e \in Entries : e = lru[Victim]
  BY <1>4
<1>6. entryKey' = [entryKey EXCEPT ![e] = NoKey]
  BY <1>3, <1>5 DEF Evict
<1>7. c = e
  BY <1>t, <1>6 DEF TypeOK
<1>8. refcount[c] = 0
  <2>1. refcount[c] = Leases(c) /\ Leases(c) \in Nat
    BY <1>t, LeasesAreNat DEF LeasesCounted
  <2> QED  BY <1>4, <1>5, <1>7, <2>1
<1>9. ASSUME NEW d \in Entries, MoreRecent(lru, c, d)
      PROVE  refcount[d] > 0
  <2>1. PICK i \in 1..Len(lru), j \in 1..Len(lru) : i < j /\ lru[i] = c /\ lru[j] = d
    BY <1>9 DEF MoreRecent
  <2>2. i = Victim
    BY <1>4, <1>5, <1>7, <1>t, <2>1 DEF Indexed, Once
  <2>3. ~(refcount[d] <= 0) /\ refcount[d] \in Int
    BY <1>4, <1>t, <2>1, <2>2 DEF TypeOK
  <2> QED  BY <2>3
<1> QED  BY <1>8, <1>9

(* Two entries change places only by a use of the one that moves forward.  *)
LEMMA OnlyUseReorders ==
    ASSUME Inv, [Next]_vars, NEW c \in Entries, NEW d \in Entries,
           MoreRecent(lru, c, d), MoreRecent(lru', d, c)
    PROVE  refcount'[d] > refcount[d]
<1>t. TypeOK /\ OneMaker /\ Indexed /\ lru \in Seq(Entries) /\ Once(lru)
  BY DEF Inv, TypeOK, Indexed
<1>0. ~ MoreRecent(lru, d, c)
  BY <1>t, OneOrder
<1>1. CASE lru' = lru
  BY <1>0, <1>1
<1>2. ASSUME NEW t \in Threads, Store(t)
      PROVE  FALSE
  <2>1. PICK e \in Entries : entryKey[e] = NoKey /\ lru' = <<e>> \o lru
    BY <1>2 DEF Store
  <2>2. d # e
    BY <1>t, <2>1 DEF MoreRecent, Indexed
  <2> QED  BY <1>0, <1>t, <2>1, <2>2, OrderBehindTheFront
<1>3. ASSUME NEW t \in Threads, Evict(t)
      PROVE  FALSE
  <2>1. PICK e : lru' = Without(lru, e)
    BY <1>3 DEF Evict
  <2>2. MoreRecent(Without(lru, e), d, c)
    BY <2>1
  <2> QED  BY <1>0, <1>t, <2>2, OrderOfTheRest
<1>4. ASSUME NEW t \in Threads, NEW p \in Pipelines, NEW k \in Keys, LookupHit(t, p, k)
      PROVE  refcount'[d] > refcount[d]
  <2>1. PICK e \in Entries : e = bucket[k][1]
    BY <1>4, <1>t, FirstOfBucket DEF LookupHit
  <2>2. /\ lru' = <<e>> \o Without(lru, e)
        /\ refcount' = [refcount EXCEPT ![e] = @ + 1]
    BY <1>4, <2>1 DEF LookupHit, Touched
  <2>3. Without(lru, e) \in Seq(Entries)
    BY <1>t, WithoutType
  <2>4. d = e
    <3> SUFFICES ASSUME d # e PROVE FALSE
      OBVIOUS
    <3>1. MoreRecent(<<e>> \o Without(lru, e), d, c)
      BY <2>2
    <3>2. MoreRecent(Without(lru, e), d, c)
      BY <2>3, <3>1, OrderBehindTheFront
    <3> QED  BY <1>0, <1>t, <3>2, OrderOfTheRest
  <2> QED  BY <1>t, <2>2, <2>4 DEF TypeOK
<1> QED  BY <1>1, <1>2, <1>3, <1>4, OtherSteps

(* What is evicted was not in use, nothing older was free, and the order   *)
(* of use changes for a program that is looked up only                     *)
(* (evict_unreferenced, lru_push_front).                                   *)
THEOREM LeastRecentGoesFirst == Spec => EvictsLeastRecent
<1>1. Inv /\ [Next]_vars =>
          [\A c \in Entries :
               /\ (entryKey[c] # NoKey /\ entryKey'[c] = NoKey) =>
                      /\ refcount[c] = 0
                      /\ \A d \in Entries : MoreRecent(lru, c, d) => refcount[d] > 0
               /\ \A d \in Entries :
                      (MoreRecent(lru, c, d) /\ MoreRecent(lru', d, c)) =>
                          refcount'[d] > refcount[d]
          ]_<<lru, entryKey>>
  BY OnlyTheOldestLeaves, OnlyUseReorders
<1> QED  BY <1>1, InvHolds, PTL DEF Spec, EvictsLeastRecent

-----------------------------------------------------------------------------
(* The budgets.  Each list holds what it should, once; the counters are    *)
(* the sizes of the same sets, and every one of them moves by one entry.   *)

Lists(s, T) == Len(s) = Cardinality(T) /\ {s[i] : i \in 1..Len(s)} = T

Allocated  == {c \in Entries : entryKey[c] # NoKey}
Present(k) == {c \in Entries : entryKey[c] = k}

LEMMA ListedWithout ==
    ASSUME NEW s \in Seq(Entries), Once(s), NEW T, T \subseteq Entries, Lists(s, T),
           NEW c \in T
    PROVE  Lists(Without(s, c), T \ {c})
<1> DEFINE w == Without(s, c)
<1>1. IsFiniteSet(T) /\ Cardinality(T) \in Nat
  BY CacheAssumption, FS_Subset, FS_CardinalityType
<1>2. Cardinality(T \ {c}) = Cardinality(T) - 1
  BY <1>1, FS_RemoveElement
<1>3. PICK a \in 1..Len(s) : s[a] = c
  BY DEF Lists
<1>4. /\ w \in Seq(Entries) /\ Len(w) = Len(s) - 1
      /\ \A i \in 1..Len(w) : w[i] = IF i < a THEN s[i] ELSE s[i + 1]
  BY <1>3, TakenOut
<1>5. \A i \in 1..Len(w) : w[i] # c /\ \E j \in 1..Len(s) : s[j] = w[i]
  BY Left
<1> HIDE DEF w
<1>6. ASSUME NEW d \in T, d # c PROVE \E i \in 1..Len(w) : w[i] = d
  <2>1. PICK j \in 1..Len(s) : s[j] = d
    BY DEF Lists
  <2>2. j # a
    BY <1>3, <1>6, <2>1
  <2>3. CASE j < a
    <3>1. j \in 1..Len(w)
      BY <1>4, <2>3
    <3> QED  BY <1>4, <2>1, <2>3, <3>1
  <2>4. CASE ~(j < a)
    <3>1. j - 1 \in 1..Len(w) /\ ~(j - 1 < a) /\ (j - 1) + 1 = j
      BY <1>4, <2>2, <2>4
    <3> QED  BY <1>4, <2>1, <3>1
  <2> QED  BY <2>3, <2>4
<1>7. {w[i] : i \in 1..Len(w)} = T \ {c}
  <2>1. \A i \in 1..Len(w) : w[i] \in T \ {c}
    BY <1>5 DEF Lists
  <2> QED  BY <1>6, <2>1
<1>8. Len(w) = Cardinality(T \ {c})
  BY <1>1, <1>2, <1>4 DEF Lists
<1> QED  BY <1>7, <1>8 DEF Lists, w

LEMMA ListedInFront ==
    ASSUME NEW s \in Seq(Entries), NEW T, T \subseteq Entries, Lists(s, T),
           NEW c \in Entries, c \notin T
    PROVE  Lists(<<c>> \o s, T \cup {c})
<1> DEFINE w == <<c>> \o s
<1>1. IsFiniteSet(T) /\ Cardinality(T) \in Nat
  BY CacheAssumption, FS_Subset, FS_CardinalityType
<1>2. Cardinality(T \cup {c}) = Cardinality(T) + 1
  BY <1>1, FS_AddElement
<1>3. /\ Len(w) = Len(s) + 1 /\ w[1] = c
      /\ \A i \in 2..(Len(s) + 1) : w[i] = s[i - 1]
  BY InFront
<1> HIDE DEF w
<1>4. Len(s) \in Nat
  OBVIOUS
<1>5. ASSUME NEW i \in 1..Len(w) PROVE w[i] \in T \cup {c}
  <2>1. CASE i = 1
    BY <1>3, <2>1
  <2>2. CASE i # 1
    <3>1. i \in 2..(Len(s) + 1) /\ i - 1 \in 1..Len(s)
      BY <1>3, <1>4, <2>2
    <3> QED  BY <1>3, <3>1 DEF Lists
  <2> QED  BY <2>1, <2>2
<1>6. ASSUME NEW d \in T \cup {c} PROVE \E i \in 1..Len(w) : w[i] = d
  <2>1. CASE d = c
    <3>1. 1 \in 1..Len(w)
      BY <1>3, <1>4
    <3> QED  BY <1>3, <2>1, <3>1
  <2>2. CASE d \in T
    <3>1. PICK j \in 1..Len(s) : s[j] = d
      BY <2>2 DEF Lists
    <3>2. j + 1 \in 1..Len(w) /\ j + 1 \in 2..(Len(s) + 1) /\ (j + 1) - 1 = j
      BY <1>3, <1>4
    <3> QED  BY <1>3, <3>1, <3>2
  <2> QED  BY <2>1, <2>2
<1>7. {w[i] : i \in 1..Len(w)} = T \cup {c}
  BY <1>5, <1>6
<1>8. Len(w) = Cardinality(T \cup {c})
  BY <1>1, <1>2, <1>3 DEF Lists
<1> QED  BY <1>7, <1>8 DEF Lists, w

LEMMA BytesOfEntry ==
    ASSUME NEW c, NEW n \in Nat
    PROVE  IsFiniteSet({c} \X (1..n)) /\ Cardinality({c} \X (1..n)) = n
<1>1. IsFiniteSet({c}) /\ Cardinality({c}) = 1
  BY FS_Singleton
<1>2. IsFiniteSet(1..n) /\ Cardinality(1..n) = n
  <2>1. 1 \in Int /\ n \in Int /\ (IF 1 > n THEN 0 ELSE n - 1 + 1) = n
    OBVIOUS
  <2> QED  BY <2>1, FS_Interval
<1>3. PICK S, T : S = {c} /\ T = 1..n
  OBVIOUS
<1>4. IsFiniteSet(S) /\ Cardinality(S) = 1 /\ IsFiniteSet(T) /\ Cardinality(T) = n
  BY <1>1, <1>2, <1>3
<1>5. IsFiniteSet(S \X T) /\ Cardinality(S \X T) = 1 * n
  BY <1>4, FS_Product
<1> QED  BY <1>3, <1>5

(* A program more, in an entry that has none. *)
LEMMA BytesAdded ==
    ASSUME NEW A, IsFiniteSet(A), NEW c, NEW n \in Nat, \A x \in A : x[1] # c
    PROVE  /\ IsFiniteSet(A \cup ({c} \X (1..n)))
           /\ Cardinality(A \cup ({c} \X (1..n))) = Cardinality(A) + n
<1>1. PICK B : B = {c} \X (1..n)
  OBVIOUS
<1>2. IsFiniteSet(B) /\ Cardinality(B) = n
  BY <1>1, BytesOfEntry
<1>3. A \cap B = {}
  BY <1>1
<1>4. IsFiniteSet(A \cup B)
      /\ Cardinality(A \cup B) = Cardinality(A) + Cardinality(B) - Cardinality(A \cap B)
  BY <1>2, FS_Union
<1>5. Cardinality(A \cap B) = 0 /\ Cardinality(A) \in Nat
  BY <1>3, FS_EmptySet, FS_CardinalityType
<1> QED  BY <1>1, <1>2, <1>4, <1>5

BudgetInv ==
    /\ currentEntries = Cardinality(Allocated)
    /\ IsFiniteSet(StoredBytes) /\ currentBytes = Cardinality(StoredBytes)
    /\ currentEntries <= MaxEntries /\ currentBytes <= MaxBytes
    /\ Lists(lru, Allocated)
    /\ \A k \in Keys : Lists(bucket[k], Present(k))

LEMMA BudgetInit == Init => BudgetInv
<1> SUFFICES ASSUME Init PROVE BudgetInv
  OBVIOUS
<1>1. Allocated = {} /\ \A k \in Keys : Present(k) = {}
  BY CacheAssumption DEF Init, Allocated, Present
<1>2. StoredBytes = {}
  BY DEF Init, StoredBytes, BytesOf
<1>3. IsFiniteSet({}) /\ Cardinality({}) = 0
  BY FS_EmptySet
<1>4. Lists(<<>>, {})
  BY <1>3 DEF Lists
<1>5. \A k \in Keys : Lists(bucket[k], Present(k))
  BY <1>1, <1>4 DEF Init
<1>6. Lists(lru, Allocated) /\ currentEntries = Cardinality(Allocated)
      /\ IsFiniteSet(StoredBytes) /\ currentBytes = Cardinality(StoredBytes)
  BY <1>1, <1>2, <1>3, <1>4 DEF Init
<1>7. currentEntries <= MaxEntries /\ currentBytes <= MaxBytes
  BY CacheAssumption DEF Init
<1> QED  BY <1>5, <1>6, <1>7 DEF BudgetInv

(* Nothing is stored, evicted or used. *)
LEMMA BudgetKept ==
    ASSUME BudgetInv, UNCHANGED <<entryKey, bucket, lru, currentEntries, currentBytes>>
    PROVE  BudgetInv'
<1>1. Allocated' = Allocated /\ StoredBytes' = StoredBytes
  BY DEF Allocated, StoredBytes, BytesOf
<1>2. \A k \in Keys : Present(k)' = Present(k)
  BY DEF Present
<1>3. Lists(lru', Allocated') /\ \A k \in Keys : Lists(bucket'[k], Present(k)')
  BY <1>1, <1>2 DEF BudgetInv
<1> QED  BY <1>1, <1>3 DEF BudgetInv

LEMMA BudgetUse ==
    ASSUME Inv, BudgetInv, NEW t \in Threads, NEW p \in Pipelines, NEW k \in Keys,
           LookupHit(t, p, k)
    PROVE  BudgetInv'
<1>1. PICK c : c = bucket[k][1]
  OBVIOUS
<1>2. c \in Entries /\ entryKey[c] # NoKey
  BY <1>1, CacheAssumption, FirstOfBucket DEF Inv, Indexed, LookupHit
<1>3. PICK rest \in Seq(Entries) : rest = Without(lru, c)
  BY WithoutType DEF Inv, TypeOK
<1>4. /\ lru' = <<c>> \o rest
      /\ UNCHANGED <<entryKey, bucket, currentEntries, currentBytes>>
  BY <1>1, <1>3 DEF LookupHit, Touched
<1>5. PICK T : T = Allocated /\ T \subseteq Entries /\ c \in T
  BY <1>2 DEF Allocated
<1>6. Lists(rest, T \ {c})
  BY <1>3, <1>5, ListedWithout DEF Inv, Indexed, TypeOK, BudgetInv
<1>7. Lists(lru', (T \ {c}) \cup {c})
  BY <1>2, <1>4, <1>5, <1>6, ListedInFront
<1>8. (T \ {c}) \cup {c} = T
  BY <1>5
<1>9. Allocated' = Allocated /\ StoredBytes' = StoredBytes
      /\ \A n \in Keys : Present(n)' = Present(n)
  BY <1>4 DEF Allocated, StoredBytes, BytesOf, Present
<1>10. Lists(lru', Allocated')
  BY <1>5, <1>7, <1>8, <1>9
<1> QED  BY <1>4, <1>9, <1>10 DEF BudgetInv, Lists

LEMMA BudgetEvict ==
    ASSUME Inv, BudgetInv, NEW t \in Threads, Evict(t)
    PROVE  BudgetInv'
<1>1. PICK c : c = lru[Victim]
  OBVIOUS
<1>2. PICK k : k = entryKey[c]
  OBVIOUS
<1>3. c \in Entries /\ k \in Keys /\ entryKey[c] # NoKey
  BY <1>1, <1>2, CacheAssumption, VictimIsEvictable DEF Evict, Inv, Indexed, TypeOK
<1>4. /\ lru' = Without(lru, c)
      /\ bucket' = [bucket EXCEPT ![k] = Without(@, c)]
      /\ entryKey' = [entryKey EXCEPT ![c] = NoKey]
      /\ currentEntries' = currentEntries - 1
      /\ currentBytes' = currentBytes - Size[k]
  BY <1>1, <1>2 DEF Evict
<1>5. \A d \in Entries : entryKey'[d] = IF d = c THEN NoKey ELSE entryKey[d]
  BY <1>4 DEF Inv, TypeOK
<1>6. Allocated' = Allocated \ {c} /\ c \in Allocated /\ Allocated \subseteq Entries
  BY <1>3, <1>5 DEF Allocated
<1>7. \A n \in Keys : Present(n)' = IF n = k THEN Present(n) \ {c} ELSE Present(n)
  BY <1>2, <1>3, <1>5, CacheAssumption DEF Present
<1>8. Lists(lru', Allocated')
  <2>1. PICK T : T = Allocated
    OBVIOUS
  <2>2. lru \in Seq(Entries) /\ Once(lru) /\ T \subseteq Entries /\ Lists(lru, T) /\ c \in T
    BY <1>6, <2>1 DEF Inv, Indexed, TypeOK, BudgetInv
  <2>3. Lists(Without(lru, c), T \ {c})
    BY <2>2, ListedWithout
  <2> QED  BY <1>4, <1>6, <2>1, <2>3
<1>9. ASSUME NEW n \in Keys PROVE Lists(bucket'[n], Present(n)')
  <2>1. PICK T : T = Present(n)
    OBVIOUS
  <2>2. bucket[n] \in Seq(Entries) /\ Once(bucket[n]) /\ T \subseteq Entries
        /\ Lists(bucket[n], T)
    BY <2>1 DEF Inv, Indexed, TypeOK, BudgetInv, Present
  <2>3. CASE n = k
    <3>1. c \in T
      BY <1>2, <1>3, <2>1, <2>3 DEF Present
    <3>2. Lists(Without(bucket[n], c), T \ {c})
      BY <2>2, <3>1, ListedWithout
    <3>3. bucket'[n] = Without(bucket[n], c)
      BY <1>4, <2>3 DEF Inv, TypeOK
    <3> QED  BY <1>7, <2>1, <2>3, <3>2, <3>3
  <2>4. CASE n # k
    <3>1. bucket'[n] = bucket[n]
      BY <1>4, <2>4 DEF Inv, TypeOK
    <3> QED  BY <1>7, <2>1, <2>2, <2>4, <3>1
  <2> QED  BY <2>3, <2>4
<1>10. /\ currentEntries' = Cardinality(Allocated')
       /\ currentEntries' <= MaxEntries
  <2>1. IsFiniteSet(Allocated)
    BY <1>6, CacheAssumption, FS_Subset
  <2>2. Cardinality(Allocated \ {c}) = Cardinality(Allocated) - 1
    BY <1>6, <2>1, FS_RemoveElement
  <2>3. Cardinality(Allocated) \in Nat
    BY <2>1, FS_CardinalityType
  <2> QED  BY <1>4, <1>6, <2>2, <2>3, CacheAssumption DEF BudgetInv
<1>11. /\ IsFiniteSet(StoredBytes') /\ currentBytes' = Cardinality(StoredBytes')
       /\ currentBytes' <= MaxBytes
  <2>1. PICK n \in Nat : n = Size[k]
    BY <1>3, CacheAssumption
  <2>2. PICK A : A = StoredBytes'
    OBVIOUS
  <2>3. \A x : x \in A <=> \E d \in Entries : x \in BytesOf(d)'
    BY <2>2 DEF StoredBytes
  <2>4. \A d \in Entries : BytesOf(d)' = IF d = c THEN {} ELSE BytesOf(d)
    BY <1>5 DEF BytesOf
  <2>5. BytesOf(c) = {c} \X (1..n)
    BY <1>2, <1>3, <2>1 DEF BytesOf
  <2>6. StoredBytes = A \cup ({c} \X (1..n))
    BY <1>3, <2>3, <2>4, <2>5 DEF StoredBytes
  <2>7. \A x \in A : x[1] # c
    <3>1. ASSUME NEW d \in Entries, NEW x \in BytesOf(d) PROVE x[1] = d
      BY DEF BytesOf
    <3> QED  BY <2>3, <2>4, <3>1
  <2>8. IsFiniteSet(A)
    BY <2>6, FS_Subset DEF BudgetInv
  <2>9. Cardinality(StoredBytes) = Cardinality(A) + n
    BY <2>6, <2>7, <2>8, BytesAdded
  <2>10. Cardinality(A) \in Nat
    BY <2>8, FS_CardinalityType
  <2> QED  BY <1>4, <2>1, <2>2, <2>8, <2>9, <2>10, CacheAssumption DEF BudgetInv
<1> QED  BY <1>8, <1>9, <1>10, <1>11 DEF BudgetInv

LEMMA BudgetStore ==
    ASSUME Inv, BudgetInv, NEW t \in Threads, Store(t)
    PROVE  BudgetInv'
<1>1. PICK k \in Keys : k = wanted[t]
  BY DEF Inv, OneMaker, Store
<1>2. PICK c \in Entries :
          /\ entryKey[c] = NoKey
          /\ entryKey' = [entryKey EXCEPT ![c] = k]
          /\ bucket' = [bucket EXCEPT ![k] = <<c>> \o @]
          /\ lru' = <<c>> \o lru
  BY <1>1 DEF Store
<1>3. /\ currentEntries' = currentEntries + 1
      /\ currentBytes' = currentBytes + Size[k]
      /\ ~(currentEntries >= MaxEntries)
      /\ ~(Size[k] > MaxBytes - currentBytes)
  BY <1>1 DEF Store, NeedsRoom
<1>4. \A d \in Entries : entryKey'[d] = IF d = c THEN k ELSE entryKey[d]
  BY <1>2 DEF Inv, TypeOK
<1>5. Allocated' = Allocated \cup {c} /\ c \notin Allocated /\ Allocated \subseteq Entries
  BY <1>2, <1>4, CacheAssumption DEF Allocated
<1>6. \A n \in Keys : Present(n)' = IF n = k THEN Present(n) \cup {c} ELSE Present(n)
  BY <1>2, <1>4, CacheAssumption DEF Present
<1>7. Lists(lru', Allocated')
  <2>1. PICK T : T = Allocated
    OBVIOUS
  <2>2. lru \in Seq(Entries) /\ T \subseteq Entries /\ Lists(lru, T) /\ c \notin T
    BY <1>5, <2>1 DEF Inv, TypeOK, BudgetInv
  <2>3. Lists(<<c>> \o lru, T \cup {c})
    BY <2>2, ListedInFront
  <2> QED  BY <1>2, <1>5, <2>1, <2>3
<1>8. ASSUME NEW n \in Keys PROVE Lists(bucket'[n], Present(n)')
  <2>1. PICK T : T = Present(n)
    OBVIOUS
  <2>2. bucket[n] \in Seq(Entries) /\ T \subseteq Entries /\ Lists(bucket[n], T)
    BY <2>1 DEF Inv, TypeOK, BudgetInv, Present
  <2>3. CASE n = k
    <3>1. c \notin T
      BY <1>2, <2>1, CacheAssumption DEF Present
    <3>2. Lists(<<c>> \o bucket[n], T \cup {c})
      BY <2>2, <3>1, ListedInFront
    <3>3. bucket'[n] = <<c>> \o bucket[n]
      BY <1>2, <2>3 DEF Inv, TypeOK
    <3> QED  BY <1>6, <2>1, <2>3, <3>2, <3>3
  <2>4. CASE n # k
    <3>1. bucket'[n] = bucket[n]
      BY <1>2, <2>4 DEF Inv, TypeOK
    <3> QED  BY <1>6, <2>1, <2>2, <2>4, <3>1
  <2> QED  BY <2>3, <2>4
<1>9. /\ currentEntries' = Cardinality(Allocated')
      /\ currentEntries' <= MaxEntries
  <2>1. IsFiniteSet(Allocated)
    BY <1>5, CacheAssumption, FS_Subset
  <2>2. Cardinality(Allocated \cup {c}) = Cardinality(Allocated) + 1
    BY <1>5, <2>1, FS_AddElement
  <2>3. Cardinality(Allocated) \in Nat
    BY <2>1, FS_CardinalityType
  <2> QED  BY <1>3, <1>5, <2>2, <2>3, CacheAssumption DEF BudgetInv
<1>10. /\ IsFiniteSet(StoredBytes') /\ currentBytes' = Cardinality(StoredBytes')
       /\ currentBytes' <= MaxBytes
  <2>1. PICK n \in Nat : n = Size[k]
    BY CacheAssumption
  <2>2. PICK A : A = StoredBytes
    OBVIOUS
  <2>3. \A x : x \in A <=> \E d \in Entries : x \in BytesOf(d)
    BY <2>2 DEF StoredBytes
  <2>4. \A d \in Entries : d # c => BytesOf(d)' = BytesOf(d)
    BY <1>4 DEF BytesOf
  <2>5. BytesOf(c) = {} /\ BytesOf(c)' = {c} \X (1..n)
    BY <1>2, <1>4, <2>1, CacheAssumption DEF BytesOf
  <2>6. StoredBytes' = A \cup ({c} \X (1..n))
    <3>1. \A x : x \in StoredBytes' <=> \E d \in Entries : x \in BytesOf(d)'
      BY DEF StoredBytes
    <3> QED  BY <2>3, <2>4, <2>5, <3>1
  <2>7. \A x \in A : x[1] # c
    <3>1. ASSUME NEW d \in Entries, NEW x \in BytesOf(d) PROVE x[1] = d
      BY DEF BytesOf
    <3> QED  BY <2>3, <2>5, <3>1
  <2>8. IsFiniteSet(A) /\ Cardinality(A) \in Nat
    BY <2>2, FS_CardinalityType DEF BudgetInv
  <2>9. /\ IsFiniteSet(A \cup ({c} \X (1..n)))
        /\ Cardinality(A \cup ({c} \X (1..n))) = Cardinality(A) + n
    BY <2>7, <2>8, BytesAdded
  <2>10. currentBytes = Cardinality(A)
    BY <2>2 DEF BudgetInv
  <2>11. ~(n > MaxBytes - Cardinality(A))
    BY <1>3, <2>1, <2>10
  <2>12. currentBytes' = Cardinality(A) + n
    BY <1>3, <2>1, <2>10
  <2> QED  BY <2>6, <2>8, <2>9, <2>11, <2>12, CacheAssumption
<1> QED  BY <1>7, <1>8, <1>9, <1>10 DEF BudgetInv

(* Steps that leave the counters alone as well. *)
LEMMA CountersKept ==
    ASSUME [Next]_vars, UNCHANGED <<entryKey, bucket, lru>>
    PROVE  \/ UNCHANGED <<entryKey, bucket, lru, currentEntries, currentBytes>>
           \/ \E t \in Threads, p \in Pipelines, k \in Keys : LookupHit(t, p, k)
           \/ \E t \in Threads : Evict(t) \/ Store(t)
<1>1. CASE UNCHANGED vars
  BY <1>1 DEF vars, cacheVars
<1>2. ASSUME NEW t \in Threads, NEW p \in Pipelines, NEW k \in Keys, LookupMiss(t, p, k)
      PROVE  UNCHANGED <<currentEntries, currentBytes>>
  BY <1>2 DEF LookupMiss, cacheVars
<1>3. ASSUME NEW t \in Threads, CompileFails(t) \/ Insert(t) \/ Refuse(t) \/ Finish(t)
      PROVE  UNCHANGED <<currentEntries, currentBytes>>
  BY <1>3 DEF CompileFails, Insert, Refuse, Finish, cacheVars
<1>4. ASSUME NEW t \in Threads, GiveUp(t)
      PROVE  UNCHANGED <<currentEntries, currentBytes>>
  BY <1>4 DEF GiveUp, Release, cacheVars
<1>5. ASSUME NEW p \in Pipelines, DestroyPipeline(p)
      PROVE  UNCHANGED <<currentEntries, currentBytes>>
  BY <1>5 DEF DestroyPipeline, Release, cacheVars
<1> QED  BY <1>1, <1>2, <1>3, <1>4, <1>5 DEF Next

LEMMA BudgetStep == ASSUME Inv, BudgetInv, [Next]_vars PROVE BudgetInv'
BY OtherSteps, CountersKept, BudgetKept, BudgetUse, BudgetEvict, BudgetStore

(* The cache stays within both budgets, and its counters, hash table and   *)
(* order of use agree on what is in it (ps5vk_cache_insert,                *)
(* evict_unreferenced).                                                    *)
THEOREM BudgetsHold == Spec => []WithinBudget
<1>1. BudgetInv => WithinBudget
  BY DEF BudgetInv, WithinBudget, Lists, Allocated, Present
<1> QED  BY <1>1, BudgetInit, BudgetStep, InvHolds, PTL DEF Spec
===============================================================================
