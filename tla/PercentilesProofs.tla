------------------------- MODULE PercentilesProofs -------------------------
(***************************************************************************)
(* Theorems about the latency percentiles, for any sub-jobs, any latencies *)
(* and any buckets that keep their order: a sketch answers the bucket of   *)
(* the exact percentile, and the merged sketches of the sub-jobs are the   *)
(* sketch of all requests taken together.                                  *)
(*                                                                         *)
(* Both are statements about sums and folds over sets.  The library's      *)
(* induction takes a predicate; here a predicate is the set of those that  *)
(* satisfy it, and induction is that a set of subsets has a smallest       *)
(* element (WFMin).                                                        *)
(***************************************************************************)
EXTENDS Percentiles, FiniteSetTheorems, SequenceTheorems, WellFoundedInduction, TLAPS

-----------------------------------------------------------------------------
(* Induction over the subsets of a finite set. *)

\* The element the folds of the community modules take out of s next.
Some(s) == CHOOSE x \in s : TRUE

\* A set of subsets of S that has {}, and U when it has U without its next element,
\* has S: the induction that follows the course of a fold.
LEMMA FoldInduction ==
    ASSUME NEW S, IsFiniteSet(S), NEW G, {} \in G,
           \A U \in SUBSET S : U # {} /\ (U \ {Some(U)}) \in G => U \in G
    PROVE  S \in G
  <1> SUFFICES ASSUME S \notin G PROVE FALSE
    OBVIOUS
  <1>1. FiniteSubsetsOf(S) = SUBSET S
    BY FS_FiniteSubsetsOfFinite
  <1>2. IsWellFoundedOn(StrictSubsetOrdering(S), SUBSET S)
    <2>1. IsWellFoundedOn(StrictSubsetOrdering(S), FiniteSubsetsOf(S))
      BY FS_StrictSubsetOrderingWellFounded
    <2> QED BY <1>1, <2>1, Zenon
  <1>. DEFINE T == (SUBSET S) \ G
  <1>3. PICK U \in T : \A W \in T : <<W, U>> \notin StrictSubsetOrdering(S)
    <2>1. T \subseteq SUBSET S /\ T # {}
      OBVIOUS
    <2> HIDE DEF T
    <2> QED BY <1>2, <2>1, WFMin
  <1>4. U \in SUBSET S /\ U \notin G /\ U # {} /\ Some(U) \in U
    <2>1. U \in SUBSET S /\ U \notin G /\ U # {}
      BY <1>3
    <2>2. \E x \in U : TRUE
      BY <2>1
    <2> QED BY <2>1, <2>2 DEF Some
  <1>. DEFINE W == U \ {Some(U)}
  <1>5. W \in SUBSET S /\ W # U /\ W \subseteq U
    BY <1>4
  <1>6. <<W, U>> \in StrictSubsetOrdering(S)
    BY <1>4, <1>5 DEF StrictSubsetOrdering
  <1>7. W \in G
    BY <1>3, <1>5, <1>6
  <1> QED BY <1>4, <1>7

\* A set of subsets of S that has {} and is closed under adding an element has S.
LEMMA SetInduction ==
    ASSUME NEW S, IsFiniteSet(S), NEW G, {} \in G,
           \A U \in SUBSET S : \A x \in S \ U : U \in G => (U \cup {x}) \in G
    PROVE  S \in G
  <1>1. ASSUME NEW U \in SUBSET S, U # {}, (U \ {Some(U)}) \in G
        PROVE  U \in G
    <2>1. Some(U) \in U
      BY <1>1 DEF Some
    <2>. DEFINE W == U \ {Some(U)}
    <2>2. W \in SUBSET S /\ Some(U) \in S \ W /\ W \cup {Some(U)} = U /\ W \in G
      BY <1>1, <2>1
    <2> HIDE DEF W
    <2> QED BY <2>2
  <1> QED BY <1>1, FoldInduction

\* A set that has 0 and the successors of its numbers has all of Nat.
LEMMA NatSetInduction ==
    ASSUME NEW G, 0 \in G, \A k \in Nat : k \in G => (k + 1) \in G
    PROVE  Nat \subseteq G
  <1> SUFFICES ASSUME NEW n \in Nat PROVE n \in G
    OBVIOUS
  <1>. DEFINE S == 1 .. n
              H == {U \in SUBSET S : Cardinality(U) \in G}
  <1>1. IsFiniteSet(S) /\ Cardinality(S) = n
    BY FS_Interval
  <1>2. {} \in H
    BY FS_EmptySet
  <1>3. ASSUME NEW U \in SUBSET S, NEW x \in S \ U, U \in H
        PROVE  (U \cup {x}) \in H
    <2>1. IsFiniteSet(U) /\ Cardinality(U) \in Nat
      BY <1>1, FS_Subset, FS_CardinalityType
    <2>2. Cardinality(U \cup {x}) = Cardinality(U) + 1
      BY <2>1, FS_AddElement
    <2> QED BY <1>3, <2>1, <2>2
  <1>4. S \in H
    <2> HIDE DEF H, S
    <2> QED BY <1>1, <1>2, <1>3, SetInduction
  <1> QED BY <1>1, <1>4

\* iter is the fold over the subsets of S that starts with base and goes on by step.
IsFold(iter, S, base, step) ==
    \A s \in SUBSET S :
        iter[s] = IF s = {} THEN base ELSE step[Some(s)][iter[s \ {Some(s)}]]

\* A fold over a finite set exists: the CHOOSE by which the community modules define it
\* has something to choose.
LEMMA FoldExists ==
    ASSUME NEW S, IsFiniteSet(S), NEW V, NEW base \in V, NEW step \in [S -> [V -> V]]
    PROVE  \E iter \in [SUBSET S -> V] : IsFold(iter, S, base, step)
  <1>. DEFINE Small(n) == {s \in SUBSET S : Cardinality(s) <= n}
              Value(iter, s) == IF s = {} THEN base ELSE step[Some(s)][iter[s \ {Some(s)}]]
              G == {n \in Nat : \E iter \in [Small(n) -> V] :
                                   \A s \in Small(n) : iter[s] = Value(iter, s)}
  <1>1. \A s \in SUBSET S : IsFiniteSet(s) /\ Cardinality(s) \in Nat
    BY FS_Subset, FS_CardinalityType
  <1>2. \A s \in SUBSET S : s # {} => /\ Some(s) \in s
                                      /\ s \ {Some(s)} \in SUBSET S
                                      /\ Cardinality(s \ {Some(s)}) = Cardinality(s) - 1
    BY <1>1, FS_RemoveElement DEF Some
  <1>3. \A s \in SUBSET S : Cardinality(s) = 0 <=> s = {}
    BY <1>1, FS_EmptySet
  <1>4. 0 \in G
    <2>. DEFINE iter == [s \in Small(0) |-> base]
    <2>1. \A s \in Small(0) : s = {}
      BY <1>1, <1>3
    <2>2. iter \in [Small(0) -> V] /\ \A s \in Small(0) : iter[s] = Value(iter, s)
      BY <2>1
    <2> QED BY <2>2
  <1>5. ASSUME NEW n \in Nat, n \in G
        PROVE  (n + 1) \in G
    <2>1. PICK old \in [Small(n) -> V] : \A s \in Small(n) : old[s] = Value(old, s)
      BY <1>5
    <2>. DEFINE new == [s \in Small(n + 1) |-> Value(old, s)]
    <2>2. ASSUME NEW s \in Small(n + 1), s # {}
          PROVE  /\ s \ {Some(s)} \in Small(n)
                 /\ s \ {Some(s)} \in Small(n + 1)
                 /\ Some(s) \in S
      BY <1>1, <1>2, <2>2
    <2>3. \A s \in Small(n) : s \in Small(n + 1) /\ new[s] = old[s]
      <3>1. ASSUME NEW s \in Small(n) PROVE s \in Small(n + 1)
        BY <1>1
      <3>2. ASSUME NEW s \in Small(n) PROVE new[s] = Value(old, s)
        <4> HIDE DEF Small, Value
        <4> QED BY <3>1
      <3> HIDE DEF new, Value, Small
      <3> QED BY <2>1, <3>1, <3>2
    <2>4. ASSUME NEW s \in Small(n + 1)
          PROVE  new[s] \in V /\ new[s] = Value(new, s)
      <3>0. new[s] = Value(old, s)
        OBVIOUS
      <3>1. CASE s = {}
        <4>1. Value(old, s) = base /\ Value(new, s) = base
          BY <3>1, Zenon
        <4> HIDE DEF new, Value
        <4> QED BY <3>0, <4>1
      <3>2. CASE s # {}
        <4>1. old[s \ {Some(s)}] \in V /\ new[s \ {Some(s)}] = old[s \ {Some(s)}]
          BY <2>2, <2>3, <3>2
        <4>2. step[Some(s)][old[s \ {Some(s)}]] \in V
          BY <2>2, <3>2, <4>1
        <4>3. Value(old, s) = step[Some(s)][old[s \ {Some(s)}]]
          BY <3>2, Zenon
        <4>4. Value(new, s) = step[Some(s)][new[s \ {Some(s)}]]
          BY <3>2, Zenon
        <4> HIDE DEF Small, new, Value
        <4> QED BY <3>0, <4>1, <4>2, <4>3, <4>4
      <3> QED BY <3>1, <3>2
    <2>5. new \in [Small(n + 1) -> V]
      BY <2>4
    <2>6. \E iter \in [Small(n + 1) -> V] : \A s \in Small(n + 1) : iter[s] = Value(iter, s)
      <3> HIDE DEF Small, Value, new
      <3> QED BY <2>4, <2>5
    <2> HIDE DEF Small, Value
    <2> QED BY <2>6
  <1>6. Nat \subseteq G
    <2> HIDE DEF G
    <2> QED BY <1>4, <1>5, NatSetInduction
  <1>7. Cardinality(S) \in G
    BY <1>1, <1>6
  <1>8. Small(Cardinality(S)) = SUBSET S
    BY <1>1, FS_Subset
  <1>9. PICK iter \in [Small(Cardinality(S)) -> V] :
           \A s \in Small(Cardinality(S)) : iter[s] = Value(iter, s)
    BY <1>7
  <1>10. iter \in [SUBSET S -> V]
    BY <1>8, <1>9
  <1>11. \A s \in SUBSET S : iter[s] = Value(iter, s)
    <2> HIDE DEF Small, Value
    <2> QED BY <1>8, <1>9
  <1> QED BY <1>10, <1>11 DEF IsFold

\* The sum of m over D, as the model writes it.
SumOf(m, D) == MapThenSumSet(LAMBDA b : m[b], D)

\* How many elements of X does h map to b, or into D?
CountAt(X, h, b) == Cardinality({x \in X : h[x] = b})
CountIn(X, h, D) == Cardinality({x \in X : h[x] \in D})

\* The elements of X that h maps into U are those it maps to b, and the others.
LEMMA CountInSplit ==
    ASSUME NEW X, IsFiniteSet(X), NEW h, NEW U, NEW b \in U
    PROVE  /\ CountIn(X, h, U) = CountAt(X, h, b) + CountIn(X, h, U \ {b})
           /\ CountAt(X, h, b) \in Nat /\ CountIn(X, h, U \ {b}) \in Nat
  <1>. DEFINE At == {x \in X : h[x] = b}
              Rest == {x \in X : h[x] \in U \ {b}}
              All == {x \in X : h[x] \in U}
  <1>1. At \subseteq X /\ Rest \subseteq X /\ All = At \cup Rest /\ At \cap Rest = {}
    OBVIOUS
  <1>. HIDE DEF At, Rest, All
  <1>2. /\ IsFiniteSet(At) /\ Cardinality(At) \in Nat
        /\ IsFiniteSet(Rest) /\ Cardinality(Rest) \in Nat
    BY <1>1, FS_Subset, FS_CardinalityType
  <1>3. Cardinality(At \cap Rest) = 0
    BY <1>1, FS_EmptySet
  <1>4. Cardinality(At \cup Rest) = Cardinality(At) + Cardinality(Rest) - Cardinality(At \cap Rest)
    BY <1>2, FS_Union
  <1>5. /\ CountAt(X, h, b) = Cardinality(At)
        /\ CountIn(X, h, U \ {b}) = Cardinality(Rest)
        /\ CountIn(X, h, U) = Cardinality(All)
    BY DEF CountIn, CountAt, At, Rest, All
  <1> QED BY <1>1, <1>2, <1>3, <1>4, <1>5

\* When m[b] counts the elements of X at b, the sum of m over D counts those in D.
LEMMA SumIsCount ==
    ASSUME NEW X, IsFiniteSet(X), NEW h, NEW D, IsFiniteSet(D),
           NEW m, \A b \in D : m[b] = CountAt(X, h, b)
    PROVE  SumOf(m, D) = CountIn(X, h, D)
  <1>. DEFINE Step(iter, s) == IF s = {} THEN 0 ELSE m[Some(s)] + iter[s \ {Some(s)}]
              sum == CHOOSE iter : iter = [s \in SUBSET D |-> Step(iter, s)]
  <1>1. SumOf(m, D) = sum[D]
    BY DEF SumOf, MapThenSumSet, MapThenFoldSet, Some
  <1>2. ASSUME NEW b \in D
        PROVE  m[b] \in Nat
    <2>1. CountAt(X, h, b) \in Nat
      BY CountInSplit
    <2> QED BY <2>1
  <1>3. \E iter : iter = [s \in SUBSET D |-> Step(iter, s)]
    <2>. DEFINE step == [b \in D |-> [v \in Nat |-> m[b] + v]]
    <2>1. step \in [D -> [Nat -> Nat]]
      BY <1>2
    <2>2. PICK iter \in [SUBSET D -> Nat] : IsFold(iter, D, 0, step)
      <3> HIDE DEF step
      <3> QED BY <2>1, FoldExists
    <2>3. ASSUME NEW s \in SUBSET D, s # {}
          PROVE  step[Some(s)][iter[s \ {Some(s)}]] = m[Some(s)] + iter[s \ {Some(s)}]
      <3>1. Some(s) \in D
        BY <2>3 DEF Some
      <3>2. s \ {Some(s)} \in SUBSET D /\ iter[s \ {Some(s)}] \in Nat
        OBVIOUS
      <3> QED BY <3>1, <3>2
    <2>4. \A s \in SUBSET D : iter[s] = Step(iter, s)
      <3> HIDE DEF step
      <3> QED BY <2>2, <2>3 DEF IsFold
    <2>5. iter = [s \in SUBSET D |-> Step(iter, s)]
      <3> HIDE DEF Step, step
      <3> QED BY <2>2, <2>4
    <2> HIDE DEF Step
    <2> QED BY <2>5
  <1>4. \A U \in SUBSET D : sum[U] = Step(sum, U)
    <2>1. sum = [s \in SUBSET D |-> Step(sum, s)]
      <3> HIDE DEF Step
      <3> QED BY <1>3
    <2> HIDE DEF Step, sum
    <2> QED BY <2>1
  <1>. HIDE DEF sum
  <1>. DEFINE G == {U \in SUBSET D : sum[U] = CountIn(X, h, U)}
  <1>5. {} \in G
    <2>1. {x \in X : h[x] \in {}} = {} /\ sum[{}] = 0
      BY <1>4
    <2> QED BY <2>1, FS_EmptySet DEF CountIn
  <1>6. ASSUME NEW U \in SUBSET D, U # {}, (U \ {Some(U)}) \in G
        PROVE  U \in G
    <2>. DEFINE b == Some(U)
                W == U \ {b}
    <2>1. b \in U /\ b \in D /\ sum[W] = CountIn(X, h, W) /\ sum[U] = m[b] + sum[W]
      BY <1>4, <1>6 DEF Some
    <2>. HIDE DEF b
    <2>2. CountIn(X, h, U) = CountAt(X, h, b) + CountIn(X, h, W)
      BY <2>1, CountInSplit
    <2>3. sum[U] = CountIn(X, h, U)
      BY <2>1, <2>2
    <2> QED BY <2>3
  <1>7. D \in G
    <2> HIDE DEF G
    <2> QED BY <1>5, <1>6, FoldInduction
  <1> QED BY <1>1, <1>7

\* Two functions that take every value in D equally often take D equally often.
LEMMA SameCounts ==
    ASSUME NEW X, IsFiniteSet(X), NEW h, NEW Y, IsFiniteSet(Y), NEW g,
           NEW D, IsFiniteSet(D), \A b \in D : CountAt(X, h, b) = CountAt(Y, g, b)
    PROVE  CountIn(X, h, D) = CountIn(Y, g, D)
  <1>. DEFINE m == [b \in D |-> CountAt(X, h, b)]
  <1>1. \A b \in D : m[b] = CountAt(X, h, b) /\ m[b] = CountAt(Y, g, b)
    OBVIOUS
  <1>. HIDE DEF m
  <1> QED BY <1>1, SumIsCount

\* A finite set of integers that is not empty has a least element ...
LEMMA FiniteSetHasMinimum ==
    ASSUME NEW S, IsFiniteSet(S), S \subseteq Int, S # {}
    PROVE  \E m \in S : \A x \in S : m <= x
  <1>. DEFINE G == {U \in SUBSET S : U # {} => \E m \in U : \A x \in U : m <= x}
  <1>1. {} \in G
    OBVIOUS
  <1>2. ASSUME NEW U \in SUBSET S, NEW y \in S \ U, U \in G
        PROVE  (U \cup {y}) \in G
    <2>1. CASE U = {}
      BY <2>1
    <2>2. CASE U # {}
      <3>1. PICK m \in U : \A x \in U : m <= x
        BY <1>2, <2>2
      <3>2. m \in Int /\ y \in Int /\ U \subseteq Int
        OBVIOUS
      <3>3. CASE m <= y
        BY <3>1, <3>2, <3>3
      <3>4. CASE ~(m <= y)
        <4>1. \A x \in U \cup {y} : y <= x
          BY <3>1, <3>2, <3>4
        <4> QED BY <4>1
      <3> QED BY <3>3, <3>4
    <2> QED BY <2>1, <2>2
  <1>3. S \in G
    <2> HIDE DEF G
    <2> QED BY <1>1, <1>2, SetInduction
  <1> QED BY <1>3

\* ... and a greatest one.
LEMMA FiniteSetHasMaximum ==
    ASSUME NEW S, IsFiniteSet(S), S \subseteq Int, S # {}
    PROVE  \E m \in S : \A x \in S : x <= m
  <1>. DEFINE T == {-x : x \in S}
  <1>1. IsFiniteSet(T) /\ T \subseteq Int /\ T # {}
    <2>. DEFINE f == [x \in S |-> -x]
    <2>1. f \in Surjection(S, T)
      BY DEF Surjection
    <2>2. T \subseteq Int /\ T # {}
      <3>1. PICK x \in S : TRUE
        OBVIOUS
      <3>2. -x \in T
        OBVIOUS
      <3>3. \A y \in S : -y \in Int
        OBVIOUS
      <3> QED BY <3>2, <3>3
    <2>. HIDE DEF f, T
    <2> QED BY <2>1, <2>2, FS_Surjection
  <1>. HIDE DEF T
  <1>2. PICK m \in T : \A x \in T : m <= x
    BY <1>1, FiniteSetHasMinimum
  <1>3. PICK y \in S : m = -y
    BY <1>2 DEF T
  <1>4. ASSUME NEW x \in S PROVE x <= y
    <2>1. -x \in T /\ x \in Int /\ y \in Int
      BY DEF T
    <2>2. -y <= -x
      BY <1>2, <1>3, <2>1
    <2> QED BY <2>1, <2>2
  <1> QED BY <1>4

\* Min of the community modules is the least element, where there is one.
LEMMA MinimumIsMin ==
    ASSUME NEW S, S \subseteq Int, NEW m \in S, \A x \in S : m <= x
    PROVE  Min(S) = m
  <1>1. \E n \in S : \A x \in S : n <= x
    OBVIOUS
  <1>2. Min(S) \in S /\ \A x \in S : Min(S) <= x
    BY <1>1 DEF Min
  <1>3. Min(S) <= m /\ m <= Min(S) /\ m \in Int /\ Min(S) \in Int
    BY <1>2
  <1>. HIDE DEF Min
  <1> QED BY <1>3

-----------------------------------------------------------------------------
(* Runs, in the order of their latencies. *)

\* How many of a run are below v, and how many are not above it.
Below(run, v) == Cardinality({i \in DOMAIN run : run[i] < v})
UpTo(run, v) == Cardinality({i \in DOMAIN run : run[i] <= v})

\* The indices of a run, which are as many as it is long, and its latencies.
LEMMA RunFacts ==
    ASSUME NEW run \in Seq(Latencies)
    PROVE  /\ DOMAIN run = 1 .. Len(run) /\ Len(run) \in Nat
           /\ IsFiniteSet(DOMAIN run) /\ Cardinality(DOMAIN run) = Len(run)
           /\ run \in [1 .. Len(run) -> Latencies]
           /\ \A i \in DOMAIN run : run[i] \in Latencies /\ run[i] \in Int
  <1>1. DOMAIN run = 1 .. Len(run) /\ Len(run) \in Nat /\ run \in [1 .. Len(run) -> Latencies]
    BY LenProperties
  <1>2. IsFiniteSet(1 .. Len(run)) /\ Cardinality(1 .. Len(run)) = Len(run)
    BY <1>1, FS_Interval
  <1> QED BY <1>1, <1>2, PercentilesAssumption DEF PercentilesAssumption

\* Indices of a run are finitely many, and no more than the run is long.
LEMMA PartOfRun ==
    ASSUME NEW run \in Seq(Latencies), NEW I \in SUBSET DOMAIN run
    PROVE  IsFiniteSet(I) /\ Cardinality(I) \in 0 .. Len(run)
  <1>1. IsFiniteSet(I) /\ Cardinality(I) <= Cardinality(DOMAIN run)
    BY RunFacts, FS_Subset
  <1>2. Cardinality(I) \in Nat
    BY <1>1, FS_CardinalityType
  <1> QED BY <1>1, <1>2, RunFacts

\* A part of a part of a run is not larger.
LEMMA SmallerPart ==
    ASSUME NEW run \in Seq(Latencies), NEW J \in SUBSET DOMAIN run, NEW I \in SUBSET J
    PROVE  Cardinality(I) <= Cardinality(J)
  BY PartOfRun, FS_Subset

\* What is not above v is what is below v and what is v.
LEMMA CountsOfRun ==
    ASSUME NEW run \in Seq(Latencies), NEW v \in Latencies
    PROVE  /\ Below(run, v) \in 0 .. Len(run) /\ UpTo(run, v) \in 0 .. Len(run)
           /\ Times(v, run) \in 0 .. Len(run)
           /\ UpTo(run, v) = Below(run, v) + Times(v, run)
           /\ \A w \in Latencies : v < w => UpTo(run, v) <= Below(run, w)
  <1>. DEFINE B == {i \in DOMAIN run : run[i] < v}
              T == {i \in DOMAIN run : run[i] = v}
              U == {i \in DOMAIN run : run[i] <= v}
  <1>0. v \in Int /\ \A i \in DOMAIN run : run[i] \in Int
    BY RunFacts, PercentilesAssumption DEF PercentilesAssumption
  <1>1. /\ IsFiniteSet(B) /\ Cardinality(B) \in 0 .. Len(run)
        /\ IsFiniteSet(T) /\ Cardinality(T) \in 0 .. Len(run)
        /\ IsFiniteSet(U) /\ Cardinality(U) \in 0 .. Len(run)
    BY PartOfRun
  <1>2. U = B \cup T /\ B \cap T = {}
    BY <1>0
  <1>3. Cardinality(U) = Cardinality(B) + Cardinality(T)
    <2>1. Cardinality(B \cap T) = 0
      BY <1>2, FS_EmptySet
    <2> HIDE DEF B, T, U
    <2>2. Cardinality(B \cup T) = Cardinality(B) + Cardinality(T) - Cardinality(B \cap T)
      BY <1>1, FS_Union
    <2> QED BY <1>1, <1>2, <2>1, <2>2
  <1>4. ASSUME NEW w \in Latencies, v < w
        PROVE  UpTo(run, v) <= Below(run, w)
    <2>. DEFINE C == {i \in DOMAIN run : run[i] < w}
    <2>1. w \in Int
      BY PercentilesAssumption DEF PercentilesAssumption
    <2>2. U \subseteq C /\ C \subseteq DOMAIN run
      BY <1>0, <1>4, <2>1
    <2>3. Cardinality(U) <= Cardinality(C)
      <3> HIDE DEF U, C
      <3> QED BY <2>2, SmallerPart
    <2> QED BY <2>3 DEF UpTo, Below
  <1>5. Below(run, v) = Cardinality(B) /\ UpTo(run, v) = Cardinality(U) /\ Times(v, run) = Cardinality(T)
    BY DEF Below, UpTo, Times
  <1> QED BY <1>1, <1>3, <1>4, <1>5

\* v is the k-th smallest latency of a run.
IsKth(run, k, v) == v \in Latencies /\ Below(run, v) < k /\ k <= UpTo(run, v)

\* Every run has a k-th smallest latency, for each of its indices k ...
LEMMA KthExists ==
    ASSUME NEW run \in Seq(Latencies), NEW k \in DOMAIN run
    PROVE  \E v \in Latencies : IsKth(run, k, v)
  <1>. DEFINE R == {run[i] : i \in DOMAIN run}
              V == {v \in R : k <= UpTo(run, v)}
  <1>1. /\ k \in Nat /\ 1 <= k /\ k <= Len(run) /\ Len(run) \in Nat
        /\ \A i \in DOMAIN run : run[i] \in R
    BY RunFacts
  <1>2. IsFiniteSet(R) /\ R \subseteq Int /\ R \subseteq Latencies /\ R # {}
    <2>1. run \in Surjection(DOMAIN run, R)
      BY RunFacts DEF Surjection
    <2>2. R \subseteq Int /\ R \subseteq Latencies /\ R # {}
      BY RunFacts
    <2>. HIDE DEF R
    <2> QED BY <2>1, <2>2, RunFacts, FS_Surjection
  <1>. HIDE DEF R
  <1>3. \A v \in R : UpTo(run, v) \in Nat /\ Below(run, v) \in Nat
    BY <1>2, CountsOfRun
  <1>4. V # {}
    <2>1. PICK m \in R : \A x \in R : x <= m
      BY <1>2, FiniteSetHasMaximum
    <2>2. {i \in DOMAIN run : run[i] <= m} = DOMAIN run
      BY <1>1, <2>1
    <2>3. UpTo(run, m) = Len(run)
      BY <2>2, RunFacts DEF UpTo
    <2> QED BY <1>1, <2>1, <2>3
  <1>5. IsFiniteSet(V) /\ V \subseteq Int
    BY <1>2, FS_Subset
  <1>6. PICK v \in V : \A x \in V : v <= x
    <2>. HIDE DEF V
    <2> QED BY <1>4, <1>5, FiniteSetHasMinimum
  <1>7. Below(run, v) < k
    <2>. DEFINE B == {w \in R : w < v}
    <2>1. CASE B = {}
      <3>1. {i \in DOMAIN run : run[i] < v} = {}
        BY <1>1, <2>1
      <3>2. Below(run, v) = 0
        BY <3>1, FS_EmptySet DEF Below
      <3> QED BY <1>1, <3>2
    <2>2. CASE B # {}
      <3>1. IsFiniteSet(B) /\ B \subseteq Int
        BY <1>2, FS_Subset
      <3>2. PICK w \in B : \A x \in B : x <= w
        <4>. HIDE DEF B
        <4> QED BY <2>2, <3>1, FiniteSetHasMaximum
      <3>3. w \in R /\ w < v /\ w \in Int /\ v \in Int
        BY <1>2, <1>6, <3>2
      <3>4. ~(k <= UpTo(run, w))
        BY <1>6, <3>3
      <3>5. {i \in DOMAIN run : run[i] < v} = {i \in DOMAIN run : run[i] <= w}
        <4>1. ASSUME NEW i \in DOMAIN run PROVE run[i] < v <=> run[i] <= w
          <5>1. run[i] \in R /\ run[i] \in Int
            BY <1>1, <1>2
          <5> QED BY <3>2, <3>3, <5>1
        <4> QED BY <4>1
      <3>6. Below(run, v) = UpTo(run, w)
        BY <3>5 DEF Below, UpTo
      <3> QED BY <1>1, <1>3, <3>3, <3>4, <3>6
    <2> QED BY <2>1, <2>2
  <1> QED BY <1>2, <1>6, <1>7 DEF IsKth

\* ... only one, and they come in the order of k.
LEMMA KthIsUnique ==
    ASSUME NEW run \in Seq(Latencies), NEW k \in DOMAIN run, NEW l \in DOMAIN run, k <= l,
           NEW v, NEW w, IsKth(run, k, v), IsKth(run, l, w)
    PROVE  v <= w /\ (k = l => v = w)
  <1>1. /\ v \in Latencies /\ w \in Latencies /\ v \in Int /\ w \in Int
        /\ k \in Int /\ l \in Int
    BY RunFacts, PercentilesAssumption DEF PercentilesAssumption, IsKth
  <1>2. /\ Below(run, v) \in Int /\ UpTo(run, v) \in Int
        /\ Below(run, w) \in Int /\ UpTo(run, w) \in Int
    BY <1>1, CountsOfRun
  <1>3. Below(run, v) < k /\ k <= UpTo(run, v) /\ Below(run, w) < l /\ l <= UpTo(run, w)
    BY DEF IsKth
  <1>4. w < v => UpTo(run, w) <= Below(run, v)
    BY <1>1, CountsOfRun
  <1>5. v < w => UpTo(run, v) <= Below(run, w)
    BY <1>1, CountsOfRun
  <1> QED BY <1>1, <1>2, <1>3, <1>4, <1>5

\* s is run in ascending order: what Ascending chooses.
IsAscending(s, run) ==
    /\ \A i, k \in DOMAIN run : i <= k => s[i] <= s[k]
    /\ \A l \in Latencies : Times(l, s) = Times(l, run)

\* Every run can be sorted: its k-th smallest latency for each k.
LEMMA AscendingExists ==
    ASSUME NEW run \in Seq(Latencies)
    PROVE  \E s \in [DOMAIN run -> Latencies] : IsAscending(s, run)
  <1>. DEFINE s == [k \in DOMAIN run |-> CHOOSE v \in Latencies : IsKth(run, k, v)]
  <1>1. \A k \in DOMAIN run : s[k] \in Latencies /\ IsKth(run, k, s[k])
    BY KthExists
  <1>2. s \in [DOMAIN run -> Latencies] /\ DOMAIN s = DOMAIN run
    BY KthExists
  <1>. HIDE DEF s
  <1>3. ASSUME NEW i \in DOMAIN run, NEW k \in DOMAIN run, i <= k
        PROVE  s[i] <= s[k]
    BY <1>1, <1>3, KthIsUnique
  <1>4. ASSUME NEW l \in Latencies
        PROVE  Times(l, s) = Times(l, run)
    <2>. DEFINE K == {k \in DOMAIN run : s[k] = l}
                low == Below(run, l)
                high == UpTo(run, l)
    <2>1. /\ low \in 0 .. Len(run) /\ high \in 0 .. Len(run)
          /\ Times(l, run) \in Nat /\ high = low + Times(l, run)
      BY CountsOfRun
    <2>2. DOMAIN run = 1 .. Len(run) /\ Len(run) \in Nat
      BY RunFacts
    <2>3. \A k \in DOMAIN run : s[k] = l <=> low < k /\ k <= high
      <3>1. ASSUME NEW k \in DOMAIN run, s[k] = l PROVE low < k /\ k <= high
        BY <1>1, <3>1 DEF IsKth
      <3>2. ASSUME NEW k \in DOMAIN run, low < k, k <= high PROVE s[k] = l
        <4>1. IsKth(run, k, l)
          BY <3>2 DEF IsKth
        <4>2. IsKth(run, k, s[k]) /\ k <= k
          BY <1>1, <2>2
        <4> QED BY <4>1, <4>2, KthIsUnique
      <3> QED BY <3>1, <3>2
    <2>. HIDE DEF low, high
    <2>4. K = (low + 1) .. high
      BY <2>1, <2>2, <2>3
    <2>5. Cardinality(K) = high - low
      <3>. DEFINE first == low + 1
      <3>1. first \in Int /\ high \in Int /\ low \in Int /\ low <= high
        BY <2>1
      <3>2. K = first .. high
        BY <2>4
      <3>3. Cardinality(K) = IF first > high THEN 0 ELSE high - first + 1
        <4>. HIDE DEF K, first
        <4> QED BY <3>1, <3>2, FS_Interval
      <3>4. CASE low = high
        BY <3>1, <3>3, <3>4
      <3>5. CASE low < high
        BY <3>1, <3>3, <3>5
      <3>. HIDE DEF K, first
      <3> QED BY <3>1, <3>4, <3>5
    <2>6. Times(l, s) = Cardinality(K)
      BY <1>2 DEF Times
    <2> QED BY <2>1, <2>5, <2>6
  <1> QED BY <1>2, <1>3, <1>4 DEF IsAscending

\* What sorting leaves at index k is the k-th smallest latency, however it sorts.
LEMMA AscendingIsKth ==
    ASSUME NEW run \in Seq(Latencies), NEW k \in DOMAIN run
    PROVE  IsKth(run, k, Ascending(run)[k])
  <1>. DEFINE s == Ascending(run)
              v == s[k]
  <1>1. s \in [DOMAIN run -> Latencies] /\ IsAscending(s, run)
    BY AscendingExists DEF Ascending, IsAscending
  <1>. HIDE DEF s
  <1>2. DOMAIN run = 1 .. Len(run) /\ Len(run) \in Nat /\ v \in Latencies /\ v \in Int
    BY <1>1, RunFacts, PercentilesAssumption DEF PercentilesAssumption
  <1>3. s \in Seq(Latencies) /\ DOMAIN s = DOMAIN run
    BY <1>1, <1>2
  <1>4. \A i \in DOMAIN run : s[i] \in Int /\ run[i] \in Int
    BY <1>3, RunFacts
  <1>. DEFINE R == {run[i] : i \in DOMAIN run} \cup {s[i] : i \in DOMAIN s}
  <1>5. IsFiniteSet(R) /\ R \subseteq Latencies
    <2>1. run \in Surjection(DOMAIN run, {run[i] : i \in DOMAIN run})
      BY RunFacts DEF Surjection
    <2>2. s \in Surjection(DOMAIN s, {s[i] : i \in DOMAIN s})
      BY <1>1, <1>3 DEF Surjection
    <2>3. R \subseteq Latencies
      BY <1>1, <1>3, RunFacts
    <2>4. IsFiniteSet({run[i] : i \in DOMAIN run}) /\ IsFiniteSet({s[i] : i \in DOMAIN s})
      BY <1>3, <2>1, <2>2, RunFacts, FS_Surjection
    <2> QED BY <2>3, <2>4, FS_Union
  <1>6. ASSUME NEW D \in SUBSET Latencies, IsFiniteSet(D)
        PROVE  CountIn(DOMAIN run, s, D) = CountIn(DOMAIN run, run, D)
    <2>1. \A l \in D : CountAt(DOMAIN run, s, l) = CountAt(DOMAIN run, run, l)
      BY <1>1, <1>3 DEF IsAscending, Times, CountAt
    <2>2. IsFiniteSet(DOMAIN run)
      BY RunFacts
    <2> QED BY <1>6, <2>1, <2>2, SameCounts
  <1>. HIDE DEF R
  <1>7. k <= UpTo(run, v)
    <2>. DEFINE D == {l \in R : l <= v}
    <2>1. IsFiniteSet(D) /\ D \subseteq Latencies
      BY <1>5, FS_Subset
    <2>2. /\ {i \in DOMAIN run : run[i] \in D} = {i \in DOMAIN run : run[i] <= v}
          /\ {i \in DOMAIN run : s[i] \in D} = {i \in DOMAIN run : s[i] <= v}
      BY <1>3 DEF R
    <2>3. UpTo(run, v) = Cardinality({i \in DOMAIN run : s[i] <= v})
      <3>. HIDE DEF D
      <3>1. CountIn(DOMAIN run, s, D) = CountIn(DOMAIN run, run, D)
        BY <1>6, <2>1
      <3> QED BY <2>2, <3>1 DEF CountIn, UpTo
    <2>4. 1 .. k \subseteq {i \in DOMAIN run : s[i] <= v}
      BY <1>1, <1>2 DEF IsAscending
    <2>5. Cardinality(1 .. k) <= UpTo(run, v)
      BY <2>3, <2>4, SmallerPart
    <2>6. Cardinality(1 .. k) = k
      BY <1>2, FS_Interval
    <2> QED BY <2>5, <2>6
  <1>8. Below(run, v) < k
    <2>. DEFINE D == {l \in R : l < v}
    <2>1. IsFiniteSet(D) /\ D \subseteq Latencies
      BY <1>5, FS_Subset
    <2>2. /\ {i \in DOMAIN run : run[i] \in D} = {i \in DOMAIN run : run[i] < v}
          /\ {i \in DOMAIN run : s[i] \in D} = {i \in DOMAIN run : s[i] < v}
      BY <1>3 DEF R
    <2>3. Below(run, v) = Cardinality({i \in DOMAIN run : s[i] < v})
      <3>. HIDE DEF D
      <3>1. CountIn(DOMAIN run, s, D) = CountIn(DOMAIN run, run, D)
        BY <1>6, <2>1
      <3> QED BY <2>2, <3>1 DEF CountIn, Below
    <2>4. {i \in DOMAIN run : s[i] < v} \subseteq 1 .. (k - 1) /\ 1 .. (k - 1) \subseteq DOMAIN run
      <3>1. ASSUME NEW i \in DOMAIN run, s[i] < v PROVE i \in 1 .. (k - 1)
        <4>1. ~(k <= i)
          BY <1>1, <1>2, <1>4, <3>1 DEF IsAscending
        <4> QED BY <1>2, <4>1
      <3> QED BY <1>2, <3>1
    <2>5. Below(run, v) <= Cardinality(1 .. (k - 1))
      BY <2>3, <2>4, SmallerPart
    <2>6. Cardinality(1 .. (k - 1)) = k - 1
      BY <1>2, FS_Interval
    <2>7. Below(run, v) \in Int
      BY <1>2, CountsOfRun
    <2> QED BY <1>2, <2>5, <2>6, <2>7
  <1> QED BY <1>2, <1>7, <1>8 DEF IsKth, s

-----------------------------------------------------------------------------
(* The sketch of a run: its counts, their total and its quantiles. *)

\* The bucket of every request of a run.
BucketsOf(run) == [i \in DOMAIN run |-> Bucket[run[i]]]

\* The buckets of a sketch are those of the run, each with the number of its requests.
LEMMA EncodeFacts ==
    ASSUME NEW run \in Seq(Latencies)
    PROVE  /\ DOMAIN Encode(run) = {Bucket[run[i]] : i \in DOMAIN run}
           /\ DOMAIN Encode(run) \subseteq Buckets /\ DOMAIN Encode(run) \subseteq Nat
           /\ IsFiniteSet(DOMAIN Encode(run))
           /\ \A b \in DOMAIN Encode(run) :
                 Encode(run)[b] = CountAt(DOMAIN run, BucketsOf(run), b)
  <1>1. DOMAIN Encode(run) = {Bucket[run[i]] : i \in DOMAIN run}
    BY DEF Encode
  <1>2. \A i \in DOMAIN run : Bucket[run[i]] \in Buckets /\ Bucket[run[i]] \in Nat
    BY RunFacts, PercentilesAssumption DEF PercentilesAssumption, Buckets
  <1>3. BucketsOf(run) \in Surjection(DOMAIN run, DOMAIN Encode(run))
    BY <1>1 DEF Surjection, BucketsOf
  <1>4. IsFiniteSet(DOMAIN Encode(run))
    BY <1>3, RunFacts, FS_Surjection
  <1>5. ASSUME NEW b \in DOMAIN Encode(run)
        PROVE  Encode(run)[b] = CountAt(DOMAIN run, BucketsOf(run), b)
    <2>1. Encode(run)[b] = Cardinality({i \in DOMAIN run : Bucket[run[i]] = b})
      BY DEF Encode
    <2>2. {i \in DOMAIN run : Bucket[run[i]] = b} = {i \in DOMAIN run : BucketsOf(run)[i] = b}
      BY DEF BucketsOf
    <2> QED BY <2>1, <2>2 DEF CountAt
  <1> QED BY <1>1, <1>2, <1>4, <1>5

\* What a sketch counts in some of its buckets is the number of requests in them.
LEMMA SumOfEncode ==
    ASSUME NEW run \in Seq(Latencies), NEW D \in SUBSET DOMAIN Encode(run)
    PROVE  MapThenSumSet(LAMBDA b : Encode(run)[b], D)
             = Cardinality({i \in DOMAIN run : Bucket[run[i]] \in D})
  <1>1. IsFiniteSet(D) /\ \A b \in D : Encode(run)[b] = CountAt(DOMAIN run, BucketsOf(run), b)
    BY EncodeFacts, FS_Subset
  <1>2. SumOf(Encode(run), D) = CountIn(DOMAIN run, BucketsOf(run), D)
    BY <1>1, RunFacts, SumIsCount
  <1>3. {i \in DOMAIN run : Bucket[run[i]] \in D} = {i \in DOMAIN run : BucketsOf(run)[i] \in D}
    BY DEF BucketsOf
  <1> QED BY <1>2, <1>3 DEF SumOf, CountIn

\* A sketch that was neither lost nor malformed accounts for every request of its run
\* (worker/sketch.go).
THEOREM TotalIsLength ==
    ASSUME NEW run \in Seq(Latencies)
    PROVE  Total(Encode(run)) = Len(run)
  <1>1. {i \in DOMAIN run : Bucket[run[i]] \in DOMAIN Encode(run)} = DOMAIN run
    BY EncodeFacts
  <1>2. Total(Encode(run)) = Cardinality({i \in DOMAIN run : Bucket[run[i]] \in DOMAIN Encode(run)})
    BY SumOfEncode DEF Total
  <1> QED BY <1>1, <1>2, RunFacts

\* The index percentile p is read at lies in the run: the slice of sorted latencies is
\* never read out of bounds (metrics.go:69-72).
THEOREM RankInRun ==
    ASSUME NEW p \in 0 .. 100, NEW n \in Nat \ {0}
    PROVE  Rank(p, n) \in 0 .. (n - 1)
  <1>1. p * (n - 1) \in Nat /\ p * (n - 1) <= 100 * (n - 1)
    <2>. DEFINE m == n - 1
    <2>1. m \in Nat
      OBVIOUS
    <2>. HIDE DEF m
    <2>2. p * m \in Nat /\ p * m <= 100 * m
      BY <2>1
    <2> QED BY <2>2 DEF m
  <1>. DEFINE x == p * (n - 1)
  <1>2. x \in Nat /\ x <= 100 * (n - 1)
    BY <1>1
  <1>. HIDE DEF x
  <1>3. x \div 100 \in 0 .. (n - 1)
    BY <1>2
  <1> QED BY <1>3 DEF Rank, x

\* The quantile read off the sketch of a run is the bucket of the exact percentile of
\* the run: the sketch is off by the width of a bucket and no more (worker/sketch.go).
THEOREM QuantileOfEncode ==
    ASSUME NEW run \in Seq(Latencies), run # <<>>, NEW p \in 0 .. 100
    PROVE  Quantile(p, Encode(run)) = Bucket[Exact(p, run)]
  <1>. DEFINE sketch == Encode(run)
              r == Rank(p, Len(run))
              v == Exact(p, run)
              upTo(b) == MapThenSumSet(LAMBDA a : sketch[a], {a \in DOMAIN sketch : a <= b})
              Q == {b \in DOMAIN sketch : Reached(upTo(b), r)}
  <1>1. Len(run) \in Nat \ {0} /\ r \in 0 .. (Len(run) - 1) /\ r + 1 \in DOMAIN run
    <2>1. Len(run) \in Nat \ {0}
      BY RunFacts, EmptySeq
    <2>2. r \in 0 .. (Len(run) - 1)
      BY <2>1, RankInRun
    <2> QED BY <2>1, <2>2, RunFacts
  <1>2. IsKth(run, r + 1, v)
    BY <1>1, AscendingIsKth DEF Exact
  <1>3. Quantile(p, sketch) = Min(Q)
    BY TotalIsLength DEF Quantile
  <1>4. v \in Latencies /\ v \in Int /\ Bucket[v] \in Nat
    BY <1>2, PercentilesAssumption DEF PercentilesAssumption, IsKth
  <1>. HIDE DEF v, r
  <1>5. DOMAIN sketch \subseteq Nat
    BY EncodeFacts
  <1>6. ASSUME NEW b \in DOMAIN sketch
        PROVE  upTo(b) = Cardinality({i \in DOMAIN run : Bucket[run[i]] <= b})
    <2>. DEFINE D == {a \in DOMAIN sketch : a <= b}
    <2>1. {i \in DOMAIN run : Bucket[run[i]] \in D} = {i \in DOMAIN run : Bucket[run[i]] <= b}
      BY EncodeFacts
    <2>2. D \in SUBSET DOMAIN sketch
      OBVIOUS
    <2>3. upTo(b) = Cardinality({i \in DOMAIN run : Bucket[run[i]] \in D})
      BY <2>2, SumOfEncode
    <2> QED BY <2>1, <2>3
  <1>7. \A i \in DOMAIN run : /\ run[i] \in Latencies /\ run[i] \in Int
                              /\ Bucket[run[i]] \in Nat /\ Bucket[run[i]] \in DOMAIN sketch
    BY RunFacts, EncodeFacts
  <1>8. ASSUME NEW b \in DOMAIN sketch
        PROVE  upTo(b) \in Nat
    <2>1. {i \in DOMAIN run : Bucket[run[i]] <= b} \in SUBSET DOMAIN run
      OBVIOUS
    <2>2. Cardinality({i \in DOMAIN run : Bucket[run[i]] <= b}) \in Nat
      BY <2>1, PartOfRun
    <2>. HIDE DEF upTo
    <2> QED BY <1>6, <2>2
  <1>. HIDE DEF upTo
  <1>9. ASSUME NEW b \in DOMAIN sketch, Bucket[v] <= b
        PROVE  b \in Q
    <2>1. {i \in DOMAIN run : run[i] <= v} \subseteq {i \in DOMAIN run : Bucket[run[i]] <= b}
      <3>1. ASSUME NEW i \in DOMAIN run, run[i] <= v PROVE Bucket[run[i]] <= b
        <4>1. Bucket[run[i]] <= Bucket[v]
          BY <1>4, <1>7, <3>1, PercentilesAssumption DEF PercentilesAssumption
        <4> QED BY <1>4, <1>5, <1>7, <1>9, <4>1
      <3> QED BY <3>1
    <2>2. UpTo(run, v) <= upTo(b)
      BY <1>6, <2>1, SmallerPart DEF UpTo
    <2>3. r + 1 <= UpTo(run, v) /\ UpTo(run, v) \in Int
      BY <1>2, <1>4, CountsOfRun DEF IsKth
    <2>4. upTo(b) > r
      BY <1>1, <1>8, <2>2, <2>3
    <2> QED BY <2>4 DEF Reached
  <1>10. ASSUME NEW b \in DOMAIN sketch, b < Bucket[v]
         PROVE  b \notin Q
    <2>1. {i \in DOMAIN run : Bucket[run[i]] <= b} \subseteq {i \in DOMAIN run : run[i] < v}
      <3>1. ASSUME NEW i \in DOMAIN run, Bucket[run[i]] <= b PROVE run[i] < v
        <4>1. v <= run[i] => Bucket[v] <= Bucket[run[i]]
          BY <1>4, <1>7, PercentilesAssumption DEF PercentilesAssumption
        <4> QED BY <1>4, <1>5, <1>7, <1>10, <3>1, <4>1
      <3> QED BY <3>1
    <2>2. upTo(b) <= Below(run, v)
      BY <1>6, <2>1, SmallerPart DEF Below
    <2>3. Below(run, v) < r + 1 /\ Below(run, v) \in Int
      BY <1>2, <1>4, CountsOfRun DEF IsKth
    <2>4. ~(upTo(b) > r)
      BY <1>1, <1>8, <2>2, <2>3
    <2> QED BY <2>4 DEF Reached
  <1>11. Bucket[v] \in DOMAIN sketch
    <2>1. PICK i \in DOMAIN run : run[i] = v
      <3>1. Times(v, run) # 0
        BY <1>1, <1>2, <1>4, CountsOfRun DEF IsKth
      <3>2. {i \in DOMAIN run : run[i] = v} # {}
        BY <3>1, FS_EmptySet DEF Times
      <3> QED BY <3>2
    <2> QED BY <1>7, <2>1
  <1>12. Bucket[v] \in Q /\ \A b \in Q : Bucket[v] <= b
    <2>1. Bucket[v] \in Q
      <3>. HIDE DEF Q
      <3>1. Bucket[v] <= Bucket[v]
        BY <1>4
      <3> QED BY <1>9, <1>11, <3>1
    <2>2. ASSUME NEW b \in Q PROVE Bucket[v] <= b
      <3>1. b \in DOMAIN sketch /\ b \in Nat
        BY <1>5
      <3>. HIDE DEF Q
      <3> QED BY <1>4, <1>10, <3>1
    <2> QED BY <2>1, <2>2
  <1>13. Q \subseteq Nat
    BY <1>5
  <1>14. Min(Q) = Bucket[v]
    <2>. HIDE DEF Q
    <2>1. Q \subseteq Int
      BY <1>13
    <2> QED BY <1>12, <2>1, MinimumIsMin
  <1> QED BY <1>3, <1>14 DEF v

-----------------------------------------------------------------------------
(* What the store holds, and the requests of all jobs in a bucket. *)

\* The store holds the length of the report, and its sketch if it came through.
IInv ==
    /\ TypeOK
    /\ \A j \in Jobs :
         /\ stored[j].requests = Len(reported[j])
         /\ stored[j].decoded => stored[j].sketch = Encode(reported[j])

\* The requests of all reports that are in bucket b, each as its job and its index.
InBucket(b) ==
    {q \in Jobs \X (1 .. MaxSamples) :
        q[2] \in DOMAIN reported[q[1]] /\ Bucket[reported[q[1]][q[2]]] = b}

\* The job of such a request.
JobOf == [q \in Jobs \X (1 .. MaxSamples) |-> q[1]]

\* A run in the sense of the type invariant is a sequence of latencies.
LEMMA RunIsSeq ==
    ASSUME NEW run \in Runs
    PROVE  run \in Seq(Latencies) /\ Len(run) \in 0 .. MaxSamples
  <1>1. PICK n \in 0 .. MaxSamples : run \in [1 .. n -> Latencies]
    BY DEF Runs
  <1>2. n \in Nat /\ run \in Seq(Latencies) /\ Len(run) = n
    BY <1>1, PercentilesAssumption DEF PercentilesAssumption
  <1> QED BY <1>1, <1>2

\* The requests of job j in bucket b are as many among those of all jobs as in its report.
LEMMA BucketsOfJob ==
    ASSUME IInv, NEW j \in Jobs, NEW b
    PROVE  /\ IsFiniteSet(InBucket(b))
           /\ CountAt(InBucket(b), JobOf, j) = CountAt(DOMAIN reported[j], BucketsOf(reported[j]), b)
  <1>. DEFINE run == reported[j]
              I == {i \in DOMAIN run : BucketsOf(run)[i] = b}
              Q == {q \in InBucket(b) : JobOf[q] = j}
              f == [i \in I |-> <<j, i>>]
  <1>1. run \in Seq(Latencies) /\ Len(run) \in 0 .. MaxSamples
    BY RunIsSeq DEF IInv, TypeOK
  <1>2. DOMAIN run = 1 .. Len(run) /\ IsFiniteSet(I)
    BY <1>1, RunFacts, FS_Subset
  <1>3. DOMAIN run \subseteq 1 .. MaxSamples
    BY <1>1, <1>2, PercentilesAssumption DEF PercentilesAssumption
  <1>4. I = {i \in DOMAIN run : Bucket[run[i]] = b}
    BY DEF BucketsOf
  <1>5. \A i \in I : <<j, i>> \in Q
    BY <1>3, <1>4 DEF InBucket, JobOf
  <1>6. \A q \in Q : \E i \in I : q = <<j, i>>
    BY <1>4 DEF InBucket, JobOf
  <1>7. f \in Bijection(I, Q)
    <2>. HIDE DEF I, Q
    <2>1. f \in Surjection(I, Q)
      BY <1>5, <1>6 DEF Surjection
    <2>2. f \in Injection(I, Q)
      BY <1>5 DEF Injection, IsInjective
    <2> QED BY <2>1, <2>2 DEF Bijection
  <1>8. Cardinality(I) = Cardinality(Q)
    <2>. HIDE DEF I, Q, f
    <2>1. ExistsBijection(I, Q)
      BY <1>7 DEF ExistsBijection
    <2> QED BY <1>2, <2>1, FS_Bijection
  <1>9. IsFiniteSet(InBucket(b))
    <2>1. IsFiniteSet(1 .. MaxSamples) /\ IsFiniteSet(Jobs)
      BY FS_Interval, PercentilesAssumption DEF PercentilesAssumption
    <2>2. IsFiniteSet(Jobs \X (1 .. MaxSamples))
      BY <2>1, FS_Product
    <2>3. InBucket(b) \subseteq Jobs \X (1 .. MaxSamples)
      BY DEF InBucket
    <2> QED BY <2>2, <2>3, FS_Subset
  <1> QED BY <1>8, <1>9 DEF CountAt

\* What two runs one after the other have in a bucket is what each of them has there.
LEMMA BucketsOfBoth ==
    ASSUME NEW s \in Seq(Latencies), NEW t \in Seq(Latencies), NEW b
    PROVE  /\ s \o t \in Seq(Latencies)
           /\ CountAt(DOMAIN (s \o t), BucketsOf(s \o t), b)
                = CountAt(DOMAIN s, BucketsOf(s), b) + CountAt(DOMAIN t, BucketsOf(t), b)
  <1>. DEFINE st == s \o t
              I == {i \in DOMAIN s : BucketsOf(s)[i] = b}
              J == {i \in DOMAIN t : BucketsOf(t)[i] = b}
              H == {i \in (Len(s) + 1) .. Len(st) : BucketsOf(st)[i] = b}
              All == {i \in DOMAIN st : BucketsOf(st)[i] = b}
              f == [i \in J |-> i + Len(s)]
  <1>1. /\ DOMAIN s = 1 .. Len(s) /\ DOMAIN t = 1 .. Len(t)
        /\ Len(s) \in Nat /\ Len(t) \in Nat
        /\ IsFiniteSet(I) /\ Cardinality(I) \in Nat
        /\ IsFiniteSet(J) /\ Cardinality(J) \in Nat
    BY RunFacts, FS_Subset, FS_CardinalityType
  <1>2. /\ st \in Seq(Latencies) /\ DOMAIN st = 1 .. Len(st) /\ Len(st) = Len(s) + Len(t)
        /\ \A i \in 1 .. Len(s) : st[i] = s[i]
        /\ \A i \in 1 .. Len(t) : st[i + Len(s)] = t[i]
    <2>1. st \in Seq(Latencies) /\ Len(st) = Len(s) + Len(t)
      BY ConcatProperties
    <2>2. DOMAIN st = 1 .. Len(st)
      BY <2>1, RunFacts
    <2>3. \A i \in 1 .. Len(s) + Len(t) : st[i] = IF i <= Len(s) THEN s[i] ELSE t[i - Len(s)]
      BY ConcatProperties
    <2>. HIDE DEF st
    <2>4. \A i \in 1 .. Len(s) : st[i] = s[i]
      BY <1>1, <2>3
    <2>5. ASSUME NEW i \in 1 .. Len(t) PROVE st[i + Len(s)] = t[i]
      <3>1. i + Len(s) \in 1 .. Len(s) + Len(t) /\ ~(i + Len(s) <= Len(s)) /\ (i + Len(s)) - Len(s) = i
        BY <1>1
      <3> QED BY <2>3, <3>1
    <2> QED BY <2>1, <2>2, <2>4, <2>5
  <1>. HIDE DEF st
  <1>3. /\ \A i \in 1 .. Len(s) : i \in DOMAIN st /\ BucketsOf(st)[i] = BucketsOf(s)[i]
        /\ \A i \in 1 .. Len(t) : i + Len(s) \in DOMAIN st
                                  /\ BucketsOf(st)[i + Len(s)] = BucketsOf(t)[i]
    BY <1>1, <1>2 DEF BucketsOf
  <1>4. All = I \cup H /\ I \cap H = {}
    BY <1>1, <1>2, <1>3
  <1>5. \A i \in J : i + Len(s) \in H
    BY <1>1, <1>2, <1>3
  <1>6. ASSUME NEW k \in H
        PROVE  \E i \in J : k = i + Len(s)
    <2>1. k - Len(s) \in 1 .. Len(t) /\ (k - Len(s)) + Len(s) = k /\ k \in DOMAIN st
      BY <1>1, <1>2
    <2>2. k - Len(s) \in J
      BY <1>1, <1>3, <2>1
    <2> QED BY <2>1, <2>2
  <1>7. Cardinality(H) = Cardinality(J) /\ IsFiniteSet(H)
    <2>0. J \subseteq Int /\ Len(s) \in Int
      BY <1>1
    <2>. HIDE DEF H, J
    <2>1. f \in Surjection(J, H)
      BY <1>5, <1>6 DEF Surjection
    <2>2. f \in Injection(J, H)
      BY <1>5, <2>0 DEF Injection, IsInjective
    <2>3. f \in Bijection(J, H)
      BY <2>1, <2>2 DEF Bijection
    <2>4. ExistsBijection(J, H)
      BY <2>3 DEF ExistsBijection
    <2> QED BY <1>1, <2>4, FS_Bijection
  <1>8. Cardinality(All) = Cardinality(I) + Cardinality(H)
    <2>. HIDE DEF All, I, H
    <2>1. Cardinality(I \cap H) = 0
      BY <1>4, FS_EmptySet
    <2>2. Cardinality(I \cup H) = Cardinality(I) + Cardinality(H) - Cardinality(I \cap H)
      BY <1>1, <1>7, FS_Union
    <2> QED BY <1>1, <1>4, <1>7, <2>1, <2>2
  <1> QED BY <1>2, <1>7, <1>8 DEF CountAt, st

-----------------------------------------------------------------------------
(* All requests taken together, job by job. *)

\* The requests in bucket b of the reports of the jobs in U.
RequestsIn(U, b) == CountIn(InBucket(b), JobOf, U)

\* The requests of the jobs in U are those of one of them and of the others.
LEMMA RequestsSplit ==
    ASSUME IInv, NEW U \in SUBSET Jobs, NEW j \in U, NEW b
    PROVE  /\ RequestsIn(U, b) = CountAt(DOMAIN reported[j], BucketsOf(reported[j]), b)
                                   + RequestsIn(U \ {j}, b)
           /\ CountAt(DOMAIN reported[j], BucketsOf(reported[j]), b) \in Nat
           /\ RequestsIn(U \ {j}, b) \in Nat
  BY BucketsOfJob, CountInSplit DEF RequestsIn

\* AllRequests is put together report by report.
LEMMA AllRequestsFolds ==
    ASSUME IInv
    PROVE  \E all : /\ AllRequests = all[Jobs]
                    /\ \A U \in SUBSET Jobs :
                          all[U] = IF U = {} THEN <<>> ELSE all[U \ {Some(U)}] \o reported[Some(U)]
  <1>. DEFINE V == Seq(Latencies)
              Step(iter, s) == IF s = {} THEN <<>> ELSE iter[s \ {Some(s)}] \o reported[Some(s)]
              all == CHOOSE iter : iter = [s \in SUBSET Jobs |-> Step(iter, s)]
  <1>1. AllRequests = all[Jobs]
    BY DEF AllRequests, FoldSet, MapThenFoldSet, Some
  <1>2. IsFiniteSet(Jobs) /\ \A j \in Jobs : reported[j] \in V
    BY RunIsSeq, PercentilesAssumption DEF PercentilesAssumption, IInv, TypeOK
  <1>3. \E iter : iter = [s \in SUBSET Jobs |-> Step(iter, s)]
    <2>. DEFINE step == [j \in Jobs |-> [run \in V |-> run \o reported[j]]]
    <2>1. step \in [Jobs -> [V -> V]] /\ <<>> \in V
      BY <1>2
    <2>2. PICK iter \in [SUBSET Jobs -> V] : IsFold(iter, Jobs, <<>>, step)
      <3> HIDE DEF step, V
      <3> QED BY <1>2, <2>1, FoldExists
    <2>3. ASSUME NEW s \in SUBSET Jobs, s # {}
          PROVE  step[Some(s)][iter[s \ {Some(s)}]] = iter[s \ {Some(s)}] \o reported[Some(s)]
      <3>1. Some(s) \in Jobs
        BY <2>3 DEF Some
      <3>2. s \ {Some(s)} \in SUBSET Jobs /\ iter[s \ {Some(s)}] \in V
        OBVIOUS
      <3> HIDE DEF V
      <3> QED BY <3>1, <3>2
    <2>4. \A s \in SUBSET Jobs : iter[s] = Step(iter, s)
      <3> HIDE DEF step
      <3> QED BY <2>2, <2>3 DEF IsFold
    <2>5. iter = [s \in SUBSET Jobs |-> Step(iter, s)]
      <3> HIDE DEF Step, step
      <3> QED BY <2>2, <2>4
    <2> HIDE DEF Step
    <2> QED BY <2>5
  <1>4. \A U \in SUBSET Jobs : all[U] = Step(all, U)
    <2>1. all = [s \in SUBSET Jobs |-> Step(all, s)]
      <3> HIDE DEF Step
      <3> QED BY <1>3
    <2> HIDE DEF Step, all
    <2> QED BY <2>1
  <1>. HIDE DEF all
  <1> QED BY <1>1, <1>4

\* In every bucket AllRequests has what the reports of the jobs have there together.
LEMMA AllRequestsCounts ==
    ASSUME IInv
    PROVE  /\ AllRequests \in Seq(Latencies)
           /\ \A b \in Nat :
                 CountAt(DOMAIN AllRequests, BucketsOf(AllRequests), b) = RequestsIn(Jobs, b)
  <1>1. PICK all : /\ AllRequests = all[Jobs]
                   /\ \A U \in SUBSET Jobs :
                         all[U] = IF U = {} THEN <<>> ELSE all[U \ {Some(U)}] \o reported[Some(U)]
    BY AllRequestsFolds
  <1>. DEFINE Counts(U) == /\ all[U] \in Seq(Latencies)
                           /\ \A b \in Nat : CountAt(DOMAIN all[U], BucketsOf(all[U]), b)
                                               = RequestsIn(U, b)
              G == {U \in SUBSET Jobs : Counts(U)}
  <1>2. {} \in G
    <2>1. all[{}] = <<>> /\ <<>> \in Seq(Latencies) /\ DOMAIN <<>> = {}
      <3>1. all[{}] = <<>>
        BY <1>1
      <3>2. <<>> \in Seq(Latencies) /\ Len(<<>>) = 0
        OBVIOUS
      <3>3. DOMAIN <<>> = 1 .. 0
        BY <3>2, RunFacts
      <3> QED BY <3>1, <3>2, <3>3
    <2>2. ASSUME NEW b \in Nat
          PROVE  CountAt(DOMAIN <<>>, BucketsOf(<<>>), b) = RequestsIn({}, b)
      <3>1. CountAt(DOMAIN <<>>, BucketsOf(<<>>), b) = 0
        <4>1. {i \in DOMAIN <<>> : BucketsOf(<<>>)[i] = b} = {}
          BY <2>1
        <4> QED BY <4>1, FS_EmptySet DEF CountAt
      <3>2. RequestsIn({}, b) = 0
        <4>1. {q \in InBucket(b) : JobOf[q] \in {}} = {}
          OBVIOUS
        <4> QED BY <4>1, FS_EmptySet DEF RequestsIn, CountIn
      <3> QED BY <3>1, <3>2
    <2> QED BY <2>1, <2>2
  <1>3. ASSUME NEW U \in SUBSET Jobs, U # {}, (U \ {Some(U)}) \in G
        PROVE  U \in G
    <2>. DEFINE j == Some(U)
                W == U \ {j}
    <2>1. j \in U /\ j \in Jobs /\ W \in SUBSET Jobs
      BY <1>3 DEF Some
    <2>2. all[U] = all[W] \o reported[j]
      BY <1>1, <1>3
    <2>3. Counts(W)
      BY <1>3
    <2>. HIDE DEF j, W
    <2>4. reported[j] \in Seq(Latencies)
      BY <2>1, RunIsSeq DEF IInv, TypeOK
    <2>5. all[U] \in Seq(Latencies)
      BY <2>2, <2>3, <2>4, BucketsOfBoth
    <2>6. ASSUME NEW b \in Nat
          PROVE  CountAt(DOMAIN all[U], BucketsOf(all[U]), b) = RequestsIn(U, b)
      <3>1. CountAt(DOMAIN all[U], BucketsOf(all[U]), b)
              = CountAt(DOMAIN all[W], BucketsOf(all[W]), b)
                  + CountAt(DOMAIN reported[j], BucketsOf(reported[j]), b)
        <4>1. all[W] \in Seq(Latencies)
          BY <2>3
        <4>2. CountAt(DOMAIN (all[W] \o reported[j]), BucketsOf(all[W] \o reported[j]), b)
                = CountAt(DOMAIN all[W], BucketsOf(all[W]), b)
                    + CountAt(DOMAIN reported[j], BucketsOf(reported[j]), b)
          BY <2>4, <4>1, BucketsOfBoth
        <4>. HIDE DEF Counts, G
        <4> QED BY <2>2, <4>2
      <3>2. CountAt(DOMAIN all[W], BucketsOf(all[W]), b) = RequestsIn(W, b)
        BY <2>3
      <3>3. /\ RequestsIn(U, b) = CountAt(DOMAIN reported[j], BucketsOf(reported[j]), b)
                                    + RequestsIn(W, b)
            /\ CountAt(DOMAIN reported[j], BucketsOf(reported[j]), b) \in Nat
            /\ RequestsIn(W, b) \in Nat
        BY <2>1, RequestsSplit DEF W
      <3> QED BY <3>1, <3>2, <3>3
    <2> QED BY <2>5, <2>6
  <1>4. Jobs \in G
    <2>1. IsFiniteSet(Jobs)
      BY PercentilesAssumption DEF PercentilesAssumption
    <2> HIDE DEF G
    <2> QED BY <1>2, <1>3, <2>1, FoldInduction
  <1> QED BY <1>1, <1>4

-----------------------------------------------------------------------------
(* The merged sketches, job by job. *)

\* The sketches there can be: counts of finitely or infinitely many buckets.
Sketches == UNION {[D -> Nat] : D \in SUBSET Nat}

\* latencySketch.merge adds up the counts of every bucket (sketch.go).
LEMMA SketchFacts ==
    ASSUME NEW s \in Sketches, NEW t \in Sketches
    PROVE  /\ s = [b \in DOMAIN s |-> s[b]] /\ DOMAIN s \subseteq Nat
           /\ Merge(s, t) \in Sketches
           /\ DOMAIN Merge(s, t) = DOMAIN s \cup DOMAIN t
           /\ \A b \in Nat : /\ Count(s, b) \in Nat
                             /\ Count(Merge(s, t), b) = Count(s, b) + Count(t, b)
  <1>1. s = [b \in DOMAIN s |-> s[b]] /\ DOMAIN s \subseteq Nat /\ \A b \in DOMAIN s : s[b] \in Nat
    <2>1. PICK D \in SUBSET Nat : s \in [D -> Nat]
      BY DEF Sketches
    <2> QED BY <2>1
  <1>2. DOMAIN t \subseteq Nat /\ \A b \in DOMAIN t : t[b] \in Nat
    <2>1. PICK D \in SUBSET Nat : t \in [D -> Nat]
      BY DEF Sketches
    <2> QED BY <2>1
  <1>3. \A b \in Nat : Count(s, b) \in Nat /\ Count(t, b) \in Nat
    BY <1>1, <1>2 DEF Count
  <1>4. /\ DOMAIN Merge(s, t) = DOMAIN s \cup DOMAIN t
        /\ \A b \in DOMAIN s \cup DOMAIN t : Merge(s, t)[b] = Count(s, b) + Count(t, b)
    BY DEF Merge
  <1>5. Merge(s, t) \in [DOMAIN s \cup DOMAIN t -> Nat]
    <2>1. \A b \in DOMAIN s \cup DOMAIN t : Count(s, b) + Count(t, b) \in Nat
      BY <1>1, <1>2, <1>3
    <2> QED BY <2>1 DEF Merge
  <1>6. Merge(s, t) \in Sketches
    <2>1. DOMAIN s \cup DOMAIN t \in SUBSET Nat
      BY <1>1, <1>2
    <2> QED BY <1>5, <2>1 DEF Sketches
  <1>7. ASSUME NEW b \in Nat
        PROVE  Count(Merge(s, t), b) = Count(s, b) + Count(t, b)
    <2>1. CASE b \in DOMAIN s \cup DOMAIN t
      BY <1>4, <2>1 DEF Count
    <2>2. CASE b \notin DOMAIN s \cup DOMAIN t
      BY <1>4, <2>2 DEF Count
    <2> QED BY <2>1, <2>2
  <1> QED BY <1>1, <1>3, <1>4, <1>6, <1>7

\* A sketch that counts c[b] requests in bucket b, and has no other bucket.
Holds(sketch, c) ==
    /\ sketch \in Sketches
    /\ \A b \in Nat : Count(sketch, b) = c[b] /\ (b \in DOMAIN sketch <=> c[b] # 0)

\* encodeLatencySketch counts every bucket of the run, and has no empty one.
LEMMA EncodeHolds ==
    ASSUME NEW run \in Seq(Latencies)
    PROVE  Holds(Encode(run), [b \in Nat |-> CountAt(DOMAIN run, BucketsOf(run), b)])
  <1>. DEFINE c == [b \in Nat |-> CountAt(DOMAIN run, BucketsOf(run), b)]
  <1>1. \A b \in Nat : c[b] = Cardinality({i \in DOMAIN run : BucketsOf(run)[i] = b})
    BY DEF CountAt
  <1>2. ASSUME NEW b \in Nat
        PROVE  /\ c[b] \in Nat
               /\ c[b] # 0 <=> \E i \in DOMAIN run : Bucket[run[i]] = b
    <2>. DEFINE I == {i \in DOMAIN run : BucketsOf(run)[i] = b}
    <2>1. IsFiniteSet(I) /\ Cardinality(I) \in Nat
      BY PartOfRun
    <2>2. Cardinality(I) = 0 <=> I = {}
      BY <2>1, FS_EmptySet
    <2>3. I = {i \in DOMAIN run : Bucket[run[i]] = b}
      BY DEF BucketsOf
    <2>4. c[b] = Cardinality(I)
      BY <1>1
    <2>5. I # {} <=> \E i \in DOMAIN run : Bucket[run[i]] = b
      BY <2>3
    <2>. HIDE DEF I, c
    <2> QED BY <2>1, <2>2, <2>4, <2>5
  <1>3. \A b \in DOMAIN Encode(run) : b \in Nat /\ Encode(run)[b] = c[b]
    BY EncodeFacts
  <1>4. \A b \in Nat : b \in DOMAIN Encode(run) <=> \E i \in DOMAIN run : Bucket[run[i]] = b
    <2>1. DOMAIN Encode(run) = {Bucket[run[i]] : i \in DOMAIN run}
      BY EncodeFacts
    <2>. HIDE DEF c
    <2> QED BY <2>1
  <1>. HIDE DEF c
  <1>5. Encode(run) \in Sketches
    <2>1. Encode(run) = [b \in DOMAIN Encode(run) |-> Encode(run)[b]]
      BY DEF Encode
    <2>2. Encode(run) \in [DOMAIN Encode(run) -> Nat] /\ DOMAIN Encode(run) \in SUBSET Nat
      BY <1>2, <1>3, <2>1
    <2> QED BY <2>2 DEF Sketches
  <1>6. ASSUME NEW b \in Nat
        PROVE  Count(Encode(run), b) = c[b] /\ (b \in DOMAIN Encode(run) <=> c[b] # 0)
    BY <1>2, <1>3, <1>4 DEF Count
  <1> QED BY <1>5, <1>6 DEF Holds, c

\* Two sketches that hold the same are the same.
LEMMA HoldsIsUnique ==
    ASSUME NEW s, NEW t, NEW c, NEW d, Holds(s, c), Holds(t, d), \A b \in Nat : c[b] = d[b]
    PROVE  s = t
  <1>1. s = [b \in DOMAIN s |-> s[b]] /\ t = [b \in DOMAIN t |-> t[b]]
    BY SketchFacts DEF Holds
  <1>2. DOMAIN s = DOMAIN t
    <2>1. DOMAIN s \subseteq Nat /\ DOMAIN t \subseteq Nat
      BY SketchFacts DEF Holds
    <2> QED BY <2>1 DEF Holds
  <1>3. ASSUME NEW b \in DOMAIN s
        PROVE  s[b] = t[b]
    <2>1. b \in Nat
      BY SketchFacts DEF Holds
    <2> QED BY <1>2, <2>1 DEF Holds, Count
  <1> QED BY <1>1, <1>2, <1>3

\* combinedPercentiles merges the sketches one by one, in whatever order.
LEMMA MergedFolds ==
    ASSUME IInv, Mergeable
    PROVE  \E part : /\ Merged = part[Active]
                     /\ \A U \in SUBSET Active :
                           part[U] = IF U = {} THEN NoSketch
                                     ELSE Merge(part[U \ {Some(U)}], stored[Some(U)].sketch)
  <1>. DEFINE V == Sketches
              Step(iter, s) == IF s = {} THEN NoSketch
                               ELSE Merge(iter[s \ {Some(s)}], stored[Some(s)].sketch)
              part == CHOOSE iter : iter = [s \in SUBSET Active |-> Step(iter, s)]
  <1>1. Merged = part[Active]
    BY DEF Merged, FoldSet, MapThenFoldSet, Some
  <1>2. IsFiniteSet(Active) /\ \A j \in Active : stored[j].sketch \in V
    <2>1. IsFiniteSet(Active)
      BY FS_Subset, PercentilesAssumption DEF PercentilesAssumption, Active
    <2>2. ASSUME NEW j \in Active PROVE stored[j].sketch \in V
      <3>1. reported[j] \in Seq(Latencies)
        BY RunIsSeq DEF IInv, TypeOK, Active
      <3>2. stored[j].sketch = Encode(reported[j])
        BY DEF IInv, Active, Mergeable
      <3> QED BY <3>1, <3>2, EncodeHolds DEF Holds
    <2> QED BY <2>1, <2>2
  <1>3. \E iter : iter = [s \in SUBSET Active |-> Step(iter, s)]
    <2>. DEFINE step == [j \in Active |-> [sketch \in V |-> Merge(sketch, stored[j].sketch)]]
    <2>1. step \in [Active -> [V -> V]] /\ NoSketch \in V
      <3>1. ASSUME NEW j \in Active, NEW sketch \in V PROVE Merge(sketch, stored[j].sketch) \in V
        BY <1>2, SketchFacts
      <3>2. NoSketch \in [{} -> Nat]
        BY DEF NoSketch
      <3> QED BY <3>1, <3>2 DEF Sketches
    <2>2. PICK iter \in [SUBSET Active -> V] : IsFold(iter, Active, NoSketch, step)
      <3> HIDE DEF step, V
      <3> QED BY <1>2, <2>1, FoldExists
    <2>3. ASSUME NEW s \in SUBSET Active, s # {}
          PROVE  step[Some(s)][iter[s \ {Some(s)}]]
                   = Merge(iter[s \ {Some(s)}], stored[Some(s)].sketch)
      <3>1. Some(s) \in Active
        BY <2>3 DEF Some
      <3>2. s \ {Some(s)} \in SUBSET Active /\ iter[s \ {Some(s)}] \in V
        OBVIOUS
      <3> HIDE DEF V
      <3> QED BY <3>1, <3>2
    <2>4. \A s \in SUBSET Active : iter[s] = Step(iter, s)
      <3> HIDE DEF step
      <3> QED BY <2>2, <2>3 DEF IsFold
    <2>5. iter = [s \in SUBSET Active |-> Step(iter, s)]
      <3> HIDE DEF Step, step
      <3> QED BY <2>2, <2>4
    <2> HIDE DEF Step
    <2> QED BY <2>5
  <1>4. \A U \in SUBSET Active : part[U] = Step(part, U)
    <2>1. part = [s \in SUBSET Active |-> Step(part, s)]
      <3> HIDE DEF Step
      <3> QED BY <1>3
    <2> HIDE DEF Step, part
    <2> QED BY <2>1
  <1>. HIDE DEF part
  <1> QED BY <1>1, <1>4

\* The merged sketch counts in every bucket what the reports of all jobs have there.
LEMMA MergedCounts ==
    ASSUME IInv, Mergeable
    PROVE  Holds(Merged, [b \in Nat |-> RequestsIn(Active, b)])
  <1>1. PICK part : /\ Merged = part[Active]
                    /\ \A U \in SUBSET Active :
                          part[U] = IF U = {} THEN NoSketch
                                    ELSE Merge(part[U \ {Some(U)}], stored[Some(U)].sketch)
    BY MergedFolds
  <1>. DEFINE In(U) == [b \in Nat |-> RequestsIn(U, b)]
              G == {U \in SUBSET Active : Holds(part[U], In(U))}
  <1>2. {} \in G
    <2>1. part[{}] = NoSketch
      BY <1>1
    <2>2. NoSketch \in Sketches /\ DOMAIN NoSketch = {}
      <3>1. NoSketch \in [{} -> Nat]
        BY DEF NoSketch
      <3> QED BY <3>1 DEF Sketches
    <2>3. \A b \in Nat : RequestsIn({}, b) = 0
      <3>1. \A b \in Nat : {q \in InBucket(b) : JobOf[q] \in {}} = {}
        OBVIOUS
      <3> QED BY <3>1, FS_EmptySet DEF RequestsIn, CountIn
    <2>4. Holds(NoSketch, In({}))
      BY <2>2, <2>3 DEF Holds, Count
    <2> QED BY <2>1, <2>4
  <1>3. ASSUME NEW U \in SUBSET Active, U # {}, (U \ {Some(U)}) \in G
        PROVE  U \in G
    <2>. DEFINE j == Some(U)
                W == U \ {j}
                run == reported[j]
                c == [b \in Nat |-> CountAt(DOMAIN run, BucketsOf(run), b)]
    <2>1. j \in U /\ j \in Active /\ j \in Jobs /\ U \in SUBSET Jobs
      BY <1>3 DEF Some, Active
    <2>2. part[U] = Merge(part[W], stored[j].sketch)
      BY <1>1, <1>3
    <2>3. Holds(part[W], In(W))
      BY <1>3
    <2>. HIDE DEF j
    <2>4. run \in Seq(Latencies)
      BY <2>1, RunIsSeq DEF IInv, TypeOK
    <2>5. Holds(stored[j].sketch, c)
      <3>1. stored[j].sketch = Encode(run)
        BY <2>1 DEF IInv, Mergeable
      <3> QED BY <2>4, <3>1, EncodeHolds
    <2>6. ASSUME NEW b \in Nat
          PROVE  In(U)[b] = In(W)[b] + c[b] /\ In(W)[b] \in Nat /\ c[b] \in Nat
      BY <2>1, RequestsSplit
    <2>. HIDE DEF In, c, W
    <2>7. /\ part[U] \in Sketches
          /\ DOMAIN part[U] = DOMAIN part[W] \cup DOMAIN stored[j].sketch
          /\ \A b \in Nat : Count(part[U], b) = Count(part[W], b) + Count(stored[j].sketch, b)
      <3>1. part[W] \in Sketches /\ stored[j].sketch \in Sketches
        BY <2>3, <2>5 DEF Holds
      <3>. DEFINE m == Merge(part[W], stored[j].sketch)
      <3>2. /\ m \in Sketches
            /\ DOMAIN m = DOMAIN part[W] \cup DOMAIN stored[j].sketch
            /\ \A b \in Nat : Count(m, b) = Count(part[W], b) + Count(stored[j].sketch, b)
        BY <3>1, SketchFacts
      <3>. HIDE DEF m
      <3>3. part[U] = m
        BY <2>2 DEF m
      <3> QED BY <3>2, <3>3
    <2>8. ASSUME NEW b \in Nat
          PROVE  /\ Count(part[U], b) = In(U)[b]
                 /\ b \in DOMAIN part[U] <=> In(U)[b] # 0
      <3>1. /\ Count(part[W], b) = In(W)[b] /\ (b \in DOMAIN part[W] <=> In(W)[b] # 0)
            /\ Count(stored[j].sketch, b) = c[b] /\ (b \in DOMAIN stored[j].sketch <=> c[b] # 0)
        BY <2>3, <2>5 DEF Holds
      <3>2. In(U)[b] # 0 <=> In(W)[b] # 0 \/ c[b] # 0
        BY <2>6
      <3>3. b \in DOMAIN part[U] <=> In(U)[b] # 0
        BY <2>7, <3>1, <3>2
      <3>4. Count(part[U], b) = In(U)[b]
        BY <2>6, <2>7, <3>1
      <3> QED BY <3>3, <3>4
    <2>9. Holds(part[U], In(U))
      BY <2>7, <2>8 DEF Holds
    <2> QED BY <2>9
  <1>4. Active \in G
    <2>1. IsFiniteSet(Active)
      BY FS_Subset, PercentilesAssumption DEF PercentilesAssumption, Active
    <2> HIDE DEF G
    <2> QED BY <1>2, <1>3, <2>1, FoldInduction
  <1> QED BY <1>1, <1>4

\* Merging the sketches of the sub-jobs, in any order, gives the sketch that one worker
\* would have sent that had made all requests of the test (teststore.go:346-373).
THEOREM MergedIsEncode ==
    ASSUME IInv, Mergeable
    PROVE  Merged = Encode(AllRequests)
  <1>1. AllRequests \in Seq(Latencies)
    BY AllRequestsCounts
  <1>. DEFINE c == [b \in Nat |-> RequestsIn(Active, b)]
              d == [b \in Nat |-> CountAt(DOMAIN AllRequests, BucketsOf(AllRequests), b)]
  <1>2. Holds(Merged, c) /\ Holds(Encode(AllRequests), d)
    BY <1>1, MergedCounts, EncodeHolds
  <1>3. ASSUME NEW b \in Nat
        PROVE  c[b] = d[b]
    <2>1. {q \in InBucket(b) : JobOf[q] \in Active} = {q \in InBucket(b) : JobOf[q] \in Jobs}
      <3>1. ASSUME NEW q \in InBucket(b) PROVE JobOf[q] \in Jobs /\ JobOf[q] \in Active
        <4>1. q[1] \in Jobs /\ q[2] \in DOMAIN reported[q[1]] /\ JobOf[q] = q[1]
          BY DEF InBucket, JobOf
        <4>2. reported[q[1]] \in Seq(Latencies)
          BY <4>1, RunIsSeq DEF IInv, TypeOK
        <4>3. Len(reported[q[1]]) # 0
          BY <4>1, <4>2, RunFacts
        <4> QED BY <4>1, <4>3 DEF Active, IInv
      <3> QED BY <3>1
    <2>2. RequestsIn(Active, b) = RequestsIn(Jobs, b)
      BY <2>1 DEF RequestsIn, CountIn
    <2>3. CountAt(DOMAIN AllRequests, BucketsOf(AllRequests), b) = RequestsIn(Jobs, b)
      BY AllRequestsCounts
    <2> QED BY <2>2, <2>3
  <1>. HIDE DEF c, d
  <1> QED BY <1>2, <1>3, HoldsIsUnique

-----------------------------------------------------------------------------
(* Every step keeps what the store holds. *)

\* A run that has just begun is a run.
LEMMA EmptyRun == <<>> \in Runs /\ Len(<<>>) = 0
  <1>1. <<>> \in [1 .. 0 -> Latencies]
    OBVIOUS
  <1>2. 0 \in 0 .. MaxSamples
    BY PercentilesAssumption DEF PercentilesAssumption
  <1> QED BY <1>1, <1>2 DEF Runs

\* What the store keeps of a report: its number of requests, and the sketch if it came
\* through (teststore.go:163-187).
LEMMA DecodedFacts ==
    ASSUME NEW run \in Seq(Latencies), NEW good \in BOOLEAN
    PROVE  /\ Decoded(run, good).requests = Len(run)
           /\ Decoded(run, good).decoded = good
           /\ DOMAIN Decoded(run, good).sketch \subseteq Buckets
           /\ good => /\ Decoded(run, good).sketch = Encode(run)
                      /\ Total(Decoded(run, good).sketch) = Len(run)
  <1>1. /\ Decoded(run, good).requests = Len(run)
        /\ Decoded(run, good).decoded = good
        /\ Decoded(run, good).sketch = IF good THEN Encode(run) ELSE NoSketch
    BY DEF Decoded
  <1>2. CASE good
    BY <1>1, <1>2, EncodeFacts, TotalIsLength
  <1>3. CASE ~good
    BY <1>1, <1>3 DEF NoSketch
  <1> QED BY <1>2, <1>3, <1>1

\* Before any report the store holds none.
LEMMA InitIInv == Init => IInv
  <1> SUFFICES ASSUME Init PROVE IInv
    OBVIOUS
  <1>1. \A j \in Jobs : stored[j] = Unreported /\ reported[j] = <<>> /\ samples[j] = <<>>
    BY DEF Init
  <1>2. samples \in [Jobs -> Runs] /\ reported \in [Jobs -> Runs]
    BY EmptyRun DEF Init
  <1>3. 0 \in 0 .. MaxSamples /\ DOMAIN stored = Jobs
    BY PercentilesAssumption DEF PercentilesAssumption, Init
  <1>4. /\ Unreported.requests = 0 /\ Unreported.decoded = FALSE
        /\ DOMAIN Unreported.sketch = {}
    BY DEF Unreported, NoSketch
  <1> QED BY <1>1, <1>2, <1>3, <1>4, EmptyRun DEF IInv, TypeOK

\* Requests, runs that start over and reports, with or without a sketch, preserve what
\* the store holds.
LEMMA IInvPreserved == IInv /\ [Next]_vars => IInv'
  <1> SUFFICES ASSUME IInv, [Next]_vars PROVE IInv'
    OBVIOUS
  <1>0. TypeOK
    BY DEF IInv
  <1>1. ASSUME NEW j \in Jobs, NEW l \in Latencies, RecordResult(j, l)
        PROVE  IInv'
    <2>. DEFINE run == samples[j]
                more == Append(run, l)
    <2>1. run \in Seq(Latencies) /\ Len(run) \in Nat /\ Len(run) < MaxSamples
      BY <1>0, <1>1, RunIsSeq, PercentilesAssumption
      DEF TypeOK, RecordResult, PercentilesAssumption
    <2>2. more \in Seq(Latencies) /\ Len(more) = Len(run) + 1
      BY <2>1
    <2>3. more \in Runs
      <3>1. Len(more) \in 0 .. MaxSamples
        BY <2>1, <2>2, PercentilesAssumption DEF PercentilesAssumption
      <3>2. more \in [1 .. Len(more) -> Latencies]
        <4>. HIDE DEF more
        <4> QED BY <2>2, RunFacts
      <3>. HIDE DEF more
      <3> QED BY <3>1, <3>2 DEF Runs
    <2>4. samples' \in [Jobs -> Runs]
      BY <1>0, <1>1, <2>3 DEF TypeOK, RecordResult
    <2>5. stored' = stored /\ reported' = reported
      BY <1>1 DEF RecordResult
    <2> QED BY <2>4, <2>5 DEF IInv, TypeOK
  <1>2. ASSUME NEW j \in Jobs, Rerun(j)
        PROVE  IInv'
    <2>1. samples' \in [Jobs -> Runs]
      BY <1>0, <1>2, EmptyRun DEF TypeOK, Rerun
    <2>2. stored' = stored /\ reported' = reported
      BY <1>2 DEF Rerun
    <2> QED BY <2>1, <2>2 DEF IInv, TypeOK
  <1>3. ASSUME NEW j \in Jobs, NEW good \in BOOLEAN, Update(j, good)
        PROVE  IInv'
    <2>. DEFINE run == samples[j]
    <2>1. run \in Runs /\ run \in Seq(Latencies) /\ Len(run) \in 0 .. MaxSamples
      BY <1>0, RunIsSeq DEF TypeOK
    <2>2. samples' \in [Jobs -> Runs] /\ reported' \in [Jobs -> Runs] /\ DOMAIN stored' = Jobs
      BY <1>0, <1>3, <2>1 DEF TypeOK, Update
    <2>3. reported'[j] = run /\ \A k \in Jobs : k # j => reported'[k] = reported[k]
      BY <1>0, <1>3 DEF TypeOK, Update
    <2>4. stored'[j] = Decoded(run, good) /\ \A k \in Jobs : k # j => stored'[k] = stored[k]
      BY <1>0, <1>3 DEF TypeOK, Update
    <2>5. ASSUME NEW k \in Jobs
          PROVE  /\ stored'[k].requests \in 0 .. MaxSamples
                 /\ stored'[k].decoded \in BOOLEAN
                 /\ DOMAIN stored'[k].sketch \subseteq Buckets
                 /\ stored'[k].decoded => Total(stored'[k].sketch) = stored'[k].requests
                 /\ stored'[k].requests = Len(reported'[k])
                 /\ stored'[k].decoded => stored'[k].sketch = Encode(reported'[k])
      <3>1. CASE k = j
        BY <2>1, <2>3, <2>4, <3>1, DecodedFacts
      <3>2. CASE k # j
        BY <1>0, <2>3, <2>4, <3>2 DEF TypeOK, IInv
      <3> QED BY <3>1, <3>2
    <2>6. TypeOK'
      BY <2>2, <2>5 DEF TypeOK
    <2> QED BY <2>5, <2>6 DEF IInv
  <1>4. CASE UNCHANGED vars
    BY <1>4 DEF vars, IInv, TypeOK
  <1> QED BY <1>1, <1>2, <1>3, <1>4 DEF Next

\* Wherever the store holds the sketches of the reports, the test-wide percentile is
\* true.
LEMMA IInvCombinedIsTrue == IInv => CombinedIsTrue
  <1> SUFFICES ASSUME IInv PROVE CombinedIsTrue
    OBVIOUS
  <1>1. AllRequests \in Seq(Latencies)
    BY AllRequestsCounts
  <1>2. Mergeable <=> \A j \in Jobs : reported[j] # <<>> => stored[j].decoded
    <2>1. ASSUME NEW j \in Jobs
          PROVE  j \in Active <=> reported[j] # <<>>
      <3>1. reported[j] \in Seq(Latencies) /\ stored[j].requests = Len(reported[j])
        BY RunIsSeq DEF IInv, TypeOK
      <3>2. Len(reported[j]) # 0 <=> reported[j] # <<>>
        BY <3>1, EmptySeq
      <3> QED BY <3>1, <3>2 DEF Active
    <2>2. Active \subseteq Jobs
      BY DEF Active
    <2> QED BY <2>1, <2>2 DEF Mergeable
  <1>3. ASSUME Mergeable
        PROVE  /\ Merged = Encode(AllRequests)
               /\ Total(Merged) # 0 <=> AllRequests # <<>>
    <2>1. Merged = Encode(AllRequests)
      BY <1>3, MergedIsEncode
    <2>2. Total(Merged) = Len(AllRequests)
      BY <1>1, <2>1, TotalIsLength
    <2>3. Len(AllRequests) # 0 <=> AllRequests # <<>>
      BY <1>1, EmptySeq
    <2> QED BY <2>1, <2>2, <2>3
  <1>4. Answered <=> /\ AllRequests # <<>>
                     /\ \A j \in Jobs : reported[j] # <<>> => stored[j].decoded
    BY <1>2, <1>3 DEF Answered
  <1>5. ASSUME Answered, NEW p \in Percents
        PROVE  Combined(p) = Bucket[Exact(p, AllRequests)]
    <2>1. Merged = Encode(AllRequests) /\ AllRequests # <<>>
      BY <1>3, <1>5 DEF Answered
    <2>2. p \in 0 .. 100
      BY DEF Percents
    <2> QED BY <1>1, <2>1, <2>2, QuantileOfEncode DEF Combined
  <1> QED BY <1>4, <1>5 DEF CombinedIsTrue

\* Every variable keeps its type, and a sketch that came through holds every request of
\* its report.
THEOREM SpecTypeOK == Spec => []TypeOK
  <1>1. IInv => TypeOK
    BY DEF IInv
  <1> QED BY <1>1, InitIInv, IInvPreserved, PTL DEF Spec

\* The test-wide percentile is there exactly when no sketch is missing, and it falls in
\* the bucket of the true one (teststore.go:346-373).
THEOREM SpecCombinedIsTrue == Spec => []CombinedIsTrue
  BY InitIInv, IInvPreserved, IInvCombinedIsTrue, PTL DEF Spec
=============================================================================
