------------------------- MODULE FoldTheorems_proofs -------------------------
(***************************************************************************)
(* Facts about folds over a finite set: the sum of a function,             *)
(* SumFunctionOnSet of the community modules, which the books of the       *)
(* contracts are stated with, and the listing of a set, which the batches  *)
(* of the processor are made by.                                           *)
(*                                                                         *)
(* A fold is a recursive function behind CHOOSE.  The induction            *)
(* theorems of the library take the predicate as an operator, which the    *)
(* provers cannot instantiate, so induction is stated here over a set: a   *)
(* set that contains {} and is closed under adding the chosen element      *)
(* contains every subset of a finite set, and likewise for the naturals.   *)
(* Both follow from the well-foundedness of strict inclusion.              *)
(***************************************************************************)
EXTENDS Integers, Sequences, FiniteSets, Functions, FiniteSetTheorems,
        WellFoundedInduction, TLAPS

(***************************************************************************)
(* Induction.                                                              *)
(***************************************************************************)

\* A family of subsets of a finite set has a minimal member.
LEMMA MinimalSubset ==
    ASSUME NEW S, IsFiniteSet(S), NEW F, F \subseteq SUBSET S, F # {}
    PROVE  \E T \in F : \A U \in F : ~(U \subseteq T /\ U # T)
<1>1. IsWellFoundedOn(StrictSubsetOrdering(S), SUBSET S)
  BY FS_StrictSubsetOrderingWellFounded, FS_FiniteSubsetsOfFinite
<1>2. \E T \in F : \A U \in F : <<U, T>> \notin StrictSubsetOrdering(S)
  BY <1>1, WFMin
<1>3. QED
  BY <1>2 DEF StrictSubsetOrdering

\* The element a fold takes out of a set first.
Chosen(s) == CHOOSE x \in s : TRUE

\* Induction over the subsets of a finite set, one element at a time.
LEMMA SubsetInduction ==
    ASSUME NEW S, IsFiniteSet(S), NEW G,
           {} \in G,
           \A T \in SUBSET S : T # {} /\ T \ {Chosen(T)} \in G => T \in G
    PROVE  SUBSET S \subseteq G
<1> DEFINE F == (SUBSET S) \ G
<1>1. SUFFICES ASSUME F # {} PROVE FALSE
  OBVIOUS
<1>2. PICK T \in F : \A U \in F : ~(U \subseteq T /\ U # T)
  <2>1. F \subseteq SUBSET S
    OBVIOUS
  <2> HIDE DEF F
  <2> QED BY <1>1, <2>1, MinimalSubset
<1>3. T # {} /\ T \in SUBSET S
  BY <1>2
<1>4. Chosen(T) \in T
  BY <1>3 DEF Chosen
<1>5. T \ {Chosen(T)} \in G
  BY <1>2, <1>3, <1>4
<1>6. QED
  BY <1>2, <1>3, <1>5

\* Induction over the naturals.
LEMMA NatSetInduction ==
    ASSUME NEW G, 0 \in G, \A n \in Nat : n \in G => n + 1 \in G
    PROVE  Nat \subseteq G
<1>1. SUFFICES ASSUME NEW m \in Nat, m \notin G PROVE FALSE
  OBVIOUS
<1> DEFINE F == {0..k : k \in {j \in 0..m : j \notin G}}
       I == 0..m
<1>2. F \subseteq SUBSET I /\ F # {}
  <2>1. m \in {j \in 0..m : j \notin G}
    BY <1>1
  <2>2. ASSUME NEW k \in 0..m PROVE 0..k \subseteq 0..m
    OBVIOUS
  <2> QED BY <2>1, <2>2
<1>3. PICK T \in F : \A U \in F : ~(U \subseteq T /\ U # T)
  <2>1. IsFiniteSet(I)
    BY FS_Interval
  <2> HIDE DEF F, I
  <2> QED BY <1>2, <2>1, MinimalSubset
<1>4. PICK n \in 0..m : n \notin G /\ T = 0..n
  BY <1>3
<1>5. n # 0 /\ n - 1 \in Nat
  BY <1>4
<1>6. n - 1 \notin G
  BY <1>4, <1>5
<1>7. 0..(n - 1) \in F
  BY <1>4, <1>5, <1>6
<1>8. 0..(n - 1) \subseteq 0..n /\ 0..(n - 1) # 0..n
  BY <1>4, <1>5
<1>9. QED
  BY <1>3, <1>4, <1>7, <1>8

\* A set of naturals has a least one.
LEMMA LeastNatural ==
    ASSUME NEW T, T \subseteq Nat, T # {}
    PROVE  \E n \in T : \A k \in T : n <= k
<1> DEFINE G == {n \in Nat : \A k \in 0..n : k \notin T}
<1>1. SUFFICES ASSUME \A n \in T : \E k \in T : k < n
               PROVE  FALSE
  OBVIOUS
<1>2. 0 \in G
  BY <1>1
<1>3. ASSUME NEW n \in Nat, n \in G
      PROVE  n + 1 \in G
  <2>1. n + 1 \notin T
    <3>1. SUFFICES ASSUME n + 1 \in T PROVE FALSE
      OBVIOUS
    <3>2. PICK k \in T : k < n + 1
      BY <1>1, <3>1
    <3> QED BY <1>3, <3>2
  <2> QED BY <1>3, <2>1
<1>4. Nat \subseteq G
  <2> HIDE DEF G
  <2> QED BY <1>2, <1>3, NatSetInduction
<1>5. PICK n \in T : TRUE
  OBVIOUS
<1> QED BY <1>4, <1>5

(***************************************************************************)
(* Recursion over the subsets of a finite set.                             *)
(***************************************************************************)
Step(it, base, step, s) ==
    IF s = {} THEN base ELSE step[<<Chosen(s), it[s \ {Chosen(s)}]>>]

Run(it, base, step, S) == it = [s \in SUBSET S |-> Step(it, base, step, s)]

\* What a step of the recursion needs to know of a subset.
LEMMA SubsetFacts ==
    ASSUME NEW S, IsFiniteSet(S), NEW s \in SUBSET S
    PROVE  /\ IsFiniteSet(s) /\ Cardinality(s) \in Nat
           /\ Cardinality(s) <= Cardinality(S)
           /\ Cardinality(s) = 0 <=> s = {}
           /\ s # {} => /\ Chosen(s) \in s
                        /\ s \ {Chosen(s)} \in SUBSET S
                        /\ Cardinality(s \ {Chosen(s)}) = Cardinality(s) - 1
<1>1. IsFiniteSet(s) /\ Cardinality(s) <= Cardinality(S)
  BY FS_Subset
<1>2. s # {} => Chosen(s) \in s
  BY DEF Chosen
<1>3. Cardinality(s) \in Nat /\ (Cardinality(s) = 0 <=> s = {})
  BY <1>1, FS_CardinalityType, FS_EmptySet
<1>4. s # {} => Cardinality(s \ {Chosen(s)}) = Cardinality(s) - 1
  BY <1>1, <1>2, FS_RemoveElement
<1> QED
  BY <1>1, <1>2, <1>3, <1>4

\* it obeys the recursion on the subsets of at most n elements.
StepsUpTo(it, base, step, S, n) ==
    \A s \in SUBSET S : Cardinality(s) <= n => it[s] = Step(it, base, step, s)

\* Such a recursion defines a function: its values are built up by cardinality.
LEMMA RunExists ==
    ASSUME NEW S, IsFiniteSet(S), NEW V, NEW base \in V,
           NEW step \in [S \X V -> V]
    PROVE  \E it \in [SUBSET S -> V] : Run(it, base, step, S)
<1> DEFINE G == {n \in Nat : \E it \in [SUBSET S -> V] :
                               StepsUpTo(it, base, step, S, n)}
<1>1. 0 \in G
  <2>1. [s \in SUBSET S |-> base] \in [SUBSET S -> V]
    OBVIOUS
  <2>2. ASSUME NEW s \in SUBSET S, Cardinality(s) <= 0 PROVE s = {}
    <3>1. Cardinality(s) \in Nat /\ (Cardinality(s) = 0 <=> s = {})
      BY SubsetFacts
    <3> QED BY <2>2, <3>1
  <2>3. StepsUpTo([s \in SUBSET S |-> base], base, step, S, 0)
    BY <2>2 DEF StepsUpTo, Step
  <2> QED BY <2>1, <2>3
<1>2. ASSUME NEW n \in Nat, n \in G PROVE n + 1 \in G
  <2>1. PICK it \in [SUBSET S -> V] : StepsUpTo(it, base, step, S, n)
    BY <1>2
  <2> DEFINE next == [s \in SUBSET S |-> Step(it, base, step, s)]
  <2>2. ASSUME NEW s \in SUBSET S PROVE Step(it, base, step, s) \in V
    <3>1. s # {} => Chosen(s) \in S /\ s \ {Chosen(s)} \in SUBSET S
      BY SubsetFacts
    <3>2. s # {} => <<Chosen(s), it[s \ {Chosen(s)}]>> \in S \X V
      BY <3>1
    <3> QED BY <3>2 DEF Step
  <2>3. next \in [SUBSET S -> V]
    BY <2>2
  <2>4. ASSUME NEW s \in SUBSET S, Cardinality(s) <= n + 1
        PROVE  next[s] = Step(next, base, step, s)
    <3>1. CASE s = {}
      BY <3>1 DEF Step
    <3>2. CASE s # {}
      <4>1. s \ {Chosen(s)} \in SUBSET S /\ Cardinality(s \ {Chosen(s)}) <= n
        BY <3>2, <2>4, SubsetFacts
      <4>2. it[s \ {Chosen(s)}] = Step(it, base, step, s \ {Chosen(s)})
        BY <4>1, <2>1 DEF StepsUpTo
      <4>3. next[s \ {Chosen(s)}] = it[s \ {Chosen(s)}]
        BY <4>1, <4>2
      <4> QED BY <3>2, <4>3 DEF Step
    <3> QED BY <3>1, <3>2
  <2>5. StepsUpTo(next, base, step, S, n + 1)
    BY <2>4 DEF StepsUpTo
  <2> QED BY <2>3, <2>5
<1>3. Nat \subseteq G
  <2> HIDE DEF G
  <2> QED BY <1>1, <1>2, NatSetInduction
<1>4. IsFiniteSet(S) /\ Cardinality(S) \in Nat
  BY FS_CardinalityType
<1>5. PICK it \in [SUBSET S -> V] :
             StepsUpTo(it, base, step, S, Cardinality(S))
  BY <1>3, <1>4
<1>6. ASSUME NEW s \in SUBSET S PROVE it[s] = Step(it, base, step, s)
  BY <1>5, SubsetFacts DEF StepsUpTo
<1>7. Run(it, base, step, S)
  BY <1>6 DEF Run
<1> QED BY <1>7

(***************************************************************************)
(* The recursion behind the sum.                                           *)
(***************************************************************************)
SumStep(it, f, s) == IF s = {} THEN 0 ELSE f[Chosen(s)] + it[s \ {Chosen(s)}]
SumRun(it, f, S) == it = [s \in SUBSET S |-> SumStep(it, f, s)]

\* The sum is the value of the chosen recursive function at the whole set.
LEMMA SumUnfold ==
    ASSUME NEW S, NEW f
    PROVE  SumFunctionOnSet(f, S) = (CHOOSE it : SumRun(it, f, S))[S]
  BY Zenon DEF SumFunctionOnSet, FoldFunctionOnSet, MapThenFoldSet, SumRun, Chosen, SumStep

\* The recursion of the sum defines a function.
LEMMA SumRunExists ==
    ASSUME NEW S, IsFiniteSet(S), NEW f \in [S -> Int]
    PROVE  \E it \in [SUBSET S -> Int] : SumRun(it, f, S)
<1> DEFINE add == [p \in S \X Int |-> f[p[1]] + p[2]]
<1>1. add \in [S \X Int -> Int]
  OBVIOUS
<1>2. PICK it \in [SUBSET S -> Int] : Run(it, 0, add, S)
  <2>1. 0 \in Int
    OBVIOUS
  <2> HIDE DEF add
  <2> QED BY <1>1, <2>1, RunExists
<1>3. ASSUME NEW s \in SUBSET S PROVE Step(it, 0, add, s) = SumStep(it, f, s)
  <2>1. s # {} => Chosen(s) \in S /\ s \ {Chosen(s)} \in SUBSET S
    BY SubsetFacts
  <2>2. s # {} => <<Chosen(s), it[s \ {Chosen(s)}]>> \in S \X Int
    BY <1>2, <2>1
  <2> QED BY <2>2 DEF Step, SumStep
<1>4. SumRun(it, f, S)
  <2> HIDE DEF add
  <2> QED BY <1>2, <1>3 DEF Run, SumRun
<1> QED BY <1>4

\* it holds the sum of f over every subset of S.
Sums(it, f, S) ==
    /\ it \in [SUBSET S -> Int]
    /\ SumFunctionOnSet(f, S) = it[S]
    /\ \A s \in SUBSET S : it[s] = SumStep(it, f, s)

\* The sum is computed by a function that obeys the recursion everywhere.
LEMMA SumRunOfSum ==
    ASSUME NEW S, IsFiniteSet(S), NEW f \in [S -> Int]
    PROVE  \E it : Sums(it, f, S)
<1> DEFINE run == CHOOSE it : SumRun(it, f, S)
<1>1. SumRun(run, f, S)
  BY SumRunExists
<1>2. SumFunctionOnSet(f, S) = run[S]
  BY SumUnfold
<1> HIDE DEF run
<1>3. \A s \in SUBSET S : run[s] = SumStep(run, f, s)
  BY <1>1 DEF SumRun
<1> DEFINE G == {s \in SUBSET S : run[s] \in Int}
<1>4. {} \in G
  <2>1. run[{}] = SumStep(run, f, {})
    BY <1>3
  <2> QED BY <2>1 DEF SumStep
<1>5. ASSUME NEW s \in SUBSET S, s # {}, s \ {Chosen(s)} \in G
      PROVE  s \in G
  <2>1. Chosen(s) \in S
    BY <1>5, SubsetFacts
  <2>2. run[s] = f[Chosen(s)] + run[s \ {Chosen(s)}]
    BY <1>3, <1>5 DEF SumStep
  <2> QED BY <1>5, <2>1, <2>2
<1>6. SUBSET S \subseteq G
  <2> HIDE DEF G
  <2> QED BY <1>4, <1>5, SubsetInduction
<1>7. run \in [SUBSET S -> Int]
  <2>1. run = [s \in SUBSET S |-> SumStep(run, f, s)]
    BY <1>1 DEF SumRun
  <2>2. \A s \in SUBSET S : SumStep(run, f, s) \in Int
    BY <1>3, <1>6
  <2> QED BY <2>1, <2>2
<1> QED BY <1>2, <1>3, <1>7 DEF Sums

(***************************************************************************)
(* Sums.                                                                   *)
(***************************************************************************)

\* A sum of integers is an integer.
LEMMA SumInt ==
    ASSUME NEW S, IsFiniteSet(S), NEW f \in [S -> Int]
    PROVE  SumFunctionOnSet(f, S) \in Int
<1>1. PICK fs : Sums(fs, f, S)
  BY SumRunOfSum
<1>2. S \in SUBSET S
  OBVIOUS
<1> QED BY <1>1, <1>2 DEF Sums

\* Changing one term changes the sum by the difference.
LEMMA SumOneTerm ==
    ASSUME NEW S, IsFiniteSet(S), NEW f \in [S -> Int], NEW g \in [S -> Int],
           NEW x \in S, \A y \in S \ {x} : g[y] = f[y]
    PROVE  SumFunctionOnSet(g, S) = SumFunctionOnSet(f, S) + g[x] - f[x]
<1>1. PICK fs : Sums(fs, f, S)
  BY SumRunOfSum
<1>2. PICK gs : Sums(gs, g, S)
  BY SumRunOfSum
<1> DEFINE G == {s \in SUBSET S :
                   gs[s] = fs[s] + (IF x \in s THEN g[x] - f[x] ELSE 0)}
<1>3. {} \in G
  <2>1. fs[{}] = SumStep(fs, f, {}) /\ gs[{}] = SumStep(gs, g, {})
    BY <1>1, <1>2 DEF Sums
  <2> QED BY <2>1 DEF SumStep
<1>4. ASSUME NEW s \in SUBSET S, s # {}, s \ {Chosen(s)} \in G
      PROVE  s \in G
  <2>0. fs \in [SUBSET S -> Int] /\ gs \in [SUBSET S -> Int]
    BY <1>1, <1>2 DEF Sums
  <2>1. Chosen(s) \in s
    BY <1>4, SubsetFacts
  <2>2. fs[s] = f[Chosen(s)] + fs[s \ {Chosen(s)}]
    BY <1>1, <1>4 DEF SumStep, Sums
  <2>3. gs[s] = g[Chosen(s)] + gs[s \ {Chosen(s)}]
    BY <1>2, <1>4 DEF SumStep, Sums
  <2>4. CASE Chosen(s) = x
    BY <1>4, <2>0, <2>1, <2>2, <2>3, <2>4
  <2>5. CASE Chosen(s) # x
    BY <1>4, <2>0, <2>1, <2>2, <2>3, <2>5
  <2> QED BY <2>4, <2>5
<1>5. SUBSET S \subseteq G
  <2> HIDE DEF G
  <2> QED BY <1>3, <1>4, SubsetInduction
<1> QED BY <1>1, <1>2, <1>5 DEF Sums

\* A sum whose terms are bounded by those of another is bounded by it, and
\* two such sums are equal only when all terms are.
LEMMA SumLeq ==
    ASSUME NEW S, IsFiniteSet(S), NEW f \in [S -> Int], NEW g \in [S -> Int],
           \A y \in S : f[y] <= g[y]
    PROVE  /\ SumFunctionOnSet(f, S) <= SumFunctionOnSet(g, S)
           /\ SumFunctionOnSet(f, S) = SumFunctionOnSet(g, S)
                => \A y \in S : f[y] = g[y]
<1>1. PICK fs : Sums(fs, f, S)
  BY SumRunOfSum
<1>2. PICK gs : Sums(gs, g, S)
  BY SumRunOfSum
<1> DEFINE G == {s \in SUBSET S :
                   /\ fs[s] <= gs[s]
                   /\ fs[s] = gs[s] => \A y \in s : f[y] = g[y]}
<1>3. {} \in G
  <2>1. fs[{}] = SumStep(fs, f, {}) /\ gs[{}] = SumStep(gs, g, {})
    BY <1>1, <1>2 DEF Sums
  <2> QED BY <2>1 DEF SumStep
<1>4. ASSUME NEW s \in SUBSET S, s # {}, s \ {Chosen(s)} \in G
      PROVE  s \in G
  <2>0. fs \in [SUBSET S -> Int] /\ gs \in [SUBSET S -> Int]
    BY <1>1, <1>2 DEF Sums
  <2>1. Chosen(s) \in s /\ s \ {Chosen(s)} \in SUBSET S
    BY <1>4, SubsetFacts
  <2>2. fs[s] = f[Chosen(s)] + fs[s \ {Chosen(s)}]
    BY <1>1, <1>4 DEF SumStep, Sums
  <2>3. gs[s] = g[Chosen(s)] + gs[s \ {Chosen(s)}]
    BY <1>2, <1>4 DEF SumStep, Sums
  <2>4. /\ f[Chosen(s)] \in Int /\ g[Chosen(s)] \in Int /\ f[Chosen(s)] <= g[Chosen(s)]
        /\ fs[s \ {Chosen(s)}] \in Int /\ gs[s \ {Chosen(s)}] \in Int
    BY <2>0, <2>1
  <2>5. fs[s] <= gs[s]
    BY <1>4, <2>2, <2>3, <2>4
  <2>6. ASSUME fs[s] = gs[s] PROVE \A y \in s : f[y] = g[y]
    <3>1. f[Chosen(s)] = g[Chosen(s)] /\ fs[s \ {Chosen(s)}] = gs[s \ {Chosen(s)}]
      BY <1>4, <2>2, <2>3, <2>4, <2>6
    <3> QED BY <1>4, <3>1
  <2> QED BY <2>5, <2>6
<1>5. SUBSET S \subseteq G
  <2> HIDE DEF G
  <2> QED BY <1>3, <1>4, SubsetInduction
<1> QED BY <1>1, <1>2, <1>5 DEF Sums

\* A sum of zeros is zero.
LEMMA SumZero ==
    ASSUME NEW S, IsFiniteSet(S), NEW f \in [S -> Int], \A y \in S : f[y] = 0
    PROVE  SumFunctionOnSet(f, S) = 0
<1>1. PICK fs : Sums(fs, f, S)
  BY SumRunOfSum
<1> DEFINE G == {s \in SUBSET S : fs[s] = 0}
<1>2. {} \in G
  BY <1>1 DEF SumStep, Sums
<1>3. ASSUME NEW s \in SUBSET S, s # {}, s \ {Chosen(s)} \in G
      PROVE  s \in G
  <2>1. Chosen(s) \in S
    BY <1>3, SubsetFacts
  <2> QED BY <1>1, <1>3, <2>1 DEF SumStep, Sums
<1>4. SUBSET S \subseteq G
  <2> HIDE DEF G
  <2> QED BY <1>2, <1>3, SubsetInduction
<1> QED BY <1>1, <1>4 DEF Sums

\* A sum of sums is the sum of the terms added one by one.
LEMMA SumPlus ==
    ASSUME NEW S, IsFiniteSet(S), NEW f \in [S -> Int], NEW g \in [S -> Int],
           NEW h \in [S -> Int], \A y \in S : h[y] = f[y] + g[y]
    PROVE  SumFunctionOnSet(h, S)
              = SumFunctionOnSet(f, S) + SumFunctionOnSet(g, S)
<1>1. PICK fs : Sums(fs, f, S)
  BY SumRunOfSum
<1>2. PICK gs : Sums(gs, g, S)
  BY SumRunOfSum
<1>3. PICK hs : Sums(hs, h, S)
  BY SumRunOfSum
<1> DEFINE G == {s \in SUBSET S : hs[s] = fs[s] + gs[s]}
<1>4. {} \in G
  <2>1. /\ fs[{}] = SumStep(fs, f, {}) /\ gs[{}] = SumStep(gs, g, {})
        /\ hs[{}] = SumStep(hs, h, {})
    BY <1>1, <1>2, <1>3 DEF Sums
  <2> QED BY <2>1 DEF SumStep
<1>5. ASSUME NEW s \in SUBSET S, s # {}, s \ {Chosen(s)} \in G
      PROVE  s \in G
  <2>1. Chosen(s) \in S /\ s \ {Chosen(s)} \in SUBSET S
    BY <1>5, SubsetFacts
  <2>2. /\ fs[s] = f[Chosen(s)] + fs[s \ {Chosen(s)}]
        /\ gs[s] = g[Chosen(s)] + gs[s \ {Chosen(s)}]
        /\ hs[s] = h[Chosen(s)] + hs[s \ {Chosen(s)}]
    BY <1>1, <1>2, <1>3, <1>5 DEF SumStep, Sums
  <2>3. /\ fs[s \ {Chosen(s)}] \in Int /\ gs[s \ {Chosen(s)}] \in Int
        /\ f[Chosen(s)] \in Int /\ g[Chosen(s)] \in Int
    BY <1>1, <1>2, <2>1 DEF Sums
  <2> QED BY <1>5, <2>1, <2>2, <2>3
<1>6. SUBSET S \subseteq G
  <2> HIDE DEF G
  <2> QED BY <1>4, <1>5, SubsetInduction
<1> QED BY <1>1, <1>2, <1>3, <1>6 DEF Sums

\* A sum of ones counts.
LEMMA SumCount ==
    ASSUME NEW S, IsFiniteSet(S), NEW T \in SUBSET S, NEW f \in [S -> Int],
           \A y \in S : f[y] = IF y \in T THEN 1 ELSE 0
    PROVE  SumFunctionOnSet(f, S) = Cardinality(T)
<1>1. PICK fs : Sums(fs, f, S)
  BY SumRunOfSum
<1> DEFINE G == {s \in SUBSET S : fs[s] = Cardinality(s \cap T)}
<1>2. {} \in G
  <2>1. fs[{}] = 0
    BY <1>1 DEF SumStep, Sums
  <2> QED BY <2>1, FS_EmptySet
<1>3. ASSUME NEW s \in SUBSET S, s # {}, s \ {Chosen(s)} \in G
      PROVE  s \in G
  <2> DEFINE x == Chosen(s)
             rest == (s \ {x}) \cap T
  <2>1. x \in s /\ x \in S
    BY <1>3, SubsetFacts
  <2>2. fs[s] = f[x] + Cardinality(rest)
    BY <1>1, <1>3 DEF SumStep, Sums
  <2>3. IsFiniteSet(rest) /\ Cardinality(rest) \in Nat
    <3>1. rest \in SUBSET S
      BY <1>3
    <3> QED BY <3>1, FS_Subset, FS_CardinalityType
  <2>4. CASE x \in T
    <3>1. s \cap T = rest \cup {x} /\ x \notin rest
      BY <2>1, <2>4
    <3>2. Cardinality(rest \cup {x}) = Cardinality(rest) + 1
      <4> HIDE DEF x, rest
      <4> QED BY <2>3, <3>1, FS_AddElement
    <3>3. f[x] = 1
      BY <2>1, <2>4
    <3> HIDE DEF x, rest
    <3>4. Cardinality(s \cap T) = Cardinality(rest) + 1
      BY <3>1, <3>2
    <3> QED BY <2>2, <2>3, <3>3, <3>4
  <2>5. CASE x \notin T
    <3>1. s \cap T = rest
      BY <2>1, <2>5
    <3>2. f[x] = 0
      BY <2>1, <2>5
    <3> HIDE DEF x, rest
    <3>3. Cardinality(s \cap T) = Cardinality(rest)
      BY <3>1
    <3> QED BY <2>2, <2>3, <3>2, <3>3
  <2> QED BY <2>4, <2>5
<1>4. SUBSET S \subseteq G
  <2> HIDE DEF G
  <2> QED BY <1>2, <1>3, SubsetInduction
<1>5. S \in SUBSET S /\ S \cap T = T
  OBVIOUS
<1>6. fs[S] = Cardinality(S \cap T)
  BY <1>4, <1>5
<1> QED BY <1>1, <1>5, <1>6 DEF Sums

(***************************************************************************)
(* A finite set listed by the same recursion.                              *)
(***************************************************************************)
ListStep(it, s) ==
    IF s = {} THEN <<>> ELSE <<Chosen(s)>> \o it[s \ {Chosen(s)}]

ListRun(it, S) == it = [s \in SUBSET S |-> ListStep(it, s)]

\* list has every element of s once.
Lists(list, s) ==
    /\ list \in Seq(s)
    /\ \A x \in s : \E i \in DOMAIN list : list[i] = x
    /\ \A i, j \in DOMAIN list : list[i] = list[j] => i = j

\* The recursion that lists a set defines a function.
LEMMA ListRunExists ==
    ASSUME NEW S, IsFiniteSet(S)
    PROVE  \E it : ListRun(it, S)
<1> DEFINE add == [p \in S \X Seq(S) |-> <<p[1]>> \o p[2]]
<1>1. add \in [S \X Seq(S) -> Seq(S)]
  OBVIOUS
<1>2. <<>> \in Seq(S)
  OBVIOUS
<1>3. PICK it \in [SUBSET S -> Seq(S)] : Run(it, <<>>, add, S)
  <2> HIDE DEF add
  <2> QED BY <1>1, <1>2, RunExists
<1>4. ASSUME NEW s \in SUBSET S PROVE Step(it, <<>>, add, s) = ListStep(it, s)
  <2>1. s # {} => Chosen(s) \in S /\ s \ {Chosen(s)} \in SUBSET S
    BY SubsetFacts
  <2>2. s # {} => <<Chosen(s), it[s \ {Chosen(s)}]>> \in S \X Seq(S)
    BY <1>3, <2>1
  <2> QED BY <2>2 DEF Step, ListStep
<1>5. ListRun(it, S)
  <2> HIDE DEF add
  <2> QED BY <1>3, <1>4 DEF Run, ListRun
<1> QED BY <1>5

\* It lists every subset.
LEMMA ListRunLists ==
    ASSUME NEW S, IsFiniteSet(S), NEW it, ListRun(it, S)
    PROVE  Lists(it[S], S)
<1> DEFINE G == {s \in SUBSET S : Lists(it[s], s)}
<1>1. \A s \in SUBSET S : it[s] = ListStep(it, s)
  BY DEF ListRun
<1>2. {} \in G
  <2>1. it[{}] = <<>>
    BY <1>1 DEF ListStep
  <2>2. Lists(<<>>, {})
    <3>1. <<>> \in Seq({}) /\ DOMAIN <<>> = {}
      OBVIOUS
    <3> QED BY <3>1, Zenon DEF Lists
  <2> QED BY <2>1, <2>2
<1>3. ASSUME NEW s \in SUBSET S, s # {}, s \ {Chosen(s)} \in G
      PROVE  s \in G
  <2> DEFINE tail == it[s \ {Chosen(s)}]
  <2>1. Lists(tail, s \ {Chosen(s)})
    BY <1>3
  <2>2. it[s] = <<Chosen(s)>> \o tail
    BY <1>1, <1>3 DEF ListStep
  <2>3. Chosen(s) \in s
    BY <1>3, SubsetFacts
  <2> HIDE DEF tail
  <2>4. tail \in Seq(s)
    BY <2>1 DEF Lists
  <2>5. it[s] \in Seq(s)
    BY <2>2, <2>3, <2>4
  <2>6. /\ DOMAIN it[s] = 1 .. Len(tail) + 1
        /\ it[s][1] = Chosen(s)
        /\ \A i \in 2 .. Len(tail) + 1 : it[s][i] = tail[i - 1]
    BY <2>2, <2>3, <2>4
  <2>7. \A i \in 1 .. Len(tail) : tail[i] # Chosen(s)
    BY <2>1 DEF Lists
  <2>8. \A i, j \in 1 .. Len(tail) : tail[i] = tail[j] => i = j
    BY <2>1 DEF Lists
  <2>9. Len(tail) \in Nat
    BY <2>4
  <2>10. ASSUME NEW i \in DOMAIN it[s], NEW j \in DOMAIN it[s],
                it[s][i] = it[s][j]
         PROVE  i = j
    <3>1. CASE i = 1 \/ j = 1
      <4>1. \A n \in 2 .. Len(tail) + 1 : it[s][n] # it[s][1]
        BY <2>6, <2>7, <2>9
      <4> QED BY <2>6, <2>9, <2>10, <3>1, <4>1
    <3>2. CASE i # 1 /\ j # 1
      <4>1. i - 1 \in 1 .. Len(tail) /\ j - 1 \in 1 .. Len(tail)
        BY <2>6, <2>9, <3>2
      <4>2. tail[i - 1] = tail[j - 1]
        BY <2>6, <2>9, <2>10, <3>2
      <4>3. i - 1 = j - 1
        BY <2>8, <4>1, <4>2
      <4> QED BY <2>6, <2>9, <4>3
    <3> QED BY <3>1, <3>2
  <2>11. ASSUME NEW x \in s PROVE \E i \in DOMAIN it[s] : it[s][i] = x
    <3>1. CASE x = Chosen(s)
      <4>1. 1 \in DOMAIN it[s]
        BY <2>6, <2>9
      <4> QED BY <2>6, <3>1, <4>1
    <3>2. CASE x # Chosen(s)
      <4>1. PICK i \in 1 .. Len(tail) : tail[i] = x
        BY <2>1, <2>4, <3>2 DEF Lists
      <4> DEFINE j == i + 1
      <4>2. j \in DOMAIN it[s] /\ j \in 2 .. Len(tail) + 1 /\ j - 1 = i
        BY <2>6, <2>9, <4>1
      <4> HIDE DEF j
      <4>3. it[s][j] = tail[i]
        BY <2>6, <4>2
      <4> QED BY <4>1, <4>2, <4>3
    <3> QED BY <3>1, <3>2
  <2> QED BY <2>5, <2>10, <2>11 DEF Lists
<1>4. SUBSET S \subseteq G
  <2> HIDE DEF G
  <2> QED BY <1>2, <1>3, SubsetInduction
<1>5. S \in SUBSET S
  OBVIOUS
<1> QED BY <1>4, <1>5

=============================================================================
