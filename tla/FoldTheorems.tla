---------------------------- MODULE FoldTheorems ----------------------------
(***************************************************************************)
(* What folds compute, for every step.  The proofs of the rule engine sum  *)
(* the points of sets of cards, and those of the event log and the event   *)
(* loop read sequences: each takes an INSTANCE of this module with its     *)
(* step, so that induction over finite sets is done once, here.            *)
(***************************************************************************)
EXTENDS FiniteSetsExt, FiniteSetTheorems, SubsequenceTheorems

CONSTANTS
  Step(_, _),   \* the step of the fold: an element and the fold of the rest
  Base,         \* the fold of nothing
  Choose(_)     \* the element that is taken first

Fold(f, S) == MapThenFoldSet(Step, Base, LAMBDA x : f[x], Choose, S)

\* Choose picks elements of the subsets of S.
Chooses(S) == \A T \in SUBSET S : T # {} => Choose(T) \in T

-----------------------------------------------------------------------------
(* Induction over the subsets of a finite set.                              *)

\* The subsets of S with n elements at most.
Small(S, n) == {T \in SUBSET S : Cardinality(T) <= n}

LEMMA SmallFacts ==
  ASSUME NEW S, IsFiniteSet(S)
  PROVE  /\ Small(S, 0) = {{}}
         /\ Small(S, Cardinality(S)) = SUBSET S
         /\ \A n \in Nat : Small(S, n) \subseteq Small(S, n + 1)
         /\ \A n \in Nat : \A T \in Small(S, n + 1) : \A x \in T : T \ {x} \in Small(S, n)
<1>1. \A T \in SUBSET S : /\ IsFiniteSet(T) /\ Cardinality(T) \in Nat
                          /\ Cardinality(T) <= Cardinality(S)
                          /\ \A x \in T : Cardinality(T \ {x}) = Cardinality(T) - 1
  BY FS_Subset, FS_RemoveElement, FS_CardinalityType
<1>2. \A T \in SUBSET S : Cardinality(T) = 0 <=> T = {}
  BY <1>1, FS_EmptySet
<1>3. QED
  BY <1>1, <1>2 DEF Small

LEMMA SubsetInduction ==
  ASSUME NEW S, IsFiniteSet(S), NEW F,
         \A T \in SUBSET S : (\A x \in T : T \ {x} \in F) => T \in F
  PROVE  SUBSET S \subseteq F
<1> DEFINE N == {n \in Nat : Small(S, n) \subseteq F}
<1>1. 0 \in N
  BY SmallFacts
<1>2. ASSUME NEW n \in N
      PROVE  n + 1 \in N
  <2>1. Small(S, n + 1) \subseteq SUBSET S
    BY DEF Small
  <2>2. QED
    BY <2>1, SmallFacts
<1>3. N = Nat
  <2> N \in SUBSET Nat
    OBVIOUS
  <2> HIDE DEF N
  <2> QED
    BY <1>1, <1>2, NatSetInduction
<1>4. Cardinality(S) \in N
  BY <1>3, FS_CardinalityType
<1>5. QED
  BY <1>4, SmallFacts

\* Among finitely many things one has the most of anything that is counted.
LEMMA OneHasMost ==
  ASSUME NEW S, IsFiniteSet(S), NEW f \in [S -> Int], NEW T \in SUBSET S, T # {}
  PROVE  \E x \in T : \A y \in T : f[y] <= f[x]
<1> DEFINE HasMost(U) == \E x \in U : \A y \in U : f[y] <= f[x]
           F == {U \in SUBSET S : U = {} \/ HasMost(U)}
<1>1. ASSUME NEW U \in SUBSET S, \A x \in U : U \ {x} \in F
      PROVE  U \in F
  <2>1. ASSUME NEW x \in U
        PROVE  HasMost(U)
    <3>1. U \ {x} \in F
      BY <1>1
    <3>2. CASE U \ {x} = {}
      BY <2>1, <3>2
    <3>3. CASE HasMost(U \ {x})
      <4>1. PICK z \in U \ {x} : \A y \in U \ {x} : f[y] <= f[z]
        BY <3>3
      <4>2. \A y \in U : f[y] \in Int
        OBVIOUS
      <4>3. CASE f[x] <= f[z]
        BY <4>1, <4>3
      <4>4. CASE f[z] <= f[x]
        <5>1. \A y \in U : f[y] <= f[x]
          BY <4>1, <4>2, <4>4
        <5>2. QED
          BY <2>1, <5>1
      <4>5. QED
        BY <4>1, <4>2, <4>3, <4>4
    <3>4. QED
      BY <3>1, <3>2, <3>3
  <2>2. QED
    BY <2>1
<1>2. SUBSET S \subseteq F
  <2> HIDE DEF F
  <2> QED
    BY <1>1, SubsetInduction
<1>3. QED
  BY <1>2

-----------------------------------------------------------------------------
(* The recursion equation.                                                 *)

Unfold(g, f, T) == IF T = {} THEN Base ELSE Step(f[Choose(T)], g[T \ {Choose(T)}])
Recurs(g, f, D) == \A T \in D : g[T] = Unfold(g, f, T)
IsRecursion(g, f, S) == g = [T \in SUBSET S |-> Unfold(g, f, T)]

LEMMA RecursionExists ==
  ASSUME NEW S, IsFiniteSet(S), NEW f, Chooses(S)
  PROVE  \E g : IsRecursion(g, f, S)
<1> DEFINE Good(n) == \E g : /\ g = [T \in Small(S, n) |-> g[T]]
                             /\ Recurs(g, f, Small(S, n))
           N == {n \in Nat : Good(n)}
<1>1. 0 \in N
  <2> DEFINE g == [T \in Small(S, 0) |-> Base]
  <2>1. Recurs(g, f, Small(S, 0))
    BY SmallFacts DEF Recurs, Unfold
  <2>2. QED
    BY <2>1
<1>2. ASSUME NEW n \in N
      PROVE  n + 1 \in N
  <2>1. PICK g : Recurs(g, f, Small(S, n))
    OBVIOUS
  <2> DEFINE h == [T \in Small(S, n + 1) |-> Unfold(g, f, T)]
  <2>2. \A T \in Small(S, n) : h[T] = g[T]
    BY <2>1, SmallFacts DEF Recurs
  <2>3. \A T \in Small(S, n + 1) : T # {} => T \ {Choose(T)} \in Small(S, n)
    BY SmallFacts DEF Small, Chooses
  <2>4. Recurs(h, f, Small(S, n + 1))
    <3>1. SUFFICES ASSUME NEW T \in Small(S, n + 1)
                   PROVE  h[T] = Unfold(h, f, T)
      BY Zenon DEF Recurs
    <3>2. h[T] = Unfold(g, f, T)
      OBVIOUS
    <3>3. T # {} => h[T \ {Choose(T)}] = g[T \ {Choose(T)}]
      BY <2>2, <2>3
    <3> HIDE DEF h
    <3>4. QED
      BY <3>2, <3>3 DEF Unfold
  <2>5. h = [T \in Small(S, n + 1) |-> h[T]]
    OBVIOUS
  <2> HIDE DEF h
  <2>6. n + 1 \in Nat
    OBVIOUS
  <2>7. QED
    BY <2>4, <2>5, <2>6
<1>3. N = Nat
  <2> N \in SUBSET Nat
    OBVIOUS
  <2> HIDE DEF N
  <2> QED
    BY <1>1, <1>2, NatSetInduction
<1>4. Good(Cardinality(S))
  BY <1>3, FS_CardinalityType
<1>5. PICK g : /\ g = [T \in Small(S, Cardinality(S)) |-> g[T]]
               /\ Recurs(g, f, Small(S, Cardinality(S)))
  BY <1>4
<1>6. g = [T \in SUBSET S |-> g[T]] /\ Recurs(g, f, SUBSET S)
  BY <1>5, SmallFacts
<1>7. IsRecursion(g, f, S)
  BY <1>6 DEF Recurs, IsRecursion
<1>8. QED
  BY <1>7

\* Two functions that recur alike agree on every set both are defined for.
LEMMA RecursionUnique ==
  ASSUME NEW S, IsFiniteSet(S), NEW f, NEW e, NEW g, NEW h, Chooses(S),
         \A x \in S : f[x] = e[x],
         Recurs(g, f, SUBSET S), Recurs(h, e, SUBSET S)
  PROVE  g[S] = h[S]
<1> DEFINE F == {T \in SUBSET S : g[T] = h[T]}
<1>1. ASSUME NEW T \in SUBSET S, \A x \in T : T \ {x} \in F
      PROVE  T \in F
  <2>1. CASE T = {}
    BY <2>1 DEF Recurs, Unfold
  <2>2. CASE T # {}
    <3>1. Choose(T) \in T /\ Choose(T) \in S
      BY <2>2 DEF Chooses
    <3>2. g[T \ {Choose(T)}] = h[T \ {Choose(T)}] /\ f[Choose(T)] = e[Choose(T)]
      BY <1>1, <3>1
    <3>3. QED
      BY <2>2, <3>2 DEF Recurs, Unfold
  <2>3. QED
    BY <2>1, <2>2
<1>2. SUBSET S \subseteq F
  <2> HIDE DEF F
  <2> QED
    BY <1>1, SubsetInduction
<1>3. QED
  BY <1>2

LEMMA FoldRecurs ==
  ASSUME NEW S, IsFiniteSet(S), NEW f, Chooses(S)
  PROVE  \E g : Recurs(g, f, SUBSET S) /\ Fold(f, S) = g[S]
<1> DEFINE g == CHOOSE h : IsRecursion(h, f, S)
<1>1. IsRecursion(g, f, S)
  <2>1. \E h : IsRecursion(h, f, S)
    BY RecursionExists
  <2>2. QED
    BY <2>1, Zenon
<1>2. Fold(f, S) = g[S]
  BY DEF Fold, MapThenFoldSet, IsRecursion, Unfold
<1>3. Recurs(g, f, SUBSET S)
  <2> HIDE DEF g
  <2> QED
    BY <1>1 DEF Recurs, IsRecursion
<1>4. QED
  BY <1>2, <1>3

\* A fold takes the chosen element and then folds the rest.
LEMMA FoldStep ==
  ASSUME NEW S, IsFiniteSet(S), NEW f, Chooses(S)
  PROVE  Fold(f, S) = IF S = {} THEN Base ELSE Step(f[Choose(S)], Fold(f, S \ {Choose(S)}))
<1>1. PICK g : Recurs(g, f, SUBSET S) /\ Fold(f, S) = g[S]
  BY FoldRecurs
<1>2. CASE S = {}
  BY <1>1, <1>2 DEF Recurs, Unfold
<1>3. CASE S # {}
  <2> DEFINE R == S \ {Choose(S)}
  <2>1. IsFiniteSet(R) /\ SUBSET R \subseteq SUBSET S /\ Chooses(R)
    BY FS_Subset DEF Chooses
  <2>2. PICK h : Recurs(h, f, SUBSET R) /\ Fold(f, R) = h[R]
    BY <2>1, FoldRecurs
  <2>3. Recurs(g, f, SUBSET R)
    BY <1>1, <2>1 DEF Recurs
  <2>4. g[R] = h[R]
    BY <2>1, <2>2, <2>3, RecursionUnique
  <2>5. g[S] = Step(f[Choose(S)], g[R])
    BY <1>1, <1>3 DEF Recurs, Unfold
  <2>6. QED
    BY <1>1, <1>3, <2>2, <2>4, <2>5
<1>4. QED
  BY <1>2, <1>3

\* It depends on the values at the elements and on nothing else.
LEMMA FoldDepends ==
  ASSUME NEW S, IsFiniteSet(S), NEW f, NEW e, \A x \in S : f[x] = e[x], Chooses(S)
  PROVE  Fold(f, S) = Fold(e, S)
<1>1. PICK g : Recurs(g, f, SUBSET S) /\ Fold(f, S) = g[S]
  BY FoldRecurs
<1>2. PICK h : Recurs(h, e, SUBSET S) /\ Fold(e, S) = h[S]
  BY FoldRecurs
<1>3. g[S] = h[S]
  BY <1>1, <1>2, RecursionUnique
<1>4. QED
  BY <1>1, <1>2, <1>3

-----------------------------------------------------------------------------
(* Two kinds of folds.                                                     *)

\* The steps with elements of S stay in V and can be swapped.
Swappable(f, S, V) ==
  /\ Base \in V
  /\ \A x \in S : \A v \in V : Step(f[x], v) \in V
  /\ \A x, y \in S : \A v \in V : Step(f[x], Step(f[y], v)) = Step(f[y], Step(f[x], v))

\* If the steps can be swapped, any element may be taken first.
LEMMA FoldInAnyOrder ==
  ASSUME NEW S, IsFiniteSet(S), NEW f, NEW V, Chooses(S), Swappable(f, S, V)
  PROVE  Fold(f, S) \in V /\ \A x \in S : Fold(f, S) = Step(f[x], Fold(f, S \ {x}))
<1> DEFINE F == {T \in SUBSET S : Fold(f, T) \in V}
           G == {T \in SUBSET S : \A x \in T : Fold(f, T) = Step(f[x], Fold(f, T \ {x}))}
<1>1. \A T \in SUBSET S : IsFiniteSet(T) /\ Chooses(T) /\ (T # {} => Choose(T) \in T)
  BY FS_Subset DEF Chooses
<1>2. \A T \in SUBSET S :
        Fold(f, T) = IF T = {} THEN Base ELSE Step(f[Choose(T)], Fold(f, T \ {Choose(T)}))
  BY <1>1, FoldStep
<1>3. SUBSET S \subseteq F
  <2>1. ASSUME NEW T \in SUBSET S, \A x \in T : T \ {x} \in F
        PROVE  T \in F
    <3>1. CASE T = {}
      BY <1>2, <3>1 DEF Swappable
    <3>2. CASE T # {}
      <4>1. Choose(T) \in T /\ Choose(T) \in S
        BY <1>1, <3>2
      <4>2. Fold(f, T \ {Choose(T)}) \in V
        BY <2>1, <4>1
      <4>3. Fold(f, T) = Step(f[Choose(T)], Fold(f, T \ {Choose(T)}))
        BY <1>2, <3>2
      <4>4. QED
        BY <4>1, <4>2, <4>3 DEF Swappable
    <3>3. QED
      BY <3>1, <3>2
  <2> HIDE DEF F
  <2> QED
    BY <2>1, SubsetInduction
<1>4. ASSUME NEW T \in SUBSET S, \A x \in T : T \ {x} \in G
      PROVE  T \in G
  <2>1. SUFFICES ASSUME NEW x \in T
                 PROVE  Fold(f, T) = Step(f[x], Fold(f, T \ {x}))
    OBVIOUS
  <2> DEFINE c == Choose(T)
             R == (T \ {c}) \ {x}
  <2>2. c \in T /\ Fold(f, T) = Step(f[c], Fold(f, T \ {c}))
    BY <1>1, <1>2
  <2>3. CASE x = c
    BY <2>2, <2>3
  <2>4. CASE x # c
    <3> HIDE DEF c
    <3>1. x \in T \ {c} /\ c \in T \ {x} /\ R = (T \ {x}) \ {c}
      BY <2>2, <2>4
    <3>2. Fold(f, T \ {c}) = Step(f[x], Fold(f, R)) /\ Fold(f, T \ {x}) = Step(f[c], Fold(f, R))
      BY <1>4, <2>2, <3>1
    <3>3. Fold(f, R) \in V
      BY <1>3
    <3>4. Step(f[c], Step(f[x], Fold(f, R))) = Step(f[x], Step(f[c], Fold(f, R)))
      BY <2>2, <3>3 DEF Swappable
    <3>5. QED
      BY <2>2, <3>2, <3>4
  <2>5. QED
    BY <2>3, <2>4
<1>5. SUBSET S \subseteq G
  <2> HIDE DEF G
  <2> QED
    BY <1>4, SubsetInduction
<1>6. QED
  BY <1>3, <1>5

\* Choose takes the last of some indices.
ChoosesLast(n) ==
  \A T \in SUBSET (1 .. n) : T # {} => Choose(T) \in T /\ \A i \in T : i <= Choose(T)

\* A sequence that grows at its end is folded by one more step.
LEMMA FoldOfSequence ==
  ASSUME NEW n \in Nat, NEW q, NEW r, \A i \in 1 .. n : r[i] = q[i], ChoosesLast(n + 1)
  PROVE  /\ Fold(q, 1 .. 0) = Base
         /\ Fold(r, 1 .. n + 1) = Step(r[n + 1], Fold(q, 1 .. n))
<1>1. ASSUME NEW k \in 0 .. n + 1
      PROVE  IsFiniteSet(1 .. k) /\ Chooses(1 .. k)
  <2>1. IsFiniteSet(1 .. k)
    <3>1. 1 \in Int /\ k \in Int
      OBVIOUS
    <3>2. QED
      BY <3>1, FS_Interval
  <2>2. SUBSET (1 .. k) \subseteq SUBSET (1 .. n + 1)
    BY SMT
  <2>3. QED
    BY <2>1, <2>2 DEF Chooses, ChoosesLast
<1>2. Fold(q, 1 .. 0) = Base
  BY <1>1, FoldStep
<1>3. Choose(1 .. n + 1) = n + 1 /\ (1 .. n + 1) \ {n + 1} = 1 .. n /\ 1 .. n + 1 # {}
  <2>1. 1 .. n + 1 # {} /\ n + 1 \in 1 .. n + 1
    OBVIOUS
  <2>2. Choose(1 .. n + 1) \in 1 .. n + 1 /\ n + 1 <= Choose(1 .. n + 1)
    BY <2>1 DEF ChoosesLast
  <2>3. QED
    BY <2>1, <2>2
<1>4. Fold(r, 1 .. n + 1) = Step(r[n + 1], Fold(r, 1 .. n))
  <2>1. IsFiniteSet(1 .. n + 1) /\ Chooses(1 .. n + 1)
    BY <1>1
  <2>2. QED
    BY <1>3, <2>1, FoldStep
<1>5. Fold(r, 1 .. n) = Fold(q, 1 .. n)
  <2>1. IsFiniteSet(1 .. n) /\ Chooses(1 .. n)
    BY <1>1
  <2>2. QED
    BY <2>1, FoldDepends
<1>6. QED
  BY <1>2, <1>4, <1>5

\* The CHOOSE of a largest element does that.
LEMMA LastOfSomeIndices ==
  ASSUME NEW n \in Nat, \A T : Choose(T) = CHOOSE i \in T : \A j \in T : i >= j
  PROVE  ChoosesLast(n)
<1> DEFINE f == [i \in 1 .. n |-> i]
<1>1. IsFiniteSet(1 .. n) /\ f \in [1 .. n -> Int]
  <2>1. 1 \in Int /\ n \in Int
    OBVIOUS
  <2>2. QED
    BY <2>1, FS_Interval
<1>2. ASSUME NEW T \in SUBSET (1 .. n), T # {}
      PROVE  Choose(T) \in T /\ \A j \in T : Choose(T) >= j
  <2>1. \E i \in T : \A j \in T : f[j] <= f[i]
    <3> HIDE DEF f
    <3> QED
      BY <1>1, <1>2, OneHasMost
  <2>2. \E i \in T : \A j \in T : i >= j
    BY <2>1
  <2>3. QED
    BY <2>2
<1>3. QED
  BY <1>2 DEF ChoosesLast
=============================================================================
