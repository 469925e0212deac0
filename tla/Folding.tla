------------------------------ MODULE Folding ------------------------------
(***************************************************************************)
(* What a loop computes, element by element.  MapThenFoldSet is defined by *)
(* a function that is chosen to satisfy a recursive equation; here it is   *)
(* shown that there is one, so that a fold over S is one step on the fold  *)
(* over S without the element picked.  The operator folded is a constant   *)
(* of the module: a module that reasons about a loop of its own            *)
(* instantiates this one with its step.                                    *)
(***************************************************************************)
EXTENDS Folds, FiniteSetTheorems, NaturalsInduction, TLAPS

CONSTANTS
  Op(_, _, _),    \* the step, on a parameter, what there is so far and an element
  Base,           \* what there is at first
  Pick(_)         \* the element taken last

Fold(p, f, S) ==
  MapThenFoldSet(LAMBDA x, y : Op(p, y, x), Base, LAMBDA i : f[i], LAMBDA T : Pick(T), S)

Picks(S) == \A T \in SUBSET S : T # {} => Pick(T) \in T

\* The equation of a fold, for the sets in Sets.
Next(p, f, g, s) == IF s = {} THEN Base ELSE Op(p, g[s \ {Pick(s)}], f[Pick(s)])
IsIter(p, f, g, Sets) == g = [s \in Sets |-> Next(p, f, g, s)]
Iterates(p, f, g, S) == IsIter(p, f, g, SUBSET S)

\* Induction, for a set of numbers.
LEMMA NatSet ==
  ASSUME NEW N, 0 \in N, \A n \in Nat : n \in N => n + 1 \in N
  PROVE  Nat \subseteq N
  <1> SUFFICES ASSUME Nat \ N # {} PROVE FALSE
    OBVIOUS
  <1> DEFINE Bad == Nat \ N
  <1>1. \E n \in Bad : \A m \in Bad : ~(<<m, n>> \in OpToRel(<, Nat))
    BY NatLessThanWellFounded, WFMin
  <1>2. PICK n \in Bad : \A m \in Bad : ~(m < n)
    BY <1>1 DEF OpToRel
  <1>3. n # 0 /\ n - 1 \in Nat
    OBVIOUS
  <1>4. n - 1 \notin Bad
    BY <1>2, <1>3
  <1> QED
    BY <1>3, <1>4

\* Induction over the subsets of a finite set.
LEMMA SubsetInduction ==
  ASSUME NEW S, IsFiniteSet(S), NEW N, {} \in N,
         \A s \in SUBSET S, x \in S : s \in N /\ x \notin s => s \union {x} \in N
  PROVE  S \in N
  <1> DEFINE M == {n \in Nat : \A s \in SUBSET S : Cardinality(s) <= n => s \in N}
  <1>1. \A s \in SUBSET S : IsFiniteSet(s) /\ Cardinality(s) \in Nat
    BY FS_Subset, FS_CardinalityType
  <1>2. 0 \in M
    <2>1. \A s \in SUBSET S : Cardinality(s) <= 0 => s = {}
      BY <1>1, FS_EmptySet
    <2> QED
      BY <2>1
  <1>3. ASSUME NEW n \in Nat, n \in M PROVE n + 1 \in M
    <2> SUFFICES ASSUME NEW s \in SUBSET S, Cardinality(s) <= n + 1 PROVE s \in N
      OBVIOUS
    <2>1. CASE s = {}
      BY <2>1
    <2>2. CASE s # {}
      <3>1. PICK x : x \in s
        BY <2>2
      <3>2. PICK t : t = s \ {x}
        OBVIOUS
      <3>3. Cardinality(t) = Cardinality(s) - 1
        BY <1>1, <3>1, <3>2, FS_RemoveElement
      <3>4. t \in SUBSET S /\ t \in N
        BY <1>1, <1>3, <3>2, <3>3
      <3> QED
        BY <3>1, <3>2, <3>4
    <2> QED
      BY <2>1, <2>2
  <1> HIDE DEF M
  <1>4. Nat \subseteq M
    BY <1>2, <1>3, NatSet
  <1> QED
    BY <1>1, <1>4 DEF M

\* The subsets of S with at most n elements.
UpTo(S, n) == {s \in SUBSET S : Cardinality(s) <= n}

LEMMA SmallerSubset ==
  ASSUME NEW S, IsFiniteSet(S), Picks(S), NEW n \in Nat,
         NEW s \in SUBSET S, s # {}, Cardinality(s) <= n + 1
  PROVE  Pick(s) \in s /\ s \ {Pick(s)} \in UpTo(S, n)
  <1>1. Pick(s) \in s
    BY DEF Picks
  <1>2. IsFiniteSet(s)
    BY FS_Subset
  <1>3. Cardinality(s) \in Nat /\ Cardinality(s \ {Pick(s)}) = Cardinality(s) - 1
    BY <1>1, <1>2, FS_RemoveElement, FS_CardinalityType
  <1> QED
    BY <1>1, <1>3 DEF UpTo

LEMMA IterExists ==
  ASSUME NEW p, NEW f, NEW S, IsFiniteSet(S), Picks(S)
  PROVE  \E g : Iterates(p, f, g, S)
  <1> DEFINE N == {n \in Nat : \E g : IsIter(p, f, g, UpTo(S, n))}
  <1>1. 0 \in N
    <2> DEFINE g == [s \in UpTo(S, 0) |-> Base]
    <2>1. \A s \in UpTo(S, 0) : s = {}
      BY FS_Subset, FS_EmptySet, FS_CardinalityType DEF UpTo
    <2>2. IsIter(p, f, g, UpTo(S, 0))
      BY <2>1 DEF Iterates, IsIter, Next
    <2> QED
      BY <2>2
  <1>2. ASSUME NEW n \in Nat, n \in N
        PROVE  n + 1 \in N
    <2>1. PICK g : IsIter(p, f, g, UpTo(S, n))
      BY <1>2
    <2> DEFINE h == [s \in UpTo(S, n + 1) |-> Next(p, f, g, s)]
    <2>2. UpTo(S, n) \subseteq UpTo(S, n + 1)
      BY FS_Subset, FS_CardinalityType DEF UpTo
    <2>3. \A s \in UpTo(S, n) : g[s] = Next(p, f, g, s)
      BY <2>1 DEF Iterates, IsIter
    <2>4. \A s \in UpTo(S, n) : g[s] = h[s]
      BY <2>2, <2>3
    <2>5. ASSUME NEW s \in UpTo(S, n + 1)
          PROVE  Next(p, f, g, s) = Next(p, f, h, s)
      <3>1. CASE s = {}
        BY <3>1 DEF Next
      <3>2. CASE s # {}
        <4>1. s \ {Pick(s)} \in UpTo(S, n)
          BY <2>5, <3>2, SmallerSubset DEF UpTo
        <4> HIDE DEF h
        <4> QED
          BY <2>4, <4>1 DEF Next
      <3> QED
        BY <3>1, <3>2
    <2>6. IsIter(p, f, h, UpTo(S, n + 1))
      BY <2>5 DEF Iterates, IsIter
    <2> QED
      BY <2>6
  <1> HIDE DEF N
  <1>3. Nat \subseteq N
    BY <1>1, <1>2, NatSet
  <1>4. Cardinality(S) \in Nat /\ UpTo(S, Cardinality(S)) = SUBSET S
    BY FS_Subset, FS_CardinalityType DEF UpTo
  <1> QED
    BY <1>3, <1>4 DEF N, Iterates

LEMMA IterUnique ==
  ASSUME NEW p, NEW f, NEW S, IsFiniteSet(S), Picks(S), NEW T, S \subseteq T,
         NEW g, Iterates(p, f, g, S), NEW h, Iterates(p, f, h, T)
  PROVE  g[S] = h[S]
  <1> DEFINE N == {n \in Nat : \A s \in UpTo(S, n) : g[s] = h[s]}
  <1>1. \A s \in SUBSET S : g[s] = Next(p, f, g, s) /\ h[s] = Next(p, f, h, s)
    BY DEF Iterates, IsIter
  <1>2. 0 \in N
    <2>1. \A s \in UpTo(S, 0) : s = {}
      BY FS_Subset, FS_EmptySet, FS_CardinalityType DEF UpTo
    <2> QED
      BY <1>1, <2>1 DEF Next
  <1>3. ASSUME NEW n \in Nat, n \in N
        PROVE  n + 1 \in N
    <2> SUFFICES ASSUME NEW s \in UpTo(S, n + 1) PROVE g[s] = h[s]
      OBVIOUS
    <2>1. CASE s = {}
      BY <1>1, <2>1 DEF Next
    <2>2. CASE s # {}
      <3>1. s \ {Pick(s)} \in UpTo(S, n)
        BY <2>2, SmallerSubset DEF UpTo
      <3>2. g[s \ {Pick(s)}] = h[s \ {Pick(s)}]
        BY <1>3, <3>1
      <3> QED
        BY <1>1, <2>2, <3>2 DEF Next, UpTo
    <2> QED
      BY <2>1, <2>2
  <1> HIDE DEF N
  <1>4. Nat \subseteq N
    BY <1>2, <1>3, NatSet
  <1>5. Cardinality(S) \in Nat /\ S \in UpTo(S, Cardinality(S))
    BY FS_CardinalityType DEF UpTo
  <1> QED
    BY <1>4, <1>5 DEF N

LEMMA FoldIsIter ==
  ASSUME NEW p, NEW f, NEW S, IsFiniteSet(S), Picks(S)
  PROVE  \E g : Iterates(p, f, g, S) /\ Fold(p, f, S) = g[S]
  <1> DEFINE it == CHOOSE g : Iterates(p, f, g, S)
  <1>1. Iterates(p, f, it, S)
    BY IterExists
  <1>2. Fold(p, f, S) = it[S]
    BY DEF Fold, MapThenFoldSet, Iterates, IsIter, Next
  <1> QED
    BY <1>1, <1>2

\* A loop over nothing leaves what there is at first.
THEOREM FoldEmpty == ASSUME NEW p, NEW f PROVE Fold(p, f, {}) = Base
  <1>1. IsFiniteSet({}) /\ Picks({})
    BY FS_EmptySet DEF Picks
  <1>2. PICK g : Iterates(p, f, g, {}) /\ Fold(p, f, {}) = g[{}]
    BY <1>1, FoldIsIter
  <1> QED
    BY <1>2 DEF Iterates, IsIter, Next

\* A fold over S is one step, with the element picked, on the fold over the others:
\* an accumulator of the code after its last turn and before it.
THEOREM FoldPick ==
  ASSUME NEW p, NEW f, NEW S, IsFiniteSet(S), Picks(S), S # {},
         NEW x, x = Pick(S), NEW T, T = S \ {x}
  PROVE  Fold(p, f, S) = Op(p, Fold(p, f, T), f[x])
  <1>1. IsFiniteSet(T) /\ Picks(T) /\ T \subseteq S
    BY FS_Subset DEF Picks
  <1>2. PICK g : Iterates(p, f, g, S) /\ Fold(p, f, S) = g[S]
    BY FoldIsIter
  <1>3. PICK h : Iterates(p, f, h, T) /\ Fold(p, f, T) = h[T]
    BY <1>1, FoldIsIter
  <1>4. h[T] = g[T]
    BY <1>1, <1>2, <1>3, IterUnique
  <1>5. g[S] = Next(p, f, g, S)
    BY <1>2 DEF Iterates, IsIter
  <1> QED
    BY <1>2, <1>3, <1>4, <1>5 DEF Next

\* A fold over S looks at nothing else of what it folds.
THEOREM FoldSame ==
  ASSUME NEW p, NEW f, NEW g, NEW S, IsFiniteSet(S), Picks(S), \A x \in S : f[x] = g[x]
  PROVE  Fold(p, f, S) = Fold(p, g, S)
  <1>1. PICK h : Iterates(p, f, h, S) /\ Fold(p, f, S) = h[S]
    BY FoldIsIter
  <1>2. PICK k : Iterates(p, g, k, S) /\ Fold(p, g, S) = k[S]
    BY FoldIsIter
  <1>3. ASSUME NEW s \in SUBSET S PROVE Next(p, f, h, s) = Next(p, g, h, s)
    BY DEF Next, Picks
  <1>4. Iterates(p, g, h, S)
    BY <1>1, <1>3 DEF Iterates, IsIter
  <1>5. k[S] = h[S]
    BY <1>2, <1>4, IterUnique
  <1> QED
    BY <1>1, <1>2, <1>5

(***************************************************************************)
(* A loop over a sequence picks the last element last.                     *)
(***************************************************************************)
Last(T) == CHOOSE x \in T : \A y \in T : x >= y
PicksLast == \A T : Pick(T) = Last(T)

\* What the loop has after n turns.
Turns(p, s, n) == Fold(p, s, 1 .. n)

LEMMA LastOf ==
  ASSUME NEW n \in Nat, NEW T \in SUBSET (1 .. n), T # {}
  PROVE  Last(T) \in T /\ \A x \in T : x <= Last(T)
  <1> DEFINE N == {m \in Nat : \A U \in SUBSET (1 .. m) :
                                 U # {} => \E x \in U : \A y \in U : x >= y}
  <1>1. 0 \in N
    <2>1. \A U \in SUBSET (1 .. 0) : U = {}
      OBVIOUS
    <2> QED
      BY <2>1
  <1>2. ASSUME NEW m \in Nat, m \in N PROVE m + 1 \in N
    <2> SUFFICES ASSUME NEW U \in SUBSET (1 .. m + 1), U # {}
                 PROVE  \E x \in U : \A y \in U : x >= y
      OBVIOUS
    <2>1. CASE m + 1 \in U
      BY <2>1
    <2>2. CASE m + 1 \notin U
      <3>1. U \in SUBSET (1 .. m)
        BY <2>2
      <3> QED
        BY <1>2, <3>1
    <2> QED
      BY <2>1, <2>2
  <1> HIDE DEF N
  <1>3. Nat \subseteq N
    BY <1>1, <1>2, NatSet
  <1>4. \E x \in T : \A y \in T : x >= y
    BY <1>3 DEF N
  <1> QED
    BY <1>4 DEF Last

LEMMA LastTurn ==
  ASSUME PicksLast, NEW n \in Nat
  PROVE  /\ IsFiniteSet(1 .. n) /\ Picks(1 .. n)
         /\ n # 0 => Pick(1 .. n) = n
  <1>1. IsFiniteSet(1 .. n)
    BY FS_Interval
  <1>2. \A T \in SUBSET (1 .. n) : T # {} => Pick(T) \in T /\ \A x \in T : x <= Pick(T)
    BY LastOf DEF PicksLast
  <1>3. Picks(1 .. n)
    BY <1>2 DEF Picks
  <1>4. ASSUME n # 0 PROVE Pick(1 .. n) = n
    <2>1. 1 .. n \in SUBSET (1 .. n) /\ n \in 1 .. n /\ 1 .. n # {}
      BY <1>4
    <2> QED
      BY <1>2, <2>1
  <1> QED
    BY <1>1, <1>3, <1>4

\* Before its first turn a loop has what it starts from.
THEOREM NoTurns == ASSUME NEW p, NEW s PROVE Turns(p, s, 0) = Base
  <1>1. 1 .. 0 = {}
    OBVIOUS
  <1> QED
    BY <1>1, FoldEmpty DEF Turns

\* Each turn of a loop over a sequence is one step on what the turns before it left.
THEOREM NextTurn ==
  ASSUME PicksLast, NEW p, NEW s, NEW n \in Nat
  PROVE  Turns(p, s, n + 1) = Op(p, Turns(p, s, n), s[n + 1])
  <1>1. PICK S : S = 1 .. n + 1
    OBVIOUS
  <1>2. IsFiniteSet(S) /\ Picks(S) /\ Pick(S) = n + 1
    BY <1>1, LastTurn
  <1>3. S # {} /\ S \ {n + 1} = 1 .. n
    BY <1>1
  <1>4. Fold(p, s, S) = Op(p, Fold(p, s, 1 .. n), s[n + 1])
    BY <1>2, <1>3, FoldPick
  <1> QED
    BY <1>1, <1>2, <1>3, <1>4 DEF Turns
=============================================================================
