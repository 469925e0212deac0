--------------------------- MODULE AnalysisProofs ---------------------------
(***************************************************************************)
(* Theorems about what the analyses answer, for any tables and calls.      *)
(***************************************************************************)
EXTENDS ToolCallsProofs

(***************************************************************************)
(* Sums.                                                                   *)
(***************************************************************************)
Plus(p, sum, x) == x + sum
AnyOf(T) == CHOOSE x \in T : TRUE
Add == INSTANCE Folding WITH Op <- Plus, Base <- 0, Pick <- AnyOf

Sum(f, S) == Add!Fold(0, f, S)

LEMMA SumFunctionIsSum == ASSUME NEW f PROVE SumFunction(f) = Sum(f, DOMAIN f)
  BY DEF SumFunction, SumFunctionOnSet, FoldFunctionOnSet, MapThenFoldSet,
         Sum, Add!Fold, Add!MapThenFoldSet, Plus, AnyOf

LEMMA AnyPicks == ASSUME NEW S PROVE Add!Picks(S)
  BY DEF Add!Picks, AnyOf

LEMMA SumOfNothing == ASSUME NEW f PROVE Sum(f, {}) = 0
  BY Add!FoldEmpty DEF Sum

LEMMA AddFinite == ASSUME NEW S, IsFiniteSet(S) PROVE Add!IsFiniteSet(S)
  BY DEF IsFiniteSet, Add!IsFiniteSet

LEMMA SumPick ==
  ASSUME NEW S, IsFiniteSet(S), S # {}, NEW f, NEW x, x = AnyOf(S), NEW T, T = S \ {x}
  PROVE  Sum(f, S) = f[x] + Sum(f, T)
  <1>1. Add!Picks(S) /\ Add!IsFiniteSet(S)
    BY AnyPicks, AddFinite
  <1>2. Add!Fold(0, f, S) = Plus(0, Add!Fold(0, f, T), f[x])
    BY <1>1, Add!FoldPick
  <1> QED
    BY <1>2 DEF Sum, Plus

\* Whichever element is added, it adds its part to the sum.
Adds(f, s, t, x) == x \notin t /\ s = t \union {x} => Sum(f, s) = Sum(f, t) + f[x]

LEMMA SumAdds ==
  ASSUME NEW S, IsFiniteSet(S), NEW f, \A x \in S : f[x] \in Int
  PROVE  /\ Sum(f, S) \in Int
         /\ \A t \in SUBSET S, x \in S : Adds(f, S, t, x)
  <1> DEFINE Good(s) == Sum(f, s) \in Int /\ \A t \in SUBSET S, x \in S : Adds(f, s, t, x)
             N == {n \in Nat : \A s \in SUBSET S : Cardinality(s) <= n => Good(s)}
  <1>1. \A s \in SUBSET S : IsFiniteSet(s) /\ Cardinality(s) \in Nat
    BY FS_Subset, FS_CardinalityType
  <1>2. ASSUME NEW s \in SUBSET S, NEW t \in SUBSET S, NEW x \in S, x \notin t, s = t \union {x}
        PROVE  Cardinality(t) = Cardinality(s) - 1
    BY <1>1, <1>2, FS_AddElement
  <1>3. Good({})
    BY SumOfNothing DEF Adds
  <1>4. 0 \in N
    <2>1. \A s \in SUBSET S : Cardinality(s) <= 0 => s = {}
      BY <1>1, FS_EmptySet
    <2> HIDE DEF Good
    <2> QED
      BY <1>3, <2>1
  <1>5. ASSUME NEW n \in Nat, n \in N PROVE n + 1 \in N
    <2> SUFFICES ASSUME NEW s \in SUBSET S, Cardinality(s) <= n + 1, s # {} PROVE Good(s)
      BY <1>3
    <2>1. PICK y : y = AnyOf(s)
      OBVIOUS
    <2>2. PICK u : u = s \ {y}
      OBVIOUS
    <2>3. y \in S /\ y \notin u /\ u \in SUBSET S /\ s = u \union {y}
      BY <2>1, <2>2 DEF AnyOf
    <2>4. \A t \in SUBSET S, x \in S : x \notin t /\ s = t \union {x} => Good(t)
      <3> SUFFICES ASSUME NEW t \in SUBSET S, NEW x \in S, x \notin t, s = t \union {x} PROVE Good(t)
        OBVIOUS
      <3>1. Cardinality(t) <= n
        BY <1>1, <1>2
      <3> HIDE DEF Good
      <3> QED
        BY <1>5, <3>1
    <2>5. Sum(f, s) = f[y] + Sum(f, u)
      <3>1. f[y] \in Int /\ Sum(f, u) \in Int
        BY <2>3, <2>4
      <3> HIDE DEF Good
      <3>2. Sum(f, s) = f[y] + Sum(f, u)
        BY <1>1, <2>1, <2>2, SumPick
      <3> QED
        BY <3>1, <3>2
    <2>6. Good(u)
      BY <2>3, <2>4
    <2>7. ASSUME NEW t \in SUBSET S, NEW x \in S, x \notin t, s = t \union {x}
          PROVE  Sum(f, s) = Sum(f, t) + f[x]
      <3>1. CASE x = y
        <4>1. t = u
          BY <2>3, <2>7, <3>1
        <4> QED
          BY <2>5, <2>6, <3>1, <4>1
      <3>2. CASE x # y
        <4>1. PICK v : v = t \ {y}
          OBVIOUS
        <4>2. /\ v \in SUBSET S /\ x \notin v /\ y \notin v
              /\ u = v \union {x} /\ t = v \union {y}
          BY <2>2, <2>3, <2>7, <3>2, <4>1
        <4>3. Sum(f, u) = Sum(f, v) + f[x]
          BY <2>6, <4>2 DEF Adds
        <4>4. Sum(f, t) = Sum(f, v) + f[y]
          BY <2>3, <2>4, <2>7, <4>2 DEF Adds
        <4>5. Sum(f, t) \in Int /\ Sum(f, u) \in Int
          BY <2>4, <2>6, <2>7
        <4>6. Sum(f, v) \in Int
          <5>1. Cardinality(t) = Cardinality(s) - 1 /\ Cardinality(v) = Cardinality(t) - 1
            BY <1>2, <2>3, <2>7, <4>2
          <5>2. Cardinality(v) <= n
            BY <1>1, <4>2, <5>1
          <5> QED
            BY <1>5, <4>2, <5>2
        <4> HIDE DEF Good, N
        <4> QED
          BY <2>3, <2>5, <2>7, <4>3, <4>4, <4>5, <4>6
      <3> QED
        BY <3>1, <3>2
    <2>8. Sum(f, s) \in Int
      BY <2>3, <2>5, <2>6
    <2> QED
      BY <2>7, <2>8 DEF Adds
  <1> HIDE DEF N
  <1>6. Nat \subseteq N
    BY <1>4, <1>5, Add!NatSet
  <1> QED
    BY <1>1, <1>6 DEF N

LEMMA AddsOne ==
  ASSUME NEW S, IsFiniteSet(S), NEW f, \A x \in S : f[x] \in Int,
         NEW x \in S, NEW T, x \notin T, S = T \union {x}
  PROVE  /\ Sum(f, S) \in Int /\ Sum(f, T) \in Int
         /\ Sum(f, S) = Sum(f, T) + f[x]
  <1>1. T \in SUBSET S /\ IsFiniteSet(T)
    BY FS_Subset
  <1>2. Sum(f, S) = Sum(f, T) + f[x] /\ Sum(f, S) \in Int
    BY <1>1, SumAdds DEF Adds
  <1>3. Sum(f, T) \in Int
    BY <1>1, SumAdds
  <1> QED
    BY <1>2, <1>3

\* A sum over S looks at nothing else of what it adds.
LEMMA SumSame ==
  ASSUME NEW S, IsFiniteSet(S), NEW f, NEW g, \A x \in S : f[x] = g[x]
  PROVE  Sum(f, S) = Sum(g, S)
  <1>1. Add!Picks(S) /\ Add!IsFiniteSet(S)
    BY AnyPicks, AddFinite
  <1> QED
    BY <1>1, Add!FoldSame DEF Sum

LEMMA SumOfZeros ==
  ASSUME NEW S, IsFiniteSet(S), NEW f, \A x \in S : f[x] = 0
  PROVE  Sum(f, S) = 0
  <1> DEFINE N == {s \in SUBSET S : Sum(f, s) = 0}
  <1>1. {} \in N
    BY SumOfNothing
  <1>2. ASSUME NEW s \in SUBSET S, NEW x \in S, s \in N, x \notin s
        PROVE  s \union {x} \in N
    <2>1. PICK t : t = s \union {x}
      OBVIOUS
    <2>2. IsFiniteSet(t) /\ t \in SUBSET S
      BY <2>1, FS_Subset
    <2>3. Sum(f, t) = Sum(f, s) + f[x]
      BY <1>2, <2>1, <2>2, AddsOne
    <2> QED
      BY <1>2, <2>1, <2>2, <2>3
  <1> HIDE DEF N
  <1>3. S \in N
    BY <1>1, <1>2, AddFinite, Add!SubsetInduction
  <1> QED
    BY <1>3 DEF N

\* What counts the ones of an indicator that is one at x only.
LEMMA SumOfOne ==
  ASSUME NEW S, IsFiniteSet(S), NEW f, NEW x \in S, f[x] = 1,
         \A y \in S : y # x => f[y] = 0
  PROVE  Sum(f, S) = 1
  <1>1. PICK T : T = S \ {x}
    OBVIOUS
  <1>2. T \subseteq S /\ x \notin T /\ S = T \union {x}
    BY <1>1
  <1>3. IsFiniteSet(T) /\ \A y \in T : f[y] = 0
    BY <1>1, FS_Subset
  <1>4. Sum(f, T) = 0
    BY <1>3, SumOfZeros
  <1>5. \A y \in S : f[y] \in Int
    OBVIOUS
  <1>6. Sum(f, S) = Sum(f, T) + f[x]
    BY <1>2, <1>5, AddsOne
  <1> QED
    BY <1>4, <1>6

(***************************************************************************)
(* What rows add up to.                                                    *)
(***************************************************************************)
LEMMA AmountType ==
  ASSUME NEW rows, Table(rows), NEW row \in rows
  PROVE  AmountCentsOf(row) \in Int
  BY DEF Table, IsRow, AmountCentsOf

LEMMA AmountsIsSum ==
  ASSUME NEW rows
  PROVE  Amounts(rows) = Sum([row \in rows |-> AmountCentsOf(row)], rows)
  <1> DEFINE f == [row \in rows |-> AmountCentsOf(row)]
  <1>1. DOMAIN f = rows
    OBVIOUS
  <1> HIDE DEF f
  <1>2. SumFunction(f) = Sum(f, rows)
    BY <1>1, SumFunctionIsSum
  <1> QED
    BY <1>2 DEF f, Amounts

LEMMA AmountsOfNothing == Amounts({}) = 0
  BY AmountsIsSum, SumOfNothing

LEMMA AmountsAdd ==
  ASSUME NEW S, Table(S), NEW row \in S, NEW T, row \notin T, S = T \union {row}
  PROVE  /\ Amounts(S) \in Int /\ Amounts(T) \in Int
         /\ Amounts(S) = Amounts(T) + AmountCentsOf(row)
  <1> DEFINE f == [r \in S |-> AmountCentsOf(r)]
             g == [r \in T |-> AmountCentsOf(r)]
  <1>1. IsFiniteSet(S) /\ IsFiniteSet(T)
    BY FS_Subset DEF Table
  <1>2. \A r \in S : f[r] = AmountCentsOf(r) /\ f[r] \in Int
    BY AmountType
  <1>3. \A r \in T : f[r] = g[r]
    OBVIOUS
  <1>4. Amounts(S) = Sum(f, S) /\ Amounts(T) = Sum(g, T)
    BY AmountsIsSum
  <1> HIDE DEF f, g
  <1>5. Sum(f, T) = Sum(g, T)
    BY <1>1, <1>3, SumSame
  <1>6. /\ Sum(f, S) \in Int /\ Sum(f, T) \in Int
        /\ Sum(f, S) = Sum(f, T) + f[row]
    BY <1>1, <1>2, AddsOne
  <1> QED
    BY <1>2, <1>4, <1>5, <1>6

LEMMA AmountsType ==
  ASSUME NEW S, Table(S)
  PROVE  Amounts(S) \in Int
  <1>1. CASE S = {}
    BY <1>1, AmountsOfNothing
  <1>2. CASE S # {}
    <2>1. PICK row \in S : TRUE
      BY <1>2
    <2>2. PICK T : T = S \ {row}
      OBVIOUS
    <2>3. row \notin T /\ S = T \union {row}
      BY <2>2
    <2> QED
      BY <2>3, AmountsAdd
  <1> QED
    BY <1>1, <1>2

\* Rows that leave money and rows that bring it add up to all of them.
Negative(rows) == {row \in rows : AmountCentsOf(row) < 0}
Positive(rows) == {row \in rows : AmountCentsOf(row) > 0}

LEMMA AmountsOfBoth ==
  ASSUME NEW rows, Table(rows)
  PROVE  Amounts(Negative(rows)) + Amounts(Positive(rows)) = Amounts(rows)
  <1> DEFINE N == {s \in SUBSET rows :
                     Amounts(Negative(s)) + Amounts(Positive(s)) = Amounts(s)}
  <1>1. {} \in N
    <2>1. Negative({}) = {} /\ Positive({}) = {}
      BY DEF Negative, Positive
    <2> QED
      BY <2>1, AmountsOfNothing
  <1>2. ASSUME NEW s \in SUBSET rows, NEW row \in rows, s \in N, row \notin s
        PROVE  s \union {row} \in N
    <2>1. PICK t, n, p : t = s \union {row} /\ n = Negative(t) /\ p = Positive(t)
      OBVIOUS
    <2>2. PICK m, q : m = Negative(s) /\ q = Positive(s)
      OBVIOUS
    <2>3. /\ t \subseteq rows /\ n \subseteq rows /\ p \subseteq rows
          /\ m \subseteq rows /\ q \subseteq rows /\ row \notin m /\ row \notin q
      BY <1>2, <2>1, <2>2 DEF Negative, Positive
    <2>4. Table(t) /\ Table(n) /\ Table(p) /\ Table(m) /\ Table(q)
      BY <2>3, PartOfTable
    <2>5. Amounts(t) = Amounts(s) + AmountCentsOf(row) /\ Amounts(s) \in Int
      BY <1>2, <2>1, <2>4, AmountsAdd
    <2>6. Amounts(m) + Amounts(q) = Amounts(s)
      BY <1>2, <2>2
    <2>7. /\ Amounts(m) \in Int /\ Amounts(q) \in Int /\ AmountCentsOf(row) \in Int
      BY <2>4, AmountsType, AmountType
    <2>8. CASE AmountCentsOf(row) < 0
      <3>1. n = m \union {row} /\ p = q
        BY <2>1, <2>2, <2>7, <2>8 DEF Negative, Positive
      <3>2. Amounts(n) = Amounts(m) + AmountCentsOf(row)
        BY <2>3, <2>4, <3>1, AmountsAdd
      <3> QED
        BY <2>1, <2>3, <2>5, <2>6, <2>7, <3>1, <3>2
    <2>9. CASE AmountCentsOf(row) > 0
      <3>1. p = q \union {row} /\ n = m
        BY <2>1, <2>2, <2>7, <2>9 DEF Negative, Positive
      <3>2. Amounts(p) = Amounts(q) + AmountCentsOf(row)
        BY <2>3, <2>4, <3>1, AmountsAdd
      <3> QED
        BY <2>1, <2>3, <2>5, <2>6, <2>7, <3>1, <3>2
    <2>10. CASE AmountCentsOf(row) = 0
      <3>1. p = q /\ n = m
        BY <2>1, <2>2, <2>10 DEF Negative, Positive
      <3>2. Amounts(t) = Amounts(s)
        BY <2>5, <2>10
      <3>3. Amounts(n) + Amounts(p) = Amounts(t)
        BY <2>6, <3>1, <3>2
      <3> QED
        BY <2>1, <2>3, <3>3
    <2> QED
      BY <2>7, <2>8, <2>9, <2>10
  <1> HIDE DEF N
  <1>3. IsFiniteSet(rows)
    BY DEF Table
  <1>4. rows \in N
    BY <1>1, <1>2, <1>3, AddFinite, Add!SubsetInduction
  <1> QED
    BY <1>4 DEF N

(***************************************************************************)
(* A loop over the rows of a table: the rows of the turns so far.          *)
(***************************************************************************)
Enumerates(rows, set) ==
  /\ rows \in Seq(set) /\ ToSet(rows) = set
  /\ \A i, j \in 1 .. Len(rows) : rows[i] = rows[j] => i = j

Before(rows, n) == {rows[i] : i \in 1 .. n}

LEMMA FirstTurns ==
  ASSUME NEW set, NEW rows, Enumerates(rows, set)
  PROVE  /\ Len(rows) \in Nat
         /\ Before(rows, 0) = {} /\ Before(rows, Len(rows)) = set
  <1>1. Len(rows) \in Nat /\ DOMAIN rows = 1 .. Len(rows)
    BY DEF Enumerates
  <1>2. Before(rows, Len(rows)) = ToSet(rows)
    BY <1>1 DEF Before, ToSet
  <1>3. 1 .. 0 = {}
    OBVIOUS
  <1> QED
    BY <1>1, <1>2, <1>3 DEF Enumerates, Before

LEMMA OneTurn ==
  ASSUME NEW set, NEW rows, Enumerates(rows, set), NEW n \in Nat, n < Len(rows)
  PROVE  \E row \in set, T \in SUBSET set, S \in SUBSET set :
           /\ row = rows[n + 1] /\ T = Before(rows, n) /\ S = Before(rows, n + 1)
           /\ row \notin T /\ S = T \union {row}
  <1>1. Len(rows) \in Nat /\ n + 1 \in 1 .. Len(rows)
    BY DEF Enumerates
  <1>2. \A i \in 1 .. Len(rows) : rows[i] \in set
    BY DEF Enumerates
  <1>3. \A i \in 1 .. n : i \in 1 .. Len(rows) /\ i # n + 1
    BY <1>1
  <1>4. 1 .. n + 1 = (1 .. n) \union {n + 1}
    OBVIOUS
  <1>5. rows[n + 1] \notin Before(rows, n)
    BY <1>1, <1>3 DEF Before, Enumerates
  <1>6. Before(rows, n + 1) = Before(rows, n) \union {rows[n + 1]}
    BY <1>4 DEF Before
  <1>7. Before(rows, n) \subseteq set /\ Before(rows, n + 1) \subseteq set /\ rows[n + 1] \in set
    BY <1>1, <1>2, <1>3, <1>6 DEF Before
  <1> QED
    BY <1>5, <1>6, <1>7

LEMMA NothingEnumerated == Enumerates(<<>>, {})
  BY DEF Enumerates, ToSet

LEMMA EnumeratesAdd ==
  ASSUME NEW T, NEW rows, Enumerates(rows, T), NEW row, row \notin T, NEW S, S = T \union {row},
         NEW more, more = Append(rows, row)
  PROVE  Enumerates(more, S)
  <1>1. /\ rows \in Seq(S) /\ row \in S /\ Len(rows) \in Nat
        /\ \A i \in 1 .. Len(rows) : rows[i] \in T
    BY DEF Enumerates
  <1>2. /\ more \in Seq(S) /\ Len(more) = Len(rows) + 1 /\ more[Len(rows) + 1] = row
        /\ \A i \in 1 .. Len(rows) : more[i] = rows[i]
    BY <1>1
  <1>3. \A i, j \in 1 .. Len(more) : more[i] = more[j] => i = j
    <2> SUFFICES ASSUME NEW i \in 1 .. Len(more), NEW j \in 1 .. Len(more), more[i] = more[j]
                 PROVE  i = j
      OBVIOUS
    <2>1. (i \in 1 .. Len(rows) \/ i = Len(rows) + 1) /\ (j \in 1 .. Len(rows) \/ j = Len(rows) + 1)
      BY <1>1, <1>2
    <2> QED
      BY <1>1, <1>2, <2>1 DEF Enumerates
  <1>4. DOMAIN more = 1 .. Len(rows) + 1 /\ DOMAIN rows = 1 .. Len(rows)
    BY <1>1, <1>2
  <1>5. ASSUME NEW x \in S PROVE x \in ToSet(more)
    <2>1. CASE x = row
      BY <1>1, <1>2, <1>4, <2>1 DEF ToSet
    <2>2. CASE x \in T
      <3>1. PICK i \in 1 .. Len(rows) : rows[i] = x
        BY <1>4, <2>2 DEF Enumerates, ToSet
      <3> QED
        BY <1>1, <1>2, <1>4, <3>1 DEF ToSet
    <2> QED
      BY <1>5, <2>1, <2>2
  <1>6. ToSet(more) \subseteq S
    BY <1>2, <1>4 DEF ToSet
  <1> QED
    BY <1>2, <1>3, <1>5, <1>6 DEF Enumerates

\* A figure says what its rows add up to and which they are.
IsFigure(figure, rows) ==
  figure.total = Amounts(rows) /\ figure.ids \in Seq(Int) /\ ToSet(figure.ids) = Ids(rows)

LEMMA NoFigureOfNothing == IsFigure(NoFigure, {})
  BY AmountsOfNothing DEF IsFigure, NoFigure, ToSet, Ids

LEMMA FigureAdds ==
  ASSUME NEW S, Table(S), NEW row \in S, NEW T, row \notin T, S = T \union {row},
         NEW figure, IsFigure(figure, T)
  PROVE  IsFigure(AddTo(figure, row), S)
  <1> DEFINE ids == figure.ids
             more == Append(ids, row.id)
  <1>1. Amounts(S) = Amounts(T) + AmountCentsOf(row)
    BY AmountsAdd
  <1>2. ids \in Seq(Int) /\ row.id \in Int /\ ToSet(ids) = Ids(T)
    BY RowType DEF IsFigure
  <1>3. AddTo(figure, row).total = Amounts(S) /\ AddTo(figure, row).ids = more
    BY <1>1 DEF AddTo, IsFigure
  <1> HIDE DEF ids
  <1>4. /\ more \in Seq(Int) /\ Len(more) = Len(ids) + 1 /\ Len(ids) \in Nat
        /\ more[Len(ids) + 1] = row.id /\ \A i \in 1 .. Len(ids) : more[i] = ids[i]
        /\ DOMAIN ids = 1 .. Len(ids)
    BY <1>2
  <1> HIDE DEF more
  <1>5. DOMAIN more = (1 .. Len(ids)) \union {Len(ids) + 1}
    BY <1>4
  <1>6. ToSet(more) = ToSet(ids) \union {row.id}
    BY <1>4, <1>5 DEF ToSet
  <1>7. Ids(S) = Ids(T) \union {row.id}
    BY DEF Ids
  <1> QED
    BY <1>2, <1>3, <1>4, <1>6, <1>7 DEF IsFigure

\* Groups have a figure for each key that a row has: that of the rows with it.
WithKey(rows, key, k) == {row \in rows : key[row] = k}
AreGroups(groups, key, rows) ==
  /\ IsFiniteSet(DOMAIN groups)
  /\ \A k : k \in DOMAIN groups <=> \E row \in rows : key[row] = k
  /\ \A k \in DOMAIN groups : IsFigure(groups[k], WithKey(rows, key, k))
  /\ SumOf(groups) = Amounts(rows)

LEMMA SumOfIsSum ==
  ASSUME NEW figures
  PROVE  SumOf(figures) = Sum([k \in DOMAIN figures |-> figures[k].total], DOMAIN figures)
  <1> DEFINE f == [k \in DOMAIN figures |-> figures[k].total]
  <1>1. DOMAIN f = DOMAIN figures
    OBVIOUS
  <1> HIDE DEF f
  <1>2. SumFunction(f) = Sum(f, DOMAIN figures)
    BY <1>1, SumFunctionIsSum
  <1> QED
    BY <1>2 DEF f, SumOf

LEMMA NoGroupsOfNothing == ASSUME NEW key PROVE AreGroups(NoGroups, key, {})
  <1>1. DOMAIN NoGroups = {} /\ IsFiniteSet({})
    BY FS_EmptySet DEF NoGroups
  <1>2. SumOf(NoGroups) = 0
    BY <1>1, SumOfIsSum, SumOfNothing
  <1> QED
    BY <1>1, <1>2, AmountsOfNothing DEF AreGroups

LEMMA GroupsAdd ==
  ASSUME NEW S, Table(S), NEW row \in S, NEW T, row \notin T, S = T \union {row},
         NEW key, NEW groups, AreGroups(groups, key, T)
  PROVE  AreGroups(Grouped(groups, key[row], row), key, S)
  <1> DEFINE k == key[row]
             more == Grouped(groups, k, row)
             D == DOMAIN groups
             old == IF k \in D THEN groups[k] ELSE NoFigure
             f == [i \in D |-> groups[i].total]
             g == [i \in D \union {k} |-> more[i].total]
  <1>1. /\ DOMAIN more = D \union {k} /\ more[k] = AddTo(old, row)
        /\ \A i \in D : i # k => more[i] = groups[i]
    BY DEF Grouped
  <1>2. IsFiniteSet(D) /\ IsFiniteSet(D \union {k})
    BY FS_AddElement DEF AreGroups
  <1>3. \A i : /\ i \in D <=> \E r \in T : key[r] = i
               /\ i \in D => IsFigure(groups[i], WithKey(T, key, i))
    BY DEF AreGroups
  <1>4. PICK part, whole : part = WithKey(T, key, k) /\ whole = WithKey(S, key, k)
    OBVIOUS
  <1>5. row \notin part /\ row \in whole /\ whole = part \union {row} /\ whole \subseteq S
    BY <1>4 DEF WithKey
  <1>6. Table(whole) /\ Table(T)
    BY <1>5, PartOfTable
  <1>7. IsFigure(old, part)
    <2>1. CASE k \in D
      BY <1>3, <1>4, <2>1
    <2>2. CASE k \notin D
      <3>1. part = {}
        BY <1>3, <1>4, <2>2 DEF WithKey
      <3> QED
        BY <2>2, <3>1, NoFigureOfNothing
    <2> QED
      BY <2>1, <2>2
  <1>8. IsFigure(more[k], whole)
    BY <1>1, <1>5, <1>6, <1>7, FigureAdds
  <1>9. ASSUME NEW i \in D, i # k
        PROVE  IsFigure(more[i], WithKey(S, key, i))
    <2>1. WithKey(S, key, i) = WithKey(T, key, i)
      BY <1>9 DEF WithKey
    <2> QED
      BY <1>1, <1>3, <1>9, <2>1
  <1>10. /\ Amounts(S) = Amounts(T) + AmountCentsOf(row) /\ Amounts(T) \in Int
         /\ AmountCentsOf(row) \in Int
    BY AmountsAdd, AmountType
  <1>11. ASSUME NEW i \in D PROVE f[i] \in Int
    <2>1. PICK p : p = WithKey(T, key, i)
      OBVIOUS
    <2>2. Table(p)
      BY <1>6, <2>1, PartOfTable DEF WithKey
    <2> QED
      BY <1>3, <2>1, <2>2, AmountsType DEF IsFigure
  <1>12. old.total \in Int /\ (k \in D => old.total = f[k]) /\ (k \notin D => old.total = 0)
    BY <1>11 DEF NoFigure
  <1>13. g[k] = old.total + AmountCentsOf(row) /\ \A i \in D : i # k => g[i] = f[i]
    BY <1>1 DEF AddTo
  <1>14. \A i \in D \union {k} : g[i] \in Int
    BY <1>10, <1>11, <1>12, <1>13
  <1>15. SumOf(more) = Sum(g, D \union {k}) /\ SumOf(groups) = Sum(f, D)
    BY <1>1, SumOfIsSum
  <1>16. SumOf(groups) = Amounts(T)
    BY DEF AreGroups
  <1>17. PICK whole2 : whole2 = D \union {k}
    OBVIOUS
  <1>18. PICK rest : rest = D \ {k}
    OBVIOUS
  <1>19. /\ k \notin rest /\ whole2 = rest \union {k} /\ k \in whole2 /\ rest \subseteq D
         /\ k \in D => D = rest \union {k}
         /\ k \notin D => D = rest
    BY <1>17, <1>18
  <1> HIDE DEF D, more, old, f, g, k
  <1>20. IsFiniteSet(rest)
    BY <1>2, <1>19, FS_Subset
  <1>21. Sum(f, rest) = Sum(g, rest)
    BY <1>13, <1>19, <1>20, SumSame
  <1>22. Sum(g, whole2) = Sum(g, rest) + g[k] /\ Sum(g, rest) \in Int
    BY <1>2, <1>14, <1>17, <1>19, AddsOne
  <1>23. Sum(f, D) = Sum(f, rest) + old.total
    <2>1. CASE k \in D
      <3>1. Sum(f, D) = Sum(f, rest) + f[k]
        BY <1>2, <1>11, <1>19, <2>1, AddsOne
      <3> QED
        BY <1>12, <2>1, <3>1
    <2>2. CASE k \notin D
      BY <1>12, <1>19, <1>21, <1>22, <2>2
    <2> QED
      BY <2>1, <2>2
  <1>24. SumOf(more) = Amounts(S)
    <2>1. SumOf(more) = Sum(g, whole2)
      BY <1>15, <1>17
    <2>2. Sum(g, whole2) = Sum(g, rest) + (old.total + AmountCentsOf(row))
      BY <1>13, <1>22
    <2>3. Amounts(T) = Sum(g, rest) + old.total
      BY <1>15, <1>16, <1>21, <1>23
    <2> QED
      BY <1>10, <1>12, <1>22, <2>1, <2>2, <2>3
  <1>25. \A i : i \in D \union {k} <=> \E r \in S : key[r] = i
    BY <1>3 DEF k
  <1>26. \A i \in D \union {k} : IsFigure(more[i], WithKey(S, key, i))
    BY <1>4, <1>8, <1>9
  <1>27. AreGroups(more, key, S)
    BY <1>1, <1>2, <1>24, <1>25, <1>26 DEF AreGroups
  <1> QED
    BY <1>27 DEF more, k

(***************************************************************************)
(* The loops.                                                              *)
(***************************************************************************)
LastTurnOf(T) == Max(T)

TraceStep(p, figure, row) == AddTo(figure, row)
Trace == INSTANCE Folding WITH Op <- TraceStep, Base <- NoFigure, Pick <- LastTurnOf

KeptStep(wanted, kept, row) == Keep(kept, row, wanted)
Filter == INSTANCE Folding WITH Op <- KeptStep, Base <- <<>>, Pick <- LastTurnOf

ClassifiedStep(p, parts, row) == Classified(parts, row, p.known, p.asOf)
Classify == INSTANCE Folding WITH Op <- ClassifiedStep, Base <- NoParts, Pick <- LastTurnOf

BucketStep(p, groups, row) == Grouped(groups, BucketOf(row), row)
Bucket == INSTANCE Folding WITH Op <- BucketStep, Base <- NoGroups, Pick <- LastTurnOf

LEMMA TraceTurns ==
  ASSUME NEW rows, NEW n \in Nat
  PROVE  /\ Trace!Turns(0, rows, 0) = NoFigure
         /\ Trace!Turns(0, rows, n + 1) = AddTo(Trace!Turns(0, rows, n), rows[n + 1])
  <1>1. Trace!PicksLast
    BY DEF Trace!PicksLast, Trace!Last, LastTurnOf, Max
  <1> QED
    BY <1>1, Trace!NoTurns, Trace!NextTurn DEF TraceStep

LEMMA TraceIsLoop ==
  ASSUME NEW set, NEW rows \in Seq(set)
  PROVE  TraceFigure(rows) = Trace!Turns(0, rows, Len(rows))
  <1>1. TraceFigure(rows) = Trace!Fold(0, rows, DOMAIN rows)
    BY DEF TraceFigure, FoldLeft, MapThenFoldSet, Trace!MapThenFoldSet, Trace!Fold,
           TraceStep, AddTo, LastTurnOf
  <1> QED
    BY <1>1 DEF Trace!Turns

LEMMA FilterTurns ==
  ASSUME NEW rows, NEW wanted, NEW n \in Nat
  PROVE  /\ Filter!Turns(wanted, rows, 0) = <<>>
         /\ Filter!Turns(wanted, rows, n + 1) = Keep(Filter!Turns(wanted, rows, n), rows[n + 1], wanted)
  <1>1. Filter!PicksLast
    BY DEF Filter!PicksLast, Filter!Last, LastTurnOf, Max
  <1> QED
    BY <1>1, Filter!NoTurns, Filter!NextTurn DEF KeptStep

LEMMA FilterIsLoop ==
  ASSUME NEW set, NEW rows \in Seq(set), NEW wanted
  PROVE  Kept(rows, wanted) = Filter!Turns(wanted, rows, Len(rows))
  <1>1. Kept(rows, wanted) = Filter!Fold(wanted, rows, DOMAIN rows)
    BY DEF Kept, FoldLeft, MapThenFoldSet, Filter!MapThenFoldSet, Filter!Fold, KeptStep, LastTurnOf
  <1> QED
    BY <1>1 DEF Filter!Turns

LEMMA ClassifyTurns ==
  ASSUME NEW rows, NEW p, NEW n \in Nat
  PROVE  /\ Classify!Turns(p, rows, 0) = NoParts
         /\ Classify!Turns(p, rows, n + 1)
              = Classified(Classify!Turns(p, rows, n), rows[n + 1], p.known, p.asOf)
  <1>1. Classify!PicksLast
    BY DEF Classify!PicksLast, Classify!Last, LastTurnOf, Max
  <1> QED
    BY <1>1, Classify!NoTurns, Classify!NextTurn DEF ClassifiedStep

LEMMA ClassifyIsLoop ==
  ASSUME NEW set, NEW rows \in Seq(set), NEW p
  PROVE  PartitionSpending(rows, p.known, p.asOf) = Classify!Turns(p, rows, Len(rows))
  <1>1. PartitionSpending(rows, p.known, p.asOf) = Classify!Fold(p, rows, DOMAIN rows)
    BY DEF PartitionSpending, FoldLeft, MapThenFoldSet, Classify!MapThenFoldSet, Classify!Fold,
           ClassifiedStep, LastTurnOf
  <1> QED
    BY <1>1 DEF Classify!Turns

LEMMA BucketTurns ==
  ASSUME NEW rows, NEW n \in Nat
  PROVE  /\ Bucket!Turns(0, rows, 0) = NoGroups
         /\ Bucket!Turns(0, rows, n + 1)
              = Grouped(Bucket!Turns(0, rows, n), BucketOf(rows[n + 1]), rows[n + 1])
  <1>1. Bucket!PicksLast
    BY DEF Bucket!PicksLast, Bucket!Last, LastTurnOf, Max
  <1> QED
    BY <1>1, Bucket!NoTurns, Bucket!NextTurn DEF BucketStep

LEMMA BucketIsLoop ==
  ASSUME NEW set, NEW rows \in Seq(set)
  PROVE  ByCategory(rows) = Bucket!Turns(0, rows, Len(rows))
  <1>1. ByCategory(rows) = Bucket!Fold(0, rows, DOMAIN rows)
    BY DEF ByCategory, FoldLeft, MapThenFoldSet, Bucket!MapThenFoldSet, Bucket!Fold,
           BucketStep, LastTurnOf
  <1> QED
    BY <1>1 DEF Bucket!Turns

\* traceFigure has the figure of the rows it is given.
LEMMA FigureOfRows ==
  ASSUME NEW set, Table(set), NEW rows, Enumerates(rows, set)
  PROVE  IsFigure(TraceFigure(rows), set)
  <1> DEFINE N == {n \in Nat : n <= Len(rows) => IsFigure(Trace!Turns(0, rows, n), Before(rows, n))}
  <1>1. 0 \in N
    BY FirstTurns, TraceTurns, NoFigureOfNothing
  <1>2. ASSUME NEW n \in Nat, n \in N PROVE n + 1 \in N
    <2> SUFFICES ASSUME n + 1 <= Len(rows)
                 PROVE  IsFigure(Trace!Turns(0, rows, n + 1), Before(rows, n + 1))
      OBVIOUS
    <2>1. Len(rows) \in Nat /\ n < Len(rows)
      BY FirstTurns
    <2>2. PICK row \in set, T \in SUBSET set, S \in SUBSET set :
            /\ row = rows[n + 1] /\ T = Before(rows, n) /\ S = Before(rows, n + 1)
            /\ row \notin T /\ S = T \union {row}
      BY <2>1, OneTurn
    <2>3. Table(S)
      BY PartOfTable
    <2>4. IsFigure(Trace!Turns(0, rows, n), T)
      BY <1>2, <2>1, <2>2
    <2>5. IsFigure(AddTo(Trace!Turns(0, rows, n), row), S)
      BY <2>2, <2>3, <2>4, FigureAdds
    <2> QED
      BY <2>2, <2>5, TraceTurns
  <1> HIDE DEF N
  <1>3. Nat \subseteq N
    BY <1>1, <1>2, Trace!NatSet
  <1>4. IsFigure(Trace!Turns(0, rows, Len(rows)), set)
    BY <1>3, FirstTurns DEF N
  <1> QED
    BY <1>4, TraceIsLoop DEF Enumerates

\* A filter keeps the rows wanted, in their order, each of them once.
LEMMA KeptRows ==
  ASSUME NEW set, NEW rows, Enumerates(rows, set), NEW wanted
  PROVE  Enumerates(Kept(rows, wanted), set \intersect wanted)
  <1> DEFINE kept(n) == Filter!Turns(wanted, rows, n)
             N == {n \in Nat : n <= Len(rows) => Enumerates(kept(n), Before(rows, n) \intersect wanted)}
  <1>1. 0 \in N
    <2>1. Before(rows, 0) \intersect wanted = {}
      BY FirstTurns
    <2>2. kept(0) = <<>>
      BY FilterTurns
    <2> QED
      BY <2>1, <2>2, NothingEnumerated
  <1>2. ASSUME NEW n \in Nat, n \in N PROVE n + 1 \in N
    <2> SUFFICES ASSUME n + 1 <= Len(rows)
                 PROVE  Enumerates(kept(n + 1), Before(rows, n + 1) \intersect wanted)
      OBVIOUS
    <2>1. Len(rows) \in Nat /\ n < Len(rows)
      BY FirstTurns
    <2>2. PICK row \in set, T \in SUBSET set, S \in SUBSET set :
            /\ row = rows[n + 1] /\ T = Before(rows, n) /\ S = Before(rows, n + 1)
            /\ row \notin T /\ S = T \union {row}
      BY <2>1, OneTurn
    <2>3. PICK old, new : old = T \intersect wanted /\ new = S \intersect wanted
      OBVIOUS
    <2>4. Enumerates(kept(n), old)
      BY <1>2, <2>1, <2>2, <2>3
    <2>5. kept(n + 1) = Keep(kept(n), row, wanted)
      BY <2>2, FilterTurns
    <2> HIDE DEF kept
    <2>6. Enumerates(kept(n + 1), new)
      <3>1. CASE row \in wanted
        <4>1. row \notin old /\ new = old \union {row}
          BY <2>2, <2>3, <3>1
        <4>2. PICK more : more = Append(kept(n), row)
          OBVIOUS
        <4>3. kept(n + 1) = more
          BY <2>5, <3>1, <4>2 DEF Keep
        <4> QED
          BY <2>4, <4>1, <4>2, <4>3, EnumeratesAdd
      <3>2. CASE row \notin wanted
        <4>1. new = old
          BY <2>2, <2>3, <3>2
        <4>2. kept(n + 1) = kept(n)
          BY <2>5, <3>2 DEF Keep
        <4> QED
          BY <2>4, <4>1, <4>2
      <3> QED
        BY <3>1, <3>2
    <2> QED
      BY <2>2, <2>3, <2>6
  <1> HIDE DEF N, kept
  <1>3. Nat \subseteq N
    BY <1>1, <1>2, Filter!NatSet
  <1>4. Enumerates(kept(Len(rows)), set \intersect wanted)
    BY <1>3, FirstTurns DEF N
  <1> QED
    BY <1>4, FilterIsLoop DEF Enumerates, kept

\* The rows of a month, or any others, by category: each under one key.
LEMMA CategoryGroups ==
  ASSUME NEW set, Table(set), NEW rows, Enumerates(rows, set),
         NEW key, \A row \in set : key[row] = BucketOf(row)
  PROVE  AreGroups(ByCategory(rows), key, set)
  <1> DEFINE groups(n) == Bucket!Turns(0, rows, n)
             N == {n \in Nat : n <= Len(rows) => AreGroups(groups(n), key, Before(rows, n))}
  <1>1. 0 \in N
    BY FirstTurns, BucketTurns, NoGroupsOfNothing
  <1>2. ASSUME NEW n \in Nat, n \in N PROVE n + 1 \in N
    <2> SUFFICES ASSUME n + 1 <= Len(rows)
                 PROVE  AreGroups(groups(n + 1), key, Before(rows, n + 1))
      OBVIOUS
    <2>1. Len(rows) \in Nat /\ n < Len(rows)
      BY FirstTurns
    <2>2. PICK row \in set, T \in SUBSET set, S \in SUBSET set :
            /\ row = rows[n + 1] /\ T = Before(rows, n) /\ S = Before(rows, n + 1)
            /\ row \notin T /\ S = T \union {row}
      BY <2>1, OneTurn
    <2>3. Table(S)
      BY PartOfTable
    <2>4. AreGroups(groups(n), key, T)
      BY <1>2, <2>1, <2>2
    <2>5. groups(n + 1) = Grouped(groups(n), key[row], row)
      BY <2>2, BucketTurns
    <2> HIDE DEF groups
    <2>6. AreGroups(groups(n + 1), key, S)
      BY <2>2, <2>3, <2>4, <2>5, GroupsAdd
    <2> QED
      BY <2>2, <2>6
  <1> HIDE DEF N, groups
  <1>3. Nat \subseteq N
    BY <1>1, <1>2, Bucket!NatSet
  <1>4. AreGroups(groups(Len(rows)), key, set)
    BY <1>3, FirstTurns DEF N
  <1> QED
    BY <1>4, BucketIsLoop DEF Enumerates, groups

\* partitionSpending: the rows that count, and the others by what they are.
Counting(set, key) == {row \in set : key[row] = "spending"}
NotCounting(set, key) == {row \in set : key[row] # "spending"}
Parted(parts, key, set) ==
  /\ parts = [spending |-> parts.spending, exclusions |-> parts.exclusions]
  /\ Enumerates(parts.spending, Counting(set, key))
  /\ AreGroups(parts.exclusions, key, NotCounting(set, key))

LEMMA PartedRows ==
  ASSUME NEW set, Table(set), NEW rows, Enumerates(rows, set), NEW known, NEW asOf,
         NEW key, \A row \in set : key[row] = ClassifySpending(row, known, asOf)
  PROVE  Parted(PartitionSpending(rows, known, asOf), key, set)
  <1> DEFINE p == [known |-> known, asOf |-> asOf]
             parts(n) == Classify!Turns(p, rows, n)
             N == {n \in Nat : n <= Len(rows) => Parted(parts(n), key, Before(rows, n))}
  <1>1. 0 \in N
    <2>1. parts(0) = NoParts
      BY ClassifyTurns
    <2>2. Counting({}, key) = {} /\ NotCounting({}, key) = {}
      BY DEF Counting, NotCounting
    <2>3. Parted(NoParts, key, {})
      BY <2>2, NothingEnumerated, NoGroupsOfNothing DEF Parted, NoParts
    <2> QED
      BY <2>1, <2>3, FirstTurns
  <1>2. ASSUME NEW n \in Nat, n \in N PROVE n + 1 \in N
    <2> SUFFICES ASSUME n + 1 <= Len(rows)
                 PROVE  Parted(parts(n + 1), key, Before(rows, n + 1))
      OBVIOUS
    <2>1. Len(rows) \in Nat /\ n < Len(rows)
      BY FirstTurns
    <2>2. PICK row \in set, T \in SUBSET set, S \in SUBSET set :
            /\ row = rows[n + 1] /\ T = Before(rows, n) /\ S = Before(rows, n + 1)
            /\ row \notin T /\ S = T \union {row}
      BY <2>1, OneTurn
    <2>3. Table(S)
      BY PartOfTable
    <2>4. Parted(parts(n), key, T)
      BY <1>2, <2>1, <2>2
    <2>5. parts(n + 1) = Classified(parts(n), row, known, asOf)
      <3>1. parts(n + 1) = Classified(parts(n), rows[n + 1], p.known, p.asOf)
        BY ClassifyTurns
      <3>2. p.known = known /\ p.asOf = asOf
        OBVIOUS
      <3> HIDE DEF parts, p
      <3> QED
        BY <2>2, <3>1, <3>2
    <2>6. PICK was : was = parts(n)
      OBVIOUS
    <2> HIDE DEF parts
    <2>7. PICK c, d, x, y : /\ c = Counting(T, key) /\ d = Counting(S, key)
                            /\ x = NotCounting(T, key) /\ y = NotCounting(S, key)
      OBVIOUS
    <2>8. /\ was = [spending |-> was.spending, exclusions |-> was.exclusions]
          /\ Enumerates(was.spending, c) /\ AreGroups(was.exclusions, key, x)
      BY <2>4, <2>6, <2>7 DEF Parted
    <2>9. /\ Table(c) /\ Table(d) /\ Table(x) /\ Table(y)
          /\ row \notin c /\ row \notin x
      <3>1. c \subseteq set /\ d \subseteq set /\ x \subseteq set /\ y \subseteq set
        BY <2>7 DEF Counting, NotCounting
      <3> QED
        BY <2>2, <2>7, <3>1, PartOfTable DEF Counting, NotCounting
    <2>10. /\ parts(n + 1) = [spending |-> parts(n + 1).spending,
                             exclusions |-> parts(n + 1).exclusions]
           /\ Enumerates(parts(n + 1).spending, d)
           /\ AreGroups(parts(n + 1).exclusions, key, y)
      <3>1. CASE key[row] = "spending"
        <4>1. d = c \union {row} /\ y = x
          BY <2>2, <2>7, <3>1 DEF Counting, NotCounting
        <4>2. PICK more : more = Append(was.spending, row)
          OBVIOUS
        <4>3. parts(n + 1) = [spending |-> more, exclusions |-> was.exclusions]
          BY <2>5, <2>6, <2>8, <3>1, <4>2 DEF Classified
        <4>4. Enumerates(more, d)
          BY <2>8, <2>9, <4>1, <4>2, EnumeratesAdd
        <4> QED
          BY <2>8, <4>1, <4>3, <4>4
      <3>2. CASE key[row] # "spending"
        <4>1. d = c /\ y = x \union {row}
          BY <2>2, <2>7, <3>2 DEF Counting, NotCounting
        <4>2. parts(n + 1) = [spending |-> was.spending,
                              exclusions |-> Grouped(was.exclusions, key[row], row)]
          BY <2>5, <2>6, <2>8, <3>2 DEF Classified
        <4> QED
          BY <2>8, <2>9, <4>1, <4>2, GroupsAdd
      <3> QED
        BY <3>1, <3>2
    <2> QED
      BY <2>2, <2>7, <2>10 DEF Parted
  <1> HIDE DEF N, parts, p
  <1>3. Nat \subseteq N
    BY <1>1, <1>2, Classify!NatSet
  <1>4. Parted(parts(Len(rows)), key, set)
    BY <1>3, FirstTurns DEF N
  <1>5. PartitionSpending(rows, p.known, p.asOf) = parts(Len(rows))
    BY ClassifyIsLoop DEF Enumerates, parts
  <1> QED
    BY <1>4, <1>5 DEF p

(***************************************************************************)
(* The months of a range.                                                  *)
(***************************************************************************)
LEMMA EnumeratesFirst ==
  ASSUME NEW T, NEW rest, Enumerates(rest, T), NEW x, x \notin T, NEW S, S = T \union {x},
         NEW all, all = <<x>> \o rest
  PROVE  Enumerates(all, S)
  <1>1. /\ rest \in Seq(S) /\ x \in S /\ Len(rest) \in Nat /\ DOMAIN rest = 1 .. Len(rest)
        /\ \A i \in 1 .. Len(rest) : rest[i] \in T
    BY DEF Enumerates
  <1>2. /\ all \in Seq(S) /\ Len(all) = Len(rest) + 1 /\ all[1] = x
        /\ \A i \in 2 .. Len(rest) + 1 : all[i] = rest[i - 1]
    BY <1>1
  <1>3. DOMAIN all = 1 .. Len(rest) + 1
    BY <1>1, <1>2
  <1>4. \A i, j \in 1 .. Len(all) : all[i] = all[j] => i = j
    <2> SUFFICES ASSUME NEW i \in 1 .. Len(all), NEW j \in 1 .. Len(all), all[i] = all[j]
                 PROVE  i = j
      OBVIOUS
    <2>1. \A k \in 1 .. Len(all) : k = 1 \/ (k \in 2 .. Len(rest) + 1 /\ k - 1 \in 1 .. Len(rest))
      BY <1>1, <1>2
    <2>2. i \in Int /\ j \in Int
      BY <1>1, <1>2
    <2>3. CASE i = 1 \/ j = 1
      BY <1>1, <1>2, <2>1, <2>3
    <2>4. CASE i # 1 /\ j # 1
      <3>1. rest[i - 1] = rest[j - 1] /\ i - 1 \in 1 .. Len(rest) /\ j - 1 \in 1 .. Len(rest)
        BY <1>2, <2>1, <2>4
      <3>2. i - 1 = j - 1
        BY <3>1 DEF Enumerates
      <3> QED
        BY <2>2, <3>2
    <2> QED
      BY <2>3, <2>4
  <1>5. ASSUME NEW y \in S PROVE y \in ToSet(all)
    <2>1. CASE y = x
      BY <1>1, <1>2, <1>3, <2>1 DEF ToSet
    <2>2. CASE y \in T
      <3>1. PICK i \in 1 .. Len(rest) : rest[i] = y
        BY <1>1, <2>2 DEF Enumerates, ToSet
      <3>2. i + 1 \in 2 .. Len(rest) + 1 /\ i + 1 \in DOMAIN all /\ i + 1 - 1 = i
        BY <1>1, <1>3
      <3>3. all[i + 1] = y
        BY <1>2, <3>1, <3>2
      <3> QED
        BY <3>2, <3>3 DEF ToSet
    <2> QED
      BY <1>5, <2>1, <2>2
  <1>6. ToSet(all) \subseteq S
    BY <1>1, <1>2, <1>3 DEF ToSet
  <1> QED
    BY <1>2, <1>4, <1>5, <1>6 DEF Enumerates

LEMMA EnumeratesOne == ASSUME NEW x PROVE Enumerates(<<x>>, {x})
  BY DEF Enumerates, ToSet

LEMMA MonthAfter ==
  ASSUME NEW month \in Nat
  PROVE  /\ NextMonth(month) \in Nat /\ NextMonth(month) > month
         /\ IsMonth(month) => /\ IsMonth(NextMonth(month))
                              /\ \A m \in Nat : IsMonth(m) /\ m > month => m >= NextMonth(month)
  BY DEF NextMonth, IsMonth, Year

\* The function MonthsBetween is defined with: it exists.
MonthsStep(f, last, month) ==
  IF month >= last THEN <<month>> ELSE <<month>> \o f[NextMonth(month)]
LastMonths(last, n) == {month \in Nat : month + n >= last}

LEMMA MonthsExist ==
  ASSUME NEW last \in Nat
  PROVE  \E f : f = [month \in Nat |-> MonthsStep(f, last, month)]
  <1> DEFINE N == {n \in Nat : \E f : f = [month \in LastMonths(last, n) |-> MonthsStep(f, last, month)]}
  <1>1. 0 \in N
    <2> DEFINE f == [month \in LastMonths(last, 0) |-> <<month>>]
    <2>1. f = [month \in LastMonths(last, 0) |-> MonthsStep(f, last, month)]
      BY DEF LastMonths, MonthsStep
    <2> QED
      BY <2>1
  <1>2. ASSUME NEW n \in Nat, n \in N PROVE n + 1 \in N
    <2>1. PICK f : f = [month \in LastMonths(last, n) |-> MonthsStep(f, last, month)]
      BY <1>2
    <2> DEFINE g == [month \in LastMonths(last, n + 1) |-> MonthsStep(f, last, month)]
    <2>2. LastMonths(last, n) \subseteq LastMonths(last, n + 1)
      BY DEF LastMonths
    <2>3. \A month \in LastMonths(last, n) : f[month] = MonthsStep(f, last, month)
      BY <2>1
    <2>4. \A month \in LastMonths(last, n) : f[month] = g[month]
      BY <2>2, <2>3
    <2>5. ASSUME NEW month \in LastMonths(last, n + 1)
          PROVE  MonthsStep(f, last, month) = MonthsStep(g, last, month)
      <3>1. CASE month >= last
        BY <3>1 DEF MonthsStep
      <3>2. CASE ~(month >= last)
        <4>1. NextMonth(month) \in LastMonths(last, n)
          BY MonthAfter DEF LastMonths
        <4> HIDE DEF g
        <4> QED
          BY <2>4, <3>2, <4>1 DEF MonthsStep
      <3> QED
        BY <3>1, <3>2
    <2>6. g = [month \in LastMonths(last, n + 1) |-> MonthsStep(g, last, month)]
      BY <2>5
    <2> HIDE DEF g
    <2> QED
      BY <2>6
  <1> HIDE DEF N
  <1>3. Nat \subseteq N
    BY <1>1, <1>2, Trace!NatSet
  <1>4. LastMonths(last, last) = Nat
    BY DEF LastMonths
  <1>5. last \in N
    BY <1>3
  <1> QED
    BY <1>4, <1>5 DEF N

Months(first, last) == {month \in Nat : IsMonth(month) /\ first <= month /\ month <= last}

LEMMA MonthsFrom ==
  ASSUME NEW last \in Nat, IsMonth(last),
         NEW f, f = [month \in Nat |-> MonthsStep(f, last, month)],
         NEW first \in Nat, IsMonth(first), first <= last
  PROVE  Enumerates(f[first], Months(first, last))
  <1> DEFINE Good(month) == Enumerates(f[month], Months(month, last))
             N == {n \in Nat : \A month \in Nat :
                     IsMonth(month) /\ month <= last /\ month + n >= last => Good(month)}
  <1>1. \A month \in Nat : f[month] = MonthsStep(f, last, month)
    OBVIOUS
  <1>2. Good(last)
    <2>1. Months(last, last) = {last}
      BY DEF Months
    <2>2. f[last] = <<last>>
      BY <1>1 DEF MonthsStep
    <2> QED
      BY <2>1, <2>2, EnumeratesOne
  <1>3. 0 \in N
    BY <1>2
  <1>4. ASSUME NEW n \in Nat, n \in N PROVE n + 1 \in N
    <2> SUFFICES ASSUME NEW month \in Nat, IsMonth(month), month < last, month + (n + 1) >= last
                 PROVE  Good(month)
      BY <1>2
    <2>1. PICK next : next = NextMonth(month)
      OBVIOUS
    <2>2. /\ next \in Nat /\ next > month /\ IsMonth(next) /\ next <= last
          /\ \A m \in Nat : IsMonth(m) /\ m > month => m >= next
      BY <2>1, MonthAfter
    <2>3. Good(next)
      BY <1>4, <2>2
    <2>4. f[month] = <<month>> \o f[next]
      <3>1. f[month] = MonthsStep(f, last, month) /\ ~(month >= last)
        BY <1>1
      <3> QED
        BY <2>1, <3>1 DEF MonthsStep
    <2>5. month \notin Months(next, last) /\ Months(month, last) = Months(next, last) \union {month}
      BY <2>2 DEF Months
    <2> QED
      BY <2>3, <2>4, <2>5, EnumeratesFirst
  <1> HIDE DEF N
  <1>5. Nat \subseteq N
    BY <1>3, <1>4, Trace!NatSet
  <1>6. last - first \in Nat
    OBVIOUS
  <1> QED
    BY <1>5, <1>6 DEF N

LEMMA MonthsOfRange ==
  ASSUME NEW from, NEW to, IsDate(from), IsDate(to)
  PROVE  Enumerates(MonthsBetween(from, to),
                    IF from > to THEN {} ELSE Months(MonthOf(from), MonthOf(to)))
  <1>1. CASE from > to
    BY <1>1, NothingEnumerated DEF MonthsBetween
  <1>2. CASE ~(from > to)
    <2> DEFINE last == MonthOf(to)
               f == CHOOSE g : g = [month \in Nat |-> MonthsStep(g, last, month)]
    <2>1. /\ last \in Nat /\ IsMonth(last) /\ MonthOf(from) \in Nat /\ IsMonth(MonthOf(from))
          /\ MonthOf(from) <= last
      BY <1>2 DEF IsDate, IsMonth, MonthOf
    <2>2. f = [month \in Nat |-> MonthsStep(f, last, month)]
      <3> HIDE DEF last
      <3> QED
        BY <2>1, MonthsExist
    <2>3. MonthsBetween(from, to) = f[MonthOf(from)]
      BY <1>2 DEF MonthsBetween, MonthsStep
    <2> HIDE DEF f, last
    <2>4. Enumerates(f[MonthOf(from)], Months(MonthOf(from), last))
      BY <2>1, <2>2, MonthsFrom
    <2> QED
      BY <1>2, <2>3, <2>4 DEF last
  <1> QED
    BY <1>1, <1>2

LEMMA DefaultFromIsDate ==
  ASSUME NEW asOf, IsDate(asOf), Year(MonthOf(asOf)) >= 1
  PROVE  IsDate(DefaultFrom(asOf))
  <1> DEFINE month == MonthOf(asOf)
             index == 12 * Year(month) + (month % 100) - 12
             first == 100 * (index \div 12) + (index % 12) + 1
  <1>1. month \in Nat /\ month % 100 \in 1 .. 12 /\ Year(month) \in Nat
    BY DEF IsDate, IsMonth, Year
  <1>2. index \in Nat
    BY <1>1
  <1>3. index \div 12 \in Nat /\ index % 12 \in 0 .. 11
    BY <1>2
  <1>4. first \in Nat /\ first % 100 = (index % 12) + 1
    <2> HIDE DEF index
    <2> QED
      BY <1>3
  <1>5. IsMonth(first)
    BY <1>3, <1>4 DEF IsMonth
  <1>6. LastDay(first) >= 28 /\ LastDay(first) \in Nat
    BY DEF LastDay
  <1>7. DefaultFrom(asOf) = FirstOf(first)
    BY DEF DefaultFrom
  <1> HIDE DEF first
  <1>8. FirstOf(first) \in Nat /\ MonthOf(FirstOf(first)) = first
    BY <1>4 DEF FirstOf, MonthOf
  <1> QED
    BY <1>4, <1>5, <1>6, <1>7, <1>8 DEF IsDate, FirstOf, LastOf

(***************************************************************************)
(* Figures that cite the rows of a table.                                  *)
(***************************************************************************)
LEMMA FigureIsExact ==
  ASSUME NEW rows, Table(rows), NEW part, part \subseteq rows,
         NEW figure, IsFigure(figure, part)
  PROVE  /\ figure.total = Amounts({row \in rows : row.id \in ToSet(figure.ids)})
         /\ \A row \in rows : row.id \in ToSet(figure.ids) <=> row \in part
  <1>1. ToSet(figure.ids) = Ids(part)
    BY DEF IsFigure
  <1>2. \A row \in rows : row.id \in Ids(part) <=> row \in part
    BY DEF Ids, Table, DistinctIds
  <1>3. {row \in rows : row.id \in ToSet(figure.ids)} = part
    BY <1>1, <1>2
  <1> QED
    BY <1>1, <1>2, <1>3 DEF IsFigure

LEMMA CitedIsSum ==
  ASSUME NEW figures, NEW id
  PROVE  Cited(figures, id)
           = Sum([k \in DOMAIN figures |-> IF id \in ToSet(figures[k].ids) THEN 1 ELSE 0],
                 DOMAIN figures)
  <1> DEFINE f == [k \in DOMAIN figures |-> IF id \in ToSet(figures[k].ids) THEN 1 ELSE 0]
  <1>1. DOMAIN f = DOMAIN figures
    OBVIOUS
  <1> HIDE DEF f
  <1>2. SumFunction(f) = Sum(f, DOMAIN figures)
    BY <1>1, SumFunctionIsSum
  <1> QED
    BY <1>2 DEF f, Cited

LEMMA CitedOnce ==
  ASSUME NEW figures, IsFiniteSet(DOMAIN figures), NEW id,
         NEW k \in DOMAIN figures, id \in ToSet(figures[k].ids),
         \A j \in DOMAIN figures : j # k => id \notin ToSet(figures[j].ids)
  PROVE  Cited(figures, id) = 1
  <1> DEFINE f == [j \in DOMAIN figures |-> IF id \in ToSet(figures[j].ids) THEN 1 ELSE 0]
  <1>1. f[k] = 1 /\ \A j \in DOMAIN figures : j # k => f[j] = 0
    OBVIOUS
  <1>2. Cited(figures, id) = Sum(f, DOMAIN figures)
    BY CitedIsSum
  <1> HIDE DEF f
  <1> QED
    BY <1>1, <1>2, SumOfOne

LEMMA CitedNowhere ==
  ASSUME NEW figures, IsFiniteSet(DOMAIN figures), NEW id,
         \A j \in DOMAIN figures : id \notin ToSet(figures[j].ids)
  PROVE  Cited(figures, id) = 0
  <1> DEFINE f == [j \in DOMAIN figures |-> IF id \in ToSet(figures[j].ids) THEN 1 ELSE 0]
  <1>1. \A j \in DOMAIN figures : f[j] = 0
    OBVIOUS
  <1>2. Cited(figures, id) = Sum(f, DOMAIN figures)
    BY CitedIsSum
  <1> HIDE DEF f
  <1> QED
    BY <1>1, <1>2, SumOfZeros

LEMMA GroupsCite ==
  ASSUME NEW rows, Table(rows), NEW part, part \subseteq rows,
         NEW key, NEW groups, AreGroups(groups, key, part), NEW row \in rows
  PROVE  /\ \A k \in DOMAIN groups : /\ WithKey(part, key, k) \subseteq part
                                     /\ IsFigure(groups[k], WithKey(part, key, k))
         /\ Cited(groups, row.id) = IF row \in part THEN 1 ELSE 0
  <1>1. \A k \in DOMAIN groups : WithKey(part, key, k) \subseteq rows
    BY DEF WithKey
  <1>2. \A k \in DOMAIN groups : IsFigure(groups[k], WithKey(part, key, k))
    BY DEF AreGroups
  <1>3. \A k \in DOMAIN groups :
          row.id \in ToSet(groups[k].ids) <=> row \in WithKey(part, key, k)
    BY <1>1, <1>2, FigureIsExact
  <1>4. \A k \in DOMAIN groups :
          row.id \in ToSet(groups[k].ids) <=> row \in part /\ key[row] = k
    BY <1>3 DEF WithKey
  <1>5. IsFiniteSet(DOMAIN groups)
    BY DEF AreGroups
  <1>6. CASE row \in part
    <2>1. key[row] \in DOMAIN groups
      BY <1>6 DEF AreGroups
    <2>2. Cited(groups, row.id) = 1
      BY <1>4, <1>5, <1>6, <2>1, CitedOnce
    <2> QED
      BY <1>2, <1>6, <2>2 DEF WithKey
  <1>7. CASE row \notin part
    <2>1. Cited(groups, row.id) = 0
      BY <1>4, <1>5, <1>7, CitedNowhere
    <2> QED
      BY <1>2, <1>7, <2>1 DEF WithKey
  <1> QED
    BY <1>6, <1>7

\* Two figures, of rows that are not the same, add up and cite each row once.
LEMMA FiguresOfTwo ==
  ASSUME NEW rows, Table(rows), NEW a, NEW b, a \subseteq rows, b \subseteq rows,
         a \intersect b = {}, NEW x, IsFigure(x, a), NEW y, IsFigure(y, b),
         NEW both, both = <<x, y>>
  PROVE  /\ SumOf(both) = Amounts(a) + Amounts(b)
         /\ \A row \in a \union b : Cited(both, row.id) = 1
  <1> DEFINE f == [k \in DOMAIN both |-> both[k].total]
  <1>1. DOMAIN both = {1, 2} /\ both[1] = x /\ both[2] = y
    OBVIOUS
  <1>2. IsFiniteSet({1}) /\ IsFiniteSet({1, 2})
    <2>1. PICK one, two : one = {1} /\ two = one \union {2}
      OBVIOUS
    <2>2. IsFiniteSet(one) /\ IsFiniteSet(two)
      BY <2>1, FS_Singleton, FS_AddElement
    <2>3. two = {1, 2}
      BY <2>1
    <2> QED
      BY <2>1, <2>2, <2>3
  <1>3. x.total = Amounts(a) /\ y.total = Amounts(b) /\ Amounts(a) \in Int /\ Amounts(b) \in Int
    BY PartOfTable, AmountsType DEF IsFigure
  <1>4. f[1] = Amounts(a) /\ f[2] = Amounts(b)
    BY <1>1, <1>3
  <1>5. SumOf(both) = Sum(f, {1, 2})
    BY <1>1, SumOfIsSum
  <1> HIDE DEF f
  <1>6. Sum(f, {1, 2}) = Sum(f, {1}) + f[2]
    <2>1. {1, 2} = {1} \union {2} /\ \A i \in {1, 2} : f[i] \in Int
      BY <1>3, <1>4
    <2> QED
      BY <1>2, <2>1, AddsOne
  <1>7. Sum(f, {1}) = Sum(f, {}) + f[1]
    <2>1. {1} = {} \union {1} /\ \A i \in {1} : f[i] \in Int
      BY <1>3, <1>4
    <2> QED
      BY <1>2, <2>1, AddsOne
  <1>8. SumOf(both) = Amounts(a) + Amounts(b)
    BY <1>3, <1>4, <1>5, <1>6, <1>7, SumOfNothing
  <1>9. ASSUME NEW row \in a \union b PROVE Cited(both, row.id) = 1
    <2>1. row \in rows
      OBVIOUS
    <2>2. /\ row.id \in ToSet(both[1].ids) <=> row \in a
          /\ row.id \in ToSet(both[2].ids) <=> row \in b
      <3>1. row.id \in ToSet(x.ids) <=> row \in a
        BY <2>1, FigureIsExact
      <3>2. row.id \in ToSet(y.ids) <=> row \in b
        BY <2>1, FigureIsExact
      <3> QED
        BY <1>1, <3>1, <3>2
    <2>3. IsFiniteSet(DOMAIN both)
      BY <1>1, <1>2
    <2>4. CASE row \in a
      <3>1. 1 \in DOMAIN both /\ \A j \in DOMAIN both : j # 1 => row.id \notin ToSet(both[j].ids)
        BY <1>1, <2>2, <2>4
      <3> QED
        BY <2>2, <2>3, <2>4, <3>1, CitedOnce
    <2>5. CASE row \in b
      <3>1. 2 \in DOMAIN both /\ \A j \in DOMAIN both : j # 2 => row.id \notin ToSet(both[j].ids)
        BY <1>1, <2>2, <2>5
      <3> QED
        BY <2>2, <2>3, <2>5, <3>1, CitedOnce
    <2> QED
      BY <2>4, <2>5
  <1> QED
    BY <1>8, <1>9

(***************************************************************************)
(* An analysis of the rows of a range: what counts, and each month of it.  *)
(***************************************************************************)
Given(input, set) ==
  /\ Table(set) /\ Enumerates(input.rows, set)
  /\ IsDate(input.from) /\ IsDate(input.to)
  /\ \A row \in set : IsDate(row.date) /\ input.from <= row.date /\ row.date <= input.to

Kinds(input, set) == [row \in set |-> ClassifySpending(row, input.known, input.asOf)]
Spent(input, set) == Counting(set, Kinds(input, set))
Excluded(input, set) == NotCounting(set, Kinds(input, set))
SpentIn(input, set, month) == {row \in Spent(input, set) : MonthOf(row.date) = month}

LEMMA PreparedRows ==
  ASSUME NEW input, NEW set, Given(input, set)
  PROVE  /\ Enumerates(Prepare(input).spending, Spent(input, set))
         /\ AreGroups(Prepare(input).exclusions, Kinds(input, set), Excluded(input, set))
         /\ Prepare(input).months = MonthsBetween(input.from, input.to)
  <1> DEFINE wanted == {row \in ToSet(input.rows) : InRange(row, input.from, input.to)}
             rows == Kept(input.rows, wanted)
             parts == PartitionSpending(rows, input.known, input.asOf)
             key == Kinds(input, set)
  <1>1. set \intersect wanted = set
    BY DEF Given, Enumerates, InRange
  <1>2. /\ Prepare(input).spending = parts.spending
        /\ Prepare(input).exclusions = parts.exclusions
        /\ Prepare(input).months = MonthsBetween(input.from, input.to)
    BY DEF Prepare
  <1>3. Enumerates(rows, set)
    <2> HIDE DEF wanted
    <2> QED
      BY <1>1, KeptRows DEF Given
  <1>4. \A row \in set : key[row] = ClassifySpending(row, input.known, input.asOf)
    BY DEF Kinds
  <1> HIDE DEF rows, key
  <1>5. Parted(parts, key, set)
    BY <1>3, <1>4, PartedRows DEF Given
  <1> QED
    BY <1>2, <1>5 DEF Parted, Spent, Excluded, key

LEMMA SpentIsTable ==
  ASSUME NEW input, NEW set, Given(input, set), NEW month
  PROVE  /\ Table(Spent(input, set)) /\ Table(Excluded(input, set))
         /\ Table(SpentIn(input, set, month))
         /\ Spent(input, set) \subseteq set /\ Excluded(input, set) \subseteq set
         /\ SpentIn(input, set, month) \subseteq set
         /\ \A row \in set : row \in Excluded(input, set) <=> row \notin Spent(input, set)
  <1>1. /\ Spent(input, set) \subseteq set /\ Excluded(input, set) \subseteq set
        /\ SpentIn(input, set, month) \subseteq set
        /\ \A row \in set : row \in Excluded(input, set) <=> row \notin Spent(input, set)
    BY DEF Spent, SpentIn, Excluded, Counting, NotCounting
  <1> QED
    BY <1>1, PartOfTable DEF Given

LEMMA RowsOfMonth ==
  ASSUME NEW input, NEW set, Given(input, set), NEW month
  PROVE  Enumerates(InMonth(Prepare(input).spending, month), SpentIn(input, set, month))
  <1> DEFINE spending == Prepare(input).spending
             wanted == {row \in ToSet(spending) : MonthOf(row.date) = month}
  <1>1. Enumerates(spending, Spent(input, set))
    BY PreparedRows
  <1>2. Spent(input, set) \intersect wanted = SpentIn(input, set, month)
    BY <1>1 DEF Enumerates, SpentIn
  <1>3. InMonth(spending, month) = Kept(spending, wanted)
    BY DEF InMonth
  <1> HIDE DEF spending, wanted
  <1> QED
    BY <1>1, <1>2, <1>3, KeptRows DEF spending

LEMMA MonthTotalsCite ==
  ASSUME NEW input, NEW set, Given(input, set), NEW totals,
         DOMAIN totals = DOMAIN MonthsBetween(input.from, input.to),
         \A i \in DOMAIN totals :
           IsFigure(totals[i], SpentIn(input, set, MonthsBetween(input.from, input.to)[i])),
         NEW row \in set
  PROVE  Cited(totals, row.id) = IF row \in Spent(input, set) THEN 1 ELSE 0
  <1> DEFINE months == MonthsBetween(input.from, input.to)
             all == Months(MonthOf(input.from), MonthOf(input.to))
             month == MonthOf(row.date)
  <1>1. /\ IsDate(input.from) /\ IsDate(input.to) /\ IsDate(row.date)
        /\ input.from <= row.date /\ row.date <= input.to
    BY DEF Given
  <1>2. /\ input.from \in Nat /\ input.to \in Nat /\ row.date \in Nat
        /\ ~(input.from > input.to)
    BY <1>1 DEF IsDate
  <1>3. Enumerates(months, all)
    BY <1>1, <1>2, MonthsOfRange
  <1>4. month \in all
    BY <1>1, <1>2 DEF Months, MonthOf, IsDate, IsMonth
  <1>5. /\ Len(months) \in Nat /\ DOMAIN totals = 1 .. Len(months)
        /\ \A i, j \in 1 .. Len(months) : months[i] = months[j] => i = j
        /\ \E i \in 1 .. Len(months) : months[i] = month
    <2> HIDE DEF months, all, month
    <2>1. DOMAIN months = 1 .. Len(months) /\ DOMAIN totals = DOMAIN months /\ Len(months) \in Nat
      BY <1>3 DEF Enumerates, months
    <2> QED
      BY <1>3, <1>4, <2>1 DEF Enumerates, ToSet
  <1>6. \A i \in DOMAIN totals : row.id \in ToSet(totals[i].ids) <=> row \in SpentIn(input, set, months[i])
    <2> SUFFICES ASSUME NEW i \in DOMAIN totals
                 PROVE  row.id \in ToSet(totals[i].ids) <=> row \in SpentIn(input, set, months[i])
      OBVIOUS
    <2>1. PICK part : part = SpentIn(input, set, months[i])
      OBVIOUS
    <2>2. IsFigure(totals[i], part)
      BY <2>1
    <2>3. part \subseteq set
      BY <2>1, SpentIsTable
    <2>4. Table(set)
      BY DEF Given
    <2> QED
      BY <2>1, <2>2, <2>3, <2>4, FigureIsExact
  <1>7. \A i \in DOMAIN totals :
          row.id \in ToSet(totals[i].ids) <=> row \in Spent(input, set) /\ months[i] = month
    BY <1>6 DEF SpentIn
  <1>8. IsFiniteSet(DOMAIN totals)
    BY <1>5, FS_Interval
  <1> HIDE DEF months, month, all
  <1>9. CASE row \in Spent(input, set)
    <2>1. PICK i \in DOMAIN totals : months[i] = month
      BY <1>5
    <2>2. row.id \in ToSet(totals[i].ids) /\ \A j \in DOMAIN totals : j # i => row.id \notin ToSet(totals[j].ids)
      BY <1>5, <1>7, <1>9, <2>1
    <2>3. Cited(totals, row.id) = 1
      BY <1>8, <2>2, CitedOnce
    <2> QED
      BY <1>9, <2>3
  <1>10. CASE row \notin Spent(input, set)
    <2>1. Cited(totals, row.id) = 0
      BY <1>7, <1>8, <1>10, CitedNowhere
    <2> QED
      BY <1>10, <2>1
  <1> QED
    BY <1>9, <1>10

\* The rows of a table from the oldest on: each of them once.
LEMMA OldestFirst ==
  ASSUME NEW rows, Table(rows)
  PROVE  Enumerates(Reverse(NewestFirst(rows)), rows)
  <1> DEFINE s == NewestFirst(rows)
             N == Cardinality(rows)
  <1>1. /\ N \in Nat /\ s \in Seq(rows) /\ Len(s) = N
        /\ \A i \in 1 .. N : s[i] \in rows /\ PlaceOf(s[i], rows) = i - 1
    BY ListingOfTable
  <1>2. ToSet(Reverse(s)) = rows
    BY ListingHasAll
  <1> HIDE DEF s, N
  <1>3. /\ Reverse(s) \in Seq(rows) /\ Len(Reverse(s)) = N
        /\ \A i \in 1 .. N : Reverse(s)[i] = s[N - i + 1]
    BY <1>1 DEF Reverse
  <1>4. \A i, j \in 1 .. N : Reverse(s)[i] = Reverse(s)[j] => i = j
    <2> SUFFICES ASSUME NEW i \in 1 .. N, NEW j \in 1 .. N, s[N - i + 1] = s[N - j + 1]
                 PROVE  i = j
      BY <1>3
    <2>1. N - i + 1 \in 1 .. N /\ N - j + 1 \in 1 .. N /\ i \in Int /\ j \in Int
      BY <1>1
    <2>2. N - i + 1 - 1 = N - j + 1 - 1
      BY <1>1, <2>1
    <2> QED
      BY <1>1, <2>1, <2>2
  <1> QED
    BY <1>2, <1>3, <1>4 DEF Enumerates, s

ExactIn(figure, set) == figure.total = Amounts({row \in set : row.id \in ToSet(figure.ids)})
MadeUpOf(whole, parts, set) ==
  /\ SumOf(parts) = whole.total
  /\ \A row \in set : row.id \in ToSet(whole.ids) /\ AmountCentsOf(row) # 0
                      => Cited(parts, row.id) = 1

LEMMA MonthsAccounted ==
  ASSUME NEW input, NEW set, Given(input, set), NEW totals,
         DOMAIN totals = DOMAIN Prepare(input).months,
         \A i \in DOMAIN totals :
           totals[i] = TraceFigure(InMonth(Prepare(input).spending, Prepare(input).months[i]))
  PROVE  /\ \A i \in DOMAIN totals : ExactIn(totals[i], set)
         /\ \A row \in set : Cited(totals, row.id) + Cited(Prepare(input).exclusions, row.id) = 1
  <1> DEFINE months == MonthsBetween(input.from, input.to)
  <1>1. /\ Prepare(input).months = months /\ Table(set)
        /\ AreGroups(Prepare(input).exclusions, Kinds(input, set), Excluded(input, set))
    BY PreparedRows DEF Given
  <1>2. ASSUME NEW i \in DOMAIN totals
        PROVE  IsFigure(totals[i], SpentIn(input, set, months[i]))
    <2>1. PICK month : month = months[i]
      OBVIOUS
    <2>2. Table(SpentIn(input, set, month))
      BY SpentIsTable
    <2>3. Enumerates(InMonth(Prepare(input).spending, month), SpentIn(input, set, month))
      BY RowsOfMonth
    <2>4. IsFigure(TraceFigure(InMonth(Prepare(input).spending, month)), SpentIn(input, set, month))
      BY <2>2, <2>3, FigureOfRows
    <2> HIDE DEF months
    <2> QED
      BY <1>1, <2>1, <2>4
  <1>3. ASSUME NEW i \in DOMAIN totals PROVE ExactIn(totals[i], set)
    <2>1. PICK part : part = SpentIn(input, set, months[i])
      OBVIOUS
    <2>2. part \subseteq set
      BY <2>1, SpentIsTable
    <2>3. IsFigure(totals[i], part)
      BY <1>2, <2>1
    <2> QED
      BY <1>1, <2>2, <2>3, FigureIsExact DEF ExactIn
  <1>4. ASSUME NEW row \in set
        PROVE  Cited(totals, row.id) + Cited(Prepare(input).exclusions, row.id) = 1
    <2>1. Cited(totals, row.id) = IF row \in Spent(input, set) THEN 1 ELSE 0
      BY <1>1, <1>2, MonthTotalsCite
    <2>2. PICK part : part = Excluded(input, set)
      OBVIOUS
    <2>3. part \subseteq set /\ (row \in part <=> row \notin Spent(input, set))
      BY <2>2, SpentIsTable
    <2>4. Cited(Prepare(input).exclusions, row.id) = IF row \in part THEN 1 ELSE 0
      BY <1>1, <2>2, <2>3, GroupsCite
    <2> QED
      BY <2>1, <2>3, <2>4
  <1> QED
    BY <1>3, <1>4

LEMMA ExclusionsExact ==
  ASSUME NEW input, NEW set, Given(input, set), NEW k \in DOMAIN Prepare(input).exclusions
  PROVE  ExactIn(Prepare(input).exclusions[k], set)
  <1> DEFINE groups == Prepare(input).exclusions
  <1>1. Table(set) /\ AreGroups(groups, Kinds(input, set), Excluded(input, set))
    BY PreparedRows DEF Given
  <1>2. PICK part : part = WithKey(Excluded(input, set), Kinds(input, set), k)
    OBVIOUS
  <1>3. IsFigure(groups[k], part)
    BY <1>1, <1>2 DEF AreGroups
  <1>4. part \subseteq set
    BY <1>2, SpentIsTable DEF WithKey
  <1> QED
    BY <1>1, <1>3, <1>4, FigureIsExact DEF ExactIn

LEMMA CategoriesMakeUp ==
  ASSUME NEW set, Table(set), NEW part, part \subseteq set, NEW rows, Enumerates(rows, part)
  PROVE  MadeUpOf(TraceFigure(rows), ByCategory(rows), set)
  <1> DEFINE key == [row \in part |-> BucketOf(row)]
  <1>1. Table(part) /\ \A row \in part : key[row] = BucketOf(row)
    BY PartOfTable
  <1> HIDE DEF key
  <1>2. AreGroups(ByCategory(rows), key, part)
    BY <1>1, CategoryGroups
  <1>3. IsFigure(TraceFigure(rows), part)
    BY <1>1, FigureOfRows
  <1>4. \A row \in set : row.id \in ToSet(TraceFigure(rows).ids) <=> row \in part
    BY <1>3, FigureIsExact
  <1>5. \A row \in set : Cited(ByCategory(rows), row.id) = IF row \in part THEN 1 ELSE 0
    BY <1>2, GroupsCite
  <1>6. SumOf(ByCategory(rows)) = TraceFigure(rows).total
    BY <1>2, <1>3 DEF AreGroups, IsFigure
  <1> QED
    BY <1>4, <1>5, <1>6 DEF MadeUpOf

LEMMA FlowRows ==
  ASSUME NEW part, NEW rows, Enumerates(rows, part)
  PROVE  /\ Enumerates(Outflows(rows), Negative(part))
         /\ Enumerates(Inflows(rows), Positive(part))
  <1>1. PICK less, more : /\ less = {row \in ToSet(rows) : AmountCentsOf(row) < 0}
                          /\ more = {row \in ToSet(rows) : AmountCentsOf(row) > 0}
    OBVIOUS
  <1>2. part \intersect less = Negative(part) /\ part \intersect more = Positive(part)
    BY <1>1 DEF Negative, Positive, Enumerates
  <1>3. Outflows(rows) = Kept(rows, less) /\ Inflows(rows) = Kept(rows, more)
    BY <1>1 DEF Outflows, Inflows
  <1> QED
    BY <1>2, <1>3, KeptRows

LEMMA FlowsMakeUp ==
  ASSUME NEW set, Table(set), NEW part, part \subseteq set, NEW rows, Enumerates(rows, part)
  PROVE  MadeUpOf(TraceFigure(rows), <<TraceFigure(Outflows(rows)), TraceFigure(Inflows(rows))>>, set)
  <1>1. PICK a, b : a = Negative(part) /\ b = Positive(part)
    OBVIOUS
  <1>2. a \subseteq set /\ b \subseteq set
    BY <1>1 DEF Negative, Positive
  <1>3. Table(part) /\ Table(a) /\ Table(b)
    BY <1>2, PartOfTable
  <1>4. \A row \in part : AmountCentsOf(row) \in Int
    BY <1>3, AmountType
  <1>5. a \intersect b = {} /\ \A row \in part : AmountCentsOf(row) # 0 => row \in a \union b
    BY <1>1, <1>4 DEF Negative, Positive
  <1>6. PICK x, y, both : /\ x = TraceFigure(Outflows(rows)) /\ y = TraceFigure(Inflows(rows))
                          /\ both = <<x, y>>
    OBVIOUS
  <1>7. IsFigure(x, a) /\ IsFigure(y, b)
    BY <1>1, <1>3, <1>6, FlowRows, FigureOfRows
  <1>8. /\ SumOf(both) = Amounts(a) + Amounts(b)
        /\ \A row \in a \union b : Cited(both, row.id) = 1
    BY <1>2, <1>5, <1>6, <1>7, FiguresOfTwo
  <1>9. IsFigure(TraceFigure(rows), part)
    BY <1>3, FigureOfRows
  <1>10. Amounts(a) + Amounts(b) = TraceFigure(rows).total
    BY <1>1, <1>3, <1>9, AmountsOfBoth DEF IsFigure
  <1>11. \A row \in set : row.id \in ToSet(TraceFigure(rows).ids) <=> row \in part
    BY <1>9, FigureIsExact
  <1>12. \A row \in set : row.id \in ToSet(TraceFigure(rows).ids) /\ AmountCentsOf(row) # 0
                           => Cited(both, row.id) = 1
    BY <1>5, <1>8, <1>11
  <1>13. MadeUpOf(TraceFigure(rows), both, set)
    BY <1>8, <1>10, <1>12 DEF MadeUpOf
  <1> QED
    BY <1>6, <1>13

\* The charges of a merchant: the outflows that name it.
Outgoing(input, set) == Negative(Spent(input, set))
Charges(input, set, key) == {row \in Outgoing(input, set) : MerchantOf(row).key = key}

LEMMA ChargesOfMerchant ==
  ASSUME NEW input, NEW set, Given(input, set), NEW key
  PROVE  /\ Enumerates(ChargesOf(Prepare(input).spending, key), Charges(input, set, key))
         /\ Table(Charges(input, set, key)) /\ Charges(input, set, key) \subseteq set
  <1>1. PICK rows : rows = Prepare(input).spending
    OBVIOUS
  <1>2. PICK named : named = {row \in ToSet(rows) : MerchantOf(row).key = key}
    OBVIOUS
  <1>3. Enumerates(rows, Spent(input, set))
    BY <1>1, PreparedRows
  <1>4. Enumerates(Outflows(rows), Outgoing(input, set))
    BY <1>3, FlowRows DEF Outgoing
  <1>5. Outgoing(input, set) \intersect named = Charges(input, set, key)
    BY <1>2, <1>3 DEF Charges, Outgoing, Negative, Enumerates
  <1>6. ChargesOf(rows, key) = Kept(Outflows(rows), named)
    BY <1>2 DEF ChargesOf
  <1>7. Enumerates(ChargesOf(rows, key), Charges(input, set, key))
    BY <1>4, <1>5, <1>6, KeptRows
  <1>8. Charges(input, set, key) \subseteq set
    BY SpentIsTable DEF Charges, Outgoing, Negative
  <1>9. Table(Charges(input, set, key))
    BY <1>8, PartOfTable DEF Given
  <1> QED
    BY <1>1, <1>7, <1>8, <1>9

\* Whatever is said of a merchant, it is said of all its charges.
LEMMA VerdictRows ==
  ASSUME NEW input, NEW part, Table(part), NEW rows, Enumerates(rows, part)
  PROVE  ToSet(Verdict(rows, input).rows) = Ids(part)
  <1>1. PICK occurrences : occurrences = Reverse(NewestFirst(part))
    OBVIOUS
  <1>2. ToSet(rows) = part
    BY DEF Enumerates
  <1>3. Verdict(rows, input).rows = TraceFigure(occurrences).ids
    BY <1>1, <1>2 DEF Verdict
  <1>4. IsFigure(TraceFigure(occurrences), part)
    BY <1>1, OldestFirst, FigureOfRows
  <1> QED
    BY <1>3, <1>4 DEF IsFigure

LEMMA ExcludedIds ==
  ASSUME NEW input, NEW set, Given(input, set), NEW row \in set
  PROVE  LET groups == Prepare(input).exclusions
         IN row.id \in UNION {ToSet(groups[k].ids) : k \in DOMAIN groups} <=> row \notin Spent(input, set)
  <1>1. PICK groups, key, part : /\ groups = Prepare(input).exclusions
                                 /\ key = Kinds(input, set) /\ part = Excluded(input, set)
    OBVIOUS
  <1>2. AreGroups(groups, key, part) /\ Table(set) /\ part \subseteq set
    BY <1>1, PreparedRows, SpentIsTable DEF Given
  <1>3. \A k \in DOMAIN groups : IsFigure(groups[k], WithKey(part, key, k)) /\ WithKey(part, key, k) \subseteq set
    BY <1>2 DEF AreGroups, WithKey
  <1>4. \A k \in DOMAIN groups : row.id \in ToSet(groups[k].ids) <=> row \in WithKey(part, key, k)
    BY <1>2, <1>3, FigureIsExact
  <1>5. (\E k \in DOMAIN groups : row.id \in ToSet(groups[k].ids)) <=> row \in part
    BY <1>2, <1>4 DEF WithKey, AreGroups
  <1>6. row \in part <=> row \notin Spent(input, set)
    BY <1>1, SpentIsTable
  <1> QED
    BY <1>1, <1>5, <1>6

LEMMA RecurringAccounted ==
  ASSUME NEW input, NEW set, Given(input, set), NEW row \in set,
         NEW report, report = RecurringChargeChanges(input),
         NEW groups, groups = {key \in DOMAIN report.merchants :
                                 row.id \in ToSet(report.merchants[key].rows)}
  PROVE  LET unnamed == row.id \in ToSet(report.unnamed)
         IN /\ row \notin Spent(input, set) \/ AmountCentsOf(row) >= 0 => groups = {} /\ ~unnamed
            /\ row \in Spent(input, set) /\ AmountCentsOf(row) < 0 =>
                 Cardinality(groups) + (IF unnamed THEN 1 ELSE 0) = 1
  <1> DEFINE rows == Prepare(input).spending
             keys == {MerchantOf(r).key : r \in ToSet(Outflows(rows))} \ {""}
             name == MerchantOf(row).key
             unnamed == row.id \in ToSet(report.unnamed)
  <1>1. /\ DOMAIN report.merchants = keys
        /\ \A key \in keys : report.merchants[key] = Verdict(ChargesOf(rows, key), input)
        /\ report.unnamed = TraceFigure(ChargesOf(rows, "")).ids
    BY DEF RecurringChargeChanges
  <1>2. \A key : row.id \in Ids(Charges(input, set, key)) <=> row \in Outgoing(input, set) /\ name = key
    <2> SUFFICES ASSUME NEW key
                 PROVE  row.id \in Ids(Charges(input, set, key)) <=> row \in Charges(input, set, key)
      BY DEF Charges
    <2>1. Charges(input, set, key) \subseteq set /\ DistinctIds(set)
      BY ChargesOfMerchant DEF Given, Table
    <2> QED
      BY <2>1 DEF Ids, DistinctIds
  <1>3. \A key \in keys : row.id \in ToSet(report.merchants[key].rows)
                            <=> row \in Outgoing(input, set) /\ name = key
    <2> SUFFICES ASSUME NEW key \in keys
                 PROVE  ToSet(report.merchants[key].rows) = Ids(Charges(input, set, key))
      BY <1>2
    <2>1. ToSet(Verdict(ChargesOf(rows, key), input).rows) = Ids(Charges(input, set, key))
      BY ChargesOfMerchant, VerdictRows
    <2> HIDE DEF keys, rows
    <2> QED
      BY <1>1, <2>1
  <1>4. unnamed <=> row \in Outgoing(input, set) /\ name = ""
    <2>1. IsFigure(TraceFigure(ChargesOf(rows, "")), Charges(input, set, ""))
      BY ChargesOfMerchant, FigureOfRows
    <2> HIDE DEF rows
    <2>2. ToSet(report.unnamed) = Ids(Charges(input, set, ""))
      BY <1>1, <2>1 DEF IsFigure
    <2> QED
      BY <1>2, <2>2
  <1>5. row \in Outgoing(input, set) /\ name # "" => name \in keys
    <2>1. Enumerates(rows, Spent(input, set))
      BY PreparedRows
    <2>2. ToSet(Outflows(rows)) = Outgoing(input, set)
      BY <2>1, FlowRows DEF Enumerates, Outgoing
    <2> QED
      BY <2>2
  <1>6. "" \notin keys
    OBVIOUS
  <1>7. row \in Outgoing(input, set) <=> row \in Spent(input, set) /\ AmountCentsOf(row) < 0
    BY DEF Outgoing, Negative
  <1>8. AmountCentsOf(row) \in Int
    BY AmountType DEF Given
  <1> HIDE DEF rows, keys, name
  <1>9. ASSUME row \notin Outgoing(input, set) PROVE groups = {} /\ ~unnamed
    BY <1>1, <1>3, <1>4, <1>9
  <1>10. ASSUME row \in Outgoing(input, set)
         PROVE  Cardinality(groups) + (IF unnamed THEN 1 ELSE 0) = 1
    <2>1. CASE name = ""
      <3>1. groups = {} /\ unnamed
        BY <1>1, <1>3, <1>4, <1>6, <1>10, <2>1
      <3>2. Cardinality(groups) = 0
        BY <3>1, FS_EmptySet
      <3> QED
        BY <3>1, <3>2
    <2>2. CASE name # ""
      <3>1. groups = {name} /\ ~unnamed
        BY <1>1, <1>3, <1>4, <1>5, <1>10, <2>2
      <3>2. PICK one : one = {name}
        OBVIOUS
      <3>3. Cardinality(one) = 1
        BY <3>2, FS_Singleton
      <3> QED
        BY <3>1, <3>2, <3>3
    <2> QED
      BY <2>1, <2>2
  <1>11. /\ row \notin Spent(input, set) \/ AmountCentsOf(row) >= 0 => row \notin Outgoing(input, set)
         /\ row \in Spent(input, set) /\ AmountCentsOf(row) < 0 => row \in Outgoing(input, set)
    BY <1>7, <1>8
  <1> QED
    BY <1>9, <1>10, <1>11

(***************************************************************************)
(* What an analysis has read when it answers: each read is of a table that *)
(* had been stored then, and of the cache as it is when nothing was        *)
(* committed since the first.                                              *)
(***************************************************************************)
Links == {row.link : row \in ToSet(load.rows)} \ ({NoId} \union Ids(ToSet(load.rows)))
SawRange(seen) == load.rows = TransactionsInRange(seen, From, To, call.account)
SawCounterparts(seen) == load.known = ToSet(load.rows) \union TransactionsByIds(seen, Links)
Answers(covered) == answer = [kind |-> call.tool, report |-> Analyse(Input(covered))]

RangeInv ==
  pc \in {"counterparts", "coverage"} \/ Reported =>
    \E seen \in SUBSET Stored : Table(seen) /\ SawRange(seen) /\ (steady => seen = cache)
KnownInv ==
  /\ pc = "counterparts" => load.known = ToSet(load.rows)
  /\ pc = "coverage" \/ Reported =>
       \E seen \in SUBSET Stored : SawCounterparts(seen) /\ (steady => seen = cache)
AnswerInv ==
  Reported => /\ pc = "idle" /\ call \in world.calls
              /\ \E covered : /\ Answers(covered)
                              /\ steady => covered = TransactionCoverage(cache, call.asOf)
AnalysisInv == RangeInv /\ KnownInv /\ AnswerInv

LEMMA SteadyCommit ==
  ASSUME NEW page, Commit(page), steady'
  PROVE  steady /\ cache' = cache
  <1>1. steady /\ page = {}
    BY DEF Commit
  <1>2. Upsert({}) = cache
    BY DEF Upsert, Ids
  <1> QED
    BY <1>1, <1>2 DEF Commit

\* What has been read and answered does not change when the cache does.
LEMMA ReadStays ==
  ASSUME UNCHANGED <<call, load, answer>>
  PROVE  /\ From' = From /\ To' = To /\ Links' = Links /\ Reported' = Reported
         /\ \A seen : SawRange(seen)' = SawRange(seen) /\ SawCounterparts(seen)' = SawCounterparts(seen)
         /\ \A covered : Answers(covered)' = Answers(covered)
  BY DEF From, To, Links, Reported, SawRange, SawCounterparts, Answers, Analyse, Input

LEMMA AnalysisCommit ==
  ASSUME TypeOK, AnalysisInv, NEW page, Commit(page), UNCHANGED <<world, call, pc, load, answer>>
  PROVE  AnalysisInv'
  <1>1. /\ From' = From /\ To' = To /\ Links' = Links /\ Reported' = Reported
        /\ \A seen : SawRange(seen)' = SawRange(seen) /\ SawCounterparts(seen)' = SawCounterparts(seen)
        /\ \A covered : Answers(covered)' = Answers(covered)
    BY ReadStays
  <1>2. steady' => steady /\ cache' = cache
    BY SteadyCommit
  <1>3. Stored' = Stored
    BY DEF Stored
  <1>4. RangeInv'
    BY <1>1, <1>2, <1>3 DEF AnalysisInv, RangeInv
  <1>5. KnownInv'
    BY <1>1, <1>2, <1>3 DEF AnalysisInv, KnownInv
  <1>6. AnswerInv'
    BY <1>1, <1>2 DEF AnalysisInv, AnswerInv
  <1> QED
    BY <1>4, <1>5, <1>6 DEF AnalysisInv

LEMMA AnalysisInit == Init => AnalysisInv
  BY DEF Init, AnalysisInv, RangeInv, KnownInv, AnswerInv, NoAnswer, Reported, Analyses

LEMMA AnalysisStep == TypeOK /\ AnalysisInv /\ [Next]_vars => AnalysisInv'
  <1> SUFFICES ASSUME TypeOK, AnalysisInv, [Next]_vars PROVE AnalysisInv'
    OBVIOUS
  <1>1. NoAnswer.kind = "none" /\ Failed.kind = "error"
    BY DEF NoAnswer, Failed
  <1>2. ASSUME answer'.kind \in {"none", "error", "found", "not found", "page"},
               pc' \notin {"counterparts", "coverage"}
        PROVE  AnalysisInv'
    BY <1>2 DEF AnalysisInv, RangeInv, KnownInv, AnswerInv, Reported, Analyses
  <1>3. pc # "idle" => answer = NoAnswer
    BY DEF TypeOK
  <1>4. CASE Receive
    BY <1>1, <1>2, <1>4 DEF Receive
  <1>5. CASE RefuseRefresh \/ SyncFails
    BY <1>1, <1>2, <1>5 DEF RefuseRefresh, SyncFails, Return
  <1>6. CASE UseCached \/ Sync
    BY <1>1, <1>2, <1>3, <1>6 DEF UseCached, Sync, Reading
  <1>7. CASE CommitMeanwhile
    BY <1>7, AnalysisCommit DEF CommitMeanwhile
  <1>8. CASE CountRows \/ ReadPage
    <2>1. pc' \in {"page", "idle"} /\ answer'.kind \in {"none", "page"}
      BY <1>1, <1>3, <1>8 DEF CountRows, ReadPage, Return
    <2> QED
      BY <1>2, <2>1
  <1>9. CASE GetTransaction \/ SyncOnMiss
    <2>1. pc' \in {"idle", "miss", "again"} /\ answer'.kind \in {"none", "found", "not found"}
      <3>1. CASE GetTransaction
        <4>1. pc # "idle" /\ answer.kind = "none"
          BY <1>1, <1>3, <3>1 DEF GetTransaction
        <4>2. CASE Return([kind |-> "found", rows |-> Found])
          BY <4>2 DEF Return
        <4>3. CASE pc' = "miss" /\ UNCHANGED answer
          BY <4>1, <4>3
        <4>4. CASE Return([kind |-> "not found"])
          BY <4>4 DEF Return
        <4> QED
          BY <3>1, <4>2, <4>3, <4>4 DEF GetTransaction
      <3>2. CASE SyncOnMiss
        BY <1>1, <1>3, <3>2 DEF SyncOnMiss
      <3> QED
        BY <1>9, <3>1, <3>2
    <2> QED
      BY <1>2, <2>1
  <1>10. CASE EnsureCategoriesFresh
    BY <1>1, <1>2, <1>3, <1>10 DEF EnsureCategoriesFresh
  <1>11. CASE ReadRange
    <2>1. /\ pc' = "counterparts" /\ answer' = NoAnswer
          /\ UNCHANGED <<cache, world, call, answer>>
          /\ load' = [load EXCEPT !.rows = TransactionsInRange(cache, From, To, call.account),
                                 !.known = ToSet(TransactionsInRange(cache, From, To, call.account))]
      BY <1>3, <1>11 DEF ReadRange
    <2>2. /\ load'.rows = TransactionsInRange(cache, From, To, call.account)
          /\ load'.known = ToSet(load'.rows)
      BY <2>1 DEF TypeOK, LoadType
    <2>3. SawRange(cache)' /\ cache \in SUBSET Stored' /\ Table(cache)
      BY <2>1, <2>2 DEF SawRange, From, To, TypeOK, Stored
    <2>4. RangeInv'
      BY <2>1, <2>3 DEF RangeInv
    <2> QED
      BY <1>1, <2>1, <2>2, <2>4 DEF AnalysisInv, KnownInv, AnswerInv, Reported, Analyses
  <1>12. CASE ReadCounterparts
    <2>1. /\ pc = "counterparts" /\ pc' = "coverage" /\ answer' = NoAnswer
          /\ UNCHANGED <<cache, world, call, answer, steady>>
          /\ load' = [load EXCEPT !.known = @ \union TransactionsByIds(cache, MissingCounterparts)]
      BY <1>3, <1>12 DEF ReadCounterparts
    <2>2. /\ load'.rows = load.rows
          /\ load'.known = load.known \union TransactionsByIds(cache, MissingCounterparts)
      BY <2>1 DEF TypeOK, LoadType
    <2>3. load.known = ToSet(load.rows)
      BY <2>1 DEF AnalysisInv, KnownInv
    <2>4. MissingCounterparts = Links /\ Links' = Links
      BY <2>2, <2>3 DEF MissingCounterparts, Links
    <2>5. SawCounterparts(cache)' /\ cache \in SUBSET Stored'
      BY <2>1, <2>2, <2>3, <2>4 DEF SawCounterparts, TypeOK, Stored
    <2>6. KnownInv'
      BY <2>1, <2>5 DEF KnownInv
    <2>7. \A seen : SawRange(seen)' = SawRange(seen)
      BY <2>1, <2>2 DEF SawRange, From, To
    <2>8. RangeInv'
      BY <2>1, <2>7 DEF RangeInv, AnalysisInv, Stored
    <2> QED
      BY <1>1, <2>1, <2>6, <2>8 DEF AnalysisInv, AnswerInv, Reported, Analyses
  <1>13. CASE ReadCoverage
    <2>1. PICK covered : covered = TransactionCoverage(cache, call.asOf)
      OBVIOUS
    <2>2. /\ pc = "coverage" /\ pc' = "idle" /\ UNCHANGED <<cache, world, call, load, steady>>
          /\ answer' = [kind |-> call.tool, report |-> Analyse(Input(covered))]
      BY <1>13, <2>1 DEF ReadCoverage, Return
    <2>3. Answers(covered)' /\ covered = TransactionCoverage(cache, call.asOf)'
      BY <2>1, <2>2 DEF Answers, Analyse, Input, From, To
    <2>4. call' \in world'.calls
      BY <2>2 DEF TypeOK
    <2>5. AnswerInv'
      BY <2>2, <2>3, <2>4 DEF AnswerInv
    <2>6. \A seen : SawRange(seen)' = SawRange(seen) /\ SawCounterparts(seen)' = SawCounterparts(seen)
      BY <2>2 DEF SawRange, SawCounterparts, Links, From, To
    <2>7. RangeInv' /\ KnownInv'
      BY <2>2, <2>6 DEF RangeInv, KnownInv, AnalysisInv, Stored
    <2> QED
      BY <2>5, <2>7 DEF AnalysisInv
  <1>14. CASE UNCHANGED vars
    <2>1. UNCHANGED <<cache, world, call, pc, load, answer, steady>>
      BY <1>14 DEF vars
    <2>2. /\ Reported' = Reported /\ Stored' = Stored
          /\ \A seen : SawRange(seen)' = SawRange(seen) /\ SawCounterparts(seen)' = SawCounterparts(seen)
          /\ \A covered : Answers(covered)' = Answers(covered)
      BY <2>1, ReadStays DEF Stored
    <2> QED
      BY <2>1, <2>2 DEF AnalysisInv, RangeInv, KnownInv, AnswerInv
  <1> QED
    BY <1>4, <1>5, <1>6, <1>7, <1>8, <1>9, <1>10, <1>11, <1>12, <1>13, <1>14 DEF Next

LEMMA RangeType ==
  ASSUME TypeOK, call \in world.calls, call.tool \in Analyses
  PROVE  IsDate(From) /\ IsDate(To) /\ IsDate(call.asOf)
  <1>1. /\ IsDate(call.asOf) /\ Year(MonthOf(call.asOf)) >= 1
        /\ call.from = NoFilter \/ IsDate(call.from)
        /\ call.to = NoFilter \/ IsDate(call.to)
    BY WorldAssumption DEF TypeOK
  <1> QED
    BY <1>1, DefaultFromIsDate DEF From, To

\* What an analysis is given, when it answers.
LEMMA AnalysisGiven ==
  ASSUME TypeOK, RangeInv, Reported, pc = "idle", call \in world.calls, call.tool \in Analyses, NEW covered
  PROVE  Given(Input(covered), ToSet(load.rows)) /\ Input(covered).rows = load.rows
  <1>1. PICK seen \in SUBSET Stored : Table(seen) /\ SawRange(seen)
    BY DEF RangeInv
  <1>2. PICK range : range = {row \in seen : /\ ~row.deleted /\ row.date # NoDate
                                             /\ From <= row.date /\ row.date <= To
                                             /\ InAccount(row, call.account)}
    OBVIOUS
  <1>3. Table(range) /\ range \subseteq seen
    BY <1>1, <1>2, PartOfTable
  <1>4. load.rows = Reverse(NewestFirst(range))
    BY <1>1, <1>2 DEF SawRange, TransactionsInRange
  <1>5. Enumerates(load.rows, range)
    BY <1>3, <1>4, OldestFirst
  <1>6. ToSet(load.rows) = range
    BY <1>5 DEF Enumerates
  <1>7. IsDate(From) /\ IsDate(To)
    BY RangeType
  <1>8. \A row \in range : IsDate(row.date) /\ From <= row.date /\ row.date <= To
    BY <1>2, <1>3 DEF Table, IsRow
  <1>9. /\ Input(covered).rows = load.rows /\ Input(covered).from = From /\ Input(covered).to = To
    BY DEF Input
  <1> QED
    BY <1>3, <1>5, <1>6, <1>7, <1>8, <1>9 DEF Given

\* What the reports are made of.
LEMMA BurnReport ==
  ASSUME NEW input, NEW report, report = MonthlyBurn(input),
         NEW months, months = Prepare(input).months,
         NEW spending, spending = Prepare(input).spending
  PROVE  /\ report.exclusions = Prepare(input).exclusions
         /\ DOMAIN report.months = DOMAIN months
         /\ \A i \in DOMAIN months : \A rows :
              rows = InMonth(spending, months[i]) =>
                /\ report.months[i].month = months[i]
                /\ report.months[i].reasons =
                     IncompleteReasons(months[i], Prepare(input).coverage, input.asOf)
                /\ report.months[i].total = TraceFigure(rows)
                /\ report.months[i].outflow = TraceFigure(Outflows(rows))
                /\ report.months[i].inflow = TraceFigure(Inflows(rows))
  BY DEF MonthlyBurn

LEMMA CategoryReport ==
  ASSUME NEW input, NEW report, report = SpendingByCategoryByMonth(input),
         NEW months, months = Prepare(input).months,
         NEW spending, spending = Prepare(input).spending
  PROVE  /\ report.exclusions = Prepare(input).exclusions
         /\ DOMAIN report.months = DOMAIN months
         /\ \A i \in DOMAIN months : \A rows :
              rows = InMonth(spending, months[i]) =>
                /\ report.months[i].month = months[i]
                /\ report.months[i].reasons =
                     IncompleteReasons(months[i], Prepare(input).coverage, input.asOf)
                /\ report.months[i].total = TraceFigure(rows)
                /\ report.months[i].categories = ByCategory(rows)
  BY DEF SpendingByCategoryByMonth

LEMMA AccountedNow == TypeOK /\ AnalysisInv => EveryRowAccounted
  <1> SUFFICES ASSUME TypeOK, AnalysisInv, Reported PROVE EveryRowAccounted
    BY DEF EveryRowAccounted
  <1>1. PICK covered : Answers(covered) /\ pc = "idle" /\ call \in world.calls
    BY DEF AnalysisInv, AnswerInv
  <1>2. PICK input : input = Input(covered)
    OBVIOUS
  <1>3. /\ answer.kind = call.tool /\ Report = Analyse(input) /\ call.tool \in Analyses
    BY <1>1, <1>2 DEF Answers, Report, Reported
  <1>4. PICK set : set = ToSet(load.rows)
    OBVIOUS
  <1>5. Given(input, set) /\ Table(set)
    BY <1>1, <1>2, <1>3, <1>4, AnalysisGiven DEF AnalysisInv, Given
  <1>6. PICK months, spending, exclusions :
          /\ months = Prepare(input).months /\ spending = Prepare(input).spending
          /\ exclusions = Prepare(input).exclusions
    OBVIOUS
  <1>7. PICK report : report = Report
    OBVIOUS
  <1>8. \A k \in DOMAIN exclusions : ExactIn(exclusions[k], set)
    BY <1>5, <1>6, ExclusionsExact
  <1>9. ASSUME NEW totals, DOMAIN totals = DOMAIN months,
               \A i \in DOMAIN months : totals[i] = TraceFigure(InMonth(spending, months[i]))
        PROVE  /\ \A i \in DOMAIN totals : ExactIn(totals[i], set)
               /\ \A row \in set : Cited(totals, row.id) + Cited(exclusions, row.id) = 1
    BY <1>5, <1>6, <1>9, MonthsAccounted
  <1>10. \A i \in DOMAIN months : \E part \in SUBSET set :
           Enumerates(InMonth(spending, months[i]), part)
    BY <1>5, <1>6, RowsOfMonth, SpentIsTable
  <1>11. ASSUME DOMAIN report.months = DOMAIN months,
                \A i \in DOMAIN months :
                  report.months[i].total = TraceFigure(InMonth(spending, months[i]))
         PROVE  /\ \A i \in DOMAIN MonthTotals : ExactIn(MonthTotals[i], set)
                /\ \A row \in set : Cited(MonthTotals, row.id) + Cited(exclusions, row.id) = 1
    <2>1. DOMAIN MonthTotals = DOMAIN months
      BY <1>7, <1>11 DEF MonthTotals
    <2>2. \A i \in DOMAIN months : MonthTotals[i] = TraceFigure(InMonth(spending, months[i]))
      BY <1>7, <1>11 DEF MonthTotals
    <2> QED
      BY <1>9, <2>1, <2>2
  <1>12. CASE call.tool = "burn"
    <2>1. report = MonthlyBurn(input)
      BY <1>3, <1>7, <1>12 DEF Analyse
    <2>2. /\ report.exclusions = exclusions /\ DOMAIN report.months = DOMAIN months
          /\ \A i \in DOMAIN months : \A rows : rows = InMonth(spending, months[i]) =>
               /\ report.months[i].total = TraceFigure(rows)
               /\ report.months[i].outflow = TraceFigure(Outflows(rows))
               /\ report.months[i].inflow = TraceFigure(Inflows(rows))
      BY <1>6, <2>1, BurnReport
    <2>3. ASSUME NEW i \in DOMAIN months
          PROVE  MadeUpOf(report.months[i].total,
                          <<report.months[i].outflow, report.months[i].inflow>>, set)
      <3>1. PICK rows : rows = InMonth(spending, months[i])
        OBVIOUS
      <3>2. MadeUpOf(TraceFigure(rows), <<TraceFigure(Outflows(rows)), TraceFigure(Inflows(rows))>>, set)
        BY <1>5, <1>10, <3>1, FlowsMakeUp
      <3> QED
        BY <2>2, <3>1, <3>2
    <2>4. /\ \A i \in DOMAIN MonthTotals : ExactIn(MonthTotals[i], set)
          /\ \A row \in set : Cited(MonthTotals, row.id) + Cited(exclusions, row.id) = 1
      BY <1>11, <2>2
    <2>5. DOMAIN MonthTotals = DOMAIN months /\ \A i \in DOMAIN months : MonthTotals[i] = report.months[i].total
      BY <1>7, <2>2 DEF MonthTotals
    <2> QED
      BY <1>3, <1>4, <1>7, <1>8, <1>12, <2>2, <2>3, <2>4, <2>5
      DEF EveryRowAccounted, ExactIn, MadeUpOf, AmountOf
  <1>13. CASE call.tool = "categories"
    <2>1. report = SpendingByCategoryByMonth(input)
      BY <1>3, <1>7, <1>13 DEF Analyse
    <2>2. /\ report.exclusions = exclusions /\ DOMAIN report.months = DOMAIN months
          /\ \A i \in DOMAIN months : \A rows : rows = InMonth(spending, months[i]) =>
               /\ report.months[i].total = TraceFigure(rows)
               /\ report.months[i].categories = ByCategory(rows)
      BY <1>6, <2>1, CategoryReport
    <2>3. ASSUME NEW i \in DOMAIN months
          PROVE  MadeUpOf(report.months[i].total, report.months[i].categories, set)
      <3>1. PICK rows : rows = InMonth(spending, months[i])
        OBVIOUS
      <3>2. MadeUpOf(TraceFigure(rows), ByCategory(rows), set)
        BY <1>5, <1>10, <3>1, CategoriesMakeUp
      <3> QED
        BY <2>2, <3>1, <3>2
    <2>4. /\ \A i \in DOMAIN MonthTotals : ExactIn(MonthTotals[i], set)
          /\ \A row \in set : Cited(MonthTotals, row.id) + Cited(exclusions, row.id) = 1
      BY <1>11, <2>2
    <2>5. DOMAIN MonthTotals = DOMAIN months /\ \A i \in DOMAIN months : MonthTotals[i] = report.months[i].total
      BY <1>7, <2>2 DEF MonthTotals
    <2> QED
      BY <1>3, <1>4, <1>7, <1>8, <1>13, <2>2, <2>3, <2>4, <2>5
      DEF EveryRowAccounted, ExactIn, MadeUpOf, AmountOf
  <1>14. CASE call.tool = "recurring"
    <2>1. report = RecurringChargeChanges(input)
      BY <1>3, <1>7, <1>14 DEF Analyse
    <2>2. report.exclusions = exclusions
      BY <1>6, <2>1 DEF RecurringChargeChanges
    <2>3. \A row \in set :
            row.id \in UNION {ToSet(exclusions[k].ids) : k \in DOMAIN exclusions}
              <=> row \notin Spent(input, set)
      BY <1>5, <1>6, ExcludedIds
    <2>4. ASSUME NEW row \in set
          PROVE  LET groups == {key \in DOMAIN report.merchants :
                                  row.id \in ToSet(report.merchants[key].rows)}
                     unnamed == row.id \in ToSet(report.unnamed)
                     excluded == UNION {ToSet(exclusions[k].ids) : k \in DOMAIN exclusions}
                 IN IF row.id \in excluded \/ AmountCentsOf(row) >= 0
                    THEN groups = {} /\ ~unnamed
                    ELSE Cardinality(groups) + (IF unnamed THEN 1 ELSE 0) = 1
      <3>1. PICK groups : groups = {key \in DOMAIN report.merchants :
                                      row.id \in ToSet(report.merchants[key].rows)}
        OBVIOUS
      <3>2. PICK excluded : excluded = UNION {ToSet(exclusions[k].ids) : k \in DOMAIN exclusions}
        OBVIOUS
      <3> DEFINE unnamed == row.id \in ToSet(report.unnamed)
      <3>3. /\ row \notin Spent(input, set) \/ AmountCentsOf(row) >= 0 => groups = {} /\ ~unnamed
            /\ row \in Spent(input, set) /\ AmountCentsOf(row) < 0 =>
                 Cardinality(groups) + (IF unnamed THEN 1 ELSE 0) = 1
        BY <1>5, <2>1, <3>1, RecurringAccounted
      <3>4. row.id \in excluded <=> row \notin Spent(input, set)
        BY <2>3, <3>2
      <3>5. AmountCentsOf(row) \in Int
        BY <1>5, AmountType
      <3>6. /\ row.id \in excluded \/ AmountCentsOf(row) >= 0 => groups = {} /\ ~unnamed
            /\ ~(row.id \in excluded \/ AmountCentsOf(row) >= 0) =>
                 Cardinality(groups) + (IF unnamed THEN 1 ELSE 0) = 1
        BY <3>3, <3>4, <3>5
      <3> QED
        BY <3>1, <3>2, <3>6
    <2> QED
      BY <1>3, <1>4, <1>7, <1>8, <1>14, <2>2, <2>4
      DEF EveryRowAccounted, ExactIn, AmountOf
  <1> QED
    BY <1>3, <1>12, <1>13, <1>14 DEF Analyses

\* EveryRowAccounted: no row that an analysis has read is lost in its report or
\* counted twice, whatever the tables, the range and the calls.
THEOREM RowsAccounted == Spec => []EveryRowAccounted
  BY TypeInit, TypeStep, AnalysisInit, AnalysisStep, AccountedNow, PTL DEF Spec

(***************************************************************************)
(* What a complete month says.                                             *)
(***************************************************************************)

\* What SELECT MIN and MAX find: the date of a first and of a last row.
LEMMA EndsOfDates ==
  ASSUME NEW rows, Table(rows), rows # {}, NEW dates, dates = {row.date : row \in rows}
  PROVE  /\ Min(dates) \in dates /\ Max(dates) \in dates /\ dates \subseteq Int
         /\ \A d \in dates : Min(dates) <= d /\ d <= Max(dates)
  <1> DEFINE Ends(s) == \E f, l \in s : \A r \in s : f.date <= r.date /\ r.date <= l.date
             N == {s \in SUBSET rows : s = {} \/ Ends(s)}
  <1>1. \A row \in rows : row.date \in Int
    BY RowType
  <1>2. ASSUME NEW s \in SUBSET rows, NEW row \in rows, s \in N, row \notin s
        PROVE  s \union {row} \in N
    <2>1. PICK t : t = s \union {row}
      OBVIOUS
    <2>2. CASE s = {}
      <3>1. t = {row} /\ row.date <= row.date
        BY <1>1, <2>1, <2>2
      <3> QED
        BY <2>1, <3>1
    <2>3. CASE s # {}
      <3>1. PICK f \in s, l \in s : \A r \in s : f.date <= r.date /\ r.date <= l.date
        BY <1>2, <2>3
      <3>2. PICK g, m : /\ g = IF row.date < f.date THEN row ELSE f
                        /\ m = IF row.date > l.date THEN row ELSE l
        OBVIOUS
      <3>3. g \in t /\ m \in t /\ \A r \in t : g.date <= r.date /\ r.date <= m.date
        BY <1>1, <2>1, <3>1, <3>2
      <3> QED
        BY <2>1, <3>3
    <2> QED
      BY <2>2, <2>3
  <1>3. {} \in N /\ IsFiniteSet(rows)
    BY DEF Table
  <1> HIDE DEF N
  <1>4. rows \in N
    BY <1>2, <1>3, AddFinite, Add!SubsetInduction
  <1>5. \E a, b \in dates : \A d \in dates : a <= d /\ d <= b
    BY <1>4 DEF N
  <1>6. dates \subseteq Int
    BY <1>1
  <1> QED
    BY <1>5, <1>6 DEF Min, Max

\* The rows of a month that lies in the range are those the cache has of it.
LEMMA SpentOfMonth ==
  ASSUME TypeOK, Reported, pc = "idle", call \in world.calls, call.tool \in Analyses,
         SawRange(cache), NEW covered, NEW month, From <= FirstOf(month), LastOf(month) <= To
  PROVE  SpentIn(Input(covered), ToSet(load.rows), month) = {row \in cache : CountsIn(row, month)}
  <1>1. Table(cache)
    BY DEF TypeOK
  <1>2. ToSet(load.rows) = {row \in cache : /\ ~row.deleted /\ row.date # NoDate
                                            /\ From <= row.date /\ row.date <= To
                                            /\ InAccount(row, call.account)}
    BY <1>1, RangeOfTable DEF SawRange
  <1>3. ASSUME NEW row \in ToSet(load.rows)
        PROVE  row \in Spent(Input(covered), ToSet(load.rows)) <=>
                 /\ row.date <= call.asOf
                 /\ row.coa \notin {"ACCOUNT", "BALANCE_ADJUSTMENT"} /\ row.type # "INVESTMENT"
    <2>1. PICK kind : kind = ClassifySpending(row, Input(covered).known, call.asOf)
      OBVIOUS
    <2>2. row \in Spent(Input(covered), ToSet(load.rows)) <=> kind = "spending"
      BY <2>1 DEF Spent, Counting, Kinds, Input
    <2>3. row.date # NoDate /\ row.date \in Int /\ call.asOf \in Int
      BY <1>1, <1>2, RowType, WorldAssumption DEF TypeOK, IsDate
    <2>4. kind = "spending" <=>
             /\ row.date <= call.asOf
             /\ row.coa \notin {"ACCOUNT", "BALANCE_ADJUSTMENT"} /\ row.type # "INVESTMENT"
      BY <2>1, <2>3 DEF ClassifySpending, ClassifyTransfer, TransferShaped
    <2> QED
      BY <2>2, <2>4
  <1>4. ASSUME NEW row \in cache, CountsIn(row, month)
        PROVE  row \in ToSet(load.rows)
    <2>1. IsDate(row.date) /\ MonthOf(row.date) = month
      BY <1>1, <1>4 DEF CountsIn, Table, IsRow
    <2>2. FirstOf(month) <= row.date /\ row.date <= LastOf(month)
      BY <2>1 DEF IsDate
    <2>3. From <= row.date /\ row.date <= To
      <3>1. From \in Int /\ To \in Int /\ row.date \in Int /\ month \in Int
        BY <2>1, RangeType DEF IsDate, IsMonth
      <3>2. FirstOf(month) \in Int /\ LastOf(month) \in Int
        BY <3>1 DEF FirstOf, LastOf, LastDay
      <3> QED
        BY <2>2, <3>1, <3>2
    <2> QED
      BY <1>2, <1>4, <2>3 DEF CountsIn
  <1> QED
    BY <1>2, <1>3, <1>4 DEF SpentIn, CountsIn, Spent, Counting

\* A window of upstream has all of a month between its first and its last date.
LEMMA WindowOfMonth ==
  ASSUME TypeOK, IsWindow, call.asOf \in Int, NEW covered,
         covered = TransactionCoverage(cache, call.asOf), NEW month,
         IncompleteReasons(month, Coverage(From, To, covered[1], covered[2], call.asOf), call.asOf) = {}
  PROVE  {row \in world.upstream : CountsIn(row, month)} = {row \in cache : CountsIn(row, month)}
  <1>1. PICK dates : dates = {row.date : row \in History}
    OBVIOUS
  <1>2. covered = IF dates = {} THEN <<NoDate, NoDate>> ELSE <<Min(dates), Max(dates)>>
    BY <1>1 DEF TransactionCoverage, History
  <1>3. /\ covered[1] # NoDate
        /\ ~(FirstOf(month) < covered[1]) /\ ~(LastOf(month) > covered[2])
    BY DEF IncompleteReasons, Coverage
  <1>4. dates # {} /\ covered[1] = Min(dates) /\ covered[2] = Max(dates)
    BY <1>2, <1>3
  <1>5. Table(History) /\ History # {}
    BY <1>1, <1>4, PartOfTable DEF TypeOK, History
  <1>6. /\ Min(dates) \in dates /\ Max(dates) \in dates /\ dates \subseteq Int
    BY <1>1, <1>5, EndsOfDates
  <1>7. ASSUME NEW row \in world.upstream, CountsIn(row, month) PROVE row \in cache
    <2>1. IsDate(row.date) /\ MonthOf(row.date) = month
      BY <1>7, WorldsAreTables DEF CountsIn, Table, IsRow
    <2>2. FirstOf(month) <= row.date /\ row.date <= LastOf(month) /\ month \in Int /\ row.date \in Int
      BY <2>1 DEF IsDate, IsMonth
    <2>3. FirstOf(month) \in Int /\ LastOf(month) \in Int
      BY <2>2 DEF FirstOf, LastOf, LastDay
    <2>4. PICK lo, hi : /\ lo = covered[1] /\ hi = covered[2]
                        /\ lo \in dates /\ hi \in dates /\ lo \in Int /\ hi \in Int
      BY <1>4, <1>6
    <2>5. lo <= FirstOf(month) /\ LastOf(month) <= hi
      BY <1>3, <2>3, <2>4
    <2>6. lo <= row.date /\ row.date <= hi
      BY <2>2, <2>3, <2>4, <2>5
    <2>7. (\E r \in History : r.date <= row.date) /\ (\E r \in History : row.date <= r.date)
      BY <1>1, <2>4, <2>6
    <2>8. \A r \in History : r.date \in Int
      BY <1>1, <1>6
    <2> QED
      BY <2>2, <2>7, <2>8 DEF IsWindow
  <1> QED
    BY <1>7 DEF IsWindow

\* A transfer has its counterpart in the cache or has none, in the range or not.
LEMMA TransfersNow ==
  ASSUME TypeOK, Reported, pc = "idle", call \in world.calls, call.tool \in Analyses,
         SawRange(cache), SawCounterparts(cache), NEW covered,
         Given(Input(covered), ToSet(load.rows)),
         Report.exclusions = Prepare(Input(covered)).exclusions,
         NEW row \in ToSet(load.rows), TransferShaped(row), row.date <= call.asOf
  PROVE  PairedIn(row) <=> CalledTransfer(row)
  <1>1. Table(cache)
    BY DEF TypeOK
  <1>2. /\ ToSet(load.rows) \subseteq cache /\ load.known \subseteq cache
        /\ \A r \in ToSet(load.rows) : r.date # NoDate
    BY <1>1, RangeOfTable DEF SawRange, SawCounterparts, TransactionsByIds
  <1>3. PICK input, set, key, part, groups :
          /\ input = Input(covered) /\ set = ToSet(load.rows) /\ key = Kinds(input, set)
          /\ part = Excluded(input, set) /\ groups = Report.exclusions
    OBVIOUS
  <1>4. PairedIn(row) => Paired(row, load.known)
    <2> SUFFICES ASSUME NEW other \in cache, other.id = row.link, other.link = row.id
                 PROVE  row.link # NoId /\ other \in load.known
      BY DEF PairedIn, Paired
    <2>1. row.link # NoId
      BY <1>1, LinkAssumption DEF Table, IsRow
    <2>2. CASE row.link \in Ids(ToSet(load.rows))
      <3>1. other \in ToSet(load.rows)
        BY <1>1, <1>2, <2>2 DEF Ids, Table, DistinctIds
      <3> QED
        BY <2>1, <3>1 DEF SawCounterparts
    <2>3. CASE row.link \notin Ids(ToSet(load.rows))
      <3>1. row.link \in Links
        BY <2>1, <2>3 DEF Links
      <3> QED
        BY <2>1, <3>1 DEF SawCounterparts, TransactionsByIds
    <2> QED
      BY <2>2, <2>3
  <1>5. Paired(row, load.known) => PairedIn(row)
    BY <1>2 DEF Paired, PairedIn
  <1>6. row.date \in Int /\ call.asOf \in Int
    BY <1>1, <1>2, RowType, RangeType DEF IsDate
  <1>7. key[row] = IF Paired(row, load.known) THEN "transfer" ELSE "unmatched-transfer"
    BY <1>2, <1>3, <1>6 DEF Kinds, Input, ClassifySpending, ClassifyTransfer, TransferShaped
  <1>8. row \in part
    BY <1>3, <1>7 DEF Excluded, NotCounting
  <1>9. AreGroups(groups, key, part) /\ part \subseteq set /\ Table(set)
    BY <1>3, PreparedRows, SpentIsTable DEF Given
  <1>10. CalledTransfer(row) <=> key[row] = "transfer"
    <2>1. CalledTransfer(row) <=> "transfer" \in DOMAIN groups /\ row.id \in ToSet(groups["transfer"].ids)
      BY <1>3 DEF CalledTransfer
    <2>2. key[row] = "transfer" => "transfer" \in DOMAIN groups
      BY <1>8, <1>9 DEF AreGroups
    <2>3. ASSUME "transfer" \in DOMAIN groups
          PROVE  row.id \in ToSet(groups["transfer"].ids) <=> row \in WithKey(part, key, "transfer")
      <3>1. PICK those : those = WithKey(part, key, "transfer")
        OBVIOUS
      <3>2. IsFigure(groups["transfer"], those) /\ those \subseteq set
        BY <1>9, <2>3, <3>1 DEF AreGroups, WithKey
      <3> QED
        BY <1>3, <1>9, <3>1, <3>2, FigureIsExact
    <2> QED
      BY <1>8, <2>1, <2>2, <2>3 DEF WithKey
  <1> QED
    BY <1>4, <1>5, <1>7, <1>10

LEMMA CompleteNow == TypeOK /\ AnalysisInv => CompleteMonthsWhole
  <1> SUFFICES ASSUME TypeOK, AnalysisInv, Reported, steady PROVE CompleteMonthsWhole
    BY DEF CompleteMonthsWhole
  <1>1. PICK covered : /\ Answers(covered) /\ pc = "idle" /\ call \in world.calls
                       /\ covered = TransactionCoverage(cache, call.asOf)
    BY DEF AnalysisInv, AnswerInv
  <1>2. SawRange(cache) /\ SawCounterparts(cache)
    BY DEF AnalysisInv, RangeInv, KnownInv
  <1>3. PICK input : input = Input(covered)
    OBVIOUS
  <1>4. /\ answer.kind = call.tool /\ Report = Analyse(input) /\ call.tool \in Analyses
    BY <1>1, <1>3 DEF Answers, Report, Reported
  <1>5. PICK set, report : set = ToSet(load.rows) /\ report = Report
    OBVIOUS
  <1>6. Given(input, set)
    BY <1>1, <1>3, <1>4, <1>5, AnalysisGiven DEF AnalysisInv
  <1>7. PICK months, spending, coverage :
          /\ months = Prepare(input).months /\ spending = Prepare(input).spending
          /\ coverage = Prepare(input).coverage
    OBVIOUS
  <1>8. coverage = Coverage(From, To, covered[1], covered[2], call.asOf) /\ input.asOf = call.asOf
    BY <1>3, <1>7 DEF Prepare, Input
  <1>9. /\ report.exclusions = Prepare(input).exclusions
        /\ answer.kind # "recurring" =>
             /\ DOMAIN report.months = DOMAIN months
             /\ \A i \in DOMAIN months :
                  /\ report.months[i].month = months[i]
                  /\ report.months[i].reasons = IncompleteReasons(months[i], coverage, call.asOf)
                  /\ report.months[i].total = TraceFigure(InMonth(spending, months[i]))
    <2>1. CASE call.tool = "burn"
      <3>1. report = MonthlyBurn(input)
        BY <1>4, <1>5, <2>1 DEF Analyse
      <3>2. /\ report.exclusions = Prepare(input).exclusions
            /\ DOMAIN report.months = DOMAIN months
            /\ \A i \in DOMAIN months : \A rows : rows = InMonth(spending, months[i]) =>
                 /\ report.months[i].month = months[i]
                 /\ report.months[i].reasons =
                      IncompleteReasons(months[i], Prepare(input).coverage, input.asOf)
                 /\ report.months[i].total = TraceFigure(rows)
        BY <1>7, <3>1, BurnReport
      <3>3. \A i \in DOMAIN months :
              report.months[i].reasons = IncompleteReasons(months[i], coverage, call.asOf)
        BY <1>7, <1>8, <3>2
      <3> QED
        BY <3>2, <3>3
    <2>2. CASE call.tool = "categories"
      <3>1. report = SpendingByCategoryByMonth(input)
        BY <1>4, <1>5, <2>2 DEF Analyse
      <3>2. /\ report.exclusions = Prepare(input).exclusions
            /\ DOMAIN report.months = DOMAIN months
            /\ \A i \in DOMAIN months : \A rows : rows = InMonth(spending, months[i]) =>
                 /\ report.months[i].month = months[i]
                 /\ report.months[i].reasons =
                      IncompleteReasons(months[i], Prepare(input).coverage, input.asOf)
                 /\ report.months[i].total = TraceFigure(rows)
        BY <1>7, <3>1, CategoryReport
      <3>3. \A i \in DOMAIN months :
              report.months[i].reasons = IncompleteReasons(months[i], coverage, call.asOf)
        BY <1>7, <1>8, <3>2
      <3> QED
        BY <3>2, <3>3
    <2>3. CASE call.tool = "recurring"
      BY <1>4, <1>5, <2>3 DEF Analyse, RecurringChargeChanges
    <2> QED
      BY <1>4, <2>1, <2>2, <2>3 DEF Analyses
  <1>10. ASSUME answer.kind # "recurring", NEW i \in DOMAIN months,
                Complete(report.months[i]), Inside(report.months[i])
         PROVE  /\ SaysAllOf(report.months[i], cache)
                /\ IsWindow => SaysAllOf(report.months[i], world.upstream)
    <2>1. PICK month, entry : month = months[i] /\ entry = report.months[i]
      OBVIOUS
    <2>2. /\ entry.month = month /\ entry.total = TraceFigure(InMonth(spending, month))
          /\ IncompleteReasons(month, coverage, call.asOf) = {}
          /\ From <= FirstOf(month) /\ LastOf(month) <= To
      BY <1>9, <1>10, <2>1 DEF Complete, Inside
    <2>3. PICK part : part = SpentIn(input, set, month)
      OBVIOUS
    <2>4. Table(part) /\ Enumerates(InMonth(spending, month), part)
      BY <1>6, <1>7, <2>3, RowsOfMonth, SpentIsTable
    <2>5. IsFigure(entry.total, part)
      BY <2>2, <2>4, FigureOfRows
    <2>6. part = {row \in cache : CountsIn(row, month)}
      BY <1>1, <1>2, <1>3, <1>4, <1>5, <2>2, <2>3, SpentOfMonth
    <2>7. SaysAllOf(entry, cache)
      BY <2>2, <2>5, <2>6 DEF SaysAllOf, IsFigure
    <2>8. ASSUME IsWindow PROVE SaysAllOf(entry, world.upstream)
      <3>1. call.asOf \in Int
        BY <1>1, <1>4, RangeType DEF IsDate
      <3>2. part = {row \in world.upstream : CountsIn(row, month)}
        BY <1>1, <1>8, <2>2, <2>6, <2>8, <3>1, WindowOfMonth
      <3> QED
        BY <2>2, <2>5, <3>2 DEF SaysAllOf, IsFigure
    <2> QED
      BY <2>1, <2>7, <2>8
  <1>11. ASSUME NEW row \in set, TransferShaped(row), row.date <= call.asOf
         PROVE  PairedIn(row) <=> CalledTransfer(row)
    BY <1>1, <1>2, <1>3, <1>4, <1>5, <1>6, <1>9, <1>11, TransfersNow
  <1>12. answer.kind # "recurring" =>
           \A entry \in ToSet(report.months) :
             Complete(entry) /\ Inside(entry) =>
               SaysAllOf(entry, cache) /\ (IsWindow => SaysAllOf(entry, world.upstream))
    BY <1>9, <1>10 DEF ToSet
  <1> QED
    BY <1>5, <1>11, <1>12 DEF CompleteMonthsWhole

\* CompleteMonthsWhole: a month that is called complete and lies in the range has
\* the figures of the whole cache and, when that is a window of it, of upstream.
THEOREM CompleteMonthsAreWhole == Spec => []CompleteMonthsWhole
  BY TypeInit, TypeStep, AnalysisInit, AnalysisStep, CompleteNow, PTL DEF Spec

(***************************************************************************)
(* Runs of one amount, walking back from the last charge.                  *)
(***************************************************************************)
\* From each charge on, where the walk ends: at the first charge of its own
\* amount, of those that come one after the other up to it.
StartsRun(rows, last, i, r) ==
  /\ r \in 1 .. i
  /\ \A k \in r .. i - 1 : AmountCentsOf(rows[k]) = AmountCentsOf(rows[last])
  /\ r > 1 => AmountCentsOf(rows[r - 1]) # AmountCentsOf(rows[last])

WalksBack(rows, last, back, n) ==
  back = [i \in 1 .. n |->
            IF i > 1 /\ AmountCentsOf(rows[i - 1]) = AmountCentsOf(rows[last])
            THEN back[i - 1] ELSE i]

LEMMA WalkExists ==
  ASSUME NEW rows, NEW last \in Nat
  PROVE  \E back : WalksBack(rows, last, back, last)
  <1> DEFINE goes(i) == i > 1 /\ AmountCentsOf(rows[i - 1]) = AmountCentsOf(rows[last])
             N == {n \in Nat : \E back : WalksBack(rows, last, back, n)}
  <1>1. 0 \in N
    <2>1. WalksBack(rows, last, [i \in 1 .. 0 |-> 0], 0)
      BY DEF WalksBack
    <2> QED
      BY <2>1
  <1>2. ASSUME NEW n \in Nat, n \in N PROVE n + 1 \in N
    <2>1. PICK back : WalksBack(rows, last, back, n)
      BY <1>2
    <2>2. PICK g : g = [i \in 1 .. n + 1 |-> IF goes(i) THEN back[i - 1] ELSE i]
      OBVIOUS
    <2> HIDE DEF goes
    <2>3. \A i \in 1 .. n : back[i] = IF goes(i) THEN back[i - 1] ELSE i
      BY <2>1 DEF WalksBack, goes
    <2>4. \A i \in 1 .. n : g[i] = back[i]
      BY <2>2, <2>3
    <2>5. \A i \in 1 .. n + 1 : goes(i) => i - 1 \in 1 .. n
      BY DEF goes
    <2>6. \A i \in 1 .. n + 1 : g[i] = IF goes(i) THEN g[i - 1] ELSE i
      BY <2>2, <2>4, <2>5
    <2>7. g = [i \in 1 .. n + 1 |-> IF goes(i) THEN g[i - 1] ELSE i]
      BY <2>2, <2>6
    <2> QED
      BY <2>7 DEF WalksBack, goes
  <1> HIDE DEF N
  <1>3. Nat \subseteq N
    BY <1>1, <1>2, Trace!NatSet
  <1> QED
    BY <1>3 DEF N

LEMMA WalkEnds ==
  ASSUME NEW rows, NEW last \in Nat, NEW back, WalksBack(rows, last, back, last)
  PROVE  \A i \in 1 .. last : StartsRun(rows, last, i, back[i])
  <1> DEFINE N == {n \in Nat : \A i \in 1 .. last : i <= n => StartsRun(rows, last, i, back[i])}
  <1>1. 0 \in N
    OBVIOUS
  <1>2. ASSUME NEW n \in Nat, n \in N PROVE n + 1 \in N
    <2> SUFFICES ASSUME n + 1 \in 1 .. last PROVE StartsRun(rows, last, n + 1, back[n + 1])
      BY <1>2
    <2>1. CASE n + 1 > 1 /\ AmountCentsOf(rows[n]) = AmountCentsOf(rows[last])
      <3>1. back[n + 1] = back[n]
        BY <2>1 DEF WalksBack
      <3>2. n \in 1 .. last /\ StartsRun(rows, last, n, back[n])
        BY <1>2, <2>1
      <3> QED
        BY <2>1, <3>1, <3>2 DEF StartsRun
    <2>2. CASE ~(n + 1 > 1 /\ AmountCentsOf(rows[n]) = AmountCentsOf(rows[last]))
      <3>1. back[n + 1] = n + 1
        BY <2>2 DEF WalksBack
      <3> QED
        BY <2>2, <3>1 DEF StartsRun
    <2> QED
      BY <2>1, <2>2
  <1> HIDE DEF N
  <1>3. Nat \subseteq N
    BY <1>1, <1>2, Trace!NatSet
  <1> QED
    BY <1>3 DEF N

LEMMA RunStartStarts ==
  ASSUME NEW rows, NEW last \in Nat, last > 0, NEW r, r = RunStart(rows, last)
  PROVE  StartsRun(rows, last, last, r)
  <1> DEFINE it == CHOOSE back : WalksBack(rows, last, back, last)
  <1>1. WalksBack(rows, last, it, last)
    BY WalkExists
  <1>2. r = it[last]
    BY DEF RunStart, WalksBack
  <1> HIDE DEF it
  <1> QED
    BY <1>1, <1>2, WalkEnds

\* The two runs that trailingRuns finds: the later one begins at a, the earlier
\* one at b, and neither could begin earlier.
AreRuns(rows, n, a, b) ==
  /\ a \in 2 .. n /\ b \in 1 .. a - 1
  /\ \A k \in a .. n : AmountCentsOf(rows[k]) = AmountCentsOf(rows[n])
  /\ AmountCentsOf(rows[a - 1]) # AmountCentsOf(rows[n])
  /\ \A k \in b .. a - 1 : AmountCentsOf(rows[k]) = AmountCentsOf(rows[a - 1])
  /\ b > 1 => AmountCentsOf(rows[b - 1]) # AmountCentsOf(rows[a - 1])

FoundRuns(rows, runs) ==
  LET n == Len(rows)
  IN \/ /\ \A k \in 1 .. n : AmountCentsOf(rows[k]) = AmountCentsOf(rows[n])
        /\ runs.before = <<>>
     \/ \E a, b \in 1 .. n : /\ AreRuns(rows, n, a, b)
                             /\ runs.before = SubSeq(rows, b, a - 1)
                             /\ runs.after = SubSeq(rows, a, n)

LEMMA RunsFound ==
  ASSUME NEW rows, Len(rows) \in Nat, Len(rows) > 0, NEW runs, runs = TrailingRuns(rows)
  PROVE  FoundRuns(rows, runs)
  <1> DEFINE n == Len(rows)
  <1>1. PICK a : a = RunStart(rows, n)
    OBVIOUS
  <1>2. PICK b : b = RunStart(rows, a - 1)
    OBVIOUS
  <1>3. /\ a \in 1 .. n
        /\ \A k \in a .. n : AmountCentsOf(rows[k]) = AmountCentsOf(rows[n])
        /\ a > 1 => AmountCentsOf(rows[a - 1]) # AmountCentsOf(rows[n])
    BY <1>1, RunStartStarts DEF StartsRun
  <1>4. CASE a = 1
    BY <1>1, <1>3, <1>4 DEF TrailingRuns, FoundRuns
  <1>5. CASE a # 1
    <2>1. PICK last : last = a - 1 /\ last \in Nat /\ last > 0
      BY <1>3, <1>5
    <2>2. StartsRun(rows, last, last, b)
      BY <1>2, <2>1, RunStartStarts
    <2>3. AreRuns(rows, n, a, b) /\ b \in 1 .. n
      BY <1>3, <1>5, <2>1, <2>2 DEF StartsRun, AreRuns
    <2>4. runs.before = SubSeq(rows, b, a - 1) /\ runs.after = SubSeq(rows, a, n)
      BY <1>1, <1>2, <1>5 DEF TrailingRuns
    <2> QED
      BY <1>3, <2>3, <2>4 DEF FoundRuns
  <1> QED
    BY <1>4, <1>5

\* A figure cites the rows in the order they come.
LEMMA IdsOfTurns ==
  ASSUME NEW set, NEW rows \in Seq(set)
  PROVE  /\ Len(TraceFigure(rows).ids) = Len(rows)
         /\ TraceFigure(rows).ids = [i \in 1 .. Len(rows) |-> rows[i].id]
  <1> DEFINE T(n) == Trace!Turns(0, rows, n).ids
             N == {n \in Nat : T(n) = [i \in 1 .. n |-> rows[i].id]}
  <1>1. 0 \in N
    BY TraceTurns DEF NoFigure
  <1>2. ASSUME NEW n \in Nat, n \in N PROVE n + 1 \in N
    <2>1. PICK figure, next : /\ figure = Trace!Turns(0, rows, n)
                              /\ next = Trace!Turns(0, rows, n + 1)
      OBVIOUS
    <2>2. next = AddTo(figure, rows[n + 1])
      BY <2>1, TraceTurns
    <2>3. PICK ids, more : ids = figure.ids /\ more = next.ids
      OBVIOUS
    <2>4. more = Append(ids, rows[n + 1].id)
      BY <2>2, <2>3 DEF AddTo
    <2>5. ids = [i \in 1 .. n |-> rows[i].id]
      BY <1>2, <2>1, <2>3
    <2>6. ids \in Seq({rows[i].id : i \in 1 .. n}) /\ Len(ids) = n
      BY <2>5
    <2>7. more = [i \in 1 .. n + 1 |-> rows[i].id]
      BY <2>4, <2>5, <2>6
    <2> QED
      BY <2>1, <2>3, <2>7
  <1> HIDE DEF N
  <1>3. Nat \subseteq N
    BY <1>1, <1>2, Trace!NatSet
  <1>4. T(Len(rows)) = [i \in 1 .. Len(rows) |-> rows[i].id]
    BY <1>3 DEF N
  <1>5. TraceFigure(rows).ids = T(Len(rows))
    BY TraceIsLoop
  <1> QED
    BY <1>4, <1>5

\* So it does for a part of them.
IsPart(part, rows, ids, i, j) ==
  /\ TraceFigure(part).ids = SubSeq(ids, i, j)
  /\ Len(part) = j - i + 1 /\ Head(part) = rows[i] /\ part # <<>>

LEMMA IdsOfPart ==
  ASSUME NEW set, NEW rows \in Seq(set), NEW n, n = Len(rows),
         NEW i \in 1 .. n, NEW j \in i .. n, NEW part, part = SubSeq(rows, i, j),
         NEW ids, ids = TraceFigure(rows).ids
  PROVE  IsPart(part, rows, ids, i, j)
  <1>1. /\ part \in Seq(set) /\ Len(part) = j - i + 1 /\ n \in Nat
        /\ \A k \in 1 .. j - i + 1 : part[k] = rows[i + k - 1]
    OBVIOUS
  <1>2. PICK some : some = TraceFigure(part).ids
    OBVIOUS
  <1>3. ids = [k \in 1 .. n |-> rows[k].id]
    BY IdsOfTurns
  <1>4. some = [k \in 1 .. j - i + 1 |-> part[k].id]
    BY <1>1, <1>2, IdsOfTurns
  <1>5. n \in Nat
    BY <1>1
  <1>6. ids \in Seq({rows[k].id : k \in 1 .. n}) /\ Len(ids) = n
    BY <1>3, <1>5
  <1>7. SubSeq(ids, i, j) = [k \in 1 .. j - i + 1 |-> ids[i + k - 1]]
    BY <1>6
  <1>8. \A k \in 1 .. j - i + 1 : part[k].id = ids[i + k - 1]
    BY <1>1, <1>3
  <1>9. some = SubSeq(ids, i, j)
    BY <1>4, <1>7, <1>8
  <1> QED
    BY <1>1, <1>2, <1>9 DEF IsPart

\* Charges from the oldest on.
LEMMA DatesAscend ==
  ASSUME NEW rows, Table(rows), NEW s, s = Reverse(NewestFirst(rows)), NEW i \in 1 .. Len(s) - 1
  PROVE  s[i].date <= s[i + 1].date
  <1>1. PICK N, t : N = Cardinality(rows) /\ t = NewestFirst(rows)
    OBVIOUS
  <1>2. /\ N \in Nat /\ t \in Seq(rows) /\ Len(t) = N
        /\ \A k \in 1 .. N : t[k] \in rows /\ PlaceOf(t[k], rows) = k - 1
    BY <1>1, ListingOfTable
  <1>3. Len(s) = N /\ \A k \in 1 .. N : s[k] = t[N - k + 1]
    BY <1>1, <1>2 DEF Reverse
  <1>4. PICK older, newer : older = s[i] /\ newer = s[i + 1]
    OBVIOUS
  <1>5. /\ older \in rows /\ PlaceOf(older, rows) = N - i
        /\ newer \in rows /\ PlaceOf(newer, rows) = N - i - 1
    <2>1. N - i + 1 \in 1 .. N /\ N - (i + 1) + 1 \in 1 .. N
      BY <1>2, <1>3
    <2> QED
      BY <1>2, <1>3, <1>4, <2>1
  <1>6. ~Newer(older, newer)
    BY <1>2, <1>3, <1>5, PlaceOrders
  <1> QED
    BY <1>4, <1>5, <1>6, RowType DEF Newer

(***************************************************************************)
(* The median of the gaps, by what it leaves below it and above it.        *)
(***************************************************************************)
LEMMA UpTo == ASSUME NEW n \in Nat PROVE IsFiniteSet(1 .. n) /\ Cardinality(1 .. n) = n
  BY FS_Interval

LEMMA PartOfUpTo == ASSUME NEW n \in Nat, NEW S \in SUBSET (1 .. n) PROVE IsFiniteSet(S)
  <1>1. IsFiniteSet(1 .. n)
    BY UpTo
  <1> QED
    BY <1>1, FS_Subset

\* A finite set of places has one of the least value and one of the greatest.
HasExtremes(values, S) ==
  /\ \E m \in S : \A i \in S : values[m] <= values[i]
  /\ \E m \in S : \A i \in S : values[i] <= values[m]

LEMMA Extremes ==
  ASSUME NEW n \in Nat, NEW values, \A i \in 1 .. n : values[i] \in Int,
         NEW S \in SUBSET (1 .. n), S # {}
  PROVE  HasExtremes(values, S)
  <1> DEFINE N == {s \in SUBSET S : s = {} \/ HasExtremes(values, s)}
  <1>1. {} \in N
    OBVIOUS
  <1>2. ASSUME NEW s \in SUBSET S, NEW x \in S, s \in N, x \notin s
        PROVE  s \union {x} \in N
    <2>1. PICK t : t = s \union {x} /\ t \in SUBSET S
      OBVIOUS
    <2>2. \A i \in t : values[i] \in Int
      BY <2>1
    <2>3. CASE s = {}
      BY <2>1, <2>2, <2>3 DEF HasExtremes
    <2>4. CASE HasExtremes(values, s)
      <3>1. PICK a \in s : \A i \in s : values[a] <= values[i]
        BY <2>4 DEF HasExtremes
      <3>2. PICK b \in s : \A i \in s : values[i] <= values[b]
        BY <2>4 DEF HasExtremes
      <3>3. \E m \in t : \A i \in t : values[m] <= values[i]
        <4>1. PICK m : m = IF values[x] < values[a] THEN x ELSE a
          OBVIOUS
        <4>2. m \in t /\ \A i \in t : values[m] <= values[i]
          BY <2>1, <2>2, <3>1, <4>1
        <4> QED
          BY <4>2
      <3>4. \E m \in t : \A i \in t : values[i] <= values[m]
        <4>1. PICK m : m = IF values[x] > values[b] THEN x ELSE b
          OBVIOUS
        <4>2. m \in t /\ \A i \in t : values[i] <= values[m]
          BY <2>1, <2>2, <3>2, <4>1
        <4> QED
          BY <4>2
      <3> QED
        BY <2>1, <3>3, <3>4 DEF HasExtremes
    <2> QED
      BY <1>2, <2>1, <2>3, <2>4
  <1> HIDE DEF N
  <1>3. IsFiniteSet(S)
    BY PartOfUpTo
  <1>4. S \in N
    BY <1>1, <1>2, <1>3, AddFinite, Add!SubsetInduction
  <1> QED
    BY <1>4 DEF N

\* How many of n places are not among some of them.
LEMMA TheOthers ==
  ASSUME NEW n \in Nat, NEW S \in SUBSET (1 .. n), NEW T, T = (1 .. n) \ S
  PROVE  /\ Cardinality(S) \in Nat /\ Cardinality(T) \in Nat
         /\ Cardinality(S) + Cardinality(T) = n
  <1>1. IsFiniteSet(1 .. n) /\ Cardinality(1 .. n) = n
    BY UpTo
  <1>2. IsFiniteSet(S) /\ IsFiniteSet(T) /\ T \in SUBSET (1 .. n)
    BY <1>1, FS_Subset
  <1>3. S \intersect T = {} /\ S \union T = 1 .. n
    OBVIOUS
  <1>4. Cardinality(S \union T) = Cardinality(S) + Cardinality(T) - Cardinality(S \intersect T)
    BY <1>2, FS_Union
  <1>5. Cardinality(S) \in Nat /\ Cardinality(T) \in Nat
    BY <1>2, FS_CardinalityType
  <1>6. Cardinality(S \intersect T) = 0
    BY <1>3, FS_EmptySet
  <1>7. Cardinality(S \union T) = n
    BY <1>1, <1>3
  <1> QED
    BY <1>4, <1>5, <1>6, <1>7

LEMMA NoMore ==
  ASSUME NEW n \in Nat, NEW S \in SUBSET (1 .. n), NEW T \in SUBSET S
  PROVE  /\ Cardinality(S) \in Nat /\ Cardinality(T) \in Nat
         /\ Cardinality(T) <= Cardinality(S)
  <1>1. IsFiniteSet(S) /\ IsFiniteSet(T)
    <2>1. T \in SUBSET (1 .. n)
      OBVIOUS
    <2> QED
      BY <2>1, PartOfUpTo
  <1> QED
    BY <1>1, FS_Subset, FS_CardinalityType

\* The k-th value in ascending order exists: the least one that k values do not exceed.
Below(values, n, v) == {i \in 1 .. n : values[i] < v}
UpToValue(values, n, v) == {i \in 1 .. n : values[i] <= v}

LEMMA OrderedCounts ==
  ASSUME NEW n \in Nat, NEW values, values \in [1 .. n -> Int],
         NEW k \in 1 .. n, NEW v, v = Ordered(values, k)
  PROVE  /\ v \in Int
         /\ Cardinality(Below(values, n, v)) < k
         /\ k <= Cardinality(UpToValue(values, n, v))
  <1> DEFINE Enough == {i \in 1 .. n : k <= Cardinality(UpToValue(values, n, values[i]))}
  <1>1. \A i \in 1 .. n : values[i] \in Int
    OBVIOUS
  <1>2. Enough # {}
    <2>1. 1 .. n # {}
      OBVIOUS
    <2>2. HasExtremes(values, 1 .. n)
      BY <1>1, <2>1, Extremes
    <2>3. PICK m \in 1 .. n : \A i \in 1 .. n : values[i] <= values[m]
      BY <2>2 DEF HasExtremes
    <2>4. UpToValue(values, n, values[m]) = 1 .. n
      BY <2>3 DEF UpToValue
    <2>5. Cardinality(1 .. n) = n
      BY UpTo
    <2>6. m \in Enough
      BY <2>4, <2>5
    <2> QED
      BY <2>6
  <1>3. PICK m \in Enough : \A i \in Enough : values[m] <= values[i]
    <2>1. PICK S : S = Enough /\ S \in SUBSET (1 .. n) /\ S # {}
      BY <1>2
    <2>2. HasExtremes(values, S)
      BY <1>1, <2>1, Extremes
    <2> QED
      BY <2>1, <2>2 DEF HasExtremes
  <1>4. m \in 1 .. n /\ k <= Cardinality(UpToValue(values, n, values[m]))
    OBVIOUS
  <1>5. Cardinality(Below(values, n, values[m])) < k
    <2> SUFFICES ASSUME k <= Cardinality(Below(values, n, values[m])) PROVE FALSE
      <3>1. PICK S : S = Below(values, n, values[m]) /\ S \in SUBSET (1 .. n)
        BY DEF Below
      <3>2. Cardinality(S) \in Nat
        BY <3>1, TheOthers
      <3> QED
        BY <3>1, <3>2
    <2>1. PICK S : S = Below(values, n, values[m]) /\ S \in SUBSET (1 .. n)
      BY DEF Below
    <2>2. S # {}
      <3>1. k <= Cardinality(S) /\ k > 0
        BY <2>1
      <3>2. Cardinality({}) = 0
        BY FS_EmptySet
      <3> QED
        BY <3>1, <3>2
    <2>3. HasExtremes(values, S)
      BY <1>1, <2>1, <2>2, Extremes
    <2>4. PICK q \in S : \A i \in S : values[i] <= values[q]
      BY <2>3 DEF HasExtremes
    <2>5. q \in 1 .. n /\ values[q] < values[m]
      BY <2>1, <2>4 DEF Below
    <2>6. UpToValue(values, n, values[q]) = S
      BY <1>1, <1>4, <2>1, <2>4, <2>5 DEF UpToValue, Below
    <2>7. q \in Enough
      BY <2>1, <2>5, <2>6
    <2> QED
      BY <1>1, <1>3, <1>4, <2>5, <2>7
  <1>6. values[m] \in ToSet(values)
    BY <1>4 DEF ToSet
  <1>7. /\ v \in ToSet(values)
        /\ Cardinality(Below(values, n, v)) < k
        /\ k <= Cardinality(UpToValue(values, n, v))
    <2>1. DOMAIN values = 1 .. n
      OBVIOUS
    <2> HIDE DEF Enough
    <2> QED
      BY <1>4, <1>5, <1>6, <2>1 DEF Ordered, Below, UpToValue
  <1> QED
    BY <1>7 DEF ToSet

\* Both middle values, which are the same one of an odd number.
LEMMA MiddleValues ==
  ASSUME NEW n \in Nat, n > 0, NEW values, values \in [1 .. n -> Int],
         NEW m, m = TwiceMedian(values)
  PROVE  \E v, w \in Int :
           /\ m = v + w
           /\ n <= 2 * Cardinality(UpToValue(values, n, v))
           /\ 2 * Cardinality(Below(values, n, w)) <= n
           /\ v <= w
  <1>1. PICK half : half = n \div 2 /\ half \in Nat /\ (n = 2 * half \/ n = 2 * half + 1)
    OBVIOUS
  <1>2. Len(values) = n
    OBVIOUS
  <1>3. CASE n = 2 * half
    <2>1. PICK v, w : v = Ordered(values, half) /\ w = Ordered(values, half + 1)
      OBVIOUS
    <2>2. m = v + w
      BY <1>1, <1>2, <1>3, <2>1 DEF TwiceMedian
    <2>3. half \in 1 .. n /\ half + 1 \in 1 .. n
      BY <1>1, <1>3
    <2>4. /\ v \in Int /\ Cardinality(Below(values, n, v)) < half
          /\ half <= Cardinality(UpToValue(values, n, v))
      BY <2>1, <2>3, OrderedCounts
    <2>5. PICK k : k = half + 1 /\ k \in 1 .. n
      BY <2>3
    <2>6. /\ w \in Int /\ Cardinality(Below(values, n, w)) < k
          /\ k <= Cardinality(UpToValue(values, n, w))
      BY <2>1, <2>5, OrderedCounts
    <2>7. /\ Below(values, n, v) \in SUBSET (1 .. n) /\ UpToValue(values, n, v) \in SUBSET (1 .. n)
          /\ Below(values, n, w) \in SUBSET (1 .. n) /\ UpToValue(values, n, w) \in SUBSET (1 .. n)
      BY DEF Below, UpToValue
    <2>8. /\ Cardinality(Below(values, n, v)) \in Nat /\ Cardinality(UpToValue(values, n, v)) \in Nat
          /\ Cardinality(Below(values, n, w)) \in Nat /\ Cardinality(UpToValue(values, n, w)) \in Nat
      BY <2>7, TheOthers
    <2>9. v <= w
      <3> SUFFICES ASSUME w < v PROVE FALSE
        BY <2>4, <2>6
      <3>1. UpToValue(values, n, w) \in SUBSET Below(values, n, v)
        BY <2>4, <2>6 DEF UpToValue, Below
      <3>2. Cardinality(UpToValue(values, n, w)) <= Cardinality(Below(values, n, v))
        BY <2>7, <3>1, NoMore
      <3> QED
        BY <1>1, <2>4, <2>5, <2>6, <2>8, <3>2
    <2> QED
      BY <1>1, <1>3, <2>2, <2>4, <2>5, <2>6, <2>8, <2>9
  <1>4. CASE n = 2 * half + 1
    <2>1. PICK v, k : k = half + 1 /\ v = Ordered(values, k)
      OBVIOUS
    <2>2. m = 2 * v
      BY <1>1, <1>2, <1>4, <2>1 DEF TwiceMedian
    <2>3. k \in 1 .. n
      BY <1>1, <1>4, <2>1
    <2>4. /\ v \in Int /\ Cardinality(Below(values, n, v)) < k
          /\ k <= Cardinality(UpToValue(values, n, v))
      BY <2>1, <2>3, OrderedCounts
    <2>5. Below(values, n, v) \in SUBSET (1 .. n) /\ UpToValue(values, n, v) \in SUBSET (1 .. n)
      BY DEF Below, UpToValue
    <2>6. Cardinality(Below(values, n, v)) \in Nat /\ Cardinality(UpToValue(values, n, v)) \in Nat
      BY <2>5, TheOthers
    <2>7. m = v + v /\ v <= v
      BY <2>2, <2>4
    <2>8. /\ n <= 2 * Cardinality(UpToValue(values, n, v))
          /\ 2 * Cardinality(Below(values, n, v)) <= n
      BY <1>1, <1>4, <2>1, <2>4, <2>6
    <2> QED
      BY <2>4, <2>7, <2>8
  <1> QED
    BY <1>1, <1>3, <1>4

\* The places of the values that reach a bound, and that do not exceed one.
IsLong(long, n, values, low) == long = {i \in 1 .. n : low <= values[i]}
IsShort(short, n, values, high) == short = {i \in 1 .. n : values[i] <= high}

\* At least half of the values reach a bound that the median reaches, and where
\* more than half lie between two bounds, so does the median.
LEMMA MedianCounts ==
  ASSUME NEW n \in Nat, n > 0, NEW values, values \in [1 .. n -> Int],
         NEW m, m = TwiceMedian(values), NEW low \in Int, NEW high \in Int,
         NEW long, IsLong(long, n, values, low),
         NEW short, IsShort(short, n, values, high)
  PROVE  /\ m \in Int
         /\ 2 * low <= m => 2 * Cardinality(long) >= n
         /\ m <= 2 * high => 2 * Cardinality(short) >= n
         /\ 2 * Cardinality(long \intersect short) > n => 2 * low <= m /\ m <= 2 * high
  <1>1. PICK v, w \in Int :
          /\ m = v + w
          /\ n <= 2 * Cardinality(UpToValue(values, n, v))
          /\ 2 * Cardinality(Below(values, n, w)) <= n
          /\ v <= w
    BY MiddleValues
  <1>2. PICK below, upTo : below = Below(values, n, w) /\ upTo = UpToValue(values, n, v)
    OBVIOUS
  <1>3. PICK both : both = long \intersect short
    OBVIOUS
  <1>4. \A i \in 1 .. n : values[i] \in Int
    OBVIOUS
  <1>5. /\ below \in SUBSET (1 .. n) /\ upTo \in SUBSET (1 .. n) /\ both \in SUBSET (1 .. n)
        /\ long \in SUBSET (1 .. n) /\ short \in SUBSET (1 .. n)
    BY <1>2, <1>3 DEF Below, UpToValue, IsLong, IsShort
  <1>6. PICK notBelow, above : notBelow = (1 .. n) \ below /\ above = (1 .. n) \ upTo
    OBVIOUS
  <1>7. /\ Cardinality(below) + Cardinality(notBelow) = n
        /\ Cardinality(upTo) + Cardinality(above) = n
        /\ Cardinality(below) \in Nat /\ Cardinality(notBelow) \in Nat
        /\ Cardinality(upTo) \in Nat /\ Cardinality(above) \in Nat
        /\ Cardinality(long) \in Nat /\ Cardinality(short) \in Nat /\ Cardinality(both) \in Nat
    BY <1>5, <1>6, TheOthers
  <1>12. PICK lower, rest, reach, over, longer, shorter, common \in Nat :
           /\ lower = Cardinality(below) /\ rest = Cardinality(notBelow)
           /\ reach = Cardinality(upTo) /\ over = Cardinality(above)
           /\ longer = Cardinality(long) /\ shorter = Cardinality(short)
           /\ common = Cardinality(both)
    BY <1>7
  <1>13. lower + rest = n /\ reach + over = n /\ n <= 2 * reach /\ 2 * lower <= n
    BY <1>1, <1>2, <1>7, <1>12
  <1>8. notBelow \in SUBSET (1 .. n) /\ above \in SUBSET (1 .. n)
    BY <1>6
  <1>9. ASSUME 2 * low <= m PROVE 2 * Cardinality(long) >= n
    <2>1. low <= w
      BY <1>1, <1>9
    <2>2. notBelow \in SUBSET long
      BY <1>1, <1>2, <1>4, <1>6, <2>1 DEF Below, IsLong
    <2>3. rest <= longer
      BY <1>5, <1>12, <2>2, NoMore
    <2>4. 2 * longer >= n
      BY <1>13, <2>3
    <2> QED
      BY <1>12, <2>4
  <1>10. ASSUME m <= 2 * high PROVE 2 * Cardinality(short) >= n
    <2>1. v <= high
      BY <1>1, <1>10
    <2>2. upTo \in SUBSET short
      BY <1>1, <1>2, <1>4, <2>1 DEF UpToValue, IsShort
    <2>3. reach <= shorter
      BY <1>5, <1>12, <2>2, NoMore
    <2>4. 2 * shorter >= n
      BY <1>13, <2>3
    <2> QED
      BY <1>12, <2>4
  <1>11. ASSUME 2 * Cardinality(both) > n PROVE 2 * low <= m /\ m <= 2 * high
    <2>1. low <= v
      <3> SUFFICES ASSUME v < low PROVE FALSE
        BY <1>1
      <3>1. both \in SUBSET above
        BY <1>1, <1>2, <1>3, <1>4, <1>6 DEF UpToValue, IsLong
      <3>2. common <= over
        BY <1>8, <1>12, <3>1, NoMore
      <3>3. 2 * common > n
        BY <1>11, <1>12
      <3> QED
        BY <1>13, <3>2, <3>3
    <2>2. w <= high
      <3> SUFFICES ASSUME high < w PROVE FALSE
        BY <1>1
      <3>1. both \in SUBSET below
        BY <1>1, <1>2, <1>3, <1>4 DEF Below, IsShort
      <3>2. common <= lower
        BY <1>5, <1>12, <3>1, NoMore
      <3>3. 2 * common > n
        BY <1>11, <1>12
      <3> QED
        BY <1>13, <3>2, <3>3
    <2> QED
      BY <1>1, <2>1, <2>2
  <1> QED
    BY <1>1, <1>3, <1>9, <1>10, <1>11

\* The cadences do not overlap, so that the median fits one at most.
Fits(m, c) == 2 * CadenceRanges[c][1] <= m /\ m <= 2 * CadenceRanges[c][2]

LEMMA DaysType == ASSUME NEW d \in Int, NEW e \in Int PROVE DaysBetween(d, e) \in Int
  BY DEF DaysBetween, DayNumber, MonthOf, Year

LEMMA CadenceType ==
  /\ DOMAIN CadenceRanges = {"weekly", "monthly", "quarterly", "annual"}
  /\ \A c \in DOMAIN CadenceRanges : CadenceRanges[c][1] \in Int /\ CadenceRanges[c][2] \in Int
  BY DEF CadenceRanges

LEMMA OneFits ==
  ASSUME NEW m \in Int, NEW c \in DOMAIN CadenceRanges, NEW d \in DOMAIN CadenceRanges,
         Fits(m, c), Fits(m, d)
  PROVE  c = d
  <1>1. /\ CadenceRanges["weekly"] = <<5, 9>> /\ CadenceRanges["monthly"] = <<25, 35>>
        /\ CadenceRanges["quarterly"] = <<85, 95>> /\ CadenceRanges["annual"] = <<350, 380>>
    BY DEF CadenceRanges
  <1>2. /\ Fits(m, "weekly") => 10 <= m /\ m <= 18
        /\ Fits(m, "monthly") => 50 <= m /\ m <= 70
        /\ Fits(m, "quarterly") => 170 <= m /\ m <= 190
        /\ Fits(m, "annual") => 700 <= m /\ m <= 760
    BY <1>1 DEF Fits
  <1>3. /\ c \in {"weekly", "monthly", "quarterly", "annual"}
        /\ d \in {"weekly", "monthly", "quarterly", "annual"}
    BY CadenceType
  <1> QED
    BY <1>2, <1>3

\* The cadence of dates is one that at least half of the gaps are long enough for
\* and half short enough, and the one that more than half of them fit.
CadenceTold(gaps, g, cadence) ==
  /\ cadence \in DOMAIN CadenceRanges =>
       /\ 2 * Cardinality({i \in 1 .. g : CadenceRanges[cadence][1] <= gaps[i]}) >= g
       /\ 2 * Cardinality({i \in 1 .. g : gaps[i] <= CadenceRanges[cadence][2]}) >= g
  /\ \A c \in DOMAIN CadenceRanges :
       2 * Cardinality({i \in 1 .. g : CadenceRanges[c][1] <= gaps[i]}
                         \intersect {i \in 1 .. g : gaps[i] <= CadenceRanges[c][2]}) > g
         => cadence = c

\* CadenceOf, with the gaps for a parameter.
Choice(gaps) ==
  IF gaps = <<>> \/ \A c \in DOMAIN CadenceRanges : ~Fits(TwiceMedian(gaps), c) THEN "none"
  ELSE CHOOSE c \in DOMAIN CadenceRanges : Fits(TwiceMedian(gaps), c)

LEMMA ChoiceMade ==
  ASSUME NEW dates, NEW gaps,
         gaps = [i \in 1 .. Len(dates) - 1 |-> DaysBetween(dates[i], dates[i + 1])]
  PROVE  CadenceOf(dates) = Choice(gaps)
  <1>1. CadenceOf(dates)
          = Choice([i \in 1 .. Len(dates) - 1 |-> DaysBetween(dates[i], dates[i + 1])])
    BY Zenon DEF CadenceOf, Choice, Fits
  <1> QED
    BY <1>1, Zenon

LEMMA CadenceSays ==
  ASSUME NEW n \in Nat, n > 1, NEW dates, dates \in [1 .. n -> Int],
         NEW gaps, gaps = [i \in 1 .. n - 1 |-> DaysBetween(dates[i], dates[i + 1])],
         gaps \in [1 .. n - 1 -> Int], NEW cadence, cadence = CadenceOf(dates)
  PROVE  /\ cadence = "none" \/ cadence \in DOMAIN CadenceRanges
         /\ CadenceTold(gaps, n - 1, cadence)
  <1>1. PICK g : g = n - 1 /\ g \in Nat /\ g > 0 /\ gaps \in [1 .. g -> Int]
    OBVIOUS
  <1>2. PICK m : m = TwiceMedian(gaps)
    OBVIOUS
  <1>3. m \in Int
    <2>1. PICK low : low \in Int
      OBVIOUS
    <2>2. PICK some : IsLong(some, g, gaps, low)
      BY DEF IsLong
    <2>3. PICK others : IsShort(others, g, gaps, low)
      BY DEF IsShort
    <2> QED
      BY <1>1, <1>2, <2>1, <2>2, <2>3, MedianCounts
  <1>4. ASSUME NEW c \in DOMAIN CadenceRanges, NEW long, NEW short,
               long = {i \in 1 .. g : CadenceRanges[c][1] <= gaps[i]},
               short = {i \in 1 .. g : gaps[i] <= CadenceRanges[c][2]}
        PROVE  /\ Fits(m, c) => 2 * Cardinality(long) >= g /\ 2 * Cardinality(short) >= g
               /\ 2 * Cardinality(long \intersect short) > g => Fits(m, c)
    <2>1. PICK low, high \in Int : low = CadenceRanges[c][1] /\ high = CadenceRanges[c][2]
      BY CadenceType
    <2>2. low \in Int /\ high \in Int
      BY <2>1, CadenceType
    <2>3. /\ 2 * low <= m => 2 * Cardinality(long) >= g
          /\ m <= 2 * high => 2 * Cardinality(short) >= g
          /\ 2 * Cardinality(long \intersect short) > g => 2 * low <= m /\ m <= 2 * high
      <3>1. IsLong(long, g, gaps, low) /\ IsShort(short, g, gaps, high)
        BY <1>4, <2>1 DEF IsLong, IsShort
      <3>2. g \in Nat /\ g > 0 /\ gaps \in [1 .. g -> Int] /\ m = TwiceMedian(gaps)
        BY <1>1, <1>2
      <3> QED
        BY <2>2, <3>1, <3>2, MedianCounts
    <2> QED
      BY <2>1, <2>3 DEF Fits
  <1>5. /\ cadence = "none" => \A c \in DOMAIN CadenceRanges : ~Fits(m, c)
        /\ cadence # "none" => cadence \in DOMAIN CadenceRanges /\ Fits(m, cadence)
    <2>1. Len(dates) = n /\ gaps # <<>>
      <3>1. Len(dates) = n
        OBVIOUS
      <3>2. 1 \in 1 .. g /\ DOMAIN gaps = 1 .. g
        BY <1>1
      <3>3. DOMAIN <<>> = {}
        OBVIOUS
      <3>4. gaps # <<>>
        BY <3>2, <3>3
      <3> QED
        BY <3>1, <3>4
    <2>2. cadence = IF \A c \in DOMAIN CadenceRanges : ~Fits(m, c) THEN "none"
                    ELSE CHOOSE c \in DOMAIN CadenceRanges : Fits(m, c)
      <3>1. gaps = [i \in 1 .. Len(dates) - 1 |-> DaysBetween(dates[i], dates[i + 1])]
        BY <2>1
      <3>2. CadenceOf(dates) = Choice(gaps)
        BY <3>1, ChoiceMade
      <3> QED
        BY <1>2, <2>1, <3>2 DEF Choice
    <2>3. "none" \notin DOMAIN CadenceRanges
      BY CadenceType
    <2> QED
      BY <2>2, <2>3
  <1>6. "none" \notin DOMAIN CadenceRanges
    BY CadenceType
  <1>7. ASSUME cadence \in DOMAIN CadenceRanges
        PROVE  /\ 2 * Cardinality({i \in 1 .. g : CadenceRanges[cadence][1] <= gaps[i]}) >= g
               /\ 2 * Cardinality({i \in 1 .. g : gaps[i] <= CadenceRanges[cadence][2]}) >= g
    BY <1>4, <1>5, <1>6, <1>7
  <1>8. ASSUME NEW c \in DOMAIN CadenceRanges,
               2 * Cardinality({i \in 1 .. g : CadenceRanges[c][1] <= gaps[i]}
                                 \intersect {i \in 1 .. g : gaps[i] <= CadenceRanges[c][2]}) > g
        PROVE  cadence = c
    <2>1. Fits(m, c)
      BY <1>4, <1>8
    <2> QED
      BY <1>3, <1>5, <2>1, OneFits
  <1> QED
    BY <1>1, <1>5, <1>7, <1>8 DEF CadenceTold

(***************************************************************************)
(* What is said of a merchant.                                             *)
(***************************************************************************)
LEMMA VerdictSays ==
  ASSUME NEW input, NEW rows, NEW said, said = Verdict(rows, input),
         NEW occurrences, occurrences = Reverse(NewestFirst(ToSet(rows))),
         NEW cadence, cadence = CadenceOf([i \in DOMAIN occurrences |-> occurrences[i].date]),
         NEW runs, runs = TrailingRuns(occurrences),
         NEW change, change = Magnitude(AmountCentsOf(Head(runs.after)))
                                - Magnitude(AmountCentsOf(Head(runs.before))),
         NEW enough, enough = Max({input.minOccurrences, 2}),
         NEW established, established = Max({input.minEstablishedRun, 1}),
         NEW told, told = Max({input.minChangeCents, 1})
  PROVE  /\ said.rows = TraceFigure(occurrences).ids
         /\ said.verdict = "few" <=> Len(rows) < enough
         /\ said.verdict = "irregular" => cadence = "none"
         /\ said.verdict \in {"changed", "steady", "variable"} => cadence # "none"
         /\ said.verdict \in {"few", "irregular", "changed", "steady", "variable"}
         /\ said.verdict = "changed" =>
              /\ runs.before # <<>> /\ ~(Len(runs.before) < established)
              /\ ~(Magnitude(change) < told) /\ said.change = change
              /\ said.cadence = cadence
              /\ said.before = TraceFigure(runs.before) /\ said.after = TraceFigure(runs.after)
         /\ said.verdict = "steady" =>
              runs.before = <<>> \/ Magnitude(change) < told
         /\ said.verdict = "variable" =>
              runs.before # <<>> /\ Len(runs.before) < established
  BY DEF Verdict

\* What costs says of the charges, an amount for each.
Costs(said, n, cost) ==
  /\ n \in Nat /\ n > 0 /\ Len(said.rows) = n /\ cost \in [1 .. n -> Int]
  /\ \A i \in 1 .. n : CostAt(said, i) = cost[i]

\* The two runs that were found are the only ones.
LEMMA OnlyTwoRuns ==
  ASSUME NEW said, NEW n, NEW cost, Costs(said, n, cost),
         NEW a \in 2 .. n, NEW b \in 1 .. a - 1,
         \A k \in a .. n : cost[k] = cost[n], cost[a - 1] # cost[n],
         \A k \in b .. a - 1 : cost[k] = cost[a - 1], b > 1 => cost[b - 1] # cost[a - 1]
  PROVE  /\ TwoRuns(said, b, a - 1)
         /\ \A i, j \in 1 .. n - 1 : TwoRuns(said, i, j) => i = b /\ j = a - 1
  <1>1. /\ n \in Nat /\ n > 0 /\ cost \in [1 .. n -> Int] /\ Len(said.rows) = n
        /\ \A i \in 1 .. n : CostAt(said, i) = cost[i]
    BY DEF Costs
  <1>2. TwoRuns(said, b, a - 1)
    <2>1. Flat(said, b, a - 1)
      BY <1>1 DEF Flat
    <2>2. Flat(said, a - 1 + 1, n)
      BY <1>1 DEF Flat
    <2>3. CostAt(said, b) # CostAt(said, n) /\ (b > 1 => CostAt(said, b - 1) # CostAt(said, b))
      BY <1>1
    <2> QED
      BY <1>1, <2>1, <2>2, <2>3 DEF TwoRuns
  <1>3. ASSUME NEW i \in 1 .. n - 1, NEW j \in 1 .. n - 1, TwoRuns(said, i, j)
        PROVE  i = b /\ j = a - 1
    <2>1. /\ i <= j /\ cost[i] # cost[n] /\ (i > 1 => cost[i - 1] # cost[i])
          /\ \A k \in i .. j : cost[k] = cost[i]
          /\ \A k \in j + 1 .. n : cost[k] = cost[j + 1]
      <3>1. /\ i <= j /\ Flat(said, i, j) /\ Flat(said, j + 1, n)
            /\ CostAt(said, i) # CostAt(said, n)
            /\ i > 1 => CostAt(said, i - 1) # CostAt(said, i)
        BY <1>1, <1>3 DEF TwoRuns
      <3> QED
        BY <1>1, <3>1 DEF Flat
    <2>2. ~(j < a - 1)
      <3> SUFFICES ASSUME j < a - 1 PROVE FALSE
        OBVIOUS
      <3>1. cost[a - 1] = cost[j + 1] /\ cost[n] = cost[j + 1]
        BY <1>1, <2>1
      <3> QED
        BY <3>1
    <2>3. ~(j >= a)
      <3> SUFFICES ASSUME j >= a PROVE FALSE
        OBVIOUS
      <3>1. cost[j] = cost[n] /\ cost[j] = cost[i]
        BY <1>1, <2>1
      <3> QED
        BY <2>1, <3>1
    <2>4. j = a - 1
      BY <2>2, <2>3
    <2>5. cost[i] = cost[a - 1]
      BY <2>1, <2>4
    <2>6. ~(i < b)
      <3> SUFFICES ASSUME i < b PROVE FALSE
        OBVIOUS
      <3>1. b - 1 \in i .. j /\ b > 1
        BY <2>4
      <3>2. cost[b - 1] = cost[i]
        BY <2>1, <3>1
      <3> QED
        BY <2>5, <3>1, <3>2
    <2>7. ~(i > b)
      <3> SUFFICES ASSUME i > b PROVE FALSE
        OBVIOUS
      <3>1. i - 1 \in b .. a - 1 /\ i > 1
        BY <2>1, <2>4
      <3>2. cost[i - 1] = cost[a - 1]
        BY <3>1
      <3> QED
        BY <2>1, <2>5, <3>1, <3>2
    <2> QED
      BY <2>4, <2>6, <2>7
  <1> QED
    BY <1>2, <1>3

\* Two lists of the same rows are as long as each other.
LEMMA EnumeratesAll ==
  ASSUME NEW part, Table(part), NEW rows, Enumerates(rows, part),
         NEW others, Enumerates(others, part)
  PROVE  /\ Len(rows) = Cardinality(part) /\ Len(others) = Cardinality(part)
  <1>1. ASSUME NEW s, Enumerates(s, part) PROVE Len(s) = Cardinality(part)
    <2>1. PICK n : n = Len(s) /\ n \in Nat
      BY <1>1 DEF Enumerates
    <2>2. s \in Bijection(1 .. n, part)
      <3>1. s \in [1 .. n -> part]
        BY <1>1, <2>1 DEF Enumerates
      <3>2. \A i, j \in 1 .. n : s[i] = s[j] => i = j
        BY <1>1, <2>1 DEF Enumerates
      <3>3. \A x \in part : \E i \in 1 .. n : s[i] = x
        BY <1>1, <2>1, <3>1 DEF Enumerates, ToSet
      <3> QED
        BY <3>1, <3>2, <3>3 DEF Bijection, Injection, Surjection, IsInjective
    <2>3. IsFiniteSet(1 .. n) /\ Cardinality(1 .. n) = n
      BY <2>1, UpTo
    <2>4. Cardinality(1 .. n) = Cardinality(part)
      BY <2>2, <2>3, FS_Bijection DEF ExistsBijection
    <2> QED
      BY <2>1, <2>3, <2>4
  <1> QED
    BY <1>1

\* What Evidence has to say of the cadence.
Spaced(said) ==
  /\ \A c \in DOMAIN CadenceRanges : MostlySpaced(said, c) =>
       said.verdict # "irregular" /\ (said.verdict = "changed" => said.cadence = c)
  /\ said.verdict \in {"changed", "steady", "variable"} =>
       \E c \in DOMAIN CadenceRanges :
         HalfSpaced(said, c) /\ (said.verdict = "changed" => said.cadence = c)

LEMMA SpacedAsSaid ==
  ASSUME NEW part, Table(part), NEW occurrences \in Seq(part), NEW n \in Nat, n > 0,
         n = Len(occurrences), \A i \in 1 .. n : occurrences[i] \in part,
         NEW said, Len(said.rows) = n, \A i \in 1 .. n : ChargeAt(said, i) = occurrences[i],
         NEW cadence, cadence = CadenceOf([i \in DOMAIN occurrences |-> occurrences[i].date]),
         NEW enough \in Int, enough >= 2, enough = Max({call.minOccurrences, 2}),
         said.verdict = "few" <=> n < Max({call.minOccurrences, 2}),
         said.verdict \in {"few", "irregular", "changed", "steady", "variable"},
         said.verdict = "irregular" => cadence = "none",
         said.verdict \in {"changed", "steady", "variable"} => cadence # "none",
         said.verdict = "changed" => said.cadence = cadence
  PROVE  Spaced(said)
  <1>1. PICK dates : /\ dates = [i \in 1 .. n |-> occurrences[i].date]
                     /\ dates = [i \in DOMAIN occurrences |-> occurrences[i].date]
    OBVIOUS
  <1>2. dates \in [1 .. n -> Int]
    BY <1>1, RowType
  <1>3. PICK gaps : gaps = [i \in 1 .. n - 1 |-> DaysBetween(dates[i], dates[i + 1])]
    OBVIOUS
  <1>4. gaps \in [1 .. n - 1 -> Int]
    <2>1. ASSUME NEW i \in 1 .. n - 1 PROVE DaysBetween(dates[i], dates[i + 1]) \in Int
      <3>1. i \in 1 .. n /\ i + 1 \in 1 .. n
        OBVIOUS
      <3>2. PICK d, e : d = dates[i] /\ e = dates[i + 1]
        OBVIOUS
      <3>3. d \in Int /\ e \in Int
        BY <1>2, <3>1, <3>2
      <3> QED
        BY <3>2, <3>3, DaysType
    <2> QED
      BY <1>3, <2>1
  <1>5. cadence = CadenceOf(dates)
    BY <1>1
  <1>6. ASSUME NEW i \in 1 .. n - 1 PROVE Gap(said, i) = gaps[i]
    <2>1. i \in 1 .. n /\ i + 1 \in 1 .. n
      OBVIOUS
    <2> QED
      BY <1>1, <1>3, <2>1 DEF Gap
  <1>7. ASSUME NEW c \in DOMAIN CadenceRanges
        PROVE  /\ LongEnough(said, c) = {i \in 1 .. n - 1 : CadenceRanges[c][1] <= gaps[i]}
               /\ ShortEnough(said, c) = {i \in 1 .. n - 1 : gaps[i] <= CadenceRanges[c][2]}
    BY <1>6 DEF LongEnough, ShortEnough
  <1>8. CASE n > 1
    <2>1. /\ cadence = "none" \/ cadence \in DOMAIN CadenceRanges
          /\ CadenceTold(gaps, n - 1, cadence)
      BY <1>2, <1>3, <1>4, <1>5, <1>8, CadenceSays
    <2>2. "none" \notin DOMAIN CadenceRanges
      BY CadenceType
    <2>3. \A c \in DOMAIN CadenceRanges : MostlySpaced(said, c) => cadence = c
      BY <1>7, <2>1 DEF CadenceTold, MostlySpaced
    <2>4. cadence \in DOMAIN CadenceRanges => HalfSpaced(said, cadence)
      BY <1>7, <2>1 DEF CadenceTold, HalfSpaced
    <2> QED
      BY <2>1, <2>2, <2>3, <2>4 DEF Spaced
  <1>9. CASE n = 1
    <2>1. said.verdict = "few"
      BY <1>9
    <2> QED
      BY <2>1 DEF Spaced
  <1> QED
    BY <1>8, <1>9

LEMMA EvidenceOfMerchant ==
  ASSUME Table(ToSet(load.rows)), NEW part \in SUBSET ToSet(load.rows), part # {},
         \A row \in part : AmountCentsOf(row) < 0,
         NEW rows, Enumerates(rows, part), NEW input,
         input.minEstablishedRun = call.minEstablishedRun, call.minEstablishedRun \in Int,
         input.minChangeCents = call.minChangeCents, call.minChangeCents \in Int,
         input.minOccurrences = call.minOccurrences, call.minOccurrences \in Int,
         NEW said, said = Verdict(rows, input)
  PROVE  Evidence(said)
  <1>1. Table(part) /\ ToSet(rows) = part
    BY PartOfTable DEF Enumerates
  <1>2. PICK occurrences, n : occurrences = Reverse(NewestFirst(part)) /\ n = Len(occurrences)
    OBVIOUS
  <1>3. Enumerates(occurrences, part)
    BY <1>1, <1>2, OldestFirst
  <1>4. /\ occurrences \in Seq(part) /\ n \in Nat /\ n > 0
        /\ \A i \in 1 .. n : occurrences[i] \in part
    BY <1>2, <1>3 DEF Enumerates, ToSet
  <1>5. PICK runs, cadence, enough, established, told :
          /\ runs = TrailingRuns(occurrences)
          /\ cadence = CadenceOf([i \in DOMAIN occurrences |-> occurrences[i].date])
          /\ enough = Max({input.minOccurrences, 2})
          /\ established = Max({input.minEstablishedRun, 1})
          /\ told = Max({input.minChangeCents, 1})
    OBVIOUS
  <1>6. established \in Int /\ told \in Int /\ enough \in Int /\ enough >= 2
    BY <1>5, MaxOfTwo
  <1>7. PICK change : change = Magnitude(AmountCentsOf(Head(runs.after)))
                                 - Magnitude(AmountCentsOf(Head(runs.before)))
    OBVIOUS
  <1>8. /\ said.rows = TraceFigure(occurrences).ids
        /\ said.verdict = "few" <=> Len(rows) < enough
        /\ said.verdict = "irregular" => cadence = "none"
        /\ said.verdict \in {"changed", "steady", "variable"} => cadence # "none"
        /\ said.verdict \in {"few", "irregular", "changed", "steady", "variable"}
        /\ said.verdict = "changed" =>
             /\ runs.before # <<>> /\ ~(Len(runs.before) < established)
             /\ ~(Magnitude(change) < told) /\ said.change = change
             /\ said.cadence = cadence
             /\ said.before = TraceFigure(runs.before) /\ said.after = TraceFigure(runs.after)
        /\ said.verdict = "steady" => runs.before = <<>> \/ Magnitude(change) < told
        /\ said.verdict = "variable" => runs.before # <<>> /\ Len(runs.before) < established
    <2>1. ToSet(rows) = part
      BY <1>1
    <2>2. occurrences = Reverse(NewestFirst(ToSet(rows)))
      BY <1>2, <2>1
    <2> QED
      BY <1>5, <1>7, <2>2, VerdictSays
  <1>9. Len(said.rows) = n /\ \A i \in 1 .. n : said.rows[i] = occurrences[i].id
    <2>1. PICK ids : ids = said.rows /\ ids = TraceFigure(occurrences).ids
      BY <1>8
    <2>2. Len(ids) = n /\ ids = [i \in 1 .. n |-> occurrences[i].id]
      BY <1>2, <1>4, <2>1, IdsOfTurns
    <2> QED
      BY <2>1, <2>2
  <1>10. ASSUME NEW i \in 1 .. n PROVE ChargeAt(said, i) = occurrences[i]
    <2>1. PICK row : row = occurrences[i] /\ row \in ToSet(load.rows) /\ said.rows[i] = row.id
      BY <1>4, <1>9
    <2>2. \A other \in ToSet(load.rows) : other.id = row.id => other = row
      BY <2>1 DEF Table, DistinctIds
    <2> QED
      BY <2>1, <2>2 DEF ChargeAt
  <1>11. PICK cost : cost = [i \in 1 .. n |-> - AmountCentsOf(occurrences[i])]
    OBVIOUS
  <1>12. ASSUME NEW i \in 1 .. n
         PROVE  /\ AmountCentsOf(occurrences[i]) \in Int
                /\ cost[i] = - AmountCentsOf(occurrences[i])
                /\ Magnitude(AmountCentsOf(occurrences[i])) = cost[i]
                /\ CostAt(said, i) = cost[i]
    <2>1. PICK row : row = occurrences[i] /\ row \in part
      BY <1>4
    <2>2. AmountCentsOf(row) \in Int /\ AmountCentsOf(row) < 0
      BY <1>1, <2>1, AmountType
    <2>3. row.amount = AmountCentsOf(row)
      BY <2>2 DEF AmountCentsOf
    <2> QED
      BY <1>10, <1>11, <2>1, <2>2, <2>3 DEF CostAt, Magnitude
  <1>13. Costs(said, n, cost)
    BY <1>4, <1>9, <1>11, <1>12 DEF Costs
  <1>14. \A i \in 1 .. n - 1 : ChargeAt(said, i).date <= ChargeAt(said, i + 1).date
    BY <1>1, <1>2, <1>4, <1>10, DatesAscend
  <1>18. said.verdict = "few" <=> n < Max({call.minOccurrences, 2})
    <2>1. Len(rows) = Cardinality(part) /\ n = Cardinality(part)
      BY <1>1, <1>2, <1>3, EnumeratesAll
    <2>2. enough = Max({call.minOccurrences, 2})
      BY <1>5
    <2> QED
      BY <1>8, <2>1, <2>2
  <1>19. Spaced(said)
    <2>1. Table(part) /\ occurrences \in Seq(part) /\ n \in Nat /\ n > 0 /\ n = Len(occurrences)
      BY <1>1, <1>2, <1>4
    <2>2. /\ \A i \in 1 .. n : occurrences[i] \in part
          /\ Len(said.rows) = n /\ \A i \in 1 .. n : ChargeAt(said, i) = occurrences[i]
      BY <1>4, <1>9, <1>10
    <2>3. cadence = CadenceOf([i \in DOMAIN occurrences |-> occurrences[i].date])
      BY <1>5
    <2>4. enough \in Int /\ enough >= 2 /\ enough = Max({call.minOccurrences, 2})
      BY <1>5, <1>6
    <2>5. /\ said.verdict \in {"few", "irregular", "changed", "steady", "variable"}
          /\ said.verdict = "irregular" => cadence = "none"
          /\ said.verdict \in {"changed", "steady", "variable"} => cadence # "none"
          /\ said.verdict = "changed" => said.cadence = cadence
      BY <1>8
    <2> QED
      BY <1>18, <2>1, <2>2, <2>3, <2>4, <2>5, SpacedAsSaid
  <1>15. CASE /\ \A k \in 1 .. n : AmountCentsOf(occurrences[k]) = AmountCentsOf(occurrences[n])
              /\ runs.before = <<>>
    <2>1. Flat(said, 1, n)
      BY <1>4, <1>12, <1>15 DEF Flat
    <2> QED
      BY <1>8, <1>9, <1>14, <1>15, <1>18, <1>19, <2>1 DEF Evidence, Spaced
  <1>16. ASSUME NEW a \in 1 .. n, NEW b \in 1 .. n, AreRuns(occurrences, n, a, b),
                runs.before = SubSeq(occurrences, b, a - 1),
                runs.after = SubSeq(occurrences, a, n)
         PROVE  Evidence(said)
    <2>1. PICK j : j = a - 1
      OBVIOUS
    <2>2. /\ a \in 2 .. n /\ b \in 1 .. j /\ j \in 1 .. n - 1 /\ b \in 1 .. n - 1
          /\ b \in 1 .. n /\ j \in b .. n /\ a \in 1 .. n /\ n \in a .. n
      BY <1>4, <1>16, <2>1 DEF AreRuns
    <2>3. /\ \A k \in a .. n : cost[k] = cost[n]
          /\ cost[a - 1] # cost[n]
          /\ \A k \in b .. a - 1 : cost[k] = cost[a - 1]
          /\ b > 1 => cost[b - 1] # cost[a - 1]
      <3>1. /\ \A k \in a .. n : k \in 1 .. n
            /\ \A k \in b .. a - 1 : k \in 1 .. n
            /\ a - 1 \in 1 .. n /\ n \in 1 .. n
            /\ b > 1 => b - 1 \in 1 .. n
        BY <1>4, <2>1, <2>2
      <3>2. \A k \in 1 .. n : cost[k] = - AmountCentsOf(occurrences[k])
                              /\ AmountCentsOf(occurrences[k]) \in Int
        BY <1>12
      <3>3. \A k \in a .. n : cost[k] = cost[n]
        BY <1>16, <3>1, <3>2 DEF AreRuns
      <3>4. cost[a - 1] # cost[n]
        BY <1>16, <3>1, <3>2 DEF AreRuns
      <3>5. \A k \in b .. a - 1 : cost[k] = cost[a - 1]
        BY <1>16, <3>1, <3>2 DEF AreRuns
      <3>6. b > 1 => cost[b - 1] # cost[a - 1]
        BY <1>16, <3>1, <3>2 DEF AreRuns
      <3> QED
        BY <3>3, <3>4, <3>5, <3>6
    <2>4. /\ TwoRuns(said, b, j)
          /\ \A i, k \in 1 .. n - 1 : TwoRuns(said, i, k) => i = b /\ k = j
      BY <1>13, <2>1, <2>2, <2>3, OnlyTwoRuns
    <2>5. PICK before, after : /\ before = SubSeq(occurrences, b, j)
                               /\ after = SubSeq(occurrences, a, n)
      OBVIOUS
    <2>6. PICK ids : ids = said.rows /\ ids = TraceFigure(occurrences).ids
      BY <1>8
    <2>7. occurrences \in Seq(part) /\ n = Len(occurrences)
      BY <1>2, <1>4
    <2>8. IsPart(before, occurrences, ids, b, j) /\ IsPart(after, occurrences, ids, a, n)
      BY <2>2, <2>5, <2>6, <2>7, IdsOfPart
    <2>9. /\ TraceFigure(before).ids = SubSeq(said.rows, b, j)
          /\ Len(before) = j - b + 1 /\ Head(before) = occurrences[b] /\ before # <<>>
      BY <2>6, <2>8 DEF IsPart
    <2>10. /\ TraceFigure(after).ids = SubSeq(said.rows, a, n)
          /\ Head(after) = occurrences[a]
      BY <2>6, <2>8 DEF IsPart
    <2>11. runs.before = before /\ runs.after = after
      BY <1>16, <2>1, <2>5
    <2>12. change = CostAt(said, n) - CostAt(said, b)
      <3>1. cost[a] = cost[n] /\ n \in 1 .. n
        BY <2>2, <2>3
      <3> QED
        BY <1>7, <1>12, <2>2, <2>9, <2>10, <2>11, <3>1
    <2>13. CostAt(said, n) - CostAt(said, b) \in Int
      BY <1>4, <1>11, <1>12, <2>2
    <2>14. Magnitude(change) \in Int
      BY <2>12, <2>13 DEF Magnitude
    <2>15. /\ established = Max({call.minEstablishedRun, 1})
           /\ told = Max({call.minChangeCents, 1})
      BY <1>5
    <2>16. said.verdict = "changed" =>
             /\ TwoRuns(said, b, j) /\ j - b + 1 >= established
             /\ said.before.ids = SubSeq(said.rows, b, j)
             /\ said.after.ids = SubSeq(said.rows, j + 1, n)
             /\ said.change = CostAt(said, n) - CostAt(said, b)
             /\ Magnitude(CostAt(said, n) - CostAt(said, b)) >= told
      <3>1. j + 1 = a
        BY <2>1, <2>2
      <3>2. said.verdict = "changed" =>
              /\ ~(Len(before) < established) /\ ~(Magnitude(change) < told)
              /\ said.change = change
              /\ said.before = TraceFigure(before) /\ said.after = TraceFigure(after)
        BY <1>8, <2>11
      <3>3. ~(Len(before) < established) => j - b + 1 >= established
        BY <1>6, <2>2, <2>9
      <3>4. ~(Magnitude(change) < told) => Magnitude(change) >= told
        BY <1>6, <2>14
      <3> QED
        BY <2>4, <2>9, <2>10, <2>12, <3>1, <3>2, <3>3, <3>4
    <2>17. said.verdict = "steady" =>
             TwoRuns(said, b, j) /\ Magnitude(CostAt(said, n) - CostAt(said, b)) < told
      BY <1>8, <2>4, <2>9, <2>11, <2>12
    <2>18. said.verdict = "variable" =>
             \A i, k \in 1 .. n - 1 : TwoRuns(said, i, k) => k - i + 1 < established
      BY <1>8, <2>4, <2>9, <2>11
    <2> QED
      BY <1>9, <1>14, <1>18, <1>19, <2>2, <2>15, <2>16, <2>17, <2>18 DEF Evidence, Spaced
  <1>17. \/ /\ \A k \in 1 .. n : AmountCentsOf(occurrences[k]) = AmountCentsOf(occurrences[n])
            /\ runs.before = <<>>
         \/ \E a, b \in 1 .. n : /\ AreRuns(occurrences, n, a, b)
                                 /\ runs.before = SubSeq(occurrences, b, a - 1)
                                 /\ runs.after = SubSeq(occurrences, a, n)
    <2>1. FoundRuns(occurrences, runs)
      BY <1>2, <1>4, <1>5, RunsFound
    <2> QED
      BY <1>2, <2>1 DEF FoundRuns
  <1> QED
    BY <1>15, <1>16, <1>17

LEMMA EvidenceNow == TypeOK /\ AnalysisInv => RecurringEvidence
  <1> SUFFICES ASSUME TypeOK, AnalysisInv, answer.kind = "recurring" PROVE RecurringEvidence
    BY DEF RecurringEvidence
  <1>1. Reported
    BY DEF Reported, Analyses
  <1>2. PICK covered : Answers(covered) /\ pc = "idle" /\ call \in world.calls
    BY <1>1 DEF AnalysisInv, AnswerInv
  <1>3. PICK input, set, report : input = Input(covered) /\ set = ToSet(load.rows) /\ report = Report
    OBVIOUS
  <1>4. call.tool = "recurring" /\ report = RecurringChargeChanges(input)
    BY <1>1, <1>2, <1>3 DEF Answers, Report, Analyse
  <1>5. Given(input, set) /\ Table(set)
    BY <1>1, <1>2, <1>3, <1>4, AnalysisGiven DEF AnalysisInv, Given, Analyses
  <1>6. /\ input.minEstablishedRun = call.minEstablishedRun /\ call.minEstablishedRun \in Int
        /\ input.minChangeCents = call.minChangeCents /\ call.minChangeCents \in Int
        /\ input.minOccurrences = call.minOccurrences /\ call.minOccurrences \in Int
    BY <1>2, <1>3, <1>4, WorldAssumption DEF TypeOK, Input
  <1>7. PICK rows, keys : /\ rows = Prepare(input).spending
                          /\ keys = {MerchantOf(row).key : row \in ToSet(Outflows(rows))} \ {""}
    OBVIOUS
  <1>8. /\ DOMAIN report.merchants = keys
        /\ \A key \in keys : report.merchants[key] = Verdict(ChargesOf(rows, key), input)
    BY <1>4, <1>7 DEF RecurringChargeChanges
  <1>9. ASSUME NEW key \in keys PROVE Evidence(report.merchants[key])
    <2>1. PICK part, charges, said : /\ part = Charges(input, set, key)
                                     /\ charges = ChargesOf(rows, key)
                                     /\ said = report.merchants[key]
      OBVIOUS
    <2>2. Enumerates(charges, part) /\ part \in SUBSET set
      BY <1>5, <1>7, <2>1, ChargesOfMerchant
    <2>3. part # {}
      <3>1. Enumerates(Outflows(rows), Outgoing(input, set))
        BY <1>5, <1>7, PreparedRows, FlowRows DEF Outgoing
      <3>2. PICK row \in Outgoing(input, set) : MerchantOf(row).key = key
        BY <1>7, <3>1 DEF Enumerates
      <3> QED
        BY <2>1, <3>2 DEF Charges
    <2>4. \A row \in part : AmountCentsOf(row) < 0
      BY <2>1 DEF Charges, Outgoing, Negative
    <2>5. said = Verdict(charges, input)
      BY <1>8, <2>1
    <2>6. Evidence(said)
      BY <1>3, <1>5, <1>6, <2>2, <2>3, <2>4, <2>5, EvidenceOfMerchant
    <2> QED
      BY <2>1, <2>6
  <1> QED
    BY <1>3, <1>8, <1>9 DEF RecurringEvidence

\* RecurringEvidence: what is said of a merchant's charges, changed, steady or
\* variable, few or irregular, and the cadence it names, is borne out by the
\* charges, for histories of any length and any thresholds.
THEOREM ChangesAreEvident == Spec => []RecurringEvidence
  BY TypeInit, TypeStep, AnalysisInit, AnalysisStep, EvidenceNow, PTL DEF Spec
=============================================================================
