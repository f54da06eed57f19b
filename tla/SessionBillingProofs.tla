----------------------- MODULE SessionBillingProofs -----------------------
(***************************************************************************)
(* Theorems about a session's bills, for any number of participants, bills *)
(* and requests, any amounts and any percentages: first sums over finite   *)
(* sets, then what participants owe, then the requests.                    *)
(***************************************************************************)
EXTENDS SessionBilling, FiniteSetTheorems, WellFoundedInduction, TLAPS

-----------------------------------------------------------------------------
\* Sums.

\* A set of subsets of a finite set that is not empty has a smallest member:
\* induction, as a smallest counterexample.
LEMMA SmallestSet ==
  ASSUME NEW S, IsFiniteSet(S), NEW Bad \in SUBSET (SUBSET S), Bad # {}
  PROVE  \E T \in Bad : \A U \in Bad : U \subseteq T => U = T
<1>1. IsWellFoundedOn(StrictSubsetOrdering(S), SUBSET S)
  BY FS_StrictSubsetOrderingWellFounded, FS_FiniteSubsetsOfFinite
<1>2. PICK T \in Bad : \A U \in Bad : ~(<<U, T>> \in StrictSubsetOrdering(S))
  BY <1>1, WFMin
<1> QED BY <1>2 DEF StrictSubsetOrdering

\* The recursive function behind Sum.
Any(s) == CHOOSE x \in s : TRUE
Solves(g, f, S) ==
  g = [s \in SUBSET S |-> IF s = {} THEN 0 ELSE f[Any(s)] + g[s \ {Any(s)}]]

LEMMA SumIsSolution ==
  ASSUME NEW f, NEW S
  PROVE  Sum(f, S) = (CHOOSE g : Solves(g, f, S))[S]
  BY DEF Sum, MapThenSumSet, MapThenFoldSet, Solves, Any

LEMMA AnyIsMember == ASSUME NEW s, s # {} PROVE Any(s) \in s
  BY DEF Any

LEMMA SolvesAt ==
  ASSUME NEW f, NEW S, NEW g, Solves(g, f, S), NEW T \in SUBSET S
  PROVE  g[T] = IF T = {} THEN 0 ELSE f[Any(T)] + g[T \ {Any(T)}]
<1> DEFINE F(s) == IF s = {} THEN 0 ELSE f[Any(s)] + g[s \ {Any(s)}]
<1>1. g = [s \in SUBSET S |-> F(s)]
  BY Zenon DEF Solves
<1>2. g[T] = F(T)
  <2> HIDE DEF F
  <2> QED BY <1>1
<1> QED BY <1>2

\* Two solutions agree where both are defined.
LEMMA SolutionsAgree ==
  ASSUME NEW f, NEW S, NEW R, NEW g, NEW h, Solves(g, f, S), Solves(h, f, R),
         IsFiniteSet(S), NEW T \in SUBSET S, T \in SUBSET R
  PROVE  g[T] = h[T]
<1> DEFINE Bad == {U \in SUBSET T : g[U] # h[U]}
<1>1. SUFFICES ASSUME Bad # {} PROVE FALSE
  BY <1>1
<1>2. PICK U \in Bad : \A V \in Bad : V \subseteq U => V = U
  <2>1. IsFiniteSet(T) /\ Bad \in SUBSET (SUBSET T)
    BY FS_Subset
  <2> HIDE DEF Bad
  <2> QED BY <1>1, <2>1, SmallestSet
<1>3. /\ g[U] = IF U = {} THEN 0 ELSE f[Any(U)] + g[U \ {Any(U)}]
      /\ h[U] = IF U = {} THEN 0 ELSE f[Any(U)] + h[U \ {Any(U)}]
  <2>1. U \in SUBSET S /\ U \in SUBSET R
    OBVIOUS
  <2> HIDE DEF Bad
  <2> QED BY <2>1, SolvesAt
<1>4. U # {} /\ U \ {Any(U)} \notin Bad
  BY <1>2, <1>3, AnyIsMember
<1>5. g[U \ {Any(U)}] = h[U \ {Any(U)}]
  BY <1>4
<1> QED BY <1>2, <1>3, <1>4, <1>5

\* What a solution on a set makes of Sum.
LEMMA SumOfSolution ==
  ASSUME NEW f, NEW S, IsFiniteSet(S), NEW g, Solves(g, f, S), NEW T \in SUBSET S
  PROVE  g[T] = Sum(f, T)
<1> DEFINE h == [s \in SUBSET T |-> g[s]]
           k == CHOOSE c : Solves(c, f, T)
<1>1. Solves(h, f, T)
  <2>1. ASSUME NEW s \in SUBSET T
        PROVE  g[s] = IF s = {} THEN 0 ELSE f[Any(s)] + h[s \ {Any(s)}]
    <3>1. g[s] = IF s = {} THEN 0 ELSE f[Any(s)] + g[s \ {Any(s)}]
      BY SolvesAt
    <3>2. h[s \ {Any(s)}] = g[s \ {Any(s)}]
      OBVIOUS
    <3> QED BY <3>1, <3>2
  <2> QED BY <2>1 DEF Solves
<1>2. Solves(k, f, T)
  BY <1>1
<1>3. IsFiniteSet(T)
  BY FS_Subset
<1>4. h[T] = k[T]
  <2> HIDE DEF h, k
  <2> QED BY <1>1, <1>2, <1>3, SolutionsAgree
<1> QED BY <1>4, SumIsSolution

LEMMA SumIsSolved ==
  ASSUME NEW f, NEW S, IsFiniteSet(S)
  PROVE  \E g : Solves(g, f, S)
<1> DEFINE Bad == {T \in SUBSET S : ~ \E g : Solves(g, f, T)}
<1>1. SUFFICES ASSUME Bad # {} PROVE FALSE
  BY <1>1
<1>2. PICK T \in Bad : \A U \in Bad : U \subseteq T => U = T
  <2>1. Bad \in SUBSET (SUBSET S)
    OBVIOUS
  <2> HIDE DEF Bad
  <2> QED BY <1>1, <2>1, SmallestSet
<1> DEFINE h == [s \in SUBSET T |-> IF s = {} THEN 0 ELSE f[Any(s)] + Sum(f, s \ {Any(s)})]
<1>3. ASSUME NEW s \in SUBSET T, s # T PROVE h[s] = Sum(f, s)
  <2>1. PICK g : Solves(g, f, s)
    BY <1>2, <1>3
  <2>2. IsFiniteSet(s)
    BY FS_Subset
  <2>3. g[s] = IF s = {} THEN 0 ELSE f[Any(s)] + g[s \ {Any(s)}]
    BY <2>1, SolvesAt
  <2>4. g[s] = Sum(f, s) /\ g[s \ {Any(s)}] = Sum(f, s \ {Any(s)})
    BY <2>1, <2>2, SumOfSolution
  <2> QED BY <2>3, <2>4
<1>4. ASSUME NEW s \in SUBSET T, s # {} PROVE h[s \ {Any(s)}] = Sum(f, s \ {Any(s)})
  BY <1>3, <1>4, AnyIsMember
<1>5. Solves(h, f, T)
  BY <1>4 DEF Solves
<1> QED BY <1>2, <1>5

\* The equation of Sum.
LEMMA SumStep ==
  ASSUME NEW f, NEW S, IsFiniteSet(S)
  PROVE  Sum(f, S) = IF S = {} THEN 0 ELSE f[Any(S)] + Sum(f, S \ {Any(S)})
<1>1. PICK g : Solves(g, f, S)
  BY SumIsSolved
<1>2. g[S] = IF S = {} THEN 0 ELSE f[Any(S)] + g[S \ {Any(S)}]
  BY <1>1, SolvesAt
<1>3. g[S] = Sum(f, S) /\ g[S \ {Any(S)}] = Sum(f, S \ {Any(S)})
  BY <1>1, SumOfSolution
<1> QED BY <1>2, <1>3

LEMMA SumNat ==
  ASSUME NEW S, IsFiniteSet(S), NEW f, \A x \in S : f[x] \in Nat
  PROVE  Sum(f, S) \in Nat
<1> DEFINE Bad == {T \in SUBSET S : Sum(f, T) \notin Nat}
<1>1. SUFFICES ASSUME Bad # {} PROVE FALSE
  BY <1>1
<1>2. PICK T \in Bad : \A U \in Bad : U \subseteq T => U = T
  <2>1. Bad \in SUBSET (SUBSET S)
    OBVIOUS
  <2> HIDE DEF Bad
  <2> QED BY <1>1, <2>1, SmallestSet
<1>3. Sum(f, T) = IF T = {} THEN 0 ELSE f[Any(T)] + Sum(f, T \ {Any(T)})
  BY FS_Subset, SumStep
<1>4. T # {} => Any(T) \in T
  BY AnyIsMember
<1>5. T # {} => Sum(f, T \ {Any(T)}) \in Nat
  BY <1>2, <1>4
<1> QED BY <1>2, <1>3, <1>4, <1>5

\* Any member may be taken out first.
LEMMA SumWithout ==
  ASSUME NEW S, IsFiniteSet(S), NEW f, \A x \in S : f[x] \in Nat, NEW x \in S
  PROVE  Sum(f, S) = f[x] + Sum(f, S \ {x})
<1> DEFINE Bad == {T \in SUBSET S : \E y \in T : Sum(f, T) # f[y] + Sum(f, T \ {y})}
<1>1. SUFFICES ASSUME Bad # {} PROVE FALSE
  BY <1>1
<1>2. PICK T \in Bad : \A U \in Bad : U \subseteq T => U = T
  <2>1. Bad \in SUBSET (SUBSET S)
    OBVIOUS
  <2> HIDE DEF Bad
  <2> QED BY <1>1, <2>1, SmallestSet
<1>3. PICK y \in T : Sum(f, T) # f[y] + Sum(f, T \ {y})
  BY <1>2
<1> DEFINE a == Any(T)
<1>4. a \in T /\ Sum(f, T) = f[a] + Sum(f, T \ {a})
  BY <1>3, FS_Subset, SumStep, AnyIsMember
<1> HIDE DEF a
<1>5. a # y
  BY <1>3, <1>4
<1>6. Sum(f, T \ {a}) = f[y] + Sum(f, (T \ {a}) \ {y})
  BY <1>2, <1>4, <1>5
<1>7. Sum(f, T \ {y}) = f[a] + Sum(f, (T \ {y}) \ {a})
  <2>1. T \ {y} \notin Bad
    BY <1>2
  <2> QED BY <1>4, <1>5, <2>1
<1>8. (T \ {a}) \ {y} = (T \ {y}) \ {a}
  OBVIOUS
<1>9. Sum(f, (T \ {a}) \ {y}) \in Nat /\ f[a] \in Nat /\ f[y] \in Nat
  <2>1. IsFiniteSet((T \ {a}) \ {y})
    BY FS_Subset
  <2> QED BY <2>1, <1>4, SumNat
<1> QED BY <1>3, <1>4, <1>6, <1>7, <1>8, <1>9

LEMMA SumEmpty == ASSUME NEW f, NEW S, S = {} PROVE Sum(f, S) = 0
  BY FS_EmptySet, SumStep

LEMMA SumAdded ==
  ASSUME NEW S, IsFiniteSet(S), NEW x, x \notin S, NEW f, \A y \in S \cup {x} : f[y] \in Nat
  PROVE  Sum(f, S \cup {x}) = f[x] + Sum(f, S)
<1>1. IsFiniteSet(S \cup {x}) /\ (S \cup {x}) \ {x} = S
  BY FS_AddElement
<1>2. Sum(f, S \cup {x}) = f[x] + Sum(f, (S \cup {x}) \ {x})
  BY <1>1, SumWithout
<1> QED BY <1>1, <1>2

\* A sum grows with its terms.
LEMMA SumCompare ==
  ASSUME NEW S, IsFiniteSet(S), NEW f, NEW g,
         \A x \in S : f[x] \in Nat /\ g[x] \in Nat /\ f[x] <= g[x]
  PROVE  Sum(f, S) <= Sum(g, S)
<1> DEFINE Bad == {T \in SUBSET S : ~(Sum(f, T) <= Sum(g, T))}
<1>1. SUFFICES ASSUME Bad # {} PROVE FALSE
  BY <1>1
<1>2. PICK T \in Bad : \A U \in Bad : U \subseteq T => U = T
  <2>1. Bad \in SUBSET (SUBSET S)
    OBVIOUS
  <2> HIDE DEF Bad
  <2> QED BY <1>1, <2>1, SmallestSet
<1>3. ASSUME T = {} PROVE FALSE
  <2>1. Sum(f, T) = 0 /\ Sum(g, T) = 0
    BY <1>3, SumEmpty
  <2> QED BY <1>2, <2>1
<1>4. PICK x \in T : TRUE
  BY <1>3
<1>5. Sum(f, T) = f[x] + Sum(f, T \ {x}) /\ Sum(g, T) = g[x] + Sum(g, T \ {x})
  BY FS_Subset, SumWithout
<1>6. Sum(f, T \ {x}) \in Nat /\ Sum(g, T \ {x}) \in Nat
  <2>1. IsFiniteSet(T \ {x})
    BY FS_Subset
  <2> QED BY <2>1, SumNat
<1>7. Sum(f, T \ {x}) <= Sum(g, T \ {x})
  BY <1>2
<1> QED BY <1>2, <1>5, <1>6, <1>7

LEMMA SumSame ==
  ASSUME NEW S, IsFiniteSet(S), NEW f, NEW g, \A x \in S : f[x] \in Nat /\ g[x] = f[x]
  PROVE  Sum(g, S) = Sum(f, S)
<1>1. Sum(f, S) <= Sum(g, S) /\ Sum(g, S) <= Sum(f, S)
  BY SumCompare
<1>2. Sum(f, S) \in Nat /\ Sum(g, S) \in Nat
  BY SumNat
<1> QED BY <1>1, <1>2

LEMMA SumConstant ==
  ASSUME NEW S, IsFiniteSet(S), NEW c \in Nat, NEW f, \A x \in S : f[x] = c
  PROVE  Sum(f, S) = c * Cardinality(S)
<1> DEFINE Bad == {T \in SUBSET S : Sum(f, T) # c * Cardinality(T)}
<1>1. SUFFICES ASSUME Bad # {} PROVE FALSE
  BY <1>1
<1>2. PICK T \in Bad : \A U \in Bad : U \subseteq T => U = T
  <2>1. Bad \in SUBSET (SUBSET S)
    OBVIOUS
  <2> HIDE DEF Bad
  <2> QED BY <1>1, <2>1, SmallestSet
<1>3. IsFiniteSet(T) /\ Cardinality(T) \in Nat
  BY FS_Subset, FS_CardinalityType
<1>4. ASSUME T = {} PROVE FALSE
  <2>1. Sum(f, T) = 0 /\ Cardinality(T) = 0
    BY <1>4, SumEmpty, FS_EmptySet
  <2> QED BY <1>2, <2>1
<1>5. PICK x \in T : TRUE
  BY <1>4
<1>6. Sum(f, T) = c + Sum(f, T \ {x})
  BY <1>3, SumWithout
<1>7. Sum(f, T \ {x}) = c * Cardinality(T \ {x})
  BY <1>2
<1>8. Cardinality(T \ {x}) = Cardinality(T) - 1
  BY <1>3, FS_RemoveElement
<1>9. c + c * (Cardinality(T) - 1) = c * Cardinality(T)
  BY <1>3
<1> QED BY <1>2, <1>6, <1>7, <1>8, <1>9

LEMMA SumPlus ==
  ASSUME NEW S, IsFiniteSet(S), NEW f, NEW g, NEW h,
         \A x \in S : f[x] \in Nat /\ g[x] \in Nat /\ h[x] = f[x] + g[x]
  PROVE  Sum(h, S) = Sum(f, S) + Sum(g, S)
<1> DEFINE Bad == {T \in SUBSET S : Sum(h, T) # Sum(f, T) + Sum(g, T)}
<1>1. SUFFICES ASSUME Bad # {} PROVE FALSE
  BY <1>1
<1>2. PICK T \in Bad : \A U \in Bad : U \subseteq T => U = T
  <2>1. Bad \in SUBSET (SUBSET S)
    OBVIOUS
  <2> HIDE DEF Bad
  <2> QED BY <1>1, <2>1, SmallestSet
<1>3. ASSUME T = {} PROVE FALSE
  <2>1. Sum(f, T) = 0 /\ Sum(g, T) = 0 /\ Sum(h, T) = 0
    BY <1>3, SumEmpty
  <2> QED BY <1>2, <2>1
<1>4. PICK x \in T : TRUE
  BY <1>3
<1>5. /\ Sum(f, T) = f[x] + Sum(f, T \ {x})
      /\ Sum(g, T) = g[x] + Sum(g, T \ {x})
      /\ Sum(h, T) = h[x] + Sum(h, T \ {x})
  <2>1. IsFiniteSet(T) /\ \A y \in T : f[y] \in Nat /\ g[y] \in Nat /\ h[y] \in Nat
    BY FS_Subset
  <2> QED BY <2>1, SumWithout
<1>6. Sum(f, T \ {x}) \in Nat /\ Sum(g, T \ {x}) \in Nat
  <2>1. IsFiniteSet(T \ {x})
    BY FS_Subset
  <2> QED BY <2>1, SumNat
<1>7. Sum(h, T \ {x}) = Sum(f, T \ {x}) + Sum(g, T \ {x})
  BY <1>2
<1> QED BY <1>2, <1>5, <1>6, <1>7

\* Summed by rows or by columns.
Table(m, P, B, byRow, byColumn) ==
  /\ IsFiniteSet(P) /\ IsFiniteSet(B)
  /\ \A p \in P, b \in B : m[p][b] \in Nat
  /\ \A p \in P : byRow[p] = Sum(m[p], B)
  /\ byColumn = [b \in B |-> [p \in P |-> m[p][b]]]

LEMMA SumSwap ==
  ASSUME NEW m, NEW P, NEW B, NEW byRow, NEW byColumn, Table(m, P, B, byRow, byColumn)
  PROVE  Sum(byRow, P) = Sum([b \in B |-> Sum(byColumn[b], P)], B)
<1>0. /\ IsFiniteSet(P) /\ IsFiniteSet(B)
      /\ \A p \in P, b \in B : m[p][b] \in Nat
      /\ \A p \in P : byRow[p] = Sum(m[p], B)
      /\ byColumn = [b \in B |-> [p \in P |-> m[p][b]]]
  BY DEF Table
<1> USE <1>0
<1> DEFINE c(T) == [b \in B |-> Sum(byColumn[b], T)]
           Bad == {T \in SUBSET P : Sum(byRow, T) # Sum(c(T), B)}
<1>1. SUFFICES ASSUME Bad # {} PROVE FALSE
  BY <1>1
<1>2. PICK T \in Bad : \A U \in Bad : U \subseteq T => U = T
  <2>1. Bad \in SUBSET (SUBSET P)
    OBVIOUS
  <2> HIDE DEF Bad
  <2> QED BY <1>1, <2>1, SmallestSet
<1>3. \A p \in P : byRow[p] \in Nat
  BY SumNat
<1>4. ASSUME T = {} PROVE FALSE
  <2>1. \A b \in B : c(T)[b] = 0
    BY <1>4, SumEmpty
  <2>2. Sum(c(T), B) = 0 * Cardinality(B) /\ Cardinality(B) \in Nat
    <3> HIDE DEF c
    <3> QED BY <2>1, SumConstant, FS_CardinalityType
  <2>3. Sum(byRow, T) = 0
    BY <1>4, SumEmpty
  <2> QED BY <1>2, <2>2, <2>3
<1>5. PICK x \in T : TRUE
  BY <1>4
<1>6. Sum(byRow, T) = Sum(m[x], B) + Sum(c(T \ {x}), B)
  <2>1. Sum(byRow, T) = byRow[x] + Sum(byRow, T \ {x})
    BY <1>3, FS_Subset, SumWithout
  <2>2. Sum(byRow, T \ {x}) = Sum(c(T \ {x}), B)
    <3> HIDE DEF c
    <3> QED BY <1>2
  <2> QED BY <2>1, <2>2
<1>7. ASSUME NEW b \in B
      PROVE  /\ m[x][b] \in Nat /\ c(T \ {x})[b] \in Nat
             /\ c(T)[b] = m[x][b] + c(T \ {x})[b]
  <2>1. \A p \in T : byColumn[b][p] = m[p][b] /\ m[p][b] \in Nat
    OBVIOUS
  <2>2. IsFiniteSet(T) /\ IsFiniteSet(T \ {x})
    BY FS_Subset
  <2> DEFINE f == byColumn[b]
  <2>3. Sum(f, T) = f[x] + Sum(f, T \ {x}) /\ Sum(f, T \ {x}) \in Nat
    <3> HIDE DEF Bad, f
    <3>1. \A p \in T : f[p] \in Nat
      BY <2>1 DEF f
    <3> QED BY <2>2, <3>1, SumWithout, SumNat
  <2> QED BY <2>1, <2>3
<1>8. Sum(c(T), B) = Sum(m[x], B) + Sum(c(T \ {x}), B)
  <2> HIDE DEF c
  <2> QED BY <1>7, SumPlus
<1> QED BY <1>2, <1>6, <1>8

LEMMA SumOfPart ==
  ASSUME NEW S, IsFiniteSet(S), NEW T \in SUBSET S, NEW f,
         \A x \in T : f[x] \in Nat, \A x \in S \ T : f[x] = 0
  PROVE  Sum(f, S) = Sum(f, T)
<1> DEFINE Bad == {U \in SUBSET S : Sum(f, U) # Sum(f, U \cap T)}
<1>1. SUFFICES ASSUME Bad # {} PROVE FALSE
  <2>1. S \cap T = T /\ S \notin Bad
    BY <1>1
  <2> QED BY <2>1
<1>2. PICK U \in Bad : \A V \in Bad : V \subseteq U => V = U
  <2>1. Bad \in SUBSET (SUBSET S)
    OBVIOUS
  <2> HIDE DEF Bad
  <2> QED BY <1>1, <2>1, SmallestSet
<1>3. U # {}
  BY <1>2
<1>4. PICK x \in U : TRUE
  BY <1>3
<1>5. IsFiniteSet(U) /\ IsFiniteSet(U \cap T) /\ IsFiniteSet(U \ {x})
  BY FS_Subset
<1>6. \A y \in S : f[y] \in Nat
  OBVIOUS
<1>7. Sum(f, U) = f[x] + Sum(f, U \ {x}) /\ Sum(f, U \ {x}) \in Nat
  BY <1>5, <1>6, SumWithout, SumNat
<1>8. Sum(f, U \ {x}) = Sum(f, (U \ {x}) \cap T)
  BY <1>2
<1>9. CASE x \in T
  <2>1. Sum(f, U \cap T) = f[x] + Sum(f, (U \cap T) \ {x})
    BY <1>5, <1>6, <1>9, SumWithout
  <2>2. (U \cap T) \ {x} = (U \ {x}) \cap T
    OBVIOUS
  <2> QED BY <1>2, <1>7, <1>8, <2>1, <2>2
<1>10. CASE x \notin T
  <2>1. (U \ {x}) \cap T = U \cap T /\ f[x] = 0
    BY <1>10
  <2> QED BY <1>2, <1>7, <1>8, <2>1
<1> QED BY <1>9, <1>10

-----------------------------------------------------------------------------
\* Charges.

LEMMA Products ==
  ASSUME NEW a \in Nat, NEW b \in Nat
  PROVE  a * b \in Nat /\ a * 0 = 0
  OBVIOUS

LEMMA ChargeBounds ==
  ASSUME NEW base \in Nat, NEW pct \in Nat
  PROVE  /\ ChargeOn(base, pct) \in Nat
         /\ pct = 0 => ChargeOn(base, pct) = 0
<1>1. 2 * base \in Nat
  OBVIOUS
<1>2. 2 * base * pct \in Nat /\ (pct = 0 => 2 * base * pct = 0)
  BY <1>1, Products
<1> DEFINE e == 2 * base * pct
<1> HIDE DEF e
<1>3. e \in Nat => (e + 10000) \div 20000 \in Nat
  OBVIOUS
<1>4. e = 0 => (e + 10000) \div 20000 = 0
  OBVIOUS
<1> QED BY <1>2, <1>3, <1>4 DEF ChargeOn, e

LEMMA Percentage ==
  ASSUME NEW pct \in Percentages, NEW c \in Charges
  PROVE  pct[c] \in Nat /\ (pct[c] > 0 \/ pct[c] = 0)
<1>1. Whole \in Nat
  BY DEF Whole
<1>2. pct[c] \in Nat
  BY <1>1 DEF Percentages
<1> QED BY <1>2

LEMMA NoCharge ==
  ASSUME NEW base \in Nat, NEW pct \in Percentages, NEW c \in Charges
  PROVE  /\ ChargeOn(base, pct[c]) \in Nat
         /\ ~HasFees(pct) => ChargeOn(base, pct[c]) = 0
<1>1. pct[c] \in Nat
  BY Percentage
<1>2. pct[c] > 0 => HasFees(pct)
  BY DEF HasFees
<1>3. pct[c] > 0 \/ pct[c] = 0
  BY Percentage
<1>4. ChargeOn(base, pct[c]) \in Nat /\ (pct[c] = 0 => ChargeOn(base, pct[c]) = 0)
  BY <1>1, ChargeBounds
<1> QED BY <1>2, <1>3, <1>4, Zenon

LEMMA ChargeGrows ==
  ASSUME NEW low \in Nat, NEW high \in Nat, low <= high, NEW pct \in Nat
  PROVE  ChargeOn(low, pct) <= ChargeOn(high, pct)
<1>1. PICK d \in Nat : high = low + d
  <2>1. high - low \in Nat /\ high = low + (high - low)
    OBVIOUS
  <2> QED BY <2>1
<1>2. 2 * high * pct = 2 * low * pct + 2 * d * pct /\ 2 * d * pct \in Nat /\ 2 * low * pct \in Nat
  BY <1>1
<1> DEFINE a == 2 * low * pct
           e == 2 * d * pct
<1>3. a \in Nat /\ e \in Nat /\ 2 * high * pct = a + e
  BY <1>2
<1> HIDE DEF a, e
<1>4. (a + 10000) \div 20000 <= (a + e + 10000) \div 20000
  BY <1>3
<1> QED BY <1>3, <1>4 DEF ChargeOn, a

-----------------------------------------------------------------------------
\* Shares of one bill.

LEMMA Division ==
  ASSUME NEW a \in Nat, NEW n \in Nat \ {0}
  PROVE  /\ a \div n \in Nat /\ a % n \in Nat
         /\ a = (a \div n) * n + (a % n)
  OBVIOUS

\* What the sharers owe adds up to the bill.
SplitOf(f, amount, present, sharers, last) ==
  /\ IsFiniteSet(present) /\ sharers \in SUBSET present /\ last \in sharers /\ amount \in Nat
  /\ \A p \in present : f[p] = ShareOf(amount, sharers, last, p)

LEMMA SharesCoverBill ==
  ASSUME NEW f, NEW amount, NEW present, NEW sharers, NEW last,
         SplitOf(f, amount, present, sharers, last)
  PROVE  /\ \A p \in present : f[p] \in Nat
         /\ Sum(f, present) = amount
<1>0. /\ IsFiniteSet(present) /\ sharers \in SUBSET present /\ last \in sharers /\ amount \in Nat
      /\ \A p \in present : f[p] = ShareOf(amount, sharers, last, p)
  BY DEF SplitOf
<1> USE <1>0
<1> DEFINE n == Cardinality(sharers)
           q == amount \div n
<1>1. IsFiniteSet(sharers) /\ n \in Nat \ {0}
  BY FS_Subset, FS_CardinalityType, FS_EmptySet
<1>2. q \in Nat /\ amount % n \in Nat /\ amount = q * n + (amount % n)
  BY <1>1, Division
<1>3. /\ \A p \in present \ sharers : f[p] = 0
      /\ \A p \in sharers \ {last} : f[p] = q
      /\ f[last] = q + (amount % n)
  BY <1>2 DEF ShareOf
<1> HIDE DEF n, q
<1>4. \A p \in present : f[p] \in Nat
  BY <1>2, <1>3
<1>5. Sum(f, present) = Sum(f, sharers)
  BY <1>3, <1>4, SumOfPart
<1>6. Sum(f, sharers) = f[last] + Sum(f, sharers \ {last})
  BY <1>1, <1>4, SumWithout
<1>7. Sum(f, sharers \ {last}) = q * (n - 1)
  <2>1. IsFiniteSet(sharers \ {last}) /\ Cardinality(sharers \ {last}) = n - 1
    BY <1>1, FS_RemoveElement DEF n
  <2> QED BY <1>2, <1>3, <2>1, SumConstant
<1>8. q + (amount % n) + q * (n - 1) = q * n + (amount % n)
  BY <1>1, <1>2
<1> QED BY <1>2, <1>3, <1>4, <1>5, <1>6, <1>7, <1>8

\* Bills, percentages and last sharers as a calculation finds them.
Calculable(items, B, present, last, pct) ==
  /\ IsFiniteSet(B) /\ IsFiniteSet(present)
  /\ \A b \in B : items[b].amount \in Nat /\ last[b] \in Sharers(items[b].scope, present)
  /\ pct \in Percentages

LEMMA BillCalculable ==
  ASSUME NEW items, NEW B, NEW present, NEW last, NEW pct,
         Calculable(items, B, present, last, pct), NEW b \in B
  PROVE  LET sharers == Sharers(items[b].scope, present) IN
         sharers \in SUBSET present /\ last[b] \in sharers /\ items[b].amount \in Nat
  BY DEF Calculable, Sharers

Part(items, B, present, last, p) ==
  [b \in B |-> ShareOf(items[b].amount, Sharers(items[b].scope, present), last[b], p)]
Fee(items, B, pct, part) ==
  [c \in Charges |-> ChargeOn(Sum(part, {b \in B : c \in items[b].charged}), pct[c])]

LEMMA OwedIsPartAndFee ==
  ASSUME NEW items, NEW B, NEW present, NEW last, NEW pct, NEW p
  PROVE  LET part == Part(items, B, present, last, p)
         IN  Owed(items, B, present, last, pct, p) = Sum(part, B) + Sum(Fee(items, B, pct, part), Charges)
  BY DEF Owed, Part, Fee

LEMMA ChargesFinite == IsFiniteSet(Charges)
<1>1. IsFiniteSet({} \cup {"service"}) /\ IsFiniteSet(({} \cup {"service"}) \cup {"tax"})
  BY FS_EmptySet, FS_AddElement
<1>2. ({} \cup {"service"}) \cup {"tax"} = Charges
  BY DEF Charges
<1> QED BY <1>1, <1>2

LEMMA FeeTypes ==
  ASSUME NEW items, NEW B, IsFiniteSet(B), NEW pct \in Percentages,
         NEW part, \A b \in B : part[b] \in Nat
  PROVE  /\ \A c \in Charges : Fee(items, B, pct, part)[c] \in Nat
         /\ Sum(Fee(items, B, pct, part), Charges) \in Nat
         /\ ~HasFees(pct) => Sum(Fee(items, B, pct, part), Charges) = 0
<1>1. ASSUME NEW c \in Charges
      PROVE  /\ Fee(items, B, pct, part)[c] \in Nat
             /\ ~HasFees(pct) => Fee(items, B, pct, part)[c] = 0
  <2> DEFINE base == Sum(part, {b \in B : c \in items[b].charged})
  <2>1. base \in Nat
    <3>1. IsFiniteSet({b \in B : c \in items[b].charged})
      BY FS_Subset
    <3> QED BY <3>1, SumNat
  <2>2. Fee(items, B, pct, part)[c] = ChargeOn(base, pct[c])
    BY DEF Fee
  <2> HIDE DEF base
  <2> QED BY <2>1, <2>2, NoCharge
<1>2. ~HasFees(pct) => Sum(Fee(items, B, pct, part), Charges) = 0 * Cardinality(Charges)
  BY <1>1, ChargesFinite, SumConstant
<1>3. 0 * Cardinality(Charges) = 0
  BY ChargesFinite, FS_CardinalityType
<1> QED BY <1>1, <1>2, <1>3, ChargesFinite, SumNat

LEMMA OwedTypes ==
  ASSUME NEW items, NEW B, NEW present, NEW last, NEW pct,
         Calculable(items, B, present, last, pct), NEW p \in present
  PROVE  LET part == Part(items, B, present, last, p) IN
         /\ \A b \in B : part[b] \in Nat
         /\ Sum(part, B) \in Nat
         /\ Owed(items, B, present, last, pct, p) \in Nat
         /\ Sum(part, B) <= Owed(items, B, present, last, pct, p)
         /\ ~HasFees(pct) => Owed(items, B, present, last, pct, p) = Sum(part, B)
<1> DEFINE part == Part(items, B, present, last, p)
           fee  == Fee(items, B, pct, part)
<1>1. ASSUME NEW b \in B PROVE part[b] \in Nat
  <2> DEFINE sharers == Sharers(items[b].scope, present)
             f == [o \in present |-> ShareOf(items[b].amount, sharers, last[b], o)]
  <2>1. sharers \in SUBSET present /\ last[b] \in sharers /\ items[b].amount \in Nat /\ IsFiniteSet(present)
    BY BillCalculable DEF Calculable
  <2>2. \A o \in present : f[o] = ShareOf(items[b].amount, sharers, last[b], o)
    OBVIOUS
  <2>3. part[b] = f[p]
    BY DEF Part
  <2>4. f[p] \in Nat
    <3>1. SplitOf(f, items[b].amount, present, sharers, last[b])
      BY <2>1, <2>2 DEF SplitOf
    <3> HIDE DEF f
    <3> QED BY <3>1, SharesCoverBill
  <2> QED BY <2>3, <2>4
<1>2. IsFiniteSet(B) /\ pct \in Percentages
  BY DEF Calculable
<1>3. Owed(items, B, present, last, pct, p) = Sum(part, B) + Sum(fee, Charges)
  BY OwedIsPartAndFee
<1> HIDE DEF part
<1>4. Sum(part, B) \in Nat
  BY <1>1, <1>2, SumNat
<1>5. Sum(fee, Charges) \in Nat /\ (~HasFees(pct) => Sum(fee, Charges) = 0)
  BY <1>1, <1>2, FeeTypes
<1> HIDE DEF fee
<1>6. QED BY <1>1, <1>3, <1>4, <1>5 DEF part

\* The parts of all bills that all participants owe add up to the bills.
LEMMA PartsCoverBills ==
  ASSUME NEW items, NEW B, NEW present, NEW last, NEW pct,
         Calculable(items, B, present, last, pct), NEW parts,
         \A p \in present : parts[p] = Sum(Part(items, B, present, last, p), B)
  PROVE  Sum(parts, present) = Sum([b \in B |-> items[b].amount], B)
<1> DEFINE m == [p \in present |-> Part(items, B, present, last, p)]
           byColumn == [b \in B |-> [p \in present |-> m[p][b]]]
           byBill == [b \in B |-> Sum(byColumn[b], present)]
           amount == [b \in B |-> items[b].amount]
<1>1. IsFiniteSet(B) /\ IsFiniteSet(present)
  BY DEF Calculable
<1>2. \A p \in present, b \in B : m[p][b] \in Nat
  BY OwedTypes
<1>3. \A p \in present : parts[p] = Sum(m[p], B)
  OBVIOUS
<1>4. Sum(parts, present) = Sum(byBill, B)
  <2>1. Table(m, present, B, parts, byColumn)
    BY <1>1, <1>2, <1>3 DEF Table
  <2> HIDE DEF m, byColumn
  <2> QED BY <2>1, SumSwap
<1>5. ASSUME NEW b \in B PROVE amount[b] \in Nat /\ byBill[b] = amount[b]
  <2> DEFINE sharers == Sharers(items[b].scope, present)
             f == byColumn[b]
  <2>1. sharers \in SUBSET present /\ last[b] \in sharers /\ items[b].amount \in Nat
    BY BillCalculable
  <2>2. \A p \in present : f[p] = ShareOf(items[b].amount, sharers, last[b], p)
    BY DEF Part
  <2>3. Sum(f, present) = items[b].amount
    <3>1. SplitOf(f, items[b].amount, present, sharers, last[b])
      BY <1>1, <2>1, <2>2 DEF SplitOf
    <3> HIDE DEF f
    <3> QED BY <3>1, SharesCoverBill
  <2> QED BY <2>1, <2>3
<1>6. Sum(byBill, B) = Sum(amount, B)
  <2> HIDE DEF byBill, amount
  <2> QED BY <1>1, <1>5, SumSame
<1> QED BY <1>4, <1>6

\* What all participants owe is the bills and their charges.
LEMMA OwedCoversBills ==
  ASSUME NEW items, NEW B, NEW present, NEW last, NEW pct,
         Calculable(items, B, present, last, pct), NEW owed,
         \A p \in present : owed[p] = Owed(items, B, present, last, pct, p)
  PROVE  LET fees == FeesOwed(items, B, present, last, pct)
             bills == Sum([b \in B |-> items[b].amount], B)
         IN  /\ bills \in Nat /\ fees \in Nat
             /\ Sum(owed, present) = bills + fees
             /\ ~HasFees(pct) => Sum(owed, present) = bills
<1> DEFINE all   == [p \in present |-> Owed(items, B, present, last, pct, p)]
           parts == [p \in present |-> Sum(Part(items, B, present, last, p), B)]
           amount == [b \in B |-> items[b].amount]
           fees == FeesOwed(items, B, present, last, pct)
<1>1. IsFiniteSet(B) /\ IsFiniteSet(present)
  BY DEF Calculable
<1>2. ASSUME NEW p \in present
      PROVE  /\ all[p] \in Nat /\ parts[p] \in Nat /\ parts[p] <= all[p] /\ owed[p] = all[p]
             /\ ~HasFees(pct) => all[p] = parts[p]
  BY OwedTypes
<1>3. Sum(parts, present) = Sum(amount, B)
  <2>1. \A p \in present : parts[p] = Sum(Part(items, B, present, last, p), B)
    OBVIOUS
  <2> HIDE DEF parts
  <2> QED BY <2>1, PartsCoverBills
<1>4. fees = Sum(all, present) - Sum(amount, B)
  BY DEF FeesOwed
<1> HIDE DEF all, parts, amount, fees
<1>5. Sum(owed, present) = Sum(all, present)
  BY <1>1, <1>2, SumSame
<1>6. Sum(parts, present) <= Sum(all, present)
  BY <1>1, <1>2, SumCompare
<1>7. Sum(all, present) \in Nat /\ Sum(parts, present) \in Nat
  BY <1>1, <1>2, SumNat
<1>8. ~HasFees(pct) => Sum(all, present) = Sum(parts, present)
  BY <1>1, <1>2, SumSame
<1>9. /\ Sum(amount, B) \in Nat /\ fees \in Nat
      /\ Sum(owed, present) = Sum(amount, B) + fees
      /\ ~HasFees(pct) => Sum(owed, present) = Sum(amount, B)
  BY <1>3, <1>4, <1>5, <1>6, <1>7, <1>8
<1> QED BY <1>9 DEF amount, fees

LEMMA PageShareBelow ==
  ASSUME NEW items, NEW B, NEW present, NEW last, NEW pct,
         Calculable(items, B, present, last, pct), NEW p \in present,
         NEW b \in B, items[b].scope \in SUBSET present
  PROVE  LET page == PageShare(items[b].amount, items[b].scope, Cardinality(present), p)
         IN  page \in Nat /\ page <= Part(items, B, present, last, p)[b]
<1> DEFINE amount == items[b].amount
           scope == items[b].scope
           sharers == Sharers(scope, present)
           n == Cardinality(sharers)
           q == amount \div n
<1>1. /\ sharers \in SUBSET present /\ last[b] \in sharers /\ amount \in Nat
      /\ IsFiniteSet(present)
  BY BillCalculable DEF Calculable
<1>2. IsFiniteSet(sharers) /\ n \in Nat \ {0}
  BY <1>1, FS_Subset, FS_CardinalityType, FS_EmptySet
<1>3. q \in Nat /\ amount % n \in Nat
  <2> HIDE DEF amount, n
  <2> QED BY <1>1, <1>2, Division
<1>4. /\ scope = {} => sharers = present
      /\ scope # {} => sharers = scope
  BY DEF Sharers
<1>5. Part(items, B, present, last, p)[b] = ShareOf(amount, sharers, last[b], p)
  BY DEF Part
<1>6. ShareOf(amount, sharers, last[b], p) =
        IF p \notin sharers THEN 0 ELSE q + (IF p = last[b] THEN amount % n ELSE 0)
  BY DEF ShareOf
<1>7. PageShare(amount, scope, Cardinality(present), p) = IF p \in sharers THEN q ELSE 0
  BY <1>4 DEF PageShare
<1> HIDE DEF amount, scope, n, q, sharers
<1>8. /\ PageShare(amount, scope, Cardinality(present), p) \in Nat
      /\ PageShare(amount, scope, Cardinality(present), p) <= ShareOf(amount, sharers, last[b], p)
  BY <1>3, <1>6, <1>7
<1> QED BY <1>5, <1>8 DEF amount, scope

\* The page's breakdown stays below what is owed.
LEMMA PageBelowOwed ==
  ASSUME NEW items, NEW B, NEW present, NEW last, NEW pct,
         Calculable(items, B, present, last, pct), NEW p \in present,
         \A b \in B : items[b].scope \in SUBSET present
  PROVE  PageTotal(items, B, Cardinality(present), pct, p) <= Owed(items, B, present, last, pct, p)
<1> DEFINE part == Part(items, B, present, last, p)
           page == [b \in B |-> PageShare(items[b].amount, items[b].scope, Cardinality(present), p)]
           fee  == Fee(items, B, pct, part)
           feeOfPage == Fee(items, B, pct, page)
<1>1. IsFiniteSet(B) /\ pct \in Percentages
  BY DEF Calculable
<1>2. \A b \in B : part[b] \in Nat
  BY OwedTypes
<1>3. \A b \in B : page[b] \in Nat /\ page[b] <= part[b]
  BY PageShareBelow
<1>4. PageTotal(items, B, Cardinality(present), pct, p) = Sum(page, B) + Sum(feeOfPage, Charges)
  BY DEF PageTotal, Fee
<1>5. Owed(items, B, present, last, pct, p) = Sum(part, B) + Sum(fee, Charges)
  BY OwedIsPartAndFee
<1> HIDE DEF part, page
<1>6. ASSUME NEW c \in Charges
      PROVE  fee[c] \in Nat /\ feeOfPage[c] \in Nat /\ feeOfPage[c] <= fee[c]
  <2> DEFINE C == {b \in B : c \in items[b].charged}
             low == Sum(page, C)
             high == Sum(part, C)
  <2>1. IsFiniteSet(C) /\ \A b \in C : part[b] \in Nat /\ page[b] \in Nat /\ page[b] <= part[b]
    BY <1>1, <1>2, <1>3, FS_Subset
  <2>2. low \in Nat /\ high \in Nat /\ low <= high
    <3> HIDE DEF C
    <3> QED BY <2>1, SumNat, SumCompare
  <2>3. fee[c] = ChargeOn(high, pct[c]) /\ feeOfPage[c] = ChargeOn(low, pct[c])
    BY DEF Fee
  <2>4. pct[c] \in Nat
    BY <1>1, Percentage
  <2> HIDE DEF low, high, fee, feeOfPage
  <2>5. ChargeOn(high, pct[c]) \in Nat /\ ChargeOn(low, pct[c]) \in Nat
    BY <2>2, <2>4, ChargeBounds
  <2>6. ChargeOn(low, pct[c]) <= ChargeOn(high, pct[c])
    BY <2>2, <2>4, ChargeGrows
  <2> QED BY <2>3, <2>5, <2>6
<1> HIDE DEF fee, feeOfPage
<1>7. Sum(page, B) <= Sum(part, B) /\ Sum(page, B) \in Nat /\ Sum(part, B) \in Nat
  BY <1>1, <1>2, <1>3, SumNat, SumCompare
<1>8. /\ Sum(feeOfPage, Charges) <= Sum(fee, Charges)
      /\ Sum(feeOfPage, Charges) \in Nat /\ Sum(fee, Charges) \in Nat
  BY <1>6, ChargesFinite, SumNat, SumCompare
<1> QED BY <1>4, <1>5, <1>7, <1>8

-----------------------------------------------------------------------------
\* Types.

\* The fields a request has, by where it is.
LEMMA RequestFields ==
  ASSUME NEW q \in Request
  PROVE  /\ q.pc \in {"idle", "splits", "join", "import", "leave", "create", "update", "delete",
                       "sum", "people", "bills", "shares", "save", "touch"}
         /\ q.pc \in {"create", "update", "delete", "sum", "people", "bills"} => q.seen \in Session
         /\ q.pc = "create" => q.entry \in Entries
         /\ q.pc = "update" => q.which \in Bills /\ q.entry \in Bill
         /\ q.pc = "delete" => q.which \in Bills
         /\ q.pc = "sum" => q.then \in {"idle", "splits"}
         /\ q.pc = "bills" => q.of \in SUBSET People /\ q.newest \in People
         /\ q.pc = "shares" => q.row \in Session /\ q.of \in SUBSET People /\ q.shares \in [People -> Nat]
         /\ q.pc = "save" => q.row \in Session /\ q.then \in {"idle", "splits", "settled"}
         /\ q.pc = "touch" => q.who \in People /\ q.share \in Nat
  BY DEF Request

\* Every place a request can go to is a request state.
LEMMA RequestStates ==
  ASSUME NEW x \in Session
  PROVE  /\ \A e \in Entries : [pc |-> "create", seen |-> x, entry |-> e] \in Request
         /\ \A b \in Bills, e \in Bill : [pc |-> "update", seen |-> x, which |-> b, entry |-> e] \in Request
         /\ \A b \in Bills : [pc |-> "delete", seen |-> x, which |-> b] \in Request
         /\ \A n \in {"idle", "splits"} : [pc |-> "sum", seen |-> x, then |-> n] \in Request
         /\ [pc |-> "people", seen |-> x] \in Request
  BY DEF Request

LEMMA PlainState ==
  ASSUME NEW s \in {"idle", "splits", "join", "import", "leave"} PROVE At(s) \in Request
  BY DEF Request, At

LEMMA BillsState ==
  ASSUME NEW x \in Session, NEW o \in SUBSET People, NEW p \in People
  PROVE  [pc |-> "bills", seen |-> x, of |-> o, newest |-> p] \in Request
  BY DEF Request

LEMMA SharesState ==
  ASSUME NEW x \in Session, NEW o \in SUBSET People, NEW f \in [People -> Nat]
  PROVE  [pc |-> "shares", of |-> o, shares |-> f, row |-> x] \in Request
  BY DEF Request

LEMMA SaveState ==
  ASSUME NEW x \in Session, NEW n \in {"idle", "splits", "settled"}
  PROVE  [pc |-> "save", row |-> x, then |-> n] \in Request
  BY DEF Request

LEMMA TouchState ==
  ASSUME NEW p \in People, NEW n \in Nat
  PROVE  [pc |-> "touch", who |-> p, share |-> n] \in Request
  BY DEF Request

LEMMA Totals ==
  ASSUME NEW x \in Session, NEW n \in Nat
  PROVE  /\ AddToTotal(x, n) \in Session /\ SetTotal(x, n) \in Session
         /\ AddToTotal(x, n).total = x.total + n
         /\ SetTotal(x, n).total = n /\ SetTotal(x, n).pct = x.pct
  BY DEF Session, AddToTotal, SetTotal

LEMMA LiveBills ==
  ASSUME TypeOK
  PROVE  /\ IsFiniteSet(Live) /\ Live \in SUBSET Bills
         /\ IsFiniteSet(People_) /\ People_ \in SUBSET People
         /\ \A b \in Live : bill[b].amount \in Nat /\ Amount[b] = bill[b].amount
         /\ Amount = [b \in Live |-> bill[b].amount]
         /\ Sum(Amount, Live) \in Nat
<1>1. Live \in SUBSET Bills /\ IsFiniteSet(Live)
  BY BillingAssumption, FS_Subset DEF Live
<1>2. People_ \in SUBSET People /\ IsFiniteSet(People_)
  <2>1. \A k \in DOMAIN order : order[k] \in People
    BY DEF TypeOK
  <2>2. People_ \in SUBSET People
    BY <2>1 DEF People_
  <2> QED BY <2>2, BillingAssumption, FS_Subset
<1>3. \A b \in Live : bill[b].amount \in Nat
  BY <1>1 DEF TypeOK, Bill
<1>4. Amount = [b \in Live |-> bill[b].amount]
  BY DEF Amount
<1>5. \A b \in Live : Amount[b] \in Nat
  BY <1>3, <1>4
<1> QED BY <1>1, <1>2, <1>3, <1>4, <1>5, SumNat

\* The numbers a calculation is made of.
LEMMA ReadBillsCalculable ==
  ASSUME TypeOK, NEW r \in Requests, req[r].pc = "bills", NEW last \in [Live -> req[r].of],
         \A b \in Live : last[b] \in LastSharers(bill[b].scope, req[r].of, req[r].newest)
  PROVE  Calculable(bill, Live, req[r].of, last, req[r].seen.pct)
<1> DEFINE q == req[r]
<1>1. q \in Request
  BY DEF TypeOK
<1>2. q.of \in SUBSET People /\ IsFiniteSet(q.of) /\ q.seen.pct \in Percentages
  BY <1>1, RequestFields, BillingAssumption, FS_Subset DEF Session
<1>3. ASSUME NEW b \in Live PROVE last[b] \in Sharers(bill[b].scope, q.of)
  BY DEF LastSharers, Sharers
<1> QED BY <1>2, <1>3, LiveBills DEF Calculable

\* Where a request goes is one of the places there are.
LEMMA GoToType ==
  ASSUME TypeOK, NEW r \in Requests, NEW state \in Request, GoTo(r, state)
  PROVE  req' \in [Requests -> Request]
BY DEF TypeOK, GoTo

\* What starting a request and the history leave typed.
LEMMA StartTypes ==
  ASSUME TypeOK, NEW r \in Requests
  PROVE  /\ Starts(r) => served' \in 0..MaxServed
         /\ Changes(r) => outdated' \in SUBSET Requests /\ settled' \in BOOLEAN
         /\ Stores(r) => outdated' \in SUBSET Requests /\ settled' \in BOOLEAN /\ lost' \in BOOLEAN
         /\ Reads(r) => /\ outdated' \in SUBSET Requests /\ settled' \in BOOLEAN /\ lost' \in BOOLEAN
                        /\ UNCHANGED rows
<1>1. Starts(r) => served' \in 0..MaxServed
  BY BillingAssumption DEF TypeOK, Starts
<1> QED BY <1>1 DEF TypeOK, Changes, Stores, Reads

LEMMA EntryTypes ==
  /\ \A e \in Entries : e.amount \in Nat /\ e.amount > 0 /\ e.scope \in SUBSET People /\ e.charged \in SUBSET Charges
  /\ \A n \in Nat, s \in SUBSET People, c \in SUBSET Charges :
       [state |-> "live", amount |-> n, scope |-> s, charged |-> c] \in Bill
  BY BillingAssumption DEF Bill

LEMMA BillTypes ==
  ASSUME TypeOK, NEW r \in Requests, BillStep(r)
  PROVE  TypeOK'
<1>1. req[r] \in Request /\ session \in Session
  BY DEF TypeOK
<1>2. \A b \in Bills : bill[b] \in Bill /\ bill[b].scope \in SUBSET People
  BY DEF TypeOK, Bill
<1>3. At("idle") \in Request
  BY PlainState
<1>4. ASSUME NEW e \in Entries, AddBillItem(r, e) PROVE TypeOK'
  <2>1. req' \in [Requests -> Request]
    BY <1>1, <1>4, GoToType, RequestStates DEF AddBillItem
  <2> QED BY <1>4, <2>1, StartTypes DEF AddBillItem, TypeOK, rows
<1>5. ASSUME NEW b \in Bills, NEW e \in Entries, UpdateBillItem(r, b, e) PROVE TypeOK'
  <2>1. PICK scope \in {e.scope, bill[b].scope} :
          GoTo(r, [pc |-> "update", seen |-> session, which |-> b, entry |->
            [state |-> "live", amount |-> e.amount, scope |-> scope, charged |-> e.charged]])
    BY <1>5 DEF UpdateBillItem
  <2>2. [state |-> "live", amount |-> e.amount, scope |-> scope, charged |-> e.charged] \in Bill
    BY <1>2, EntryTypes
  <2>3. req' \in [Requests -> Request]
    BY <1>1, <2>1, <2>2, GoToType, RequestStates
  <2> QED BY <1>5, <2>3, StartTypes DEF UpdateBillItem, TypeOK, rows
<1>6. ASSUME NEW b \in Bills, DeleteBillItem(r, b) PROVE TypeOK'
  <2>1. req' \in [Requests -> Request]
    BY <1>1, <1>6, GoToType, RequestStates DEF DeleteBillItem
  <2> QED BY <1>6, <2>1, StartTypes DEF DeleteBillItem, TypeOK, rows
<1>7. ASSUME NEW b \in Bills, Create(r, b) PROVE TypeOK'
  <2>1. req[r].pc = "create" /\ req[r].entry \in Entries /\ req[r].seen \in Session
    BY <1>1, <1>7, RequestFields DEF Create
  <2>2. CASE req[r].entry.scope \in SUBSET People_
    <3>1. bill' = [bill EXCEPT ![b] = [state |-> "live", amount |-> req[r].entry.amount,
                    scope |-> req[r].entry.scope, charged |-> req[r].entry.charged]]
      BY <1>7, <2>2 DEF Create
    <3>2. bill' \in [Bills -> Bill]
      BY <2>1, <3>1, EntryTypes DEF TypeOK
    <3>3. [pc |-> "save", row |-> AddToTotal(req[r].seen, req[r].entry.amount), then |-> "idle"] \in Request
      <4>1. req[r].entry.amount \in Nat
        BY <2>1, EntryTypes
      <4>2. AddToTotal(req[r].seen, req[r].entry.amount) \in Session
        BY <2>1, <4>1, Totals
      <4> QED BY <4>2, SaveState
    <3>4. req' \in [Requests -> Request]
      BY <1>7, <2>2, <3>3, GoToType DEF Create
    <3> QED BY <1>7, <2>2, <3>2, <3>4, StartTypes DEF Create, TypeOK
  <2>3. CASE req[r].entry.scope \notin SUBSET People_
    <3>1. req' \in [Requests -> Request]
      BY <1>3, <1>7, <2>3, GoToType DEF Create
    <3> QED BY <1>7, <2>3, <3>1 DEF Create, TypeOK
  <2> QED BY <2>2, <2>3
<1>8. CASE Update(r)
  <2>1. req[r].which \in Bills /\ req[r].entry \in Bill /\ req[r].seen \in Session
    BY <1>1, <1>8, RequestFields DEF Update
  <2>2. CASE req[r].which \in Live /\ req[r].entry.scope \in SUBSET People_
    <3>1. bill' \in [Bills -> Bill]
      BY <1>8, <2>1, <2>2 DEF Update, TypeOK
    <3>2. req' \in [Requests -> Request]
      BY <1>8, <2>1, <2>2, GoToType, RequestStates DEF Update
    <3> QED BY <1>8, <2>2, <3>1, <3>2, StartTypes DEF Update, TypeOK
  <2>3. CASE ~(req[r].which \in Live /\ req[r].entry.scope \in SUBSET People_)
    <3>1. req' \in [Requests -> Request]
      BY <1>3, <1>8, <2>3, GoToType DEF Update
    <3> QED BY <1>8, <2>3, <3>1 DEF Update, TypeOK
  <2> QED BY <2>2, <2>3
<1>9. CASE Delete(r)
  <2>1. req[r].which \in Bills /\ req[r].seen \in Session
    BY <1>1, <1>9, RequestFields DEF Delete
  <2>2. CASE req[r].which \in Live
    <3>1. /\ bill' = [bill EXCEPT ![req[r].which].state = "deleted"]
          /\ GoTo(r, [pc |-> "sum", seen |-> req[r].seen, then |-> "splits"])
      BY <1>9, <2>2 DEF Delete
    <3>2. bill' \in [Bills -> Bill]
      BY <2>1, <3>1 DEF TypeOK, Bill
    <3>3. [pc |-> "sum", seen |-> req[r].seen, then |-> "splits"] \in Request
      BY <2>1, RequestStates
    <3>4. req' \in [Requests -> Request]
      BY <3>1, <3>3, GoToType
    <3> QED BY <1>9, <2>2, <3>2, <3>4, StartTypes DEF Delete, TypeOK
  <2>3. CASE req[r].which \notin Live
    <3>1. req' \in [Requests -> Request]
      BY <1>3, <1>9, <2>3, GoToType DEF Delete
    <3> QED BY <1>9, <2>3, <3>1 DEF Delete, TypeOK
  <2> QED BY <2>2, <2>3
<1>10. CASE FindBySessionID(r)
  <2>1. req[r].seen \in Session /\ req[r].then \in {"idle", "splits"}
    BY <1>1, <1>10, RequestFields DEF FindBySessionID
  <2>2. [pc |-> "save", row |-> SetTotal(req[r].seen, Sum(Amount, Live)), then |-> req[r].then] \in Request
    <3>1. SetTotal(req[r].seen, Sum(Amount, Live)) \in Session
      BY <2>1, LiveBills, Totals
    <3> QED BY <2>1, <3>1, SaveState
  <2>3. req' \in [Requests -> Request]
    BY <1>10, <2>2, GoToType DEF FindBySessionID
  <2> QED BY <1>10, <2>3 DEF FindBySessionID, TypeOK, rows
<1> QED BY <1>4, <1>5, <1>6, <1>7, <1>8, <1>9, <1>10 DEF BillStep

LEMMA SessionTypes ==
  ASSUME TypeOK, NEW r \in Requests, SessionStep(r)
  PROVE  TypeOK'
<1>1. req[r] \in Request /\ session \in Session
  BY DEF TypeOK
<1>2. ASSUME NEW pct \in FeeConfigs, UpdateFeeConfig(r, pct) PROVE TypeOK'
  <2>1. [session EXCEPT !.pct = pct] \in Session
    BY <1>1, BillingAssumption DEF Session
  <2>2. [pc |-> "save", row |-> [session EXCEPT !.pct = pct], then |-> "idle"] \in Request
    BY <2>1, SaveState
  <2>3. req' \in [Requests -> Request]
    BY <1>2, <2>2, GoToType DEF UpdateFeeConfig
  <2> QED BY <1>2, <2>3, StartTypes DEF UpdateFeeConfig, TypeOK, rows
<1>3. ASSUME NEW open \in BOOLEAN, UpdateSession(r, open) PROVE TypeOK'
  <2>1. [session EXCEPT !.open = open] \in Session
    BY <1>1 DEF Session
  <2>2. [pc |-> "save", row |-> [session EXCEPT !.open = open], then |-> "idle"] \in Request
    BY <2>1, SaveState
  <2>3. req' \in [Requests -> Request]
    BY <1>3, <2>2, GoToType DEF UpdateSession
  <2> QED BY <1>3, <2>3, StartTypes DEF UpdateSession, TypeOK, rows
<1>4. CASE SessionUpdate(r)
  <2>1. req[r].row \in Session
    BY <1>1, <1>4, RequestFields DEF SessionUpdate
  <2>2. At("splits") \in Request /\ At("idle") \in Request
    BY PlainState
  <2>3. req' \in [Requests -> Request]
    BY <1>4, <2>2, GoToType DEF SessionUpdate
  <2> QED BY <1>4, <2>1, <2>3 DEF SessionUpdate, TypeOK
<1> QED BY <1>2, <1>3, <1>4 DEF SessionStep

LEMMA SplitTypes ==
  ASSUME TypeOK, NEW r \in Requests, SplitStep(r)
  PROVE  TypeOK'
<1>1. req[r] \in Request /\ session \in Session
  BY DEF TypeOK
<1>2. CASE CalculateSplits(r)
  <2>1. req' \in [Requests -> Request]
    <3>1. GoTo(r, [pc |-> "people", seen |-> session])
      BY <1>2 DEF CalculateSplits
    <3>2. [pc |-> "people", seen |-> session] \in Request
      BY <1>1, RequestStates
    <3> QED BY <3>1, <3>2, GoToType
  <2>2. served' \in 0..MaxServed
    BY <1>2, StartTypes DEF CalculateSplits, TypeOK
  <2> QED BY <1>2, <2>1, <2>2, StartTypes DEF CalculateSplits, TypeOK, rows
<1>3. CASE ReadParticipants(r)
  <2>1. req[r].seen \in Session
    BY <1>1, <1>3, RequestFields DEF ReadParticipants
  <2>2. req' \in [Requests -> Request]
    <3>1. PICK p \in People : GoTo(r, [pc |-> "bills", seen |-> req[r].seen, of |-> People_, newest |-> p])
      BY <1>3 DEF ReadParticipants
    <3>2. [pc |-> "bills", seen |-> req[r].seen, of |-> People_, newest |-> p] \in Request
      BY <2>1, LiveBills, BillsState
    <3> QED BY <3>1, <3>2, GoToType
  <2> QED BY <1>3, <2>2 DEF ReadParticipants, TypeOK, rows
<1>4. CASE ReadBills(r)
  <2> DEFINE q == req[r]
  <2>1. q.seen \in Session /\ q.of \in SUBSET People
    BY <1>1, <1>4, RequestFields DEF ReadBills
  <2>2. PICK last \in [Live -> q.of] :
          /\ \A b \in Live : last[b] \in LastSharers(bill[b].scope, q.of, q.newest)
          /\ GoTo(r, [pc |-> "shares",
               of |-> q.of,
               shares |-> [p \in People |-> IF p \in q.of
                  THEN Owed(bill, Live, q.of, last, q.seen.pct, p) ELSE 0],
               row |-> IF HasFees(q.seen.pct)
                       THEN GrandTotal(q.seen, Live, FeesOwed(bill, Live, q.of, last, q.seen.pct))
                       ELSE q.seen])
    BY <1>4 DEF ReadBills
  <2>3. Calculable(bill, Live, q.of, last, q.seen.pct)
    BY <1>4, <2>2, ReadBillsCalculable DEF ReadBills
  <2> DEFINE shares == [p \in People |-> IF p \in q.of
                  THEN Owed(bill, Live, q.of, last, q.seen.pct, p) ELSE 0]
             fees == FeesOwed(bill, Live, q.of, last, q.seen.pct)
             row == IF HasFees(q.seen.pct) THEN GrandTotal(q.seen, Live, fees) ELSE q.seen
  <2>4. shares \in [People -> Nat]
    BY <2>3, OwedTypes
  <2>5. fees \in Nat
    <3>1. \A p \in q.of : shares[p] = Owed(bill, Live, q.of, last, q.seen.pct, p)
      BY <2>1
    <3> HIDE DEF shares, q
    <3> QED BY <2>3, <3>1, OwedCoversBills
  <2>6. row \in Session
    <3> HIDE DEF fees, q
    <3>1. Sum(Amount, Live) + fees \in Nat
      BY <2>5, LiveBills
    <3> QED BY <2>1, <3>1, Totals DEF GrandTotal
  <2>7. GoTo(r, [pc |-> "shares", of |-> q.of, shares |-> shares, row |-> row])
    BY <2>2
  <2> HIDE DEF shares, row, fees, q
  <2>8. req' \in [Requests -> Request]
    BY <2>1, <2>4, <2>6, <2>7, GoToType, SharesState DEF q
  <2> QED BY <1>4, <2>8 DEF ReadBills, TypeOK, rows
<1>5. CASE BulkUpdateShareAmounts(r)
  <2>1. req[r].row \in Session /\ req[r].of \in SUBSET People /\ req[r].shares \in [People -> Nat]
    BY <1>1, <1>5, RequestFields DEF BulkUpdateShareAmounts
  <2>2. share' \in [People -> Nat]
    BY <1>5, <2>1 DEF BulkUpdateShareAmounts, TypeOK
  <2>3. At("idle") \in Request /\ [pc |-> "save", row |-> req[r].row, then |-> "settled"] \in Request
    BY <2>1, PlainState, SaveState
  <2>4. req' \in [Requests -> Request] /\ settled' \in BOOLEAN
    BY <1>5, <2>3, GoToType DEF BulkUpdateShareAmounts
  <2> QED BY <1>5, <2>2, <2>4 DEF BulkUpdateShareAmounts, TypeOK
<1> QED BY <1>2, <1>3, <1>4, <1>5 DEF SplitStep

LEMMA PeopleTypes ==
  ASSUME TypeOK, NEW r \in Requests, PeopleStep(r)
  PROVE  TypeOK'
<1>1. req[r] \in Request
  BY DEF TypeOK
<1>2. \A s \in {"idle", "splits", "join", "import", "leave"} : At(s) \in Request
  BY PlainState
<1>3. CASE AddParticipants(r) \/ ImportFromGroup(r) \/ RemoveParticipant(r)
  <2>1. req' \in [Requests -> Request]
    BY <1>2, <1>3, GoToType DEF AddParticipants, ImportFromGroup, RemoveParticipant
  <2> QED BY <1>3, <2>1, StartTypes DEF AddParticipants, ImportFromGroup, RemoveParticipant, TypeOK, rows
<1>4. CASE AddEnds(r)
  <2>1. req' \in [Requests -> Request]
    BY <1>2, <1>4, GoToType DEF AddEnds
  <2> QED BY <1>4, <2>1 DEF AddEnds, TypeOK, rows
<1>5. ASSUME NEW p \in People, Join(r, p) PROVE TypeOK'
  BY <1>5, StartTypes DEF Join, TypeOK
<1>6. ASSUME NEW p \in People, Remove(r, p) PROVE TypeOK'
  <2>1. req' \in [Requests -> Request]
    BY <1>2, <1>6, GoToType DEF Remove
  <2>2. \A b \in Bills : Without(bill[b], p) \in Bill
    BY DEF TypeOK, Bill, Without
  <2> QED BY <1>6, <2>1, <2>2, StartTypes DEF Remove, TypeOK
<1>7. ASSUME NEW p \in People, ParticipantRead(r, p) PROVE TypeOK'
  <2>1. share[p] \in Nat
    BY DEF TypeOK
  <2>2. req' \in [Requests -> Request]
    BY <1>7, <2>1, GoToType, TouchState DEF ParticipantRead
  <2> QED BY <1>7, <2>2, StartTypes DEF ParticipantRead, TypeOK, rows
<1>8. CASE ParticipantUpdate(r)
  <2>1. req[r].who \in People /\ req[r].share \in Nat
    BY <1>1, <1>8, RequestFields DEF ParticipantUpdate
  <2>2. req' \in [Requests -> Request]
    BY <1>2, <1>8, GoToType DEF ParticipantUpdate
  <2>3. share' \in [People -> Nat]
    BY <1>8, <2>1 DEF ParticipantUpdate, TypeOK
  <2> QED BY <1>8, <2>2, <2>3, StartTypes DEF ParticipantUpdate, TypeOK
<1> QED BY <1>3, <1>4, <1>5, <1>6, <1>7, <1>8 DEF PeopleStep

LEMMA TypeStep ==
  ASSUME TypeOK, [Next]_vars
  PROVE  TypeOK'
<1>1. CASE UNCHANGED vars
  BY <1>1 DEF TypeOK, vars, rows
<1>2. ASSUME NEW r \in Requests, Return(r) \/ Fail(r) PROVE TypeOK'
  <2>1. req' \in [Requests -> Request]
    BY <1>2, GoToType, PlainState DEF Return, Fail
  <2>2. faults' \in 0..MaxFaults
    BY <1>2, BillingAssumption DEF Return, Fail, TypeOK
  <2> QED BY <1>2, <2>1, <2>2 DEF Return, Fail, TypeOK, rows
<1> QED BY <1>1, <1>2, BillTypes, SessionTypes, SplitTypes, PeopleTypes DEF Next

LEMMA InitTypes == Init => TypeOK
<1> SUFFICES ASSUME Init PROVE TypeOK
  OBVIOUS
<1>1. NoFees \in Percentages
  <2>1. 0 \in 0..Whole
    BY DEF Whole
  <2> QED BY <2>1 DEF NoFees, Percentages
<1>2. session \in Session
  BY <1>1 DEF Init, Session
<1>3. bill \in [Bills -> Bill]
  BY DEF Init, Bill
<1>4. req \in [Requests -> Request]
  BY PlainState DEF Init
<1>5. <<>> \in Seq(People)
  OBVIOUS
<1>6. share \in [People -> Nat] /\ served \in 0..MaxServed /\ faults \in 0..MaxFaults
  BY BillingAssumption DEF Init
<1> QED BY <1>2, <1>3, <1>4, <1>5, <1>6 DEF Init, TypeOK

\* Every column, row and request has its type, the amounts a calculation works
\* out and the totals stored included: none is negative.
THEOREM TypeCorrect == Spec => []TypeOK
  BY InitTypes, TypeStep, PTL DEF Spec

-----------------------------------------------------------------------------
\* Who takes part.

LEMMA Joining ==
  ASSUME TypeOK, NEW p \in People, order' = Append(order, p), gone' = gone, p \notin gone
  PROVE  People_' = People_ \cup {p}
<1>1. /\ DOMAIN order' = DOMAIN order \cup {Len(order) + 1}
      /\ \A k \in DOMAIN order : order'[k] = order[k]
      /\ order'[Len(order) + 1] = p
  BY DEF TypeOK
<1> QED BY <1>1 DEF People_

LEMMA Leaving ==
  ASSUME NEW p \in People, order' = order, gone' = gone \cup {p}
  PROVE  People_' = People_ \ {p}
  BY DEF People_

\* Steps that leave bills and participants alone.
LEMMA SamePeopleAndBills ==
  ASSUME UNCHANGED <<order, gone, bill>>
  PROVE  Live' = Live /\ People_' = People_ /\ Amount' = Amount
  BY DEF Live, People_, Amount

LEMMA ScopesStep ==
  ASSUME TypeOK, ScopesPresent, [Next]_vars
  PROVE  ScopesPresent'
<1>1. ASSUME UNCHANGED <<order, gone, bill>> PROVE ScopesPresent'
  BY <1>1, SamePeopleAndBills DEF ScopesPresent
<1>2. CASE UNCHANGED vars
  BY <1>1, <1>2 DEF vars, rows
<1>3. ASSUME NEW r \in Requests, BillStep(r) PROVE ScopesPresent'
  <2>1. ASSUME NEW b \in Bills, Create(r, b) PROVE ScopesPresent'
    <3>1. CASE req[r].entry.scope \in SUBSET People_
      <4>1. /\ bill' = [bill EXCEPT ![b] = [state |-> "live", amount |-> req[r].entry.amount,
                         scope |-> req[r].entry.scope, charged |-> req[r].entry.charged]]
            /\ UNCHANGED <<order, gone>>
        BY <2>1, <3>1 DEF Create
      <4>2. People_' = People_
        BY <4>1 DEF People_
      <4>3. /\ bill'[b].scope = req[r].entry.scope
            /\ \A o \in Bills \ {b} : bill'[o] = bill[o]
        BY <4>1 DEF TypeOK
      <4> QED BY <3>1, <4>2, <4>3 DEF ScopesPresent, Live
    <3>2. CASE req[r].entry.scope \notin SUBSET People_
      BY <1>1, <2>1, <3>2 DEF Create
    <3> QED BY <3>1, <3>2
  <2>2. CASE Update(r)
    <3>1. CASE req[r].which \in Live /\ req[r].entry.scope \in SUBSET People_
      <4>1. bill' = [bill EXCEPT ![req[r].which] = req[r].entry] /\ UNCHANGED <<order, gone>>
        BY <2>2, <3>1 DEF Update
      <4>2. People_' = People_
        BY <4>1 DEF People_
      <4>3. /\ bill'[req[r].which].scope = req[r].entry.scope
            /\ \A o \in Bills \ {req[r].which} : bill'[o] = bill[o]
        BY <3>1, <4>1 DEF TypeOK, Live
      <4> QED BY <3>1, <4>2, <4>3 DEF ScopesPresent, Live
    <3>2. CASE ~(req[r].which \in Live /\ req[r].entry.scope \in SUBSET People_)
      BY <1>1, <2>2, <3>2 DEF Update
    <3> QED BY <3>1, <3>2
  <2>3. CASE Delete(r)
    <3>1. CASE req[r].which \in Live
      <4>1. bill' = [bill EXCEPT ![req[r].which].state = "deleted"] /\ UNCHANGED <<order, gone>>
        BY <2>3, <3>1 DEF Delete
      <4>2. People_' = People_
        BY <4>1 DEF People_
      <4>3. \A o \in Bills : bill'[o].scope = bill[o].scope /\ (bill'[o].state = "live" => bill[o].state = "live")
        BY <3>1, <4>1 DEF TypeOK, Bill, Live
      <4> QED BY <4>2, <4>3 DEF ScopesPresent, Live
    <3>2. CASE req[r].which \notin Live
      BY <1>1, <2>3, <3>2 DEF Delete
    <3> QED BY <3>1, <3>2
  <2>4. CASE \/ \E e \in Entries : AddBillItem(r, e)
             \/ \E b \in Bills, e \in Entries : UpdateBillItem(r, b, e)
             \/ \E b \in Bills : DeleteBillItem(r, b)
             \/ FindBySessionID(r)
    BY <1>1, <2>4 DEF AddBillItem, UpdateBillItem, DeleteBillItem, FindBySessionID, Reads, rows
  <2> QED BY <1>3, <2>1, <2>2, <2>3, <2>4 DEF BillStep
<1>4. ASSUME NEW r \in Requests, SessionStep(r) PROVE ScopesPresent'
  BY <1>1, <1>4 DEF SessionStep, UpdateFeeConfig, UpdateSession, SessionUpdate, Reads, rows
<1>5. ASSUME NEW r \in Requests, SplitStep(r) PROVE ScopesPresent'
  BY <1>1, <1>5 DEF SplitStep, CalculateSplits, ReadParticipants, ReadBills, BulkUpdateShareAmounts, Reads, rows
<1>6. ASSUME NEW r \in Requests, PeopleStep(r) PROVE ScopesPresent'
  <2>1. ASSUME NEW p \in People, Join(r, p) PROVE ScopesPresent'
    <3>1. People_' = People_ \cup {p} /\ Live' = Live /\ bill' = bill
      BY <2>1, Joining DEF Join, Live
    <3> QED BY <3>1 DEF ScopesPresent
  <2>2. ASSUME NEW p \in People, Remove(r, p) PROVE ScopesPresent'
    <3>1. People_' = People_ \ {p}
      BY <2>2, Leaving DEF Remove
    <3>2. \A b \in Bills : bill'[b] = [bill[b] EXCEPT !.scope = @ \ {p}] /\ bill[b] \in Bill
      BY <2>2 DEF Remove, Without, TypeOK
    <3>3. \A b \in Bills : bill'[b].scope = bill[b].scope \ {p} /\ bill'[b].state = bill[b].state
      BY <3>2 DEF Bill
    <3> QED BY <3>1, <3>3 DEF ScopesPresent, Live
  <2>3. CASE \/ AddParticipants(r) \/ ImportFromGroup(r) \/ AddEnds(r) \/ RemoveParticipant(r)
             \/ \E p \in People : ParticipantRead(r, p)
             \/ ParticipantUpdate(r)
    BY <1>1, <2>3 DEF AddParticipants, ImportFromGroup, AddEnds, RemoveParticipant, ParticipantRead,
                      ParticipantUpdate, Reads, rows
  <2> QED BY <1>6, <2>1, <2>2, <2>3 DEF PeopleStep
<1>7. ASSUME NEW r \in Requests, Return(r) \/ Fail(r) PROVE ScopesPresent'
  BY <1>1, <1>7 DEF Return, Fail, rows
<1> QED BY <1>2, <1>3, <1>4, <1>5, <1>6, <1>7 DEF Next

\* A live bill names nobody who has left: the transactions that store a bill
\* look at the participants again, and removing one takes the name out.
THEOREM ScopesStayPresent == Spec => []ScopesPresent
<1>1. Init => TypeOK /\ ScopesPresent
  <2>1. Init => ScopesPresent
    BY DEF Init, ScopesPresent, Live
  <2> QED BY <2>1, InitTypes
<1>2. TypeOK /\ ScopesPresent /\ [Next]_vars => (TypeOK /\ ScopesPresent)'
  BY TypeStep, ScopesStep
<1> QED BY <1>1, <1>2, PTL DEF Spec

-----------------------------------------------------------------------------
\* Amounts that are settled.

\* Shares and a total that are what a calculation makes of the rows.
Agrees(bills, B, present, pct, shares, total) == \E last \in [B -> present] :
  /\ Calculable(bills, B, present, last, pct)
  /\ \A p \in present : shares[p] = Owed(bills, B, present, last, pct, p)
  /\ HasFees(pct) => total = Sum([b \in B |-> bills[b].amount], B) + FeesOwed(bills, B, present, last, pct)
Agreed(shares, total) == Agrees(bill, Live, People_, session.pct, shares, total)

\* What a request that nothing overlapped holds is what the rows say.
Current(r) == r \notin outdated =>
  /\ req[r].pc \in {"create", "people", "bills"} => req[r].seen = session
  /\ req[r].pc = "bills" => req[r].of = People_
  /\ req[r].pc = "shares" => /\ req[r].of = People_ /\ req[r].row.pct = session.pct
                             /\ Agreed(req[r].shares, req[r].row.total)
  /\ req[r].pc = "save" /\ req[r].then = "settled" =>
       req[r].row.pct = session.pct /\ Agreed(share, req[r].row.total)

SettledInv ==
  /\ \A r \in Requests : Current(r)
  /\ settled => Agreed(share, session.total)

\* A step of r changes no row, or every other request is outdated by it.
Silent(r) == UNCHANGED rows /\ settled' = settled /\ outdated' \in {outdated, outdated \ {r}}
Loud(r) == outdated' = outdated \cup (Requests \ {r})
Only(r) == \A q \in Requests \ {r} : req'[q] = req[q]

LEMMA OnlyOne ==
  ASSUME TypeOK, NEW r \in Requests, NEW state, GoTo(r, state)
  PROVE  Only(r) /\ req'[r] = state
  BY DEF TypeOK, GoTo, Only

LEMMA SilentKeepsRows ==
  ASSUME NEW r, Silent(r)
  PROVE  /\ Live' = Live /\ People_' = People_ /\ Amount' = Amount
         /\ bill' = bill /\ session' = session /\ share' = share
  BY SamePeopleAndBills DEF Silent, rows

LEMMA OthersCurrent ==
  ASSUME NEW r \in Requests, Silent(r) \/ Loud(r), Only(r), NEW q \in Requests \ {r}, Current(q)
  PROVE  Current(q)'
<1>1. CASE Loud(r)
  BY <1>1 DEF Loud, Current
<1>2. CASE Silent(r)
  <2>1. req'[q] = req[q] /\ (q \notin outdated' => q \notin outdated)
    BY <1>2 DEF Only, Silent
  <2> QED BY <1>2, <2>1, SilentKeepsRows DEF Current, Agreed
<1> QED BY <1>1, <1>2

LEMMA SilentKeepsSettled ==
  ASSUME NEW r, Silent(r), settled => Agreed(share, session.total)
  PROVE  (settled => Agreed(share, session.total))'
  BY SilentKeepsRows DEF Agreed, Silent

\* Requests that hold nothing of the session, or nothing a calculation made.
Bare == {"idle", "splits", "join", "import", "leave", "touch", "update", "delete", "sum"}

LEMMA BareCurrent ==
  ASSUME NEW r, req'[r].pc \in Bare \/ (req'[r].pc = "save" /\ req'[r].then # "settled")
  PROVE  Current(r)'
  BY DEF Bare, Current

LEMMA PlainIsBare ==
  ASSUME NEW s \in {"idle", "splits", "join", "import", "leave"} PROVE At(s).pc \in Bare
  BY DEF At, Bare

LEMMA HistoryKinds ==
  ASSUME NEW r \in Requests
  PROVE  /\ Reads(r) => Silent(r)
         /\ Changes(r) => Loud(r) /\ ~settled'
         /\ Stores(r) => Loud(r) /\ ~settled'
  BY DEF Reads, Changes, Stores, Silent, Loud

LEMMA BillSettled ==
  ASSUME TypeOK, SettledInv, NEW r \in Requests, BillStep(r)
  PROVE  SettledInv'
<1>1. SUFFICES /\ Silent(r) \/ (Loud(r) /\ ~settled')
               /\ Only(r) /\ Current(r)'
  BY OthersCurrent, SilentKeepsSettled DEF SettledInv
<1>2. ASSUME NEW e \in Entries, AddBillItem(r, e)
      PROVE  Silent(r) /\ Only(r) /\ Current(r)'
  <2>1. Only(r) /\ req'[r] = [pc |-> "create", seen |-> session, entry |-> e]
    BY <1>2, OnlyOne DEF AddBillItem
  <2>2. Silent(r) /\ session' = session
    BY <1>2, HistoryKinds DEF AddBillItem, Reads, rows
  <2> QED BY <2>1, <2>2 DEF Current
<1>3. ASSUME NEW b \in Bills, NEW e \in Entries, UpdateBillItem(r, b, e)
      PROVE  Silent(r) /\ Only(r) /\ Current(r)'
  <2>1. PICK scope : GoTo(r, [pc |-> "update", seen |-> session, which |-> b, entry |->
          [state |-> "live", amount |-> e.amount, scope |-> scope, charged |-> e.charged]])
    BY <1>3 DEF UpdateBillItem
  <2>2. Only(r) /\ req'[r].pc = "update"
    BY <2>1, OnlyOne
  <2> QED BY <1>3, <2>2, HistoryKinds, BareCurrent DEF UpdateBillItem, Bare
<1>4. ASSUME NEW b \in Bills, DeleteBillItem(r, b)
      PROVE  Silent(r) /\ Only(r) /\ Current(r)'
  <2>1. Only(r) /\ req'[r].pc = "delete"
    BY <1>4, OnlyOne DEF DeleteBillItem
  <2> QED BY <1>4, <2>1, HistoryKinds, BareCurrent DEF DeleteBillItem, Bare
<1>5. ASSUME NEW b \in Bills, Create(r, b)
      PROVE  (Silent(r) \/ (Loud(r) /\ ~settled')) /\ Only(r) /\ Current(r)'
  <2>1. CASE req[r].entry.scope \in SUBSET People_
    <3>1. Only(r) /\ req'[r] = [pc |-> "save", row |-> AddToTotal(req[r].seen, req[r].entry.amount), then |-> "idle"]
      BY <1>5, <2>1, OnlyOne DEF Create
    <3>2. Current(r)'
      BY <3>1, BareCurrent
    <3> QED BY <1>5, <2>1, <3>1, <3>2, HistoryKinds DEF Create
  <2>2. CASE req[r].entry.scope \notin SUBSET People_
    <3>1. Only(r) /\ req'[r] = At("idle")
      BY <1>5, <2>2, OnlyOne DEF Create
    <3>2. Silent(r)
      BY <1>5, <2>2 DEF Create, Silent, rows
    <3> QED BY <3>1, <3>2, PlainIsBare, BareCurrent
  <2> QED BY <2>1, <2>2
<1>6. CASE Update(r)
  <2>1. CASE req[r].which \in Live /\ req[r].entry.scope \in SUBSET People_
    <3>1. Only(r) /\ req'[r].pc = "sum"
      BY <1>6, <2>1, OnlyOne DEF Update
    <3>2. Current(r)'
      BY <3>1, BareCurrent DEF Bare
    <3> QED BY <1>6, <2>1, <3>1, <3>2, HistoryKinds DEF Update
  <2>2. CASE ~(req[r].which \in Live /\ req[r].entry.scope \in SUBSET People_)
    <3>1. Only(r) /\ req'[r] = At("idle")
      BY <1>6, <2>2, OnlyOne DEF Update
    <3>2. Silent(r)
      BY <1>6, <2>2 DEF Update, Silent, rows
    <3> QED BY <3>1, <3>2, PlainIsBare, BareCurrent
  <2> QED BY <2>1, <2>2
<1>7. CASE Delete(r)
  <2>1. CASE req[r].which \in Live
    <3>1. Only(r) /\ req'[r].pc = "sum"
      BY <1>7, <2>1, OnlyOne DEF Delete
    <3>2. Current(r)'
      BY <3>1, BareCurrent DEF Bare
    <3> QED BY <1>7, <2>1, <3>1, <3>2, HistoryKinds DEF Delete
  <2>2. CASE req[r].which \notin Live
    <3>1. Only(r) /\ req'[r] = At("idle")
      BY <1>7, <2>2, OnlyOne DEF Delete
    <3>2. Silent(r)
      BY <1>7, <2>2 DEF Delete, Silent, rows
    <3> QED BY <3>1, <3>2, PlainIsBare, BareCurrent
  <2> QED BY <2>1, <2>2
<1>8. CASE FindBySessionID(r)
  <2>1. /\ Only(r)
        /\ req'[r] = [pc |-> "save", row |-> SetTotal(req[r].seen, Sum(Amount, Live)), then |-> req[r].then]
    BY <1>8, OnlyOne DEF FindBySessionID
  <2>2. req[r].then # "settled"
    BY <1>8, RequestFields DEF FindBySessionID, TypeOK
  <2>3. Silent(r)
    BY <1>8 DEF FindBySessionID, Silent, rows
  <2> QED BY <2>1, <2>2, <2>3, BareCurrent
<1> QED BY <1>2, <1>3, <1>4, <1>5, <1>6, <1>7, <1>8 DEF BillStep

LEMMA SessionSettled ==
  ASSUME TypeOK, SettledInv, NEW r \in Requests, SessionStep(r)
  PROVE  SettledInv'
<1>1. ASSUME NEW row, Reads(r), GoTo(r, [pc |-> "save", row |-> row, then |-> "idle"])
      PROVE  SettledInv'
  <2>1. Only(r) /\ req'[r] = [pc |-> "save", row |-> row, then |-> "idle"]
    BY <1>1, OnlyOne
  <2>2. Current(r)'
    BY <2>1, BareCurrent
  <2> QED BY <1>1, <2>1, <2>2, HistoryKinds, OthersCurrent, SilentKeepsSettled DEF SettledInv
<1>2. CASE SessionUpdate(r)
  <2>1. Only(r) /\ Current(r)'
    <3>1. Only(r) /\ req'[r] \in {At("splits"), At("idle")}
      BY <1>2, OnlyOne DEF SessionUpdate
    <3> QED BY <3>1, PlainIsBare, BareCurrent
  <2>2. Loud(r)
    BY <1>2 DEF SessionUpdate, Loud
  <2>3. ASSUME settled' PROVE Agreed(share, session.total)'
    <3>1. req[r].pc = "save" /\ req[r].then = "settled" /\ r \notin outdated
      BY <1>2, <2>3 DEF SessionUpdate
    <3>2. req[r].row.pct = session.pct /\ Agreed(share, req[r].row.total)
      BY <3>1 DEF SettledInv, Current
    <3>3. session' = req[r].row /\ UNCHANGED <<order, gone, bill, share>>
      BY <1>2 DEF SessionUpdate
    <3> QED BY <3>2, <3>3, SamePeopleAndBills DEF Agreed
  <2> QED BY <2>1, <2>2, <2>3, OthersCurrent DEF SettledInv
<1> QED BY <1>1, <1>2 DEF SessionStep, UpdateFeeConfig, UpdateSession

LEMMA SplitSettled ==
  ASSUME TypeOK, SettledInv, NEW r \in Requests, SplitStep(r)
  PROVE  SettledInv'
<1>1. CASE CalculateSplits(r)
  <2>1. Only(r) /\ req'[r] = [pc |-> "people", seen |-> session]
    BY <1>1, OnlyOne DEF CalculateSplits
  <2>2. Silent(r) /\ session' = session
    BY <1>1, HistoryKinds DEF CalculateSplits, Reads, rows
  <2>3. Current(r)'
    BY <2>1, <2>2 DEF Current
  <2> QED BY <2>1, <2>2, <2>3, OthersCurrent, SilentKeepsSettled DEF SettledInv
<1>2. CASE ReadParticipants(r)
  <2>1. PICK p : GoTo(r, [pc |-> "bills", seen |-> req[r].seen, of |-> People_, newest |-> p])
    BY <1>2 DEF ReadParticipants
  <2>2. Only(r) /\ req'[r] = [pc |-> "bills", seen |-> req[r].seen, of |-> People_, newest |-> p]
    BY <2>1, OnlyOne
  <2>3. Silent(r) /\ outdated' = outdated
    BY <1>2 DEF ReadParticipants, Silent, rows
  <2>4. r \notin outdated => req[r].seen = session
    BY <1>2 DEF ReadParticipants, SettledInv, Current
  <2>5. Current(r)'
    BY <2>2, <2>3, <2>4, SilentKeepsRows DEF Current
  <2> QED BY <2>2, <2>3, <2>5, OthersCurrent, SilentKeepsSettled DEF SettledInv
<1>3. CASE ReadBills(r)
  <2> DEFINE q == req[r]
  <2>1. PICK last \in [Live -> q.of] :
          /\ \A b \in Live : last[b] \in LastSharers(bill[b].scope, q.of, q.newest)
          /\ GoTo(r, [pc |-> "shares",
               of |-> q.of,
               shares |-> [p \in People |-> IF p \in q.of
                  THEN Owed(bill, Live, q.of, last, q.seen.pct, p) ELSE 0],
               row |-> IF HasFees(q.seen.pct)
                       THEN GrandTotal(q.seen, Live, FeesOwed(bill, Live, q.of, last, q.seen.pct))
                       ELSE q.seen])
    BY <1>3 DEF ReadBills
  <2> DEFINE shares == [p \in People |-> IF p \in q.of
                  THEN Owed(bill, Live, q.of, last, q.seen.pct, p) ELSE 0]
             fees == FeesOwed(bill, Live, q.of, last, q.seen.pct)
             row == IF HasFees(q.seen.pct) THEN GrandTotal(q.seen, Live, fees) ELSE q.seen
  <2>2. Only(r) /\ req'[r] = [pc |-> "shares", of |-> q.of, shares |-> shares, row |-> row]
    BY <2>1, OnlyOne
  <2>3. Silent(r) /\ outdated' = outdated
    BY <1>3 DEF ReadBills, Silent, rows
  <2>4. ASSUME r \notin outdated
        PROVE  q.of = People_ /\ row.pct = session.pct /\ Agreed(shares, row.total)
    <3>1. q.seen = session /\ q.of = People_
      BY <1>3, <2>4 DEF ReadBills, SettledInv, Current
    <3>2. Calculable(bill, Live, People_, last, session.pct)
      BY <1>3, <2>1, <3>1, ReadBillsCalculable DEF ReadBills
    <3>3. \A p \in People_ : shares[p] = Owed(bill, Live, People_, last, session.pct, p)
      BY <3>1, LiveBills
    <3>4. row.pct = session.pct /\ (HasFees(session.pct) => row.total = Sum(Amount, Live) + fees)
      <4>1. Sum(Amount, Live) + fees \in Nat
        <5> DEFINE owed == [p \in People_ |-> Owed(bill, Live, People_, last, session.pct, p)]
        <5>1. \A p \in People_ : owed[p] = Owed(bill, Live, People_, last, session.pct, p)
          OBVIOUS
        <5>2. FeesOwed(bill, Live, People_, last, session.pct) \in Nat
          <6> HIDE DEF owed
          <6> QED BY <3>2, <5>1, OwedCoversBills
        <5> QED BY <3>1, <5>2, LiveBills
      <4>2. session \in Session
        BY DEF TypeOK
      <4> HIDE DEF fees
      <4> QED BY <3>1, <4>1, <4>2, Totals DEF GrandTotal
    <3>5. fees = FeesOwed(bill, Live, People_, last, session.pct)
      BY <3>1
    <3> HIDE DEF shares, row, fees
    <3>6. HasFees(session.pct) =>
            row.total = Sum([b \in Live |-> bill[b].amount], Live) + FeesOwed(bill, Live, People_, last, session.pct)
      BY <3>4, <3>5, LiveBills
    <3>7. Agreed(shares, row.total)
      BY <2>1, <3>1, <3>2, <3>3, <3>6 DEF Agreed, Agrees
    <3> QED BY <3>1, <3>4, <3>7
  <2> HIDE DEF shares, row, q
  <2>5. Current(r)'
    BY <2>2, <2>3, <2>4, SilentKeepsRows DEF Current, Agreed
  <2> QED BY <2>2, <2>3, <2>5, OthersCurrent, SilentKeepsSettled DEF SettledInv
<1>4. CASE BulkUpdateShareAmounts(r)
  <2> DEFINE q == req[r]
  <2>1. Loud(r) /\ UNCHANGED <<session, order, gone, bill>>
    BY <1>4 DEF BulkUpdateShareAmounts, Loud
  <2>2. ASSUME r \notin outdated
        PROVE  q.row.pct = session.pct /\ Agrees(bill, Live, People_, session.pct, share', q.row.total)
    <3>1. q.of = People_ /\ q.row.pct = session.pct /\ Agreed(q.shares, q.row.total)
      BY <1>4, <2>2 DEF BulkUpdateShareAmounts, SettledInv, Current
    <3>2. \A p \in People_ : share'[p] = q.shares[p]
      BY <1>4, <3>1, LiveBills DEF BulkUpdateShareAmounts
    <3> QED BY <3>1, <3>2 DEF Agreed, Agrees
  <2>3. Live' = Live /\ People_' = People_
    BY <2>1, SamePeopleAndBills
  <2>4. CASE HasFees(q.row.pct)
    <3>1. Only(r) /\ req'[r] = [pc |-> "save", row |-> q.row, then |-> "settled"] /\ ~settled'
      BY <1>4, <2>4, OnlyOne DEF BulkUpdateShareAmounts
    <3>2. r \notin outdated' => r \notin outdated
      BY <2>1 DEF Loud
    <3>3. Current(r)'
      BY <2>1, <2>2, <2>3, <3>1, <3>2 DEF Current, Agreed
    <3> QED BY <2>1, <3>1, <3>3, OthersCurrent DEF SettledInv
  <2>5. CASE ~HasFees(q.row.pct)
    <3>1. Only(r) /\ req'[r] = At("idle") /\ settled' = (r \notin outdated)
      BY <1>4, <2>5, OnlyOne DEF BulkUpdateShareAmounts
    <3>2. Current(r)'
      BY <3>1, PlainIsBare, BareCurrent
    <3>3. ASSUME settled' PROVE Agreed(share, session.total)'
      <4>1. q.row.pct = session.pct /\ Agrees(bill, Live, People_, session.pct, share', q.row.total)
        BY <2>2, <3>1, <3>3
      <4>2. Agrees(bill, Live, People_, session.pct, share', session.total)
        BY <2>5, <4>1 DEF Agrees
      <4> QED BY <2>1, <2>3, <4>2 DEF Agreed
    <3> QED BY <2>1, <3>1, <3>2, <3>3, OthersCurrent DEF SettledInv
  <2> QED BY <2>4, <2>5
<1> QED BY <1>1, <1>2, <1>3, <1>4 DEF SplitStep

LEMMA PeopleSettled ==
  ASSUME TypeOK, SettledInv, NEW r \in Requests, PeopleStep(r)
  PROVE  SettledInv'
<1>1. SUFFICES /\ Silent(r) \/ (Loud(r) /\ ~settled')
               /\ Only(r) /\ Current(r)'
  BY OthersCurrent, SilentKeepsSettled DEF SettledInv
<1>2. ASSUME NEW s \in {"idle", "splits", "join", "import", "leave"}, GoTo(r, At(s))
      PROVE  Only(r) /\ Current(r)'
  BY <1>2, OnlyOne, PlainIsBare, BareCurrent
<1>3. CASE AddParticipants(r) \/ ImportFromGroup(r) \/ RemoveParticipant(r)
  BY <1>2, <1>3, HistoryKinds DEF AddParticipants, ImportFromGroup, RemoveParticipant
<1>4. CASE AddEnds(r)
  BY <1>2, <1>4 DEF AddEnds, Silent
<1>5. ASSUME NEW p \in People, Join(r, p)
      PROVE  Loud(r) /\ ~settled' /\ Only(r) /\ Current(r)'
  <2>1. req'[r].pc \in Bare /\ Only(r)
    BY <1>5 DEF Join, Bare, Only
  <2> QED BY <1>5, <2>1, HistoryKinds, BareCurrent DEF Join
<1>6. ASSUME NEW p \in People, Remove(r, p)
      PROVE  Loud(r) /\ ~settled' /\ Only(r) /\ Current(r)'
  BY <1>2, <1>6, HistoryKinds DEF Remove
<1>7. ASSUME NEW p \in People, ParticipantRead(r, p)
      PROVE  Silent(r) /\ Only(r) /\ Current(r)'
  <2>1. Only(r) /\ req'[r].pc = "touch"
    BY <1>7, OnlyOne DEF ParticipantRead
  <2> QED BY <1>7, <2>1, HistoryKinds, BareCurrent DEF ParticipantRead, Bare
<1>8. CASE ParticipantUpdate(r)
  <2>1. Only(r) /\ Current(r)'
    BY <1>2, <1>8 DEF ParticipantUpdate
  <2>2. Silent(r) \/ (Loud(r) /\ ~settled')
    BY <1>8, HistoryKinds DEF ParticipantUpdate, Silent, rows
  <2> QED BY <2>1, <2>2
<1> QED BY <1>3, <1>4, <1>5, <1>6, <1>7, <1>8 DEF PeopleStep

LEMMA SettledStep ==
  ASSUME TypeOK, SettledInv, [Next]_vars
  PROVE  SettledInv'
<1>1. CASE UNCHANGED vars
  BY <1>1, SamePeopleAndBills DEF SettledInv, Current, Agreed, vars, rows
<1>2. ASSUME NEW r \in Requests, Return(r) \/ Fail(r) PROVE SettledInv'
  <2>1. Only(r) /\ Current(r)'
    BY <1>2, OnlyOne, PlainIsBare, BareCurrent DEF Return, Fail
  <2>2. Silent(r)
    BY <1>2 DEF Return, Fail, Silent
  <2> QED BY <2>1, <2>2, OthersCurrent, SilentKeepsSettled DEF SettledInv
<1> QED BY <1>1, <1>2, BillSettled, SessionSettled, SplitSettled, PeopleSettled DEF Next

LEMMA InitSettled == Init => SettledInv
  BY DEF Init, SettledInv, Current, At

LEMMA SettledShares ==
  ASSUME TypeOK, SettledInv
  PROVE  SettledAmounts
<1> SUFFICES ASSUME settled
             PROVE  Sum(Shares, People_) = IF HasFees(session.pct) THEN session.total ELSE Sum(Amount, Live)
  BY DEF SettledAmounts
<1>1. PICK last \in [Live -> People_] :
        /\ Calculable(bill, Live, People_, last, session.pct)
        /\ \A p \in People_ : share[p] = Owed(bill, Live, People_, last, session.pct, p)
        /\ HasFees(session.pct) => session.total =
             Sum([b \in Live |-> bill[b].amount], Live) + FeesOwed(bill, Live, People_, last, session.pct)
  BY DEF SettledInv, Agreed, Agrees
<1>2. \A p \in People_ : Shares[p] = Owed(bill, Live, People_, last, session.pct, p)
  BY <1>1 DEF Shares
<1>3. /\ Sum(Shares, People_) =
           Sum([b \in Live |-> bill[b].amount], Live) + FeesOwed(bill, Live, People_, last, session.pct)
      /\ ~HasFees(session.pct) => Sum(Shares, People_) = Sum([b \in Live |-> bill[b].amount], Live)
  BY <1>1, <1>2, OwedCoversBills
<1> QED BY <1>1, <1>3, LiveBills

LEMMA SettledPages ==
  ASSUME TypeOK, ScopesPresent, SettledInv
  PROVE  PageNeverAboveShare
<1> SUFFICES ASSUME settled, NEW p \in People_
             PROVE  PageTotal(bill, Live, Cardinality(People_), session.pct, p) <= share[p]
  BY DEF PageNeverAboveShare
<1>1. PICK last \in [Live -> People_] :
        /\ Calculable(bill, Live, People_, last, session.pct)
        /\ \A o \in People_ : share[o] = Owed(bill, Live, People_, last, session.pct, o)
  BY DEF SettledInv, Agreed, Agrees
<1>2. \A b \in Live : bill[b].scope \in SUBSET People_
  BY DEF ScopesPresent
<1> QED BY <1>1, <1>2, PageBelowOwed

\* After a calculation that nothing overlapped and nothing has followed, what
\* the participants owe adds up to the total shown, or to the bills when there
\* are no fees, whatever was rounded and whoever came last.
THEOREM SettledAmountsAddUp == Spec => []SettledAmounts
<1>1. Init => TypeOK /\ SettledInv
  BY InitTypes, InitSettled
<1>2. TypeOK /\ SettledInv /\ [Next]_vars => (TypeOK /\ SettledInv)'
  BY TypeStep, SettledStep
<1>3. TypeOK /\ SettledInv => SettledAmounts
  BY SettledShares
<1> QED BY <1>1, <1>2, <1>3, PTL DEF Spec

\* In that state the payment page's own breakdown shows nobody more than owed.
THEOREM PagesBelowShares == Spec => []PageNeverAboveShare
<1>1. Init => TypeOK /\ SettledInv
  BY InitTypes, InitSettled
<1>2. TypeOK /\ SettledInv /\ [Next]_vars => (TypeOK /\ SettledInv)'
  BY TypeStep, SettledStep
<1>3. TypeOK /\ ScopesPresent /\ SettledInv => PageNeverAboveShare
  BY SettledPages
<1> QED BY <1>1, <1>2, <1>3, ScopesStayPresent, PTL DEF Spec

-----------------------------------------------------------------------------
\* The total on display.

\* A request that will bring the total up to the bills, or be caught storing
\* what is out of date.
Covers(total) == total >= Sum(Amount, Live)
Due(r) ==
  \/ req[r].pc = "sum"
  \/ req[r].pc = "save" /\ (r \in outdated \/ Covers(req[r].row.total))
Balanced == ~lost /\ faults = 0 =>
  \/ \E r \in Requests : Due(r)
  \/ Covers(session.total) /\ \A r \in Requests : req[r].pc # "save"

LEMMA DueStays ==
  ASSUME NEW r \in Requests, Only(r), Silent(r) \/ Loud(r), NEW q \in Requests \ {r}, Due(q)
  PROVE  Due(q)'
<1>1. req'[q] = req[q]
  BY DEF Only
<1>2. CASE Loud(r)
  BY <1>1, <1>2 DEF Loud, Due
<1>3. CASE Silent(r)
  <2>1. q \in outdated => q \in outdated'
    BY <1>3 DEF Silent
  <2> QED BY <1>1, <1>3, <2>1, SilentKeepsRows DEF Due, Covers
<1> QED BY <1>2, <1>3

\* A step that leaves the total and the amounts alone and stores nothing next.
Aside(r) ==
  /\ Only(r) /\ (Silent(r) \/ Loud(r))
  /\ req[r].pc \notin {"sum", "save"} /\ req'[r].pc # "save"
  /\ session' = session /\ Live' = Live /\ Amount' = Amount

LEMMA AsideBalanced ==
  ASSUME NEW r \in Requests, Aside(r), Balanced, lost' \in BOOLEAN, lost => lost', faults = 0
  PROVE  Balanced'
<1> SUFFICES ASSUME ~lost'
             PROVE  (\/ \E q \in Requests : Due(q)
                     \/ Covers(session.total) /\ \A q \in Requests : req[q].pc # "save")'
  BY DEF Balanced
<1>1. CASE \E q \in Requests : Due(q)
  <2>1. PICK q \in Requests : Due(q)
    BY <1>1
  <2>2. q # r
    BY <2>1 DEF Aside, Due
  <2>3. Due(q)'
    BY <2>1, <2>2, DueStays DEF Aside
  <2> QED BY <2>3
<1>2. CASE Covers(session.total) /\ \A q \in Requests : req[q].pc # "save"
  BY <1>2 DEF Aside, Only, Covers
<1> QED BY <1>1, <1>2 DEF Balanced

\* A step that leaves r with a total to store, if it was right before.
LEMMA SaveBalanced ==
  ASSUME NEW r \in Requests, Only(r), Silent(r) \/ Loud(r), req[r].pc \notin {"sum", "save"},
         Balanced, lost => lost', faults = 0, Covers(session.total) => Due(r)'
  PROVE  Balanced'
<1> SUFFICES ASSUME ~lost' PROVE (\E q \in Requests : Due(q))'
  BY DEF Balanced
<1>1. CASE \E q \in Requests : Due(q)
  <2>1. PICK q \in Requests : Due(q)
    BY <1>1
  <2>2. q # r
    BY <2>1 DEF Due
  <2> QED BY <2>1, <2>2, DueStays
<1>2. CASE Covers(session.total)
  BY <1>2
<1> QED BY <1>1, <1>2 DEF Balanced

LEMMA DueBalanced ==
  ASSUME NEW r \in Requests, Due(r)'
  PROVE  Balanced'
  BY DEF Balanced

LEMMA NewBillSum ==
  ASSUME TypeOK, NEW b \in Bills, bill[b].state = "unused", NEW e \in Entries,
         bill' = [bill EXCEPT ![b] = [state |-> "live", amount |-> e.amount,
                    scope |-> e.scope, charged |-> e.charged]]
  PROVE  Sum(Amount', Live') = e.amount + Sum(Amount, Live)
<1>1. /\ bill'[b].state = "live" /\ bill'[b].amount = e.amount
      /\ \A o \in Bills \ {b} : bill'[o] = bill[o]
  BY DEF TypeOK
<1>2. Live' = Live \cup {b} /\ b \notin Live
  BY <1>1 DEF Live
<1>3. Amount' = [o \in Live \cup {b} |-> bill'[o].amount]
  BY <1>2 DEF Amount
<1>4. e.amount \in Nat
  BY EntryTypes
<1>5. \A o \in Live : Amount'[o] = Amount[o] /\ Amount[o] \in Nat
  BY <1>1, <1>2, <1>3, LiveBills
<1>6. Amount'[b] = e.amount
  BY <1>1, <1>3
<1>7. Sum(Amount', Live) = Sum(Amount, Live)
  BY <1>5, LiveBills, SumSame
<1>8. Sum(Amount', Live \cup {b}) = Amount'[b] + Sum(Amount', Live)
  BY <1>2, <1>4, <1>5, <1>6, LiveBills, SumAdded
<1> QED BY <1>2, <1>6, <1>7, <1>8

LEMMA SilentAside ==
  ASSUME NEW r, Silent(r), Only(r), req[r].pc \notin {"sum", "save"}, req'[r].pc # "save"
  PROVE  Aside(r)
  BY SilentKeepsRows DEF Aside

LEMMA BillBalanced ==
  ASSUME TypeOK, SettledInv, Balanced, NEW r \in Requests, BillStep(r), faults = 0, lost' \in BOOLEAN
  PROVE  Balanced'
<1>1. ASSUME NEW e \in Entries, AddBillItem(r, e) PROVE Balanced'
  <2>1. Only(r) /\ req'[r].pc = "create" /\ Silent(r) /\ req[r].pc = "idle" /\ lost' = lost
    BY <1>1, OnlyOne, HistoryKinds DEF AddBillItem, Starts, Reads
  <2> QED BY <2>1, SilentAside, AsideBalanced
<1>2. ASSUME NEW b \in Bills, NEW e \in Entries, UpdateBillItem(r, b, e) PROVE Balanced'
  <2>1. PICK scope : GoTo(r, [pc |-> "update", seen |-> session, which |-> b, entry |->
          [state |-> "live", amount |-> e.amount, scope |-> scope, charged |-> e.charged]])
    BY <1>2 DEF UpdateBillItem
  <2>2. Only(r) /\ req'[r].pc = "update" /\ Silent(r) /\ req[r].pc = "idle" /\ lost' = lost
    BY <1>2, <2>1, OnlyOne, HistoryKinds DEF UpdateBillItem, Starts, Reads
  <2> QED BY <2>2, SilentAside, AsideBalanced
<1>3. ASSUME NEW b \in Bills, DeleteBillItem(r, b) PROVE Balanced'
  <2>1. Only(r) /\ req'[r].pc = "delete" /\ Silent(r) /\ req[r].pc = "idle" /\ lost' = lost
    BY <1>3, OnlyOne, HistoryKinds DEF DeleteBillItem, Starts, Reads
  <2> QED BY <2>1, SilentAside, AsideBalanced
<1>4. ASSUME NEW b \in Bills, Create(r, b) PROVE Balanced'
  <2> DEFINE q == req[r]
  <2>1. q.pc = "create" /\ q.entry \in Entries /\ q.seen \in Session /\ lost' = lost
    BY <1>4, RequestFields DEF Create, TypeOK
  <2>2. CASE q.entry.scope \in SUBSET People_
    <3>1. Only(r) /\ req'[r] = [pc |-> "save", row |-> AddToTotal(q.seen, q.entry.amount), then |-> "idle"]
      BY <1>4, <2>2, OnlyOne DEF Create
    <3>2. Loud(r)
      BY <1>4, <2>2, HistoryKinds DEF Create
    <3>3. Sum(Amount', Live') = q.entry.amount + Sum(Amount, Live)
      <4>1. /\ bill[b].state = "unused"
            /\ bill' = [bill EXCEPT ![b] = [state |-> "live", amount |-> q.entry.amount,
                          scope |-> q.entry.scope, charged |-> q.entry.charged]]
        BY <1>4, <2>2 DEF Create
      <4> HIDE DEF q
      <4> QED BY <2>1, <4>1, NewBillSum
    <3>4. ASSUME Covers(session.total) PROVE Due(r)'
      <4>1. CASE r \in outdated
        BY <3>1, <3>2, <4>1 DEF Loud, Due
      <4>2. CASE r \notin outdated
        <5>1. q.seen = session
          BY <2>1, <4>2 DEF SettledInv, Current
        <5>2. req'[r].row.total = session.total + q.entry.amount
          <6>1. q.entry.amount \in Nat
            BY <2>1, EntryTypes
          <6>2. AddToTotal(q.seen, q.entry.amount).total = q.seen.total + q.entry.amount
            BY <2>1, <6>1, Totals
          <6> HIDE DEF q
          <6> QED BY <3>1, <5>1, <6>2
        <5>3. session.total \in Nat /\ q.entry.amount \in Nat /\ Sum(Amount, Live) \in Nat
          BY <2>1, EntryTypes, LiveBills DEF TypeOK, Session
        <5>4. session.total + q.entry.amount >= q.entry.amount + Sum(Amount, Live)
          BY <3>4, <5>3 DEF Covers
        <5> QED BY <3>1, <3>3, <5>2, <5>4 DEF Due, Covers
      <4> QED BY <4>1, <4>2
    <3> QED BY <2>1, <3>1, <3>2, <3>4, SaveBalanced
  <2>3. CASE q.entry.scope \notin SUBSET People_
    <3>1. Only(r) /\ req'[r] = At("idle")
      BY <1>4, <2>3, OnlyOne DEF Create
    <3>2. Silent(r)
      BY <1>4, <2>3 DEF Create, Silent, rows
    <3> QED BY <2>1, <3>1, <3>2, SilentAside, AsideBalanced DEF At
  <2> QED BY <2>2, <2>3
<1>5. CASE Update(r)
  <2>1. CASE req[r].which \in Live /\ req[r].entry.scope \in SUBSET People_
    <3>1. req'[r].pc = "sum"
      BY <1>5, <2>1, OnlyOne DEF Update
    <3> QED BY <3>1, DueBalanced DEF Due
  <2>2. CASE ~(req[r].which \in Live /\ req[r].entry.scope \in SUBSET People_)
    <3>1. Only(r) /\ req'[r] = At("idle") /\ req[r].pc = "update" /\ lost' = lost
      BY <1>5, <2>2, OnlyOne DEF Update
    <3>2. Silent(r)
      BY <1>5, <2>2 DEF Update, Silent, rows
    <3> QED BY <3>1, <3>2, SilentAside, AsideBalanced DEF At
  <2> QED BY <2>1, <2>2
<1>6. CASE Delete(r)
  <2>1. CASE req[r].which \in Live
    <3>1. req'[r].pc = "sum"
      BY <1>6, <2>1, OnlyOne DEF Delete
    <3> QED BY <3>1, DueBalanced DEF Due
  <2>2. CASE req[r].which \notin Live
    <3>1. Only(r) /\ req'[r] = At("idle") /\ req[r].pc = "delete" /\ lost' = lost
      BY <1>6, <2>2, OnlyOne DEF Delete
    <3>2. Silent(r)
      BY <1>6, <2>2 DEF Delete, Silent, rows
    <3> QED BY <3>1, <3>2, SilentAside, AsideBalanced DEF At
  <2> QED BY <2>1, <2>2
<1>7. CASE FindBySessionID(r)
  <2>1. req[r].seen \in Session
    BY <1>7, RequestFields DEF FindBySessionID, TypeOK
  <2>2. req'[r].pc = "save" /\ req'[r].row = SetTotal(req[r].seen, Sum(Amount, Live))
    BY <1>7, OnlyOne DEF FindBySessionID
  <2>3. req'[r].row.total = Sum(Amount, Live) /\ Sum(Amount, Live) \in Nat
    <3>1. Sum(Amount, Live) \in Nat
      BY LiveBills
    <3>2. SetTotal(req[r].seen, Sum(Amount, Live)).total = Sum(Amount, Live)
      BY <2>1, <3>1, Totals
    <3> QED BY <2>2, <3>1, <3>2
  <2>4. Live' = Live /\ Amount' = Amount
    BY <1>7, SamePeopleAndBills DEF FindBySessionID, rows
  <2>5. Due(r)'
    BY <2>2, <2>3, <2>4 DEF Due, Covers
  <2> QED BY <2>5, DueBalanced
<1> QED BY <1>1, <1>2, <1>3, <1>4, <1>5, <1>6, <1>7 DEF BillStep

LEMMA SessionBalanced ==
  ASSUME TypeOK, SettledInv, Balanced, NEW r \in Requests, SessionStep(r), faults = 0
  PROVE  Balanced'
<1>1. ASSUME NEW row, row.total = session.total, Starts(r), Reads(r),
             GoTo(r, [pc |-> "save", row |-> row, then |-> "idle"])
      PROVE  Balanced'
  <2>1. Only(r) /\ req'[r] = [pc |-> "save", row |-> row, then |-> "idle"]
    BY <1>1, OnlyOne
  <2>2. Silent(r) /\ req[r].pc = "idle" /\ lost' = lost
    BY <1>1, HistoryKinds DEF Starts, Reads
  <2>3. Covers(session.total) => Due(r)'
    BY <1>1, <2>1, <2>2, SilentKeepsRows DEF Covers, Due
  <2> QED BY <2>1, <2>2, <2>3, SaveBalanced
<1>2. CASE \/ \E pct \in FeeConfigs : UpdateFeeConfig(r, pct)
           \/ \E open \in BOOLEAN : UpdateSession(r, open)
  <2>1. \A pct : [session EXCEPT !.pct = pct].total = session.total
    BY DEF TypeOK, Session
  <2>2. \A open : [session EXCEPT !.open = open].total = session.total
    BY DEF TypeOK, Session
  <2> QED BY <1>1, <1>2, <2>1, <2>2 DEF UpdateFeeConfig, UpdateSession
<1>3. CASE SessionUpdate(r)
  <2>1. Only(r) /\ req'[r] \in {At("splits"), At("idle")}
    BY <1>3, OnlyOne DEF SessionUpdate
  <2>2. Loud(r) /\ session' = req[r].row /\ Live' = Live /\ Amount' = Amount /\ req[r].pc = "save"
    BY <1>3, SamePeopleAndBills DEF SessionUpdate, Loud
  <2>3. SUFFICES ASSUME ~lost'
                 PROVE  (\/ \E q \in Requests : Due(q)
                         \/ Covers(session.total) /\ \A q \in Requests : req[q].pc # "save")'
    BY DEF Balanced
  <2>4. r \notin outdated /\ ~lost
    BY <1>3, <2>3 DEF SessionUpdate, TypeOK
  <2>5. ASSUME NEW q \in Requests \ {r}, req[q].pc \in {"sum", "save"} PROVE Due(q)'
    BY <2>1, <2>2, <2>5 DEF Only, Loud, Due
  <2>6. CASE \A q \in Requests \ {r} : req[q].pc \notin {"sum", "save"}
    <3>1. Covers(req[r].row.total)
      BY <2>2, <2>4, <2>6 DEF Balanced, Due
    <3>2. Covers(session.total)'
      BY <2>2, <3>1 DEF Covers
    <3>3. \A q \in Requests : req'[q].pc # "save"
      BY <2>1, <2>6 DEF Only, At
    <3> QED BY <3>2, <3>3
  <2> QED BY <2>5, <2>6
<1> QED BY <1>2, <1>3 DEF SessionStep

LEMMA SplitBalanced ==
  ASSUME TypeOK, SettledInv, Balanced, NEW r \in Requests, SplitStep(r), faults = 0
  PROVE  Balanced'
<1>1. CASE CalculateSplits(r)
  <2>1. Only(r) /\ req'[r].pc = "people" /\ req[r].pc \in {"idle", "splits"}
    BY <1>1, OnlyOne DEF CalculateSplits, Starts
  <2>2. Silent(r) /\ lost' = lost
    BY <1>1, HistoryKinds DEF CalculateSplits, Reads
  <2> QED BY <2>1, <2>2, SilentAside, AsideBalanced DEF TypeOK
<1>2. CASE ReadParticipants(r) \/ ReadBills(r)
  <2>1. \/ \E p : GoTo(r, [pc |-> "bills", seen |-> req[r].seen, of |-> People_, newest |-> p])
        \/ \E shares, row : GoTo(r, [pc |-> "shares", of |-> req[r].of, shares |-> shares, row |-> row])
    BY <1>2, Zenon DEF ReadParticipants, ReadBills
  <2>2. Only(r) /\ req'[r].pc \in {"bills", "shares"}
    <3>1. ASSUME NEW p, GoTo(r, [pc |-> "bills", seen |-> req[r].seen, of |-> People_, newest |-> p])
          PROVE  Only(r) /\ req'[r].pc = "bills"
      BY <3>1, OnlyOne
    <3>2. ASSUME NEW shares, NEW row,
                 GoTo(r, [pc |-> "shares", of |-> req[r].of, shares |-> shares, row |-> row])
          PROVE  Only(r) /\ req'[r].pc = "shares"
      BY <3>2, OnlyOne
    <3> QED BY <2>1, <3>1, <3>2
  <2>3. Silent(r) /\ lost' = lost /\ req[r].pc \in {"people", "bills"}
    BY <1>2 DEF ReadParticipants, ReadBills, Silent
  <2> QED BY <2>2, <2>3, SilentAside, AsideBalanced DEF TypeOK
<1>3. CASE BulkUpdateShareAmounts(r)
  <2> DEFINE q == req[r]
  <2>1. /\ Loud(r) /\ session' = session /\ Live' = Live /\ Amount' = Amount
        /\ q.pc = "shares" /\ (lost' = (lost \/ r \in outdated))
    BY <1>3, SamePeopleAndBills DEF BulkUpdateShareAmounts, Loud
  <2>2. CASE HasFees(q.row.pct)
    <3>1. Only(r) /\ req'[r] = [pc |-> "save", row |-> q.row, then |-> "settled"]
      BY <1>3, <2>2, OnlyOne DEF BulkUpdateShareAmounts
    <3>2. ASSUME ~lost' PROVE Due(r)'
      <4>1. q.row.pct = session.pct /\ Agreed(q.shares, q.row.total)
        BY <2>1, <3>2 DEF SettledInv, Current, TypeOK
      <4>2. PICK last \in [Live -> People_] :
              /\ Calculable(bill, Live, People_, last, session.pct)
              /\ q.row.total = Sum([b \in Live |-> bill[b].amount], Live)
                                 + FeesOwed(bill, Live, People_, last, session.pct)
        BY <2>2, <4>1 DEF Agreed, Agrees
      <4>3. /\ FeesOwed(bill, Live, People_, last, session.pct) \in Nat
            /\ Sum([b \in Live |-> bill[b].amount], Live) \in Nat
        <5> DEFINE owed == [p \in People_ |-> Owed(bill, Live, People_, last, session.pct, p)]
        <5>1. \A p \in People_ : owed[p] = Owed(bill, Live, People_, last, session.pct, p)
          OBVIOUS
        <5> HIDE DEF owed
        <5> QED BY <4>2, <5>1, OwedCoversBills
      <4>4. Sum(Amount, Live) = Sum([b \in Live |-> bill[b].amount], Live)
        BY LiveBills
      <4>5. Covers(q.row.total)
        BY <4>2, <4>3, <4>4 DEF Covers
      <4> QED BY <2>1, <3>1, <4>5 DEF Due, Covers
    <3> QED BY <3>2 DEF Balanced
  <2>3. CASE ~HasFees(q.row.pct)
    <3>1. Only(r) /\ req'[r].pc = "idle"
      BY <1>3, <2>3, OnlyOne DEF BulkUpdateShareAmounts, At
    <3>2. Aside(r)
      BY <2>1, <3>1 DEF Aside
    <3> QED BY <2>1, <3>2, AsideBalanced DEF TypeOK
  <2> QED BY <2>2, <2>3
<1> QED BY <1>1, <1>2, <1>3 DEF SplitStep

LEMMA PeopleBalanced ==
  ASSUME TypeOK, SettledInv, Balanced, NEW r \in Requests, PeopleStep(r), faults = 0
  PROVE  Balanced'
<1>1. SUFFICES Aside(r) /\ lost' \in BOOLEAN /\ (lost => lost')
  BY AsideBalanced
<1>2. CASE AddParticipants(r) \/ ImportFromGroup(r) \/ RemoveParticipant(r)
  <2>1. Only(r) /\ req'[r].pc # "save"
    BY <1>2, OnlyOne DEF AddParticipants, ImportFromGroup, RemoveParticipant, At
  <2>2. Silent(r) /\ lost' = lost /\ req[r].pc = "idle"
    BY <1>2, HistoryKinds DEF AddParticipants, ImportFromGroup, RemoveParticipant, Starts, Reads
  <2> QED BY <2>1, <2>2, SilentAside DEF TypeOK
<1>3. CASE AddEnds(r)
  <2>1. Only(r) /\ req'[r].pc # "save"
    BY <1>3, OnlyOne DEF AddEnds, At
  <2>2. Silent(r) /\ lost' = lost /\ req[r].pc = "join"
    BY <1>3 DEF AddEnds, Silent
  <2> QED BY <2>1, <2>2, SilentAside DEF TypeOK
<1>4. ASSUME NEW p \in People, Join(r, p)
      PROVE  Aside(r) /\ lost' = lost
  <2>1. Loud(r) /\ Only(r) /\ req'[r] = req[r] /\ req[r].pc \in {"join", "import"} /\ lost' = lost
    BY <1>4, HistoryKinds DEF Join, Only
  <2>2. session' = session /\ Live' = Live /\ Amount' = Amount
    BY <1>4 DEF Join, Live, Amount
  <2> QED BY <2>1, <2>2 DEF Aside
<1>5. ASSUME NEW p \in People, Remove(r, p)
      PROVE  Aside(r) /\ lost' = lost
  <2>1. Loud(r) /\ Only(r) /\ req'[r].pc # "save" /\ req[r].pc = "leave" /\ lost' = lost /\ session' = session
    BY <1>5, OnlyOne, HistoryKinds DEF Remove, At
  <2>2. \A b \in Bills : bill'[b].state = bill[b].state /\ bill'[b].amount = bill[b].amount
    <3>1. \A b \in Bills : bill'[b] = [bill[b] EXCEPT !.scope = @ \ {p}] /\ bill[b] \in Bill
      BY <1>5 DEF Remove, Without, TypeOK
    <3> QED BY <3>1 DEF Bill
  <2>3. Live' = Live
    BY <2>2 DEF Live
  <2>4. Amount' = Amount
    BY <2>2, <2>3 DEF Amount, Live
  <2> QED BY <2>1, <2>3, <2>4 DEF Aside
<1>6. ASSUME NEW p \in People, ParticipantRead(r, p)
      PROVE  Aside(r) /\ lost' = lost
  <2>1. Only(r) /\ req'[r].pc # "save"
    BY <1>6, OnlyOne DEF ParticipantRead
  <2>2. Silent(r) /\ lost' = lost /\ req[r].pc = "idle"
    BY <1>6, HistoryKinds DEF ParticipantRead, Starts, Reads
  <2> QED BY <2>1, <2>2, SilentAside
<1>7. CASE ParticipantUpdate(r)
  <2>1. Only(r) /\ req'[r].pc # "save" /\ req[r].pc = "touch"
    BY <1>7, OnlyOne DEF ParticipantUpdate, At
  <2>2. Silent(r) \/ Loud(r)
    BY <1>7, HistoryKinds DEF ParticipantUpdate, Silent, rows
  <2>3. session' = session /\ Live' = Live /\ Amount' = Amount
    BY <1>7, SamePeopleAndBills DEF ParticipantUpdate
  <2>4. lost' \in BOOLEAN /\ (lost => lost')
    BY <1>7 DEF ParticipantUpdate, Stores, TypeOK
  <2> QED BY <2>1, <2>2, <2>3, <2>4 DEF Aside
<1> QED BY <1>2, <1>3, <1>4, <1>5, <1>6, <1>7 DEF PeopleStep, TypeOK

LEMMA FaultsGrow ==
  ASSUME TypeOK, [Next]_vars, faults' = 0
  PROVE  faults = 0
<1>1. ASSUME NEW r \in Requests, Fail(r) PROVE faults = 0
  BY <1>1 DEF Fail, TypeOK
<1>2. ASSUME NEW r \in Requests, BillStep(r) PROVE faults' = faults
  BY <1>2 DEF BillStep, AddBillItem, UpdateBillItem, DeleteBillItem, Create, Update, Delete, FindBySessionID
<1>3. ASSUME NEW r \in Requests, SessionStep(r) \/ SplitStep(r) \/ Return(r) PROVE faults' = faults
  BY <1>3 DEF SessionStep, UpdateFeeConfig, UpdateSession, SessionUpdate, SplitStep, CalculateSplits,
              ReadParticipants, ReadBills, BulkUpdateShareAmounts, Return
<1>4. ASSUME NEW r \in Requests, PeopleStep(r) PROVE faults' = faults
  BY <1>4 DEF PeopleStep, AddParticipants, ImportFromGroup, AddEnds, RemoveParticipant, Join, Remove,
              ParticipantRead, ParticipantUpdate
<1> QED BY <1>1, <1>2, <1>3, <1>4 DEF Next, vars

LEMMA BalancedStep ==
  ASSUME TypeOK, SettledInv, Balanced, [Next]_vars
  PROVE  Balanced'
<1>1. SUFFICES ASSUME faults' = 0 PROVE Balanced'
  BY DEF Balanced
<1>2. faults = 0 /\ lost' \in BOOLEAN
  BY <1>1, FaultsGrow, TypeStep DEF TypeOK
<1>3. CASE UNCHANGED vars
  BY <1>3, SamePeopleAndBills DEF Balanced, Due, Covers, vars, rows
<1>4. ASSUME NEW r \in Requests, Return(r) PROVE Balanced'
  <2>1. Only(r) /\ req'[r].pc # "save" /\ req[r].pc \notin {"sum", "save"}
    BY <1>4, OnlyOne DEF Return, At
  <2>2. Silent(r) /\ lost' = lost
    BY <1>4 DEF Return, Silent
  <2> QED BY <1>2, <2>1, <2>2, SilentAside, AsideBalanced
<1>5. ASSUME NEW r \in Requests, Fail(r) PROVE FALSE
  BY <1>1, <1>2, <1>5 DEF Fail
<1> QED BY <1>2, <1>3, <1>4, <1>5, BillBalanced, SessionBalanced, SplitBalanced, PeopleBalanced DEF Next

\* With no request in between and none cut short or stored out of date, the
\* total on display covers the bills: a request that changed them still has
\* the total to store, and a row stored under it would have been out of date.
THEOREM TotalStaysCovered == Spec => []TotalCoversBills
<1>1. Init => TypeOK /\ SettledInv /\ Balanced
  <2>1. ASSUME Init PROVE Balanced
    <3>1. Live = {} /\ session.total = 0
      BY <2>1 DEF Init, Live
    <3>2. Sum(Amount, Live) = 0
      BY <3>1, SumEmpty
    <3> QED BY <2>1, <3>1, <3>2 DEF Init, Balanced, Covers, At
  <2> QED BY <2>1, InitTypes, InitSettled
<1>2. TypeOK /\ SettledInv /\ Balanced /\ [Next]_vars => (TypeOK /\ SettledInv /\ Balanced)'
  BY TypeStep, SettledStep, BalancedStep
<1>3. Balanced => TotalCoversBills
  BY DEF Balanced, TotalCoversBills, Quiet, Due, Covers
<1> QED BY <1>1, <1>2, <1>3, PTL DEF Spec

=============================================================================
