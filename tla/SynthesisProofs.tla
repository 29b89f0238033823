-------------------------- MODULE SynthesisProofs ---------------------------
(***************************************************************************)
(* What is proved of the paths to a generated data set, for any values of  *)
(* the constants: values that arrive late, generations and their bundles,  *)
(* and what a call to a model provider is told of its runs.                *)
(***************************************************************************)
EXTENDS MCSynthesis, FiniteSetTheorems, WellFoundedInduction, TLAPS

\* A set of numbers has a least one.
LEMMA Least ==
  ASSUME NEW T \in SUBSET Nat, T # {}
  PROVE  \E m \in T : \A k \in T : m <= k
<1> DEFINE R == {p \in Nat \X Nat : p[1] < p[2]}
<1>1. IsWellFoundedOn(R, Nat)
  <2>1. R = OpToRel(<, Nat)
    BY DEF OpToRel
  <2> QED BY <2>1, NatLessThanWellFounded
<1> HIDE DEF R
<1>2. PICK m \in T : \A k \in T : ~(<<k, m>> \in R)
  BY <1>1, WFMin
<1>3. ASSUME NEW k \in T, k < m PROVE FALSE
  <2>1. <<k, m>> \in R
    BY <1>3 DEF R
  <2> QED BY <1>2, <2>1
<1> QED BY <1>3

\* Induction: what is said of a number is put as a set.
LEMMA Induction ==
  ASSUME NEW T, 0 \in T, \A n \in Nat : n \in T => n + 1 \in T
  PROVE  \A n \in Nat : n \in T
<1> SUFFICES ASSUME NEW x \in Nat, x \notin T PROVE FALSE
  OBVIOUS
<1>1. PICK m \in {n \in Nat : n \notin T} : \A k \in {n \in Nat : n \notin T} : m <= k
  BY Least
<1>2. m # 0 /\ m - 1 \in Nat /\ m - 1 \in T
  BY <1>1
<1>3. (m - 1) + 1 \in T
  BY <1>2
<1> QED BY <1>1, <1>3

\* Folding a finite set is well defined: "pick" says which element comes next,
\* op[i] what it makes of a value.
Foldable(U, X, base, pick, op) ==
    /\ IsFiniteSet(U) /\ base \in X
    /\ \A s \in SUBSET U : s # {} => pick[s] \in s
    /\ \A i \in U : \A x \in X : op[i][x] \in X
Folds(g, U, base, pick, op) ==
    \A s \in SUBSET U : g[s] = IF s = {} THEN base ELSE op[pick[s]][g[s \ {pick[s]}]]

\* A fold over a finite set is its value at that set, of the function that follows one choice after another.
LEMMA Iterates ==
  ASSUME NEW U, NEW X, NEW base, NEW pick, NEW op, Foldable(U, X, base, pick, op)
  PROVE  \E g \in [SUBSET U -> X] : Folds(g, U, base, pick, op)
<1> USE DEF Foldable
<1> DEFINE Small(n) == {s \in SUBSET U : Cardinality(s) <= n}
           Fits(g, n) == \A s \in Small(n) : g[s] = IF s = {} THEN base ELSE op[pick[s]][g[s \ {pick[s]}]]
           T == {n \in Nat : \E g \in [Small(n) -> X] : Fits(g, n)}
<1>c. \A s \in SUBSET U : IsFiniteSet(s) /\ Cardinality(s) \in Nat /\ Cardinality(s) <= Cardinality(U)
  BY FS_Subset, FS_CardinalityType
<1>r. \A s \in SUBSET U : s # {} =>
        pick[s] \in U /\ s \ {pick[s]} \in SUBSET U /\ Cardinality(s \ {pick[s]}) = Cardinality(s) - 1
  BY <1>c, FS_RemoveElement
<1>1. 0 \in T
  <2>1. \A s \in Small(0) : s = {}
    BY <1>c, FS_EmptySet
  <2>2. [s \in Small(0) |-> base] \in [Small(0) -> X] /\ Fits([s \in Small(0) |-> base], 0)
    BY <2>1
  <2> QED BY <2>2
<1>2. ASSUME NEW n \in Nat, n \in T PROVE n + 1 \in T
  <2>1. PICK g \in [Small(n) -> X] : Fits(g, n)
    BY <1>2
  <2> DEFINE h == [s \in Small(n + 1) |-> IF s = {} THEN base ELSE op[pick[s]][g[s \ {pick[s]}]]]
  <2>a. \A s \in Small(n) : s \in Small(n + 1)
    BY <1>c
  <2>b. \A s \in Small(n + 1) : h[s] = IF s = {} THEN base ELSE op[pick[s]][g[s \ {pick[s]}]]
    OBVIOUS
  <2>2. \A s \in Small(n) : s \in Small(n + 1) /\ h[s] = g[s]
    <3> HIDE DEF Small, h
    <3> QED BY <2>a, <2>b, <2>1
  <2>3. \A s \in Small(n + 1) : s # {} => s \ {pick[s]} \in Small(n)
    BY <1>c, <1>r
  <2>4. h \in [Small(n + 1) -> X]
    BY <1>r, <2>3
  <2>5. \A s \in Small(n + 1) : s # {} => h[s \ {pick[s]}] = g[s \ {pick[s]}]
    BY <2>2, <2>3
  <2> HIDE DEF Small
  <2> HIDE DEF h
  <2>6. Fits(h, n + 1)
    BY <2>b, <2>5
  <2> HIDE DEF Fits
  <2> QED BY <2>4, <2>6
<1>3. Cardinality(U) \in T
  <2> HIDE DEF T
  <2>1. \A n \in Nat : n \in T
    BY <1>1, <1>2, Induction
  <2> QED BY <1>c, <2>1
<1>4. Small(Cardinality(U)) = SUBSET U
  BY <1>c
<1>5. PICK g \in [SUBSET U -> X] : Fits(g, Cardinality(U))
  BY <1>3, <1>4
<1>6. Folds(g, U, base, pick, op)
  BY <1>4, <1>5 DEF Folds
<1> QED BY <1>6

\* Induction over the subsets of a finite set.
LEMMA SubsetInduction ==
  ASSUME NEW U, IsFiniteSet(U), NEW T,
         \A s \in SUBSET U : (\A r \in SUBSET s : r # s => r \in T) => s \in T
  PROVE  \A s \in SUBSET U : s \in T
<1> DEFINE N == {n \in Nat : \E s \in SUBSET U : s \notin T /\ Cardinality(s) = n}
<1>c. \A s \in SUBSET U : IsFiniteSet(s) /\ Cardinality(s) \in Nat
  BY FS_Subset, FS_CardinalityType
<1> SUFFICES ASSUME NEW z \in SUBSET U, z \notin T PROVE FALSE
  OBVIOUS
<1>1. Cardinality(z) \in N
  BY <1>c
<1>2. PICK m \in N : \A k \in N : m <= k
  <2>1. N \in SUBSET Nat /\ N # {}
    BY <1>1
  <2> HIDE DEF N
  <2> QED BY <2>1, Least
<1>3. PICK s \in SUBSET U : s \notin T /\ Cardinality(s) = m
  BY <1>2
<1>4. PICK r \in SUBSET s : r # s /\ r \notin T
  BY <1>3
<1>5. r \in SUBSET U /\ Cardinality(r) < Cardinality(s)
  BY <1>c, <1>3, <1>4, FS_Subset
<1>6. Cardinality(r) \in N
  BY <1>c, <1>4, <1>5
<1> QED BY <1>c, <1>2, <1>3, <1>5, <1>6

-----------------------------------------------------------------------------
(* Sums over finite sets, as a fold makes them.                            *)

Pick(s) == CHOOSE x \in s : TRUE
SumsTo(f, U, g) == g = [s \in SUBSET U |-> IF s = {} THEN 0 ELSE f[Pick(s)] + g[s \ {Pick(s)}]]
Sums(f, U) == CHOOSE g : SumsTo(f, U, g)
Summable(f, U) == IsFiniteSet(U) /\ \A x \in U : f[x] \in Nat

\* The fold with + of the community modules is such a sum.
LEMMA FoldIsSum == ASSUME NEW f PROVE FoldFunction(LAMBDA x, y : x + y, 0, f) = Sums(f, DOMAIN f)[DOMAIN f]
  BY DEF FoldFunction, FoldFunctionOnSet, MapThenFoldSet, Sums, SumsTo, Pick

\* There is a function of the sums of all parts of a finite set.
LEMMA SumsExist ==
  ASSUME NEW U, NEW f, Summable(f, U)
  PROVE  Sums(f, U) \in [SUBSET U -> Nat] /\ SumsTo(f, U, Sums(f, U))
<1> USE DEF Summable
<1> DEFINE pick == [s \in SUBSET U |-> Pick(s)]
           op == [i \in U |-> [n \in Nat |-> f[i] + n]]
<1>1. \A s \in SUBSET U : s # {} => pick[s] \in s
  BY DEF Pick
<1>2. \A i \in U : \A n \in Nat : op[i][n] \in Nat
  OBVIOUS
<1>3. PICK g \in [SUBSET U -> Nat] : Folds(g, U, 0, pick, op)
  <2> HIDE DEF pick, op
  <2>1. Foldable(U, Nat, 0, pick, op)
    BY <1>1, <1>2 DEF Foldable
  <2> QED BY <2>1, Iterates
<1>4. SumsTo(f, U, g)
  <2>1. \A s \in SUBSET U : s # {} => op[pick[s]][g[s \ {pick[s]}]] = f[Pick(s)] + g[s \ {Pick(s)}]
    BY <1>1
  <2>2. \A s \in SUBSET U : pick[s] = Pick(s)
    OBVIOUS
  <2> HIDE DEF pick, op
  <2>3. \A s \in SUBSET U : g[s] = IF s = {} THEN 0 ELSE f[Pick(s)] + g[s \ {Pick(s)}]
    BY <1>3, <2>1, <2>2 DEF Folds
  <2> QED BY <2>3 DEF SumsTo
<1>5. SumsTo(f, U, Sums(f, U))
  BY <1>4 DEF Sums
<1>6. \A s \in SUBSET U : Sums(f, U)[s] = g[s]
  <2> DEFINE h == Sums(f, U)
             T == {s \in SUBSET U : h[s] = g[s]}
  <2>1. ASSUME NEW s \in SUBSET U, \A r \in SUBSET s : r # s => r \in T PROVE s \in T
    <3>1. h[s] = (IF s = {} THEN 0 ELSE f[Pick(s)] + h[s \ {Pick(s)}])
      BY <1>5 DEF SumsTo
    <3>2. g[s] = (IF s = {} THEN 0 ELSE f[Pick(s)] + g[s \ {Pick(s)}])
      BY <1>4 DEF SumsTo
    <3>3. s # {} => Pick(s) \in s
      BY DEF Pick
    <3>4. s # {} => h[s \ {Pick(s)}] = g[s \ {Pick(s)}]
      BY <2>1, <3>3
    <3> QED BY <3>1, <3>2, <3>4
  <2> HIDE DEF T
  <2>2. \A s \in SUBSET U : s \in T
    BY <2>1, SubsetInduction
  <2> QED BY <2>2 DEF T
<1>7. Sums(f, U) = [s \in SUBSET U |-> Sums(f, U)[s]]
  BY <1>5 DEF SumsTo
<1> QED BY <1>5, <1>6, <1>7

\* Any element can be taken out first.
Splits(f, U) == \A s \in SUBSET U : \A x \in s : Sums(f, U)[s] = f[x] + Sums(f, U)[s \ {x}]
\* A sum is a part of it and the rest.
LEMMA SumSplits ==
  ASSUME NEW U, NEW f, Summable(f, U)
  PROVE  Splits(f, U)
<1> USE DEF Summable
<1> DEFINE g == Sums(f, U)
           T == {s \in SUBSET U : \A x \in s : g[s] = f[x] + g[s \ {x}]}
<1>0. g \in [SUBSET U -> Nat] /\ SumsTo(f, U, g)
  BY SumsExist
<1>1. g \in [SUBSET U -> Nat] /\ \A s \in SUBSET U : s # {} => g[s] = f[Pick(s)] + g[s \ {Pick(s)}]
  <2> HIDE DEF g
  <2> QED BY <1>0 DEF SumsTo
<1>p. \A s \in SUBSET U : s # {} => Pick(s) \in s
  BY DEF Pick
<1> HIDE DEF g
<1>2. ASSUME NEW s \in SUBSET U, \A r \in SUBSET s : r # s => r \in T PROVE s \in T
  <2> SUFFICES ASSUME NEW x \in s PROVE g[s] = f[x] + g[s \ {x}]
    OBVIOUS
  <2>1. CASE x = Pick(s)
    BY <1>1, <2>1
  <2>2. CASE x # Pick(s)
    <3> DEFINE p == Pick(s)
               rest == s \ {p, x}
    <3>1. p \in s /\ p \in s \ {x} /\ x \in s \ {p} /\ rest \in SUBSET U
      BY <1>p, <2>2
    <3> HIDE DEF p
    <3>2. s \ {p} \in T /\ s \ {x} \in T
      BY <1>2, <3>1
    <3>3. (s \ {p}) \ {x} = rest /\ (s \ {x}) \ {p} = rest
      OBVIOUS
    <3>4. g[s \ {p}] = f[x] + g[rest] /\ g[s \ {x}] = f[p] + g[rest]
      BY <3>1, <3>2, <3>3
    <3>5. g[s] = f[p] + g[s \ {p}]
      BY <1>1, <3>1 DEF p
    <3>6. g[rest] \in Nat /\ f[x] \in Nat /\ f[p] \in Nat
      BY <1>1, <3>1
    <3> HIDE DEF rest
    <3> QED BY <3>4, <3>5, <3>6
  <2> QED BY <2>1, <2>2
<1> HIDE DEF T
<1>3. \A s \in SUBSET U : s \in T
  BY <1>2, SubsetInduction
<1> QED BY <1>3 DEF T, g, Splits

\* A sum is of its elements only.
LEMMA SumsAgree ==
  ASSUME NEW U, NEW V \in SUBSET U, NEW f, NEW h,
         Summable(f, U), \A x \in V : h[x] = f[x]
  PROVE  \A s \in SUBSET V : Sums(h, V)[s] = Sums(f, U)[s]
<1> USE DEF Summable
<1> DEFINE T == {s \in SUBSET V : Sums(h, V)[s] = Sums(f, U)[s]}
<1>1. IsFiniteSet(V)
  BY FS_Subset
<1>2. \A x \in V : h[x] \in Nat
  OBVIOUS
<1>3. SumsTo(h, V, Sums(h, V)) /\ SumsTo(f, U, Sums(f, U))
  BY <1>1, <1>2, SumsExist
<1>4. ASSUME NEW s \in SUBSET V, \A r \in SUBSET s : r # s => r \in T PROVE s \in T
  <2>1. Sums(h, V)[s] = (IF s = {} THEN 0 ELSE h[Pick(s)] + Sums(h, V)[s \ {Pick(s)}])
    BY <1>3 DEF SumsTo
  <2>2. Sums(f, U)[s] = (IF s = {} THEN 0 ELSE f[Pick(s)] + Sums(f, U)[s \ {Pick(s)}])
    BY <1>3 DEF SumsTo
  <2>3. s # {} => Pick(s) \in s
    BY DEF Pick
  <2> QED BY <1>4, <2>1, <2>2, <2>3
<1> HIDE DEF T
<1>5. \A s \in SUBSET V : s \in T
  BY <1>1, <1>4, SubsetInduction
<1> QED BY <1>5 DEF T

(* Semantic values, for any generations, cells and answers: whoever        *)
(* answers, a queue holds what its own thread has put there.               *)

Requests == SemanticGenerations \X DOMAIN SemanticCells

SemanticShapes ==
    /\ step = [g \in SemanticGenerations |-> step[g]] /\ end = [g \in SemanticGenerations |-> end[g]]
    /\ thread = [r \in Requests |-> thread[r]] /\ queue = [r \in Requests |-> queue[r]]
    /\ \A r \in Requests : thread[r] = [state |-> thread[r].state, first |-> thread[r].first]
    /\ \E V : values \in [SemanticGenerations -> Seq(V)]

\* A generation is at the cell after the last one that it has a value of.
Proceeds(g) ==
    /\ Len(values[g]) <= Len(SemanticCells)
    /\ end[g] = None => step[g] = Len(values[g]) + 1 /\ step[g] <= Len(SemanticCells)

SemanticInv ==
    /\ SemanticShapes
    /\ \A g \in SemanticGenerations : Proceeds(g)
    /\ \A r \in Requests : queue[r] # None => queue[r].from = r
    /\ \A r \in Requests : thread[r].state # "none" => Semantics!MayAsk(SemanticCells[r[2]])
    /\ Semantics!LateValuesAreDiscarded

CellsAreListed == SemanticCells \in Seq({SemanticCells[i] : i \in DOMAIN SemanticCells}) /\ SemanticCells # <<>>

\* No queue holds anything at first.
LEMMA SemanticInit == Semantics!Init => SemanticInv
<1> SUFFICES ASSUME Semantics!Init PROVE SemanticInv
  OBVIOUS
<1> USE DEF Semantics!Init, Requests, Semantics!Requests
<1>1. CellsAreListed /\ Len(SemanticCells) \in Nat /\ Len(SemanticCells) # 0
  BY SemanticsAssumption DEF Semantics!CellsAssumption, CellsAreListed
<1>2. SemanticShapes
  <2>1. values \in [SemanticGenerations -> Seq({})]
    OBVIOUS
  <2> QED BY <2>1 DEF SemanticShapes
<1>3. \A g \in SemanticGenerations : Proceeds(g)
  BY <1>1 DEF Proceeds
<1> QED BY <1>2, <1>3 DEF SemanticInv, Semantics!LateValuesAreDiscarded

\* The cell of a generation that goes on is one of the data set.
LEMMA CellInPlace ==
    ASSUME SemanticInv, NEW g \in SemanticGenerations, end[g] = None
    PROVE  /\ step[g] = Len(values[g]) + 1 /\ step[g] \in DOMAIN SemanticCells /\ <<g, step[g]>> \in Requests
           /\ step[g] <= Len(SemanticCells) /\ Len(SemanticCells) \in Nat /\ step[g] \in Nat
<1>1. CellsAreListed /\ Len(SemanticCells) \in Nat /\ DOMAIN SemanticCells = 1..Len(SemanticCells)
  BY SemanticsAssumption DEF Semantics!CellsAssumption, CellsAreListed
<1>2. Proceeds(g) /\ Len(values[g]) \in Nat
  BY DEF SemanticInv, SemanticShapes
<1> QED BY <1>1, <1>2 DEF Proceeds, Requests

\* A value that is of its own cell keeps all values so, and moves on.
LEMMA PutKeeps ==
    ASSUME SemanticInv, NEW g \in SemanticGenerations, end[g] = None, NEW from, NEW v,
           from = IF Semantics!MayAsk(SemanticCells[step[g]]) THEN <<g, step[g]>> ELSE None,
           Semantics!Put(g, from, v)
    PROVE  /\ step' = [h \in SemanticGenerations |-> step'[h]] /\ end' = [h \in SemanticGenerations |-> end'[h]]
           /\ \E V : values' \in [SemanticGenerations -> Seq(V)]
           /\ \A h \in SemanticGenerations : Proceeds(h)'
           /\ Semantics!LateValuesAreDiscarded'
<1>1. /\ step[g] = Len(values[g]) + 1 /\ step[g] <= Len(SemanticCells)
      /\ Len(SemanticCells) \in Nat /\ step[g] \in Nat
  BY CellInPlace
<1>2. PICK V : values \in [SemanticGenerations -> Seq(V)]
  BY DEF SemanticInv, SemanticShapes
<1> DEFINE entry == [from |-> from, value |-> v]
           n == Len(values[g])
<1>3. values' = [values EXCEPT ![g] = Append(@, entry)]
  BY DEF Semantics!Put
<1>4. entry.from = from
  OBVIOUS
<1> HIDE DEF entry
<1>5. /\ values' \in [SemanticGenerations -> Seq(V \cup {entry})]
      /\ Len(values'[g]) = n + 1 /\ values'[g][n + 1] = entry /\ \A i \in 1..n : values'[g][i] = values[g][i]
      /\ DOMAIN values'[g] = 1..(n + 1)
      /\ \A h \in SemanticGenerations \ {g} : values'[h] = values[h]
  <2>1. values[g] \in Seq(V) /\ values[g] \in Seq(V \cup {entry})
    BY <1>2
  <2>2. Append(values[g], entry) \in Seq(V \cup {entry})
    BY <2>1
  <2>3. \A h \in SemanticGenerations : values[h] \in Seq(V \cup {entry})
    BY <1>2
  <2> QED BY <1>2, <1>3, <2>1, <2>2, <2>3
<1>6. /\ step' = [h \in SemanticGenerations |-> step'[h]] /\ end' = [h \in SemanticGenerations |-> end'[h]]
      /\ \A h \in SemanticGenerations \ {g} : step'[h] = step[h] /\ end'[h] = end[h]
      /\ IF step[g] = Len(SemanticCells) THEN end'[g] = "completed"
         ELSE step'[g] = step[g] + 1 /\ end'[g] = end[g]
  BY DEF Semantics!Put, Semantics!Ends, SemanticInv, SemanticShapes
<1>7. \A h \in SemanticGenerations : Proceeds(h)'
  <2>1. Proceeds(g)'
    <3>1. n \in Nat /\ step[g] = n + 1 /\ Len(values'[g]) = n + 1
      BY <1>1, <1>2, <1>5
    <3>2. CASE step[g] = Len(SemanticCells)
      BY <1>1, <1>6, <3>1, <3>2, SemanticsAssumption DEF Proceeds, Semantics!EndsAssumption
    <3>3. CASE step[g] # Len(SemanticCells)
      BY <1>1, <1>6, <3>1, <3>3 DEF Proceeds
    <3> QED BY <3>2, <3>3
  <2>2. \A h \in SemanticGenerations \ {g} : Proceeds(h)'
    BY <1>5, <1>6 DEF Proceeds, SemanticInv
  <2> QED BY <2>1, <2>2
<1>8. Semantics!LateValuesAreDiscarded'
  <2> SUFFICES ASSUME NEW h \in SemanticGenerations, NEW i \in DOMAIN values'[h]
               PROVE  values'[h][i].from = IF Semantics!MayAsk(SemanticCells[i]) THEN <<h, i>> ELSE None
    BY DEF Semantics!LateValuesAreDiscarded, Semantics!MayAsk
  <2>1. CASE h # g \/ i # n + 1
    <3>1. values'[h][i] = values[h][i] /\ i \in DOMAIN values[h]
      <4>1. CASE h # g
        BY <1>5, <4>1
      <4>2. CASE h = g
        <5>1. n \in Nat /\ values[g] \in Seq(V) /\ DOMAIN values[g] = 1..n
          BY <1>2
        <5>2. i \in 1..(n + 1) /\ i # n + 1
          BY <1>5, <2>1, <4>2
        <5>3. i \in 1..n
          BY <5>1, <5>2
        <5> QED BY <1>5, <4>2, <5>1, <5>3
      <4> QED BY <4>1, <4>2
    <3> QED BY <3>1 DEF SemanticInv, Semantics!LateValuesAreDiscarded
  <2>2. CASE h = g /\ i = n + 1
    BY <1>1, <1>4, <1>5, <2>2
  <2> QED BY <2>1, <2>2
<1> QED BY <1>5, <1>6, <1>7, <1>8

\* A generation that ends has put nothing.
LEMMA EndsKeeps ==
    ASSUME SemanticInv, NEW g \in SemanticGenerations, NEW how \in {"failed", "timed out"},
           Semantics!Ends(g, how), UNCHANGED <<step, values>>
    PROVE  /\ step' = [h \in SemanticGenerations |-> step'[h]] /\ end' = [h \in SemanticGenerations |-> end'[h]]
           /\ \E V : values' \in [SemanticGenerations -> Seq(V)]
           /\ \A h \in SemanticGenerations : Proceeds(h)'
           /\ Semantics!LateValuesAreDiscarded'
<1>1. \A h \in SemanticGenerations : end'[h] = IF h = g THEN how ELSE end[h]
  BY DEF Semantics!Ends, SemanticInv, SemanticShapes
<1>2. end' = [h \in SemanticGenerations |-> end'[h]]
  BY DEF Semantics!Ends, SemanticInv, SemanticShapes
<1>3. how # None
  BY SemanticsAssumption DEF Semantics!EndsAssumption
<1> QED BY <1>1, <1>2, <1>3 DEF Proceeds, SemanticInv, SemanticShapes, Semantics!LateValuesAreDiscarded

\* What of a request's own is kept by a step that leaves its thread and queue.
LEMMA RequestsKept ==
    ASSUME SemanticInv, UNCHANGED <<thread, queue>>
    PROVE  /\ thread' = [r \in Requests |-> thread'[r]] /\ queue' = [r \in Requests |-> queue'[r]]
           /\ \A r \in Requests : thread'[r] = [state |-> thread'[r].state, first |-> thread'[r].first]
           /\ \A r \in Requests : queue'[r] # None => queue'[r].from = r
           /\ \A r \in Requests : thread'[r].state # "none" => Semantics!MayAsk(SemanticCells[r[2]])
  BY DEF SemanticInv, SemanticShapes

\* A generation that has its values built in asks nobody.
LEMMA BuiltInKeeps == ASSUME SemanticInv, NEW g \in SemanticGenerations, Semantics!BuiltIn(g) PROVE SemanticInv'
<1>1. end[g] = None /\ ~Semantics!MayAsk(SemanticCells[step[g]]) /\ Semantics!Put(g, None, None) /\ UNCHANGED <<thread, queue>>
  BY DEF Semantics!BuiltIn, Semantics!Busy, Semantics!Cell
<1> QED BY <1>1, PutKeeps, RequestsKept DEF SemanticInv, SemanticShapes

\* What came late is put aside with the queue that it came to.
LEMMA TimeIsUpKeeps == ASSUME SemanticInv, NEW g \in SemanticGenerations, Semantics!TimeIsUp(g) PROVE SemanticInv'
<1>1. Semantics!Ends(g, "failed") /\ UNCHANGED <<step, values>> /\ UNCHANGED <<thread, queue>>
  BY DEF Semantics!TimeIsUp
<1> QED BY <1>1, EndsKeeps, RequestsKept DEF SemanticInv, SemanticShapes

\* A generation that gave up takes nothing more.
LEMMA TimeoutKeeps == ASSUME SemanticInv, NEW g \in SemanticGenerations, Semantics!Timeout(g) PROVE SemanticInv'
<1>1. Semantics!Ends(g, "timed out") /\ UNCHANGED <<step, values>> /\ UNCHANGED <<thread, queue>>
  BY DEF Semantics!Timeout
<1> QED BY <1>1, EndsKeeps, RequestsKept DEF SemanticInv, SemanticShapes

\* A thread that is started has put nothing yet.
LEMMA AskKeeps == ASSUME SemanticInv, NEW g \in SemanticGenerations, Semantics!Ask(g) PROVE SemanticInv'
<1> DEFINE r == <<g, step[g]>>
<1>1. end[g] = None /\ Semantics!MayAsk(SemanticCells[step[g]])
      /\ thread' = [thread EXCEPT ![<<g, step[g]>>].state = "called"] /\ UNCHANGED <<step, end, queue, values>>
  BY DEF Semantics!Ask, Semantics!Busy, Semantics!Cell
<1>2. r \in Requests /\ r[2] = step[g]
  BY <1>1, CellInPlace
<1> HIDE DEF r
<1>3. thread' = [thread EXCEPT ![r].state = "called"]
  BY <1>1 DEF r
<1>4. /\ thread' = [q \in Requests |-> thread'[q]]
      /\ \A q \in Requests : thread'[q] = IF q = r THEN [state |-> "called", first |-> thread[q].first] ELSE thread[q]
  BY <1>2, <1>3 DEF SemanticInv, SemanticShapes
<1>5. \A q \in Requests : thread'[q] = [state |-> thread'[q].state, first |-> thread'[q].first]
  BY <1>4 DEF SemanticInv, SemanticShapes
<1>6. \A q \in Requests : thread'[q].state # "none" => Semantics!MayAsk(SemanticCells[q[2]])
  BY <1>1, <1>2, <1>4 DEF SemanticInv
<1>7. \A h \in SemanticGenerations : Proceeds(h)'
  BY <1>1 DEF Proceeds, SemanticInv
<1> QED BY <1>1, <1>4, <1>5, <1>6, <1>7, ZenonT(60) DEF SemanticInv, SemanticShapes, Semantics!LateValuesAreDiscarded, Semantics!MayAsk

\* A thread that was called goes on, and one that was not does not.
LEMMA ThreadKeeps ==
    ASSUME SemanticInv, NEW r \in Requests, thread[r].state # "none", NEW state, NEW first,
           thread' = [thread EXCEPT ![r] = [state |-> state, first |-> first]]
    PROVE  /\ thread' = [q \in Requests |-> thread'[q]]
           /\ \A q \in Requests : thread'[q] = [state |-> thread'[q].state, first |-> thread'[q].first]
           /\ \A q \in Requests : thread'[q].state # "none" => Semantics!MayAsk(SemanticCells[q[2]])
<1>1. \A q \in Requests : thread'[q] = IF q = r THEN [state |-> state, first |-> first] ELSE thread[q]
  BY DEF SemanticInv, SemanticShapes
<1> QED BY <1>1 DEF SemanticInv, SemanticShapes

\* A thread puts its own answer, once, in the queue that it was started with.
LEMMA CallKeeps == ASSUME SemanticInv, NEW r \in Requests, Semantics!Call(r) PROVE SemanticInv'
<1>1. thread[r].state # "none" /\ UNCHANGED <<step, end, queue, values>>
      /\ \E state, first : thread' = [thread EXCEPT ![r] = [state |-> state, first |-> first]]
  <2>1. thread[r] = [state |-> thread[r].state, first |-> thread[r].first]
    BY DEF SemanticInv, SemanticShapes
  <2>2. ASSUME thread' = [thread EXCEPT ![r].state = "raised"]
        PROVE  thread' = [thread EXCEPT ![r] = [state |-> "raised", first |-> thread[r].first]]
    <3>1. [thread[r] EXCEPT !.state = "raised"] = [state |-> "raised", first |-> thread[r].first]
      BY <2>1
    <3> QED BY <2>2, <3>1
  <2> QED BY <2>2 DEF Semantics!Call
<1>2. \A h \in SemanticGenerations : Proceeds(h)'
  BY <1>1 DEF Proceeds, SemanticInv
<1> QED BY <1>1, <1>2, ThreadKeeps DEF SemanticInv, SemanticShapes, Semantics!LateValuesAreDiscarded, Semantics!MayAsk

\* A thread fills its own queue.
LEMMA ReplayKeeps == ASSUME SemanticInv, NEW r \in Requests, Semantics!Replay(r) PROVE SemanticInv'
<1>1. PICK found : thread[r].state # "none" /\ Semantics!Fill(r, found)
  BY DEF Semantics!Replay
<1>2. UNCHANGED <<step, end, values>>
  BY DEF Semantics!Replay
<1> DEFINE entry == [from |-> r, values |-> found]
<1>3. /\ queue' = [queue EXCEPT ![r] = entry]
      /\ thread' = [thread EXCEPT ![r] = [state |-> "ended", first |-> None]]
  BY <1>1 DEF Semantics!Fill, Semantics!QueueOf
<1>4. entry.from = r
  OBVIOUS
<1> HIDE DEF entry
<1>5. /\ queue' = [q \in Requests |-> queue'[q]]
      /\ \A q \in Requests : queue'[q] # None => queue'[q].from = q
  BY <1>3, <1>4 DEF SemanticInv, SemanticShapes
<1>6. \A h \in SemanticGenerations : Proceeds(h)'
  BY <1>2 DEF Proceeds, SemanticInv
<1>7. /\ thread' = [q \in Requests |-> thread'[q]]
      /\ \A q \in Requests : thread'[q] = [state |-> thread'[q].state, first |-> thread'[q].first]
      /\ \A q \in Requests : thread'[q].state # "none" => Semantics!MayAsk(SemanticCells[q[2]])
  BY <1>1, <1>3, ThreadKeeps
<1>8. SemanticShapes'
  BY <1>2, <1>5, <1>7 DEF SemanticInv, SemanticShapes
<1>9. Semantics!LateValuesAreDiscarded'
  BY <1>2 DEF SemanticInv, Semantics!LateValuesAreDiscarded, Semantics!MayAsk
<1> QED BY <1>5, <1>6, <1>7, <1>8, <1>9 DEF SemanticInv, Semantics!MayAsk

\* What is taken is what the thread of this cell has put.
LEMMA TakeKeeps == ASSUME SemanticInv, NEW g \in SemanticGenerations, Semantics!Take(g) PROVE SemanticInv'
<1> DEFINE r == <<g, step[g]>>
           found == queue[r]
<1>1. /\ end[g] = None /\ thread[r].state # "none" /\ found # None
      /\ queue' = [queue EXCEPT ![r] = None] /\ UNCHANGED thread
      /\ \/ \E v : Semantics!Put(g, found.from, v)
         \/ Semantics!Ends(g, "failed") /\ UNCHANGED <<step, values>>
  BY DEF Semantics!Take, Semantics!Busy, Semantics!QueueOf
<1>2. r \in Requests /\ r[2] = step[g]
  BY <1>1, CellInPlace
<1>3. found.from = r /\ Semantics!MayAsk(SemanticCells[step[g]])
  BY <1>1, <1>2 DEF SemanticInv
<1>4. /\ step' = [h \in SemanticGenerations |-> step'[h]] /\ end' = [h \in SemanticGenerations |-> end'[h]]
      /\ \E V : values' \in [SemanticGenerations -> Seq(V)]
      /\ \A h \in SemanticGenerations : Proceeds(h)'
      /\ Semantics!LateValuesAreDiscarded'
  <2>1. CASE \E v : Semantics!Put(g, found.from, v)
    BY <1>1, <1>3, <2>1, PutKeeps
  <2>2. CASE Semantics!Ends(g, "failed") /\ UNCHANGED <<step, values>>
    BY <2>2, EndsKeeps
  <2> QED BY <1>1, <2>1, <2>2
<1> HIDE DEF r, found
<1>5. /\ queue' = [q \in Requests |-> queue'[q]]
      /\ \A q \in Requests : queue'[q] # None => queue'[q].from = q
  BY <1>1, <1>2 DEF SemanticInv, SemanticShapes
<1> QED BY <1>1, <1>4, <1>5 DEF SemanticInv, SemanticShapes

\* Every step of a generation or a thread keeps it.
LEMMA SemanticStep == ASSUME SemanticInv, Semantics!Next PROVE SemanticInv'
  BY BuiltInKeeps, TimeIsUpKeeps, AskKeeps, TakeKeeps, TimeoutKeeps, CallKeeps, ReplayKeeps
  DEF Semantics!Next, Semantics!Requests, Requests

SemanticsHold == which = "semantics" => SemanticInv

\* No value that comes late, to a request that was given up, enters a data set,
\* whatever the cells, the answers, and the number of generations that share a
\* provider.
THEOREM LateValuesStayOut == SynthesisSpec => []LateValuesAreDiscarded
<1>1. SynthesisInit => SemanticsHold
  BY SemanticInit DEF SynthesisInit, SemanticsHold
<1>2. SemanticsHold /\ [SynthesisNext]_all => SemanticsHold'
  <2> SUFFICES ASSUME SemanticsHold, [SynthesisNext]_all PROVE SemanticsHold'
    OBVIOUS
  <2>1. CASE which = "semantics" /\ Semantics!Next /\ UNCHANGED which
    BY <2>1, SemanticStep DEF SemanticsHold
  <2>2. CASE which # "semantics" /\ UNCHANGED which
    BY <2>2 DEF SemanticsHold
  <2>3. CASE UNCHANGED all
    <3>1. UNCHANGED <<which, step, end, thread, queue, values>>
      BY <2>3 DEF all, shared, ofSemantics
    <3>2. \A h \in SemanticGenerations : Proceeds(h)' <=> Proceeds(h)
      BY <3>1 DEF Proceeds
    <3> QED BY <3>1, <3>2 DEF SemanticsHold, SemanticInv, SemanticShapes, Semantics!LateValuesAreDiscarded
  <2> QED BY <2>1, <2>2, <2>3 DEF SynthesisNext
<1>3. SemanticsHold => LateValuesAreDiscarded
  BY DEF SemanticsHold, SemanticInv, LateValuesAreDiscarded
<1> QED BY <1>1, <1>2, <1>3, PTL DEF SynthesisSpec

(* Bundles, for any specifications, rows and callbacks.                    *)

Late == {"applied", "checked", "reported", "published"}

\* What was declared before the first cell was drawn is so for good, and what a
\* bundle was checked for and reported on is what it is.
BundleInv ==
    /\ S \in Spec0
    /\ at \notin {"preflight", "refused"} \/ stage \in Late => \A i \in DOMAIN S.scenarios : Declared(S.scenarios[i])
    /\ stage \in {"checked", "reported", "published"} => Objection = ""
    /\ stage \in {"reported", "published"} =>
        \E off \in SUBSET ToSet(SectionNames), fast \in BOOLEAN : report = ReportOf(off, fast)

\* A bundle begins with a specification of the ones to come.
LEMMA BundleBegins == BundleInit => BundleInv
  BY DEF BundleInit, Init, BundleInv, Late

\* The specification is what it was, and no step forgets its preflight.
LEMMA GenerationKeeps ==
    ASSUME Next
    PROVE  /\ S' = S
           /\ at' \notin {"preflight", "refused"} =>
                at \notin {"preflight", "refused"} \/ \A i \in DOMAIN S.scenarios : Declared(S.scenarios[i])
<1>1. CASE Preflight
  BY <1>1 DEF Preflight, Goto, Refuse
<1>2. CASE DrawRow \/ Drew \/ Relate \/ RelateInPreview \/ Allocate \/ Reconcile \/ CommitCell \/ Committed
  BY <1>2 DEF DrawRow, Drew, Relate, RelateInPreview, Allocate, Reconcile, Preview, CommitCell, Committed,
              Proceed, Goto, Refuse
<1>3. CASE EvaluateFormulas \/ OrderDates \/ FillRequired \/ TotalChildren
  BY <1>3 DEF EvaluateFormulas, OrderDates, FillRequired, TotalChildren, Become, Proceed, Goto, Refuse
<1>4. CASE Deal \/ Obey \/ GoToTheEdge \/ Baseline \/ SkipRow \/ InjectRow \/ Audit \/ Report \/ Finish
  BY <1>4 DEF Deal, Obey, GoToTheEdge, Become, Proceed, Baseline, SkipRow, InjectRow, Audit, Report, Finish, Goto, Refuse
<1>6. CASE FollowOn
  <2>1. at \notin {"preflight", "refused"}
    BY <1>6 DEF FollowOn, AfterPass
  <2> QED BY <1>6, <2>1 DEF FollowOn, Goto
<1>5. CASE Expire
  BY <1>5 DEF Expire
<1> QED BY <1>1, <1>2, <1>3, <1>4, <1>5, <1>6 DEF Next

\* Only the specification says what is declared, only it and the rows whether
\* they are objected to.
LEMMA DeclaredStays ==
    ASSUME S' = S, NEW s PROVE Declared(s)' <=> Declared(s)
  BY DEF Declared, Unique, KeysAreFree, HasRules, EdgeKeys, Fields, Targets, Tolerant

\* An objection depends on specification and rows only.
LEMMA ObjectionStays ==
    ASSUME S' = S, D' = D PROVE Objection' = Objection
<1>1. Evidence(D)' <=> Evidence(D)
  BY DEF Evidence, ScenarioMet, ExpectedOrphans, Unique
<1>2. Sound' <=> Sound
  BY DEF Sound
<1> QED BY <1>1, <1>2 DEF Objection

\* So does a report.
LEMMA ReportStays ==
    ASSUME S' = S, D' = D, NEW off, NEW fast PROVE ReportOf(off, fast)' = ReportOf(off, fast)
<1>1. Evidence(D)' <=> Evidence(D)
  BY DEF Evidence, ScenarioMet, ExpectedOrphans, Unique
<1> QED BY <1>1 DEF ReportOf, SectionHolds, SectionNames

\* Every step keeps it; a second thought begins anew.
LEMMA BundleStep == ASSUME BundleInv, BundleNext PROVE BundleInv'
<1>1. S' = S
  BY GenerationKeeps DEF BundleNext, Generates, Apply, HandedOver, CheckAgain, Leaves, Discards, ReportOn,
                         PublishBundle, GiveUp, vars
<1>2. \A i \in DOMAIN S.scenarios : Declared(S.scenarios[i])' <=> Declared(S.scenarios[i])
  BY <1>1, DeclaredStays
<1>3. S' \in Spec0
  BY <1>1 DEF BundleInv
<1>4. CASE Generates
  <2>1. stage' = stage /\ report' = report /\ stage = "generating" /\ Next
    BY <1>4 DEF Generates
  <2> QED BY <1>1, <1>2, <1>3, <2>1, GenerationKeeps DEF BundleInv, Late
<1>5. CASE Apply
  BY <1>1, <1>2, <1>3, <1>5 DEF Apply, HandedOver, BundleInv, Late
<1>6. CASE CheckAgain
  <2>1. CASE stage' = "nothing" /\ at' = at
    BY <1>1, <1>2, <1>3, <1>6, <2>1 DEF CheckAgain, BundleInv, Late
  <2>2. CASE stage' = "checked" /\ at' = at /\ D' = D /\ Objection = ""
    BY <1>1, <1>2, <1>3, <1>6, <2>2, ObjectionStays DEF CheckAgain, BundleInv, Late
  <2> QED BY <1>6, <2>1, <2>2 DEF CheckAgain, Leaves, Discards, ObjectionNow
<1>7. CASE ReportOn
  <2>1. stage = "checked" /\ stage' = "reported" /\ at' = at /\ D' = D
    BY <1>7 DEF ReportOn, vars
  <2>2. PICK off \in SUBSET ToSet(SectionNames), fast \in BOOLEAN : report' = ReportOf(off, fast)
    BY <1>7 DEF ReportOn
  <2>3. report' = ReportOf(off, fast)'
    BY <1>1, <2>1, <2>2, ReportStays
  <2>4. ToSet(SectionNames)' = ToSet(SectionNames)
    BY DEF SectionNames
  <2> QED BY <1>1, <1>2, <1>3, <2>1, <2>3, <2>4, ObjectionStays DEF BundleInv, Late
<1>8. CASE PublishBundle
  <2>1. stage = "reported" /\ stage' = "published" /\ at' = at /\ D' = D /\ report' = report
    BY <1>8 DEF PublishBundle, Leaves
  <2>2. PICK off \in SUBSET ToSet(SectionNames), fast \in BOOLEAN : report = ReportOf(off, fast)
    BY <2>1 DEF BundleInv
  <2>3. report' = ReportOf(off, fast)'
    BY <1>1, <2>1, <2>2, ReportStays
  <2>4. ToSet(SectionNames)' = ToSet(SectionNames)
    BY DEF SectionNames
  <2> QED BY <1>1, <1>2, <1>3, <2>1, <2>3, <2>4, ObjectionStays DEF BundleInv, Late
<1>9. CASE GiveUp
  BY <1>1, <1>2, <1>3, <1>9 DEF GiveUp, Discards, BundleInv, Late
<1> QED BY <1>4, <1>5, <1>6, <1>7, <1>8, <1>9 DEF BundleNext

\* A section that did not run comes after one that failed.
LEMMA ReportTells ==
    ASSUME NEW off, NEW fast, ReportOf(off, fast).valid, S.scenarios # <<>>
    PROVE  LinksHold(S, D) /\ ConstraintsHold(S, D)
<1> DEFINE failed(k) == ~SectionHolds(SectionNames[k])
           ran == {k \in 1..4 : fast => \A j \in 1..4 : j < k => ~failed(j)}
<1>1. DOMAIN SectionNames = 1..4 /\ SectionNames[3] = "constraints"
  BY DEF SectionNames
<1>2. \A k \in ran : ~failed(k)
  BY <1>1 DEF ReportOf
<1>3. LinksHold(S, D)
  BY DEF ReportOf
<1>4. 1 \in ran
  OBVIOUS
<1>5. ~failed(1)
  BY <1>2, <1>4
<1>6. 2 \in ran
  BY <1>5
<1>7. ~failed(2)
  BY <1>2, <1>6
<1>8. 3 \in ran
  BY <1>5, <1>7
<1>9. SectionHolds("constraints")
  BY <1>1, <1>2, <1>8
<1> QED BY <1>3, <1>9 DEF SectionHolds

\* Where no parent may be missing, none is.
LEMMA EvidenceOfLinks ==
    ASSUME BundleInv, stage \in Late, ~Tolerant(S), Evidence(D) PROVE LinksHold(S, D)
<1>1. \A k \in DOMAIN S.scenarios : S.scenarios[k].orphans = 0
  <2> SUFFICES ASSUME NEW k \in DOMAIN S.scenarios PROVE S.scenarios[k].orphans = 0
    OBVIOUS
  <2>1. Declared(S.scenarios[k]) /\ S \in Spec0
    BY DEF BundleInv
  <2>2. S.scenarios[k].orphans \in Nat
    BY <2>1, OrphansAssumption
  <2>3. ~(S.scenarios[k].orphans > 0)
    BY <2>1 DEF Declared
  <2> QED BY <2>2, <2>3
<1>2. \A i \in DOMAIN S.edges : ExpectedOrphans(i) = 0
  BY <1>1 DEF ExpectedOrphans
<1> QED BY <1>2 DEF Evidence, LinksHold

\* A bundle without objections has a report that says so.
LEMMA ReportIsValid ==
    ASSUME Sound, PrivacyHolds(D), LinksHold(S, D), S.scenarios # <<>> => Evidence(D), NEW off, NEW fast
    PROVE  ReportOf(off, fast).valid
<1>1. /\ SectionHolds("schema") /\ SectionHolds("relationships")
      /\ SectionHolds("constraints") /\ SectionHolds("privacy")
  BY DEF SectionHolds, Sound
<1>2. \A k \in DOMAIN SectionNames : SectionNames[k] \in {"schema", "relationships", "constraints", "privacy"}
  BY DEF SectionNames
<1>3. \A k \in DOMAIN SectionNames : SectionHolds(SectionNames[k])
  BY <1>1, <1>2
<1> QED BY <1>3 DEF ReportOf, Sound

\* So what is published is what was checked and reported.
LEMMA BundleSound == BundleInv => BundlesAreSound
<1> SUFFICES ASSUME BundleInv, stage = "published" PROVE BundlesAreSound
  BY DEF BundlesAreSound
<1>1. Objection = "" /\ stage \in Late
  BY DEF BundleInv, Late
<1>2. PICK off, fast : report = ReportOf(off, fast)
  BY DEF BundleInv
<1>3. PrivacyHolds(D) /\ (S.scenarios # <<>> => Evidence(D)) /\ ((S.scenarios = <<>> /\ Tolerant(S)) \/ Sound)
  BY <1>1 DEF Objection
<1>4. ~Tolerant(S) => Sound /\ LinksHold(S, D)
  BY <1>1, <1>3, EvidenceOfLinks DEF Sound
<1>5. ~Tolerant(S) => report.valid
  BY <1>2, <1>3, <1>4, ReportIsValid
<1>6. S.scenarios # <<>> /\ report.valid => LinksHold(S, D) /\ ConstraintsHold(S, D)
  BY <1>2, ReportTells
<1> QED BY <1>3, <1>4, <1>5, <1>6 DEF BundlesAreSound

\* A step that is not of a bundle leaves what is known of it.
LEMMA BundleStays == ASSUME BundleInv, UNCHANGED bundleVars PROVE BundleInv'
<1>1. S' = S /\ D' = D /\ at' = at /\ stage' = stage /\ report' = report
  BY DEF bundleVars, vars
<1>2. ToSet(SectionNames)' = ToSet(SectionNames)
  BY DEF SectionNames
<1>3. (\A i \in DOMAIN S.scenarios : Declared(S.scenarios[i]))' <=> \A i \in DOMAIN S.scenarios : Declared(S.scenarios[i])
  BY <1>1, DeclaredStays
<1>4. \A off, fast : ReportOf(off, fast)' = ReportOf(off, fast)
  BY <1>1, ReportStays
<1> QED BY <1>1, <1>2, <1>3, <1>4, ObjectionStays DEF BundleInv, Late

\* A bundle is published only if the rows a callback has left are valid and tell
\* nothing personal, whatever specification, rows, callback and settings, and
\* its report is valid for the rows it is published with.
THEOREM PublishedBundlesAreSound == SynthesisSpec => []BundlesAreSound
<1>1. SynthesisInit => BundleInv
  BY BundleBegins DEF SynthesisInit
<1>2. BundleInv /\ [SynthesisNext]_all => BundleInv'
  <2> SUFFICES ASSUME BundleInv, [SynthesisNext]_all PROVE BundleInv'
    OBVIOUS
  <2>1. CASE BundleNext
    BY <2>1, BundleStep
  <2>2. CASE UNCHANGED bundleVars
    BY <2>2, BundleStays
  <2> QED BY <2>1, <2>2 DEF SynthesisNext, all
<1> QED BY <1>1, <1>2, BundleSound, PTL DEF SynthesisSpec

(* Keys that are committed as a whole, and injections that are counted.    *)

Shaped(P) ==
    /\ DOMAIN P = Tables
    /\ \A t \in Tables :
        /\ \E n \in Nat : DOMAIN P[t] = 1..n
        /\ \A i \in DOMAIN P[t] : DOMAIN P[t][i] = S.fields[t]
SameTables(P, Q) == \A t \in Tables : DOMAIN P[t] = DOMAIN Q[t]

Starting == {"preflight", "draw"}
Linked == {"formula", "temporal", "conditional", "aggregate", "deal", "obey", "edge", "baseline", "inject",
           "report", "final", "released"}
Ruled == {"deal", "obey", "edge", "baseline", "inject", "report"}
Steps == Starting \cup Linked \cup {"allocate", "commit", "relate", "refused"}

\* The rows as they are drawn.
DrawnRows ==
    /\ \A t \in Tables : D[t] \in Seq(ToSet(D[t]))
    /\ old = [t \in Tables |-> <<>>]

\* What has been committed is new, the rest as it was.
PartlyCommitted ==
    /\ Evidence(new)
    /\ pos \in Seq(KeyCells) /\ Len(pos) <= Count(KeyCells)
    /\ \A j \in 1..Len(pos) : pos[j] = SetToSeq(KeyCells)[j]
    /\ \A t \in Tables : \A i \in DOMAIN D[t] : \A f \in S.fields[t] :
        D[t][i][f] = (IF <<t, i, f>> \in ToSet(pos) THEN new ELSE old)[t][i][f]

KeysAreOld ==
    \A t \in Tables : DOMAIN old[t] = DOMAIN D[t] =>
        \A c \in KeyCells : c[1] = t => D[t][c[2]][c[3]] = old[t][c[2]][c[3]]

KeysInv ==
    /\ at \in Steps /\ Contract(S) /\ Shaped(D)
    /\ at \in Ruled => HasRules
    /\ at \in {"obey", "edge"} => pos \in Seq(DOMAIN S.rules)
    /\ at = "edge" => ~Tolerant(S)
    /\ at \in {"baseline", "inject"} => Tolerant(S)
    /\ at \in Starting => DrawnRows
    /\ at = "relate" => S.scenarios = <<>>
    /\ at \in {"allocate", "commit"} => Shaped(old) /\ Shaped(new) /\ SameTables(old, D) /\ SameTables(new, D)
    /\ at = "allocate" => D = old
    /\ at = "commit" => PartlyCommitted
    /\ at \in Linked /\ S.scenarios # <<>> => ScenariosAreMet
    /\ at = "refused" /\ S.scenarios # <<>> => ScenariosAreMet \/ KeysAreOld

\* The injections that are expected to break a rule, C in the rows P.
BrokenBy(P, c) == LocalFailures(S, c.table, P[c.table][c.row])
Counted(P, C, k) == {c \in C : k = c.case.rule \/ k \in BrokenBy(P, c)}
InjectedBy(C, t, i) == {c \in C : c.table = t /\ c.row = i}
Passed(t, i) == \E j \in DOMAIN pos : pos[j].table = t /\ pos[j].row = i
IsRuleOf(case, t) == case.rule \in DOMAIN S.rules /\ S.rules[case.rule].table = t /\ case.how # "total"

AccountsOf(P, C, counts) ==
    /\ IsFiniteSet(C)
    /\ \A c \in C : c.table \in Tables /\ c.row \in DOMAIN P[c.table] /\ IsRuleOf(c.case, c.table)
    /\ \A c \in C : \A d \in C : c.table = d.table /\ c.row = d.row => c = d
    /\ \A t \in Tables : \A i \in DOMAIN P[t] : InjectedBy(C, t, i) = {} => LocalFailures(S, t, P[t][i]) = {}
    /\ counts = [k \in DOMAIN S.rules |-> Cardinality(Counted(P, C, k))]
Accounts == AccountsOf(D, chosen, expected)

Injecting == Tolerant(S) /\ S.cross = <<>>
AccountsInv ==
    /\ at \in Steps \ {"inject", "report", "final", "released", "refused"} =>
        chosen = {} /\ expected = [k \in Indexes(S) |-> 0]
    /\ at # "refused" => why = ""
    /\ at = "refused" => why # ""
    /\ at \notin {"preflight", "refused"} \/ why = "rules" => RulesFit(S)
    /\ at = "inject" =>
        /\ pos \in Seq([table : Tables, row : Nat, turn : Nat])
        /\ Injecting => \A c \in chosen : Passed(c.table, c.row)
    /\ Injecting /\ at \in {"inject", "report"} => Accounts
    /\ Injecting /\ HasRules /\ (at \in {"final", "released"} \/ why = "rules") => Accounts
    /\ Injecting /\ HasRules /\ at \in {"final", "released"} => ExpectationsMet(S, D, expected)
    /\ Injecting /\ HasRules /\ why = "rules" => ~ExpectationsMet(S, D, expected)

GenerationInv ==
    /\ stage = "generating" <=> at # "handed"
    /\ at = "handed" => why = ""
    /\ at # "handed" => KeysInv /\ AccountsInv

-----------------------------------------------------------------------------
(* What the passes leave alone.                                            *)

\* Nothing but the fields W has been written.
WritesOnly(P, Q, W) ==
    /\ DOMAIN Q = DOMAIN P
    /\ \A t \in DOMAIN P :
        /\ DOMAIN Q[t] = DOMAIN P[t]
        /\ \A i \in DOMAIN P[t] :
            /\ DOMAIN Q[t][i] = DOMAIN P[t][i]
            /\ \A f \in DOMAIN P[t][i] : <<t, f>> \notin W => Q[t][i][f] = P[t][i][f]

\* Rows that have been written to are of the same tables and fields.
LEMMA WritesShape ==
    ASSUME NEW P, NEW Q, NEW W, Shaped(P), WritesOnly(P, Q, W) PROVE Shaped(Q) /\ SameTables(Q, P)
  BY DEF Shaped, WritesOnly, SameTables

\* Keys are linked and handed out in the field of the child.
LEMMA LinkWrites ==
    ASSUME NEW P, NEW e PROVE WritesOnly(P, Link(S, P, e), {<<e.child, e.ckey>>})
  BY DEF Link, WritesOnly

\* So are those that a scenario hands out.
LEMMA AllocatedWrites ==
    ASSUME NEW P, NEW s, NEW shuffle
    PROVE  WritesOnly(P, Allocated(s, P, shuffle), {<<S.edges[s.edge].child, S.edges[s.edge].ckey>>})
  BY DEF Allocated, WritesOnly

\* A constraint rewrites its target.
LEMMA EvaluatedWrites ==
    ASSUME NEW P, NEW c PROVE WritesOnly(P, Evaluated(S, P, c), {<<c.table, c.target>>})
  BY DEF Evaluated, Overwritten, WritesOnly

\* So does one that puts dates in order,
LEMMA OrderedWrites ==
    ASSUME NEW P, NEW c PROVE WritesOnly(P, Ordered(P, c), {<<c.table, c.target>>})
  BY DEF Ordered, Overwritten, WritesOnly

\* one that fills what is required,
LEMMA RequiredWrites ==
    ASSUME NEW P, NEW c PROVE WritesOnly(P, Required(S, P, c), {<<c.table, c.target>>})
  BY DEF Required, Overwritten, WritesOnly

\* and one that adds up the rows of children.
LEMMA TotalledWrites ==
    ASSUME NEW P, NEW c PROVE WritesOnly(P, Totalled(S, P, c), {<<c.table, c.target>>})
  BY DEF Totalled, Overwritten, WritesOnly

\* What a rule writes in the rows of its table, when it is obeyed or at an edge.
Written(r) == {r.table} \X (IF r.kind = "field" THEN {r.field} ELSE Targets(r))

\* A row that is made to obey a rule differs in what the rule writes.
LEMMA ObeyingWrites ==
    ASSUME NEW r, r.kind \in RuleKinds, NEW row
    PROVE  /\ DOMAIN Obeying(S, r, row) = DOMAIN row
           /\ \A f \in DOMAIN row : <<r.table, f>> \notin Written(r) => Obeying(S, r, row)[f] = row[f]
<1>1. CASE ~Applies(r, row)
  BY <1>1 DEF Obeying
<1>2. CASE Applies(r, row) /\ r.kind = "field"
  BY <1>2 DEF Obeying, Written
<1>3. CASE Applies(r, row) /\ r.kind = "required"
  BY <1>3 DEF Obeying, Written, Targets
<1>4. CASE Applies(r, row) /\ r.kind = "allowed"
  BY <1>4 DEF Obeying, Written, Targets
<1>5. CASE Applies(r, row) /\ r.kind = "ordering"
  BY <1>5 DEF Obeying, Written, Targets
<1>6. CASE Applies(r, row) /\ r.kind = "formula"
  BY <1>6 DEF Obeying, Written, Targets
<1> QED BY <1>1, <1>2, <1>3, <1>4, <1>5, <1>6 DEF RuleKinds

\* So do the rows of its table.
LEMMA ObedientWrites ==
    ASSUME NEW P, NEW r, r.kind \in RuleKinds PROVE WritesOnly(P, Obedient(S, P, r), Written(r))
  BY ObeyingWrites DEF Obedient, WritesOnly

\* Values at the edge are written for a rule about a field, in that field.
LEMMA EdgeWrites ==
    ASSUME NEW P, NEW r PROVE WritesOnly(P, AtTheEdge(P, r), Written(r))
<1>1. CASE r.kind # "field"
  BY <1>1 DEF AtTheEdge, WritesOnly
<1>2. CASE r.kind = "field"
  <2>1. Written(r) = {<<r.table, r.field>>}
    BY <1>2 DEF Written
  <2> QED BY <1>2, <2>1 DEF AtTheEdge, WritesOnly
<1> QED BY <1>1, <1>2

\* Choices that are dealt write fields that some choice has.
LEMMA DealtWrites ==
    ASSUME NEW P, NEW choice,
           choice \in [UNION {{t} \X (DOMAIN P[t]) : t \in DOMAIN P} -> S.weighted]
    PROVE  WritesOnly(P, Dealt(P, choice), UNION {UNION {{t} \X (DOMAIN w[t]) : t \in DOMAIN w} : w \in S.weighted})
<1> DEFINE W == UNION {UNION {{t} \X (DOMAIN w[t]) : t \in DOMAIN w} : w \in S.weighted}
           Q == Dealt(P, choice)
<1>1. ASSUME NEW t \in DOMAIN P, NEW i \in DOMAIN P[t] PROVE choice[t, i] \in S.weighted
  <2>1. <<t, i>> \in UNION {{u} \X (DOMAIN P[u]) : u \in DOMAIN P}
    OBVIOUS
  <2> QED BY <2>1
<1>2. ASSUME NEW t \in DOMAIN P, NEW i \in DOMAIN P[t], NEW f \in DOMAIN P[t][i], <<t, f>> \notin W
      PROVE  ~(t \in DOMAIN choice[t, i] /\ f \in DOMAIN choice[t, i][t])
  <2> DEFINE w == choice[t, i]
  <2>1. w \in S.weighted
    BY <1>1
  <2> SUFFICES ASSUME t \in DOMAIN w, f \in DOMAIN w[t] PROVE FALSE
    OBVIOUS
  <2> HIDE DEF w
  <2>2. <<t, f>> \in UNION {{u} \X (DOMAIN w[u]) : u \in DOMAIN w}
    OBVIOUS
  <2>3. <<t, f>> \in W
    BY <2>1, <2>2
  <2> QED BY <1>2, <2>3
<1>3. /\ DOMAIN Q = DOMAIN P
      /\ \A t \in DOMAIN P :
            /\ DOMAIN Q[t] = DOMAIN P[t]
            /\ \A i \in DOMAIN P[t] :
                /\ DOMAIN Q[t][i] = DOMAIN P[t][i]
                /\ \A f \in DOMAIN P[t][i] : Q[t][i][f] =
                    IF t \in DOMAIN choice[t, i] /\ f \in DOMAIN choice[t, i][t] THEN choice[t, i][t][f] ELSE P[t][i][f]
  <2> HIDE DEF W
  <2> QED BY DEF Dealt
<1> HIDE DEF W, Q
<1>4. WritesOnly(P, Q, W)
  <2> SUFFICES ASSUME NEW t \in DOMAIN P, NEW i \in DOMAIN P[t], NEW f \in DOMAIN P[t][i], <<t, f>> \notin W
               PROVE  Q[t][i][f] = P[t][i][f]
    <3>1. /\ DOMAIN Q = DOMAIN P
          /\ \A t \in DOMAIN P : DOMAIN Q[t] = DOMAIN P[t] /\ \A i \in DOMAIN P[t] : DOMAIN Q[t][i] = DOMAIN P[t][i]
      BY <1>3, Zenon
    <3> QED BY <3>1 DEF WritesOnly
  <2>1. ~(t \in DOMAIN choice[t, i] /\ f \in DOMAIN choice[t, i][t])
    BY <1>2
  <2>2. Q[t][i][f] = IF t \in DOMAIN choice[t, i] /\ f \in DOMAIN choice[t, i][t] THEN choice[t, i][t][f] ELSE P[t][i][f]
    <3>1. \A f_ \in DOMAIN P[t][i] : Q[t][i][f_] =
            IF t \in DOMAIN choice[t, i] /\ f_ \in DOMAIN choice[t, i][t] THEN choice[t, i][t][f_] ELSE P[t][i][f_]
      BY <1>3, Zenon
    <3> QED BY <3>1, Zenon
  <2> QED BY <2>1, <2>2, Zenon
<1> QED BY <1>4 DEF W, Q

-----------------------------------------------------------------------------
(* Keys.                                                                   *)

\* The keys of a relationship, parents' and children's.
SameKeys(P, Q, e) ==
    /\ Column(Q[e.parent], e.pkey) = Column(P[e.parent], e.pkey)
    /\ Column(Q[e.child], e.ckey) = Column(P[e.child], e.ckey)

\* A scenario is met by the keys of its relationship, whatever else is in the rows.
LEMMA ScenarioOfKeys ==
    ASSUME NEW P, NEW Q, NEW s, SameKeys(P, Q, S.edges[s.edge]), ScenarioMet(P, s) PROVE ScenarioMet(Q, s)
<1> DEFINE e == S.edges[s.edge]
<1>1. DOMAIN Q[e.child] = DOMAIN P[e.child] /\ \A i \in DOMAIN P[e.child] : Q[e.child][i][e.ckey] = P[e.child][i][e.ckey]
  <2>1. DOMAIN Column(Q[e.child], e.ckey) = DOMAIN Q[e.child] /\ DOMAIN Column(P[e.child], e.ckey) = DOMAIN P[e.child]
    BY DEF Column
  <2>2. \A i \in DOMAIN P[e.child] : Column(P[e.child], e.ckey)[i] = P[e.child][i][e.ckey]
    BY DEF Column
  <2>3. \A i \in DOMAIN Q[e.child] : Column(Q[e.child], e.ckey)[i] = Q[e.child][i][e.ckey]
    BY DEF Column
  <2>4. Column(Q[e.child], e.ckey) = Column(P[e.child], e.ckey)
    BY DEF SameKeys
  <2> HIDE DEF e
  <2> QED BY <2>1, <2>2, <2>3, <2>4
<1>2. DOMAIN Q[e.parent] = DOMAIN P[e.parent]
      /\ \A i \in DOMAIN P[e.parent] : Q[e.parent][i][e.pkey] = P[e.parent][i][e.pkey]
  <2>1. DOMAIN Column(Q[e.parent], e.pkey) = DOMAIN Q[e.parent] /\ DOMAIN Column(P[e.parent], e.pkey) = DOMAIN P[e.parent]
    BY DEF Column
  <2>2. \A i \in DOMAIN P[e.parent] : Column(P[e.parent], e.pkey)[i] = P[e.parent][i][e.pkey]
    BY DEF Column
  <2>3. \A i \in DOMAIN Q[e.parent] : Column(Q[e.parent], e.pkey)[i] = Q[e.parent][i][e.pkey]
    BY DEF Column
  <2>4. Column(Q[e.parent], e.pkey) = Column(P[e.parent], e.pkey)
    BY DEF SameKeys
  <2> HIDE DEF e
  <2> QED BY <2>1, <2>2, <2>3, <2>4
<1>3. Keys(Q, e) = Keys(P, e)
  BY DEF Keys, SameKeys
<1>4. Children(S, Q, e) = Children(S, P, e)
  <2> HIDE DEF e
  <2> QED BY <1>1 DEF Children
<1>5. Unresolved(S, Q, e) = Unresolved(S, P, e)
  <2>1. Unresolved(S, Q, e) = {i \in Children(S, P, e) : Q[e.child][i][e.ckey] \notin ToSet(Keys(P, e))}
    BY <1>3, <1>4 DEF Unresolved
  <2>2. Children(S, P, e) \in SUBSET DOMAIN P[e.child]
    BY DEF Children
  <2> HIDE DEF e
  <2> QED BY <1>1, <2>1, <2>2 DEF Unresolved
<1>6. Repeated(Q[e.parent], e.pkey) = Repeated(P[e.parent], e.pkey)
  <2> HIDE DEF e
  <2>1. {i \in DOMAIN Q[e.parent] : Q[e.parent][i][e.pkey] # Null}
            = {i \in DOMAIN P[e.parent] : P[e.parent][i][e.pkey] # Null}
    BY <1>2
  <2>2. {Q[e.parent][i][e.pkey] : i \in {j \in DOMAIN P[e.parent] : P[e.parent][j][e.pkey] # Null}}
            = {P[e.parent][i][e.pkey] : i \in {j \in DOMAIN P[e.parent] : P[e.parent][j][e.pkey] # Null}}
    BY <1>2
  <2> QED BY <2>1, <2>2 DEF Repeated
<1>7. Repeated(Q[e.child], e.ckey) = Repeated(P[e.child], e.ckey)
  <2> HIDE DEF e
  <2>1. {i \in DOMAIN Q[e.child] : Q[e.child][i][e.ckey] # Null} = {i \in DOMAIN P[e.child] : P[e.child][i][e.ckey] # Null}
    BY <1>1
  <2>2. {Q[e.child][i][e.ckey] : i \in {j \in DOMAIN P[e.child] : P[e.child][j][e.ckey] # Null}}
            = {P[e.child][i][e.ckey] : i \in {j \in DOMAIN P[e.child] : P[e.child][j][e.ckey] # Null}}
    BY <1>1
  <2> QED BY <2>1, <2>2 DEF Repeated
<1>8. \A v : {i \in DOMAIN Q[e.child] : Q[e.child][i][e.ckey] = v} = {i \in DOMAIN P[e.child] : P[e.child][i][e.ckey] = v}
  <2> HIDE DEF e
  <2> QED BY <1>1
<1>9. /\ Count(Unresolved(S, P, e)) = s.orphans
      /\ s.fanout # <<>> => /\ Repeated(P[e.parent], e.pkey) = 0
                            /\ \A i \in DOMAIN P[e.parent] : P[e.parent][i][e.pkey] # Null =>
                                 Count({j \in DOMAIN P[e.child] : P[e.child][j][e.ckey] = P[e.parent][i][e.pkey]}) = s.fanout[i]
      /\ Unique(e) => Repeated(P[e.child], e.ckey) = 0
  BY DEF ScenarioMet
<1>10. /\ Count(Unresolved(S, Q, e)) = s.orphans
       /\ s.fanout # <<>> => /\ Repeated(Q[e.parent], e.pkey) = 0
                             /\ \A i \in DOMAIN Q[e.parent] : Q[e.parent][i][e.pkey] # Null =>
                                  Count({j \in DOMAIN Q[e.child] : Q[e.child][j][e.ckey] = Q[e.parent][i][e.pkey]}) = s.fanout[i]
       /\ Unique(e) => Repeated(Q[e.child], e.ckey) = 0
  <2> HIDE DEF e
  <2>1. Count(Unresolved(S, Q, e)) = s.orphans
    BY <1>5, <1>9, Zenon
  <2>2. Unique(e) => Repeated(Q[e.child], e.ckey) = 0
    BY <1>7, <1>9, Zenon
  <2>3. ASSUME s.fanout # <<>>, NEW i \in DOMAIN Q[e.parent], Q[e.parent][i][e.pkey] # Null
        PROVE  Count({j \in DOMAIN Q[e.child] : Q[e.child][j][e.ckey] = Q[e.parent][i][e.pkey]}) = s.fanout[i]
    <3>1. i \in DOMAIN P[e.parent] /\ Q[e.parent][i][e.pkey] = P[e.parent][i][e.pkey]
      BY <1>2, <2>3
    <3>2. Count({j \in DOMAIN P[e.child] : P[e.child][j][e.ckey] = P[e.parent][i][e.pkey]}) = s.fanout[i]
      BY <1>9, <2>3, <3>1, Zenon
    <3> DEFINE v == P[e.parent][i][e.pkey]
    <3>3. {j \in DOMAIN Q[e.child] : Q[e.child][j][e.ckey] = v} = {j \in DOMAIN P[e.child] : P[e.child][j][e.ckey] = v}
      BY <1>8, Zenon
    <3>4. Count({j \in DOMAIN Q[e.child] : Q[e.child][j][e.ckey] = v}) = s.fanout[i]
      BY <3>2, <3>3, Zenon
    <3>5. Q[e.parent][i][e.pkey] = v
      BY <3>1
    <3> HIDE DEF v
    <3> QED BY <3>4, <3>5, Zenon
  <2> QED BY <1>6, <1>9, <2>1, <2>2, <2>3, Zenon
<1> QED BY <1>10 DEF ScenarioMet

\* Rows that are the same but for other fields have the same keys.
LEMMA KeysKept ==
    ASSUME NEW P, NEW Q, NEW W, NEW e, WritesOnly(P, Q, W), Shaped(P), W \cap EdgeKeys(e) = {},
           Has(S, EdgeKeys(e))
    PROVE  SameKeys(P, Q, e)
<1>1. /\ <<e.parent, e.pkey>> \in EdgeKeys(e) /\ <<e.child, e.ckey>> \in EdgeKeys(e)
      /\ e.parent \in Tables /\ e.pkey \in S.fields[e.parent] /\ e.child \in Tables /\ e.ckey \in S.fields[e.child]
  BY DEF EdgeKeys, Has, Tables
<1>2. <<e.parent, e.pkey>> \notin W /\ <<e.child, e.ckey>> \notin W
  BY <1>1
<1> QED BY <1>1, <1>2 DEF SameKeys, Column, WritesOnly, Shaped

-----------------------------------------------------------------------------
(* Passes.                                                                 *)

AllDeclared == \A i \in DOMAIN S.scenarios : Declared(S.scenarios[i])
AllMet(P) == S.scenarios # <<>> => \A i \in DOMAIN S.scenarios : ScenarioMet(P, S.scenarios[i])

\* What depends on the specification and given rows only.
LEMMA SpecStays ==
    ASSUME S' = S
    PROVE  /\ Contract(S)' <=> Contract(S)
           /\ HasRules' <=> HasRules
           /\ Tolerant(S)' <=> Tolerant(S)
           /\ RulesFit(S)' <=> RulesFit(S)
           /\ Shaped(D)' <=> Shaped(D')
           /\ Shaped(old)' <=> Shaped(old')
           /\ Shaped(new)' <=> Shaped(new')
           /\ (S.scenarios # <<>> => ScenariosAreMet)' <=> AllMet(D')
           /\ Tables' = Tables
<1>1. Tables' = Tables
  BY DEF Tables
<1>2. Contract(S)' <=> Contract(S)
  BY DEF Contract
<1>3. (HasRules' <=> HasRules) /\ (Tolerant(S)' <=> Tolerant(S)) /\ (RulesFit(S)' <=> RulesFit(S))
  BY DEF HasRules, Tolerant, RulesFit
<1>4. /\ Shaped(D)' <=> Shaped(D')
      /\ Shaped(old)' <=> Shaped(old')
      /\ Shaped(new)' <=> Shaped(new')
  BY <1>1 DEF Shaped
<1>5. (S.scenarios # <<>> => ScenariosAreMet)' <=> AllMet(D')
  BY DEF ScenariosAreMet, AllMet, ScenarioMet, Unique
<1> QED BY <1>1, <1>2, <1>3, <1>4, <1>5

\* All scenarios are met now, if there are any.
LEMMA MetNow == AllMet(D) <=> (S.scenarios # <<>> => ScenariosAreMet)
  BY DEF AllMet, ScenariosAreMet

\* What is declared has the keys of its relationship in its rows.
LEMMA DeclaredKeys ==
    ASSUME Contract(S), NEW s, Declared(s) PROVE s.edge \in DOMAIN S.edges /\ Has(S, EdgeKeys(S.edges[s.edge]))
  BY DEF Contract, Declared, EdgeKeys

\* Constraints, rules and choices write no key of a scenario.
LEMMA ConstraintsAreFree ==
    ASSUME NEW s, Declared(s), NEW i \in DOMAIN S.constraints
    PROVE  {<<S.constraints[i].table, S.constraints[i].target>>} \cap EdgeKeys(S.edges[s.edge]) = {}
<1>1. Fields(S.constraints[i]) \cap EdgeKeys(S.edges[s.edge]) = {}
  BY DEF Declared, KeysAreFree
<1>2. <<S.constraints[i].table, S.constraints[i].target>> \in Fields(S.constraints[i])
  BY DEF Fields
<1> QED BY <1>1, <1>2

\* Nor do rules,
LEMMA RulesAreFree ==
    ASSUME NEW s, Declared(s), NEW i \in DOMAIN S.rules
    PROVE  Written(S.rules[i]) \cap EdgeKeys(S.edges[s.edge]) = {}
  BY DEF Declared, KeysAreFree, Written

\* nor choices that are dealt.
LEMMA ChoicesAreFree ==
    ASSUME NEW s, Declared(s)
    PROVE  (UNION {UNION {{t} \X (DOMAIN w[t]) : t \in DOMAIN w} : w \in S.weighted}) \cap EdgeKeys(S.edges[s.edge]) = {}
<1> DEFINE W == UNION {UNION {{t} \X (DOMAIN w[t]) : t \in DOMAIN w} : w \in S.weighted}
           K == EdgeKeys(S.edges[s.edge])
<1>1. \A w \in S.weighted : \A t \in DOMAIN w : ({t} \X (DOMAIN w[t])) \cap K = {}
  BY DEF Declared, KeysAreFree
<1>2. ASSUME NEW x \in W, x \in K PROVE FALSE
  <2>1. PICK w \in S.weighted : x \in UNION {{t} \X (DOMAIN w[t]) : t \in DOMAIN w}
    OBVIOUS
  <2>2. PICK t \in DOMAIN w : x \in {t} \X (DOMAIN w[t])
    BY <2>1
  <2> HIDE DEF K
  <2> QED BY <1>1, <1>2, <2>2
<1> HIDE DEF W, K
<1>3. W \cap K = {}
  BY <1>2
<1> QED BY <1>3 DEF W, K

\* A pass that writes no key leaves the scenarios met.
LEMMA PassKeeps ==
    ASSUME Contract(S), Shaped(D), AllDeclared, AllMet(D), NEW Q, NEW W, WritesOnly(D, Q, W),
           \A i \in DOMAIN S.scenarios : W \cap EdgeKeys(S.edges[S.scenarios[i].edge]) = {}
    PROVE  Shaped(Q) /\ SameTables(Q, D) /\ AllMet(Q)
<1>1. Shaped(Q) /\ SameTables(Q, D)
  BY WritesShape
<1>2. ASSUME S.scenarios # <<>>, NEW i \in DOMAIN S.scenarios PROVE ScenarioMet(Q, S.scenarios[i])
  <2>1. Declared(S.scenarios[i])
    BY DEF AllDeclared
  <2>2. Has(S, EdgeKeys(S.edges[S.scenarios[i].edge]))
    BY <2>1, DeclaredKeys
  <2>3. SameKeys(D, Q, S.edges[S.scenarios[i].edge])
    BY <2>2, KeysKept
  <2> QED BY <1>2, <2>3, ScenarioOfKeys DEF AllMet
<1> QED BY <1>1, <1>2 DEF AllMet

\* What holds of keys while passes, rules and reports follow each other.
LEMMA LinkedGoesOn ==
    ASSUME KeysInv, S' = S, at \in Linked \cup {"relate"}, at' \in Linked \cup {"refused"}, Shaped(D'), AllMet(D'),
           at' \in Ruled => HasRules, at' \in {"obey", "edge"} => pos' \in Seq(DOMAIN S.rules),
           at' = "edge" => ~Tolerant(S), at' \in {"baseline", "inject"} => Tolerant(S)
    PROVE  KeysInv'
  BY SpecStays, Zenon DEF KeysInv, Linked, Steps, Starting, Ruled

\* A constraint's pass.
LEMMA ConstraintPasses ==
    ASSUME KeysInv, AllDeclared, at \in Linked, NEW i \in DOMAIN S.constraints, NEW Q,
           WritesOnly(D, Q, {<<S.constraints[i].table, S.constraints[i].target>>})
    PROVE  Shaped(Q) /\ AllMet(Q)
<1>1. Contract(S) /\ Shaped(D) /\ AllMet(D)
  BY MetNow DEF KeysInv
<1>2. \A j \in DOMAIN S.scenarios :
        {<<S.constraints[i].table, S.constraints[i].target>>} \cap EdgeKeys(S.edges[S.scenarios[j].edge]) = {}
  BY ConstraintsAreFree DEF AllDeclared
<1> QED BY <1>1, <1>2, PassKeeps

\* A pass for a rule.
LEMMA RulePasses ==
    ASSUME KeysInv, AllDeclared, at \in Linked, NEW i \in DOMAIN S.rules, NEW Q,
           WritesOnly(D, Q, Written(S.rules[i]))
    PROVE  Shaped(Q) /\ AllMet(Q)
<1>1. Contract(S) /\ Shaped(D) /\ AllMet(D)
  BY MetNow DEF KeysInv
<1>2. \A j \in DOMAIN S.scenarios : Written(S.rules[i]) \cap EdgeKeys(S.edges[S.scenarios[j].edge]) = {}
  BY RulesAreFree DEF AllDeclared
<1> QED BY <1>1, <1>2, PassKeeps

\* The constraint passes keep what holds of keys.
LEMMA ConstraintsKeep ==
    ASSUME KeysInv, AllDeclared, EvaluateFormulas \/ OrderDates \/ FillRequired \/ TotalChildren
    PROVE  KeysInv'
<1>1. PICK i \in DOMAIN S.constraints : \/ D' = D
                                        \/ D' = Evaluated(S, D, S.constraints[i])
                                        \/ D' = Ordered(D, S.constraints[i])
                                        \/ D' = Required(S, D, S.constraints[i])
                                        \/ D' = Totalled(S, D, S.constraints[i])
  <2>1. CASE EvaluateFormulas
    BY <2>1 DEF EvaluateFormulas, Left, Become, Refuse
  <2>2. CASE OrderDates
    BY <2>2 DEF OrderDates, Left
  <2>3. CASE FillRequired
    BY <2>3 DEF FillRequired, Left
  <2>4. CASE TotalChildren
    BY <2>4 DEF TotalChildren, Left, Become, Refuse
  <2> QED BY <2>1, <2>2, <2>3, <2>4
<1>2. /\ S' = S /\ at \in {"formula", "temporal", "conditional", "aggregate"} /\ at' \in {at, "refused"}
  <2>1. CASE EvaluateFormulas
    BY <2>1 DEF EvaluateFormulas, Become, Proceed, Refuse
  <2>2. CASE OrderDates
    BY <2>2 DEF OrderDates, Proceed
  <2>3. CASE FillRequired
    BY <2>3 DEF FillRequired, Proceed
  <2>4. CASE TotalChildren
    BY <2>4 DEF TotalChildren, Become, Proceed, Refuse
  <2> QED BY <2>1, <2>2, <2>3, <2>4
<1>3. at \in Linked
  BY <1>2 DEF Linked
<1>4. Shaped(D') /\ AllMet(D')
  <2>1. CASE D' = D
    BY <1>3, <2>1, MetNow DEF KeysInv
  <2>2. CASE D' = Evaluated(S, D, S.constraints[i])
    BY <1>3, <2>2, EvaluatedWrites, ConstraintPasses
  <2>3. CASE D' = Ordered(D, S.constraints[i])
    BY <1>3, <2>3, OrderedWrites, ConstraintPasses
  <2>4. CASE D' = Required(S, D, S.constraints[i])
    BY <1>3, <2>4, RequiredWrites, ConstraintPasses
  <2>5. CASE D' = Totalled(S, D, S.constraints[i])
    BY <1>3, <2>5, TotalledWrites, ConstraintPasses
  <2> QED BY <1>1, <2>1, <2>2, <2>3, <2>4, <2>5
<1>5. at' \in Linked \cup {"refused"} /\ at' \notin Ruled /\ at' \notin {"edge", "baseline", "inject"}
  BY <1>2 DEF Linked, Ruled
<1> QED BY <1>2, <1>3, <1>4, <1>5, LinkedGoesOn

\* So does dealing out choices.
LEMMA DealKeeps == ASSUME KeysInv, AllDeclared, Deal PROVE KeysInv'
<1>1. S' = S /\ at = "deal" /\ at' = "obey"
  BY DEF Deal, Goto
<1>2. Contract(S) /\ Shaped(D) /\ AllMet(D) /\ HasRules
  BY <1>1, MetNow DEF KeysInv, Linked, Ruled
<1>3. Shaped(D') /\ AllMet(D')
  <2>1. CASE D' = D
    BY <1>2, <2>1
  <2>2. CASE D' # D
    <3> DEFINE rows_ == UNION {{t} \X (DOMAIN D[t]) : t \in Tables}
               W == UNION {UNION {{t} \X (DOMAIN w[t]) : t \in DOMAIN w} : w \in S.weighted}
    <3>1. PICK choice \in [rows_ -> S.weighted] : D' = Dealt(D, choice)
      BY <2>2 DEF Deal
    <3>2. rows_ = UNION {{t} \X (DOMAIN D[t]) : t \in DOMAIN D}
      BY <1>2 DEF Shaped
    <3>3. WritesOnly(D, Dealt(D, choice), W)
      BY <3>1, <3>2, DealtWrites
    <3>4. \A i \in DOMAIN S.scenarios : W \cap EdgeKeys(S.edges[S.scenarios[i].edge]) = {}
      BY ChoicesAreFree DEF AllDeclared
    <3> HIDE DEF W
    <3> QED BY <1>2, <3>1, <3>3, <3>4, PassKeeps
  <2> QED BY <2>1, <2>2
<1>4. pos' \in Seq(DOMAIN S.rules)
  BY DEF Deal, Goto
<1> QED BY <1>1, <1>2, <1>3, <1>4, LinkedGoesOn DEF Linked, Ruled

\* Rules are in a list.
LEMMA RulesListed ==
    ASSUME S \in Spec0 PROVE DOMAIN S.rules = 1..Len(S.rules) /\ Len(S.rules) \in Nat
<1>1. S.rules \in Seq({r \in ToSet(S.rules) : r.kind \in RuleKinds /\ r.fields \in Seq(ToSet(r.fields))})
  BY RulesAssumption
<1> QED BY <1>1

\* A rule is of one of the kinds of rules.
LEMMA RulesAreOfKinds ==
    ASSUME S \in Spec0, NEW i \in DOMAIN S.rules 
    PROVE  S.rules[i].kind \in RuleKinds /\ S.rules[i].fields \in Seq(ToSet(S.rules[i].fields))
<1> DEFINE W == {r \in ToSet(S.rules) : r.kind \in RuleKinds /\ r.fields \in Seq(ToSet(r.fields))}
<1>1. S.rules \in Seq(W)
  BY RulesAssumption
<1>2. S.rules[i] \in W
  <2> HIDE DEF W
  <2> QED BY <1>1
<1> QED BY <1>2

\* And the rules, when they are obeyed or taken to the edge.
LEMMA RulesKeep == ASSUME S \in Spec0, KeysInv, AllDeclared, Obey \/ GoToTheEdge PROVE KeysInv'
<1>1. /\ S' = S /\ at \in {"obey", "edge"} /\ at' \in {at, "refused"} /\ Due(S.rules)
      /\ \/ D' = D
         \/ D' = Obedient(S, D, S.rules[Len(pos) + 1])
         \/ D' = AtTheEdge(D, S.rules[Len(pos) + 1])
      /\ pos' = pos \/ pos' = Append(pos, Len(pos) + 1)
  BY DEF Obey, GoToTheEdge, Become, Proceed, Refuse
<1>4. pos \in Seq(DOMAIN S.rules) /\ Len(pos) + 1 \in DOMAIN S.rules
  BY <1>1, RulesListed DEF KeysInv, Due
<1>5. pos' \in Seq(DOMAIN S.rules)
  BY <1>1, <1>4
<1>2. CASE D' = D
  <2>1. Shaped(D') /\ AllMet(D') /\ (at = "edge" => ~Tolerant(S)) /\ HasRules
    BY <1>1, <1>2, MetNow DEF KeysInv, Linked, Ruled
  <2> QED BY <1>1, <1>5, <2>1, LinkedGoesOn DEF Linked, Ruled
<1>3. CASE D' # D
  <2>1. Len(pos) + 1 \in DOMAIN S.rules
    BY <1>4
  <2>2. S.rules[Len(pos) + 1].kind \in RuleKinds
    BY <2>1, RulesAreOfKinds
  <2>3. WritesOnly(D, D', Written(S.rules[Len(pos) + 1]))
    BY <1>1, <1>3, <2>2, ObedientWrites, EdgeWrites
  <2>4. at \in Linked
    BY <1>1 DEF Linked
  <2>5. Shaped(D') /\ AllMet(D')
    BY <2>1, <2>3, <2>4, RulePasses
  <2>6. (at = "edge" => ~Tolerant(S)) /\ HasRules
    BY <1>1 DEF KeysInv, Ruled
  <2> QED BY <1>1, <1>5, <2>4, <2>5, <2>6, LinkedGoesOn DEF Linked, Ruled
<1> QED BY <1>2, <1>3

-----------------------------------------------------------------------------
(* Key cells, and rows that are drawn.                                     *)

\* A cell that is a key.
LEMMA KeyCellTells ==
    ASSUME NEW c
    PROVE  c \in KeyCells <=> \E t \in Tables : \E i \in DOMAIN D[t] : \E f \in S.fields[t] :
                c = <<t, i, f>> /\ \E e \in ToSet(S.edges) : <<t, f>> \in EdgeKeys(e)
<1> DEFINE all_ == UNION {{t} \X (DOMAIN D[t]) \X S.fields[t] : t \in Tables}
<1>1. c \in all_ <=> \E t \in Tables : \E i \in DOMAIN D[t] : \E f \in S.fields[t] : c = <<t, i, f>>
  OBVIOUS
<1>2. KeyCells = {x \in all_ : \E e \in ToSet(S.edges) : <<x[1], x[3]>> \in EdgeKeys(e)}
  BY DEF KeyCells
<1> HIDE DEF all_
<1>3. c \in KeyCells <=> c \in all_ /\ \E e \in ToSet(S.edges) : <<c[1], c[3]>> \in EdgeKeys(e)
  BY <1>2
<1>4. ASSUME c \in KeyCells
      PROVE  \E t \in Tables : \E i \in DOMAIN D[t] : \E f \in S.fields[t] :
                c = <<t, i, f>> /\ \E e \in ToSet(S.edges) : <<t, f>> \in EdgeKeys(e)
  <2>1. PICK t \in Tables : \E i \in DOMAIN D[t] : \E f \in S.fields[t] : c = <<t, i, f>>
    BY <1>1, <1>3, <1>4, Zenon
  <2>2. PICK i \in DOMAIN D[t] : \E f \in S.fields[t] : c = <<t, i, f>>
    BY <2>1, Zenon
  <2>3. PICK f \in S.fields[t] : c = <<t, i, f>>
    BY <2>2, Zenon
  <2>4. c[1] = t /\ c[3] = f
    BY <2>3
  <2> QED BY <1>3, <1>4, <2>3, <2>4, Zenon
<1>5. ASSUME NEW t \in Tables, NEW i \in DOMAIN D[t], NEW f \in S.fields[t], c = <<t, i, f>>,
             \E e \in ToSet(S.edges) : <<t, f>> \in EdgeKeys(e)
      PROVE  c \in KeyCells
  <2>1. c[1] = t /\ c[3] = f
    BY <1>5
  <2>2. c \in all_
    BY <1>1, <1>5, Zenon
  <2> QED BY <1>3, <1>5, <2>1, <2>2, Zenon
<1> QED BY <1>4, <1>5, Zenon

\* The keys of rows of the same tables are the same cells.
LEMMA KeyCellsStay == ASSUME S' = S, \A t \in Tables : DOMAIN D'[t] = DOMAIN D[t] PROVE KeyCells' = KeyCells
<1>1. Tables' = Tables
  BY DEF Tables
<1>2. ToSet(S.edges)' = ToSet(S.edges)
  BY DEF ToSet
<1>3. \A e : EdgeKeys(e)' = EdgeKeys(e)
  BY DEF EdgeKeys
<1>4. {{t} \X (DOMAIN D'[t]) \X S.fields[t] : t \in Tables} = {{t} \X (DOMAIN D[t]) \X S.fields[t] : t \in Tables}
  OBVIOUS
<1>5. KeyCells' = {c \in UNION {{t} \X (DOMAIN D'[t]) \X S.fields[t] : t \in Tables} :
                        \E e \in ToSet(S.edges) : <<c[1], c[3]>> \in EdgeKeys(e)}
  BY <1>1, <1>2, <1>3 DEF KeyCells
<1> QED BY <1>4, <1>5 DEF KeyCells

\* There are finitely many, so they can be listed.
LEMMA KeyCellsListed ==
    ASSUME S \in Spec0, Shaped(D)
    PROVE  LET q == SetToSeq(KeyCells) IN
           /\ q \in Seq(KeyCells) /\ Len(q) = Count(KeyCells) /\ Count(KeyCells) \in Nat
           /\ \A x \in KeyCells : \E i \in 1..Len(q) : q[i] = x
<1> DEFINE s == KeyCells
           n == Cardinality(s)
           q == SetToSeq(s)
           boxes == {{t} \X (DOMAIN D[t]) \X S.fields[t] : t \in Tables}
<1>1. IsFiniteSet(Tables) /\ \A t \in Tables : IsFiniteSet(S.fields[t]) /\ IsFiniteSet(DOMAIN D[t])
  BY FieldsAssumption, FS_Interval DEF Tables, Shaped
<1>2. ASSUME NEW t \in Tables PROVE IsFiniteSet({t} \X (DOMAIN D[t]) \X S.fields[t])
  <2>1. IsFiniteSet({t} \X (DOMAIN D[t]))
    BY <1>1, FS_Singleton, FS_Product
  <2>2. IsFiniteSet(({t} \X (DOMAIN D[t])) \X S.fields[t])
    BY <1>1, <2>1, FS_Product
  <2> DEFINE pairs == ({t} \X (DOMAIN D[t])) \X S.fields[t]
             triples == {t} \X (DOMAIN D[t]) \X S.fields[t]
             g == [p \in pairs |-> <<p[1][1], p[1][2], p[2]>>]
  <2>3. g \in Surjection(pairs, triples)
    <3>1. g \in [pairs -> triples]
      OBVIOUS
    <3>2. ASSUME NEW x \in triples PROVE \E p \in pairs : g[p] = x
      <4>1. <<<<x[1], x[2]>>, x[3]>> \in pairs /\ g[<<<<x[1], x[2]>>, x[3]>>] = x
        OBVIOUS
      <4> QED BY <4>1
    <3> HIDE DEF g, pairs, triples
    <3> QED BY <3>1, <3>2 DEF Surjection
  <2> HIDE DEF g, pairs, triples
  <2>4. IsFiniteSet(triples)
    BY <2>2, <2>3, FS_Surjection DEF pairs
  <2> QED BY <2>4 DEF triples
<1>3. IsFiniteSet(boxes)
  <2> DEFINE g == [t \in Tables |-> {t} \X (DOMAIN D[t]) \X S.fields[t]]
  <2>1. g \in Surjection(Tables, boxes)
    BY DEF Surjection
  <2> HIDE DEF g, boxes
  <2> QED BY <1>1, <2>1, FS_Surjection
<1>4. IsFiniteSet(UNION boxes)
  <2>1. \A b \in boxes : IsFiniteSet(b)
    BY <1>2
  <2> HIDE DEF boxes
  <2> QED BY <1>3, <2>1, FS_UNION
<1>5. IsFiniteSet(s)
  <2>1. s \in SUBSET UNION boxes
    BY DEF KeyCells
  <2> HIDE DEF s, boxes
  <2> QED BY <1>4, <2>1, FS_Subset
<1> HIDE DEF s, boxes
<1>6. n \in Nat /\ ExistsBijection(1..n, s)
  BY <1>5, FS_CardinalityType
<1>7. PICK f \in Bijection(1..n, s) : TRUE
  BY <1>6, Zenon DEF ExistsBijection
<1>8. f \in [1..n -> s] /\ IsInjective(f)
  BY <1>7, Zenon DEF Bijection, Injection, IsInjective
<1>9. q \in [1..n -> s] /\ IsInjective(q)
  BY <1>8, Zenon DEF SetToSeq
<1>10. q \in Injection(1..n, s)
  BY <1>9, Zenon DEF Injection
<1>11. q \in Surjection(1..n, s)
  <2>1. IsFiniteSet(1..n) /\ Cardinality(1..n) = n
    BY <1>6, FS_Interval
  <2> HIDE DEF q
  <2> QED BY <1>5, <1>10, <2>1, FS_Injection
<1>12. q \in Seq(s) /\ Len(q) = n
  <2> HIDE DEF q, n
  <2> QED BY <1>6, <1>9
<1>13. \A x \in s : \E i \in 1..n : q[i] = x
  <2> HIDE DEF q
  <2> QED BY <1>11 DEF Surjection
<1>14. n = Count(s)
  BY DEF Count
<1> HIDE DEF q, n
<1> QED BY <1>6, <1>12, <1>13, <1>14 DEF q, s

\* Nothing has been written while nothing but empty tables are remembered.
LEMMA NothingIsOld ==
    ASSUME Shaped(D), \/ \A t \in Tables : DOMAIN old[t] = {}
                      \/ D = old
    PROVE  KeysAreOld
<1> SUFFICES ASSUME NEW t \in Tables, DOMAIN old[t] = DOMAIN D[t], NEW c \in KeyCells, c[1] = t
             PROVE  D[t][c[2]][c[3]] = old[t][c[2]][c[3]]
  BY DEF KeysAreOld
<1>0. \E u \in Tables : \E i \in DOMAIN D[u] : \E f \in S.fields[u] :
        c = <<u, i, f>> /\ \E e \in ToSet(S.edges) : <<u, f>> \in EdgeKeys(e)
  BY KeyCellTells, Zenon
<1>1. PICK u \in Tables : \E i \in DOMAIN D[u] : \E f \in S.fields[u] : c = <<u, i, f>>
  BY <1>0
<1>2. PICK i \in DOMAIN D[u] : \E f \in S.fields[u] : c = <<u, i, f>>
  BY <1>1
<1>3. u = t
  BY <1>2
<1> QED BY <1>2, <1>3

\* Rows are drawn, one after the other, into tables that are empty at first.
LEMMA DrawKeeps == ASSUME KeysInv, Preflight \/ DrawRow \/ Drew PROVE KeysInv'
<1>0. Contract(S) /\ Shaped(D) /\ S' = S /\ at \in Starting /\ DrawnRows
  BY DEF KeysInv, Preflight, DrawRow, Drew, Goto, Refuse, Starting
<1>1. CASE Preflight
  <2>1. D' = D /\ old' = old /\ at' \in {"draw", "refused"}
    BY <1>1 DEF Preflight, Goto, Refuse
  <2>2. DrawnRows'
    BY <1>0, <2>1 DEF DrawnRows, Tables, ToSet
  <2>3. KeysAreOld'
    <3>1. KeysAreOld
      BY <1>0, NothingIsOld DEF DrawnRows
    <3>2. KeyCells' = KeyCells
      BY <1>0, <2>1, KeyCellsStay
    <3> QED BY <1>0, <2>1, <3>1, <3>2, SpecStays DEF KeysAreOld
  <2>4. Shaped(D')
    BY <1>0, <2>1
  <2> QED BY <1>0, <2>1, <2>2, <2>3, <2>4, SpecStays DEF KeysInv, Steps, Starting, Linked, Ruled
<1>2. CASE DrawRow
  <2>1. /\ at' = "draw" /\ old' = old
        /\ \E t \in Tables : \E row : DOMAIN row = S.fields[t] /\ D' = [D EXCEPT ![t] = Append(D[t], row)]
    <3>1. PICK t \in Tables : \E row \in [S.fields[t] -> UNION {Drawn(t, f, Len(D[t]) + 1) : f \in S.fields[t]}] :
                D' = [D EXCEPT ![t] = Append(D[t], row)]
      BY <1>2 DEF DrawRow
    <3>2. PICK row \in [S.fields[t] -> UNION {Drawn(t, f, Len(D[t]) + 1) : f \in S.fields[t]}] :
                D' = [D EXCEPT ![t] = Append(D[t], row)]
      BY <3>1
    <3>3. DOMAIN row = S.fields[t]
      OBVIOUS
    <3> QED BY <1>2, <3>2, <3>3 DEF DrawRow
  <2>2. PICK t \in Tables : \E row : DOMAIN row = S.fields[t] /\ D' = [D EXCEPT ![t] = Append(D[t], row)]
    BY <2>1
  <2>3. PICK row : DOMAIN row = S.fields[t] /\ D' = [D EXCEPT ![t] = Append(D[t], row)]
    BY <2>2
  <2> DEFINE V == ToSet(D[t]) \cup {row}
             more == Append(D[t], row)
  <2>4. D[t] \in Seq(V) /\ row \in V
    <3>1. D[t] \in Seq(ToSet(D[t]))
      BY <1>0 DEF DrawnRows
    <3> DEFINE W == ToSet(D[t])
    <3> HIDE DEF W
    <3>2. D[t] \in Seq(W \cup {row})
      BY <3>1 DEF W
    <3> QED BY <3>2 DEF W
  <2>5. /\ more \in Seq(V) /\ DOMAIN more = 1..(Len(D[t]) + 1) /\ Len(D[t]) \in Nat /\ DOMAIN D[t] = 1..Len(D[t])
        /\ \A i \in DOMAIN D[t] : more[i] = D[t][i]
        /\ more[Len(D[t]) + 1] = row
    <3> HIDE DEF V
    <3> QED BY <2>4
  <2>6. more \in Seq(ToSet(more))
    <3> HIDE DEF more, V
    <3> QED BY <2>5 DEF ToSet
  <2>7. \A i \in DOMAIN more : DOMAIN more[i] = S.fields[t]
    <3> HIDE DEF more, V
    <3>1. \A i \in DOMAIN D[t] : DOMAIN D[t][i] = S.fields[t]
      BY <1>0 DEF Shaped
    <3> QED BY <2>3, <2>5, <3>1
  <2> HIDE DEF more, V
  <2>8. DOMAIN D = Tables /\ DOMAIN D' = Tables /\ D'[t] = more /\ \A u \in Tables : u # t => D'[u] = D[u]
    BY <1>0, <2>3 DEF Shaped, more
  <2>9. Shaped(D')
    <3> SUFFICES ASSUME NEW u \in Tables
                 PROVE  (\E n \in Nat : DOMAIN D'[u] = 1..n) /\ \A i \in DOMAIN D'[u] : DOMAIN D'[u][i] = S.fields[u]
      BY <2>8 DEF Shaped
    <3>1. CASE u = t
      BY <2>5, <2>7, <2>8, <3>1
    <3>2. CASE u # t
      BY <1>0, <2>8, <3>2 DEF Shaped
    <3> QED BY <3>1, <3>2
  <2>10. DrawnRows'
    <3>1. \A u \in Tables : D'[u] \in Seq(ToSet(D'[u]))
      <4> SUFFICES ASSUME NEW u \in Tables PROVE D'[u] \in Seq(ToSet(D'[u]))
        OBVIOUS
      <4>1. CASE u = t
        BY <2>6, <2>8, <4>1
      <4>2. CASE u # t
        BY <1>0, <2>8, <4>2 DEF DrawnRows
      <4> QED BY <4>1, <4>2
    <3>2. \A u \in Tables : ToSet(D[u])' = ToSet(D'[u])
      BY DEF ToSet
    <3> QED BY <1>0, <2>1, <3>1, <3>2, SpecStays DEF DrawnRows
  <2> QED BY <1>0, <2>1, <2>9, <2>10, SpecStays DEF KeysInv, Steps, Starting, Linked, Ruled
<1>3. CASE Drew
  <2>1. D' = D /\ old' = D /\ new' = D /\ at' = IF S.scenarios = <<>> THEN "relate" ELSE "allocate"
    BY <1>3 DEF Drew
  <2>2. Shaped(D') /\ Shaped(old') /\ Shaped(new')
    BY <1>0, <2>1
  <2>3. SameTables(old, D)' /\ SameTables(new, D)'
    BY <2>1 DEF SameTables
  <2> QED BY <1>0, <2>1, <2>2, <2>3, SpecStays DEF KeysInv, Steps, Starting, Linked, Ruled
<1> QED BY <1>1, <1>2, <1>3

\* Without scenarios, relationships are linked in the rows themselves.
LEMMA RelateKeeps == ASSUME KeysInv, Relate PROVE KeysInv'
<1>1. S' = S /\ at = "relate" /\ S.scenarios = <<>> /\ Shaped(D) /\ at' \in {"relate", "refused"}
  BY DEF Relate, Refuse, Proceed, KeysInv
<1>2. Shaped(D')
  <2>1. D' = D \/ D' = Link(S, D, S.edges[EdgeDue])
    BY DEF Relate, Refuse
  <2> DEFINE e == S.edges[EdgeDue]
  <2>2. WritesOnly(D, Link(S, D, e), {<<e.child, e.ckey>>})
    BY LinkWrites
  <2>3. Shaped(Link(S, D, e))
    <3> HIDE DEF e
    <3> QED BY <1>1, <2>2, WritesShape
  <2> QED BY <1>1, <2>1, <2>3
<1> QED BY <1>1, <1>2, SpecStays DEF KeysInv, Steps, Starting, Linked, Ruled

\* With scenarios, in a preview: the rows are as they were drawn.
LEMMA PreviewKeeps == ASSUME KeysInv, RelateInPreview \/ Allocate PROVE KeysInv'
<1>1. /\ S' = S /\ D' = D /\ old' = old /\ at = "allocate" /\ at' \in {"allocate", "refused"} /\ D = old
      /\ Shaped(D) /\ Shaped(new) /\ SameTables(new, D) /\ Contract(S)
  BY DEF RelateInPreview, Allocate, Preview, Refuse, Proceed, KeysInv
<1>2. at' = "allocate" => Shaped(new') /\ SameTables(new', new)
  <2> SUFFICES ASSUME at' = "allocate" PROVE Shaped(new') /\ SameTables(new', new)
    OBVIOUS
  <2>1. CASE RelateInPreview
    <3>1. new' = Link(S, new, S.edges[EdgeDue])
      BY <2>1 DEF RelateInPreview, Refuse, Preview
    <3> DEFINE e == S.edges[EdgeDue]
    <3>2. WritesOnly(new, Link(S, new, e), {<<e.child, e.ckey>>})
      BY LinkWrites
    <3>3. Shaped(Link(S, new, e)) /\ SameTables(Link(S, new, e), new)
      <4> HIDE DEF e
      <4> QED BY <1>1, <3>2, WritesShape
    <3> QED BY <3>1, <3>3
  <2>2. CASE Allocate
    <3>1. PICK s \in ToSet(S.scenarios) : \E shuffle : new' = Allocated(s, new, shuffle)
      BY <2>2 DEF Allocate, Refuse, Preview
    <3>2. PICK shuffle : new' = Allocated(s, new, shuffle)
      BY <3>1
    <3>3. WritesOnly(new, Allocated(s, new, shuffle), {<<S.edges[s.edge].child, S.edges[s.edge].ckey>>})
      BY AllocatedWrites
    <3>4. Shaped(Allocated(s, new, shuffle)) /\ SameTables(Allocated(s, new, shuffle), new)
      BY <1>1, <3>3, WritesShape
    <3> QED BY <3>2, <3>4
  <2> QED BY <2>1, <2>2
<1>3. at' = "allocate" => SameTables(new, D)' /\ SameTables(old, D)'
  BY <1>1, <1>2, SpecStays DEF SameTables
<1>4. KeysAreOld'
  <2>1. KeysAreOld
    BY <1>1, NothingIsOld
  <2>2. KeyCells' = KeyCells
    BY <1>1, KeyCellsStay
  <2> QED BY <1>1, <2>1, <2>2, SpecStays DEF KeysAreOld
<1>5. Shaped(D') /\ Shaped(old')
  BY <1>1
<1> QED BY <1>1, <1>2, <1>3, <1>4, <1>5, SpecStays DEF KeysInv, Steps, Starting, Linked, Ruled

-----------------------------------------------------------------------------
(* Commits, reports and budgets.                                           *)

\* A preview that stays as it is has the same evidence.
LEMMA EvidenceStays ==
    ASSUME S' = S, new' = new PROVE Evidence(new)' <=> Evidence(new)
  BY DEF Evidence, ScenarioMet, ExpectedOrphans, Unique

\* A preview that is what the scenarios demand is committed, from nothing on.
LEMMA ReconcileKeeps == ASSUME S \in Spec0, KeysInv, Reconcile PROVE KeysInv'
<1>1. /\ S' = S /\ D' = D /\ old' = old /\ new' = new /\ at = "allocate" /\ D = old
      /\ Shaped(D) /\ Shaped(new) /\ SameTables(new, D) /\ Contract(S)
  BY DEF Reconcile, Goto, Refuse, KeysInv
<1>2. KeyCells' = KeyCells
  BY <1>1, KeyCellsStay
<1>3. Shaped(D') /\ Shaped(old') /\ Shaped(new')
  BY <1>1
<1>4. SameTables(new, D)' /\ SameTables(old, D)'
  BY <1>1, SpecStays DEF SameTables
<1>5. CASE at' = "refused"
  <2>1. KeysAreOld
    BY <1>1, NothingIsOld
  <2>2. KeysAreOld'
    BY <1>1, <1>2, <2>1, SpecStays DEF KeysAreOld
  <2> QED BY <1>1, <1>3, <1>5, <2>2, SpecStays DEF KeysInv, Steps, Starting, Linked, Ruled
<1>6. CASE at' = "commit" /\ pos' = <<>> /\ Evidence(new)
  <2>1. Evidence(new)'
    BY <1>1, <1>6, EvidenceStays
  <2>2. Count(KeyCells) \in Nat
    BY <1>1, KeyCellsListed
  <2>3. ToSet(pos)' = {} /\ Len(pos') = 0
    BY <1>6 DEF ToSet
  <2>4. PartlyCommitted'
    BY <1>1, <1>2, <1>6, <2>1, <2>2, <2>3, SpecStays DEF PartlyCommitted, Count
  <2> QED BY <1>1, <1>3, <1>4, <1>6, <2>4, SpecStays DEF KeysInv, Steps, Starting, Linked, Ruled
<1> QED BY <1>5, <1>6 DEF Reconcile, Goto, Refuse

\* One cell after the other is written.
LEMMA CommitKeeps == ASSUME S \in Spec0, KeysInv, CommitCell PROVE KeysInv'
<1>1. /\ S' = S /\ old' = old /\ new' = new /\ at = "commit" /\ at' = "commit" /\ Len(pos) < Count(KeyCells)
      /\ Shaped(D) /\ Shaped(new) /\ Shaped(old) /\ SameTables(new, D) /\ SameTables(old, D) /\ Contract(S) /\ PartlyCommitted
  BY DEF CommitCell, KeysInv
<1> DEFINE q == SetToSeq(KeyCells)
           cell == q[Len(pos) + 1]
<1>2. /\ q \in Seq(KeyCells) /\ Len(q) = Count(KeyCells) /\ Count(KeyCells) \in Nat
      /\ pos \in Seq(KeyCells) /\ \A j \in 1..Len(pos) : pos[j] = q[j]
  BY <1>1, KeyCellsListed DEF PartlyCommitted
<1>3. D' = [D EXCEPT ![cell[1]][cell[2]][cell[3]] = new[cell[1]][cell[2]][cell[3]]] /\ pos' = Append(pos, cell)
  BY DEF CommitCell
<1> HIDE DEF q
<1>4. cell \in KeyCells
  BY <1>1, <1>2
<1> HIDE DEF cell
<1>5. \E t \in Tables : \E i \in DOMAIN D[t] : \E f \in S.fields[t] :
        cell = <<t, i, f>> /\ \E e \in ToSet(S.edges) : <<t, f>> \in EdgeKeys(e)
  BY <1>4, KeyCellTells, Zenon
<1>6. PICK t \in Tables : \E i \in DOMAIN D[t] : \E f \in S.fields[t] : cell = <<t, i, f>>
  BY <1>5
<1>7. PICK i \in DOMAIN D[t] : \E f \in S.fields[t] : cell = <<t, i, f>>
  BY <1>6
<1>8. PICK f \in S.fields[t] : cell = <<t, i, f>>
  BY <1>7
<1>9. D' = [D EXCEPT ![t][i][f] = new[t][i][f]]
  BY <1>3, <1>8
<1>10. /\ DOMAIN D' = Tables
       /\ \A u \in Tables : /\ DOMAIN D'[u] = DOMAIN D[u]
                            /\ \A j \in DOMAIN D[u] : DOMAIN D'[u][j] = S.fields[u]
       /\ D'[t][i][f] = new[t][i][f]
       /\ \A u \in Tables : \A j \in DOMAIN D[u] : \A g \in S.fields[u] :
            <<u, j, g>> # <<t, i, f>> => D'[u][j][g] = D[u][j][g]
  BY <1>1, <1>9 DEF Shaped
<1>11. Shaped(D') /\ SameTables(D', D)
  BY <1>1, <1>10 DEF Shaped, SameTables
<1>12. KeyCells' = KeyCells
  BY <1>1, <1>10, KeyCellsStay
<1>13. SameTables(new, D)' /\ SameTables(old, D)'
  BY <1>1, <1>10, SpecStays DEF SameTables
<1>14. /\ pos' \in Seq(KeyCells) /\ Len(pos') = Len(pos) + 1 /\ Len(pos') <= Count(KeyCells)
       /\ \A j \in 1..Len(pos') : pos'[j] = q[j]
       /\ ToSet(pos)' = ToSet(pos) \cup {cell}
  <2>1. /\ pos' \in Seq(KeyCells) /\ Len(pos') = Len(pos) + 1 /\ Len(pos) \in Nat /\ DOMAIN pos' = 1..(Len(pos) + 1)
        /\ DOMAIN pos = 1..Len(pos)
        /\ \A j \in 1..Len(pos) : pos'[j] = pos[j]
        /\ pos'[Len(pos) + 1] = cell
    BY <1>2, <1>3, <1>4
  <2>2. ToSet(pos)' = {pos'[j] : j \in DOMAIN pos'}
    BY DEF ToSet
  <2>3. ToSet(pos) = {pos[j] : j \in DOMAIN pos}
    BY DEF ToSet
  <2>4. ToSet(pos)' = ToSet(pos) \cup {cell}
    BY <2>1, <2>2, <2>3
  <2>5. \A j \in 1..Len(pos') : pos'[j] = q[j]
    BY <1>2, <2>1 DEF cell
  <2> QED BY <1>1, <1>2, <2>1, <2>4, <2>5
<1>15. \A u \in Tables : \A j \in DOMAIN D[u] : \A g \in S.fields[u] :
        D'[u][j][g] = (IF <<u, j, g>> \in ToSet(pos) \cup {cell} THEN new ELSE old)[u][j][g]
  <2> SUFFICES ASSUME NEW u \in Tables, NEW j \in DOMAIN D[u], NEW g \in S.fields[u]
               PROVE  D'[u][j][g] = (IF <<u, j, g>> \in ToSet(pos) \cup {cell} THEN new ELSE old)[u][j][g]
    OBVIOUS
  <2>1. CASE <<u, j, g>> = <<t, i, f>>
    BY <1>8, <1>10, <2>1
  <2>2. CASE <<u, j, g>> # <<t, i, f>>
    <3>1. D[u][j][g] = (IF <<u, j, g>> \in ToSet(pos) THEN new ELSE old)[u][j][g]
      BY <1>1 DEF PartlyCommitted
    <3>2. D'[u][j][g] = D[u][j][g]
      BY <1>10, <2>2
    <3> QED BY <1>8, <2>2, <3>1, <3>2
  <2> QED BY <2>1, <2>2
<1>16. Evidence(new)'
  <2>1. Evidence(new)
    BY <1>1 DEF PartlyCommitted
  <2> QED BY <1>1, <2>1, EvidenceStays
<1>17. SetToSeq(KeyCells)' = q
  BY <1>12 DEF q
<1>18. PartlyCommitted'
  BY <1>1, <1>10, <1>12, <1>14, <1>15, <1>16, <1>17, SpecStays DEF PartlyCommitted, Count
<1> QED BY <1>1, <1>11, <1>13, <1>18, SpecStays DEF KeysInv, Steps, Starting, Linked, Ruled

\* When all are written, the rows have the keys of the preview.
LEMMA CommittedKeeps == ASSUME S \in Spec0, KeysInv, AllDeclared, Committed PROVE KeysInv'
<1>1. /\ S' = S /\ D' = D /\ at = "commit" /\ at' = "formula" /\ Len(pos) = Count(KeyCells)
      /\ Shaped(D) /\ SameTables(new, D) /\ Contract(S) /\ PartlyCommitted
  BY DEF Committed, Goto, KeysInv
<1> DEFINE q == SetToSeq(KeyCells)
<1>2. /\ Len(q) = Count(KeyCells) /\ \A x \in KeyCells : \E i \in 1..Len(q) : q[i] = x
      /\ pos \in Seq(KeyCells) /\ \A j \in 1..Len(pos) : pos[j] = q[j]
  BY <1>1, KeyCellsListed DEF PartlyCommitted
<1>3. \A x \in KeyCells : x \in ToSet(pos)
  <2> HIDE DEF q
  <2> QED BY <1>1, <1>2 DEF ToSet
<1>4. ASSUME NEW e \in ToSet(S.edges), NEW t \in Tables, NEW f \in S.fields[t], <<t, f>> \in EdgeKeys(e),
             NEW i \in DOMAIN D[t]
      PROVE  D[t][i][f] = new[t][i][f]
  <2>1. <<t, i, f>> \in KeyCells
    BY <1>4, KeyCellTells, Zenon
  <2>2. <<t, i, f>> \in ToSet(pos)
    BY <1>3, <2>1
  <2> QED BY <1>1, <2>2 DEF PartlyCommitted
<1>5. ASSUME S.scenarios # <<>>, NEW k \in DOMAIN S.scenarios PROVE ScenarioMet(D, S.scenarios[k])
  <2> DEFINE e == S.edges[S.scenarios[k].edge]
  <2>1. S.scenarios[k].edge \in DOMAIN S.edges /\ Has(S, EdgeKeys(e))
    BY <1>1, DeclaredKeys DEF AllDeclared
  <2>2. e \in ToSet(S.edges)
    BY <2>1 DEF ToSet
  <2>3. /\ e.parent \in Tables /\ e.pkey \in S.fields[e.parent] /\ e.child \in Tables /\ e.ckey \in S.fields[e.child]
        /\ <<e.parent, e.pkey>> \in EdgeKeys(e) /\ <<e.child, e.ckey>> \in EdgeKeys(e)
    <3>1. \A n \in EdgeKeys(e) : n[1] \in Tables /\ n[2] \in S.fields[n[1]]
      BY <2>1 DEF Has, Tables
    <3>2. <<e.parent, e.pkey>> \in EdgeKeys(e) /\ <<e.child, e.ckey>> \in EdgeKeys(e)
      BY DEF EdgeKeys
    <3> HIDE DEF e
    <3> QED BY <3>1, <3>2
  <2>4. SameKeys(new, D, e)
    <3> HIDE DEF e
    <3>1. DOMAIN new[e.parent] = DOMAIN D[e.parent] /\ DOMAIN new[e.child] = DOMAIN D[e.child]
      BY <1>1, <2>3 DEF SameTables
    <3>2. \A i \in DOMAIN D[e.parent] : D[e.parent][i][e.pkey] = new[e.parent][i][e.pkey]
      BY <1>4, <2>2, <2>3
    <3>3. \A i \in DOMAIN D[e.child] : D[e.child][i][e.ckey] = new[e.child][i][e.ckey]
      BY <1>4, <2>2, <2>3
    <3> QED BY <3>1, <3>2, <3>3 DEF SameKeys, Column
  <2>5. ScenarioMet(new, S.scenarios[k])
    BY <1>1 DEF PartlyCommitted, Evidence
  <2> QED BY <2>4, <2>5, ScenarioOfKeys
<1>6. AllMet(D') /\ Shaped(D')
  BY <1>1, <1>5 DEF AllMet
<1> QED BY <1>1, <1>6, SpecStays DEF KeysInv, Steps, Starting, Linked, Ruled

\* Rules are never broken where keys are given by a scenario.
LEMMA NothingIsInjected == ASSUME KeysInv, AllDeclared, InjectRow PROVE S.scenarios = <<>> \/ DOMAIN S.scenarios = {}
<1> SUFFICES ASSUME NEW i \in DOMAIN S.scenarios PROVE FALSE
  OBVIOUS
<1>1. S.ratio = 0 /\ ~(HasRules /\ S.mode = "negative")
  BY DEF AllDeclared, Declared
<1>2. HasRules /\ (S.mode = "negative" \/ S.ratio > 0)
  BY DEF InjectRow, KeysInv, Ruled
<1> QED BY <1>1, <1>2

\* A row that violates a rule has the fields that it had.
LEMMA ViolatingKeeps == ASSUME NEW P, NEW t, NEW row, NEW case PROVE DOMAIN Violating(S, P, t, row, case) = DOMAIN row
  BY DEF Violating, Forced

\* Only an injection writes, among the steps that look at the rules.
LEMMA InjectKeeps == ASSUME KeysInv, AllDeclared, InjectRow PROVE KeysInv'
<1>1. S' = S /\ at = "inject" /\ at' = "inject" /\ Shaped(D) /\ HasRules /\ Tolerant(S)
  BY DEF InjectRow, KeysInv, Ruled
<1>2. PICK r \in Waiting : \E c \in 1..Len(Cases(S, r[1])) : Inject(r[1], r[2], Cases(S, r[1])[c])
  BY DEF InjectRow
<1>3. PICK c \in 1..Len(Cases(S, r[1])) : Inject(r[1], r[2], Cases(S, r[1])[c])
  BY <1>2
<1> DEFINE row == Violating(S, D, r[1], D[r[1]][r[2]], Cases(S, r[1])[c])
<1>4. D' = [D EXCEPT ![r[1]][r[2]] = row]
  BY <1>3 DEF Inject
<1>5. DOMAIN row = DOMAIN D[r[1]][r[2]]
  BY ViolatingKeeps
<1> HIDE DEF row
<1>6. Shaped(D')
  BY <1>1, <1>4, <1>5 DEF Shaped
<1>7. AllMet(D')
  BY NothingIsInjected DEF AllMet
<1> QED BY <1>1, <1>6, <1>7, LinkedGoesOn DEF Linked, Ruled

\* Steps that look at the rules, pass a row by or validate write nothing.
LEMMA ReportsKeep == ASSUME KeysInv, Baseline \/ SkipRow \/ Audit \/ Report \/ Finish PROVE KeysInv'
<1>1. S' = S /\ D' = D /\ at \in {"baseline", "inject", "report", "final"}
  BY DEF Baseline, SkipRow, Audit, Report, Finish, Goto, Refuse
<1>2. at' \in {"inject", "report", "final", "released", "refused"}
  BY DEF Baseline, SkipRow, Audit, Report, Finish, Goto, Refuse
<1>3. at' \in Ruled => HasRules /\ (at' = "inject" => Tolerant(S))
  BY DEF Baseline, SkipRow, Audit, Report, Finish, Goto, Refuse, KeysInv, Ruled
<1>4. Shaped(D') /\ AllMet(D')
  BY <1>1, MetNow DEF KeysInv, Linked
<1> QED BY <1>1, <1>2, <1>3, <1>4, LinkedGoesOn DEF Linked, Ruled

\* The pass that follows finds what it needs.
LEMMA FollowOnKeeps == ASSUME KeysInv, FollowOn PROVE KeysInv'
<1>1. S' = S /\ D' = D /\ at' = AfterPass /\ AfterPass # at /\ pos' = <<>>
  BY DEF FollowOn, Goto
<1>2. at \in {"relate", "formula", "temporal", "conditional", "aggregate", "obey", "edge"}
  BY <1>1 DEF AfterPass
<1>3. /\ at' \in {"formula", "temporal", "conditional", "aggregate", "deal", "final", "baseline", "edge", "report"}
      /\ at' = "deal" => HasRules
      /\ at' \in {"baseline", "edge", "report"} => at \in {"obey", "edge"}
      /\ at' = "edge" => ~Tolerant(S)
      /\ at' = "baseline" => Tolerant(S)
  <2>1. CASE at = "relate"
    BY <1>1, <2>1 DEF AfterPass
  <2>2. CASE at = "formula"
    BY <1>1, <2>2 DEF AfterPass
  <2>3. CASE at = "temporal"
    BY <1>1, <2>3 DEF AfterPass
  <2>4. CASE at = "conditional"
    BY <1>1, <2>4 DEF AfterPass
  <2>5. CASE at = "aggregate"
    BY <1>1, <2>5 DEF AfterPass
  <2>6. CASE at = "obey"
    BY <1>1, <2>6 DEF AfterPass, Tolerant
  <2>7. CASE at = "edge"
    BY <1>1, <2>7 DEF AfterPass
  <2> QED BY <1>2, <2>1, <2>2, <2>3, <2>4, <2>5, <2>6, <2>7
<1>4. at' \in Ruled => HasRules
  BY <1>3 DEF KeysInv, Ruled
<1>5. Shaped(D') /\ AllMet(D')
  BY <1>1, <1>2, MetNow DEF KeysInv, Linked, AllMet
<1>6. pos' \in Seq(DOMAIN S.rules)
  BY <1>1
<1> QED BY <1>1, <1>2, <1>3, <1>4, <1>5, <1>6, LinkedGoesOn DEF Linked, Ruled

\* A budget that expires leaves the keys as they were, or as they are demanded.
LEMMA ExpireKeeps == ASSUME S \in Spec0, KeysInv, Expire PROVE KeysInv'
<1>1. S' = S /\ old' = old /\ at \in Steps \ {"released", "refused"} /\ at' = "refused" /\ Shaped(D) /\ Contract(S)
      /\ D' = IF at = "commit" THEN old ELSE D
  BY DEF Expire, RolledBack, KeysInv
<1>2. CASE at = "commit"
  <2>1. D' = old /\ Shaped(D') /\ \A t \in Tables : DOMAIN D'[t] = DOMAIN D[t]
    BY <1>1, <1>2 DEF KeysInv, SameTables
  <2>2. KeysAreOld'
    BY <1>1, <2>1 DEF KeysAreOld
  <2> QED BY <1>1, <2>1, <2>2, SpecStays DEF KeysInv, Steps, Starting, Linked, Ruled
<1>3. CASE at \in Starting \cup {"allocate"}
  <2>1. D' = D /\ Shaped(D')
    BY <1>1, <1>3 DEF Starting
  <2>2. KeysAreOld
    BY <1>1, <1>3, NothingIsOld DEF KeysInv, DrawnRows
  <2>3. KeyCells' = KeyCells
    BY <1>1, <2>1, KeyCellsStay
  <2>4. KeysAreOld'
    BY <1>1, <2>1, <2>2, <2>3, SpecStays DEF KeysAreOld
  <2> QED BY <1>1, <2>1, <2>4, SpecStays DEF KeysInv, Steps, Starting, Linked, Ruled
<1>4. CASE at \in Linked \cup {"relate"}
  <2>1. D' = D /\ Shaped(D') /\ AllMet(D')
    BY <1>1, <1>4, MetNow DEF KeysInv, Linked, AllMet
  <2> QED BY <1>1, <1>4, <2>1, LinkedGoesOn DEF Linked, Ruled
<1> QED BY <1>1, <1>2, <1>3, <1>4 DEF Steps

\* Every step of a generation keeps it.
LEMMA KeysStep ==
    ASSUME S \in Spec0, KeysInv, at \notin {"preflight", "refused"} => AllDeclared, Next PROVE KeysInv'
<1>1. CASE Preflight \/ DrawRow \/ Drew
  BY <1>1, DrawKeeps
<1>2. CASE Relate \/ RelateInPreview \/ Allocate \/ Reconcile \/ CommitCell
  BY <1>2, RelateKeeps, PreviewKeeps, ReconcileKeeps, CommitKeeps
<1>3. CASE Committed
  BY <1>3, CommittedKeeps DEF Committed
<1>4. CASE EvaluateFormulas \/ OrderDates \/ FillRequired \/ TotalChildren
  BY <1>4, ConstraintsKeep DEF EvaluateFormulas, OrderDates, FillRequired, TotalChildren
<1>5. CASE Deal \/ Obey \/ GoToTheEdge \/ InjectRow
  BY <1>5, DealKeeps, RulesKeep, InjectKeeps DEF Deal, Obey, GoToTheEdge, InjectRow
<1>6. CASE FollowOn \/ Baseline \/ SkipRow \/ Audit \/ Report \/ Finish
  BY <1>6, FollowOnKeeps, ReportsKeep
<1>7. CASE Expire
  BY <1>7, ExpireKeeps
<1> QED BY <1>1, <1>2, <1>3, <1>4, <1>5, <1>6, <1>7 DEF Next

FlattensTo(q, g) == g = [i \in 1..Len(q) |-> IF i = 1 THEN q[i] ELSE g[i - 1] \o q[i]]
Flattened(q) == CHOOSE g : FlattensTo(q, g)

\* The flattened list is the last of the lists that grow towards it.
LEMMA FlattenIsLast == ASSUME NEW q, Len(q) # 0 PROVE FlattenSeq(q) = Flattened(q)[Len(q)]
  BY DEF FlattenSeq, Flattened, FlattensTo

\* What is flattened is a list of what the lists have.
LEMMA FlattenTells ==
    ASSUME NEW V, NEW q \in Seq(Seq(V)) PROVE FlattenSeq(q) \in Seq(V)
<1> DEFINE n == Len(q)
           V2 == Seq(V)
           Fits(g, m) == \A i \in 1..m : g[i] = IF i = 1 THEN q[i] ELSE g[i - 1] \o q[i]
           T == {m \in Nat : m <= n => \E g \in [1..m -> V2] : Fits(g, m)}
<1>1. n \in Nat /\ \A i \in 1..n : q[i] \in Seq(V)
  OBVIOUS
<1>2. 0 \in T
  <2>1. [i \in 1..0 |-> q[i]] \in [1..0 -> V2] /\ Fits([i \in 1..0 |-> q[i]], 0)
    OBVIOUS
  <2> HIDE DEF Fits, V2
  <2> QED BY <2>1
<1>3. ASSUME NEW m \in Nat, m \in T PROVE m + 1 \in T
  <2> SUFFICES ASSUME m + 1 <= n PROVE \E g \in [1..(m + 1) -> V2] : Fits(g, m + 1)
    <3> HIDE DEF Fits, V2, n
    <3> QED OBVIOUS
  <2>0. m <= n
    BY <1>1
  <2>1. PICK g \in [1..m -> V2] : Fits(g, m)
    <3> HIDE DEF Fits, V2, n
    <3> QED BY <1>3, <2>0
  <2> DEFINE x == IF m + 1 = 1 THEN q[m + 1] ELSE g[m] \o q[m + 1]
             h == [i \in 1..(m + 1) |-> IF i = m + 1 THEN x ELSE g[i]]
  <2>2. x \in V2
    <3>1. q[m + 1] \in Seq(V)
      BY <1>1
    <3>2. CASE m + 1 = 1
      BY <3>1, <3>2
    <3>3. CASE m + 1 # 1
      <4>1. g[m] \in Seq(V)
        BY <2>1, <3>3
      <4>2. g[m] \o q[m + 1] \in Seq(V)
        BY <3>1, <4>1
      <4> QED BY <3>3, <4>2
    <3> QED BY <3>2, <3>3
  <2> HIDE DEF x, V2
  <2>3. h \in [1..(m + 1) -> V2]
    BY <2>1, <2>2
  <2>4. h[m + 1] = x /\ \A i \in 1..m : h[i] = g[i]
    OBVIOUS
  <2> HIDE DEF h
  <2>5. ASSUME NEW i \in 1..(m + 1) PROVE h[i] = IF i = 1 THEN q[i] ELSE h[i - 1] \o q[i]
    <3>1. CASE i = m + 1
      <4>1. m + 1 # 1 => h[m] = g[m]
        BY <2>4
      <4> QED BY <2>4, <3>1, <4>1 DEF x
    <3>2. CASE i \in 1..m
      <4>1. g[i] = IF i = 1 THEN q[i] ELSE g[i - 1] \o q[i]
        BY <2>1, <3>2
      <4>2. i # 1 => i - 1 \in 1..m
        BY <3>2
      <4> QED BY <2>4, <3>2, <4>1, <4>2
    <3> QED BY <3>1, <3>2
  <2> QED BY <2>3, <2>5
<1>4. n \in T
  <2> HIDE DEF T
  <2>1. \A m \in Nat : m \in T
    BY <1>2, <1>3, Induction
  <2> QED BY <1>1, <2>1
<1>5. PICK g \in [1..n -> V2] : Fits(g, n)
  BY <1>1, <1>4
<1>6. FlattensTo(q, g)
  <2>1. g = [i \in 1..n |-> g[i]]
    BY <1>5
  <2> QED BY <1>5, <2>1 DEF FlattensTo
<1> DEFINE h == Flattened(q)
<1>7. FlattensTo(q, h)
  BY <1>6, Zenon DEF Flattened
<1>8. \A i \in 1..n : h[i] = IF i = 1 THEN q[i] ELSE h[i - 1] \o q[i]
  <2> HIDE DEF h
  <2> QED BY <1>7 DEF FlattensTo
<1> DEFINE T2 == {i \in Nat : i \in 1..n => h[i] \in Seq(V)}
<1> HIDE DEF h
<1>9. ASSUME NEW i \in Nat, i \in T2 PROVE i + 1 \in T2
  <2> SUFFICES ASSUME i + 1 \in 1..n PROVE h[i + 1] \in Seq(V)
    OBVIOUS
  <2>1. q[i + 1] \in Seq(V) /\ h[i + 1] = IF i + 1 = 1 THEN q[i + 1] ELSE h[(i + 1) - 1] \o q[i + 1]
    BY <1>1, <1>8
  <2>2. CASE i = 0
    BY <2>1, <2>2
  <2>3. CASE i # 0
    <3>1. h[i] \in Seq(V) /\ (i + 1) - 1 = i /\ i + 1 # 1
      BY <1>9, <2>3
    <3>2. h[i] \o q[i + 1] \in Seq(V)
      BY <2>1, <3>1
    <3> QED BY <2>1, <3>1, <3>2
  <2> QED BY <2>2, <2>3
<1>10. \A i \in Nat : i \in T2
  <2>1. 0 \in T2
    OBVIOUS
  <2> HIDE DEF T2
  <2> QED BY <1>9, <2>1, Induction
<1>11. CASE n = 0
  <2>1. q = <<>> /\ FlattenSeq(q) = q
    BY <1>11 DEF FlattenSeq
  <2>2. <<>> \in Seq(V)
    OBVIOUS
  <2> QED BY <2>1, <2>2, Zenon
<1>12. CASE n # 0
  <2>1. FlattenSeq(q) = h[n]
    BY <1>12, FlattenIsLast DEF h
  <2>2. n \in T2 /\ n \in 1..n
    BY <1>1, <1>10, <1>12
  <2> QED BY <2>1, <2>2
<1> QED BY <1>11, <1>12

-----------------------------------------------------------------------------
(* Cases that may be injected.                                             *)

Hows == {"missing", "outside", "below", "above", "early", "perturbed"}
CasesOf(t) ==
    {Case(k, how, f) : k \in {j \in DOMAIN S.rules : S.rules[j].table = t}, how \in Hows,
                       f \in UNION {{S.rules[j].field} \cup ToSet(S.rules[j].fields) : j \in DOMAIN S.rules}}

\* A rule is broken by cases of its own.
LEMMA LocalCasesTell ==
    ASSUME S \in Spec0, NEW t, NEW k \in DOMAIN S.rules, S.rules[k].table = t
    PROVE  LocalCases(S.rules[k], k) \in Seq(CasesOf(t))
<1> DEFINE r == S.rules[k]
           V == CasesOf(t)
<1>1. r.kind \in RuleKinds /\ r.fields \in Seq(ToSet(r.fields))
  BY RulesAreOfKinds
<1>2. \A how \in Hows : \A f \in {r.field} \cup ToSet(r.fields) : Case(k, how, f) \in V
  <2> SUFFICES ASSUME NEW how \in Hows, NEW f \in {r.field} \cup ToSet(r.fields) PROVE Case(k, how, f) \in V
    OBVIOUS
  <2> DEFINE F == UNION {{S.rules[j].field} \cup ToSet(S.rules[j].fields) : j \in DOMAIN S.rules}
             N == {j \in DOMAIN S.rules : S.rules[j].table = t}
  <2>1. k \in N
    OBVIOUS
  <2>2. f \in F
    OBVIOUS
  <2> HIDE DEF F, N
  <2>3. \E j \in N, h \in Hows, g \in F : Case(k, how, f) = Case(j, h, g)
    BY <2>1, <2>2, Zenon
  <2> QED BY <2>3 DEF CasesOf, F, N
<1>3. \A how \in Hows : Case(k, how, r.field) \in V
  BY <1>2
<1> HIDE DEF V
<1>4. CASE r.kind = "field"
  <2> DEFINE a == IF r.required THEN <<Case(k, "missing", r.field)>> ELSE <<>>
             b == IF r.allowed # <<>> THEN <<Case(k, "outside", r.field)>> ELSE <<>>
             c == IF r.min # Null THEN <<Case(k, "below", r.field)>> ELSE <<>>
             d == IF r.max # Null THEN <<Case(k, "above", r.field)>> ELSE <<>>
  <2>1. a \in Seq(V) /\ b \in Seq(V) /\ c \in Seq(V) /\ d \in Seq(V)
    <3>1. Case(k, "missing", r.field) \in V /\ Case(k, "outside", r.field) \in V
          /\ Case(k, "below", r.field) \in V /\ Case(k, "above", r.field) \in V
      BY <1>3 DEF Hows
    <3> QED BY <3>1
  <2>2. LocalCases(r, k) = a \o b \o c \o d
    BY <1>4, Zenon DEF LocalCases
  <2> HIDE DEF a, b, c, d
  <2>3. a \o b \in Seq(V)
    BY <2>1
  <2>4. (a \o b) \o c \in Seq(V)
    BY <2>1, <2>3
  <2>5. ((a \o b) \o c) \o d \in Seq(V)
    BY <2>1, <2>4
  <2> QED BY <2>2, <2>5 DEF V
<1>5. CASE r.kind = "required"
  <2>1. LocalCases(r, k) = [i \in DOMAIN r.fields |-> Case(k, "missing", r.fields[i])]
    BY <1>5 DEF LocalCases
  <2>2. DOMAIN r.fields = 1..Len(r.fields) /\ Len(r.fields) \in Nat
    BY <1>1
  <2>3. \A i \in DOMAIN r.fields : Case(k, "missing", r.fields[i]) \in V
    BY <1>2 DEF Hows, ToSet
  <2> DEFINE m == Len(r.fields)
             g == [i \in DOMAIN r.fields |-> Case(k, "missing", r.fields[i])]
  <2>4. g \in [1..m -> V]
    BY <2>2, <2>3
  <2> HIDE DEF g, m
  <2>5. g \in Seq(V)
    BY <2>2, <2>4 DEF m
  <2> QED BY <2>1, <2>5 DEF g, V
<1>6. CASE r.kind \in {"allowed", "ordering", "formula"}
  <2>1. \E how \in Hows : LocalCases(r, k) = <<Case(k, how, r.field)>>
    BY <1>6 DEF LocalCases, Hows
  <2> QED BY <1>3, <2>1 DEF V
<1> QED BY <1>1, <1>4, <1>5, <1>6 DEF RuleKinds

\* Where no rule is about several rows, a case is one of a rule of the table.
LEMMA CasesTell ==
    ASSUME S \in Spec0, S.cross = <<>>, NEW t, NEW c \in 1..Len(Cases(S, t))
    PROVE  IsRuleOf(Cases(S, t)[c], t)
<1> DEFINE of(r, k) == IF r.table = t THEN LocalCases(r, k) ELSE <<>>
           cross(r, k) == IF r.table # t THEN <<>>
                          ELSE <<Case(k, IF r.kind = "foreign" THEN "orphan" ELSE "total", r.field)>>
           p == [k \in DOMAIN S.rules |-> of(S.rules[k], k)]
           q == [k \in DOMAIN S.cross |-> cross(S.cross[k], Len(S.rules) + k)]
           V == CasesOf(t)
           V2 == Seq(V)
<1>1. Cases(S, t) = FlattenSeq(p) \o FlattenSeq(q)
  BY Zenon DEF Cases
<1>2. p \in Seq(Seq(V))
  <2>1. \A k \in DOMAIN S.rules : of(S.rules[k], k) \in V2
    <3> SUFFICES ASSUME NEW k \in DOMAIN S.rules PROVE of(S.rules[k], k) \in V2
      OBVIOUS
    <3>1. CASE S.rules[k].table = t
      BY <3>1, LocalCasesTell
    <3>2. CASE S.rules[k].table # t
      BY <3>2
    <3> QED BY <3>1, <3>2
  <2>2. DOMAIN S.rules = 1..Len(S.rules) /\ Len(S.rules) \in Nat
    BY RulesListed
  <2> DEFINE n == Len(S.rules)
  <2> HIDE DEF of, V2
  <2>3. p \in [1..n -> V2]
    BY <2>1, <2>2
  <2> HIDE DEF p, n
  <2>4. p \in Seq(V2)
    BY <2>2, <2>3 DEF n
  <2> QED BY <2>4 DEF V2
<1>3. q \in Seq(Seq(V))
  <2>1. DOMAIN S.cross = 1..0
    OBVIOUS
  <2> HIDE DEF V
  <2> QED BY <2>1
<1>4. Cases(S, t) \in Seq(V)
  <2> HIDE DEF p, q, V
  <2>1. FlattenSeq(p) \in Seq(V) /\ FlattenSeq(q) \in Seq(V)
    BY <1>2, <1>3, FlattenTells
  <2> QED BY <1>1, <2>1
<1>5. Cases(S, t)[c] \in V
  <2> HIDE DEF V
  <2> QED BY <1>4
<1>6. \A x \in V : IsRuleOf(x, t)
  BY DEF CasesOf, IsRuleOf, Case, Hows
<1> QED BY <1>5, <1>6

-----------------------------------------------------------------------------
(* Counts and rows.                                                        *)

\* A rule that fails is about a table of the specification.
LEMMA FailingTable ==
    ASSUME S \in Spec0, RulesFit(S), NEW k \in DOMAIN S.rules, NEW row, Fails(S.rules[k], row)
    PROVE  S.rules[k].table \in Tables
<1> DEFINE r == S.rules[k]
           starts == IF r.kind = "ordering" THEN {r.start} ELSE {}
           names_ == {r.table} \X (starts \cup ToSet(r.fields) \cup r.terms \cup {c.field : c \in r.when})
<1>1. Has(S, names_) /\ (r.kind # "required" => Has(S, {<<r.table, r.field>>}))
  BY Zenon DEF RulesFit
<1>2. CASE r.kind # "required"
  BY <1>1, <1>2 DEF Has, Tables
<1>3. CASE r.kind = "required"
  <2>1. PICK f \in ToSet(r.fields) : row[f] = Null
    BY <1>3 DEF Fails
  <2>2. <<r.table, f>> \in names_
    OBVIOUS
  <2> HIDE DEF names_
  <2>3. <<r.table, f>>[1] \in DOMAIN S.fields
    BY <1>1, <2>2, Zenon DEF Has
  <2> QED BY <2>3 DEF Tables
<1> QED BY <1>2, <1>3

\* The rules that a row fails are those of its table.
LEMMA LocalFailuresTell ==
    ASSUME NEW t, NEW row, NEW k
    PROVE  k \in LocalFailures(S, t, row) <=> k \in DOMAIN S.rules /\ S.rules[k].table = t /\ Fails(S.rules[k], row)
  BY DEF LocalFailures

\* Where no rule is about several rows, the report has the rules about one.
LEMMA IndexesAreRules ==
    ASSUME S \in Spec0, S.cross = <<>> PROVE Indexes(S) = DOMAIN S.rules /\ \A k \in DOMAIN S.rules : k <= Len(S.rules)
<1>1. DOMAIN S.rules = 1..Len(S.rules) /\ Len(S.rules) \in Nat
  BY RulesListed
<1>2. Len(S.cross) = 0
  OBVIOUS
<1> QED BY <1>1, <1>2 DEF Indexes

\* As many rows break a rule as injections whose rows do.
LEMMA BrokenRowsAreInjected ==
    ASSUME S \in Spec0, S.cross = <<>>, RulesFit(S), Accounts, NEW k \in DOMAIN S.rules
    PROVE  Failures(S, D, k) = Cardinality({c \in chosen : k \in BrokenBy(D, c)})
<1> DEFINE t == S.rules[k].table
           A == {c \in chosen : k \in BrokenBy(D, c)}
           B == {i \in DOMAIN D[t] : Fails(S.rules[k], D[t][i])}
           g == [c \in A |-> c.row]
<1>1. /\ IsFiniteSet(chosen)
      /\ \A c \in chosen : c.table \in Tables /\ c.row \in DOMAIN D[c.table]
      /\ \A c \in chosen : \A d \in chosen : c.table = d.table /\ c.row = d.row => c = d
      /\ \A u \in Tables : \A i \in DOMAIN D[u] : InjectedBy(chosen, u, i) = {} => LocalFailures(S, u, D[u][i]) = {}
  BY DEF Accounts, AccountsOf
<1>2. \A c \in A : c \in chosen /\ c.table = t /\ c.row \in B
  <2> SUFFICES ASSUME NEW c \in A PROVE c \in chosen /\ c.table = t /\ c.row \in B
    OBVIOUS
  <2>1. c \in chosen /\ k \in LocalFailures(S, c.table, D[c.table][c.row])
    BY DEF BrokenBy
  <2>2. c.table = t /\ Fails(S.rules[k], D[c.table][c.row])
    BY <2>1, LocalFailuresTell
  <2>3. c.row \in DOMAIN D[t]
    BY <1>1, <2>1, <2>2
  <2> QED BY <2>1, <2>2, <2>3
<1>3. \A i \in B : \E c \in A : c.row = i
  <2> SUFFICES ASSUME NEW i \in B PROVE \E c \in A : c.row = i
    OBVIOUS
  <2>1. t \in Tables
    BY FailingTable
  <2>2. k \in LocalFailures(S, t, D[t][i])
    BY LocalFailuresTell
  <2>3. InjectedBy(chosen, t, i) # {}
    BY <1>1, <2>1, <2>2
  <2>4. PICK c \in chosen : c.table = t /\ c.row = i
    BY <2>3 DEF InjectedBy
  <2>5. k \in BrokenBy(D, c)
    BY <2>2, <2>4 DEF BrokenBy
  <2> QED BY <2>4, <2>5
<1>4. IsFiniteSet(A)
  BY <1>1, FS_Subset
<1> HIDE DEF A, B, t
<1>5. g \in [A -> B] /\ IsInjective(g)
  BY <1>1, <1>2 DEF IsInjective
<1>6. g \in Surjection(A, B)
  BY <1>2, <1>3 DEF Surjection
<1>7. g \in Injection(A, B)
  BY <1>5 DEF Injection
<1>8. Cardinality(B) = Cardinality(A)
  <2> HIDE DEF g
  <2> QED BY <1>4, <1>6, <1>7, FS_Surjection
<1>9. k <= Len(S.rules)
  BY IndexesAreRules
<1>10. Failures(S, D, k) = Cardinality(B)
  BY <1>9 DEF Failures, Count, B, t
<1> QED BY <1>8, <1>10 DEF A

\* So counting per rule is as good as looking at the rows.
LEMMA ExpectationsTell ==
    ASSUME S \in Spec0, S.cross = <<>>, RulesFit(S), Accounts
    PROVE  ExpectationsMet(S, D, expected) <=> \A c \in chosen : c.case.rule \in BrokenBy(D, c)
<1>1. /\ IsFiniteSet(chosen) /\ \A c \in chosen : c.case.rule \in DOMAIN S.rules
      /\ expected = [k \in DOMAIN S.rules |-> Cardinality(Counted(D, chosen, k))]
  BY DEF Accounts, AccountsOf, IsRuleOf
<1>2. ASSUME NEW k \in DOMAIN S.rules
      PROVE  Failures(S, D, k) = expected[k] <=> \A c \in chosen : k = c.case.rule => k \in BrokenBy(D, c)
  <2> DEFINE A == {c \in chosen : k \in BrokenBy(D, c)}
             B == Counted(D, chosen, k)
  <2>1. Failures(S, D, k) = Cardinality(A)
    BY BrokenRowsAreInjected
  <2>2. expected[k] = Cardinality(B)
    BY <1>1
  <2>3. A \in SUBSET B /\ B \in SUBSET chosen
    BY DEF Counted
  <2>4. A = B <=> \A c \in chosen : k = c.case.rule => k \in BrokenBy(D, c)
    BY DEF Counted
  <2> HIDE DEF A, B
  <2>5. IsFiniteSet(B)
    BY <1>1, <2>3, FS_Subset
  <2>6. Cardinality(A) = Cardinality(B) <=> A = B
    BY <2>3, <2>5, FS_Subset
  <2> QED BY <2>1, <2>2, <2>4, <2>6
<1>3. Indexes(S) = DOMAIN S.rules
  BY IndexesAreRules
<1>4. ExpectationsMet(S, D, expected) <=> \A k \in DOMAIN S.rules : Failures(S, D, k) = expected[k]
  BY <1>3 DEF ExpectationsMet
<1> QED BY <1>1, <1>2, <1>4

\* And the other way round: every injection breaks what it was chosen for, and
\* nothing else is broken.
LEMMA RowsTell ==
    ASSUME Accounts
    PROVE  (\A c \in chosen : c.case.rule \in BrokenBy(D, c)) <=>
            \A t \in Tables : \A i \in DOMAIN D[t] :
                LET broken == LocalFailures(S, t, D[t][i])
                IN  IF Injected(t, i) = {} THEN broken = {}
                    ELSE \A c \in Injected(t, i) : c.case.rule \in broken
<1>1. /\ \A c \in chosen : c.table \in Tables /\ c.row \in DOMAIN D[c.table]
      /\ \A u \in Tables : \A i \in DOMAIN D[u] : InjectedBy(chosen, u, i) = {} => LocalFailures(S, u, D[u][i]) = {}
  BY DEF Accounts, AccountsOf
<1>2. \A t, i : Injected(t, i) = InjectedBy(chosen, t, i)
  BY DEF Injected, InjectedBy
<1>3. ASSUME \A c \in chosen : c.case.rule \in BrokenBy(D, c), NEW t \in Tables, NEW i \in DOMAIN D[t]
      PROVE  IF Injected(t, i) = {} THEN LocalFailures(S, t, D[t][i]) = {}
             ELSE \A c \in Injected(t, i) : c.case.rule \in LocalFailures(S, t, D[t][i])
  <2>1. CASE Injected(t, i) = {}
    BY <1>1, <1>2, <2>1
  <2>2. ASSUME NEW c \in Injected(t, i) PROVE c.case.rule \in LocalFailures(S, t, D[t][i])
    <3>1. c \in chosen /\ c.table = t /\ c.row = i
      BY DEF Injected
    <3> QED BY <1>3, <3>1 DEF BrokenBy
  <2> QED BY <2>1, <2>2
<1>4. ASSUME \A t \in Tables : \A i \in DOMAIN D[t] :
                IF Injected(t, i) = {} THEN LocalFailures(S, t, D[t][i]) = {}
                ELSE \A c \in Injected(t, i) : c.case.rule \in LocalFailures(S, t, D[t][i]),
             NEW c \in chosen
      PROVE  c.case.rule \in BrokenBy(D, c)
  <2>1. c \in Injected(c.table, c.row) /\ c.table \in Tables /\ c.row \in DOMAIN D[c.table]
    BY <1>1 DEF Injected
  <2> QED BY <1>4, <2>1 DEF BrokenBy
<1> QED BY <1>3, <1>4, Zenon

-----------------------------------------------------------------------------
(* Accounts of injections.                                                 *)

Calm == Steps \ {"inject", "report", "final", "released", "refused"}
Zeros == [k \in Indexes(S) |-> 0]

\* Accounts are of the rows, the cases and the counts only.
LEMMA AccountsStay ==
    ASSUME S' = S
    PROVE  /\ Accounts' <=> AccountsOf(D', chosen', expected')
           /\ Zeros' = Zeros
           /\ Injecting' <=> Injecting
<1>1. Tables' = Tables
  BY DEF Tables
<1>2. Accounts' <=> AccountsOf(D', chosen', expected')
  BY <1>1 DEF Accounts, AccountsOf, Counted, BrokenBy, InjectedBy, IsRuleOf, LocalFailures
<1>3. Zeros' = Zeros
  BY DEF Zeros, Indexes
<1>4. Injecting' <=> Injecting
  BY DEF Injecting, Tolerant
<1> QED BY <1>2, <1>3, <1>4

\* Whether expectations are met is about rows, rules and counts.
LEMMA ExpectationsStay ==
    ASSUME S' = S, D' = D, expected' = expected
    PROVE  ExpectationsMet(S, D, expected)' <=> ExpectationsMet(S, D, expected)
  BY DEF ExpectationsMet, Failures, Indexes, CrossFailures, Orphans

\* A refusal for anything but the rules says nothing of them.
LEMMA RefusedAccounts ==
    ASSUME at' = "refused", why' \notin {"", "rules"} PROVE AccountsInv'
  BY DEF AccountsInv, Steps

\* Before rules are broken nothing is chosen or expected.
LEMMA CalmAccounts ==
    ASSUME AccountsInv, at \in Calm, S' = S, at' \in Calm, why' = why, chosen' = chosen, expected' = expected,
           at = "preflight" => RulesFit(S)
    PROVE  AccountsInv'
<1>1. RulesFit(S)' <=> RulesFit(S)
  BY SpecStays
<1>2. Zeros' = Zeros
  BY AccountsStay
<1> QED BY <1>1, <1>2 DEF AccountsInv, Calm, Zeros, Steps

\* Every step before does so.
LEMMA CalmStep ==
    ASSUME KeysInv, AccountsInv,
           \/ Preflight \/ DrawRow \/ Drew \/ Relate \/ RelateInPreview \/ Allocate \/ Reconcile
           \/ CommitCell \/ Committed \/ EvaluateFormulas \/ OrderDates \/ FillRequired \/ TotalChildren
           \/ Deal \/ Obey \/ GoToTheEdge
    PROVE  AccountsInv'
<1>1. CASE Preflight
  <2>1. CASE at' = "refused"
    BY <1>1, <2>1, RefusedAccounts DEF Preflight, Goto, Refuse
  <2>2. CASE at' # "refused"
    <3>1. /\ RulesFit(S) /\ at = "preflight" /\ at' = "draw" /\ S' = S /\ why' = why /\ chosen' = chosen
          /\ expected' = expected
      BY <1>1, <2>2 DEF Preflight, Goto, Refuse
    <3> QED BY <3>1, CalmAccounts DEF Calm, Steps, Starting, Linked
  <2> QED BY <2>1, <2>2
<1>2. CASE DrawRow \/ Drew \/ CommitCell \/ Committed \/ Deal
  <2>1. /\ at \in Calm \ {"preflight"} /\ at' \in Calm /\ S' = S /\ why' = why /\ chosen' = chosen /\ expected' = expected
    BY <1>2 DEF DrawRow, Drew, CommitCell, Committed, Deal, Goto, Calm, Steps, Starting, Linked
  <2> QED BY <2>1, CalmAccounts
<1>3. CASE Relate \/ RelateInPreview \/ Allocate \/ Reconcile
  <2>1. CASE at' = "refused"
    BY <1>3, <2>1, RefusedAccounts DEF Relate, RelateInPreview, Allocate, Reconcile, Preview, Proceed, Goto, Refuse
  <2>2. CASE at' # "refused"
    <3>1. /\ at \in {"relate", "allocate"} /\ at' \in {"relate", "allocate", "commit"}
          /\ S' = S /\ why' = why /\ chosen' = chosen /\ expected' = expected
      BY <1>3, <2>2 DEF Relate, RelateInPreview, Allocate, Reconcile, Preview, Proceed, Goto, Refuse
    <3> QED BY <3>1, CalmAccounts DEF Calm, Steps, Starting, Linked
  <2> QED BY <2>1, <2>2
<1>4. CASE EvaluateFormulas \/ OrderDates \/ FillRequired \/ TotalChildren \/ Obey \/ GoToTheEdge
  <2>1. CASE at' = "refused"
    BY <1>4, <2>1, RefusedAccounts DEF EvaluateFormulas, OrderDates, FillRequired, TotalChildren, Obey, GoToTheEdge,
        Become, Proceed, Refuse
  <2>2. CASE at' # "refused"
    <3>1. /\ at \in {"formula", "temporal", "conditional", "aggregate", "obey", "edge"} /\ at' = at
          /\ S' = S /\ why' = why /\ chosen' = chosen /\ expected' = expected
      BY <1>4, <2>2 DEF EvaluateFormulas, OrderDates, FillRequired, TotalChildren, Obey, GoToTheEdge,
        Become, Proceed, Refuse
    <3> QED BY <3>1, CalmAccounts DEF Calm, Steps, Starting, Linked
  <2> QED BY <2>1, <2>2
<1> QED BY <1>1, <1>2, <1>3, <1>4

\* Passes follow each other to where nothing is injected, or before it is.
LEMMA FollowOnAccounts == ASSUME KeysInv, AccountsInv, FollowOn PROVE AccountsInv'
<1>1. S' = S /\ at' = AfterPass /\ AfterPass # at /\ why' = why /\ chosen' = chosen /\ expected' = expected
  BY DEF FollowOn, Goto
<1>2. at \in {"relate", "formula", "temporal", "conditional", "aggregate", "obey", "edge"}
  BY <1>1 DEF AfterPass
<1>3. \/ at' \in {"formula", "temporal", "conditional", "aggregate", "deal", "baseline", "edge"}
      \/ at' = "final" /\ ~HasRules
      \/ at' = "report" /\ ~Tolerant(S)
  <2>1. CASE at \in {"relate", "formula", "temporal", "conditional", "aggregate"}
    BY <1>1, <2>1 DEF AfterPass
  <2>2. CASE at = "obey"
    BY <1>1, <2>2 DEF AfterPass
  <2>3. CASE at = "edge"
    BY <1>1, <2>3 DEF AfterPass, KeysInv
  <2> QED BY <1>2, <2>1, <2>2, <2>3
<1>4. CASE at' \in {"formula", "temporal", "conditional", "aggregate", "deal", "baseline", "edge"}
  BY <1>1, <1>2, <1>4, CalmAccounts DEF Calm, Steps, Starting, Linked
<1>5. why' = "" /\ RulesFit(S)
  BY <1>1, <1>2 DEF AccountsInv
<1>6. RulesFit(S)' /\ (HasRules' <=> HasRules) /\ (Tolerant(S)' <=> Tolerant(S))
  BY <1>1, <1>5, SpecStays
<1>7. CASE at' = "final" /\ ~HasRules
  BY <1>5, <1>6, <1>7 DEF AccountsInv
<1>8. CASE at' = "report" /\ ~Tolerant(S)
  BY <1>5, <1>6, <1>8 DEF AccountsInv, Injecting
<1> QED BY <1>3, <1>4, <1>7, <1>8

\* Rows that obey all rules are accounted for without any injection.
LEMMA BaselineAccounts == ASSUME S \in Spec0, KeysInv, AccountsInv, Baseline PROVE AccountsInv'
<1>1. S' = S /\ D' = D /\ at = "baseline" /\ chosen' = chosen /\ expected' = expected /\ RulesFit(S) /\ Shaped(D)
  BY DEF Baseline, Goto, Refuse, AccountsInv, KeysInv
<1>2. CASE at' = "refused"
  BY <1>2, RefusedAccounts DEF Baseline, Goto, Refuse
<1>3. CASE at' = "inject" /\ why' = why /\ pos' = <<>> /\ RulesHold(S, D)
  <2>1. chosen = {} /\ expected = Zeros /\ why = ""
    BY <1>1 DEF AccountsInv, Zeros, Steps, Linked
  <2>2. ASSUME Injecting PROVE AccountsOf(D, {}, Zeros)
    <3>1. Indexes(S) = DOMAIN S.rules /\ \A k \in DOMAIN S.rules : k <= Len(S.rules)
      BY <2>2, IndexesAreRules DEF Injecting
    <3>2. ASSUME NEW t \in Tables, NEW i \in DOMAIN D[t] PROVE LocalFailures(S, t, D[t][i]) = {}
      <4> SUFFICES ASSUME NEW k \in LocalFailures(S, t, D[t][i]) PROVE FALSE
        OBVIOUS
      <4>1. k \in DOMAIN S.rules /\ S.rules[k].table = t /\ Fails(S.rules[k], D[t][i])
        BY LocalFailuresTell
      <4> DEFINE B == {j \in DOMAIN D[t] : Fails(S.rules[k], D[t][j])}
      <4>2. Failures(S, D, k) = 0
        BY <1>3, <3>1, <4>1 DEF RulesHold
      <4>3. Failures(S, D, k) = Cardinality(B)
        BY <3>1, <4>1 DEF Failures, Count
      <4>4. IsFiniteSet(DOMAIN D[t])
        BY <1>1, FS_Interval DEF Shaped
      <4>5. i \in B /\ B \in SUBSET DOMAIN D[t]
        BY <4>1
      <4> HIDE DEF B
      <4>6. IsFiniteSet(B)
        BY <4>4, <4>5, FS_Subset
      <4> QED BY <4>2, <4>3, <4>5, <4>6, FS_EmptySet
    <3>3. \A k : Counted(D, {}, k) = {}
      BY DEF Counted
    <3>4. IsFiniteSet({}) /\ Cardinality({}) = 0
      BY FS_EmptySet
    <3>5. Zeros = [k \in DOMAIN S.rules |-> Cardinality(Counted(D, {}, k))]
      BY <3>1, <3>3, <3>4 DEF Zeros
    <3> QED BY <3>2, <3>4, <3>5 DEF AccountsOf
  <2>3. Injecting' => Accounts'
    BY <1>1, <2>1, <2>2, AccountsStay
  <2>4. pos' \in Seq([table : Tables', row : Nat, turn : Nat])
    BY <1>3
  <2>5. RulesFit(S)'
    BY <1>1, SpecStays
  <2> QED BY <1>1, <1>3, <2>1, <2>3, <2>4, <2>5 DEF AccountsInv, Steps
<1> QED BY <1>2, <1>3 DEF Baseline, Goto, Refuse

\* A row that waits is one of a table, and no injection has passed it.
LEMMA WaitingTells ==
    ASSUME Shaped(D), NEW r \in Waiting
    PROVE  /\ r[1] \in Tables /\ r[2] \in DOMAIN D[r[1]] /\ r[2] \in Nat
           /\ ~Passed(r[1], r[2])
<1>1. PICK t \in Tables : r \in {t} \X (DOMAIN D[t])
  BY DEF Waiting
<1>2. r[1] = t /\ r[2] \in DOMAIN D[t] /\ r = <<r[1], r[2]>>
  BY <1>1
<1>3. r[2] \in Nat
  BY <1>2 DEF Shaped
<1>4. \A j \in DOMAIN pos : <<pos[j].table, pos[j].row>> # r
  BY DEF Waiting
<1> QED BY <1>2, <1>3, <1>4 DEF Passed

\* A row that is passed stays so, and this one is.
LEMMA PassTells ==
    ASSUME pos \in Seq([table : Tables, row : Nat, turn : Nat]),
           NEW r, r[1] \in Tables, r[2] \in Nat, NEW c \in Nat, Pass(r, c)
    PROVE  /\ pos' \in Seq([table : Tables, row : Nat, turn : Nat])
           /\ \A t, i : Passed(t, i) => Passed(t, i)'
           /\ Passed(r[1], r[2])'
<1> DEFINE V == [table : Tables, row : Nat, turn : Nat]
           x == [table |-> r[1], row |-> r[2], turn |-> c]
<1>1. pos \in Seq(V) /\ x \in V /\ pos' = Append(pos, x) /\ x.table = r[1] /\ x.row = r[2]
  BY DEF Pass
<1> HIDE DEF V, x
<1>2. /\ pos' \in Seq(V) /\ Len(pos) \in Nat /\ DOMAIN pos = 1..Len(pos) /\ DOMAIN pos' = 1..(Len(pos) + 1)
      /\ \A j \in DOMAIN pos : j \in DOMAIN pos' /\ pos'[j] = pos[j]
      /\ Len(pos) + 1 \in DOMAIN pos' /\ pos'[Len(pos) + 1] = x
  BY <1>1
<1>3. \A t, i : Passed(t, i) => Passed(t, i)'
  BY <1>2 DEF Passed
<1>4. Passed(r[1], r[2])'
  BY <1>1, <1>2 DEF Passed
<1> QED BY <1>2, <1>3, <1>4 DEF V

\* A row that is passed by keeps its accounts.
LEMMA SkipAccounts == ASSUME KeysInv, AccountsInv, SkipRow PROVE AccountsInv'
<1>1. /\ S' = S /\ D' = D /\ at = "inject" /\ at' = at /\ why' = why /\ chosen' = chosen /\ expected' = expected
      /\ Shaped(D)
  BY DEF SkipRow, KeysInv
<1>2. PICK r \in Waiting : Pass(r, 0)
  BY DEF SkipRow
<1>3. r[1] \in Tables /\ r[2] \in Nat
  BY <1>1, WaitingTells
<1>4. pos \in Seq([table : Tables, row : Nat, turn : Nat]) /\ (Injecting => \A c \in chosen : Passed(c.table, c.row))
      /\ why = "" /\ RulesFit(S) /\ (Injecting => Accounts)
  BY <1>1 DEF AccountsInv
<1>5. pos' \in Seq([table : Tables, row : Nat, turn : Nat]) /\ \A t, i : Passed(t, i) => Passed(t, i)'
  BY <1>2, <1>3, <1>4, PassTells
<1>6. Tables' = Tables /\ RulesFit(S)'
  BY <1>1, <1>4, SpecStays
<1>7. Injecting' => Accounts'
  BY <1>1, <1>4, AccountsStay DEF Accounts
<1>8. Injecting' => \A c \in chosen' : Passed(c.table, c.row)'
  BY <1>1, <1>4, <1>5, AccountsStay
<1> QED BY <1>1, <1>4, <1>5, <1>6, <1>7, <1>8 DEF AccountsInv, Steps

\* One more row is broken: whatever it breaks besides is counted too.
LEMMA InjectedAccounts ==
    ASSUME S \in Spec0, Shaped(D), Accounts, NEW t \in Tables, NEW i \in DOMAIN D[t], NEW case, IsRuleOf(case, t),
           InjectedBy(chosen, t, i) = {}, Inject(t, i, case)
    PROVE  AccountsOf(D', chosen', expected')
<1> DEFINE row == Violating(S, D, t, D[t][i], case)
           x == [table |-> t, row |-> i, case |-> case]
           caught == Caught(S, t, D[t][i], row, case)
<1>1. /\ D' = [D EXCEPT ![t][i] = row] /\ expected' = Foreseen(S, expected, case, caught) /\ chosen' = chosen \cup {x}
  BY Zenon DEF Inject
<1>2. x.table = t /\ x.row = i /\ x.case = case
  OBVIOUS
<1>3. LocalFailures(S, t, D[t][i]) = {}
  BY DEF Accounts, AccountsOf
<1>4. caught = {case.rule} \cup LocalFailures(S, t, row)
  BY <1>3 DEF Caught
<1> HIDE DEF row, x, caught
<1>5. /\ IsFiniteSet(chosen)
      /\ \A c \in chosen : c.table \in Tables /\ c.row \in DOMAIN D[c.table] /\ IsRuleOf(c.case, c.table)
      /\ \A c \in chosen : \A d \in chosen : c.table = d.table /\ c.row = d.row => c = d
      /\ \A u \in Tables : \A j \in DOMAIN D[u] : InjectedBy(chosen, u, j) = {} => LocalFailures(S, u, D[u][j]) = {}
      /\ expected = [k \in DOMAIN S.rules |-> Cardinality(Counted(D, chosen, k))]
  BY DEF Accounts, AccountsOf
<1>6. /\ D'[t][i] = row
      /\ \A u \in Tables : DOMAIN D'[u] = DOMAIN D[u] /\ \A j \in DOMAIN D[u] : <<u, j>> # <<t, i>> => D'[u][j] = D[u][j]
  BY <1>1 DEF Shaped
<1>7. \A c \in chosen : ~(c.table = t /\ c.row = i)
  BY DEF InjectedBy
<1>8. x \notin chosen
  BY <1>2, <1>7
<1>9. \A c \in chosen : BrokenBy(D', c) = BrokenBy(D, c)
  BY <1>5, <1>6, <1>7 DEF BrokenBy
<1>10. BrokenBy(D', x) = LocalFailures(S, t, row)
  BY <1>2, <1>6 DEF BrokenBy
<1>11. ASSUME NEW k PROVE Counted(D', chosen', k) = IF k \in caught THEN Counted(D, chosen, k) \cup {x} ELSE Counted(D, chosen, k)
  <2>1. k \in caught <=> k = x.case.rule \/ k \in BrokenBy(D', x)
    BY <1>2, <1>4, <1>10
  <2> QED BY <1>1, <1>9, <2>1 DEF Counted
<1>12. ASSUME NEW k
       PROVE  Cardinality(Counted(D', chosen', k)) =
                    IF k \in caught THEN Cardinality(Counted(D, chosen, k)) + 1 ELSE Cardinality(Counted(D, chosen, k))
  <2>1. Counted(D, chosen, k) \in SUBSET chosen
    BY DEF Counted
  <2>2. IsFiniteSet(Counted(D, chosen, k)) /\ x \notin Counted(D, chosen, k)
    BY <1>5, <1>8, <2>1, FS_Subset
  <2> DEFINE Z == Counted(D, chosen, k)
  <2> HIDE DEF Z
  <2>3. Cardinality(Z \cup {x}) = Cardinality(Z) + 1
    BY <2>2, FS_AddElement DEF Z
  <2> QED BY <1>11, <2>3 DEF Z
<1>13. expected' = [k \in DOMAIN S.rules |-> Cardinality(Counted(D', chosen', k))]
  <2>1. case.how # "total"
    BY DEF IsRuleOf
  <2>2. expected' = [k \in DOMAIN S.rules |-> IF k \in caught THEN expected[k] + 1 ELSE expected[k]]
    BY <1>1, <1>5, <2>1 DEF Foreseen
  <2> QED BY <1>5, <1>12, <2>2
<1>14. IsFiniteSet(chosen')
  BY <1>1, <1>5, FS_AddElement
<1>15. \A c \in chosen' : c.table \in Tables /\ c.row \in DOMAIN D'[c.table] /\ IsRuleOf(c.case, c.table)
  BY <1>1, <1>2, <1>5, <1>6
<1>16. \A c \in chosen' : \A d \in chosen' : c.table = d.table /\ c.row = d.row => c = d
  BY <1>1, <1>2, <1>5, <1>7
<1>17. ASSUME NEW u \in Tables, NEW j \in DOMAIN D'[u], InjectedBy(chosen', u, j) = {}
       PROVE  LocalFailures(S, u, D'[u][j]) = {}
  <2>1. <<u, j>> # <<t, i>>
    BY <1>1, <1>2, <1>17 DEF InjectedBy
  <2>2. InjectedBy(chosen, u, j) = {}
    BY <1>1, <1>17 DEF InjectedBy
  <2> QED BY <1>5, <1>6, <2>1, <2>2
<1> QED BY <1>13, <1>14, <1>15, <1>16, <1>17 DEF AccountsOf

\* An injection adds to the accounts what its row breaks.
LEMMA InjectAccounts == ASSUME S \in Spec0, KeysInv, AccountsInv, InjectRow PROVE AccountsInv'
<1>1. S' = S /\ at = "inject" /\ at' = at /\ why' = why /\ Shaped(D)
  BY DEF InjectRow, KeysInv
<1>2. PICK r \in Waiting : \E c \in 1..Len(Cases(S, r[1])) : Inject(r[1], r[2], Cases(S, r[1])[c]) /\ Pass(r, c)
  BY DEF InjectRow
<1>3. PICK c \in 1..Len(Cases(S, r[1])) : Inject(r[1], r[2], Cases(S, r[1])[c]) /\ Pass(r, c)
  BY <1>2
<1>4. r[1] \in Tables /\ r[2] \in Nat /\ r[2] \in DOMAIN D[r[1]] /\ ~Passed(r[1], r[2])
  BY <1>1, WaitingTells
<1>5. pos \in Seq([table : Tables, row : Nat, turn : Nat]) /\ (Injecting => \A d \in chosen : Passed(d.table, d.row))
      /\ why = "" /\ RulesFit(S) /\ (Injecting => Accounts)
  BY <1>1 DEF AccountsInv
<1>6. c \in Nat
  OBVIOUS
<1>7. /\ pos' \in Seq([table : Tables, row : Nat, turn : Nat])
      /\ \A t, i : Passed(t, i) => Passed(t, i)'
      /\ Passed(r[1], r[2])'
  BY <1>3, <1>4, <1>5, <1>6, PassTells
<1>8. ASSUME Injecting PROVE AccountsOf(D', chosen', expected')
  <2>1. IsRuleOf(Cases(S, r[1])[c], r[1])
    BY <1>8, CasesTell DEF Injecting
  <2>2. InjectedBy(chosen, r[1], r[2]) = {}
    BY <1>4, <1>5, <1>8 DEF InjectedBy
  <2> QED BY <1>1, <1>3, <1>4, <1>5, <1>8, <2>1, <2>2, InjectedAccounts
<1>9. Injecting' => Accounts'
  BY <1>1, <1>8, AccountsStay
<1>10. Injecting' => \A d \in chosen' : Passed(d.table, d.row)'
  <2>1. chosen' = chosen \cup {[table |-> r[1], row |-> r[2], case |-> Cases(S, r[1])[c]]}
    BY <1>3 DEF Inject
  <2>2. ASSUME Injecting, NEW d \in chosen' PROVE Passed(d.table, d.row)'
    <3>1. CASE d \in chosen
      BY <1>5, <1>7, <2>2, <3>1
    <3>2. CASE d.table = r[1] /\ d.row = r[2]
      BY <1>7, <3>2
    <3> QED BY <2>1, <2>2, <3>1, <3>2
  <2> QED BY <1>1, <2>2, AccountsStay
<1>11. Tables' = Tables /\ RulesFit(S)'
  BY <1>1, <1>5, SpecStays
<1> QED BY <1>1, <1>5, <1>7, <1>9, <1>10, <1>11 DEF AccountsInv, Steps

\* Rules across rows are none, so the audit adds nothing.
LEMMA AuditAccounts == ASSUME S \in Spec0, KeysInv, AccountsInv, Audit PROVE AccountsInv'
<1>1. /\ S' = S /\ D' = D /\ at = "inject" /\ at' = "report" /\ why' = why /\ chosen' = chosen
      /\ expected' = Audited(S, D, expected)
  BY DEF Audit
<1>2. why = "" /\ RulesFit(S) /\ (Injecting => Accounts)
  BY <1>1 DEF AccountsInv
<1>3. ASSUME Injecting PROVE expected' = expected
  <2>1. expected = [k \in DOMAIN S.rules |-> Cardinality(Counted(D, chosen, k))]
    BY <1>2, <1>3 DEF Accounts, AccountsOf
  <2>2. \A k \in DOMAIN S.rules : ~(k > Len(S.rules))
    <3>1. DOMAIN S.rules = 1..Len(S.rules) /\ Len(S.rules) \in Nat
      BY RulesListed
    <3> QED BY <3>1
  <2>3. Audited(S, D, expected) = [k \in DOMAIN expected |-> expected[k]]
    BY <2>1, <2>2 DEF Audited
  <2> QED BY <1>1, <2>1, <2>3
<1>4. Injecting' => Accounts'
  BY <1>1, <1>2, <1>3, AccountsStay DEF Accounts
<1>5. RulesFit(S)'
  BY <1>1, <1>2, SpecStays
<1> QED BY <1>1, <1>2, <1>4, <1>5 DEF AccountsInv, Steps

\* The report compares the counts with the rows; the last validation keeps them.
LEMMA ReportAccounts == ASSUME KeysInv, AccountsInv, Report \/ Finish PROVE AccountsInv'
<1>1. S' = S /\ D' = D /\ at \in {"report", "final"} /\ chosen' = chosen /\ expected' = expected
  BY DEF Report, Finish, Goto, Refuse
<1>2. why = "" /\ RulesFit(S)
  BY <1>1 DEF AccountsInv
<1>3. /\ RulesFit(S)' /\ (HasRules' <=> HasRules) /\ (Tolerant(S)' <=> Tolerant(S)) /\ (Injecting' <=> Injecting)
      /\ (Accounts' <=> Accounts) /\ (ExpectationsMet(S, D, expected)' <=> ExpectationsMet(S, D, expected))
  BY <1>1, <1>2, SpecStays, AccountsStay, ExpectationsStay DEF Accounts
<1>4. CASE Report
  <2>1. at = "report" /\ (Injecting => Accounts)
    BY <1>4 DEF Report, AccountsInv
  <2>2. CASE at' = "final" /\ why' = why /\ (Tolerant(S) => ExpectationsMet(S, D, expected))
    BY <1>2, <1>3, <2>1, <2>2 DEF AccountsInv, Injecting
  <2>3. CASE at' = "refused" /\ why' = "rules" /\ (Tolerant(S) => ~ExpectationsMet(S, D, expected))
    BY <1>2, <1>3, <2>1, <2>3 DEF AccountsInv, Injecting, Steps
  <2> QED BY <1>4, <2>2, <2>3 DEF Report, Goto, Refuse
<1>5. CASE Finish
  <2>1. at = "final" /\ (Injecting /\ HasRules => Accounts /\ ExpectationsMet(S, D, expected))
    BY <1>5 DEF Finish, AccountsInv
  <2>2. CASE at' = "released" /\ why' = why
    BY <1>2, <1>3, <2>1, <2>2 DEF AccountsInv
  <2>3. CASE at' = "refused" /\ why' \notin {"", "rules"}
    BY <2>3, RefusedAccounts
  <2>4. Objection \in {"privacy", "scenario", "", "invalid"}
    BY DEF Objection
  <2> QED BY <1>5, <2>2, <2>3, <2>4 DEF Finish, Goto, Refuse
<1> QED BY <1>4, <1>5

\* Every step keeps the accounts.
LEMMA AccountsStep == ASSUME S \in Spec0, KeysInv, AccountsInv, Next PROVE AccountsInv'
<1>1. CASE Expire
  BY <1>1, RefusedAccounts DEF Expire
<1>2. CASE FollowOn \/ Baseline \/ SkipRow \/ InjectRow
  BY <1>2, FollowOnAccounts, BaselineAccounts, SkipAccounts, InjectAccounts
<1>3. CASE Audit \/ Report \/ Finish
  BY <1>3, AuditAccounts, ReportAccounts
<1> QED BY <1>1, <1>2, <1>3, CalmStep DEF Next

-----------------------------------------------------------------------------
(* Generations as a whole.                                                 *)

\* Nothing has been drawn, chosen or expected when a generation begins.
LEMMA GenerationBegins == BundleInit => GenerationInv
<1> SUFFICES ASSUME BundleInit PROVE GenerationInv
  OBVIOUS
<1>1. /\ Contract(S) /\ D = [t \in Tables |-> <<>>] /\ old = [t \in Tables |-> <<>>] /\ at = "preflight" /\ why = ""
      /\ pos = <<>> /\ expected = [k \in Indexes(S) |-> 0] /\ chosen = {} /\ stage = "generating"
  BY DEF BundleInit, Init, Tables
<1>2. Shaped(D)
  <2>1. \A t \in Tables : D[t] = <<>>
    BY <1>1
  <2>2. DOMAIN <<>> = 1..0 /\ 0 \in Nat
    OBVIOUS
  <2>3. DOMAIN D = Tables
    BY <1>1
  <2>4. \A t \in Tables : DOMAIN D[t] = 1..0 /\ \A i \in DOMAIN D[t] : DOMAIN D[t][i] = S.fields[t]
    BY <2>1, <2>2
  <2> QED BY <2>2, <2>3, <2>4 DEF Shaped
<1>3. DrawnRows
  <2>1. \A t \in Tables : D[t] = <<>>
    BY <1>1
  <2>2. \A V : <<>> \in Seq(V)
    OBVIOUS
  <2> QED BY <1>1, <2>1, <2>2 DEF DrawnRows
<1>4. KeysInv
  BY <1>1, <1>2, <1>3 DEF KeysInv, Steps, Starting, Linked, Ruled
<1>5. AccountsInv
  BY <1>1 DEF AccountsInv, Steps, Starting, Linked
<1> QED BY <1>1, <1>4, <1>5 DEF GenerationInv

\* What depends on the variables only is as it was if they are.
LEMMA KeysStay == ASSUME KeysInv, UNCHANGED vars PROVE KeysInv'
<1>1. S' = S /\ D' = D /\ at' = at /\ old' = old /\ new' = new /\ pos' = pos
  BY DEF vars
<1>2. KeyCells' = KeyCells /\ Tables' = Tables
  BY <1>1, KeyCellsStay, SpecStays
<1>3. (Evidence(new)' <=> Evidence(new)) /\ (ScenariosAreMet' <=> ScenariosAreMet)
  <2>1. ScenariosAreMet' <=> ScenariosAreMet
    BY <1>1 DEF ScenariosAreMet, ScenarioMet, Unique
  <2> QED BY <1>1, <2>1, EvidenceStays
<1>4. /\ PartlyCommitted' <=> PartlyCommitted
      /\ KeysAreOld' <=> KeysAreOld
      /\ DrawnRows' <=> DrawnRows
  <2>1. PartlyCommitted' <=> PartlyCommitted
    BY <1>1, <1>2, <1>3 DEF PartlyCommitted
  <2>2. KeysAreOld' <=> KeysAreOld
    BY <1>1, <1>2 DEF KeysAreOld
  <2>3. DrawnRows' <=> DrawnRows
    BY <1>1, <1>2 DEF DrawnRows
  <2> QED BY <2>1, <2>2, <2>3
<1>5. Shaped(D)' /\ (Shaped(old)' <=> Shaped(old)) /\ (Shaped(new)' <=> Shaped(new))
      /\ (SameTables(old, D)' <=> SameTables(old, D)) /\ (SameTables(new, D)' <=> SameTables(new, D))
  BY <1>1, <1>2 DEF KeysInv, Shaped, SameTables
<1> QED BY <1>1, <1>3, <1>4, <1>5, SpecStays, Zenon DEF KeysInv

\* Accounts depend on the variables of a generation only.
LEMMA AccountsStand == ASSUME AccountsInv, UNCHANGED vars PROVE AccountsInv'
<1>1. S' = S /\ D' = D /\ at' = at /\ why' = why /\ pos' = pos /\ expected' = expected /\ chosen' = chosen
  BY DEF vars
<1>2. /\ RulesFit(S)' <=> RulesFit(S)
      /\ HasRules' <=> HasRules
      /\ Tables' = Tables
      /\ Injecting' <=> Injecting
      /\ Indexes(S)' = Indexes(S)
      /\ ExpectationsMet(S, D, expected)' <=> ExpectationsMet(S, D, expected)
  BY <1>1, SpecStays, AccountsStay, ExpectationsStay DEF Indexes
<1>3. Accounts' <=> Accounts
  BY <1>1, AccountsStay DEF Accounts
<1>4. (\A c \in chosen : Passed(c.table, c.row))' <=> \A c \in chosen : Passed(c.table, c.row)
  BY <1>1 DEF Passed
<1> QED BY <1>1, <1>2, <1>3, <1>4 DEF AccountsInv

\* A step of the generation leads from one step to the next, never past the
\* hand-over, and a hand-over needs a release.
LEMMA GenerationGoesOn == ASSUME BundleInv, GenerationInv, BundleNext PROVE GenerationInv'
<1>1. CASE Generates
  <2>1. stage = "generating" /\ stage' = stage /\ Next /\ KeysInv /\ AccountsInv
    BY <1>1 DEF Generates, GenerationInv
  <2>2. S \in Spec0 /\ (at \notin {"preflight", "refused"} => AllDeclared)
    BY DEF BundleInv, AllDeclared
  <2>3. KeysInv' /\ AccountsInv'
    BY <2>1, <2>2, KeysStep, AccountsStep
  <2>4. at' # "handed"
    BY <2>3 DEF KeysInv, Steps, Starting, Linked
  <2> QED BY <2>1, <2>3, <2>4 DEF GenerationInv
<1>2. CASE Apply
  <2>1. at = "released" /\ at' = "handed" /\ stage' = "applied" /\ why' = why /\ stage = "generating"
    BY <1>2 DEF Apply, HandedOver
  <2>2. why = ""
    BY <2>1 DEF GenerationInv, AccountsInv
  <2> QED BY <2>1, <2>2 DEF GenerationInv
<1>3. CASE CheckAgain \/ ReportOn \/ PublishBundle \/ GiveUp
  <2>1. stage # "generating" /\ stage' # "generating" /\ at' = at /\ why' = why
    BY <1>3 DEF CheckAgain, ReportOn, PublishBundle, GiveUp, Leaves, Discards, vars
  <2> QED BY <2>1 DEF GenerationInv
<1> QED BY <1>1, <1>2, <1>3 DEF BundleNext

\* A step that is not of a generation leaves what is known of it.
LEMMA GenerationStays == ASSUME GenerationInv, UNCHANGED bundleVars PROVE GenerationInv'
<1>1. UNCHANGED vars /\ stage' = stage /\ at' = at /\ why' = why
  BY DEF bundleVars, vars
<1> QED BY <1>1, KeysStay, AccountsStand DEF GenerationInv

\* The step of a generation tells which keys its rows have.
LEMMA GenerationIsAtomic == GenerationInv => ScenariosAreAtomic
<1> SUFFICES ASSUME GenerationInv, at \notin {"preflight", "draw", "commit", "handed"}, S.scenarios # <<>>, at # "allocate"
             PROVE  ScenariosAreMet \/ (why # "" /\ KeysAreOld)
  BY Zenon DEF ScenariosAreAtomic, KeysAreOld
<1>1. KeysInv /\ AccountsInv
  BY DEF GenerationInv
<1>2. at \in Linked \cup {"refused"}
  BY <1>1 DEF KeysInv, Steps, Starting
<1> QED BY <1>1, <1>2 DEF KeysInv, AccountsInv

\* Counts that agree with the rows tell what the rows do.
LEMMA GenerationAccounts == S \in Spec0 /\ GenerationInv => InjectionsAreAccounted
<1> DEFINE right == \A t \in Tables : \A i \in DOMAIN D[t] :
                        LET broken == LocalFailures(S, t, D[t][i])
                        IN  IF Injected(t, i) = {} THEN broken = {}
                            ELSE \A c \in Injected(t, i) : c.case.rule \in broken
<1> SUFFICES ASSUME S \in Spec0, GenerationInv,
                    Tolerant(S), HasRules, S.cross = <<>>, at \in {"final", "released"} \/ why = "rules"
             PROVE  why = "" <=> right
  BY Zenon DEF InjectionsAreAccounted
<1>1. at # "handed" /\ AccountsInv /\ KeysInv /\ Injecting
  BY DEF GenerationInv, Injecting
<1>2. Accounts /\ RulesFit(S)
  BY <1>1 DEF AccountsInv
<1>3. ExpectationsMet(S, D, expected) <=> \A c \in chosen : c.case.rule \in BrokenBy(D, c)
  BY <1>2, ExpectationsTell
<1>4. (\A c \in chosen : c.case.rule \in BrokenBy(D, c)) <=> right
  BY <1>2, RowsTell, Zenon
<1> HIDE DEF right
<1>5. CASE at \in {"final", "released"}
  BY <1>1, <1>3, <1>4, <1>5 DEF AccountsInv
<1>6. CASE why = "rules"
  BY <1>1, <1>3, <1>4, <1>6 DEF AccountsInv
<1> QED BY <1>5, <1>6

\* What is known of a generation and its bundle stays so in every behaviour.
LEMMA GenerationsGoOn == SynthesisSpec => [](BundleInv /\ GenerationInv)
<1>1. SynthesisInit => BundleInv /\ GenerationInv
  BY BundleBegins, GenerationBegins DEF SynthesisInit
<1>2. (BundleInv /\ GenerationInv) /\ [SynthesisNext]_all => (BundleInv /\ GenerationInv)'
  <2> SUFFICES ASSUME BundleInv, GenerationInv, [SynthesisNext]_all PROVE BundleInv' /\ GenerationInv'
    OBVIOUS
  <2>1. CASE BundleNext
    BY <2>1, BundleStep, GenerationGoesOn
  <2>2. CASE UNCHANGED bundleVars
    BY <2>2, BundleStays, GenerationStays
  <2> QED BY <2>1, <2>2 DEF SynthesisNext, all
<1> QED BY <1>1, <1>2, PTL DEF SynthesisSpec

\* Keys are committed as a whole, whatever specification, tables, rows and
\* shuffles, and wherever the budget ends the generation.
THEOREM ScenariosStayAtomic == SynthesisSpec => []ScenariosAreAtomic
  BY GenerationsGoOn, GenerationIsAtomic, PTL

\* Counting injections per rule is as good as looking at every row, whatever
\* rules, rows and injections.
THEOREM InjectionsStayAccounted == SynthesisSpec => []InjectionsAreAccounted
<1>1. BundleInv /\ GenerationInv => InjectionsAreAccounted
  BY GenerationAccounts DEF BundleInv
<1> QED BY <1>1, GenerationsGoOn, PTL

(* Runs of advisors' calls, for any calls, tasks, answers and retries.     *)

\* tlapm knows no powers: they count subsets.
LEMMA PowersOfTwo == \A k \in Nat : 2 ^ k \in Nat
<1> SUFFICES ASSUME NEW k \in Nat PROVE 2 ^ k \in Nat
  OBVIOUS
<1>1. IsFiniteSet(1..k) /\ Cardinality(1..k) = k
  BY FS_Interval
<1>2. Cardinality(SUBSET (1..k)) = 2 ^ k /\ IsFiniteSet(SUBSET (1..k))
  BY <1>1, FS_SUBSET
<1> QED BY <1>2, FS_CardinalityType

\* A delay is a number.
LEMMA DelayType == \A k \in Nat : Advice!Delay(k) \in Nat
  BY PowersOfTwo, AdviceAssumption DEF Advice!Delay, Advice!RetriesAssumption

\* Every wait comes on top of those before.
LEMMA DelaysAddUp ==
    ASSUME NEW n \in Nat
    PROVE  /\ Advice!TotalDelay(n) \in Nat
           /\ Advice!TotalDelay(0) = 0
           /\ Advice!TotalDelay(n + 1) = Advice!TotalDelay(n) + Advice!Delay(n)
<1> DEFINE U(m) == 0..(m - 1)
           f(m) == [k \in U(m) |-> Advice!Delay(k)]
<1>1. \A m \in Nat : Advice!TotalDelay(m) = Sums(f(m), U(m))[U(m)]
  <2> SUFFICES ASSUME NEW m \in Nat PROVE Advice!TotalDelay(m) = Sums(f(m), U(m))[U(m)]
    OBVIOUS
  <2>1. Advice!TotalDelay(m) = FoldFunction(LAMBDA x, y : x + y, 0, f(m))
    BY DEF Advice!TotalDelay, Advice!FoldFunction, Advice!FoldFunctionOnSet, Advice!MapThenFoldSet,
           FoldFunction, FoldFunctionOnSet, MapThenFoldSet
  <2>2. DOMAIN f(m) = U(m)
    OBVIOUS
  <2> QED BY <2>1, <2>2, FoldIsSum
<1>2. \A m \in Nat : Summable(f(m), U(m))
  BY FS_Interval, DelayType DEF Summable
<1>3. Sums(f(0), U(0))[U(0)] = 0
  <2>1. SumsTo(f(0), U(0), Sums(f(0), U(0)))
    BY <1>2, SumsExist
  <2>2. U(0) = {}
    OBVIOUS
  <2> HIDE DEF f
  <2> QED BY <2>1, <2>2 DEF SumsTo
<1>4. Sums(f(n), U(n))[U(n)] \in Nat
  <2>1. Sums(f(n), U(n)) \in [SUBSET U(n) -> Nat]
    BY <1>2, SumsExist
  <2> HIDE DEF f, U
  <2> QED BY <2>1
<1>5. Sums(f(n + 1), U(n + 1))[U(n + 1)] = Advice!Delay(n) + Sums(f(n + 1), U(n + 1))[U(n)]
  <2>1. n \in U(n + 1) /\ U(n + 1) \ {n} = U(n) /\ f(n + 1)[n] = Advice!Delay(n) /\ U(n + 1) \in SUBSET U(n + 1)
    OBVIOUS
  <2>2. Summable(f(n + 1), U(n + 1))
    BY <1>2
  <2> DEFINE V == U(n + 1)
             h == f(n + 1)
  <2> HIDE DEF f, U
  <2>3. Summable(h, V)
    BY <2>2
  <2> HIDE DEF V, h
  <2>4. Splits(h, V)
    BY <2>3, SumSplits
  <2> QED BY <2>1, <2>4 DEF V, h, Splits
<1>6. Sums(f(n + 1), U(n + 1))[U(n)] = Sums(f(n), U(n))[U(n)]
  <2>1. Summable(f(n + 1), U(n + 1))
    BY <1>2
  <2>2. U(n) \in SUBSET U(n + 1) /\ U(n) \in SUBSET U(n) /\ \A k \in U(n) : f(n)[k] = f(n + 1)[k]
    OBVIOUS
  <2> HIDE DEF f, U
  <2> QED BY <2>1, <2>2, SumsAgree
<1>7. Advice!Delay(n) \in Nat
  BY DelayType
<1> HIDE DEF f, U
<1> QED BY <1>1, <1>3, <1>4, <1>5, <1>6, <1>7

\* More retries wait no shorter.
LEMMA DelaysGrow == ASSUME NEW n \in Nat PROVE \A m \in 0..n : Advice!TotalDelay(m) <= Advice!TotalDelay(n)
<1> DEFINE T == {k \in Nat : \A m \in 0..k : Advice!TotalDelay(m) <= Advice!TotalDelay(k)}
<1>1. 0 \in T
  BY DelaysAddUp
<1>2. ASSUME NEW k \in Nat, k \in T PROVE k + 1 \in T
  <2>1. \A m \in 0..(k + 1) : Advice!TotalDelay(m) \in Nat
    BY DelaysAddUp
  <2>2. Advice!TotalDelay(k + 1) = Advice!TotalDelay(k) + Advice!Delay(k) /\ Advice!Delay(k) \in Nat
    BY DelaysAddUp, DelayType
  <2> QED BY <1>2, <2>1, <2>2
<1> HIDE DEF T
<1>3. n \in T
  BY <1>1, <1>2, Induction
<1> QED BY <1>3 DEF T

RunShapes ==
    /\ step = [c \in AdviceCalls |-> step[c]] /\ tries = [c \in AdviceCalls |-> tries[c]]
    /\ waited = [c \in AdviceCalls |-> waited[c]] /\ answer = [c \in AdviceCalls |-> answer[c]]
    /\ meta = [c \in AdviceCalls |-> meta[c]] /\ outcome = [c \in AdviceCalls |-> outcome[c]]

\* A call has waited n times, once less than it has sent requests unless it is
\* about to send one.
Waits(c, n) ==
    /\ waited[c] = Advice!TotalDelay(n)
    /\ step[c] \in {"new", "sent"} => tries[c] = n
    /\ step[c] = "waiting" => tries[c] = n + 1 /\ n < AdviceRetries
    /\ tries[c] \in {n, n + 1}

\* What it was told goes with the last of them.
ToldOf(c, m) ==
    /\ m.call = c
    /\ m.usage = IF tries[c] = 0 \/ answer[c].form \in Advice!Errors THEN None ELSE {tries[c]}

RunOf(c) ==
    /\ step[c] \in {"new", "sent", "waiting", "answered", "failed", "judged", "done"}
    /\ \E n \in 0..AdviceRetries : Waits(c, n)
    /\ step[c] = "new" => tries[c] = 0
    /\ step[c] \in {"waiting", "answered", "failed"} => tries[c] # 0
    /\ step[c] = "answered" => answer[c].form \notin Advice!Errors
    /\ step[c] \in {"waiting", "failed"} => answer[c].form \in Advice!Errors
    /\ step[c] = "judged" => ToldOf(c, meta[c])
    /\ step[c] \notin {"judged", "done"} => outcome[c] = None
    /\ outcome[c] # None => step[c] = "done" /\ (outcome[c].meta # None => ToldOf(c, outcome[c].meta))

RunInv == RunShapes /\ \A c \in AdviceCalls : RunOf(c)

\* The setting of retries is a number that the most of them bounds.
LEMMA RetriesGiven == AdviceRetries \in Nat /\ AdviceRetryLimit \in Nat /\ AdviceRetries <= AdviceRetryLimit
  BY AdviceAssumption DEF Advice!RetriesAssumption

\* No call has a run at first.
LEMMA RunsBegin == Advice!Init => RunInv
<1> SUFFICES ASSUME Advice!Init PROVE RunInv
  OBVIOUS
<1>1. RunShapes
  BY DEF Advice!Init, RunShapes
<1>2. ASSUME NEW c \in AdviceCalls PROVE RunOf(c)
  <2>1. step[c] = "new" /\ tries[c] = 0 /\ waited[c] = 0 /\ outcome[c] = None
    BY DEF Advice!Init
  <2>2. Waits(c, 0) /\ 0 \in 0..AdviceRetries
    BY <2>1, DelaysAddUp, RetriesGiven DEF Waits
  <2> QED BY <2>1, <2>2 DEF RunOf
<1> QED BY <1>1, <1>2 DEF RunInv

\* A step of one call leaves the others where they are.
Mine(c) ==
    /\ RunShapes'
    /\ \A d \in AdviceCalls \ {c} :
        /\ step'[d] = step[d] /\ tries'[d] = tries[d] /\ waited'[d] = waited[d]
        /\ answer'[d] = answer[d] /\ meta'[d] = meta[d] /\ outcome'[d] = outcome[d]

\* A step of a call keeps the runs of the others.
LEMMA OthersKept == ASSUME RunInv, NEW c \in AdviceCalls, Mine(c), RunOf(c)' PROVE RunInv'
<1>1. ASSUME NEW d \in AdviceCalls \ {c} PROVE RunOf(d)'
  <2>1. /\ RunOf(d) /\ step'[d] = step[d] /\ tries'[d] = tries[d] /\ waited'[d] = waited[d]
        /\ answer'[d] = answer[d] /\ meta'[d] = meta[d] /\ outcome'[d] = outcome[d]
    BY <1>1 DEF RunInv, Mine
  <2>2. PICK n \in 0..AdviceRetries : Waits(d, n)
    BY <2>1 DEF RunOf
  <2>3. Waits(d, n)'
    BY <2>1, <2>2 DEF Waits
  <2>4. \A m : ToldOf(d, m)' <=> ToldOf(d, m)
    BY <2>1 DEF ToldOf
  <2> QED BY <2>1, <2>3, <2>4 DEF RunOf
<1> QED BY <1>1 DEF RunInv, Mine

\* Sending starts a run, or ends one that has no request.
LEMMA SendRuns == ASSUME RunInv, NEW c \in AdviceCalls, Advice!Send(c) PROVE RunInv'
<1>1. /\ step[c] = "new" /\ tries' = tries /\ waited' = waited /\ answer' = answer
      /\ RunOf(c) /\ RunShapes
  BY DEF Advice!Send, RunInv
<1>2. Mine(c)
  BY <1>1 DEF Advice!Send, Advice!Goes, Mine, RunShapes
<1>3. \/ step'[c] = "done" /\ outcome'[c] = [accepted |-> FALSE, meta |-> None]
      \/ step'[c] = "sent" /\ outcome'[c] = outcome[c]
      \/ step'[c] = "judged" /\ outcome'[c] = outcome[c] /\ meta'[c].call = c /\ meta'[c].usage = None
  <2>1. CASE Advice!Goes(c, "done") /\ outcome' = [outcome EXCEPT ![c] = [accepted |-> FALSE, meta |-> None]]
    BY <1>1, <2>1 DEF Advice!Goes, RunShapes
  <2>2. CASE Advice!Goes(c, "sent") /\ UNCHANGED outcome
    BY <1>1, <2>2 DEF Advice!Goes, RunShapes
  <2>3. CASE /\ Advice!Goes(c, "judged") /\ UNCHANGED outcome
             /\ meta' = [meta EXCEPT ![c] = [call |-> c, status |-> "preflight_rejected", usage |-> None]]
    BY <1>1, <2>3 DEF Advice!Goes, RunShapes
  <2> QED BY <2>1, <2>2, <2>3 DEF Advice!Send
<1>4. RunOf(c)'
  <2>1. tries[c] = 0 /\ outcome[c] = None
    BY <1>1 DEF RunOf
  <2>2. PICK n \in 0..AdviceRetries : Waits(c, n)
    BY <1>1 DEF RunOf
  <2>3. n = 0 /\ Waits(c, n)'
    BY <1>1, <1>3, <2>1, <2>2 DEF Waits
  <2> QED BY <1>1, <1>3, <2>1, <2>2, <2>3 DEF RunOf, ToldOf
<1> QED BY <1>2, <1>4, OthersKept

\* A try counts itself; only a client that retries waits for another.
LEMMA AttemptRuns == ASSUME RunInv, NEW c \in AdviceCalls, Advice!Attempt(c) PROVE RunInv'
<1>1. /\ step[c] = "sent" /\ waited' = waited /\ meta' = meta /\ outcome' = outcome
      /\ RunOf(c) /\ RunShapes /\ tries'[c] = tries[c] + 1
  BY DEF Advice!Attempt, RunInv, RunShapes
<1>2. Mine(c)
  BY <1>1 DEF Advice!Attempt, Advice!Goes, Mine, RunShapes
<1>3. \/ step'[c] = "answered" /\ answer'[c].form \notin Advice!Errors
      \/ step'[c] = "waiting" /\ answer'[c].form \in Advice!Errors /\ tries[c] < AdviceRetries
      \/ step'[c] = "failed" /\ answer'[c].form \in Advice!Errors
  <2>1. CASE \E a \in Advice!Responses(c) : answer' = [answer EXCEPT ![c] = a] /\ Advice!Goes(c, "answered")
    <3>1. PICK a \in Advice!Responses(c) : answer' = [answer EXCEPT ![c] = a] /\ Advice!Goes(c, "answered")
      BY <2>1
    <3>2. a.form \in {"garbled", "cut", "filtered", "oversize", "unfit", "proposal"}
      <4> DEFINE bare(form) == [form |-> form, spec |-> None, ranks |-> <<>>, binds |-> FALSE]
      <4>1. \/ \E form \in {"garbled", "cut", "filtered", "oversize"} : a = bare(form)
            \/ \E r : a = [bare("proposal") EXCEPT !.ranks = r]
            \/ a = [bare("unfit") EXCEPT !.binds = TRUE]
            \/ \E s : a = [bare("proposal") EXCEPT !.spec = s]
            \/ \E s : a = [bare("proposal") EXCEPT !.spec = s, !.binds = TRUE]
        BY <3>1 DEF Advice!Responses, Advice!Bare
      <4>2. CASE \E form \in {"garbled", "cut", "filtered", "oversize"} : a = bare(form)
        BY <4>2
      <4>3. \A form, r, s :
                /\ [bare(form) EXCEPT !.ranks = r].form = form /\ [bare(form) EXCEPT !.binds = TRUE].form = form
                /\ [bare(form) EXCEPT !.spec = s].form = form
                /\ [bare(form) EXCEPT !.spec = s, !.binds = TRUE].form = form
        OBVIOUS
      <4>4. CASE \E r : a = [bare("proposal") EXCEPT !.ranks = r]
        BY <4>3, <4>4
      <4>5. CASE a = [bare("unfit") EXCEPT !.binds = TRUE]
        BY <4>3, <4>5
      <4>6. CASE \E s : a = [bare("proposal") EXCEPT !.spec = s]
        BY <4>3, <4>6
      <4>7. CASE \E s : a = [bare("proposal") EXCEPT !.spec = s, !.binds = TRUE]
        BY <4>3, <4>7
      <4> QED BY <4>1, <4>2, <4>4, <4>5, <4>6, <4>7
    <3>3. answer'[c] = a /\ step'[c] = "answered"
      BY <1>1, <3>1 DEF Advice!Goes, RunShapes
    <3> QED BY <3>2, <3>3 DEF Advice!Errors
  <2>2. CASE \E e \in Advice!Errors :
            /\ answer' = [answer EXCEPT ![c] = Advice!Bare(e)]
            /\ Advice!Goes(c, IF client = "gigachat" /\ tries[c] < AdviceRetries /\ Advice!Retried(e)
                              THEN "waiting" ELSE "failed")
    <3>1. PICK e \in Advice!Errors :
            /\ answer' = [answer EXCEPT ![c] = Advice!Bare(e)]
            /\ Advice!Goes(c, IF client = "gigachat" /\ tries[c] < AdviceRetries /\ Advice!Retried(e)
                              THEN "waiting" ELSE "failed")
      BY <2>2
    <3>2. answer'[c] = Advice!Bare(e) /\ Advice!Bare(e).form = e
      BY <1>1, <3>1 DEF RunShapes, Advice!Bare
    <3> QED BY <1>1, <3>1, <3>2 DEF Advice!Goes, RunShapes
  <2> QED BY <2>1, <2>2 DEF Advice!Attempt
<1>4. RunOf(c)'
  <2>1. PICK n \in 0..AdviceRetries : Waits(c, n)
    BY <1>1 DEF RunOf
  <2>2. tries[c] = n /\ tries'[c] = n + 1 /\ n \in Nat
    BY <1>1, <2>1, RetriesGiven DEF Waits
  <2>3. Waits(c, n)'
    BY <1>1, <1>3, <2>1, <2>2 DEF Waits
  <2>4. outcome[c] = None
    BY <1>1 DEF RunOf
  <2> QED BY <1>1, <1>3, <2>1, <2>2, <2>3, <2>4 DEF RunOf, ToldOf, Advice!Errors
<1> QED BY <1>2, <1>4, OthersKept

\* Waiting adds the delay of the latest try.
LEMMA WaitRuns == ASSUME RunInv, NEW c \in AdviceCalls, Advice!Wait(c) PROVE RunInv'
<1>1. /\ step[c] = "waiting" /\ tries' = tries /\ meta' = meta /\ outcome' = outcome
      /\ RunOf(c) /\ RunShapes /\ waited'[c] = waited[c] + Advice!Delay(tries[c] - 1) /\ step'[c] = "sent"
  BY DEF Advice!Wait, Advice!Goes, RunInv, RunShapes
<1>2. Mine(c)
  BY <1>1 DEF Advice!Wait, Advice!Goes, Mine, RunShapes
<1>3. RunOf(c)'
  <2>1. PICK n \in 0..AdviceRetries : Waits(c, n)
    BY <1>1 DEF RunOf
  <2>2. tries[c] = n + 1 /\ n + 1 \in 0..AdviceRetries /\ tries[c] - 1 = n /\ n \in Nat
    BY <1>1, <2>1, RetriesGiven DEF Waits
  <2>3. waited'[c] = Advice!TotalDelay(n + 1)
    BY <1>1, <2>1, <2>2, DelaysAddUp DEF Waits
  <2>4. Waits(c, n + 1)'
    BY <1>1, <2>2, <2>3 DEF Waits
  <2>5. outcome[c] = None
    BY <1>1 DEF RunOf
  <2> QED BY <1>1, <2>2, <2>4, <2>5 DEF RunOf
<1> QED BY <1>2, <1>3, OthersKept

\* The judged call gets metadata of its own.
LEMMA JudgeRuns == ASSUME RunInv, NEW c \in AdviceCalls, Advice!Judge(c) PROVE RunInv'
<1>1. /\ step[c] \in {"answered", "failed"} /\ tries' = tries /\ waited' = waited /\ answer' = answer /\ outcome' = outcome
      /\ RunOf(c) /\ RunShapes /\ step'[c] = "judged"
      /\ meta'[c].call = c /\ meta'[c].usage = IF step[c] = "failed" THEN None ELSE {tries[c]}
  BY DEF Advice!Judge, Advice!Goes, Advice!Usage, RunInv, RunShapes
<1>2. Mine(c)
  BY <1>1 DEF Advice!Judge, Advice!Goes, Mine, RunShapes
<1>3. RunOf(c)'
  <2>1. PICK n \in 0..AdviceRetries : Waits(c, n)
    BY <1>1 DEF RunOf
  <2>2. Waits(c, n)'
    BY <1>1, <2>1 DEF Waits
  <2>3. outcome[c] = None /\ tries[c] # 0 /\ (step[c] = "failed" <=> answer[c].form \in Advice!Errors)
    BY <1>1 DEF RunOf
  <2> QED BY <1>1, <2>2, <2>3 DEF RunOf, ToldOf
<1> QED BY <1>2, <1>3, OthersKept

\* A call ends with the metadata it has.
LEMMA ConcludeRuns == ASSUME RunInv, NEW c \in AdviceCalls, Advice!Conclude(c) PROVE RunInv'
<1>1. /\ step[c] = "judged" /\ tries' = tries /\ waited' = waited /\ answer' = answer /\ meta' = meta
      /\ RunOf(c) /\ RunShapes /\ step'[c] = "done" /\ outcome'[c].meta = meta[c]
  BY DEF Advice!Conclude, Advice!Goes, Advice!Carried, RunInv, RunShapes
<1>2. Mine(c)
  BY <1>1 DEF Advice!Conclude, Advice!Goes, Mine, RunShapes
<1>3. RunOf(c)'
  <2>1. PICK n \in 0..AdviceRetries : Waits(c, n)
    BY <1>1 DEF RunOf
  <2>2. Waits(c, n)'
    BY <1>1, <2>1 DEF Waits
  <2>3. ToldOf(c, meta[c])
    BY <1>1 DEF RunOf
  <2> QED BY <1>1, <2>2, <2>3 DEF RunOf, ToldOf
<1> QED BY <1>2, <1>3, OthersKept

\* Every step keeps the runs of all calls.
LEMMA AdviceRuns == ASSUME RunInv, Advice!Next PROVE RunInv'
  BY SendRuns, AttemptRuns, WaitRuns, JudgeRuns, ConcludeRuns DEF Advice!Next, Advice!Step

\* So every call is told of its own run.
LEMMA RunsTold == RunInv => Advice!RunsAreTold
<1> SUFFICES ASSUME RunInv, NEW c \in AdviceCalls
             PROVE  /\ tries[c] <= AdviceRetries + 1 /\ waited[c] <= Advice!TotalDelay(AdviceRetryLimit)
                    /\ outcome[c] # None /\ outcome[c].meta # None => ToldOf(c, outcome[c].meta)
  BY DEF Advice!RunsAreTold, ToldOf
<1>1. RunOf(c)
  BY DEF RunInv
<1>2. PICK n \in 0..AdviceRetries : Waits(c, n)
  BY <1>1 DEF RunOf
<1>3. tries[c] <= AdviceRetries + 1
  BY <1>2, RetriesGiven DEF Waits
<1>4. waited[c] <= Advice!TotalDelay(AdviceRetryLimit)
  BY <1>2, RetriesGiven, DelaysGrow DEF Waits
<1> QED BY <1>1, <1>3, <1>4 DEF RunOf

RunsHold == which = "advice" => RunInv

\* Whatever the tasks and the answers, however calls overlap and requests fail,
\* a call is told of its own run, keeps to its retries, and waits no longer
\* than the longest run.
THEOREM CallsTellOfTheirRuns == SynthesisSpec => []RunsAreTold
<1>1. SynthesisInit => RunsHold
  BY RunsBegin DEF SynthesisInit, RunsHold
<1>2. RunsHold /\ [SynthesisNext]_all => RunsHold'
  <2> SUFFICES ASSUME RunsHold, [SynthesisNext]_all PROVE RunsHold'
    OBVIOUS
  <2>1. CASE which = "advice" /\ Advice!Next /\ UNCHANGED which
    BY <2>1, AdviceRuns DEF RunsHold
  <2>2. CASE which # "advice" /\ UNCHANGED which
    BY <2>2 DEF RunsHold
  <2>3. CASE UNCHANGED all
    BY <2>3, ZenonT(60) DEF all, shared, ofAdvice, RunsHold, RunInv, RunShapes, RunOf, Waits, ToldOf
  <2> QED BY <2>1, <2>2, <2>3 DEF SynthesisNext
<1>3. RunsHold => RunsAreTold
  BY RunsTold DEF RunsHold, RunsAreTold
<1> QED BY <1>1, <1>2, <1>3, PTL DEF SynthesisSpec

=============================================================================
