----------------------------- MODULE FoldProofs -----------------------------
(***************************************************************************)
(* What the folds of the community modules compute.  The induction          *)
(* theorems of the library are about an operator, which no prover           *)
(* instantiates; those below are about a set, and follow from WFMin.  They  *)
(* give what a fold over a sequence, and a sum over a finite set, are.      *)
(***************************************************************************)
EXTENDS FiniteSetsExt, FiniteSetTheorems, TLAPS

-----------------------------------------------------------------------------
(* Induction *)

\* A set that holds 0 and the successors of its members holds every number.
LEMMA NatSet ==
  ASSUME NEW S, 0 \in S, \A n \in Nat : n \in S => n + 1 \in S
  PROVE  \A n \in Nat : n \in S
<1> SUFFICES ASSUME \E n \in Nat : n \notin S PROVE FALSE
  OBVIOUS
<1>1. PICK R : IsWellFoundedOn(R, Nat) /\ \A i, j \in Nat : i < j => <<i, j>> \in R
  <2>1. IsWellFoundedOn({ss \in Nat \X Nat : ss[1] < ss[2]}, Nat)
    BY NatLessThanWellFounded DEF OpToRel
  <2>2. QED BY <2>1
<1> DEFINE T == {n \in Nat : n \notin S}
<1>2. T \subseteq Nat /\ T # {} OBVIOUS
<1>3. PICK x \in T : \A y \in T : <<y, x>> \notin R
  <2> HIDE DEF T
  <2>1. QED BY <1>1, <1>2, WFMin
<1>4. x \in Nat /\ x # 0 BY <1>3
<1>5. x - 1 \in Nat /\ x - 1 < x /\ (x - 1) + 1 = x BY <1>4
<1>6. x - 1 \in S BY <1>1, <1>3, <1>4, <1>5
<1>7. QED BY <1>3, <1>5, <1>6

\* The same for a bounded range.
LEMMA RangeSet ==
  ASSUME NEW S, NEW n \in Nat, 0 \in S, \A k \in 1..n : k - 1 \in S => k \in S
  PROVE  \A k \in 0..n : k \in S
<1> DEFINE T == {k \in Nat : k <= n => k \in S}
<1>1. 0 \in T OBVIOUS
<1>2. ASSUME NEW k \in Nat, k \in T PROVE k + 1 \in T
  <2> SUFFICES ASSUME k + 1 <= n PROVE k + 1 \in S
    OBVIOUS
  <2>1. k \in S BY <1>2
  <2>2. k + 1 \in 1..n /\ (k + 1) - 1 = k OBVIOUS
  <2>3. QED BY <2>1, <2>2
<1>3. \A k \in Nat : k \in T
  <2> HIDE DEF T
  <2>1. QED BY <1>1, <1>2, NatSet
<1>4. QED BY <1>3

\* What holds of the empty set, and of a set from which one element is taken if it
\* holds of the rest, holds of every part of a finite set.
LEMMA SubsetInduction ==
  ASSUME NEW S, IsFiniteSet(S), NEW choice, \A s \in SUBSET S : s # {} => choice[s] \in s,
         NEW Good, {} \in Good,
         \A s \in SUBSET S : s # {} /\ s \ {choice[s]} \in Good => s \in Good
  PROVE  \A s \in SUBSET S : s \in Good
<1> DEFINE T == {n \in Nat : \A s \in SUBSET S : Cardinality(s) = n => s \in Good}
<1>1. \A s \in SUBSET S : IsFiniteSet(s) /\ Cardinality(s) \in Nat
  BY FS_Subset, FS_CardinalityType
<1>2. 0 \in T BY <1>1, FS_EmptySet
<1>3. ASSUME NEW n \in Nat, n \in T PROVE n + 1 \in T
  <2> SUFFICES ASSUME NEW s \in SUBSET S, Cardinality(s) = n + 1 PROVE s \in Good
    OBVIOUS
  <2>1. Cardinality(s) # 0 OBVIOUS
  <2>2. s # {} /\ choice[s] \in s BY <2>1, FS_EmptySet
  <2>3. Cardinality(s \ {choice[s]}) = Cardinality(s) - 1 BY <1>1, <2>2, FS_RemoveElement
  <2>4. Cardinality(s \ {choice[s]}) = n BY <2>3
  <2>5. s \ {choice[s]} \in Good BY <1>3, <2>4
  <2>6. QED BY <2>2, <2>5
<1>4. \A n \in Nat : n \in T
  <2> HIDE DEF T
  <2>1. QED BY <1>2, <1>3, NatSet
<1>5. QED BY <1>1, <1>4

-----------------------------------------------------------------------------
(* Folds *)

\* f is what MapThenFoldSet computes of the sets in D, for an operation given as a
\* function.
IsFold(f, D, choice, op, base) ==
  \A s \in D : f[s] = IF s = {} THEN base ELSE op[<<f[s \ {choice[s]}], choice[s]>>]

\* There is a fold: the recursion of MapThenFoldSet ends.
LEMMA FoldExists ==
  ASSUME NEW S, IsFiniteSet(S), NEW choice, \A s \in SUBSET S : s # {} => choice[s] \in s,
         NEW V, NEW base \in V, NEW op \in [V \X S -> V]
  PROVE  \E f \in [SUBSET S -> V] : IsFold(f, SUBSET S, choice, op, base)
<1> DEFINE Small(n) == {s \in SUBSET S : Cardinality(s) <= n}
           Built(n) == \E f \in [Small(n) -> V] : IsFold(f, Small(n), choice, op, base)
           T == {n \in Nat : Built(n)}
<1>1. \A s \in SUBSET S : IsFiniteSet(s) /\ Cardinality(s) \in Nat /\ Cardinality(s) <= Cardinality(S)
  BY FS_Subset, FS_CardinalityType
<1>2. \A s \in SUBSET S : s # {} => /\ s \ {choice[s]} \in SUBSET S
                                    /\ Cardinality(s \ {choice[s]}) = Cardinality(s) - 1
  BY <1>1, FS_RemoveElement
<1>3. 0 \in T
  <2>1. \A s \in Small(0) : s = {} BY <1>1, FS_EmptySet
  <2>2. PICK f : f = [s \in Small(0) |-> base] OBVIOUS
  <2>3. f \in [Small(0) -> V] /\ IsFold(f, Small(0), choice, op, base)
    BY <2>1, <2>2 DEF IsFold
  <2>4. QED BY <2>3
<1>4. ASSUME NEW n \in Nat, n \in T PROVE n + 1 \in T
  <2>1. PICK f \in [Small(n) -> V] : IsFold(f, Small(n), choice, op, base) BY <1>4
  <2>2. \A s \in Small(n + 1) : s # {} => choice[s] \in S /\ s \ {choice[s]} \in Small(n)
    BY <1>1, <1>2
  <2>3. PICK g : g = [s \in Small(n + 1) |->
                        IF s = {} THEN base ELSE op[<<f[s \ {choice[s]}], choice[s]>>]]
    OBVIOUS
  <2>4. g \in [Small(n + 1) -> V]
    <3>1. ASSUME NEW s \in Small(n + 1) PROVE g[s] \in V
      <4>1. CASE s = {} BY <2>3, <4>1
      <4>2. CASE s # {}
        <5>1. f[s \ {choice[s]}] \in V /\ choice[s] \in S BY <2>1, <2>2, <4>2
        <5>2. QED BY <2>3, <4>2, <5>1
      <4>3. QED BY <4>1, <4>2
    <3>2. QED BY <2>3, <3>1
  <2>5. \A s \in Small(n) : s \in Small(n + 1) BY <1>1
  <2>6. \A s \in Small(n) : g[s] = f[s] BY <2>1, <2>3, <2>5 DEF IsFold
  <2>7. IsFold(g, Small(n + 1), choice, op, base)
    <3> SUFFICES ASSUME NEW s \in Small(n + 1), s # {}
                 PROVE  g[s] = op[<<g[s \ {choice[s]}], choice[s]>>]
      BY <2>3 DEF IsFold
    <3>1. g[s \ {choice[s]}] = f[s \ {choice[s]}] BY <2>2, <2>6
    <3>2. QED BY <2>3, <3>1
  <2>8. Built(n + 1)
    <3> HIDE DEF Small
    <3>1. QED BY <2>4, <2>7
  <2>9. QED
    <3> HIDE DEF Built
    <3>1. QED BY <2>8
<1>5. Cardinality(S) \in T
  <2>1. \A n \in Nat : n \in T
    <3> HIDE DEF T
    <3>1. QED BY <1>3, <1>4, NatSet
  <2>2. Cardinality(S) \in Nat BY FS_CardinalityType
  <2>3. QED BY <2>1, <2>2
<1>6. Small(Cardinality(S)) = SUBSET S BY <1>1
<1>7. PICK f \in [Small(Cardinality(S)) -> V] :
        IsFold(f, Small(Cardinality(S)), choice, op, base)
  BY <1>5
<1>8. f \in [SUBSET S -> V] /\ IsFold(f, SUBSET S, choice, op, base)
  <2> HIDE DEF Small
  <2>1. QED BY <1>6, <1>7
<1>9. QED BY <1>8

-----------------------------------------------------------------------------
(* Sums *)

\* The units of a function: as many of each argument as its value says.
UnitsOf(value, S, max) == {u \in S \X (1..max) : u[2] <= value[u[1]]}

\* A sum over a finite set is the number of units.
LEMMA SumCounts ==
  ASSUME NEW S, IsFiniteSet(S), NEW max \in Nat, NEW value \in [S -> 0..max]
  PROVE  /\ SumFunction(value) = Cardinality(UnitsOf(value, S, max))
         /\ SumFunction(value) \in Nat
<1> DEFINE any(s) == CHOOSE x \in s : TRUE
<1>1. PICK f : /\ SumFunction(value) = f[S]
               /\ f = CHOOSE g : g = [s \in SUBSET S |->
                        IF s = {} THEN 0 ELSE value[any(s)] + g[s \ {any(s)}]]
  BY DEF SumFunction, SumFunctionOnSet, FoldFunctionOnSet, MapThenFoldSet
<1>2. PICK choice : choice = [s \in SUBSET S |-> any(s)] OBVIOUS
<1>3. \A s \in SUBSET S : choice[s] = any(s) /\ (s # {} => choice[s] \in s) BY <1>2
<1>4. \E g : g = [s \in SUBSET S |-> IF s = {} THEN 0 ELSE value[any(s)] + g[s \ {any(s)}]]
  <2>1. PICK op : op = [p \in Nat \X S |-> value[p[2]] + p[1]] OBVIOUS
  <2>2. op \in [Nat \X S -> Nat] BY <2>1
  <2>3. PICK g \in [SUBSET S -> Nat] : IsFold(g, SUBSET S, choice, op, 0)
    <3>1. \A s \in SUBSET S : s # {} => choice[s] \in s BY <1>3
    <3>2. 0 \in Nat OBVIOUS
    <3>3. \E g \in [SUBSET S -> Nat] : IsFold(g, SUBSET S, choice, op, 0)
      BY <2>2, <3>1, <3>2, FoldExists, Zenon
    <3>4. QED BY <3>3
  <2>4. ASSUME NEW s \in SUBSET S, s # {} PROVE g[s] = value[any(s)] + g[s \ {any(s)}]
    <3>1. g[s] = op[<<g[s \ {choice[s]}], choice[s]>>] BY <2>3, <2>4 DEF IsFold
    <3>2. choice[s] \in S /\ s \ {choice[s]} \in SUBSET S BY <1>3, <2>4
    <3>3. g[s] = value[choice[s]] + g[s \ {choice[s]}] BY <2>1, <2>3, <3>1, <3>2
    <3>4. QED BY <1>3, <3>3
  <2>5. g[{}] = 0 BY <2>3 DEF IsFold
  <2>6. g = [s \in SUBSET S |-> IF s = {} THEN 0 ELSE value[any(s)] + g[s \ {any(s)}]]
    BY <2>3, <2>4, <2>5
  <2>7. QED BY <2>6
<1>5. f = [s \in SUBSET S |-> IF s = {} THEN 0 ELSE value[any(s)] + f[s \ {any(s)}]]
  BY <1>1, <1>4
<1>6. f[{}] = 0 BY <1>5
<1>7. \A s \in SUBSET S : s # {} => f[s] = value[choice[s]] + f[s \ {choice[s]}] BY <1>3, <1>5
<1> DEFINE Good == {s \in SUBSET S : /\ f[s] \in Nat /\ IsFiniteSet(UnitsOf(value, s, max))
                                     /\ f[s] = Cardinality(UnitsOf(value, s, max))}
<1>8. {} \in Good
  <2>1. UnitsOf(value, {}, max) = {} BY DEF UnitsOf
  <2>2. QED BY <1>6, <2>1, FS_EmptySet
<1>9. ASSUME NEW s \in SUBSET S, s # {}, s \ {choice[s]} \in Good PROVE s \in Good
  <2>1. PICK x \in S : x = choice[s] /\ x \in s BY <1>3, <1>9
  <2>2. PICK rest \in SUBSET S : rest = s \ {x} OBVIOUS
  <2>3. PICK A : A = UnitsOf(value, rest, max) OBVIOUS
  <2>4. /\ f[rest] \in Nat /\ IsFiniteSet(A) /\ f[rest] = Cardinality(A)
    BY <1>9, <2>1, <2>2, <2>3
  <2>5. PICK k \in 0..max : k = value[x] OBVIOUS
  <2>6. PICK B : B = {x} \X (1..k) OBVIOUS
  <2>7. IsFiniteSet(B) /\ Cardinality(B) = k
    <3>1. PICK C : C = {x} OBVIOUS
    <3>2. PICK D : D = 1..k OBVIOUS
    <3>3. IsFiniteSet(C) /\ Cardinality(C) = 1 BY <3>1, FS_Singleton
    <3>4. IsFiniteSet(D) /\ Cardinality(D) = k
      <4>1. 1 \in Int /\ k \in Int OBVIOUS
      <4>2. IsFiniteSet(1..k) /\ Cardinality(1..k) = IF 1 > k THEN 0 ELSE k - 1 + 1
        BY <4>1, FS_Interval, Zenon
      <4>3. QED BY <3>2, <4>2
    <3>5. IsFiniteSet(C \X D) /\ Cardinality(C \X D) = Cardinality(C) * Cardinality(D)
      BY <3>3, <3>4, FS_Product, Zenon
    <3>6. QED BY <2>6, <3>1, <3>2, <3>3, <3>4, <3>5
  <2>8. UnitsOf(value, s, max) = A \cup B
    BY <2>1, <2>2, <2>3, <2>5, <2>6 DEF UnitsOf
  <2>9. A \cap B = {} BY <2>2, <2>3, <2>6 DEF UnitsOf
  <2>10. /\ IsFiniteSet(A \cup B)
         /\ Cardinality(A \cup B) = Cardinality(A) + Cardinality(B) - Cardinality(A \cap B)
    BY <2>4, <2>7, FS_Union
  <2>11. Cardinality(A \cap B) = 0 BY <2>9, FS_EmptySet
  <2>12. f[s] = k + f[rest] BY <1>7, <1>9, <2>1, <2>2, <2>5
  <2>13. f[s] \in Nat /\ f[s] = Cardinality(A \cup B)
    BY <2>4, <2>7, <2>10, <2>11, <2>12
  <2>14. QED BY <2>8, <2>10, <2>13
<1>10. S \in Good
  <2> HIDE DEF Good
  <2>1. QED BY <1>3, <1>8, <1>9, SubsetInduction
<1>11. QED BY <1>1, <1>10

-----------------------------------------------------------------------------
(* Sequences *)

\* A nonempty set of positions has a last one.
LEMMA MaxIn ==
  ASSUME NEW n \in Nat, NEW s \in SUBSET (1..n), s # {}
  PROVE  Max(s) \in s /\ \A i \in s : Max(s) >= i
<1> DEFINE T == {k \in 0..n : \A t \in SUBSET (1..k) : t # {} => \E x \in t : \A i \in t : x >= i}
<1>1. 0 \in T
  <2> SUFFICES ASSUME NEW t \in SUBSET (1..0), t # {} PROVE FALSE
    OBVIOUS
  <2>1. PICK i \in t : i \in 1..0 OBVIOUS
  <2>2. QED BY <2>1
<1>2. ASSUME NEW k \in 1..n, k - 1 \in T PROVE k \in T
  <2> SUFFICES ASSUME NEW t \in SUBSET (1..k), t # {} PROVE \E x \in t : \A i \in t : x >= i
    OBVIOUS
  <2>1. CASE k \in t BY <2>1
  <2>2. CASE k \notin t
    <3>1. t \in SUBSET (1..(k - 1)) BY <2>2
    <3>2. QED BY <1>2, <3>1
  <2>3. QED BY <2>1, <2>2
<1>3. n \in T
  <2> HIDE DEF T
  <2>1. QED BY <1>1, <1>2, RangeSet
<1>4. \E x \in s : \A i \in s : x >= i BY <1>3
<1>5. QED BY <1>4 DEF Max

\* And a first one.
LEMMA MinIn ==
  ASSUME NEW n \in Nat, NEW s \in SUBSET (1..n), s # {}
  PROVE  Min(s) \in s /\ \A i \in s : Min(s) <= i
<1> DEFINE T == {(n + 1) - i : i \in s}
<1>1. T \in SUBSET (1..n) /\ T # {}
  <2>1. \A i \in s : i \in 1..n /\ (n + 1) - i \in 1..n OBVIOUS
  <2>2. T \in SUBSET (1..n) BY <2>1
  <2>3. PICK i \in s : TRUE OBVIOUS
  <2>4. (n + 1) - i \in T BY <2>3
  <2>5. QED BY <2>2, <2>4
<1>2. PICK x \in T : \A y \in T : x >= y
  <2> HIDE DEF T
  <2>1. QED BY <1>1, MaxIn
<1>3. PICK i \in s : x = (n + 1) - i BY <1>2
<1>4. \A j \in s : i <= j
  <2> SUFFICES ASSUME NEW j \in s PROVE i <= j
    OBVIOUS
  <2>1. x >= (n + 1) - j BY <1>2
  <2>2. QED BY <1>3, <2>1
<1>5. QED BY <1>4 DEF Min

\* The positions of a prefix end with its length.
LEMMA MaxOfPrefix ==
  ASSUME NEW n \in Nat, NEW k \in 1..n
  PROVE  Max(1..k) = k /\ (1..k) \ {k} = 1..(k - 1)
<1>1. (1..k) \in SUBSET (1..n) /\ k \in 1..k OBVIOUS
<1>2. Max(1..k) \in 1..k /\ Max(1..k) >= k BY <1>1, MaxIn
<1>3. QED BY <1>2

\* g is what FoldLeft computes of the positions of a sequence of length n, for an
\* operation on values in V and positions.
SequenceFold(g, n, V, op, base) ==
  /\ DOMAIN g = SUBSET (1..n)
  /\ g[{}] = base
  /\ \A s \in SUBSET (1..n) : s # {} =>
       /\ Max(s) \in 1..n
       /\ g[s \ {Max(s)}] \in V
       /\ g[s] = op[<<g[s \ {Max(s)}], Max(s)>>]
  /\ g = [s \in SUBSET (1..n) |-> g[s]]

LEMMA SequenceFoldExists ==
  ASSUME NEW n \in Nat, NEW V, NEW base \in V, NEW op \in [V \X (1..n) -> V]
  PROVE  \E g : SequenceFold(g, n, V, op, base)
<1>1. PICK S : S = 1..n OBVIOUS
<1>2. PICK choice : choice = [s \in SUBSET S |-> Max(s)] OBVIOUS
<1>3. \A s \in SUBSET S : choice[s] = Max(s) BY <1>2
<1>4. \A s \in SUBSET S : s # {} => choice[s] \in s BY <1>1, <1>3, MaxIn
<1>5. IsFiniteSet(S)
  <2>1. 1 \in Int /\ n \in Int OBVIOUS
  <2>2. QED BY <1>1, <2>1, FS_Interval
<1>6. op \in [V \X S -> V] BY <1>1
<1>7. \E g \in [SUBSET S -> V] : IsFold(g, SUBSET S, choice, op, base)
  BY <1>4, <1>5, <1>6, FoldExists, Zenon
<1>8. PICK g \in [SUBSET S -> V] : IsFold(g, SUBSET S, choice, op, base) BY <1>7
<1>9. ASSUME NEW s \in SUBSET S, s # {}
      PROVE  /\ Max(s) \in S /\ g[s \ {Max(s)}] \in V
             /\ g[s] = op[<<g[s \ {Max(s)}], Max(s)>>]
  <2>1. g[s] = op[<<g[s \ {choice[s]}], choice[s]>>] BY <1>8, <1>9 DEF IsFold
  <2>2. choice[s] = Max(s) /\ choice[s] \in S BY <1>3, <1>4, <1>9
  <2>3. QED BY <1>8, <2>1, <2>2
<1>10. g[{}] = base BY <1>8 DEF IsFold
<1>11. QED BY <1>1, <1>8, <1>9, <1>10 DEF SequenceFold

\* f is computed by op from the set without its greatest position.
Unfolds(f, n, V, op, base) ==
  /\ f[{}] = base
  /\ \A s \in SUBSET (1..n) : s # {} /\ f[s \ {Max(s)}] \in V =>
       f[s] = op[<<f[s \ {Max(s)}], Max(s)>>]

\* run goes from base by op, one position at a time.
IsRun(run, n, V, op, base) ==
  /\ run \in [0..n -> V]
  /\ run[0] = base
  /\ \A k \in 1..n : run[k] = op[<<run[k - 1], k>>]

Goes(f, n, V, op, base) == \E run : IsRun(run, n, V, op, base) /\ f[1..n] = run[n]

\* A fold goes through the values of its prefixes, one position at a time.
LEMMA SequenceFoldRun ==
  ASSUME NEW n \in Nat, NEW V, NEW base \in V, NEW op \in [V \X (1..n) -> V], NEW f,
         Unfolds(f, n, V, op, base)
  PROVE  Goes(f, n, V, op, base)
<1> USE DEF Unfolds, IsRun, Goes
<1>1. PICK run : run = [k \in 0..n |-> f[1..k]] OBVIOUS
<1>2. run[0] = base
  <2>1. 1..0 = {} OBVIOUS
  <2>2. QED BY <1>1, <2>1
<1>3. ASSUME NEW k \in 1..n, run[k - 1] \in V
      PROVE  run[k] = op[<<run[k - 1], k>>] /\ run[k] \in V
  <2>1. (1..k) \in SUBSET (1..n) /\ 1..k # {} /\ k \in 0..n /\ k - 1 \in 0..n OBVIOUS
  <2>2. Max(1..k) = k /\ (1..k) \ {k} = 1..(k - 1) BY MaxOfPrefix
  <2>3. f[1..k] = run[k] /\ f[(1..k) \ {Max(1..k)}] = run[k - 1] BY <1>1, <2>1, <2>2
  <2>4. run[k] = op[<<run[k - 1], k>>] BY <1>3, <2>1, <2>2, <2>3
  <2>5. QED BY <1>3, <2>4
<1>4. \A k \in 0..n : run[k] \in V
  <2> DEFINE Good == {k \in 0..n : run[k] \in V}
  <2>1. 0 \in Good BY <1>2
  <2>2. ASSUME NEW k \in 1..n, k - 1 \in Good PROVE k \in Good
    <3>1. run[k - 1] \in V BY <2>2
    <3>2. run[k] \in V BY <1>3, <3>1
    <3>3. k \in 0..n OBVIOUS
    <3>4. QED BY <3>2, <3>3
  <2>3. \A k \in 0..n : k \in Good
    <3> HIDE DEF Good
    <3>1. QED BY <2>1, <2>2, RangeSet
  <2>4. QED BY <2>3
<1>5. run \in [0..n -> V] BY <1>1, <1>4
<1>6. \A k \in 1..n : run[k] = op[<<run[k - 1], k>>] BY <1>3, <1>4
<1>7. f[1..n] = run[n] BY <1>1
<1>8. QED BY <1>2, <1>5, <1>6, <1>7
=============================================================================
