----------------------------- MODULE SumTheorems -----------------------------
(***************************************************************************)
(* Facts about numbers, finite sets and sums that the proofs about the     *)
(* components share.  A sum is a fold over a finite set, whose recursion   *)
(* no prover unrolls; here it is shown to be the number of elements of a   *)
(* set, and what a sum gains and loses follows from that.                  *)
(***************************************************************************)
EXTENDS Integers, Functions, FiniteSets, FiniteSetTheorems, TLAPS

\* A set of natural numbers has a least one.
LEMMA Least ==
    ASSUME NEW S \in SUBSET Nat, S # {}
    PROVE  \E m \in S : \A n \in S : m <= n
<1>1. PICK m \in S : \A n \in S : ~(<<n, m>> \in OpToRel(<, Nat))
  BY NatLessThanWellFounded, WFMin
<1>2. \A n \in S : ~(n < m)
  BY <1>1 DEF OpToRel
<1> QED BY <1>2

------------------------------------------------------------------------------
\* f[x] units for each x of S.
Units(f, S) == {c \in S \X Nat : c[2] \in 1..f[c[1]]}

Counts(f, S) == IsFiniteSet(S) /\ \A x \in S : f[x] \in Nat

\* The units of one more element come on top of the others.
LEMMA UnitsOfOne ==
    ASSUME NEW f, NEW x, f[x] \in Nat
    PROVE  IsFiniteSet({x} \X (1..f[x])) /\ Cardinality({x} \X (1..f[x])) = f[x]
<1>1. IsFiniteSet({x}) /\ Cardinality({x}) = 1
  BY FS_Singleton
<1>2. IsFiniteSet(1..f[x]) /\ Cardinality(1..f[x]) = f[x]
  BY FS_Interval
<1>3. Cardinality({x} \X (1..f[x])) = Cardinality({x}) * Cardinality(1..f[x])
  BY <1>1, <1>2, FS_Product
<1>4. 1 * f[x] = f[x]
  OBVIOUS
<1> QED BY <1>1, <1>2, <1>3, <1>4, FS_Product

\* The units of finitely many elements are finitely many.
LEMMA UnitsFinite ==
    ASSUME NEW f, NEW S, Counts(f, S)
    PROVE  IsFiniteSet(Units(f, S)) /\ Cardinality(Units(f, S)) \in Nat
<1> DEFINE P == {{x} \X (1..f[x]) : x \in S}
<1>1. IsFiniteSet(P)
  <2> DEFINE e == [x \in S |-> {x} \X (1..f[x])]
  <2>1. e \in [S -> P] /\ \A T \in P : \E x \in S : e[x] = T
    OBVIOUS
  <2>2. e \in Surjection(S, P)
    BY <2>1 DEF Surjection
  <2> HIDE DEF e, P
  <2> QED BY <2>2, FS_Surjection DEF Counts
<1>2. \A T \in P : IsFiniteSet(T)
  BY UnitsOfOne DEF Counts
<1>3. IsFiniteSet(UNION P)
  <2> HIDE DEF P
  <2> QED BY <1>1, <1>2, FS_UNION
<1>4. Units(f, S) \subseteq UNION P
  <2> SUFFICES ASSUME NEW c \in Units(f, S) PROVE c \in UNION P
    OBVIOUS
  <2>1. c[1] \in S /\ c \in {c[1]} \X (1..f[c[1]])
    BY DEF Units
  <2>2. {c[1]} \X (1..f[c[1]]) \in P
    BY <2>1
  <2> QED BY <2>1, <2>2
<1>5. IsFiniteSet(Units(f, S))
  <2> HIDE DEF P
  <2> QED BY <1>3, <1>4, FS_Subset
<1> QED BY <1>5, FS_CardinalityType

\* So a sum grows by the value of the element that comes.
LEMMA UnitsAdd ==
    ASSUME NEW f, NEW S, NEW x, x \notin S, Counts(f, S), f[x] \in Nat
    PROVE  Cardinality(Units(f, S \cup {x})) = Cardinality(Units(f, S)) + f[x]
<1> DEFINE U == Units(f, S)
           V == {x} \X (1..f[x])
<1>1. IsFiniteSet(U) /\ Cardinality(U) \in Nat /\ IsFiniteSet(V) /\ Cardinality(V) = f[x]
  BY UnitsFinite, UnitsOfOne
<1>2. U \cap V = {}
  BY DEF Units
<1>3. Units(f, S \cup {x}) = U \cup V
  <2>1. ASSUME NEW c \in Units(f, S \cup {x}) PROVE c \in U \cup V
    BY DEF Units
  <2>2. ASSUME NEW c \in U PROVE c \in Units(f, S \cup {x})
    BY DEF Units
  <2>3. ASSUME NEW c \in V PROVE c \in Units(f, S \cup {x})
    BY DEF Units
  <2> QED BY <2>1, <2>2, <2>3
<1>4. Cardinality(U \cup V) = Cardinality(U) + Cardinality(V)
  <2> HIDE DEF U, V
  <2>1. Cardinality(U \cup V) = Cardinality(U) + Cardinality(V) - Cardinality(U \cap V)
    BY <1>1, FS_Union
  <2>2. Cardinality(U \cap V) = 0
    BY <1>2, FS_EmptySet
  <2> QED BY <1>1, <2>1, <2>2
<1> QED BY <1>1, <1>3, <1>4

------------------------------------------------------------------------------
\* The recursion of the fold, for a function it of the subsets of S.
Unrolls(f, S, it) ==
    it = [s \in SUBSET S |->
            IF s = {} THEN 0 ELSE f[CHOOSE x \in s : TRUE] + it[s \ {CHOOSE x \in s : TRUE}]]

\* Counting units is a solution of the recursion.
LEMMA UnitsUnroll ==
    ASSUME NEW f, NEW S, Counts(f, S)
    PROVE  Unrolls(f, S, [s \in SUBSET S |-> Cardinality(Units(f, s))])
<1> DEFINE g == [s \in SUBSET S |-> Cardinality(Units(f, s))]
<1>1. ASSUME NEW s \in SUBSET S, s # {}
      PROVE  g[s] = f[CHOOSE x \in s : TRUE] + g[s \ {CHOOSE x \in s : TRUE}]
  <2>1. PICK x : x = CHOOSE y \in s : TRUE
    OBVIOUS
  <2>2. x \in s
    BY <1>1, <2>1
  <2>3. Counts(f, s \ {x}) /\ f[x] \in Nat
    BY <2>2, FS_Subset DEF Counts
  <2>4. s = (s \ {x}) \cup {x} /\ x \notin s \ {x}
    BY <2>2
  <2>5. Cardinality(Units(f, s)) = Cardinality(Units(f, s \ {x})) + f[x]
    BY <2>3, <2>4, UnitsAdd
  <2>6. Cardinality(Units(f, s \ {x})) \in Nat
    BY <2>3, UnitsFinite
  <2>7. g[s] = f[x] + g[s \ {x}]
    BY <2>3, <2>5, <2>6
  <2> QED BY <2>1, <2>7
<1>2. g[{}] = 0
  <2>1. Units(f, {}) = {}
    BY DEF Units
  <2> QED BY <2>1, FS_EmptySet
<1>3. g = [s \in SUBSET S |->
            IF s = {} THEN 0 ELSE f[CHOOSE x \in s : TRUE] + g[s \ {CHOOSE x \in s : TRUE}]]
  <2> SUFFICES ASSUME NEW s \in SUBSET S
               PROVE g[s] = IF s = {} THEN 0 ELSE f[CHOOSE x \in s : TRUE] + g[s \ {CHOOSE x \in s : TRUE}]
    OBVIOUS
  <2> QED BY <1>1, <1>2
<1> QED BY <1>3 DEF Unrolls

\* The recursion has no other solution.
LEMMA UnrollUnique ==
    ASSUME NEW f, NEW S, Counts(f, S), NEW g, NEW h, Unrolls(f, S, g), Unrolls(f, S, h)
    PROVE  g[S] = h[S]
<1> DEFINE Bad == {s \in SUBSET S : g[s] # h[s]}
           Sizes == {Cardinality(s) : s \in Bad}
<1> SUFFICES ASSUME g[S] # h[S] PROVE FALSE
  OBVIOUS
<1>0. \A s \in SUBSET S : IsFiniteSet(s) /\ Cardinality(s) \in Nat
  BY FS_Subset, FS_CardinalityType DEF Counts
<1>1. Sizes \in SUBSET Nat /\ Sizes # {}
  <2>1. S \in Bad
    OBVIOUS
  <2> QED BY <1>0, <2>1
<1>2. PICK m \in Sizes : \A n \in Sizes : m <= n
  <2> HIDE DEF Sizes
  <2> QED BY <1>1, Least
<1>3. PICK s \in Bad : Cardinality(s) = m
  BY <1>2
<1>4. s # {}
  BY <1>3 DEF Unrolls
<1>5. PICK x : x = CHOOSE y \in s : TRUE
  OBVIOUS
<1>6. x \in s
  BY <1>4, <1>5
<1>7. Cardinality(s \ {x}) = Cardinality(s) - 1
  BY <1>0, <1>3, <1>6, FS_RemoveElement
<1>8. s \ {x} \notin Bad
  <2> SUFFICES ASSUME s \ {x} \in Bad PROVE FALSE
    OBVIOUS
  <2>1. Cardinality(s \ {x}) \in Sizes
    OBVIOUS
  <2>2. m <= m - 1
    BY <1>2, <1>3, <1>7, <2>1
  <2>3. m \in Nat
    BY <1>1
  <2> QED BY <2>2, <2>3
<1>9. g[s \ {x}] = h[s \ {x}]
  BY <1>8
<1>10. g[s] = f[x] + g[s \ {x}] /\ h[s] = f[x] + h[s \ {x}]
  BY <1>4, <1>5, <1>3 DEF Unrolls
<1> QED BY <1>3, <1>9, <1>10

\* A sum is the number of its units.
LEMMA SumCountsUnits ==
    ASSUME NEW f, NEW S, Counts(f, S)
    PROVE  SumFunctionOnSet(f, S) = Cardinality(Units(f, S)) /\ SumFunctionOnSet(f, S) \in Nat
<1> DEFINE it == CHOOSE i : Unrolls(f, S, i)
           g == [s \in SUBSET S |-> Cardinality(Units(f, s))]
<1>1. Unrolls(f, S, g)
  BY UnitsUnroll
<1>2. Unrolls(f, S, it)
  <2> HIDE DEF g
  <2> QED BY <1>1
<1>3. it[S] = g[S]
  <2> HIDE DEF g, it
  <2> QED BY <1>1, <1>2, UnrollUnique
<1>4. SumFunctionOnSet(f, S) = it[S]
  BY DEF SumFunctionOnSet, FoldFunctionOnSet, MapThenFoldSet, Unrolls
<1> QED BY <1>3, <1>4, UnitsFinite

\* The sum over nothing is zero.
LEMMA SumOfNone ==
    ASSUME NEW f
    PROVE  SumFunctionOnSet(f, {}) = 0
<1>1. Counts(f, {}) /\ Units(f, {}) = {}
  BY FS_EmptySet DEF Counts, Units
<1> QED BY <1>1, SumCountsUnits, FS_EmptySet

\* One more element adds its value.
LEMMA SumAdd ==
    ASSUME NEW f, NEW S, Counts(f, S), NEW x, x \notin S, f[x] \in Nat
    PROVE  SumFunctionOnSet(f, S \cup {x}) = SumFunctionOnSet(f, S) + f[x]
<1>1. Counts(f, S \cup {x})
  BY FS_AddElement DEF Counts
<1>2. /\ SumFunctionOnSet(f, S \cup {x}) = Cardinality(Units(f, S \cup {x}))
      /\ SumFunctionOnSet(f, S) = Cardinality(Units(f, S))
  BY <1>1, SumCountsUnits
<1>3. Cardinality(Units(f, S \cup {x})) = Cardinality(Units(f, S)) + f[x]
  BY UnitsAdd
<1> QED BY <1>2, <1>3

\* An element that goes takes its value along.
LEMMA SumRemove ==
    ASSUME NEW f, NEW S, Counts(f, S), NEW x \in S
    PROVE  SumFunctionOnSet(f, S) = SumFunctionOnSet(f, S \ {x}) + f[x] /\ f[x] \in Nat
<1>1. Counts(f, S \ {x}) /\ f[x] \in Nat
  BY FS_Subset DEF Counts
<1>2. S = (S \ {x}) \cup {x} /\ x \notin S \ {x}
  OBVIOUS
<1> QED BY <1>1, <1>2, SumAdd

\* Only the values on the set count.
LEMMA SumSame ==
    ASSUME NEW f, NEW g, NEW S, Counts(f, S), \A x \in S : g[x] = f[x]
    PROVE  SumFunctionOnSet(g, S) = SumFunctionOnSet(f, S)
<1>1. Counts(g, S) /\ Units(g, S) = Units(f, S)
  BY DEF Counts, Units
<1> QED BY <1>1, SumCountsUnits

\* A part sums up to no more than the whole.
LEMMA SumPart ==
    ASSUME NEW f, NEW S, Counts(f, S), NEW T \in SUBSET S
    PROVE  /\ Counts(f, T)
           /\ SumFunctionOnSet(f, T) \in Nat
           /\ SumFunctionOnSet(f, T) <= SumFunctionOnSet(f, S)
<1>1. Counts(f, T)
  BY FS_Subset DEF Counts
<1>2. Units(f, T) \subseteq Units(f, S)
  BY DEF Units
<1>3. Cardinality(Units(f, T)) <= Cardinality(Units(f, S))
  BY <1>2, UnitsFinite, FS_Subset
<1> QED BY <1>1, <1>3, SumCountsUnits

\* Sums over two sets with nothing in common add up.
LEMMA SumOfBoth ==
    ASSUME NEW f, NEW S, NEW T, Counts(f, S), Counts(f, T), S \cap T = {}
    PROVE  /\ SumFunctionOnSet(f, S \cup T) = SumFunctionOnSet(f, S) + SumFunctionOnSet(f, T)
           /\ Counts(f, S \cup T)
<1>1. Counts(f, S \cup T)
  BY FS_Union DEF Counts
<1>2. Units(f, S \cup T) = Units(f, S) \cup Units(f, T) /\ Units(f, S) \cap Units(f, T) = {}
  BY DEF Units
<1>3. Cardinality(Units(f, S) \cup Units(f, T))
        = Cardinality(Units(f, S)) + Cardinality(Units(f, T)) - Cardinality(Units(f, S) \cap Units(f, T))
  BY UnitsFinite, FS_Union
<1>4. Cardinality(Units(f, S) \cap Units(f, T)) = 0
  BY <1>2, FS_EmptySet
<1>5. /\ Cardinality(Units(f, S)) \in Nat /\ Cardinality(Units(f, T)) \in Nat
      /\ SumFunctionOnSet(f, S) = Cardinality(Units(f, S))
      /\ SumFunctionOnSet(f, T) = Cardinality(Units(f, T))
      /\ SumFunctionOnSet(f, S \cup T) = Cardinality(Units(f, S \cup T))
  BY <1>1, SumCountsUnits, UnitsFinite
<1>6. SumFunctionOnSet(f, S \cup T) = Cardinality(Units(f, S) \cup Units(f, T))
  BY <1>2, <1>5
<1>7. Cardinality(Units(f, S) \cup Units(f, T)) = Cardinality(Units(f, S)) + Cardinality(Units(f, T))
  BY <1>3, <1>4, <1>5
<1> QED BY <1>1, <1>5, <1>6, <1>7
==============================================================================
