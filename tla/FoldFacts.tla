----------------------------- MODULE FoldFacts -----------------------------
(***************************************************************************)
(* Induction over the loops of the models. FoldSet, FoldLeft and the       *)
(* recursive functions behind them fold an operator over a finite set; a   *)
(* module that needs a fact about a loop INSTANCEs this one with the body  *)
(* of the loop as op, its context p (the loop's free names), the order in  *)
(* which it takes elements as pick, and the loop's invariant as Inv. The   *)
(* instance of FoldInv is then the rule for that loop.                     *)
(***************************************************************************)
EXTENDS Naturals, FiniteSets, FiniteSetTheorems, WellFoundedInduction, TLAPS

CONSTANTS
    op(_, _, _),   \* context, element, value -> the next value
    pick(_),       \* the element of a set that is folded in last
    Inv(_, _, _)   \* context, value, elements folded into it

\* MapThenFoldSet of the community modules, with the body's context explicit.
Fold(p, base, S) ==
    LET iter[s \in SUBSET S] ==
          IF s = {} THEN base ELSE op(p, pick(s), iter[s \ {pick(s)}])
    IN  iter[S]

\* A set of naturals has a least element.
LEMMA Least ==
  ASSUME NEW S \in SUBSET Nat, S # {}
  PROVE  \E x \in S : \A y \in S : x <= y
<1> DEFINE Less == OpToRel(<, Nat)
<1>1. \A m, n \in Nat : <<m, n>> \in Less <=> m < n
  BY DEF OpToRel
<1>2. IsWellFoundedOn(Less, Nat)
  BY NatLessThanWellFounded
<1> HIDE DEF Less
<1>3. PICK x \in S : \A y \in S : ~(<<y, x>> \in Less)
  BY <1>2, WFMin
<1>4. \A y \in S : x <= y
  <2> SUFFICES ASSUME NEW y \in S PROVE x <= y
    OBVIOUS
  <2>1. ~(y < x)
    BY <1>1, <1>3
  <2> QED BY <2>1
<1> QED BY <1>4

\* Induction over the naturals, for a set instead of a predicate.
LEMMA Induction ==
  ASSUME NEW S, 0 \in S, \A n \in Nat : n \in S => n + 1 \in S
  PROVE  Nat \subseteq S
<1> DEFINE T == Nat \ S
<1>1. SUFFICES ASSUME T # {} PROVE FALSE
  OBVIOUS
<1>2. PICK m \in T : \A y \in T : m <= y
  BY <1>1, Least
<1>3. m # 0 /\ m \in Nat /\ m - 1 \in Nat
  BY <1>2
<1>4. m - 1 \notin T
  BY <1>2, <1>3
<1>5. (m - 1) + 1 \in S
  BY <1>3, <1>4
<1> QED BY <1>2, <1>3, <1>5

\* f is the fold on the subsets of S that have at most k elements.
IsFold(p, base, S, f, k) ==
    LET D == {s \in SUBSET S : Cardinality(s) <= k}
    IN  f = [s \in D |-> IF s = {} THEN base ELSE op(p, pick(s), f[s \ {pick(s)}])]

\* f is the fold on every subset of S.
IsIter(p, base, S, f) ==
    f = [s \in SUBSET S |-> IF s = {} THEN base ELSE op(p, pick(s), f[s \ {pick(s)}])]

\* The recursive definition of the fold has a solution, built up from the
\* solutions for the subsets of at most k elements.
LEMMA FoldExists ==
  ASSUME NEW p, NEW base, NEW S, IsFiniteSet(S),
         \A s \in SUBSET S : s # {} => pick(s) \in s
  PROVE  \E f : IsIter(p, base, S, f)
<1> DEFINE N == {k \in Nat : \E f : IsFold(p, base, S, f, k)}
           D(k) == {s \in SUBSET S : Cardinality(s) <= k}
<1>f. \A s \in SUBSET S : IsFiniteSet(s) /\ Cardinality(s) \in Nat
  BY FS_Subset, FS_CardinalityType
<1>1. 0 \in N
  <2> DEFINE f == [s \in D(0) |-> base]
  <2>1. \A s \in D(0) : s = {}
    BY <1>f, FS_EmptySet
  <2>2. f = [s \in D(0) |-> IF s = {} THEN base ELSE op(p, pick(s), f[s \ {pick(s)}])]
    BY <2>1
  <2> HIDE DEF f
  <2>3. IsFold(p, base, S, f, 0)
    BY <2>2 DEF IsFold
  <2> QED BY <2>3
<1>2. ASSUME NEW k \in Nat, k \in N PROVE k + 1 \in N
  <2>1. PICK g : IsFold(p, base, S, g, k)
    BY <1>2
  <2>2. g = [s \in D(k) |-> IF s = {} THEN base ELSE op(p, pick(s), g[s \ {pick(s)}])]
    BY <2>1 DEF IsFold
  <2> DEFINE f == [s \in D(k + 1) |-> IF s = {} THEN base ELSE op(p, pick(s), g[s \ {pick(s)}])]
  <2>3. ASSUME NEW s \in D(k + 1), s # {} PROVE s \ {pick(s)} \in D(k) /\ s \ {pick(s)} \in D(k + 1)
    <3>1. Cardinality(s \ {pick(s)}) = Cardinality(s) - 1
      BY <2>3, <1>f, FS_RemoveElement
    <3> QED BY <3>1, <1>f, <2>3
  <2>4. ASSUME NEW s \in D(k) PROVE s \in D(k + 1)
    BY <1>f
  <2>5. ASSUME NEW s \in D(k) PROVE f[s] = g[s]
    BY <2>2, <2>4
  <2>6. ASSUME NEW s \in D(k + 1), s # {} PROVE g[s \ {pick(s)}] = f[s \ {pick(s)}]
    BY <2>3, <2>5, <2>6
  <2>7. f = [s \in D(k + 1) |-> IF s = {} THEN base ELSE op(p, pick(s), f[s \ {pick(s)}])]
    BY <2>6
  <2> HIDE DEF f
  <2>8. IsFold(p, base, S, f, k + 1)
    BY <2>7 DEF IsFold
  <2> QED BY <2>8
<1>3. Nat \subseteq N
  <2> HIDE DEF N
  <2> QED BY <1>1, <1>2, Induction
<1>4. Cardinality(S) \in Nat
  BY FS_CardinalityType
<1>5. PICK f : IsFold(p, base, S, f, Cardinality(S))
  BY <1>3, <1>4
<1>6. D(Cardinality(S)) = SUBSET S
  BY <1>f, FS_Subset
<1> QED BY <1>5, <1>6 DEF IsFold, IsIter

\* An invariant of every step of a fold holds of the value it returns.
THEOREM FoldInv ==
  ASSUME NEW p, NEW base, NEW S, IsFiniteSet(S),
         \A s \in SUBSET S : s # {} => pick(s) \in s,
         Inv(p, base, {}),
         \A v : \A s \in SUBSET S :
            s # {} /\ Inv(p, v, s \ {pick(s)}) => Inv(p, op(p, pick(s), v), s)
  PROVE  Inv(p, Fold(p, base, S), S)
<1> DEFINE iter == CHOOSE f : f =
             [s \in SUBSET S |-> IF s = {} THEN base ELSE op(p, pick(s), f[s \ {pick(s)}])]
           N == {k \in Nat : \A s \in SUBSET S : Cardinality(s) = k => Inv(p, iter[s], s)}
<1>0. \E f : IsIter(p, base, S, f)
  BY FoldExists
<1>1. iter = [s \in SUBSET S |-> IF s = {} THEN base ELSE op(p, pick(s), iter[s \ {pick(s)}])]
  BY <1>0, Zenon DEF IsIter
<1>2. Fold(p, base, S) = iter[S]
  BY DEF Fold
<1> HIDE DEF iter
<1>f. \A s \in SUBSET S : IsFiniteSet(s) /\ Cardinality(s) \in Nat
  BY FS_Subset, FS_CardinalityType
<1>3. 0 \in N
  <2>1. \A s \in SUBSET S : Cardinality(s) = 0 => s = {}
    BY <1>f, FS_EmptySet
  <2>2. iter[{}] = base
    BY <1>1
  <2> QED BY <2>1, <2>2
<1>4. ASSUME NEW k \in Nat, k \in N PROVE k + 1 \in N
  <2> SUFFICES ASSUME NEW s \in SUBSET S, Cardinality(s) = k + 1 PROVE Inv(p, iter[s], s)
    OBVIOUS
  <2>1. s # {}
    <3>1. Cardinality({}) = 0
      BY FS_EmptySet
    <3> QED BY <3>1
  <2>2. Cardinality(s \ {pick(s)}) = k /\ s \ {pick(s)} \in SUBSET S
    <3>1. pick(s) \in s /\ IsFiniteSet(s)
      BY <1>f, <2>1
    <3>2. Cardinality(s \ {pick(s)}) = Cardinality(s) - 1
      BY <3>1, FS_RemoveElement
    <3> QED BY <3>2
  <2>3. Inv(p, iter[s \ {pick(s)}], s \ {pick(s)})
    BY <2>2, <1>4
  <2>4. iter[s] = op(p, pick(s), iter[s \ {pick(s)}])
    BY <1>1, <2>1
  <2> QED BY <2>1, <2>3, <2>4
<1>5. Nat \subseteq N
  <2> HIDE DEF N
  <2> QED BY <1>3, <1>4, Induction
<1>6. Cardinality(S) \in Nat
  BY FS_CardinalityType
<1> QED BY <1>2, <1>5, <1>6
=============================================================================
