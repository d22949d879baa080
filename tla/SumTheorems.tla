----------------------------- MODULE SumTheorems -----------------------------
(***************************************************************************)
(* What the sums of the model compute.  SumFunctionOnSet of the community  *)
(* modules folds a function over a finite set in an unspecified order; the *)
(* tallies of VotingManager and ResultProcessor are compared with such     *)
(* sums.  The facts below say how the sum of a function over a finite set  *)
(* changes with the function, in whatever order it is folded.              *)
(*                                                                         *)
(* The argument is an induction over the subsets of a finite set, in the   *)
(* first-order form of SubsetInduction: a collection of subsets that has   *)
(* every set whose proper subsets it has is the collection of all.         *)
(***************************************************************************)
EXTENDS Integers, Functions, FiniteSetTheorems, WellFoundedInduction, TLAPS

\* The element a fold takes out of s first.
Pick(s) == CHOOSE x \in s : TRUE

\* The equation of the recursive function that the sum of w over A is defined by.
SumEquation(g, w, A) ==
  g = [s \in SUBSET A |-> IF s = {} THEN 0 ELSE w[Pick(s)] + g[s \ {Pick(s)}]]

-----------------------------------------------------------------------------
\* Induction over the subsets of a finite set, without an operator parameter.
LEMMA SubsetInduction ==
  ASSUME NEW S, IsFiniteSet(S), NEW G \in SUBSET SUBSET S,
         \A A \in SUBSET S : (\A B \in SUBSET A : B # A => B \in G) => A \in G
  PROVE  G = SUBSET S
<1> DEFINE Bad == (SUBSET S) \ G
<1> SUFFICES ASSUME Bad # {} PROVE FALSE
  OBVIOUS
<1>1. Bad \subseteq FiniteSubsetsOf(S)
  BY FS_FiniteSubsetsOfFinite
<1>2. IsWellFoundedOn(StrictSubsetOrdering(S), FiniteSubsetsOf(S))
  BY FS_StrictSubsetOrderingWellFounded
<1> HIDE DEF Bad
<1>3. PICK A \in Bad : \A B \in Bad : ~(<<B, A>> \in StrictSubsetOrdering(S))
  BY <1>1, <1>2, WFMin
<1>4. A \in SUBSET S /\ A \notin G
  BY <1>3 DEF Bad
<1>5. PICK B \in SUBSET A : B # A /\ B \notin G
  BY <1>4
<1>6. B \in Bad /\ <<B, A>> \in StrictSubsetOrdering(S)
  BY <1>4, <1>5 DEF Bad, StrictSubsetOrdering
<1> QED
  BY <1>3, <1>6

\* The sum is the value at A of a function that satisfies the equation.
LEMMA SumUnfolds ==
  ASSUME NEW w, NEW A
  PROVE  SumFunctionOnSet(w, A) = (CHOOSE g : SumEquation(g, w, A))[A]
BY DEF SumFunctionOnSet, FoldFunctionOnSet, MapThenFoldSet, SumEquation, Pick

\* Two functions that satisfy the equation agree on the sets that both are
\* defined on.
LEMMA SumUnique ==
  ASSUME NEW w, NEW A, IsFiniteSet(A), NEW B \in SUBSET A, NEW g, NEW h,
         SumEquation(g, w, A), SumEquation(h, w, B)
  PROVE  g[B] = h[B]
<1> DEFINE G == {s \in SUBSET B : g[s] = h[s]}
<1>0. IsFiniteSet(B)
  BY FS_Subset
<1>1. ASSUME NEW s \in SUBSET B, \A r \in SUBSET s : r # s => r \in G
      PROVE  s \in G
  <2>1. CASE s = {}
    BY <2>1 DEF SumEquation
  <2>2. CASE s # {}
    <3>1. Pick(s) \in s
      BY <2>2 DEF Pick
    <3>2. s \ {Pick(s)} \in G
      BY <1>1, <3>1
    <3>3. g[s] = w[Pick(s)] + g[s \ {Pick(s)}] /\ h[s] = w[Pick(s)] + h[s \ {Pick(s)}]
      BY <2>2 DEF SumEquation
    <3> QED
      BY <3>2, <3>3
  <2> QED
    BY <2>1, <2>2
<1>2. G = SUBSET B
  <2> HIDE DEF G
  <2>1. G \in SUBSET SUBSET B
    BY DEF G
  <2> QED
    BY <1>0, <1>1, <2>1, SubsetInduction
<1> QED
  BY <1>2

\* The equation has a solution on the subsets of every finite set.
LEMMA SumExists ==
  ASSUME NEW w, NEW S, IsFiniteSet(S)
  PROVE  \A A \in SUBSET S : \E g : SumEquation(g, w, A)
<1> DEFINE G == {A \in SUBSET S : \E g : SumEquation(g, w, A)}
           F(s) == CHOOSE g : SumEquation(g, w, s)
<1>1. ASSUME NEW A \in SUBSET S, \A B \in SUBSET A : B # A => B \in G
      PROVE  A \in G
  <2> DEFINE below(s) == w[Pick(s)] + F(s \ {Pick(s)})[s \ {Pick(s)}]
             g == [s \in SUBSET A |-> IF s = {} THEN 0 ELSE below(s)]
  <2>1. ASSUME NEW s \in SUBSET A, s # A PROVE SumEquation(F(s), w, s)
    BY <1>1, <2>1
  <2> HIDE DEF F
  <2>2. ASSUME NEW s \in SUBSET A, s # A PROVE g[s] = F(s)[s]
    <3>1. CASE s = {}
      BY <2>1, <2>2, <3>1 DEF SumEquation
    <3>2. CASE s # {}
      <4> DEFINE r == s \ {Pick(s)}
      <4>1. Pick(s) \in s
        BY <3>2 DEF Pick
      <4>2. r \in SUBSET s /\ r \in SUBSET A /\ r # A
        BY <4>1
      <4>3. IsFiniteSet(s)
        BY FS_Subset
      <4>4. SumEquation(F(s), w, s) /\ SumEquation(F(r), w, r)
        BY <2>1, <2>2, <4>2
      <4>5. F(s)[r] = F(r)[r]
        <5> HIDE DEF r
        <5> QED BY <4>2, <4>3, <4>4, SumUnique
      <4>6. F(s)[s] = w[Pick(s)] + F(s)[r]
        BY <3>2, <4>4 DEF SumEquation
      <4> QED
        BY <3>2, <4>5, <4>6
    <3> QED
      BY <3>1, <3>2
  <2>3. ASSUME NEW s \in SUBSET A, s # {} PROVE g[s] = w[Pick(s)] + g[s \ {Pick(s)}]
    <3>1. Pick(s) \in s
      BY <2>3 DEF Pick
    <3>2. g[s \ {Pick(s)}] = F(s \ {Pick(s)})[s \ {Pick(s)}]
      <4> HIDE DEF g
      <4> QED BY <2>2, <3>1
    <3> QED
      BY <2>3, <3>2
  <2>4. g[{}] = 0
    OBVIOUS
  <2>5. SumEquation(g, w, A)
    <3>1. g = [s \in SUBSET A |-> g[s]]
      OBVIOUS
    <3> HIDE DEF g
    <3>2. \A s \in SUBSET A : g[s] = IF s = {} THEN 0 ELSE w[Pick(s)] + g[s \ {Pick(s)}]
      BY <2>3, <2>4
    <3> QED
      BY <3>1, <3>2 DEF SumEquation
  <2> QED
    BY <2>5
<1>2. G = SUBSET S
  <2> HIDE DEF G
  <2>1. G \in SUBSET SUBSET S
    BY DEF G
  <2> QED
    BY <1>1, <2>1, SubsetInduction
<1> QED
  BY <1>2

\* The sum over nothing is 0, and the element that is taken out first adds
\* its value to the sum over the others.
LEMMA SumFirst ==
  ASSUME NEW w, NEW A, IsFiniteSet(A)
  PROVE  SumFunctionOnSet(w, A) =
           IF A = {} THEN 0 ELSE w[Pick(A)] + SumFunctionOnSet(w, A \ {Pick(A)})
<1> DEFINE g == CHOOSE f : SumEquation(f, w, A)
           B == A \ {Pick(A)}
           h == CHOOSE f : SumEquation(f, w, B)
<1>1. SumEquation(g, w, A) /\ SumEquation(h, w, B)
  BY SumExists
<1>2. SumFunctionOnSet(w, A) = g[A] /\ SumFunctionOnSet(w, B) = h[B]
  BY SumUnfolds
<1> HIDE DEF g, h
<1>3. g[B] = h[B]
  BY <1>1, SumUnique
<1>4. g[A] = IF A = {} THEN 0 ELSE w[Pick(A)] + g[B]
  BY <1>1 DEF SumEquation
<1> QED
  BY <1>2, <1>3, <1>4

\* A sum of integers is an integer.
LEMMA SumType ==
  ASSUME NEW S, IsFiniteSet(S), NEW w, \A x \in S : w[x] \in Int
  PROVE  \A A \in SUBSET S : SumFunctionOnSet(w, A) \in Int
<1> DEFINE G == {A \in SUBSET S : SumFunctionOnSet(w, A) \in Int}
<1>1. ASSUME NEW A \in SUBSET S, \A B \in SUBSET A : B # A => B \in G
      PROVE  A \in G
  <2>1. IsFiniteSet(A)
    BY FS_Subset
  <2>2. CASE A = {}
    <3>1. SumFunctionOnSet(w, A) = 0
      BY <2>1, <2>2, SumFirst
    <3> QED
      BY <3>1
  <2>3. CASE A # {}
    <3>1. Pick(A) \in A
      BY <2>3 DEF Pick
    <3>2. SumFunctionOnSet(w, A \ {Pick(A)}) \in Int
      BY <1>1, <3>1
    <3> QED
      BY <2>1, <2>3, <3>1, <3>2, SumFirst
  <2> QED
    BY <2>2, <2>3
<1>2. G = SUBSET S
  <2> HIDE DEF G
  <2>1. G \in SUBSET SUBSET S
    BY DEF G
  <2> QED
    BY <1>1, <2>1, SubsetInduction
<1> QED
  BY <1>2

\* Every element may be taken out first: the order of a sum does not matter.
LEMMA SumAnyFirst ==
  ASSUME NEW S, IsFiniteSet(S), NEW w, \A x \in S : w[x] \in Int
  PROVE  \A A \in SUBSET S : \A y \in A :
           SumFunctionOnSet(w, A) = w[y] + SumFunctionOnSet(w, A \ {y})
<1> DEFINE Any(A) == \A y \in A : SumFunctionOnSet(w, A) = w[y] + SumFunctionOnSet(w, A \ {y})
           G == {A \in SUBSET S : Any(A)}
<1>1. ASSUME NEW A \in SUBSET S, \A B \in SUBSET A : B # A => B \in G
      PROVE  A \in G
  <2> SUFFICES ASSUME NEW y \in A
               PROVE  SumFunctionOnSet(w, A) = w[y] + SumFunctionOnSet(w, A \ {y})
    OBVIOUS
  <2> DEFINE x == Pick(A)
  <2>1. IsFiniteSet(A)
    BY FS_Subset
  <2>2. x \in A
    BY DEF Pick
  <2>3. SumFunctionOnSet(w, A) = w[x] + SumFunctionOnSet(w, A \ {x})
    BY <2>1, SumFirst
  <2> HIDE DEF x
  <2>4. CASE x = y
    BY <2>3, <2>4
  <2>5. CASE x # y
    <3>1. Any(A \ {x}) /\ Any(A \ {y})
      BY <1>1, <2>2
    <3>2. SumFunctionOnSet(w, A \ {x}) = w[y] + SumFunctionOnSet(w, (A \ {x}) \ {y})
      BY <2>5, <3>1
    <3>3. SumFunctionOnSet(w, A \ {y}) = w[x] + SumFunctionOnSet(w, (A \ {y}) \ {x})
      BY <2>2, <2>5, <3>1
    <3>4. (A \ {x}) \ {y} = (A \ {y}) \ {x}
      OBVIOUS
    <3>5. SumFunctionOnSet(w, (A \ {x}) \ {y}) \in Int
      BY SumType
    <3>6. w[x] \in Int /\ w[y] \in Int
      BY <2>2
    <3>7. SumFunctionOnSet(w, A) = w[x] + (w[y] + SumFunctionOnSet(w, (A \ {x}) \ {y}))
      BY <2>3, <3>2
    <3>8. SumFunctionOnSet(w, A \ {y}) = w[x] + SumFunctionOnSet(w, (A \ {x}) \ {y})
      BY <3>3, <3>4
    <3> QED
      BY <3>5, <3>6, <3>7, <3>8
  <2> QED
    BY <2>4, <2>5
<1>2. G = SUBSET S
  <2> HIDE DEF G
  <2>1. G \in SUBSET SUBSET S
    BY DEF G
  <2> QED
    BY <1>1, <2>1, SubsetInduction
<1> QED
  BY <1>2

-----------------------------------------------------------------------------
(* How a sum follows the function that is summed.                          *)

\* Functions that agree on a set have the same sum over it.
LEMMA SumSame ==
  ASSUME NEW S, IsFiniteSet(S), NEW w, NEW v, \A x \in S : w[x] = v[x]
  PROVE  SumFunctionOnSet(w, S) = SumFunctionOnSet(v, S)
<1> DEFINE G == {A \in SUBSET S : SumFunctionOnSet(w, A) = SumFunctionOnSet(v, A)}
<1>1. ASSUME NEW A \in SUBSET S, \A B \in SUBSET A : B # A => B \in G
      PROVE  A \in G
  <2>1. IsFiniteSet(A)
    BY FS_Subset
  <2>2. CASE A = {}
    <3>1. SumFunctionOnSet(w, A) = 0 /\ SumFunctionOnSet(v, A) = 0
      BY <2>1, <2>2, SumFirst
    <3> QED
      BY <3>1
  <2>3. CASE A # {}
    <3>1. Pick(A) \in A
      BY <2>3 DEF Pick
    <3>2. SumFunctionOnSet(w, A \ {Pick(A)}) = SumFunctionOnSet(v, A \ {Pick(A)})
      BY <1>1, <3>1
    <3>3. w[Pick(A)] = v[Pick(A)]
      BY <3>1
    <3> QED
      BY <2>1, <2>3, <3>2, <3>3, SumFirst
  <2> QED
    BY <2>2, <2>3
<1>2. G = SUBSET S
  <2> HIDE DEF G
  <2>1. G \in SUBSET SUBSET S
    BY DEF G
  <2> QED
    BY <1>1, <2>1, SubsetInduction
<1> QED
  BY <1>2

\* A change at one element changes the sum by the difference there.
LEMMA SumChangeOne ==
  ASSUME NEW S, IsFiniteSet(S), NEW c \in S, NEW w, NEW v,
         \A x \in S : w[x] \in Int /\ v[x] \in Int,
         \A x \in S \ {c} : v[x] = w[x]
  PROVE  SumFunctionOnSet(v, S) = SumFunctionOnSet(w, S) + (v[c] - w[c])
<1> DEFINE rest == SumFunctionOnSet(w, S \ {c})
<1>1. SumFunctionOnSet(w, S) = w[c] + rest
  BY SumAnyFirst
<1>2. SumFunctionOnSet(v, S) = v[c] + SumFunctionOnSet(v, S \ {c})
  BY SumAnyFirst
<1>3. IsFiniteSet(S \ {c})
  BY FS_RemoveElement
<1>4. SumFunctionOnSet(v, S \ {c}) = rest
  BY <1>3, SumSame
<1>5. rest \in Int
  BY SumType
<1> HIDE DEF rest
<1>6. w[c] \in Int /\ v[c] \in Int
  OBVIOUS
<1> QED
  BY <1>1, <1>2, <1>4, <1>5, <1>6

\* The sum of zeros is 0.
LEMMA SumZero ==
  ASSUME NEW S, IsFiniteSet(S), NEW w, \A x \in S : w[x] = 0
  PROVE  SumFunctionOnSet(w, S) = 0
<1> DEFINE G == {A \in SUBSET S : SumFunctionOnSet(w, A) = 0}
<1>1. ASSUME NEW A \in SUBSET S, \A B \in SUBSET A : B # A => B \in G
      PROVE  A \in G
  <2>1. IsFiniteSet(A)
    BY FS_Subset
  <2>2. CASE A = {}
    BY <2>1, <2>2, SumFirst
  <2>3. CASE A # {}
    <3>1. Pick(A) \in A
      BY <2>3 DEF Pick
    <3>2. SumFunctionOnSet(w, A \ {Pick(A)}) = 0 /\ w[Pick(A)] = 0
      BY <1>1, <3>1
    <3>3. SumFunctionOnSet(w, A) = 0 + 0
      BY <2>1, <2>3, <3>2, SumFirst
    <3> QED
      BY <3>3
  <2> QED
    BY <2>2, <2>3
<1>2. G = SUBSET S
  <2> HIDE DEF G
  <2>1. G \in SUBSET SUBSET S
    BY DEF G
  <2> QED
    BY <1>1, <2>1, SubsetInduction
<1> QED
  BY <1>2

\* A difference d at every element of T adds d for each element of T.
LEMMA SumShift ==
  ASSUME NEW S, IsFiniteSet(S), NEW T \in SUBSET S, NEW d \in Int, NEW w, NEW v,
         \A x \in S : w[x] \in Int,
         \A x \in S : v[x] = w[x] + (IF x \in T THEN d ELSE 0)
  PROVE  SumFunctionOnSet(v, S) = SumFunctionOnSet(w, S) + d * Cardinality(T)
<1> DEFINE up(A) == [x \in S |-> w[x] + (IF x \in A THEN d ELSE 0)]
           shifted(A) == SumFunctionOnSet(up(A), S) = SumFunctionOnSet(w, S) + d * Cardinality(A)
           G == {A \in SUBSET T : shifted(A)}
<1>0. IsFiniteSet(T)
  BY FS_Subset
<1>1. ASSUME NEW A \in SUBSET T, \A B \in SUBSET A : B # A => B \in G
      PROVE  A \in G
  <2>1. IsFiniteSet(A) /\ Cardinality(A) \in Nat
    BY <1>0, FS_Subset, FS_CardinalityType
  <2>2. SumFunctionOnSet(w, S) \in Int
    BY SumType
  <2>3. CASE A = {}
    <3>1. \A x \in S : up(A)[x] = w[x]
      BY <2>3
    <3>2. SumFunctionOnSet(up(A), S) = SumFunctionOnSet(w, S)
      <4> HIDE DEF up
      <4> QED BY <3>1, SumSame
    <3>3. Cardinality(A) = 0
      BY <2>3, FS_EmptySet
    <3>4. SumFunctionOnSet(w, S) = SumFunctionOnSet(w, S) + d * 0
      BY <2>2
    <3> QED
      BY <3>2, <3>3, <3>4
  <2>4. CASE A # {}
    <3>1. PICK c : c \in A
      BY <2>4
    <3> DEFINE B == A \ {c}
    <3>2. shifted(B)
      BY <1>1, <3>1
    <3>3. /\ \A x \in S : up(B)[x] \in Int /\ up(A)[x] \in Int
          /\ \A x \in S \ {c} : up(A)[x] = up(B)[x]
          /\ up(A)[c] - up(B)[c] = d
          /\ c \in S
      BY <3>1
    <3>4. SumFunctionOnSet(up(A), S) = SumFunctionOnSet(up(B), S) + (up(A)[c] - up(B)[c])
      <4> DEFINE p == up(B)
                 q == up(A)
      <4>1. /\ \A x \in S : p[x] \in Int /\ q[x] \in Int
            /\ \A x \in S \ {c} : q[x] = p[x]
            /\ c \in S
        BY <3>3
      <4> HIDE DEF p, q
      <4>2. SumFunctionOnSet(q, S) = SumFunctionOnSet(p, S) + (q[c] - p[c])
        BY <4>1, SumChangeOne
      <4> QED
        BY <4>2 DEF p, q
    <3>5. SumFunctionOnSet(up(A), S) = SumFunctionOnSet(up(B), S) + d
      BY <3>3, <3>4
    <3>6. Cardinality(B) = Cardinality(A) - 1
      BY <2>1, <3>1, FS_RemoveElement
    <3>7. d * Cardinality(B) + d = d * Cardinality(A)
      <4> DEFINE n == Cardinality(A)
      <4>1. n \in Nat /\ Cardinality(B) = n - 1
        BY <2>1, <3>6
      <4> HIDE DEF n
      <4>2. d * (n - 1) + d = d * n
        BY <4>1
      <4> QED
        BY <4>1, <4>2 DEF n
    <3>8. d * Cardinality(B) \in Int
      BY <2>1, <3>6
    <3> HIDE DEF up, B
    <3>9. SumFunctionOnSet(up(A), S) = (SumFunctionOnSet(w, S) + d * Cardinality(B)) + d
      BY <3>2, <3>5
    <3> QED
      BY <2>2, <3>7, <3>8, <3>9
  <2> QED
    BY <2>3, <2>4
<1>2. G = SUBSET T
  <2> HIDE DEF G
  <2>1. G \in SUBSET SUBSET T
    BY DEF G
  <2> QED
    BY <1>0, <1>1, <2>1, SubsetInduction
<1>3. \A x \in S : v[x] = up(T)[x]
  OBVIOUS
<1>4. SumFunctionOnSet(v, S) = SumFunctionOnSet(up(T), S)
  <2> HIDE DEF up
  <2> QED BY <1>3, SumSame
<1> QED
  BY <1>2, <1>4
=============================================================================
