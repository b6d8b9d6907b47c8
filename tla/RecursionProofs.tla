--------------------------- MODULE RecursionProofs ---------------------------
(***************************************************************************)
(* What the proofs of the other modules need to know of recursive          *)
(* definitions: that a first value and a step define a function, that a    *)
(* walk is so defined, and how the sum of a function over a finite set is  *)
(* added up.                                                               *)
(***************************************************************************)
EXTENDS Integers, Sequences, FiniteSets, Functions, TLAPS, NaturalsInduction,
        WellFoundedInduction, FiniteSetTheorems

(* Induction, about sets of numbers.                                       *)
LEMMA Induction ==
  ASSUME NEW T \in SUBSET Nat, 0 \in T, \A n \in T : n + 1 \in T
  PROVE  T = Nat
<1> SUFFICES ASSUME Nat \ T # {} PROVE FALSE
  OBVIOUS
<1> DEFINE R == Nat \ T
<1>1. R \subseteq Nat /\ R # {} /\ 0 \notin R
  OBVIOUS
<1>2. \A x \in Nat : x \notin R => x + 1 \notin R
  OBVIOUS
<1> HIDE DEF R
<1>3. PICK x \in R : \A y \in R : ~(<<y, x>> \in OpToRel(<, Nat))
  BY <1>1, NatLessThanWellFounded, WFMin
<1>4. \A y \in R : ~(y < x)
  <2> SUFFICES ASSUME NEW y \in R, y < x
               PROVE  <<y, x>> \in OpToRel(<, Nat)
    BY <1>3
  <2>1. y \in Nat /\ x \in Nat
    BY <1>1
  <2> QED BY <2>1 DEF OpToRel
<1>5. x # 0 /\ x - 1 \in Nat /\ x - 1 < x /\ (x - 1) + 1 = x
  BY <1>1
<1> QED BY <1>2, <1>4, <1>5

(* g is defined up to n by its first value and the step to the next.       *)
UpTo(n, g, V, first, step) ==
  /\ g \in [0 .. n -> V]
  /\ g[0] = first
  /\ \A k \in 0 .. n - 1 : g[k + 1] = step[k][g[k]]

IsStep(step, V) == step \in [Nat -> [V -> V]]

Defined(f, V, first, step) ==
  /\ f \in [Nat -> V]
  /\ f[0] = first
  /\ \A n \in Nat : f[n + 1] = step[n][f[n]]

(* A first value and a step define a function on the natural numbers.      *)
LEMMA Recursion ==
  ASSUME NEW V, NEW first \in V, NEW step, IsStep(step, V)
  PROVE  \E f : Defined(f, V, first, step)
<1> USE DEF IsStep
<1> DEFINE U(n, g) == UpTo(n, g, V, first, step)
<1>1. \A n \in Nat : \E g : U(n, g)
  <2> DEFINE T == {n \in Nat : \E g : U(n, g)}
  <2>1. 0 \in T
    <3>1. U(0, [k \in 0 .. 0 |-> first])
      BY DEF UpTo
    <3> QED BY <3>1
  <2>2. ASSUME NEW n \in T
        PROVE  n + 1 \in T
    <3> DEFINE h(g) == [k \in 0 .. n + 1 |-> IF k <= n THEN g[k] ELSE step[n][g[n]]]
    <3>1. PICK g : U(n, g)
      BY <2>2
    <3>2. n \in Nat
      OBVIOUS
    <3>3. h(g) \in [0 .. n + 1 -> V] /\ h(g)[0] = first
      BY <3>1, <3>2 DEF UpTo
    <3>4. \A k \in 0 .. n : h(g)[k + 1] = step[k][h(g)[k]]
      BY <3>1, <3>2 DEF UpTo
    <3> HIDE DEF h
    <3>5. U(n + 1, h(g))
      BY <3>2, <3>3, <3>4 DEF UpTo
    <3> QED BY <3>5
  <2> HIDE DEF U
  <2>3. T = Nat
    BY <2>1, <2>2, Induction
  <2> QED BY <2>3
<1>2. ASSUME NEW n \in Nat, NEW m \in Nat, NEW g, NEW h, U(n, g), U(m, h)
      PROVE  \A k \in Nat : k <= n /\ k <= m => g[k] = h[k]
  <2> DEFINE T == {k \in Nat : k <= n /\ k <= m => g[k] = h[k]}
  <2>1. 0 \in T
    BY <1>2 DEF UpTo
  <2>2. ASSUME NEW k \in T PROVE k + 1 \in T
    BY <1>2, <2>2 DEF UpTo
  <2>3. T = Nat
    <3>1. T \subseteq Nat
      OBVIOUS
    <3> HIDE DEF T
    <3> QED BY <2>1, <2>2, <3>1, Induction
  <2> QED BY <2>3
<1> DEFINE G(n) == CHOOSE g : U(n, g)
           f == [n \in Nat |-> G(n)[n]]
<1>3. \A n \in Nat : U(n, G(n))
  <2> HIDE DEF U
  <2> QED BY <1>1
<1> HIDE DEF G
<1>4. f \in [Nat -> V] /\ f[0] = first
  BY <1>3 DEF UpTo
<1>5. ASSUME NEW n \in Nat
      PROVE  f[n + 1] = step[n][f[n]]
  <2>1. U(n, G(n)) /\ U(n + 1, G(n + 1))
    BY <1>3
  <2>2. G(n)[n] = G(n + 1)[n]
    BY <1>2, <2>1
  <2>3. G(n + 1)[n + 1] = step[n][G(n + 1)[n]]
    BY <2>1 DEF UpTo
  <2> QED BY <2>2, <2>3
<1> QED BY <1>4, <1>5 DEF Defined

(***************************************************************************)
(* Recursion along next, which takes the elements of C closer to where     *)
(* there is none: a walk over the elements of D defines a function.        *)
(***************************************************************************)
Walks(g, D, V, C, next, step, base) ==
  /\ g \in [D -> V]
  /\ \A k \in D : g[k] = IF k \in C THEN step[k][g[next[k]]] ELSE base[k]

LEMMA WalkExists ==
  ASSUME NEW D, NEW V, NEW C \in SUBSET D, NEW next \in [C -> D],
         NEW step \in [C -> [V -> V]], NEW base \in [D -> V],
         NEW m \in [D -> Nat], \A k \in C : m[next[k]] < m[k],
         NEW N \in Nat, \A k \in D : m[k] < N,
         NEW v \in V
  PROVE  \E g : Walks(g, D, V, C, next, step, base)
<1> DEFINE Value(g, k) == IF k \in C THEN step[k][g[next[k]]] ELSE base[k]
           Below(g, j) == g \in [D -> V] /\ \A k \in D : m[k] < j => g[k] = Value(g, k)
           T == {j \in Nat : \E g : Below(g, j)}
<1>1. 0 \in T
  <2>1. Below([k \in D |-> v], 0)
    OBVIOUS
  <2> QED BY <2>1
<1>2. ASSUME NEW j \in T PROVE j + 1 \in T
  <2>1. j \in Nat
    OBVIOUS
  <2>2. PICK g : Below(g, j)
    OBVIOUS
  <2> DEFINE h == [k \in D |-> IF m[k] = j THEN Value(g, k) ELSE g[k]]
  <2>3. \A k \in C : next[k] \in D /\ m[next[k]] < m[k]
    OBVIOUS
  <2>4. h \in [D -> V]
    BY <2>2, <2>3
  <2>5. ASSUME NEW k \in D, m[k] < j + 1
        PROVE  h[k] = Value(h, k)
    <3>1. m[k] \in Nat
      OBVIOUS
    <3>2. k \in C => h[next[k]] = g[next[k]]
      BY <2>1, <2>3, <2>5, <3>1
    <3>3. h[k] = IF m[k] = j THEN Value(g, k) ELSE g[k]
      OBVIOUS
    <3>4. m[k] # j => g[k] = Value(g, k)
      BY <2>1, <2>2, <2>5, <3>1
    <3> HIDE DEF h
    <3> QED BY <3>2, <3>3, <3>4
  <2> HIDE DEF h, Value
  <2> QED BY <2>1, <2>4, <2>5
<1>3. T = Nat
  <2>1. T \subseteq Nat
    OBVIOUS
  <2> HIDE DEF T
  <2> QED BY <1>1, <1>2, <2>1, Induction
<1>4. PICK g : Below(g, N)
  BY <1>3
<1> QED BY <1>4 DEF Walks

----------------------------------------------------------------------------
(***************************************************************************)
(* Sums.  g gives the sum of f over every subset of D.                     *)
(***************************************************************************)
Sums(g, f, D) ==
  /\ g \in [SUBSET D -> Int]
  /\ g[{}] = 0
  /\ \A S \in SUBSET D : \A x \in S : g[S] = f[x] + g[S \ {x}]

SumOf(f) == FoldFunction(+, 0, f)

(* A subset without one of its elements is a smaller one.                  *)
LEMMA SubsetSizes ==
  ASSUME NEW D, IsFiniteSet(D)
  PROVE  \A S \in SUBSET D :
           /\ IsFiniteSet(S) /\ Cardinality(S) \in Nat
           /\ (S = {} <=> Cardinality(S) = 0)
           /\ \A x \in S : S \ {x} \in SUBSET D /\ Cardinality(S \ {x}) = Cardinality(S) - 1
<1> TAKE S \in SUBSET D
<1>1. IsFiniteSet(S)
  BY FS_Subset
<1>2. Cardinality(S) \in Nat
  BY <1>1, FS_CardinalityType
<1>3. S = {} <=> Cardinality(S) = 0
  BY <1>1, FS_EmptySet
<1>4. \A x \in S : S \ {x} \in SUBSET D /\ Cardinality(S \ {x}) = Cardinality(S) - 1
  BY <1>1, FS_RemoveElement
<1> QED BY <1>1, <1>2, <1>3, <1>4

(* Sums over all subsets exist, and taking out any element is a step.      *)
LEMMA SumsExist ==
  ASSUME NEW D, IsFiniteSet(D), NEW f \in [D -> Int]
  PROVE  \E g : Sums(g, f, D) /\ g[D] = SumOf(f)
<1>0. \A S \in SUBSET D :
        /\ Cardinality(S) \in Nat
        /\ (S = {} <=> Cardinality(S) = 0)
        /\ \A x \in S : S \ {x} \in SUBSET D /\ Cardinality(S \ {x}) = Cardinality(S) - 1
  BY SubsetSizes
<1> DEFINE pick(S) == CHOOSE x \in S : TRUE
           V == [SUBSET D -> Int]
           first == [S \in SUBSET D |-> 0]
           next(v) == [S \in SUBSET D |-> IF S = {} THEN 0 ELSE f[pick(S)] + v[S \ {pick(S)}]]
           step == [n \in Nat |-> [v \in V |-> next(v)]]
           E(g) == [S \in SUBSET D |-> IF S = {} THEN 0
                                       ELSE f[pick(S)] + g[S \ {pick(S)}]]
<1>1. \A S \in SUBSET D : S # {} => pick(S) \in S /\ pick(S) \in D
  OBVIOUS
<1>2. SumOf(f) = (CHOOSE g : g = E(g))[D]
  BY DEF SumOf, FoldFunction, FoldFunctionOnSet, MapThenFoldSet
<1> HIDE DEF pick
<1>3. \A v \in V : next(v) \in V
  BY <1>1
<1>N. /\ first \in V
      /\ \A v : \A S \in SUBSET D :
           next(v)[S] = IF S = {} THEN 0 ELSE f[pick(S)] + v[S \ {pick(S)}]
  OBVIOUS
<1>V. \A v \in V : \A S \in SUBSET D : v[S] \in Int
  OBVIOUS
<1>F. first[{}] = 0
  OBVIOUS
<1> HIDE DEF next, V, first
<1>4. first \in V /\ IsStep(step, V)
  BY <1>3, <1>N DEF IsStep
<1>5. \A n \in Nat, v \in V : step[n][v] = next(v)
  OBVIOUS
<1> HIDE DEF step
<1>6. PICK h : Defined(h, V, first, step)
  BY <1>4, Recursion
<1> DEFINE g == [S \in SUBSET D |-> h[Cardinality(S)][S]]
<1>7. /\ \A n \in Nat : h[n] \in V /\ h[n + 1] = next(h[n])
      /\ h[0] = first
  BY <1>5, <1>6 DEF Defined
<1>8. g \in [SUBSET D -> Int]
  BY <1>0, <1>7, <1>V
<1>9. g[{}] = 0
  <2>1. Cardinality({}) = 0 /\ {} \in SUBSET D
    BY FS_EmptySet
  <2> QED BY <1>7, <1>F, <2>1
<1>10. ASSUME NEW S \in SUBSET D, S # {}
       PROVE  g[S] = f[pick(S)] + g[S \ {pick(S)}]
  <2> DEFINE c == Cardinality(S) - 1
             R == S \ {pick(S)}
  <2>1. c \in Nat /\ Cardinality(S) = c + 1 /\ R \in SUBSET D /\ Cardinality(R) = c
    BY <1>1, <1>10, <1>0
  <2> HIDE DEF c
  <2>2. h[c + 1] = next(h[c])
    BY <1>7, <2>1
  <2>4. g[S] = h[c + 1][S] /\ g[R] = h[c][R]
    BY <2>1
  <2>3. next(h[c])[S] = f[pick(S)] + h[c][R]
    BY <1>10, <1>N
  <2> QED BY <2>2, <2>3, <2>4
<1> HIDE DEF g
<1>11. g = E(g)
  BY <1>8, <1>9, <1>10
<1>12. PICK s : s = (CHOOSE r : r = E(r)) /\ s = E(s)
  BY <1>11
<1>13. s[{}] = 0 /\ \A S \in SUBSET D : S # {} => s[S] = f[pick(S)] + s[S \ {pick(S)}]
  BY <1>12
<1>14. DOMAIN s = SUBSET D /\ s = [S \in SUBSET D |-> s[S]]
  BY <1>12
<1> HIDE DEF E
<1> DEFINE Holds(S) == s[S] \in Int /\ \A x \in S : s[S] = f[x] + s[S \ {x}]
           T == {n \in Nat : \A S \in SUBSET D : Cardinality(S) <= n => Holds(S)}
<1>15. 0 \in T
  <2> SUFFICES ASSUME NEW S \in SUBSET D, Cardinality(S) <= 0 PROVE Holds(S)
    OBVIOUS
  <2>1. S = {}
    BY <1>0
  <2> QED BY <1>13, <2>1
<1>16. ASSUME NEW n \in T PROVE n + 1 \in T
  <2> SUFFICES ASSUME NEW S \in SUBSET D, Cardinality(S) <= n + 1 PROVE Holds(S)
    OBVIOUS
  <2>0. n \in Nat /\ \A R \in SUBSET D : Cardinality(R) <= n => Holds(R)
    OBVIOUS
  <2>1. CASE S = {}
    BY <1>13, <2>1
  <2>2. CASE S # {}
    <3> DEFINE y == pick(S)
    <3>1. y \in S /\ y \in D /\ s[S] = f[y] + s[S \ {y}]
      BY <1>1, <1>13, <2>2
    <3> HIDE DEF y
    <3>2. \A x \in S : S \ {x} \in SUBSET D /\ Holds(S \ {x})
      <4> SUFFICES ASSUME NEW x \in S PROVE S \ {x} \in SUBSET D /\ Holds(S \ {x})
        OBVIOUS
      <4>1. S \ {x} \in SUBSET D /\ Cardinality(S \ {x}) <= n
        BY <2>0, <1>0
      <4> HIDE DEF Holds
      <4> QED BY <2>0, <4>1
    <3>3. s[S] \in Int
      <4>1. s[S \ {y}] \in Int /\ f[y] \in Int
        BY <3>1, <3>2
      <4> QED BY <3>1, <4>1
    <3>4. ASSUME NEW x \in S, x # y
          PROVE  s[S] = f[x] + s[S \ {x}]
      <4>1. x \in S \ {y} /\ y \in S \ {x}
        BY <3>1, <3>4
      <4>2. (S \ {y}) \ {x} = (S \ {x}) \ {y}
        OBVIOUS
      <4>3. s[S \ {y}] = f[x] + s[(S \ {y}) \ {x}]
        BY <3>1, <3>2, <4>1
      <4>4. s[S \ {x}] = f[y] + s[(S \ {x}) \ {y}] /\ s[S \ {x}] \in Int
        BY <3>2, <4>1
      <4>5. f[x] \in Int /\ f[y] \in Int /\ s[(S \ {x}) \ {y}] \in Int
        <5>1. x \in D
          OBVIOUS
        <5>2. (S \ {x}) \ {y} \in SUBSET D
          OBVIOUS
        <5>3. Cardinality(S \ {x}) <= n /\ Cardinality(S \ {x}) \in Nat
              /\ Cardinality((S \ {x}) \ {y}) = Cardinality(S \ {x}) - 1
          <6>1. S \ {x} \in SUBSET D /\ Cardinality(S \ {x}) <= n
            BY <2>0, <1>0
          <6> QED BY <4>1, <6>1, <1>0
        <5>4. Holds((S \ {x}) \ {y})
          <6>1. Cardinality((S \ {x}) \ {y}) <= n
            BY <2>0, <5>3
          <6> HIDE DEF Holds
          <6> QED BY <2>0, <5>2, <6>1
        <5> QED BY <3>1, <5>1, <5>4
      <4>6. s[S] = f[y] + (f[x] + s[(S \ {x}) \ {y}])
        BY <3>1, <4>2, <4>3
      <4>7. s[S \ {x}] = f[y] + s[(S \ {x}) \ {y}]
        BY <4>4
      <4> QED BY <4>5, <4>6, <4>7
    <3> QED BY <3>1, <3>3, <3>4
  <2> QED BY <2>1, <2>2
<1>17. T = Nat
  <2>1. T \subseteq Nat
    OBVIOUS
  <2> HIDE DEF T
  <2> QED BY <1>15, <1>16, <2>1, Induction
<1>18. ASSUME NEW S \in SUBSET D PROVE Holds(S)
  <2>1. Cardinality(S) \in Nat /\ Cardinality(S) <= Cardinality(S)
    BY <1>0
  <2>2. Cardinality(S) \in T
    BY <1>17, <2>1
  <2> HIDE DEF Holds
  <2> QED BY <2>1, <2>2
<1>19. s \in [SUBSET D -> Int]
  BY <1>14, <1>18
<1> QED BY <1>2, <1>12, <1>13, <1>18, <1>19 DEF Sums

(* There is one sum.                                                       *)
LEMMA SumIs ==
  ASSUME NEW D, IsFiniteSet(D), NEW f \in [D -> Int], NEW g, Sums(g, f, D)
  PROVE  g[D] = SumOf(f) /\ SumOf(f) \in Int
<1>0. \A S \in SUBSET D :
        /\ Cardinality(S) \in Nat
        /\ (S = {} <=> Cardinality(S) = 0)
        /\ \A x \in S : S \ {x} \in SUBSET D /\ Cardinality(S \ {x}) = Cardinality(S) - 1
  BY SubsetSizes
<1>1. PICK h : Sums(h, f, D) /\ h[D] = SumOf(f)
  BY SumsExist
<1> DEFINE T == {n \in Nat : \A S \in SUBSET D : Cardinality(S) = n => g[S] = h[S]}
<1>2. 0 \in T
  <2> SUFFICES ASSUME NEW S \in SUBSET D, Cardinality(S) = 0 PROVE g[S] = h[S]
    OBVIOUS
  <2>1. S = {}
    BY <1>0
  <2> QED BY <1>1, <2>1 DEF Sums
<1>3. ASSUME NEW n \in T PROVE n + 1 \in T
  <2> SUFFICES ASSUME NEW S \in SUBSET D, Cardinality(S) = n + 1 PROVE g[S] = h[S]
    OBVIOUS
  <2>1. n \in Nat /\ \A R \in SUBSET D : Cardinality(R) = n => g[R] = h[R]
    OBVIOUS
  <2>2. S # {}
    BY <2>1, <1>0
  <2>3. PICK x \in S : TRUE
    BY <2>2
  <2>4. S \ {x} \in SUBSET D /\ Cardinality(S \ {x}) = n
    BY <2>1, <1>0
  <2>5. g[S \ {x}] = h[S \ {x}]
    BY <2>1, <2>4
  <2> QED BY <1>1, <2>5 DEF Sums
<1>4. T = Nat
  <2>1. T \subseteq Nat
    OBVIOUS
  <2> HIDE DEF T
  <2> QED BY <1>2, <1>3, <2>1, Induction
<1>5. Cardinality(D) \in T
  BY <1>4, <1>0
<1>6. g[D] = h[D]
  BY <1>5
<1>7. h[D] \in Int
  BY <1>1 DEF Sums
<1> QED BY <1>1, <1>6, <1>7

(* A sum has a type.                                                       *)
LEMMA SumType ==
  ASSUME NEW D, IsFiniteSet(D), NEW f \in [D -> Int]
  PROVE  SumOf(f) \in Int
BY SumsExist, SumIs

(* Sums are added term by term.                                            *)
LEMMA SumAdds ==
  ASSUME NEW D, IsFiniteSet(D), NEW f \in [D -> Int], NEW e \in [D -> Int],
         NEW h \in [D -> Int], \A x \in D : h[x] = f[x] + e[x]
  PROVE  SumOf(h) = SumOf(f) + SumOf(e)
<1>1. PICK F : Sums(F, f, D) /\ F[D] = SumOf(f)
  BY SumsExist
<1>2. PICK E : Sums(E, e, D) /\ E[D] = SumOf(e)
  BY SumsExist
<1> DEFINE H == [S \in SUBSET D |-> F[S] + E[S]]
<1>3. H \in [SUBSET D -> Int] /\ H[{}] = 0
  <2>1. \A S \in SUBSET D : F[S] \in Int /\ E[S] \in Int
    BY <1>1, <1>2 DEF Sums
  <2>2. F[{}] = 0 /\ E[{}] = 0 /\ {} \in SUBSET D
    BY <1>1, <1>2 DEF Sums
  <2>3. H[{}] = F[{}] + E[{}]
    BY <2>2
  <2> QED BY <2>1, <2>2, <2>3
<1>4. ASSUME NEW S \in SUBSET D, NEW x \in S
      PROVE  H[S] = h[x] + H[S \ {x}]
  <2>1. x \in D /\ S \ {x} \in SUBSET D
    OBVIOUS
  <2>2. F[S] = f[x] + F[S \ {x}] /\ E[S] = e[x] + E[S \ {x}]
    BY <1>1, <1>2 DEF Sums
  <2>3. F[S \ {x}] \in Int /\ E[S \ {x}] \in Int /\ f[x] \in Int /\ e[x] \in Int
    BY <1>1, <1>2, <2>1 DEF Sums
  <2>4. H[S] = F[S] + E[S] /\ H[S \ {x}] = F[S \ {x}] + E[S \ {x}]
    BY <2>1
  <2>5. h[x] = f[x] + e[x]
    BY <2>1
  <2> HIDE DEF H
  <2> QED BY <2>2, <2>3, <2>4, <2>5
<1> HIDE DEF H
<1>5. Sums(H, h, D)
  BY <1>3, <1>4 DEF Sums
<1>6. H[D] = F[D] + E[D]
  BY DEF H
<1> QED BY <1>1, <1>2, <1>5, <1>6, SumIs

(* A sum with one term.                                                    *)
LEMMA SumPoint ==
  ASSUME NEW D, IsFiniteSet(D), NEW a \in D, NEW v \in Int
  PROVE  SumOf([x \in D |-> IF x = a THEN v ELSE 0]) = v
<1> DEFINE f == [x \in D |-> IF x = a THEN v ELSE 0]
           g == [S \in SUBSET D |-> IF a \in S THEN v ELSE 0]
<1>1. f \in [D -> Int]
  OBVIOUS
<1>2. Sums(g, f, D)
  BY DEF Sums
<1>3. g[D] = v
  OBVIOUS
<1> HIDE DEF f, g
<1>4. SumOf(f) = v
  BY <1>1, <1>2, <1>3, SumIs
<1> QED BY <1>4 DEF f

(* A sum of nothing.                                                       *)
LEMMA SumZero ==
  ASSUME NEW D, IsFiniteSet(D)
  PROVE  SumOf([x \in D |-> 0]) = 0
<1> DEFINE f == [x \in D |-> 0]
           g == [S \in SUBSET D |-> 0]
<1>1. f \in [D -> Int]
  OBVIOUS
<1>2. Sums(g, f, D)
  BY DEF Sums
<1>3. g[D] = 0
  OBVIOUS
<1> HIDE DEF f, g
<1>4. SumOf(f) = 0
  BY <1>1, <1>2, <1>3, SumIs
<1> QED BY <1>4 DEF f

(* One more term.                                                          *)
LEMMA SumOneMore ==
  ASSUME NEW D, IsFiniteSet(D), NEW a \in D, NEW f \in [D -> Int]
  PROVE  SumOf(f) = f[a] + SumOf([x \in D \ {a} |-> f[x]])
<1> DEFINE C == D \ {a}
           e == [x \in C |-> f[x]]
<1>1. PICK F : Sums(F, f, D) /\ F[D] = SumOf(f)
  BY SumsExist
<1> DEFINE E == [S \in SUBSET C |-> F[S]]
<1>2. IsFiniteSet(C) /\ e \in [C -> Int]
  BY FS_Subset
<1>3. Sums(E, e, C)
  <2>1. E \in [SUBSET C -> Int] /\ E[{}] = 0
    BY <1>1 DEF Sums
  <2>2. ASSUME NEW S \in SUBSET C, NEW x \in S
        PROVE  E[S] = e[x] + E[S \ {x}]
    <3>1. S \in SUBSET D /\ S \ {x} \in SUBSET C /\ x \in C
      OBVIOUS
    <3>2. F[S] = f[x] + F[S \ {x}]
      BY <1>1, <3>1 DEF Sums
    <3> QED BY <3>1, <3>2
  <2> HIDE DEF E, e, C
  <2> QED BY <2>1, <2>2 DEF Sums
<1>4. E[C] = F[D \ {a}]
  OBVIOUS
<1> HIDE DEF E, e
<1>5. E[C] = SumOf(e)
  BY <1>2, <1>3, SumIs
<1>6. F[D] = f[a] + F[D \ {a}]
  BY <1>1 DEF Sums
<1> QED BY <1>1, <1>4, <1>5, <1>6 DEF e

(* How many pairs of an element and a position up to its length there are. *)
LEMMA PairsCounted ==
  ASSUME NEW D, IsFiniteSet(D), NEW L \in [D -> Nat]
  PROVE  LET P == UNION {{<<x, k>> : k \in 1 .. L[x]} : x \in D}
         IN  IsFiniteSet(P) /\ Cardinality(P) = SumOf(L)
<1>0. \A S \in SUBSET D :
        /\ Cardinality(S) \in Nat
        /\ (S = {} <=> Cardinality(S) = 0)
        /\ \A x \in S : S \ {x} \in SUBSET D /\ Cardinality(S \ {x}) = Cardinality(S) - 1
  BY SubsetSizes
<1> DEFINE Row(x) == {<<x, k>> : k \in 1 .. L[x]}
           Rows(S) == UNION {Row(x) : x \in S}
           g == [S \in SUBSET D |-> Cardinality(Rows(S))]
<1>1. ASSUME NEW x \in D
      PROVE  IsFiniteSet(Row(x)) /\ Cardinality(Row(x)) = L[x]
  <2> DEFINE f == [k \in 1 .. L[x] |-> <<x, k>>]
  <2>1. IsFiniteSet(1 .. L[x]) /\ Cardinality(1 .. L[x]) = L[x]
    <3>1. L[x] \in Nat
      OBVIOUS
    <3>2. 1 \in Int /\ L[x] \in Int /\ (1 > L[x] <=> L[x] = 0) /\ L[x] - 1 + 1 = L[x]
      BY <3>1
    <3> QED BY <3>1, <3>2, FS_Interval
  <2>2. f \in Bijection(1 .. L[x], Row(x))
    <3>1. f \in [1 .. L[x] -> Row(x)] /\ \A t \in Row(x) : \E k \in 1 .. L[x] : f[k] = t
      OBVIOUS
    <3>2. IsInjective(f)
      BY DEF IsInjective
    <3> HIDE DEF f, Row
    <3> QED BY <3>1, <3>2 DEF Bijection, Injection, Surjection
  <2>3. ExistsBijection(1 .. L[x], Row(x))
    BY <2>2 DEF ExistsBijection
  <2> HIDE DEF Row
  <2> QED BY <2>1, <2>3, FS_Bijection
<1>2. \A S \in SUBSET D : \A x \in S : /\ Rows(S) = Row(x) \union Rows(S \ {x})
                                     /\ Row(x) \intersect Rows(S \ {x}) = {}
  OBVIOUS
<1>3. Rows({}) = {}
  OBVIOUS
<1> HIDE DEF Row, Rows
<1> DEFINE T == {n \in Nat : \A S \in SUBSET D : Cardinality(S) = n => IsFiniteSet(Rows(S))}
<1>4. 0 \in T
  <2> SUFFICES ASSUME NEW S \in SUBSET D, Cardinality(S) = 0 PROVE IsFiniteSet(Rows(S))
    OBVIOUS
  <2>1. S = {}
    BY <1>0
  <2> QED BY <1>3, <2>1, FS_EmptySet
<1>5. ASSUME NEW n \in T PROVE n + 1 \in T
  <2> SUFFICES ASSUME NEW S \in SUBSET D, Cardinality(S) = n + 1 PROVE IsFiniteSet(Rows(S))
    OBVIOUS
  <2>1. n \in Nat /\ \A R \in SUBSET D : Cardinality(R) = n => IsFiniteSet(Rows(R))
    OBVIOUS
  <2>2. PICK x \in S : TRUE
    BY <2>1, <1>0
  <2>3. S \ {x} \in SUBSET D /\ Cardinality(S \ {x}) = n
    BY <2>1, <1>0
  <2>4. IsFiniteSet(Rows(S \ {x})) /\ IsFiniteSet(Row(x))
    BY <1>1, <2>1, <2>3
  <2>5. Rows(S) = Row(x) \union Rows(S \ {x})
    BY <1>2
  <2>6. IsFiniteSet(Row(x) \union Rows(S \ {x}))
    BY <2>4, FS_Union
  <2> QED BY <2>5, <2>6
<1>6. T = Nat
  <2>1. T \subseteq Nat
    OBVIOUS
  <2> HIDE DEF T
  <2> QED BY <1>4, <1>5, <2>1, Induction
<1>7. \A S \in SUBSET D : IsFiniteSet(Rows(S))
  <2> SUFFICES ASSUME NEW S \in SUBSET D PROVE IsFiniteSet(Rows(S))
    OBVIOUS
  <2>1. Cardinality(S) \in T
    BY <1>6, <1>0
  <2> QED BY <2>1
<1>8. g \in [SUBSET D -> Int] /\ g[{}] = 0
  <2>1. \A S \in SUBSET D : Cardinality(Rows(S)) \in Nat
    BY <1>7, FS_CardinalityType
  <2> QED BY <1>3, <2>1, FS_EmptySet
<1>9. ASSUME NEW S \in SUBSET D, NEW x \in S
      PROVE  g[S] = L[x] + g[S \ {x}]
  <2> DEFINE A == Row(x)
             B == Rows(S \ {x})
  <2>1. S \ {x} \in SUBSET D /\ x \in D
    OBVIOUS
  <2>2. IsFiniteSet(A) /\ IsFiniteSet(B) /\ Cardinality(A) = L[x]
    BY <1>1, <1>7, <2>1
  <2>3. Rows(S) = A \union B /\ A \intersect B = {}
    BY <1>2
  <2> HIDE DEF A, B
  <2>4. Cardinality(A \union B) = Cardinality(A) + Cardinality(B) - Cardinality(A \intersect B)
    BY <2>2, FS_Union
  <2>5. Cardinality({}) = 0 /\ Cardinality(A) \in Nat /\ Cardinality(B) \in Nat
    BY <2>2, FS_EmptySet, FS_CardinalityType
  <2>6. Cardinality(A \union B) = L[x] + Cardinality(B)
    <3>1. Cardinality(A \intersect B) = 0
      BY <2>3, <2>5
    <3> QED BY <2>2, <2>4, <2>5, <3>1
  <2>7. Cardinality(Rows(S)) = L[x] + Cardinality(B)
    BY <2>3, <2>6
  <2> QED BY <2>1, <2>7 DEF B
<1>10. L \in [D -> Int]
  OBVIOUS
<1>11. g[D] = Cardinality(Rows(D))
  OBVIOUS
<1> HIDE DEF g
<1>12. Sums(g, L, D)
  BY <1>8, <1>9 DEF Sums
<1>13. Cardinality(Rows(D)) = SumOf(L) /\ IsFiniteSet(Rows(D))
  BY <1>7, <1>10, <1>11, <1>12, SumIs
<1> QED BY <1>13 DEF Rows, Row

=============================================================================
