------------------------------ MODULE SetFacts ------------------------------
(***************************************************************************)
(* Facts that the proofs of several components rest on: a largest and a    *)
(* least element of a set of numbers, the size of a set that grows by one, *)
(* a predicate or a function that goes from each number to the next, and   *)
(* the sum of a sequence of numbers.                                       *)
(***************************************************************************)
EXTENDS Integers, SequencesExt, FiniteSetTheorems, WellFoundedInduction, TLAPS

\* A set of numbers that is not empty and has a bound has a largest one: the
\* one that is least far from the bound.
LEMMA LargestOf ==
  ASSUME NEW n \in Nat, NEW S \in SUBSET (0 .. n), S # {}
  PROVE  Max(S) \in S /\ \A x \in S : x <= Max(S)
<1>. DEFINE T    == {n - x : x \in S}
            less == {ss \in Nat \X Nat : ss[1] < ss[2]}
<1>1. T \subseteq Nat /\ T # {}
  <2>1. PICK y : y \in S
    OBVIOUS
  <2>2. \A x \in S : n - x \in Nat
    OBVIOUS
  <2>. QED  BY <2>1, <2>2
<1>2. PICK t \in T : \A u \in T : t <= u
  <2>1. IsWellFoundedOn(less, Nat)
    BY NatLessThanWellFounded DEF OpToRel
  <2>. HIDE DEF less, T
  <2>2. PICK t \in T : \A u \in T : <<u, t>> \notin less
    BY <1>1, <2>1, WFMin
  <2>3. ASSUME NEW u \in T PROVE t <= u
    <3>1. ~(u < t)
      BY <1>1, <2>2 DEF less
    <3>2. t \in Nat /\ u \in Nat
      BY <1>1
    <3>. QED  BY <3>1, <3>2
  <2>. QED  BY <2>3
<1>3. PICK x \in S : t = n - x
  BY <1>2
<1>4. ASSUME NEW y \in S PROVE x >= y
  <2>1. n - x <= n - y
    BY <1>2, <1>3
  <2>. QED  BY <2>1
<1>. QED  BY <1>3, <1>4 DEF Max

\* A set of numbers below n is finite and has no more than n.
LEMMA PartOfInterval ==
  ASSUME NEW n \in Nat, NEW S \in SUBSET (1 .. n)
  PROVE  IsFiniteSet(S) /\ Cardinality(S) \in 0 .. n
<1>1. IsFiniteSet(1 .. n) /\ Cardinality(1 .. n) = n
  BY FS_Interval
<1>2. IsFiniteSet(S) /\ Cardinality(S) <= Cardinality(1 .. n)
  BY <1>1, FS_Subset
<1>3. Cardinality(S) \in Nat
  BY <1>2, FS_CardinalityType
<1>. QED  BY <1>1, <1>2, <1>3

\* What is told apart by a function, and reached by it, is as many.
LEMMA OneToOne ==
  ASSUME NEW S, IsFiniteSet(S), NEW T, NEW f \in [S -> T],
         \A x, y \in S : f[x] = f[y] => x = y,
         \A t \in T : \E x \in S : f[x] = t
  PROVE  IsFiniteSet(T) /\ Cardinality(T) = Cardinality(S)
<1>1. f \in Injection(S, T)
  BY DEF Injection, IsInjective
<1>2. f \in Surjection(S, T)
  BY DEF Surjection
<1>. QED  BY <1>1, <1>2, FS_Surjection

-----------------------------------------------------------------------------
(***************************************************************************)
(* Induction and recursion over numbers, as facts about sets and functions *)
(* rather than operators, and with them the sum of a function.             *)
(***************************************************************************)

\* A set with 0, and with every successor of its numbers, has every number.
LEMMA Induction ==
  ASSUME NEW S, 0 \in S, \A n \in Nat : n \in S => n + 1 \in S
  PROVE  Nat \subseteq S
<1>. DEFINE T    == Nat \ S
            less == {ss \in Nat \X Nat : ss[1] < ss[2]}
<1>1. SUFFICES ASSUME T # {} PROVE FALSE
  OBVIOUS
<1>2. IsWellFoundedOn(less, Nat)
  BY NatLessThanWellFounded DEF OpToRel
<1>3. PICK t \in T : \A u \in T : <<u, t>> \notin less
  <2>. HIDE DEF less
  <2>1. T \subseteq Nat
    OBVIOUS
  <2>. HIDE DEF T
  <2>. QED  BY <1>1, <1>2, <2>1, WFMin
<1>4. t # 0 /\ t - 1 \in T
  BY <1>3
<1>5. <<t - 1, t>> \in less
  BY <1>4
<1>. QED  BY <1>3, <1>4, <1>5

\* A set of numbers that is not empty has a smallest one.
LEMMA SmallestOf ==
  ASSUME NEW S \in SUBSET Nat, S # {}
  PROVE  \E m \in S : \A x \in S : m <= x
<1>. SUFFICES ASSUME \A m \in S : \E x \in S : x < m PROVE FALSE
  OBVIOUS
<1>. DEFINE Below == {n \in Nat : \A x \in S : n <= x}
<1>1. 0 \in Below
  OBVIOUS
<1>2. ASSUME NEW n \in Nat, n \in Below PROVE n + 1 \in Below
  <2>1. n \notin S
    BY <1>2
  <2>. QED  BY <1>2, <2>1
<1>. HIDE DEF Below
<1>3. Nat \subseteq Below
  BY <1>1, <1>2, Induction
<1>4. PICK x \in S : TRUE
  OBVIOUS
<1>5. x + 1 \in Below
  BY <1>3
<1>. QED  BY <1>5 DEF Below

\* The function computed from a, step by step.
Computed(f, U, a, F) ==
  f \in [Nat -> U] /\ f[0] = a /\ \A n \in Nat : f[n + 1] = F[n][f[n]]

\* What is computed step by step is a function.
LEMMA Recursion ==
  ASSUME NEW U, NEW a \in U, NEW F \in [Nat -> [U -> U]]
  PROVE  \E f : Computed(f, U, a, F)
<1>. DEFINE Part(n, f) == /\ f \in [0 .. n -> U] /\ f[0] = a
                          /\ \A i \in 0 .. n - 1 : f[i + 1] = F[i][f[i]]
<1>1. \A n \in Nat : \E f : Part(n, f)
  <2>. DEFINE S == {n \in Nat : \E f : Part(n, f)}
  <2>1. 0 \in S
    <3>1. Part(0, [i \in {0} |-> a])
      OBVIOUS
    <3>. QED  BY <3>1
  <2>2. ASSUME NEW n \in Nat, n \in S PROVE n + 1 \in S
    <3>1. PICK f : Part(n, f)
      BY <2>2
    <3>2. F[n] \in [U -> U] /\ f[n] \in U
      BY <3>1
    <3>3. Part(n + 1, [i \in 0 .. n + 1 |-> IF i = n + 1 THEN F[n][f[n]] ELSE f[i]])
      BY <3>1, <3>2
    <3>. HIDE DEF Part
    <3>. QED  BY <3>3
  <2>. HIDE DEF S
  <2>3. Nat \subseteq S
    BY <2>1, <2>2, Induction
  <2>. QED  BY <2>3 DEF S
<1>2. ASSUME NEW n \in Nat, NEW m \in Nat, NEW f, NEW g, Part(n, f), Part(m, g)
      PROVE  \A i \in Nat : i <= n /\ i <= m => f[i] = g[i]
  <2>. DEFINE S == {i \in Nat : i <= n /\ i <= m => f[i] = g[i]}
  <2>1. 0 \in S
    BY <1>2
  <2>2. ASSUME NEW i \in Nat, i \in S PROVE i + 1 \in S
    BY <1>2, <2>2
  <2>. HIDE DEF S
  <2>3. Nat \subseteq S
    BY <2>1, <2>2, Induction
  <2>. QED  BY <2>3 DEF S
<1>. DEFINE Full(n) == CHOOSE f : Part(n, f)
            h       == [n \in Nat |-> Full(n)[n]]
<1>3. \A n \in Nat : Part(n, Full(n))
  <2>. HIDE DEF Part
  <2>. QED  BY <1>1
<1>. HIDE DEF Full
<1>4. h \in [Nat -> U] /\ h[0] = a
  BY <1>3
<1>5. ASSUME NEW n \in Nat PROVE h[n + 1] = F[n][h[n]]
  <2>1. Full(n + 1)[n] = Full(n)[n]
    <3>. HIDE DEF Part
    <3>. QED  BY <1>2, <1>3
  <2>2. Full(n + 1)[n + 1] = F[n][Full(n + 1)[n]]
    BY <1>3
  <2>. QED  BY <2>1, <2>2
<1>. HIDE DEF h
<1>. QED  BY <1>4, <1>5 DEF Computed


\* One element of a set that is not empty.
Some(s) == CHOOSE x \in s : TRUE

\* The sums of the parts of a set: one element, whichever it is, and the rest.
SumsBySome(H, D, v) ==
  /\ H \in [SUBSET D -> Int] /\ H[{}] = 0
  /\ \A T \in SUBSET D : T # {} => H[T] = v[Some(T)] + H[T \ {Some(T)}]

Sums(H, D, v) ==
  /\ H \in [SUBSET D -> Int] /\ H[{}] = 0
  /\ \A T \in SUBSET D : \A x \in T : H[T] = v[x] + H[T \ {x}]

\* There is a table of the sums of a function's values: it is computed for the
\* sets of one size after the other.
LEMMA SumTable ==
  ASSUME NEW D, IsFiniteSet(D), NEW v \in [D -> Int]
  PROVE  \E H : SumsBySome(H, D, v)
<1>. DEFINE U       == [SUBSET D -> Int]
            zero    == [s \in SUBSET D |-> 0]
            One(g)  == [s \in SUBSET D |-> IF s = {} THEN 0 ELSE v[Some(s)] + g[s \ {Some(s)}]]
            F       == [n \in Nat |-> [g \in U |-> One(g)]]
<1>1. \A s \in SUBSET D : s # {} => Some(s) \in s /\ Some(s) \in D /\ s \ {Some(s)} \in SUBSET D
  BY DEF Some
<1>2. zero \in U
  OBVIOUS
<1>3. F \in [Nat -> [U -> U]]
  <2>1. ASSUME NEW g \in U PROVE One(g) \in U
    BY <1>1
  <2>. HIDE DEF U, One
  <2>. QED  BY <2>1
<1>4. PICK f : Computed(f, U, zero, F)
  <2>. HIDE DEF U, F, zero
  <2>. QED  BY <1>2, <1>3, Recursion
<1>5. ASSUME NEW n \in Nat PROVE f[n + 1] = One(f[n])
  <2>. HIDE DEF U, One
  <2>. QED  BY <1>4 DEF Computed
<1>. DEFINE H == [s \in SUBSET D |-> f[Cardinality(s)][s]]
<1>6. \A s \in SUBSET D : IsFiniteSet(s) /\ Cardinality(s) \in Nat
  BY FS_Subset, FS_CardinalityType
<1>7. H \in U
  BY <1>4, <1>6 DEF Computed
<1>8. H[{}] = 0
  BY <1>4, FS_EmptySet DEF Computed
<1>9. ASSUME NEW T \in SUBSET D, T # {}
      PROVE  H[T] = v[Some(T)] + H[T \ {Some(T)}]
  <2>1. PICK n \in Nat : n = Cardinality(T \ {Some(T)})
    BY <1>1, <1>6
  <2>2. Cardinality(T) = n + 1
    BY <1>1, <1>6, <1>9, <2>1, FS_RemoveElement
  <2>3. H[T] = One(f[n])[T]
    <3>. HIDE DEF One
    <3>. QED  BY <1>5, <2>2
  <2>. QED  BY <1>1, <1>9, <2>1, <2>3
<1>. HIDE DEF H
<1>. QED  BY <1>7, <1>8, <1>9 DEF SumsBySome

\* A table of sums does not depend on which element is taken out first.
LEMMA AnyFirst ==
  ASSUME NEW D, IsFiniteSet(D), NEW v \in [D -> Int], NEW H, SumsBySome(H, D, v)
  PROVE  Sums(H, D, v)
<1>. USE DEF SumsBySome, Sums
<1>. DEFINE P(T) == \A x \in T : H[T] = v[x] + H[T \ {x}]
            S    == {n \in Nat : \A T \in SUBSET D : Cardinality(T) = n => P(T)}
<1>1. \A s \in SUBSET D : /\ IsFiniteSet(s) /\ Cardinality(s) \in Nat
                          /\ (Cardinality(s) = 0) = (s = {})
                          /\ \A x \in s : Cardinality(s \ {x}) = Cardinality(s) - 1
  BY FS_Subset, FS_CardinalityType, FS_EmptySet, FS_RemoveElement
<1>2. 0 \in S
  BY <1>1
<1>3. ASSUME NEW n \in Nat, n \in S PROVE n + 1 \in S
  <2>1. SUFFICES ASSUME NEW T \in SUBSET D, Cardinality(T) = n + 1, NEW x \in T
                 PROVE  H[T] = v[x] + H[T \ {x}]
    OBVIOUS
  <2>2. PICK c \in T : c = Some(T)
    BY <2>1 DEF Some
  <2>3. H[T] = v[c] + H[T \ {c}]
    BY <2>1, <2>2
  <2>4. CASE x # c
    <3>1. /\ T \ {c} \in SUBSET D /\ Cardinality(T \ {c}) = n /\ x \in T \ {c}
          /\ T \ {x} \in SUBSET D /\ Cardinality(T \ {x}) = n /\ c \in T \ {x}
          /\ (T \ {c}) \ {x} \in SUBSET D /\ (T \ {c}) \ {x} = (T \ {x}) \ {c}
      BY <1>1, <2>1, <2>4
    <3>2. P(T \ {c}) /\ P(T \ {x})
      <4>. HIDE DEF P
      <4>. QED  BY <1>3, <3>1
    <3>3. H[T \ {c}] = v[x] + H[(T \ {c}) \ {x}]
      BY <3>1, <3>2
    <3>4. H[T \ {x}] = v[c] + H[(T \ {x}) \ {c}]
      BY <3>1, <3>2
    <3>5. v[x] \in Int /\ v[c] \in Int /\ H[(T \ {c}) \ {x}] \in Int
      BY <3>1
    <3>. DEFINE r == H[(T \ {c}) \ {x}]
    <3>6. H[T \ {x}] = v[c] + r /\ H[T \ {c}] = v[x] + r /\ r \in Int
      BY <3>1, <3>3, <3>4, <3>5
    <3>. HIDE DEF S, P, r
    <3>. QED  BY <2>3, <3>5, <3>6
  <2>. QED  BY <2>3, <2>4
<1>. HIDE DEF S
<1>4. Nat \subseteq S
  BY <1>2, <1>3, Induction
<1>. QED  BY <1>1, <1>4 DEF S

\* The community's sum of a function is what the table says.
LEMMA SumIs ==
  ASSUME NEW D, IsFiniteSet(D), NEW v \in [D -> Int]
  PROVE  \E H : Sums(H, D, v) /\ H[D] = SumFunction(v)
<1>. DEFINE Is(g) == g = [s \in SUBSET D |-> IF s = {} THEN 0
                                            ELSE v[Some(s)] + g[s \ {Some(s)}]]
            g     == CHOOSE x : Is(x)
<1>1. PICK H : SumsBySome(H, D, v)
  BY SumTable
<1>2. Is(H)
  BY <1>1 DEF SumsBySome
<1>3. Is(g)
  <2>. HIDE DEF Is
  <2>. QED  BY <1>2
<1>4. SumFunction(v) = g[D]
  BY DEF SumFunction, SumFunctionOnSet, FoldFunctionOnSet, MapThenFoldSet, Some
<1>. HIDE DEF g
<1>5. \A s \in SUBSET D : g[s] = IF s = {} THEN 0 ELSE v[Some(s)] + g[s \ {Some(s)}]
  BY <1>3
<1>. DEFINE S == {n \in Nat : \A T \in SUBSET D : Cardinality(T) = n => g[T] = H[T]}
<1>6. \A s \in SUBSET D : /\ IsFiniteSet(s) /\ Cardinality(s) \in Nat
                          /\ (Cardinality(s) = 0) = (s = {})
                          /\ \A x \in s : Cardinality(s \ {x}) = Cardinality(s) - 1
  BY FS_Subset, FS_CardinalityType, FS_EmptySet, FS_RemoveElement
<1>7. 0 \in S
  BY <1>1, <1>5, <1>6 DEF SumsBySome
<1>8. ASSUME NEW n \in Nat, n \in S PROVE n + 1 \in S
  <2>1. SUFFICES ASSUME NEW T \in SUBSET D, Cardinality(T) = n + 1
                 PROVE  g[T] = H[T]
    OBVIOUS
  <2>2. T # {} /\ Some(T) \in T
    BY <1>6, <2>1 DEF Some
  <2>3. T \ {Some(T)} \in SUBSET D /\ Cardinality(T \ {Some(T)}) = n
    BY <1>6, <2>1, <2>2
  <2>4. g[T \ {Some(T)}] = H[T \ {Some(T)}]
    BY <1>8, <2>3
  <2>. QED  BY <1>1, <1>5, <2>2, <2>4 DEF SumsBySome
<1>. HIDE DEF S
<1>9. Nat \subseteq S
  BY <1>7, <1>8, Induction
<1>10. g[D] = H[D]
  BY <1>6, <1>9 DEF S
<1>11. Sums(H, D, v)
  BY <1>1, AnyFirst
<1>. QED  BY <1>1, <1>4, <1>10, <1>11

\* The sums of the beginnings of a row of numbers.
LEMMA SumRow ==
  ASSUME NEW n \in Nat, NEW v \in [1 .. n -> Int], NEW H, Sums(H, 1 .. n, v)
  PROVE  \A i \in 0 .. n - 1 : /\ H[1 .. i + 1] = v[i + 1] + H[1 .. i]
                               /\ H[1 .. i] \in Int /\ v[i + 1] \in Int
<1>. TAKE i \in 0 .. n - 1
<1>1. PICK T \in SUBSET (1 .. n) : T = 1 .. i + 1
  OBVIOUS
<1>2. i + 1 \in T /\ T \ {i + 1} = 1 .. i /\ 1 .. i \in SUBSET (1 .. n)
  BY <1>1
<1>3. H[T] = v[i + 1] + H[T \ {i + 1}] /\ H \in [SUBSET (1 .. n) -> Int]
  BY <1>2 DEF Sums
<1>. QED  BY <1>1, <1>2, <1>3

\* One more number in a row adds to the sum.
LEMMA SumAppends ==
  ASSUME NEW n \in Nat, NEW v \in [1 .. n -> Int], NEW w \in [1 .. n + 1 -> Int],
         \A i \in 1 .. n : w[i] = v[i]
  PROVE  /\ SumFunction(v) \in Int
         /\ SumFunction(w) = SumFunction(v) + w[n + 1]
<1>1. IsFiniteSet(1 .. n) /\ IsFiniteSet(1 .. n + 1)
  BY FS_Interval
<1>2. PICK H : Sums(H, 1 .. n, v) /\ H[1 .. n] = SumFunction(v)
  BY <1>1, SumIs
<1>3. PICK K : Sums(K, 1 .. n + 1, w) /\ K[1 .. n + 1] = SumFunction(w)
  BY <1>1, SumIs
<1>4. \A i \in 0 .. n : /\ K[1 .. i + 1] = w[i + 1] + K[1 .. i]
                        /\ K[1 .. i] \in Int /\ w[i + 1] \in Int
  <2>1. PICK m \in Nat : m = n + 1
    OBVIOUS
  <2>2. w \in [1 .. m -> Int] /\ Sums(K, 1 .. m, w)
    BY <1>3, <2>1
  <2>3. \A i \in 0 .. m - 1 : /\ K[1 .. i + 1] = w[i + 1] + K[1 .. i]
                              /\ K[1 .. i] \in Int /\ w[i + 1] \in Int
    BY <2>2, SumRow
  <2>. QED  BY <2>1, <2>3
<1>5. \A i \in 0 .. n - 1 : H[1 .. i + 1] = v[i + 1] + H[1 .. i] /\ H[1 .. i] \in Int
  <2>1. Sums(H, 1 .. n, v)
    BY <1>2
  <2>. QED  BY <2>1, SumRow
<1>6. n \in 0 .. n
  OBVIOUS
<1>. DEFINE S == {i \in Nat : i <= n => K[1 .. i] = H[1 .. i]}
<1>7. 0 \in S
  BY <1>2, <1>3 DEF Sums
<1>8. ASSUME NEW i \in Nat, i \in S PROVE i + 1 \in S
  <2>1. SUFFICES ASSUME i + 1 <= n PROVE K[1 .. i + 1] = H[1 .. i + 1]
    OBVIOUS
  <2>2. H[1 .. i + 1] = v[i + 1] + H[1 .. i]
    BY <1>5, <2>1
  <2>3. K[1 .. i + 1] = w[i + 1] + K[1 .. i]
    BY <1>4, <2>1
  <2>4. K[1 .. i] = H[1 .. i] /\ w[i + 1] = v[i + 1]
    BY <1>8, <2>1
  <2>. QED  BY <2>2, <2>3, <2>4
<1>. HIDE DEF S
<1>9. Nat \subseteq S
  BY <1>7, <1>8, Induction
<1>10. K[1 .. n] = H[1 .. n]
  BY <1>9 DEF S
<1>. QED  BY <1>2, <1>3, <1>4, <1>6, <1>10

=============================================================================
