------------------------------ MODULE Counting ------------------------------
(***************************************************************************)
(* What the proofs need of sums over finite sets and of binomial           *)
(* coefficients, which the community modules define and nobody proves      *)
(* anything about.                                                         *)
(*                                                                         *)
(* SumFunctionOnSet adds one value after the other, in the order in which  *)
(* CHOOSE picks their indices; the order does not matter, and a sum can be *)
(* reasoned about by taking out any index.  choose divides factorials; the *)
(* division is exact, and Pascal's rule holds.                             *)
(*                                                                         *)
(* A property of sets, or of numbers, is stated as membership in a set G,  *)
(* since the inductions have to do without operator parameters.            *)
(***************************************************************************)
EXTENDS Integers, Functions, Combinatorics, FiniteSetTheorems,
        WellFoundedInduction, TLAPS

\* Induction over the subsets of a finite set.
LEMMA SubsetInduction ==
    ASSUME NEW S, IsFiniteSet(S), NEW G,
           \A T \in SUBSET S : (\A U \in SUBSET T : U # T => U \in G) => T \in G
    PROVE  \A T \in SUBSET S : T \in G
<1> DEFINE Bad == {T \in SUBSET S : T \notin G}
<1> SUFFICES ASSUME Bad # {} PROVE FALSE
  OBVIOUS
<1>1. IsWellFoundedOn(StrictSubsetOrdering(S), SUBSET S)
  <2>1. FiniteSubsetsOf(S) = SUBSET S
    BY FS_FiniteSubsetsOfFinite
  <2>2. IsWellFoundedOn(StrictSubsetOrdering(S), FiniteSubsetsOf(S))
    BY FS_StrictSubsetOrderingWellFounded
  <2> QED
    BY <2>1, <2>2
<1>2. PICK T \in Bad : \A U \in Bad : <<U, T>> \notin StrictSubsetOrdering(S)
  <2> HIDE DEF Bad
  <2>1. Bad \subseteq SUBSET S
    BY DEF Bad
  <2> QED
    BY <1>1, <2>1, WFMin
<1>3. \A U \in SUBSET T : U # T => U \in G
  BY <1>2 DEF StrictSubsetOrdering
<1> QED
  BY <1>3

\* Induction over the numbers.
LEMMA CountUp ==
    ASSUME NEW G, 0 \in G, \A n \in Nat : n \in G => n + 1 \in G
    PROVE  \A n \in Nat : n \in G
<1> DEFINE Bad == {n \in Nat : n \notin G}
<1> SUFFICES ASSUME Bad # {} PROVE FALSE
  OBVIOUS
<1>1. PICK n \in Bad : \A m \in Bad : <<m, n>> \notin OpToRel(<, Nat)
  <2> HIDE DEF Bad
  <2>1. Bad \subseteq Nat
    BY DEF Bad
  <2> QED
    BY <2>1, NatLessThanWellFounded, WFMin
<1>2. \A m \in Bad : ~ m < n
  BY <1>1 DEF OpToRel
<1>3. n = 0 \/ (n - 1 \in Nat /\ n - 1 + 1 = n /\ n - 1 < n)
  OBVIOUS
<1> QED
  BY <1>2, <1>3

----------------------------------------------------------------------------
(* The recursive function behind a sum. *)

Picked(s) == CHOOSE x \in s : TRUE

\* g[s] is the sum of f over s, for every subset s of S.
IsSum(g, f, S) ==
    g = [s \in SUBSET S |-> IF s = {} THEN 0 ELSE f[Picked(s)] + g[s \ {Picked(s)}]]

\* The same without the recursion.
Adds(g, f, S) ==
    /\ DOMAIN g = SUBSET S /\ g[{}] = 0
    /\ \A s \in SUBSET S : s # {} =>
           Picked(s) \in s /\ g[s] = f[Picked(s)] + g[s \ {Picked(s)}]

LEMMA SumUnfolds ==
    ASSUME NEW S, NEW f, NEW g, IsSum(g, f, S)
    PROVE  Adds(g, f, S)
<1>1. DOMAIN g = SUBSET S /\ g[{}] = 0
  BY DEF IsSum
<1>2. \A s \in SUBSET S : s # {} => Picked(s) \in s
  BY DEF Picked
<1>3. \A s \in SUBSET S : s # {} => g[s] = f[Picked(s)] + g[s \ {Picked(s)}]
  BY DEF IsSum
<1> QED
  BY <1>1, <1>2, <1>3 DEF Adds

\* What the sum of a set is does not depend on the set around it.
LEMMA SumUnique ==
    ASSUME NEW S, IsFiniteSet(S), NEW T, NEW f, NEW g, NEW h,
           IsSum(g, f, S), IsSum(h, f, T)
    PROVE  \A U \in SUBSET (S \cap T) : g[U] = h[U]
<1> DEFINE G == {U \in SUBSET S : U \subseteq T => g[U] = h[U]}
<1>1. ASSUME NEW U \in SUBSET S, \A V \in SUBSET U : V # U => V \in G
      PROVE  U \in G
  <2> SUFFICES ASSUME U \subseteq T PROVE g[U] = h[U]
    OBVIOUS
  <2>1. CASE U = {}
    BY <2>1, SumUnfolds DEF Adds
  <2>2. CASE U # {}
    <3> DEFINE x == Picked(U)
    <3>1. x \in U /\ g[U] = f[x] + g[U \ {x}] /\ h[U] = f[x] + h[U \ {x}]
      <4>1. Adds(g, f, S) /\ Adds(h, f, T)
        BY SumUnfolds
      <4> QED
        BY <2>2, <4>1 DEF Adds
    <3>2. U \ {x} \in G
      BY <1>1, <3>1
    <3> QED
      BY <3>1, <3>2
  <2> QED
    BY <2>1, <2>2
<1>2. \A U \in SUBSET S : U \in G
  <2> HIDE DEF G
  <2> QED
    BY <1>1, SubsetInduction
<1> QED
  BY <1>2

\* There is such a function, put together from those of the smaller sets.
LEMMA SumExists ==
    ASSUME NEW S, IsFiniteSet(S), NEW f
    PROVE  \E g : IsSum(g, f, S)
<1> DEFINE G == {T \in SUBSET S : \E g : IsSum(g, f, T)}
<1>1. ASSUME NEW T \in SUBSET S, \A U \in SUBSET T : U # T => U \in G
      PROVE  T \in G
  <2> DEFINE of(U) == CHOOSE g : IsSum(g, f, U)
             g == [s \in SUBSET T |->
                     IF s = {} THEN 0
                     ELSE f[Picked(s)] + of(s \ {Picked(s)})[s \ {Picked(s)}]]
  <2>1. ASSUME NEW U \in SUBSET T, U # T PROVE IsSum(of(U), f, U) /\ IsFiniteSet(U)
    <3>1. U \in G
      BY <1>1, <2>1
    <3>2. \E h : IsSum(h, f, U)
      BY <3>1
    <3>3. IsFiniteSet(U)
      BY FS_Subset
    <3> QED
      BY <3>2, <3>3
  <2> HIDE DEF of
  <2>2. ASSUME NEW U \in SUBSET T, U # T PROVE of(U)[U] = g[U]
    <3>1. CASE U = {}
      BY <2>1, <2>2, <3>1, SumUnfolds DEF Adds
    <3>2. CASE U # {}
      <4> DEFINE V == U \ {Picked(U)}
      <4>1. Picked(U) \in U /\ of(U)[U] = f[Picked(U)] + of(U)[V]
        <5>1. Adds(of(U), f, U)
          BY <2>1, <2>2, SumUnfolds
        <5> QED
          BY <3>2, <5>1 DEF Adds
      <4>2. V \in SUBSET T /\ V # T
        BY <2>2
      <4>3. of(U)[V] = of(V)[V]
        <5>1. IsSum(of(U), f, U) /\ IsFiniteSet(U) /\ IsSum(of(V), f, V)
          BY <2>1, <2>2, <4>2
        <5> HIDE DEF V
        <5>2. \A W \in SUBSET (U \cap V) : of(U)[W] = of(V)[W]
          BY <5>1, SumUnique
        <5>3. V \in SUBSET (U \cap V)
          BY DEF V
        <5> QED
          BY <5>2, <5>3
      <4> QED
        BY <2>2, <3>2, <4>1, <4>3
    <3> QED
      BY <3>1, <3>2
  <2>3. ASSUME NEW s \in SUBSET T, s # {}
        PROVE  g[s] = f[Picked(s)] + g[s \ {Picked(s)}]
    <3> DEFINE V == s \ {Picked(s)}
    <3>1. Picked(s) \in s
      BY <2>3 DEF Picked
    <3>2. V \in SUBSET T /\ V # T
      BY <3>1
    <3>3. of(V)[V] = g[V]
      BY <2>2, <3>2
    <3>4. g[s] = f[Picked(s)] + of(V)[V]
      BY <2>3
    <3> HIDE DEF g, V
    <3> QED
      BY <3>3, <3>4 DEF V
  <2>4. g = [s \in SUBSET T |-> g[s]] /\ g[{}] = 0
    OBVIOUS
  <2> HIDE DEF g
  <2>5. g = [s \in SUBSET T |-> IF s = {} THEN 0 ELSE f[Picked(s)] + g[s \ {Picked(s)}]]
    BY <2>3, <2>4
  <2> QED
    BY <2>5 DEF IsSum
<1>2. S \in G
  <2> HIDE DEF G
  <2> QED
    BY <1>1, SubsetInduction
<1> QED
  BY <1>2

----------------------------------------------------------------------------
(* Sums. *)

\* Any function that adds up gives the sum, of its set and of each part of it.
LEMMA SumIs ==
    ASSUME NEW S, IsFiniteSet(S), NEW f, NEW g, IsSum(g, f, S), NEW T \in SUBSET S
    PROVE  SumFunctionOnSet(f, T) = g[T]
<1> DEFINE h == CHOOSE h : IsSum(h, f, T)
<1>1. SumFunctionOnSet(f, T) = h[T]
  BY DEF SumFunctionOnSet, FoldFunctionOnSet, MapThenFoldSet, IsSum, Picked
<1>2. IsFiniteSet(T)
  BY FS_Subset
<1>3. IsSum(h, f, T)
  <2>1. \E k : IsSum(k, f, T)
    BY <1>2, SumExists
  <2> QED
    BY <2>1
<1> HIDE DEF h
<1>4. \A U \in SUBSET (S \cap T) : g[U] = h[U]
  BY <1>3, SumUnique
<1> QED
  BY <1>1, <1>4

\* A sum of elements of D is in D, when D has zero and the sums of its
\* elements: Int and Nat do.
LEMMA SumTyped ==
    ASSUME NEW D, 0 \in D, \A m, n \in D : m + n \in D,
           NEW S, IsFiniteSet(S), NEW f, \A x \in S : f[x] \in D
    PROVE  SumFunctionOnSet(f, S) \in D
<1>1. PICK g : IsSum(g, f, S)
  BY SumExists
<1>2. Adds(g, f, S)
  BY <1>1, SumUnfolds
<1> DEFINE G == {T \in SUBSET S : g[T] \in D}
<1>3. ASSUME NEW T \in SUBSET S, \A U \in SUBSET T : U # T => U \in G
      PROVE  T \in G
  <2>1. CASE T = {}
    BY <1>2, <2>1 DEF Adds
  <2>2. CASE T # {}
    <3>1. Picked(T) \in T /\ g[T] = f[Picked(T)] + g[T \ {Picked(T)}]
      BY <1>2, <2>2 DEF Adds
    <3>2. T \ {Picked(T)} \in G
      BY <1>3, <3>1
    <3>3. f[Picked(T)] \in D
      BY <3>1
    <3> QED
      BY <3>1, <3>2, <3>3
  <2> QED
    BY <2>1, <2>2
<1>4. \A T \in SUBSET S : T \in G
  <2> HIDE DEF G
  <2> QED
    BY <1>3, SubsetInduction
<1>5. SumFunctionOnSet(f, S) = g[S]
  BY <1>1, SumIs
<1> QED
  BY <1>4, <1>5

\* Any element may be taken out first, not only the one that is picked.
LEMMA SumTakes ==
    ASSUME NEW S, IsFiniteSet(S), NEW f, \A x \in S : f[x] \in Int, NEW y \in S
    PROVE  SumFunctionOnSet(f, S) = f[y] + SumFunctionOnSet(f, S \ {y})
<1>1. PICK g : IsSum(g, f, S)
  BY SumExists
<1>2. Adds(g, f, S)
  BY <1>1, SumUnfolds
<1>3. ASSUME NEW T \in SUBSET S PROVE g[T] \in Int
  <2>1. IsFiniteSet(T) /\ \A x \in T : f[x] \in Int
    BY FS_Subset
  <2>2. SumFunctionOnSet(f, T) \in Int
    BY <2>1, SumTyped
  <2> QED
    BY <1>1, <2>2, SumIs
<1> DEFINE G == {T \in SUBSET S : \A x \in T : g[T] = f[x] + g[T \ {x}]}
<1>4. ASSUME NEW T \in SUBSET S, \A U \in SUBSET T : U # T => U \in G
      PROVE  T \in G
  <2> SUFFICES ASSUME NEW x \in T PROVE g[T] = f[x] + g[T \ {x}]
    OBVIOUS
  <2> DEFINE p == Picked(T)
  <2>1. p \in T /\ g[T] = f[p] + g[T \ {p}]
    BY <1>2 DEF Adds
  <2> HIDE DEF p
  <2>2. CASE x = p
    BY <2>1, <2>2
  <2>3. CASE x # p
    <3>1. g[T \ {p}] = f[x] + g[(T \ {p}) \ {x}]
      <4>1. T \ {p} \in G
        BY <1>4, <2>1
      <4> QED
        BY <2>3, <4>1
    <3>2. g[T \ {x}] = f[p] + g[(T \ {x}) \ {p}]
      <4>1. T \ {x} \in G
        BY <1>4
      <4> QED
        BY <2>1, <2>3, <4>1
    <3>3. (T \ {p}) \ {x} = (T \ {x}) \ {p} /\ (T \ {x}) \ {p} \in SUBSET S
      OBVIOUS
    <3>4. f[x] \in Int /\ f[p] \in Int /\ g[(T \ {x}) \ {p}] \in Int
      BY <1>3, <2>1, <3>3
    <3> DEFINE rest == g[(T \ {x}) \ {p}]
    <3>5. /\ g[T] = f[p] + (f[x] + rest) /\ g[T \ {x}] = f[p] + rest
          /\ f[x] \in Int /\ f[p] \in Int /\ rest \in Int
      BY <2>1, <3>1, <3>2, <3>3, <3>4
    <3> HIDE DEF rest, G
    <3> QED
      BY <3>5
  <2> QED
    BY <2>2, <2>3
<1>5. \A T \in SUBSET S : T \in G
  <2> HIDE DEF G
  <2> QED
    BY <1>4, SubsetInduction
<1>6. g[S] = f[y] + g[S \ {y}]
  BY <1>5
<1>7. SumFunctionOnSet(f, S) = g[S] /\ SumFunctionOnSet(f, S \ {y}) = g[S \ {y}]
  BY <1>1, SumIs
<1> QED
  BY <1>6, <1>7

LEMMA SumEmpty == ASSUME NEW f PROVE SumFunctionOnSet(f, {}) = 0
<1>1. PICK g : IsSum(g, f, {})
  BY SumExists, FS_EmptySet
<1>2. SumFunctionOnSet(f, {}) = g[{}]
  BY <1>1, SumIs, FS_EmptySet
<1> QED
  BY <1>1, <1>2, SumUnfolds DEF Adds

\* A sum may be taken over other names for the same things, one name each.
LEMMA SumRenamed ==
    ASSUME NEW S, IsFiniteSet(S), NEW n, NEW F, NEW f,
           \A x, y \in S : n[x] = n[y] => x = y,
           \A x \in S : f[x] = F[n[x]] /\ f[x] \in Int
    PROVE  SumFunctionOnSet(f, S) = SumFunctionOnSet(F, {n[x] : x \in S})
<1> DEFINE G == {T \in SUBSET S : SumFunctionOnSet(f, T) = SumFunctionOnSet(F, {n[x] : x \in T})}
<1>1. ASSUME NEW T \in SUBSET S, \A U \in SUBSET T : U # T => U \in G
      PROVE  T \in G
  <2> DEFINE N == {n[x] : x \in T}
  <2>1. CASE T = {}
    BY <2>1, SumEmpty
  <2>2. CASE T # {}
    <3>1. PICK y \in T : TRUE
      BY <2>2
    <3>2. IsFiniteSet(T) /\ \A x \in T : f[x] \in Int
      BY FS_Subset
    <3>3. IsFiniteSet(N)
      <4>1. [x \in T |-> n[x]] \in Surjection(T, N)
        BY DEF Surjection
      <4> HIDE DEF N
      <4> QED
        BY <3>2, <4>1, FS_Surjection
    <3>4. \A z \in N : F[z] \in Int
      OBVIOUS
    <3>5. SumFunctionOnSet(f, T) = f[y] + SumFunctionOnSet(f, T \ {y})
      BY <3>2, SumTakes
    <3>6. SumFunctionOnSet(F, N) = F[n[y]] + SumFunctionOnSet(F, N \ {n[y]})
      <4>1. n[y] \in N
        OBVIOUS
      <4> HIDE DEF N
      <4> QED
        BY <3>3, <3>4, <4>1, SumTakes
    <3>7. N \ {n[y]} = {n[x] : x \in T \ {y}}
      OBVIOUS
    <3>8. T \ {y} \in G
      BY <1>1
    <3>9. SumFunctionOnSet(f, T \ {y}) = SumFunctionOnSet(F, {n[x] : x \in T \ {y}}) /\ f[y] = F[n[y]]
      BY <3>8
    <3> QED
      BY <3>5, <3>6, <3>7, <3>9
  <2> QED
    BY <2>1, <2>2
<1>2. S \in G
  <2> HIDE DEF G
  <2> QED
    BY <1>1, SubsetInduction
<1> QED
  BY <1>2

----------------------------------------------------------------------------
(* Factorials and binomial coefficients. *)

\* f is the factorial on 0 .. m.
FactorialUpTo(f, m) ==
    f[0] = 1 /\ \A i \in 1 .. m : f[i] = i * f[i - 1]

IsFactorial(f) == f = [n \in Nat |-> IF n = 0 THEN 1 ELSE n * f[n - 1]]

LEMMA FactorialUpToIs ==
    \A m \in Nat : \E f : FactorialUpTo(f, m) /\ \A i \in 0 .. m : f[i] \in Nat \ {0}
<1> DEFINE G == {m \in Nat : \E f : FactorialUpTo(f, m) /\ \A i \in 0 .. m : f[i] \in Nat \ {0}}
<1>1. 0 \in G
  <2> DEFINE f == [i \in Nat |-> 1]
  <2>1. FactorialUpTo(f, 0) /\ \A i \in 0 .. 0 : f[i] \in Nat \ {0}
    BY DEF FactorialUpTo
  <2> QED BY <2>1
<1>2. ASSUME NEW m \in Nat, m \in G PROVE m + 1 \in G
  <2>1. PICK f : FactorialUpTo(f, m) /\ \A i \in 0 .. m : f[i] \in Nat \ {0}
    BY <1>2
  <2> DEFINE g == [i \in Nat |-> IF i = m + 1 THEN (m + 1) * f[m] ELSE f[i]]
  <2>2. \A i \in 0 .. m : g[i] = f[i]
    OBVIOUS
  <2>3. g[m + 1] = (m + 1) * f[m]
    OBVIOUS
  <2>4. (m + 1) * f[m] \in Nat \ {0}
    <3> f[m] \in Nat \ {0} /\ m + 1 \in Nat \ {0} BY <2>1
    <3> QED OBVIOUS
  <2> HIDE DEF g
  <2>5. ASSUME NEW i \in 1 .. m + 1 PROVE g[i] = i * g[i - 1]
    <3>1. CASE i = m + 1
      BY <3>1, <2>2, <2>3
    <3>2. CASE i # m + 1
      <4> i \in 1 .. m /\ i \in 0 .. m /\ i - 1 \in 0 .. m BY <3>2
      <4> QED BY <2>1, <2>2 DEF FactorialUpTo
    <3> QED BY <3>1, <3>2
  <2>6. g[0] = 1
    BY <2>1, <2>2 DEF FactorialUpTo
  <2>7. \A i \in 0 .. m + 1 : g[i] \in Nat \ {0}
    BY <2>1, <2>2, <2>3, <2>4
  <2> QED BY <2>5, <2>6, <2>7 DEF FactorialUpTo
<1> HIDE DEF G
<1>3. \A m \in Nat : m \in G
  BY <1>1, <1>2, CountUp
<1> QED BY <1>3 DEF G

LEMMA FactorialUpToUnique ==
    ASSUME NEW m \in Nat, NEW f, NEW g, NEW n \in Nat, n >= m,
           FactorialUpTo(f, m), FactorialUpTo(g, n)
    PROVE  \A i \in 0 .. m : f[i] = g[i]
<1> DEFINE G == {i \in Nat : i <= m => f[i] = g[i]}
<1>1. 0 \in G
  BY DEF FactorialUpTo
<1>2. ASSUME NEW i \in Nat, i \in G PROVE i + 1 \in G
  <2> SUFFICES ASSUME i + 1 <= m PROVE f[i + 1] = g[i + 1]
    OBVIOUS
  <2> i + 1 \in 1 .. m /\ i + 1 \in 1 .. n /\ i + 1 - 1 = i /\ f[i] = g[i]
    BY <1>2
  <2> QED BY DEF FactorialUpTo
<1> HIDE DEF G
<1>3. \A i \in Nat : i \in G
  BY <1>1, <1>2, CountUp
<1> QED BY <1>3 DEF G

LEMMA FactorialIs ==
    /\ factorial[0] = 1
    /\ \A n \in Nat : factorial[n] \in Nat \ {0} /\ factorial[n + 1] = (n + 1) * factorial[n]
<1> DEFINE of(m) == CHOOSE f : FactorialUpTo(f, m) /\ \A i \in 0 .. m : f[i] \in Nat \ {0}
           f == [n \in Nat |-> of(n)[n]]
<1>1. \A m \in Nat : FactorialUpTo(of(m), m) /\ \A i \in 0 .. m : of(m)[i] \in Nat \ {0}
  BY FactorialUpToIs
<1>2. \A m \in Nat : f[m] = of(m)[m]
  OBVIOUS
<1>3. ASSUME NEW m \in Nat, m # 0 PROVE f[m] = m * f[m - 1]
  <2>1. m - 1 \in Nat /\ m >= m - 1 /\ m - 1 \in 0 .. m - 1 /\ m \in 1 .. m
    BY <1>3
  <2> HIDE DEF f, of
  <2>2. of(m - 1)[m - 1] = of(m)[m - 1]
    BY <1>1, <2>1, FactorialUpToUnique
  <2>3. of(m)[m] = m * of(m)[m - 1]
    BY <1>1, <2>1 DEF FactorialUpTo
  <2> QED BY <1>2, <2>1, <2>2, <2>3
<1>4. f[0] = 1
  <2> HIDE DEF of
  <2> QED BY <1>1 DEF FactorialUpTo
<1>5. IsFactorial(f)
  <2> HIDE DEF of
  <2> f = [n \in Nat |-> f[n]] OBVIOUS
  <2> HIDE DEF f
  <2> QED BY <1>3, <1>4 DEF IsFactorial
<1> HIDE DEF f, of
<1>6. factorial = CHOOSE g : IsFactorial(g)
  BY DEF factorial, IsFactorial
<1>7. IsFactorial(factorial)
  BY <1>5, <1>6
<1>8. factorial[0] = 1 /\ \A n \in Nat : factorial[n + 1] = (n + 1) * factorial[n]
  <2>1. factorial[0] = 1
    BY <1>7 DEF IsFactorial
  <2>2. ASSUME NEW n \in Nat PROVE factorial[n + 1] = (n + 1) * factorial[n]
    <3> n + 1 \in Nat /\ n + 1 # 0 /\ n + 1 - 1 = n OBVIOUS
    <3> QED BY <1>7 DEF IsFactorial
  <2> QED BY <2>1, <2>2
<1> DEFINE G == {n \in Nat : factorial[n] \in Nat \ {0}}
<1>9. ASSUME NEW n \in Nat, n \in G PROVE n + 1 \in G
  <2> n + 1 \in Nat \ {0} /\ factorial[n] \in Nat \ {0} BY <1>9
  <2> (n + 1) * factorial[n] \in Nat \ {0} OBVIOUS
  <2> QED BY <1>8
<1>10. 0 \in G
  BY <1>8
<1> HIDE DEF G
<1>11. \A n \in Nat : n \in G
  BY <1>9, <1>10, CountUp
<1> QED BY <1>8, <1>11 DEF G

LEMMA DivExact ==
    ASSUME NEW q \in Nat, NEW d \in Nat \ {0}
    PROVE  (q * d) \div d = q
OBVIOUS

LEMMA AddFractions ==
    ASSUME NEW a \in Nat, NEW b \in Nat, NEW n \in Nat, NEW k \in Nat \ {0},
           NEW N \in Nat, NEW K \in Nat, NEW K1 \in Nat, NEW L \in Nat, NEW L1 \in Nat,
           k <= n, a * (K1 * L1) = N, b * (K * L) = N,
           K = k * K1, L1 = (n + 1 - k) * L
    PROVE  (a + b) * (K * L1) = (n + 1) * N
<1>1. a * (K * L1) = k * N
  BY SMT
<1>2. b * (K * L1) = (n + 1 - k) * N
  BY SMT
<1>3. K * L1 \in Nat
  BY SMT
<1>4. (a + b) * (K * L1) = a * (K * L1) + b * (K * L1)
  BY <1>3, SMT
<1>5. k * N + (n + 1 - k) * N = (n + 1) * N
  BY SMT
<1> QED
  BY <1>1, <1>2, <1>4, <1>5

\* The division is exact.
Exact(n, k) ==
    /\ choose(n, k) \in Nat \ {0}
    /\ choose(n, k) * (factorial[k] * factorial[n - k]) = factorial[n]

LEMMA ExactBy ==
    ASSUME NEW n \in Nat, NEW k \in 0 .. n, NEW c \in Nat \ {0},
           c * (factorial[k] * factorial[n - k]) = factorial[n]
    PROVE  Exact(n, k) /\ choose(n, k) = c
<1> DEFINE d == factorial[k] * factorial[n - k]
<1>1. d \in Nat \ {0}
  <2> k \in Nat /\ n - k \in Nat
    OBVIOUS
  <2> factorial[k] \in Nat \ {0} /\ factorial[n - k] \in Nat \ {0}
    BY FactorialIs
  <2> QED
    OBVIOUS
<1>2. choose(n, k) = factorial[n] \div d
  BY DEF choose
<1> HIDE DEF d
<1>3. (c * d) \div d = c
  BY <1>1, DivExact
<1>4. c * d = factorial[n]
  BY DEF d
<1> QED
  BY <1>2, <1>3, <1>4 DEF Exact, d

LEMMA ChooseEnds ==
    ASSUME NEW n \in Nat
    PROVE  choose(n, 0) = 1 /\ choose(n, n) = 1 /\ Exact(n, 0) /\ Exact(n, n)
<1>1. factorial[n] \in Nat /\ factorial[0] = 1
  BY FactorialIs
<1>2. 1 * (factorial[0] * factorial[n - 0]) = factorial[n]
  <2> n - 0 = n
    OBVIOUS
  <2> QED
    BY <1>1
<1>3. 1 * (factorial[n] * factorial[n - n]) = factorial[n]
  <2> n - n = 0
    OBVIOUS
  <2> QED
    BY <1>1
<1>4. 0 \in 0 .. n /\ n \in 0 .. n /\ 1 \in Nat \ {0}
  OBVIOUS
<1>5. choose(n, 0) = 1 /\ Exact(n, 0)
  BY <1>2, <1>4, ExactBy
<1>6. choose(n, n) = 1 /\ Exact(n, n)
  BY <1>3, <1>4, ExactBy
<1> QED
  BY <1>5, <1>6

LEMMA PascalFrom ==
    ASSUME NEW n \in Nat, NEW k \in 1 .. n, Exact(n, k - 1), Exact(n, k)
    PROVE  Exact(n + 1, k) /\ choose(n + 1, k) = choose(n, k - 1) + choose(n, k)
<1> DEFINE a == choose(n, k - 1)
           b == choose(n, k)
           K == factorial[k]
           K1 == factorial[k - 1]
           L == factorial[n - k]
           L1 == factorial[n + 1 - k]
           N == factorial[n]
<1>1. a \in Nat \ {0} /\ b \in Nat \ {0}
  BY DEF Exact
<1>2. k - 1 \in Nat /\ n - k \in Nat /\ k - 1 + 1 = k /\ n - k + 1 = n + 1 - k
      /\ n - (k - 1) = n + 1 - k /\ k \in Nat \ {0} /\ k <= n
  OBVIOUS
<1>3. K \in Nat /\ K1 \in Nat /\ L \in Nat /\ L1 \in Nat /\ N \in Nat
  BY <1>2, FactorialIs
<1>4. K = k * K1
  BY <1>2, FactorialIs
<1>5. L1 = (n + 1 - k) * L
  BY <1>2, FactorialIs
<1>6. a * (K1 * L1) = N /\ b * (K * L) = N
  BY <1>2 DEF Exact
<1>7. factorial[n + 1] = (n + 1) * N
  BY FactorialIs
<1> HIDE DEF a, b, K, K1, L, L1, N
<1>8. (a + b) * (K * L1) = (n + 1) * N
  BY <1>1, <1>2, <1>3, <1>4, <1>5, <1>6, AddFractions
<1>9. n + 1 \in Nat /\ k \in 0 .. n + 1 /\ a + b \in Nat \ {0}
  BY <1>1
<1>10. (a + b) * (factorial[k] * factorial[n + 1 - k]) = factorial[n + 1]
  BY <1>7, <1>8 DEF K, L1
<1>11. Exact(n + 1, k) /\ choose(n + 1, k) = a + b
  BY <1>9, <1>10, ExactBy
<1> QED
  BY <1>11 DEF a, b

LEMMA ChooseExact == \A n \in Nat : \A k \in 0 .. n : Exact(n, k)
<1> DEFINE G == {n \in Nat : \A k \in 0 .. n : Exact(n, k)}
<1>1. 0 \in G
  BY ChooseEnds
<1>2. ASSUME NEW n \in Nat, n \in G PROVE n + 1 \in G
  <2>1. ASSUME NEW k \in 0 .. n + 1 PROVE Exact(n + 1, k)
    <3>1. CASE k = 0 \/ k = n + 1
      <4> n + 1 \in Nat
        OBVIOUS
      <4>1. Exact(n + 1, 0) /\ Exact(n + 1, n + 1)
        BY ChooseEnds
      <4> QED
        BY <3>1, <4>1
    <3>2. CASE k \in 1 .. n
      <4>1. k - 1 \in 0 .. n /\ k \in 0 .. n
        BY <3>2
      <4>2. Exact(n, k - 1) /\ Exact(n, k)
        BY <1>2, <4>1
      <4> QED
        BY <3>2, <4>2, PascalFrom
    <3> QED
      BY <3>1, <3>2
  <2> QED
    BY <2>1
<1> HIDE DEF G
<1>3. \A n \in Nat : n \in G
  BY <1>1, <1>2, CountUp
<1> QED
  BY <1>3 DEF G

\* Pascal's rule.
LEMMA Pascal ==
    ASSUME NEW n \in Nat, NEW k \in 1 .. n
    PROVE  choose(n + 1, k) = choose(n, k - 1) + choose(n, k)
<1>1. k - 1 \in 0 .. n /\ k \in 0 .. n
  OBVIOUS
<1>2. Exact(n, k - 1) /\ Exact(n, k)
  BY <1>1, ChooseExact
<1> QED
  BY <1>2, PascalFrom

\* In how many ways n indistinguishable things each take one of k values.
Ways(k, n) == choose(k + n - 1, n)

LEMMA WaysNat ==
    ASSUME NEW k \in Nat \ {0}, NEW n \in Nat
    PROVE  Ways(k, n) \in Nat \ {0}
<1> k + n - 1 \in Nat /\ n \in 0 .. k + n - 1
  OBVIOUS
<1> Exact(k + n - 1, n)
  BY ChooseExact
<1> QED
  BY DEF Ways, Exact

LEMMA WaysEnds ==
    /\ \A k \in Nat \ {0} : Ways(k, 0) = 1
    /\ \A n \in Nat : Ways(1, n) = 1
<1>1. ASSUME NEW k \in Nat \ {0} PROVE Ways(k, 0) = 1
  <2> k + 0 - 1 \in Nat
    OBVIOUS
  <2> QED
    BY ChooseEnds DEF Ways
<1>2. ASSUME NEW n \in Nat PROVE Ways(1, n) = 1
  <2> 1 + n - 1 = n
    OBVIOUS
  <2> QED
    BY ChooseEnds DEF Ways
<1> QED
  BY <1>1, <1>2

\* The least value is taken by none of them, or by one that is set aside.
LEMMA WaysSplit ==
    ASSUME NEW k \in Nat \ {0}, NEW n \in Nat
    PROVE  Ways(k + 1, n + 1) = Ways(k, n + 1) + Ways(k + 1, n)
<1> DEFINE m == k + n
<1>1. m \in Nat /\ n + 1 \in 1 .. m /\ n + 1 - 1 = n
      /\ k + 1 + (n + 1) - 1 = m + 1 /\ k + (n + 1) - 1 = m /\ k + 1 + n - 1 = m
  OBVIOUS
<1>2. choose(m + 1, n + 1) = choose(m, n + 1 - 1) + choose(m, n + 1)
  BY <1>1, Pascal
<1>3. choose(m, n) \in Nat /\ choose(m, n + 1) \in Nat
  <2> n \in 0 .. m /\ n + 1 \in 0 .. m
    BY <1>1
  <2> QED
    BY <1>1, ChooseExact DEF Exact
<1> HIDE DEF m
<1> QED
  BY <1>1, <1>2, <1>3 DEF Ways

LEMMA WaysGrow ==
    ASSUME NEW k \in Nat \ {0}, NEW m \in Nat, NEW n \in Nat, m <= n
    PROVE  Ways(k, m) <= Ways(k, n)
<1>1. ASSUME NEW i \in Nat PROVE Ways(k, i) <= Ways(k, i + 1)
  <2>1. CASE k = 1
    BY <2>1, WaysEnds
  <2>2. CASE k # 1
    <3> DEFINE j == k - 1
    <3>1. j \in Nat \ {0} /\ j + 1 = k /\ i + 1 \in Nat
      BY <2>2
    <3> HIDE DEF j
    <3>2. Ways(j + 1, i + 1) = Ways(j, i + 1) + Ways(j + 1, i)
      BY <3>1, WaysSplit
    <3>3. Ways(j, i + 1) \in Nat /\ Ways(k, i) \in Nat
      BY <3>1, WaysNat
    <3> QED
      BY <3>1, <3>2, <3>3
  <2> QED
    BY <2>1, <2>2
<1> DEFINE G == {i \in Nat : Ways(k, m) <= Ways(k, m + i)}
<1>2. 0 \in G
  <2> Ways(k, m) \in Nat /\ m + 0 = m
    BY WaysNat
  <2> QED
    OBVIOUS
<1>3. ASSUME NEW i \in Nat, i \in G PROVE i + 1 \in G
  <2>1. m + i \in Nat /\ m + (i + 1) = m + i + 1 /\ m + i + 1 \in Nat
    OBVIOUS
  <2>2. Ways(k, m + i) <= Ways(k, m + i + 1)
    BY <1>1, <2>1
  <2>3. Ways(k, m) \in Nat /\ Ways(k, m + i) \in Nat /\ Ways(k, m + i + 1) \in Nat
    BY <2>1, WaysNat
  <2>4. Ways(k, m) <= Ways(k, m + i)
    BY <1>3
  <2> QED
    BY <2>1, <2>2, <2>3, <2>4
<1> HIDE DEF G
<1>4. \A i \in Nat : i \in G
  BY <1>2, <1>3, CountUp
<1>5. n - m \in Nat /\ m + (n - m) = n
  OBVIOUS
<1> QED
  BY <1>4, <1>5 DEF G

----------------------------------------------------------------------------
(* Ranks.  Things that each have one of the values 0 .. M - 1 are described *)
(* by a profile: g[v] of them have a value above v.  Of two profiles the    *)
(* greater is the one that has more above v, for the least v at which they  *)
(* differ, and the rank of a profile is the number of smaller ones.         *)

Profile(g, M) ==
    /\ \A v \in 0 .. M - 1 : g[v] \in Nat
    /\ \A v \in 1 .. M - 1 : g[v] <= g[v - 1]
    /\ g[M - 1] = 0

\* How many profiles agree with one that has n above v, out of M - v = k values,
\* up to v, and have less than n above v.
Share(k, n) == IF n = 0 THEN 0 ELSE Ways(k, n - 1)

\* The rank of g, from the value v on.
ProfileRank(g, M, v) == SumFunctionOnSet([w \in 0 .. M - 1 |-> Share(M - w, g[w])], v .. M - 1)

LEMMA ShareNat ==
    ASSUME NEW k \in Nat \ {0}, NEW n \in Nat
    PROVE  Share(k, n) \in Nat
<1> n # 0 => n - 1 \in Nat
  OBVIOUS
<1> QED
  BY WaysNat DEF Share

LEMMA RankUnfolds ==
    ASSUME NEW M \in Nat \ {0}, NEW g, Profile(g, M)
    PROVE  /\ ProfileRank(g, M, M) = 0
           /\ \A v \in 0 .. M - 1 :
                 /\ ProfileRank(g, M, v) = Share(M - v, g[v]) + ProfileRank(g, M, v + 1)
                 /\ ProfileRank(g, M, v) \in Nat /\ ProfileRank(g, M, v + 1) \in Nat
                 /\ Share(M - v, g[v]) \in Nat
<1> DEFINE f == [w \in 0 .. M - 1 |-> Share(M - w, g[w])]
<1>1. \A w \in 0 .. M - 1 : f[w] = Share(M - w, g[w]) /\ f[w] \in Nat
  <2>1. ASSUME NEW w \in 0 .. M - 1 PROVE Share(M - w, g[w]) \in Nat
    <3> M - w \in Nat \ {0} /\ g[w] \in Nat
      BY DEF Profile
    <3> QED
      BY ShareNat
  <2> QED
    BY <2>1
<1>2. \A v : ProfileRank(g, M, v) = SumFunctionOnSet(f, v .. M - 1)
  BY DEF ProfileRank
<1> HIDE DEF f
<1>3. ProfileRank(g, M, M) = 0
  <2> M .. M - 1 = {}
    OBVIOUS
  <2> QED
    BY <1>2, SumEmpty
<1>4. ASSUME NEW v \in 0 .. M PROVE ProfileRank(g, M, v) \in Nat
  <2>1. IsFiniteSet(v .. M - 1)
    BY FS_Interval
  <2>2. \A x \in v .. M - 1 : f[x] \in Nat
    BY <1>1
  <2>3. 0 \in Nat /\ \A m, n \in Nat : m + n \in Nat
    OBVIOUS
  <2>4. SumFunctionOnSet(f, v .. M - 1) \in Nat
    BY <2>1, <2>2, <2>3, SumTyped
  <2> QED
    BY <1>2, <2>4
<1>5. ASSUME NEW v \in 0 .. M - 1
      PROVE  ProfileRank(g, M, v) = Share(M - v, g[v]) + ProfileRank(g, M, v + 1)
  <2>1. IsFiniteSet(v .. M - 1)
    BY FS_Interval
  <2>2. (\A x \in v .. M - 1 : f[x] \in Int) /\ v \in v .. M - 1
    BY <1>1
  <2>3. SumFunctionOnSet(f, v .. M - 1) = f[v] + SumFunctionOnSet(f, (v .. M - 1) \ {v})
    BY <2>1, <2>2, SumTakes
  <2>4. (v .. M - 1) \ {v} = v + 1 .. M - 1
    OBVIOUS
  <2> QED
    BY <1>1, <1>2, <2>3, <2>4
<1>6. \A v \in 0 .. M - 1 : v \in 0 .. M /\ v + 1 \in 0 .. M
  OBVIOUS
<1> QED
  BY <1>1, <1>3, <1>4, <1>5, <1>6

\* The rank is less than the number of the profiles of as many things, or more.
LEMMA RankBounded ==
    ASSUME NEW M \in Nat \ {0}, NEW g, Profile(g, M),
           NEW v \in 0 .. M - 1, NEW n \in Nat, g[v] <= n
    PROVE  ProfileRank(g, M, v) < Ways(M - v, n)
<1> DEFINE G == {i \in Nat : i < M => ProfileRank(g, M, M - 1 - i) < Ways(i + 1, g[M - 1 - i])}
<1>1. 0 \in G
  <2>1. M - 1 - 0 = M - 1 /\ M - 1 \in 0 .. M - 1 /\ M - 1 + 1 = M /\ M - (M - 1) = 1
        /\ 0 + 1 = 1
    OBVIOUS
  <2>2. ProfileRank(g, M, M - 1) = Share(1, g[M - 1]) + ProfileRank(g, M, M) /\ ProfileRank(g, M, M) = 0
    BY <2>1, RankUnfolds
  <2>3. g[M - 1] = 0 /\ Share(1, 0) = 0
    BY DEF Profile, Share
  <2>4. Ways(1, 0) = 1
    BY WaysEnds
  <2> QED
    BY <2>1, <2>2, <2>3, <2>4
<1>2. ASSUME NEW i \in Nat, i \in G PROVE i + 1 \in G
  <2> SUFFICES ASSUME i + 1 < M
               PROVE  ProfileRank(g, M, M - 1 - (i + 1)) < Ways(i + 1 + 1, g[M - 1 - (i + 1)])
    OBVIOUS
  <2> DEFINE w == M - 1 - (i + 1)
             k == i + 1
             m == g[w]
  <2>1. w \in 0 .. M - 1 /\ w + 1 \in 1 .. M - 1 /\ w + 1 \in 0 .. M - 1
        /\ w + 1 = M - 1 - i /\ M - w = k + 1 /\ k \in Nat \ {0} /\ w + 1 - 1 = w
    OBVIOUS
  <2>2. ProfileRank(g, M, w + 1) < Ways(k, g[w + 1])
    BY <1>2, <2>1
  <2> HIDE DEF G, w, k
  <2>3. m \in Nat /\ g[w + 1] \in Nat /\ g[w + 1] <= m
    BY <2>1 DEF Profile
  <2>4. ProfileRank(g, M, w) = Share(k + 1, m) + ProfileRank(g, M, w + 1)
        /\ ProfileRank(g, M, w + 1) \in Nat /\ Share(k + 1, m) \in Nat
    BY <2>1, RankUnfolds
  <2>5. Ways(k, g[w + 1]) <= Ways(k, m) /\ Ways(k, m) \in Nat /\ Ways(k, g[w + 1]) \in Nat
    BY <2>1, <2>3, WaysGrow, WaysNat
  <2>6. ProfileRank(g, M, w) < Ways(k + 1, m)
    <3>1. CASE m = 0
      <4>1. Ways(k, 0) = 1 /\ Ways(k + 1, 0) = 1
        <5> k + 1 \in Nat \ {0}
          BY <2>1
        <5> QED
          BY <2>1, WaysEnds
      <4> QED
        BY <2>2, <2>4, <2>5, <3>1, <4>1 DEF Share
    <3>2. CASE m # 0
      <4> DEFINE j == m - 1
      <4>1. j \in Nat /\ j + 1 = m
        BY <2>3, <3>2
      <4>2. Share(k + 1, m) = Ways(k + 1, j)
        BY <3>2 DEF Share
      <4> HIDE DEF j
      <4>3. Ways(k + 1, j + 1) = Ways(k, j + 1) + Ways(k + 1, j)
        BY <2>1, <4>1, WaysSplit
      <4> QED
        BY <2>2, <2>4, <2>5, <4>1, <4>2, <4>3
    <3> QED
      BY <3>1, <3>2
  <2> QED
    BY <2>6 DEF w, k
<1> HIDE DEF G
<1>3. \A i \in Nat : i \in G
  BY <1>1, <1>2, CountUp
<1> DEFINE i == M - 1 - v
<1>4. i \in Nat /\ i < M /\ M - 1 - i = v /\ i + 1 = M - v /\ M - v \in Nat \ {0}
  OBVIOUS
<1>5. ProfileRank(g, M, v) < Ways(M - v, g[v])
  BY <1>3, <1>4 DEF G
<1>6. g[v] \in Nat
  BY DEF Profile
<1>7. Ways(M - v, g[v]) <= Ways(M - v, n)
  BY <1>4, <1>6, WaysGrow
<1>8. Ways(M - v, g[v]) \in Nat /\ Ways(M - v, n) \in Nat /\ ProfileRank(g, M, v) \in Nat
  BY <1>4, <1>6, WaysNat, RankUnfolds
<1> QED
  BY <1>5, <1>7, <1>8

\* The greater profile has the greater rank.
LEMMA RankRises ==
    ASSUME NEW M \in Nat \ {0}, NEW g, NEW h, Profile(g, M), Profile(h, M),
           NEW v \in 0 .. M - 1, \A w \in 0 .. v - 1 : g[w] = h[w], g[v] < h[v]
    PROVE  ProfileRank(g, M, 0) < ProfileRank(h, M, 0)
<1>1. ProfileRank(g, M, v) < ProfileRank(h, M, v)
  <2> DEFINE n == h[v] - 1
  <2>1. n \in Nat /\ g[v] <= n /\ h[v] # 0 /\ g[v] \in Nat
    BY DEF Profile
  <2>2. Share(M - v, h[v]) = Ways(M - v, n)
    BY <2>1 DEF Share
  <2> HIDE DEF n
  <2>3. ProfileRank(g, M, v) < Ways(M - v, n)
    BY <2>1, RankBounded
  <2>4. ProfileRank(h, M, v) = Share(M - v, h[v]) + ProfileRank(h, M, v + 1)
        /\ ProfileRank(h, M, v + 1) \in Nat /\ Share(M - v, h[v]) \in Nat
    BY RankUnfolds
  <2>5. ProfileRank(g, M, v) \in Nat
    BY RankUnfolds
  <2> QED
    BY <2>2, <2>3, <2>4, <2>5
<1> DEFINE G == {i \in Nat : i <= v => ProfileRank(g, M, v - i) < ProfileRank(h, M, v - i)}
<1>2. 0 \in G
  <2> v - 0 = v
    OBVIOUS
  <2> QED
    BY <1>1
<1>3. ASSUME NEW i \in Nat, i \in G PROVE i + 1 \in G
  <2> SUFFICES ASSUME i + 1 <= v
               PROVE  ProfileRank(g, M, v - (i + 1)) < ProfileRank(h, M, v - (i + 1))
    OBVIOUS
  <2> DEFINE w == v - (i + 1)
  <2>1. w \in 0 .. M - 1 /\ w \in 0 .. v - 1 /\ w + 1 = v - i
    OBVIOUS
  <2>2. ProfileRank(g, M, w + 1) < ProfileRank(h, M, w + 1)
    BY <1>3, <2>1
  <2> HIDE DEF G, w
  <2>3. g[w] = h[w]
    BY <2>1
  <2>4. ProfileRank(g, M, w) = Share(M - w, g[w]) + ProfileRank(g, M, w + 1)
        /\ ProfileRank(g, M, w + 1) \in Nat /\ Share(M - w, g[w]) \in Nat
    BY <2>1, RankUnfolds
  <2>5. ProfileRank(h, M, w) = Share(M - w, h[w]) + ProfileRank(h, M, w + 1)
        /\ ProfileRank(h, M, w + 1) \in Nat
    BY <2>1, RankUnfolds
  <2>6. ProfileRank(g, M, w) < ProfileRank(h, M, w)
    BY <2>2, <2>3, <2>4, <2>5
  <2> QED
    BY <2>6 DEF w
<1> HIDE DEF G
<1>4. \A i \in Nat : i \in G
  BY <1>2, <1>3, CountUp
<1>5. v \in Nat /\ v - v = 0
  OBVIOUS
<1> QED
  BY <1>4, <1>5 DEF G
=============================================================================
