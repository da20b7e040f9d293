----------------------------- MODULE DataLemmas -----------------------------
(***************************************************************************)
(* Induction over data: what amounts add up to, what a recursive function  *)
(* on the first natural numbers is, and what is left when they are divided.*)
(*                                                                         *)
(* The library's rules of induction take an operator as a parameter.  Here *)
(* the SET of the elements for which the claim holds takes its place.      *)
(***************************************************************************)
EXTENDS FiniteSetsExt, FiniteSetTheorems, WellFoundedInduction, Integers, TLAPS

-----------------------------------------------------------------------------
(* SumFunctionOnSet, the sum of the values a function takes on a finite    *)
(* set, is defined by a recursive function, a CHOOSE, that takes the       *)
(* elements one at a time in an order nobody knows.  The lemmas show that  *)
(* the function exists and that the order does not matter, so that a proof *)
(* may add or take away whichever element a step is about.                 *)

\* The element the recursion takes from a set.
Pick(s) == CHOOSE x \in s : TRUE

\* g is the recursive function that the sum over S is read from.
SumsTo(f, S, g) ==
  g = [s \in SUBSET S |-> IF s = {} THEN 0 ELSE f[Pick(s)] + g[s \ {Pick(s)}]]

\* Induction over the subsets of a finite set: if a subset is good whenever
\* all its proper subsets are, every subset is good.
LEMMA SubsetInduction ==
  ASSUME NEW S, IsFiniteSet(S), NEW Good,
         \A T \in SUBSET S : (\A U \in SUBSET T : U # T => U \in Good) => T \in Good
  PROVE  SUBSET S \subseteq Good
<1> DEFINE Bad == (SUBSET S) \ Good
<1> SUFFICES ASSUME Bad # {} PROVE FALSE
  OBVIOUS
<1>1. IsWellFoundedOn(StrictSubsetOrdering(S), FiniteSubsetsOf(S))
  BY FS_StrictSubsetOrderingWellFounded
<1>2. Bad \subseteq FiniteSubsetsOf(S)
  BY FS_Subset DEF FiniteSubsetsOf
<1> HIDE DEF Bad
<1>3. \E T \in Bad : \A U \in Bad : ~(<<U, T>> \in StrictSubsetOrdering(S))
  BY <1>1, <1>2, WFMin
<1>4. PICK T \in Bad : \A U \in Bad : ~(<<U, T>> \in StrictSubsetOrdering(S))
  BY <1>3
<1> USE DEF Bad
<1>5. \A U \in SUBSET T : U # T => U \in Good
  <2> SUFFICES ASSUME NEW U \in SUBSET T, U # T, U \notin Good PROVE FALSE
    OBVIOUS
  <2>1. U \in Bad
    OBVIOUS
  <2>2. <<U, T>> \in StrictSubsetOrdering(S)
    BY DEF StrictSubsetOrdering
  <2> QED BY <1>4, <2>1, <2>2
<1> QED
  BY <1>5

\* A set that is not empty holds the element the recursion takes.
LEMMA PickIn ==
  ASSUME NEW S, S # {}
  PROVE  Pick(S) \in S
BY DEF Pick

\* The sum is read from a function the recursion defines, if there is one.
LEMMA SumUnfold ==
  ASSUME NEW f, NEW S
  PROVE  SumFunctionOnSet(f, S) = (CHOOSE g : SumsTo(f, S, g))[S]
BY DEF SumFunctionOnSet, FoldFunctionOnSet, MapThenFoldSet, SumsTo, Pick

\* Two such functions agree where both are defined.
LEMMA SumsAgree ==
  ASSUME NEW f, NEW S, NEW T, IsFiniteSet(T), T \subseteq S,
         NEW g, SumsTo(f, S, g), NEW h, SumsTo(f, T, h)
  PROVE  \A s \in SUBSET T : h[s] = g[s]
<1> DEFINE Good == {s \in SUBSET T : h[s] = g[s]}
<1>1. ASSUME NEW s \in SUBSET T, \A u \in SUBSET s : u # s => u \in Good
      PROVE  s \in Good
  <2>1. CASE s = {}
    BY <2>1 DEF SumsTo
  <2>2. CASE s # {}
    <3>1. s \ {Pick(s)} \in Good
      BY <1>1, <2>2, PickIn
    <3>2. h[s] = f[Pick(s)] + h[s \ {Pick(s)}]
      BY <2>2 DEF SumsTo
    <3>3. g[s] = f[Pick(s)] + g[s \ {Pick(s)}]
      BY <2>2 DEF SumsTo
    <3> QED BY <3>1, <3>2, <3>3
  <2> QED BY <2>1, <2>2
<1> HIDE DEF Good
<1>2. SUBSET T \subseteq Good
  BY <1>1, SubsetInduction
<1> QED
  BY <1>2 DEF Good

\* The recursion defines a function on the subsets of every finite set.
LEMMA SumsExist ==
  ASSUME NEW f, NEW S, IsFiniteSet(S)
  PROVE  \E g : SumsTo(f, S, g)
<1> DEFINE Good == {T \in SUBSET S : \E g : SumsTo(f, T, g)}
<1>1. ASSUME NEW T \in SUBSET S, \A U \in SUBSET T : U # T => U \in Good
      PROVE  T \in Good
  <2> DEFINE g == [s \in SUBSET T |->
                     IF s = {} THEN 0
                     ELSE f[Pick(s)] + SumFunctionOnSet(f, s \ {Pick(s)})]
  <2>1. ASSUME NEW s \in SUBSET T, s # T
        PROVE  g[s] = SumFunctionOnSet(f, s)
    <3> DEFINE h == CHOOSE k : SumsTo(f, s, k)
    <3>1. SumsTo(f, s, h)
      BY <1>1, <2>1
    <3>2. SumFunctionOnSet(f, s) = h[s]
      BY SumUnfold
    <3> HIDE DEF h
    <3>3. CASE s = {}
      BY <3>1, <3>2, <3>3 DEF SumsTo
    <3>4. CASE s # {}
      <4> DEFINE u == s \ {Pick(s)}
                 k == CHOOSE j : SumsTo(f, u, j)
      <4>1. u \in SUBSET s /\ u # T /\ u \in SUBSET T
        BY <3>4, PickIn
      <4>2. SumsTo(f, u, k)
        BY <1>1, <4>1
      <4>3. SumFunctionOnSet(f, u) = k[u]
        BY SumUnfold
      <4>4. IsFiniteSet(u)
        BY <4>1, FS_Subset
      <4> HIDE DEF k
      <4>5. k[u] = h[u]
        <5> u \subseteq s
          BY <4>1
        <5> HIDE DEF u
        <5>1. \A t \in SUBSET u : k[t] = h[t]
          BY <3>1, <4>2, <4>4, SumsAgree
        <5> QED BY <5>1
      <4>6. h[s] = f[Pick(s)] + h[u]
        BY <3>1, <3>4 DEF SumsTo
      <4>7. g[s] = f[Pick(s)] + SumFunctionOnSet(f, u)
        BY <3>4
      <4> QED BY <3>2, <4>3, <4>5, <4>6, <4>7
    <3> QED BY <3>3, <3>4
  <2>2. \A s \in SUBSET T : s # {} =>
           SumFunctionOnSet(f, s \ {Pick(s)}) = g[s \ {Pick(s)}]
    <3> TAKE s \in SUBSET T
    <3> HAVE s # {}
    <3>1. s \ {Pick(s)} \in SUBSET T /\ s \ {Pick(s)} # T
      BY PickIn
    <3> HIDE DEF g
    <3> QED BY <2>1, <3>1
  <2>3. SumsTo(f, T, g)
    BY <2>2 DEF SumsTo
  <2> QED BY <2>3
<1> HIDE DEF Good
<1>2. SUBSET S \subseteq Good
  BY <1>1, SubsetInduction
<1> QED
  BY <1>2 DEF Good

\* The recursion the sum obeys: nothing for no element, and the element taken
\* with the sum of the others.
LEMMA SumRecursion ==
  ASSUME NEW f, NEW S, IsFiniteSet(S)
  PROVE  /\ S = {} => SumFunctionOnSet(f, S) = 0
         /\ S # {} => SumFunctionOnSet(f, S)
                        = f[Pick(S)] + SumFunctionOnSet(f, S \ {Pick(S)})
<1> DEFINE g == CHOOSE k : SumsTo(f, S, k)
           U == S \ {Pick(S)}
           h == CHOOSE k : SumsTo(f, U, k)
<1>1. SumsTo(f, S, g)
  BY SumsExist
<1>2. SumFunctionOnSet(f, S) = g[S]
  BY SumUnfold
<1>3. IsFiniteSet(U)
  BY FS_Subset
<1>4. SumsTo(f, U, h)
  BY <1>3, SumsExist
<1>5. SumFunctionOnSet(f, U) = h[U]
  BY SumUnfold
<1> HIDE DEF g, h
<1>6. h[U] = g[U]
  <2> U \subseteq S
    OBVIOUS
  <2> HIDE DEF U
  <2>1. \A t \in SUBSET U : h[t] = g[t]
    BY <1>1, <1>3, <1>4, SumsAgree
  <2> QED BY <2>1
<1>7. S # {} => g[S] = f[Pick(S)] + g[U]
  BY <1>1 DEF SumsTo
<1>8. S = {} => g[S] = 0
  BY <1>1 DEF SumsTo
<1> QED
  BY <1>2, <1>5, <1>6, <1>7, <1>8

\* A sum of integers is an integer, of naturals a natural.
LEMMA SumType ==
  ASSUME NEW f, NEW S, IsFiniteSet(S)
  PROVE  /\ (\A x \in S : f[x] \in Int) => SumFunctionOnSet(f, S) \in Int
         /\ (\A x \in S : f[x] \in Nat) => SumFunctionOnSet(f, S) \in Nat
<1> DEFINE Good == {T \in SUBSET S :
                      /\ (\A x \in T : f[x] \in Int) => SumFunctionOnSet(f, T) \in Int
                      /\ (\A x \in T : f[x] \in Nat) => SumFunctionOnSet(f, T) \in Nat}
<1>1. ASSUME NEW T \in SUBSET S, \A U \in SUBSET T : U # T => U \in Good
      PROVE  T \in Good
  <2>1. IsFiniteSet(T)
    BY FS_Subset
  <2>2. CASE T = {}
    BY <2>1, <2>2, SumRecursion
  <2>3. CASE T # {}
    <3>1. Pick(T) \in T /\ T \ {Pick(T)} \in Good
      BY <1>1, <2>3, PickIn
    <3>2. SumFunctionOnSet(f, T) = f[Pick(T)] + SumFunctionOnSet(f, T \ {Pick(T)})
      BY <2>1, <2>3, SumRecursion
    <3> QED BY <3>1, <3>2
  <2> QED BY <2>2, <2>3
<1> HIDE DEF Good
<1>2. SUBSET S \subseteq Good
  BY <1>1, SubsetInduction
<1> QED
  BY <1>2 DEF Good

\* Any element may be taken first.
LEMMA SumTake ==
  ASSUME NEW f, NEW S, IsFiniteSet(S), \A x \in S : f[x] \in Int, NEW x \in S
  PROVE  SumFunctionOnSet(f, S) = f[x] + SumFunctionOnSet(f, S \ {x})
<1> DEFINE Good == {T \in SUBSET S : \A y \in T :
             SumFunctionOnSet(f, T) = f[y] + SumFunctionOnSet(f, T \ {y})}
<1>1. ASSUME NEW T \in SUBSET S, \A U \in SUBSET T : U # T => U \in Good
      PROVE  T \in Good
  <2> SUFFICES ASSUME NEW y \in T
               PROVE  SumFunctionOnSet(f, T) = f[y] + SumFunctionOnSet(f, T \ {y})
    OBVIOUS
  <2> DEFINE p == Pick(T)
  <2>1. p \in T
    BY PickIn
  <2>2. IsFiniteSet(T)
    BY FS_Subset
  <2>3. SumFunctionOnSet(f, T) = f[p] + SumFunctionOnSet(f, T \ {p})
    BY <2>2, SumRecursion
  <2> HIDE DEF p
  <2>4. CASE p = y
    BY <2>3, <2>4
  <2>5. CASE p # y
    <3>1. T \ {p} \in Good /\ T \ {y} \in Good
      BY <1>1, <2>1
    <3>2. SumFunctionOnSet(f, T \ {p})
            = f[y] + SumFunctionOnSet(f, (T \ {p}) \ {y})
      BY <2>5, <3>1
    <3>3. SumFunctionOnSet(f, T \ {y})
            = f[p] + SumFunctionOnSet(f, (T \ {y}) \ {p})
      BY <2>1, <2>5, <3>1
    <3>4. (T \ {p}) \ {y} = (T \ {y}) \ {p}
      OBVIOUS
    <3> DEFINE R == SumFunctionOnSet(f, (T \ {p}) \ {y})
    <3>5. R \in Int
      <4>1. IsFiniteSet((T \ {p}) \ {y})
        BY <2>2, FS_Subset
      <4> QED BY <4>1, SumType
    <3>6. f[p] \in Int /\ f[y] \in Int
      BY <2>1
    <3> HIDE DEF R
    <3>7. SumFunctionOnSet(f, T) = f[p] + (f[y] + R)
      BY <2>3, <3>2 DEF R
    <3>8. SumFunctionOnSet(f, T \ {y}) = f[p] + R
      BY <3>3, <3>4 DEF R
    <3> QED BY <3>5, <3>6, <3>7, <3>8
  <2> QED BY <2>4, <2>5
<1> HIDE DEF Good
<1>2. SUBSET S \subseteq Good
  BY <1>1, SubsetInduction
<1> QED
  BY <1>2 DEF Good

\* No element, no amount.
LEMMA SumEmpty ==
  ASSUME NEW f
  PROVE  SumFunctionOnSet(f, {}) = 0
BY SumRecursion, FS_EmptySet

\* A new element adds its value.
LEMMA SumAdd ==
  ASSUME NEW f, NEW S, IsFiniteSet(S), NEW x, x \notin S,
         \A y \in S \cup {x} : f[y] \in Int
  PROVE  SumFunctionOnSet(f, S \cup {x}) = f[x] + SumFunctionOnSet(f, S)
<1>1. IsFiniteSet(S \cup {x})
  BY FS_AddElement
<1>2. (S \cup {x}) \ {x} = S
  OBVIOUS
<1>3. SumFunctionOnSet(f, S \cup {x})
        = f[x] + SumFunctionOnSet(f, (S \cup {x}) \ {x})
  <2> DEFINE T == S \cup {x}
  <2>1. x \in T /\ IsFiniteSet(T) /\ \A y \in T : f[y] \in Int
    BY <1>1
  <2> HIDE DEF T
  <2>2. SumFunctionOnSet(f, T) = f[x] + SumFunctionOnSet(f, T \ {x})
    BY <2>1, SumTake
  <2> QED BY <2>2 DEF T
<1> QED
  BY <1>2, <1>3

\* Functions that agree on a set have the same sum over it.
LEMMA SumEqual ==
  ASSUME NEW f, NEW g, NEW S, IsFiniteSet(S), \A x \in S : f[x] = g[x]
  PROVE  SumFunctionOnSet(f, S) = SumFunctionOnSet(g, S)
<1> DEFINE Good == {T \in SUBSET S : SumFunctionOnSet(f, T) = SumFunctionOnSet(g, T)}
<1>1. ASSUME NEW T \in SUBSET S, \A U \in SUBSET T : U # T => U \in Good
      PROVE  T \in Good
  <2>1. IsFiniteSet(T)
    BY FS_Subset
  <2>2. CASE T = {}
    BY <2>2, SumEmpty
  <2>3. CASE T # {}
    <3>1. Pick(T) \in T /\ T \ {Pick(T)} \in Good
      BY <1>1, <2>3, PickIn
    <3>2. SumFunctionOnSet(f, T) = f[Pick(T)] + SumFunctionOnSet(f, T \ {Pick(T)})
      BY <2>1, <2>3, SumRecursion
    <3>3. SumFunctionOnSet(g, T) = g[Pick(T)] + SumFunctionOnSet(g, T \ {Pick(T)})
      BY <2>1, <2>3, SumRecursion
    <3> QED BY <3>1, <3>2, <3>3
  <2> QED BY <2>2, <2>3
<1> HIDE DEF Good
<1>2. SUBSET S \subseteq Good
  BY <1>1, SubsetInduction
<1> QED
  BY <1>2 DEF Good

\* The sum over one more element, of a function that is otherwise the same.
LEMMA SumGrows ==
  ASSUME NEW f, NEW g, NEW S, IsFiniteSet(S), NEW x, x \notin S,
         \A y \in S : f[y] = g[y],
         \A y \in S \cup {x} : g[y] \in Int
  PROVE  SumFunctionOnSet(g, S \cup {x}) = g[x] + SumFunctionOnSet(f, S)
<1>1. SumFunctionOnSet(g, S \cup {x}) = g[x] + SumFunctionOnSet(g, S)
  BY SumAdd
<1>2. SumFunctionOnSet(f, S) = SumFunctionOnSet(g, S)
  BY SumEqual
<1> QED
  BY <1>1, <1>2

\* The sum over a set that has grown by one element or not at all.
LEMMA SumMaybe ==
  ASSUME NEW f, NEW S, IsFiniteSet(S), NEW x, x \notin S,
         \A y \in S \cup {x} : f[y] \in Int,
         NEW c \in BOOLEAN, NEW T, T = IF c THEN S \cup {x} ELSE S
  PROVE  SumFunctionOnSet(f, T) = SumFunctionOnSet(f, S) + (IF c THEN f[x] ELSE 0)
<1>1. SumFunctionOnSet(f, S) \in Int /\ f[x] \in Int
  BY SumType
<1>2. CASE c
  BY <1>1, <1>2, SumAdd
<1>3. CASE ~c
  BY <1>1, <1>3
<1> QED
  BY <1>2, <1>3

\* Fewer elements or smaller values, all natural, a smaller sum.
LEMMA SumMonotone ==
  ASSUME NEW f, NEW g, NEW S, IsFiniteSet(S), NEW W \in SUBSET S,
         \A x \in S : f[x] \in Nat /\ g[x] \in Nat /\ f[x] <= g[x]
  PROVE  SumFunctionOnSet(f, W) <= SumFunctionOnSet(g, S)
<1> DEFINE Good == {T \in SUBSET S : \A V \in SUBSET T :
             SumFunctionOnSet(f, V) <= SumFunctionOnSet(g, T)}
<1>1. ASSUME NEW T \in SUBSET S, \A U \in SUBSET T : U # T => U \in Good
      PROVE  T \in Good
  <2> SUFFICES ASSUME NEW V \in SUBSET T
               PROVE  SumFunctionOnSet(f, V) <= SumFunctionOnSet(g, T)
    OBVIOUS
  <2>1. IsFiniteSet(T) /\ IsFiniteSet(V)
    BY FS_Subset
  <2>2. CASE T = {}
    BY <2>2, SumEmpty
  <2>3. CASE T # {}
    <3>1. PICK x \in T : TRUE
      BY <2>3
    <3> DEFINE U == T \ {x}
               Q == V \ {x}
    <3>2. U \in Good /\ Q \in SUBSET U /\ IsFiniteSet(U) /\ IsFiniteSet(Q)
      BY <1>1, <2>1, <3>1, FS_Subset
    <3>3. SumFunctionOnSet(f, Q) <= SumFunctionOnSet(g, U)
      BY <3>2
    <3>4. /\ SumFunctionOnSet(f, Q) \in Nat
          /\ SumFunctionOnSet(g, U) \in Nat
      BY <3>2, SumType
    <3>5. f[x] \in Nat /\ g[x] \in Nat /\ f[x] <= g[x]
      BY <3>1
    <3>6. SumFunctionOnSet(g, T) = g[x] + SumFunctionOnSet(g, U)
      BY <2>1, SumTake
    <3>7. CASE x \in V
      <4>1. SumFunctionOnSet(f, V) = f[x] + SumFunctionOnSet(f, Q)
        BY <2>1, <3>7, SumTake
      <4> HIDE DEF Q, U
      <4> QED BY <3>3, <3>4, <3>5, <3>6, <4>1
    <3>8. CASE x \notin V
      <4>1. Q = V
        BY <3>8
      <4> HIDE DEF Q, U
      <4> QED BY <3>3, <3>4, <3>5, <3>6, <4>1
    <3> QED BY <3>7, <3>8
  <2> QED BY <2>2, <2>3
<1> HIDE DEF Good
<1>2. SUBSET S \subseteq Good
  BY <1>1, SubsetInduction
<1> QED
  BY <1>2 DEF Good

-----------------------------------------------------------------------------
(* Recursion.                                                              *)

\* Induction over the natural numbers, with the set of the good ones.
LEMMA NatGood ==
  ASSUME NEW Good, 0 \in Good, \A n \in Nat : n \in Good => n + 1 \in Good
  PROVE  Nat \subseteq Good
<1> DEFINE Bad == Nat \ Good
<1> SUFFICES ASSUME Bad # {} PROVE FALSE
  OBVIOUS
<1> HIDE DEF Bad
<1>1. \E n \in Bad : \A m \in Bad : ~ (<<m, n>> \in OpToRel(<, Nat))
  <2>1. Bad \subseteq Nat
    BY DEF Bad
  <2> QED BY <2>1, NatLessThanWellFounded, WFMin
<1>2. PICK n \in Bad : \A m \in Bad : ~ (<<m, n>> \in OpToRel(<, Nat))
  BY <1>1
<1>3. n \in Nat /\ n \notin Good
  BY DEF Bad
<1>4. n - 1 \in Nat /\ n - 1 \notin Good
  BY <1>3
<1>5. n - 1 \in Bad
  BY <1>4 DEF Bad
<1>6. <<n - 1, n>> \in OpToRel(<, Nat)
  BY <1>3, <1>4 DEF OpToRel
<1> QED
  BY <1>2, <1>5, <1>6

LEMMA UpToGood ==
  ASSUME NEW N \in Nat, NEW Good, 0 \in Good, \A n \in 1 .. N : n - 1 \in Good => n \in Good
  PROVE  0 .. N \subseteq Good
<1> DEFINE G == {n \in Nat : n <= N => n \in Good}
<1>1. 0 \in G
  OBVIOUS
<1>2. ASSUME NEW n \in Nat, n \in G PROVE n + 1 \in G
  <2> SUFFICES ASSUME n + 1 <= N PROVE n + 1 \in Good
    OBVIOUS
  <2>1. n + 1 \in 1 .. N /\ (n + 1) - 1 = n /\ n \in Good
    BY <1>2
  <2> QED BY <2>1
<1> HIDE DEF G
<1>3. Nat \subseteq G
  BY <1>1, <1>2, NatGood
<1> QED
  BY <1>3 DEF G

\* There is a function on 0 .. N into X that is a at first, and whose every
\* value determines the next.
Recursion(N, X, a, next) ==
  \E g \in [0 .. N -> X] : /\ g[0] = a
                           /\ \A i \in 1 .. N : g[i] = next[i][g[i - 1]]

LEMMA RecursionDefines ==
  ASSUME NEW N \in Nat, NEW X, NEW a \in X, NEW next \in [1 .. N -> [X -> X]]
  PROVE  Recursion(N, X, a, next)
<1> DEFINE Up(n, g) == \A i \in 0 .. n : g[i] = IF i = 0 THEN a ELSE next[i][g[i - 1]]
           Good == {n \in 0 .. N : \E g \in [0 .. n -> X] : Up(n, g)}
<1>1. 0 \in Good
  <2> DEFINE g == [i \in 0 .. 0 |-> a]
  <2>1. g \in [0 .. 0 -> X] /\ Up(0, g)
    OBVIOUS
  <2>2. 0 \in 0 .. N
    OBVIOUS
  <2> HIDE DEF g, Up
  <2> QED BY <2>1, <2>2
<1>2. ASSUME NEW n \in 1 .. N, n - 1 \in Good PROVE n \in Good
  <2>1. PICK g \in [0 .. n - 1 -> X] : Up(n - 1, g)
    BY <1>2
  <2> DEFINE h == [i \in 0 .. n |-> IF i = n THEN next[n][g[n - 1]] ELSE g[i]]
  <2>2. g[n - 1] \in X /\ next[n] \in [X -> X]
    OBVIOUS
  <2>3. h \in [0 .. n -> X]
    <3> SUFFICES ASSUME NEW i \in 0 .. n PROVE h[i] \in X
      OBVIOUS
    <3>1. i # n => i \in 0 .. n - 1
      OBVIOUS
    <3> QED BY <2>2, <3>1
  <2>4. Up(n, h)
    <3> SUFFICES ASSUME NEW i \in 0 .. n PROVE h[i] = IF i = 0 THEN a ELSE next[i][h[i - 1]]
      OBVIOUS
    <3>1. CASE i = n
      <4>1. h[n - 1] = g[n - 1]
        OBVIOUS
      <4> QED BY <3>1, <4>1
    <3>2. CASE i # n
      <4>1. i \in 0 .. n - 1 /\ h[i] = g[i] /\ (i # 0 => h[i - 1] = g[i - 1])
        BY <3>2
      <4> QED BY <2>1, <4>1
    <3> QED BY <3>1, <3>2
  <2> HIDE DEF h, Up
  <2> QED BY <2>3, <2>4
<1> HIDE DEF Good
<1>3. 0 .. N \subseteq Good
  BY <1>1, <1>2, UpToGood
<1>4. PICK g \in [0 .. N -> X] : Up(N, g)
  BY <1>3 DEF Good
<1>5. g[0] = a /\ \A i \in 1 .. N : g[i] = next[i][g[i - 1]]
  BY <1>4
<1> QED
  BY <1>5 DEF Recursion

-----------------------------------------------------------------------------
(* Quotients.                                                              *)

LEMMA AtLeastOnce ==
  ASSUME NEW c \in Nat, NEW d \in Int, d >= 1
  PROVE  c * d >= c
OBVIOUS

\* A number is divided into one quotient and one remainder only.
LEMMA Quotient ==
  ASSUME NEW c \in Nat, c > 0, NEW m \in Int, NEW q \in Int, NEW r \in 0 .. c - 1, m = c * q + r
  PROVE  m \div c = q /\ m % c = r
<1> DEFINE d == m \div c
           s == m % c
<1>1. d \in Int /\ s \in 0 .. c - 1 /\ m = c * d + s
  OBVIOUS
<1> HIDE DEF d, s
<1>2. c * (d - q) = r - s /\ c * (q - d) = s - r
  BY <1>1
<1>3. ~ (d - q >= 1)
  BY <1>1, <1>2, AtLeastOnce
<1>4. ~ (q - d >= 1)
  BY <1>1, <1>2, AtLeastOnce
<1>5. d = q
  BY <1>1, <1>3, <1>4
<1>6. s = r
  BY <1>1, <1>5
<1> QED
  BY <1>5, <1>6 DEF d, s

\* Dividing twice is dividing by the product.
LEMMA DividedTwice ==
  ASSUME NEW n \in Nat, NEW a \in Nat, a > 0, NEW b \in Nat, b > 0
  PROVE  (n \div a) \div b = n \div (b * a)
<1> DEFINE q == n \div a
           r == n % a
           p == q \div b
           s == q % b
<1>1. q \in Nat /\ r \in 0 .. a - 1 /\ n = a * q + r
  OBVIOUS
<1> HIDE DEF q, r
<1>2. p \in Nat /\ s \in 0 .. b - 1 /\ q = b * p + s
  BY <1>1
<1> HIDE DEF p, s
<1>3. a * s \in Nat /\ a * s <= a * (b - 1) /\ a * (b - 1) = b * a - a
  BY <1>2
<1>4. b * a \in Nat /\ b * a > 0
  OBVIOUS
<1>5. a * s + r \in 0 .. b * a - 1
  BY <1>1, <1>3, <1>4
<1>6. n = (b * a) * p + (a * s + r)
  BY <1>1, <1>2
<1> DEFINE c == b * a
           d == a * s + r
<1>7. n \div c = p
  <2>1. c \in Nat /\ c > 0 /\ d \in 0 .. c - 1 /\ n = c * p + d /\ p \in Int /\ n \in Int
    BY <1>2, <1>4, <1>5, <1>6
  <2> HIDE DEF c, d
  <2> QED BY <2>1, Quotient
<1> QED
  BY <1>7 DEF p, q

=============================================================================
