---------------------------- MODULE SumTheorems ----------------------------
(***************************************************************************)
(* Sums of a function over a finite set, SumFunctionOnSet of the module    *)
(* Functions.  It is a fold along whatever elements CHOOSE picks; here is  *)
(* what does not depend on them.  The recursion is shown to define a       *)
(* function by looking at a least set on which it would not.               *)
(***************************************************************************)
EXTENDS Integers, FiniteSetsExt, FiniteSetTheorems, WellFoundedInduction, TLAPS

Some(s) == CHOOSE x \in s : TRUE

(* g maps each subset of S to its sum, element by element. *)
Adds(g, f, S) ==
    g = [s \in SUBSET S |-> IF s = {} THEN 0 ELSE f[Some(s)] + g[s \ {Some(s)}]]

LEMMA SomeElement ==
    ASSUME NEW s, s # {}
    PROVE  Some(s) \in s
BY DEF Some

LEMMA AddsAt ==
    ASSUME NEW S, NEW f, NEW g, Adds(g, f, S), NEW s \in SUBSET S
    PROVE  /\ s = {} => g[s] = 0
           /\ s # {} => g[s] = f[Some(s)] + g[s \ {Some(s)}]
<1> DEFINE F(t) == IF t = {} THEN 0 ELSE f[Some(t)] + g[t \ {Some(t)}]
<1>1. g = [t \in SUBSET S |-> F(t)]
  BY DEF Adds
<1>2. g[s] = F(s)
  <2> HIDE DEF F
  <2> QED
    BY <1>1
<1> QED
  BY <1>2

(* Of subsets of a finite set, some are least. *)
LEMMA LeastSubset ==
    ASSUME NEW S, IsFiniteSet(S), NEW B, B \subseteq SUBSET S, B # {}
    PROVE  \E s \in B : \A t \in B : t \subseteq s => t = s
<1>1. B \subseteq FiniteSubsetsOf(S)
  BY FS_Subset DEF FiniteSubsetsOf
<1>2. PICK s \in B : \A t \in B : ~(<<t, s>> \in StrictSubsetOrdering(S))
  BY <1>1, FS_StrictSubsetOrderingWellFounded, WFMin
<1> QED
  BY <1>1, <1>2 DEF StrictSubsetOrdering, FiniteSubsetsOf

(* Two sums agree on the sets they have in common. *)
LEMMA AddsAgree ==
    ASSUME NEW S, IsFiniteSet(S), NEW T \in SUBSET S, NEW f, NEW g, NEW h,
           Adds(g, f, S), Adds(h, f, T)
    PROVE  \A s \in SUBSET T : g[s] = h[s]
<1> DEFINE B == {s \in SUBSET T : g[s] # h[s]}
<1>1. SUFFICES ASSUME B # {} PROVE FALSE
  OBVIOUS
<1>2. B \subseteq SUBSET S /\ B \subseteq SUBSET T
  OBVIOUS
<1>a. \A s \in SUBSET T : s \notin B => g[s] = h[s]
  OBVIOUS
<1>b. \A s \in B : g[s] # h[s]
  OBVIOUS
<1> HIDE DEF B
<1>3. PICK s \in B : \A t \in B : t \subseteq s => t = s
  BY <1>1, <1>2, LeastSubset
<1>4. s \in SUBSET S /\ s \in SUBSET T
  BY <1>2, <1>3
<1>5. s # {}
  <2>1. (s = {} => g[s] = 0) /\ (s = {} => h[s] = 0)
    BY <1>4, AddsAt
  <2> QED
    BY <1>3, <1>b, <2>1
<1>6. Some(s) \in s
  BY <1>5, SomeElement
<1>7. /\ g[s] = f[Some(s)] + g[s \ {Some(s)}]
      /\ h[s] = f[Some(s)] + h[s \ {Some(s)}]
  BY <1>4, <1>5, AddsAt
<1>8. s \ {Some(s)} \in SUBSET T /\ s \ {Some(s)} \notin B
  BY <1>3, <1>4, <1>6
<1> QED
  BY <1>3, <1>7, <1>8, <1>a, <1>b

(* They exist: T below would be a least set without one, and its subsets'  *)
(* sums make up its own.                                                   *)
LEMMA AddsExists ==
    ASSUME NEW S, IsFiniteSet(S), NEW f
    PROVE  \E g : Adds(g, f, S)
<1> DEFINE B == {s \in SUBSET S : ~\E g : Adds(g, f, s)}
<1>1. SUFFICES ASSUME B # {} PROVE FALSE
  OBVIOUS
<1>a. B \subseteq SUBSET S
  OBVIOUS
<1>b. \A s \in SUBSET S : s \notin B => \E g : Adds(g, f, s)
  OBVIOUS
<1>c. \A s \in B : ~\E g : Adds(g, f, s)
  OBVIOUS
<1> HIDE DEF B
<1>2. PICK T \in B : \A t \in B : t \subseteq T => t = T
  BY <1>1, <1>a, LeastSubset
<1>d. T \in SUBSET S /\ IsFiniteSet(T)
  BY <1>2, <1>a, FS_Subset
<1> DEFINE G(u) == CHOOSE g : Adds(g, f, u)
           V(s) == IF s = {} THEN 0 ELSE f[Some(s)] + G(s \ {Some(s)})[s \ {Some(s)}]
           g == [s \in SUBSET T |-> V(s)]
<1>3. ASSUME NEW u \in SUBSET T, u # T
      PROVE  Adds(G(u), f, u)
  <2>1. \E h : Adds(h, f, u)
    BY <1>2, <1>3, <1>b, <1>d
  <2> QED
    BY <2>1
<1> HIDE DEF G
<1>4. ASSUME NEW u \in SUBSET T, u # T
      PROVE  G(u)[u] = V(u)
  <2>0. Adds(G(u), f, u) /\ u \in SUBSET u
    BY <1>3, <1>4
  <2>1. CASE u = {}
    BY <2>0, <2>1, AddsAt
  <2>2. CASE u # {}
    <3> DEFINE w == u \ {Some(u)}
    <3>1. Some(u) \in u
      BY <2>2, SomeElement
    <3>2. w \in SUBSET u /\ w \in SUBSET T /\ w # T /\ w \in SUBSET w
      BY <3>1
    <3>3. Adds(G(w), f, w)
      BY <1>3, <3>2
    <3>4. IsFiniteSet(u)
      BY <1>d, FS_Subset
    <3>5. G(u)[w] = G(w)[w]
      BY <2>0, <3>2, <3>3, <3>4, AddsAgree
    <3>6. G(u)[u] = f[Some(u)] + G(u)[w]
      BY <2>0, <2>2, AddsAt
    <3> QED
      BY <2>2, <3>5, <3>6
  <2> QED
    BY <2>1, <2>2
<1>5. ASSUME NEW s \in SUBSET T, s # {}
      PROVE  G(s \ {Some(s)})[s \ {Some(s)}] = g[s \ {Some(s)}]
  <2> DEFINE w == s \ {Some(s)}
  <2>1. Some(s) \in s
    BY <1>5, SomeElement
  <2>2. w \in SUBSET T /\ w # T
    BY <2>1
  <2> HIDE DEF w, V
  <2>3. g[w] = V(w)
    BY <2>2
  <2> QED
    BY <1>4, <2>2, <2>3 DEF w
<1> DEFINE W(s) == IF s = {} THEN 0 ELSE f[Some(s)] + g[s \ {Some(s)}]
<1>6. \A s \in SUBSET T : V(s) = W(s)
  <2> HIDE DEF g
  <2> QED
    BY <1>5
<1>7. g = [s \in SUBSET T |-> W(s)]
  <2> HIDE DEF V, W
  <2>1. g = [s \in SUBSET T |-> V(s)]
    OBVIOUS
  <2> HIDE DEF g
  <2> QED
    BY <1>6, <2>1
<1> HIDE DEF g
<1>8. Adds(g, f, T)
  BY <1>7 DEF Adds
<1> QED
  BY <1>2, <1>8, <1>c

(* The fold is such a sum. *)
LEMMA SumIsAdded ==
    ASSUME NEW S, IsFiniteSet(S), NEW f, NEW g, Adds(g, f, S), NEW T \in SUBSET S
    PROVE  SumFunctionOnSet(f, T) = g[T]
<1>1. IsFiniteSet(T) /\ T \in SUBSET T
  BY FS_Subset
<1> DEFINE h == CHOOSE h : Adds(h, f, T)
<1>2. Adds(h, f, T)
  BY <1>1, AddsExists
<1>3. SumFunctionOnSet(f, T) = h[T]
  BY DEF SumFunctionOnSet, FoldFunctionOnSet, MapThenFoldSet, Adds, Some
<1> HIDE DEF h
<1>4. g[T] = h[T]
  BY <1>1, <1>2, AddsAgree
<1> QED
  BY <1>3, <1>4

----------------------------------------------------------------------------
LEMMA SumUnfolds ==
    ASSUME NEW s, IsFiniteSet(s), NEW f
    PROVE  /\ s = {} => SumFunctionOnSet(f, s) = 0
           /\ s # {} => SumFunctionOnSet(f, s)
                            = f[Some(s)] + SumFunctionOnSet(f, s \ {Some(s)})
<1>1. PICK g : Adds(g, f, s)
  BY AddsExists
<1>2. s \in SUBSET s /\ s \ {Some(s)} \in SUBSET s
  OBVIOUS
<1>3. /\ SumFunctionOnSet(f, s) = g[s]
      /\ SumFunctionOnSet(f, s \ {Some(s)}) = g[s \ {Some(s)}]
  BY <1>1, <1>2, SumIsAdded
<1>4. /\ s = {} => g[s] = 0
      /\ s # {} => g[s] = f[Some(s)] + g[s \ {Some(s)}]
  BY <1>1, <1>2, AddsAt
<1> QED
  BY <1>3, <1>4

LEMMA SumOfNone ==
    ASSUME NEW f
    PROVE  SumFunctionOnSet(f, {}) = 0
BY SumUnfolds, FS_EmptySet

(* A sum is a number. *)
LEMMA SumType ==
    ASSUME NEW S, IsFiniteSet(S), NEW f, \A x \in S : f[x] \in Int
    PROVE  SumFunctionOnSet(f, S) \in Int
<1> DEFINE sum(s) == SumFunctionOnSet(f, s)
           B == {s \in SUBSET S : sum(s) \notin Int}
<1> HIDE DEF sum
<1>1. SUFFICES ASSUME B # {} PROVE FALSE
  BY DEF sum
<1>2. B \subseteq SUBSET S /\ \A s \in B : sum(s) \notin Int
  OBVIOUS
<1>3. \A s \in SUBSET S : s \notin B => sum(s) \in Int
  OBVIOUS
<1> HIDE DEF B
<1>4. PICK s \in B : \A t \in B : t \subseteq s => t = s
  BY <1>1, <1>2, LeastSubset
<1>5. s \in SUBSET S /\ IsFiniteSet(s)
  BY <1>2, <1>4, FS_Subset
<1>6. s # {}
  <2>1. s = {} => sum(s) = 0
    BY SumOfNone DEF sum
  <2> QED
    BY <1>2, <1>4, <2>1
<1>7. Some(s) \in s
  BY <1>6, SomeElement
<1>8. sum(s) = f[Some(s)] + sum(s \ {Some(s)})
  BY <1>5, <1>6, SumUnfolds DEF sum
<1>9. sum(s \ {Some(s)}) \in Int
  BY <1>3, <1>4, <1>5, <1>7
<1>10. f[Some(s)] \in Int
  BY <1>5, <1>7
<1> QED
  BY <1>2, <1>4, <1>8, <1>9, <1>10

(* Any element may be added last. *)
LEMMA SumOfOneMore ==
    ASSUME NEW S, IsFiniteSet(S), NEW f, \A x \in S : f[x] \in Int, NEW x \in S
    PROVE  SumFunctionOnSet(f, S) = SumFunctionOnSet(f, S \ {x}) + f[x]
<1>1. PICK g : Adds(g, f, S)
  BY AddsExists
<1>a. \A t \in SUBSET S : SumFunctionOnSet(f, t) = g[t] /\ g[t] \in Int
  <2> SUFFICES ASSUME NEW t \in SUBSET S
               PROVE  SumFunctionOnSet(f, t) = g[t] /\ g[t] \in Int
    OBVIOUS
  <2>1. SumFunctionOnSet(f, t) = g[t]
    BY <1>1, SumIsAdded
  <2>2. IsFiniteSet(t) /\ \A y \in t : f[y] \in Int
    BY FS_Subset
  <2> QED
    BY <2>1, <2>2, SumType
<1> DEFINE B == {s \in SUBSET S : \E y \in s : g[s] # g[s \ {y}] + f[y]}
<1>2. SUFFICES ASSUME B # {} PROVE FALSE
  <2>1. g[S] = g[S \ {x}] + f[x]
    <3>1. S \notin B /\ S \in SUBSET S
      BY <1>2
    <3> QED
      BY <3>1
  <2> QED
    BY <1>a, <2>1
<1>b. B \subseteq SUBSET S
  OBVIOUS
<1>c. \A s \in B : \E y \in s : g[s] # g[s \ {y}] + f[y]
  OBVIOUS
<1>d. \A s \in SUBSET S : s \notin B => \A y \in s : g[s] = g[s \ {y}] + f[y]
  OBVIOUS
<1> HIDE DEF B
<1>3. PICK s \in B : \A t \in B : t \subseteq s => t = s
  BY <1>2, <1>b, LeastSubset
<1>4. PICK y \in s : g[s] # g[s \ {y}] + f[y]
  BY <1>3, <1>c
<1>e. s \in SUBSET S /\ s # {}
  BY <1>3, <1>4, <1>b
<1> DEFINE z == Some(s)
           u == s \ {y}
           w == s \ {z}
           v == w \ {y}
<1>5. z \in s
  BY <1>e, SomeElement
<1>6. g[s] = f[z] + g[w]
  BY <1>1, <1>e, AddsAt
<1>7. u \in SUBSET S /\ w \in SUBSET S /\ v \in SUBSET S
  BY <1>e
<1>8. f[y] \in Int /\ f[z] \in Int /\ g[u] \in Int /\ g[v] \in Int
  BY <1>a, <1>e, <1>4, <1>5, <1>7
<1>9. z # y
  <2> SUFFICES ASSUME z = y PROVE FALSE
    OBVIOUS
  <2>1. g[s] = f[y] + g[u]
    BY <1>6
  <2>2. g[u] + f[y] = f[y] + g[u]
    <3> HIDE DEF u
    <3> QED
      BY <1>8
  <2> QED
    BY <1>4, <2>1, <2>2
<1>10. u \notin B /\ w \notin B
  BY <1>3, <1>4, <1>5
<1>11. y \in w /\ z \in u /\ u \ {z} = v
  BY <1>4, <1>5, <1>9
<1>12. g[w] = g[v] + f[y] /\ g[u] = g[u \ {z}] + f[z]
  BY <1>7, <1>10, <1>11, <1>d
<1>13. g[u] = g[v] + f[z]
  BY <1>11, <1>12
<1>14. g[s] # g[u] + f[y]
  BY <1>4
<1> HIDE DEF z, u, v, w
<1> QED
  BY <1>6, <1>8, <1>12, <1>13, <1>14

(* Only the values on the set count. *)
LEMMA SumsAgree ==
    ASSUME NEW S, IsFiniteSet(S), NEW f, NEW h, \A x \in S : f[x] = h[x]
    PROVE  SumFunctionOnSet(f, S) = SumFunctionOnSet(h, S)
<1>1. PICK g : Adds(g, f, S)
  BY AddsExists
<1> DEFINE F(s) == IF s = {} THEN 0 ELSE f[Some(s)] + g[s \ {Some(s)}]
           H(s) == IF s = {} THEN 0 ELSE h[Some(s)] + g[s \ {Some(s)}]
<1>2. \A s \in SUBSET S : F(s) = H(s)
  BY SomeElement
<1>3. g = [s \in SUBSET S |-> F(s)]
  BY <1>1 DEF Adds
<1>4. g = [s \in SUBSET S |-> H(s)]
  <2> HIDE DEF F, H
  <2> QED
    BY <1>2, <1>3
<1>5. Adds(g, h, S)
  BY <1>4 DEF Adds
<1> QED
  BY <1>1, <1>5, SumIsAdded

LEMMA TimesOneLess ==
    ASSUME NEW x \in Int, NEW n \in Int
    PROVE  x * (n - 1) \in Int /\ x * n \in Int /\ x * n = x * (n - 1) + x
  OBVIOUS

(* The sum of n values lies between n times a lower and an upper bound. *)
LEMMA SumBounds ==
    ASSUME NEW S, IsFiniteSet(S), NEW f, NEW lo \in Int, NEW hi \in Int,
           \A x \in S : f[x] \in lo..hi
    PROVE  SumFunctionOnSet(f, S) \in (lo * Cardinality(S))..(hi * Cardinality(S))
<1>1. PICK g : Adds(g, f, S)
  BY AddsExists
<1> DEFINE Good(s) == g[s] \in (lo * Cardinality(s))..(hi * Cardinality(s))
           B == {s \in SUBSET S : ~Good(s)}
<1>2. SUFFICES ASSUME B # {} PROVE FALSE
  <2>1. Good(S)
    BY <1>2
  <2> QED
    BY <1>1, <2>1, SumIsAdded
<1>a. B \subseteq SUBSET S /\ \A s \in B : ~Good(s)
  <2> HIDE DEF Good
  <2> QED
    OBVIOUS
<1>b. \A s \in SUBSET S : s \notin B => Good(s)
  <2> HIDE DEF Good
  <2> QED
    OBVIOUS
<1> HIDE DEF B
<1>3. PICK s \in B : \A t \in B : t \subseteq s => t = s
  BY <1>2, <1>a, LeastSubset
<1>c. s \in SUBSET S /\ IsFiniteSet(s) /\ ~Good(s)
  BY <1>3, <1>a, FS_Subset
<1>4. s # {}
  <2> SUFFICES ASSUME s = {} PROVE FALSE
    OBVIOUS
  <2>1. g[s] = 0
    BY <1>1, <1>c, AddsAt
  <2>2. Cardinality(s) = 0
    BY FS_EmptySet
  <2> QED
    BY <1>c, <2>1, <2>2
<1> DEFINE z == Some(s)
           u == s \ {z}
           n == Cardinality(s)
<1>5. z \in s
  BY <1>4, SomeElement
<1>6. g[s] = f[z] + g[u]
  BY <1>1, <1>4, <1>c, AddsAt
<1>7. u \in SUBSET S /\ u \notin B
  BY <1>3, <1>5, <1>c
<1>8. n \in Int /\ Cardinality(u) = n - 1
  <2>1. n \in Nat
    BY <1>c, FS_CardinalityType
  <2>2. Cardinality(u) = n - 1
    BY <1>5, <1>c, FS_RemoveElement
  <2> QED
    BY <2>1, <2>2
<1>9. g[u] \in (lo * (n - 1))..(hi * (n - 1))
  <2>1. Good(u)
    BY <1>7, <1>b
  <2> QED
    BY <1>8, <2>1
<1>10. f[z] \in lo..hi
  BY <1>5, <1>c
<1>11. ~(g[s] \in (lo * n)..(hi * n))
  BY <1>c
<1> HIDE DEF z, u, n, Good
<1>12. /\ lo * (n - 1) \in Int /\ lo * n \in Int /\ lo * n = lo * (n - 1) + lo
       /\ hi * (n - 1) \in Int /\ hi * n \in Int /\ hi * n = hi * (n - 1) + hi
  BY <1>8, TimesOneLess
<1> DEFINE a == lo * (n - 1)
           aa == lo * n
           b == hi * (n - 1)
           bb == hi * n
<1>13. /\ a \in Int /\ aa = a + lo /\ b \in Int /\ bb = b + hi /\ g[u] \in a..b
       /\ ~(g[s] \in aa..bb)
  BY <1>9, <1>11, <1>12
<1> HIDE DEF a, aa, b, bb
<1> QED
  BY <1>6, <1>10, <1>13

----------------------------------------------------------------------------
(* The other ways the models add up.                                       *)

(* A field of the rows of a table. *)
ColumnTotal(rows, x, D) == MapThenSumSet(LAMBDA i : rows[i][x], D)

LEMMA ColumnSum ==
    ASSUME NEW rows, NEW x, NEW D, IsFiniteSet(D)
    PROVE  ColumnTotal(rows, x, D) = SumFunctionOnSet([i \in D |-> rows[i][x]], D)
<1> DEFINE f == [i \in D |-> rows[i][x]]
           F(h, s) == IF s = {} THEN 0 ELSE f[Some(s)] + h[s \ {Some(s)}]
           R(h, s) == IF s = {} THEN 0 ELSE rows[Some(s)][x] + h[s \ {Some(s)}]
           h == CHOOSE h : h = [s \in SUBSET D |-> R(h, s)]
<1>1. ColumnTotal(rows, x, D) = h[D]
  BY DEF ColumnTotal, MapThenSumSet, MapThenFoldSet, Some
<1>2. ASSUME NEW g, NEW s \in SUBSET D
      PROVE  F(g, s) = R(g, s)
  <2>1. s # {} => Some(s) \in D
    BY SomeElement
  <2> QED
    BY <2>1
<1> HIDE DEF f, F, R
<1>3. ASSUME NEW g
      PROVE  [s \in SUBSET D |-> F(g, s)] = [s \in SUBSET D |-> R(g, s)]
  BY <1>2
<1>4. PICK g : Adds(g, f, D)
  BY AddsExists
<1>5. g = [s \in SUBSET D |-> R(g, s)]
  BY <1>3, <1>4 DEF Adds, F
<1>6. h = [s \in SUBSET D |-> R(h, s)]
  BY <1>5
<1> HIDE DEF h
<1>7. Adds(h, f, D)
  BY <1>3, <1>6 DEF Adds, F
<1>8. SumFunctionOnSet(f, D) = h[D]
  BY <1>7, SumIsAdded
<1> QED
  BY <1>1, <1>8 DEF f

(* One row more. *)
LEMMA SumOfAppended ==
    ASSUME NEW n \in Nat, NEW f, NEW h, \A i \in 1..n + 1 : h[i] \in Int,
           \A i \in 1..n : f[i] = h[i]
    PROVE  SumFunctionOnSet(h, 1..n + 1) = SumFunctionOnSet(f, 1..n) + h[n + 1]
<1>1. IsFiniteSet(1..n) /\ IsFiniteSet(1..n + 1)
  BY FS_Interval
<1>2. n + 1 \in 1..n + 1 /\ (1..n + 1) \ {n + 1} = 1..n
  OBVIOUS
<1>3. SumFunctionOnSet(h, 1..n + 1) = SumFunctionOnSet(h, 1..n) + h[n + 1]
  BY <1>1, <1>2, SumOfOneMore
<1>4. SumFunctionOnSet(f, 1..n) = SumFunctionOnSet(h, 1..n)
  BY <1>1, SumsAgree
<1> QED
  BY <1>3, <1>4

=============================================================================
