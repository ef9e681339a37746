---------------------------- MODULE DataInduction ----------------------------
(***************************************************************************)
(* Induction and recursion over data, for the other proofs: over naturals, *)
(* over what a recursive definition computes from 0 up, and over sums of   *)
(* finite sets.  What is to be proved of a number is given as the set of   *)
(* numbers that have it, and a step of a recursion as a function.          *)
(***************************************************************************)
EXTENDS Integers, FiniteSets, FiniteSetsExt, FiniteSetTheorems, WellFoundedInduction, TLAPS

\* A set that has 0, and the successor of each natural number it has, has all.
LEMMA NatsByInduction ==
    ASSUME NEW G, 0 \in G, \A n \in Nat : n \in G => n + 1 \in G
    PROVE  Nat \subseteq G
<1> SUFFICES ASSUME ~(Nat \subseteq G) PROVE FALSE
  OBVIOUS
<1> DEFINE T == Nat \ G
<1>1. T \subseteq Nat /\ T # {}
  OBVIOUS
<1>2. PICK x \in T : \A y \in T : ~(<<y, x>> \in OpToRel(<, Nat))
  BY <1>1, WFMin, NatLessThanWellFounded
<1>3. \A y \in T : ~(y < x)
  BY <1>1, <1>2 DEF OpToRel
<1>4. x \in Nat /\ x # 0 /\ x - 1 \in Nat
  OBVIOUS
<1>5. x - 1 \in G
  BY <1>3, <1>4
<1> QED
  BY <1>4, <1>5

\* The same up to a bound.
LEMMA UpToByInduction ==
    ASSUME NEW N \in Nat, NEW G, 0 \in G, \A n \in 0 .. N - 1 : n \in G => n + 1 \in G
    PROVE  0 .. N \subseteq G
<1> DEFINE H == G \cup {n \in Nat : n > N}
<1>1. 0 \in H /\ \A n \in Nat : n \in H => n + 1 \in H
  OBVIOUS
<1>2. Nat \subseteq H
  <2> HIDE DEF H
  <2> QED
    BY <1>1, NatsByInduction
<1> QED
  BY <1>2

\* A value for each number up to N, each from the one before it.
Recursively(N, base, step, f) ==
    f = [n \in 0 .. N |-> IF n = 0 THEN base ELSE step[n][f[n - 1]]]

\* There is one, of the type of the step.
LEMMA RecursionExists ==
    ASSUME NEW N \in Nat, NEW S, NEW base \in S, NEW step \in [1 .. N -> [S -> S]]
    PROVE  \E f \in [0 .. N -> S] : Recursively(N, base, step, f)
<1> DEFINE Good(n) == \E f \in [0 .. n -> S] :
              f[0] = base /\ \A i \in 1 .. n : f[i] = step[i][f[i - 1]]
           G == {n \in 0 .. N : Good(n)}
<1>1. 0 \in G
  <2> DEFINE f == [i \in 0 .. 0 |-> base]
  <2>1. f \in [0 .. 0 -> S] /\ f[0] = base /\ \A i \in 1 .. 0 : f[i] = step[i][f[i - 1]]
    OBVIOUS
  <2>2. 0 \in 0 .. N
    OBVIOUS
  <2> HIDE DEF f
  <2>3. Good(0)
    BY <2>1
  <2> QED
    BY <2>2, <2>3
<1>2. ASSUME NEW n \in 0 .. N - 1, n \in G PROVE n + 1 \in G
  <2>1. PICK f \in [0 .. n -> S] : f[0] = base /\ \A i \in 1 .. n : f[i] = step[i][f[i - 1]]
    BY <1>2
  <2> DEFINE g == [i \in 0 .. n + 1 |-> IF i = n + 1 THEN step[n + 1][f[n]] ELSE f[i]]
  <2>2. step[n + 1] \in [S -> S] /\ f[n] \in S
    OBVIOUS
  <2>3. step[n + 1][f[n]] \in S
    BY <2>2
  <2>4. \A i \in 0 .. n : f[i] \in S
    OBVIOUS
  <2>5. g \in [0 .. n + 1 -> S]
    BY <2>3, <2>4
  <2>6. g[0] = base
    BY <2>1
  <2>7. \A i \in 1 .. n + 1 : g[i] = step[i][g[i - 1]]
    <3> SUFFICES ASSUME NEW i \in 1 .. n + 1 PROVE g[i] = step[i][g[i - 1]]
      OBVIOUS
    <3>1. i - 1 \in 0 .. n /\ i - 1 # n + 1
      OBVIOUS
    <3>2. g[i - 1] = f[i - 1]
      BY <3>1
    <3>3. CASE i = n + 1
      BY <3>2, <3>3
    <3>4. CASE i # n + 1
      <4>1. i \in 1 .. n
        BY <3>4
      <4> QED
        BY <2>1, <3>2, <3>4, <4>1
    <3> QED
      BY <3>3, <3>4
  <2> HIDE DEF g
  <2>8. n + 1 \in 0 .. N
    OBVIOUS
  <2> QED
    BY <2>5, <2>6, <2>7, <2>8
<1>3. N \in G
  <2> HIDE DEF G
  <2>1. \A n \in 0 .. N - 1 : n \in G => n + 1 \in G
    BY <1>2
  <2>2. 0 .. N \subseteq G
    BY <1>1, <2>1, UpToByInduction
  <2> QED
    BY <2>2
<1>4. PICK f \in [0 .. N -> S] : f[0] = base /\ \A i \in 1 .. N : f[i] = step[i][f[i - 1]]
  BY <1>3
<1>5. \A n \in 0 .. N : f[n] = IF n = 0 THEN base ELSE step[n][f[n - 1]]
  BY <1>4
<1>6. f = [n \in 0 .. N |-> f[n]]
  OBVIOUS
<1>7. Recursively(N, base, step, f)
  BY <1>5, <1>6 DEF Recursively
<1> QED
  BY <1>7

----------------------------------------------------------------------------
(* Sums over finite sets *)

\* What MapThenSumSet computes on the way to S: the sum of each subset, with
\* an arbitrary element of it taken first.
Sums(S, g, h) ==
    h = [s \in SUBSET S |-> IF s = {} THEN 0
                            ELSE g[CHOOSE x \in s : TRUE] + h[s \ {CHOOSE x \in s : TRUE}]]

\* Its equations, for one subset.
LEMMA SumsAt ==
    ASSUME NEW S, NEW g, NEW h, Sums(S, g, h), NEW s \in SUBSET S
    PROVE  /\ s = {} => h[s] = 0
           /\ s # {} => \E x \in s : h[s] = g[x] + h[s \ {x}]
<1>1. h[s] = IF s = {} THEN 0 ELSE g[CHOOSE x \in s : TRUE] + h[s \ {CHOOSE x \in s : TRUE}]
  BY DEF Sums
<1>2. s # {} => (CHOOSE x \in s : TRUE) \in s
  OBVIOUS
<1> QED
  BY <1>1, <1>2

\* Subsets of a finite set, one element less.
LEMMA OneLess ==
    ASSUME NEW S, IsFiniteSet(S), NEW s \in SUBSET S
    PROVE  /\ IsFiniteSet(s) /\ Cardinality(s) \in Nat /\ (Cardinality(s) = 0 <=> s = {})
           /\ \A x \in s : Cardinality(s \ {x}) = Cardinality(s) - 1
  BY FS_Subset, FS_CardinalityType, FS_EmptySet, FS_RemoveElement

\* What holds of every subset if it holds of those with n elements or fewer,
\* for n = 0 and from each n to the next.
LEMMA SubsetsByInduction ==
    ASSUME NEW S, IsFiniteSet(S), NEW G,
           {} \in G,
           \A s \in SUBSET S : s # {} /\ (\A x \in s : s \ {x} \in G) => s \in G
    PROVE  SUBSET S \subseteq G
<1> DEFINE Good(n) == \A s \in SUBSET S : Cardinality(s) = n => s \in G
           H == {n \in Nat : Good(n)}
<1>1. 0 \in H
  BY OneLess
<1>2. \A n \in Nat : n \in H => n + 1 \in H
  <2> SUFFICES ASSUME NEW n \in Nat, Good(n), NEW s \in SUBSET S, Cardinality(s) = n + 1
               PROVE  s \in G
    OBVIOUS
  <2>1. s # {}
    BY OneLess
  <2>2. \A x \in s : Cardinality(s \ {x}) = n /\ s \ {x} \in SUBSET S
    BY OneLess
  <2> QED
    BY <2>1, <2>2
<1> HIDE DEF H
<1>3. Nat \subseteq H
  BY <1>1, <1>2, NatsByInduction
<1>4. \A s \in SUBSET S : Cardinality(s) \in Nat
  BY OneLess
<1> QED
  BY <1>3, <1>4 DEF H

\* Sums of naturals are naturals.
LEMMA SumsTyped ==
    ASSUME NEW S, IsFiniteSet(S), NEW g, \A x \in S : g[x] \in Nat, NEW h, Sums(S, g, h)
    PROVE  h \in [SUBSET S -> Nat]
<1> DEFINE G == {s \in SUBSET S : h[s] \in Nat}
<1>1. {} \in G
  BY SumsAt
<1>2. \A s \in SUBSET S : s # {} /\ (\A x \in s : s \ {x} \in G) => s \in G
  <2> SUFFICES ASSUME NEW s \in SUBSET S, s # {}, \A x \in s : h[s \ {x}] \in Nat
               PROVE  h[s] \in Nat
    OBVIOUS
  <2>1. PICK x \in s : h[s] = g[x] + h[s \ {x}]
    BY SumsAt
  <2> QED
    BY <2>1
<1> HIDE DEF G
<1>3. SUBSET S \subseteq G
  BY <1>1, <1>2, SubsetsByInduction
<1>4. \A s \in SUBSET S : h[s] \in Nat
  BY <1>3 DEF G
<1>5. h = [s \in SUBSET S |-> h[s]]
  BY DEF Sums
<1> QED
  BY <1>4, <1>5

\* They do not depend on the order: any element may be taken first.
LEMMA SumsCommute ==
    ASSUME NEW S, IsFiniteSet(S), NEW g, \A x \in S : g[x] \in Nat, NEW h, Sums(S, g, h),
           NEW s \in SUBSET S, NEW y \in s
    PROVE  h[s] = g[y] + h[s \ {y}]
<1> DEFINE G == {t \in SUBSET S : \A z \in t : h[t] = g[z] + h[t \ {z}]}
<1>0. h \in [SUBSET S -> Nat]
  BY SumsTyped
<1>1. {} \in G
  OBVIOUS
<1>2. \A t \in SUBSET S : t # {} /\ (\A x \in t : t \ {x} \in G) => t \in G
  <2> SUFFICES ASSUME NEW t \in SUBSET S, t # {}, \A x \in t : t \ {x} \in G, NEW z \in t
               PROVE  h[t] = g[z] + h[t \ {z}]
    OBVIOUS
  <2>1. PICK x \in t : h[t] = g[x] + h[t \ {x}]
    BY SumsAt
  <2>2. CASE x = z
    BY <2>1, <2>2
  <2>3. CASE x # z
    <3>1. h[t \ {x}] = g[z] + h[(t \ {x}) \ {z}]
      BY <2>3
    <3>2. h[t \ {z}] = g[x] + h[(t \ {z}) \ {x}]
      BY <2>3
    <3>3. (t \ {z}) \ {x} = (t \ {x}) \ {z}
      OBVIOUS
    <3>4. h[(t \ {x}) \ {z}] \in Nat /\ g[x] \in Nat /\ g[z] \in Nat
      BY <1>0
    <3> DEFINE rest == h[(t \ {x}) \ {z}]
               gx == g[x]
               gz == g[z]
               b == h[t \ {x}]
               d == h[t \ {z}]
    <3>5. b = gz + rest /\ d = gx + rest /\ h[t] = gx + b
      BY <2>1, <3>1, <3>2, <3>3
    <3>6. rest \in Nat /\ gx \in Nat /\ gz \in Nat
      BY <3>4
    <3> HIDE DEF rest, gx, gz, b, d
    <3>7. h[t] = gz + d
      BY <3>5, <3>6
    <3> QED
      BY <3>7 DEF gz, d
  <2> QED
    BY <2>2, <2>3
<1> HIDE DEF G
<1>3. SUBSET S \subseteq G
  BY <1>1, <1>2, SubsetsByInduction
<1> QED
  BY <1>3 DEF G

\* More and larger terms have a larger sum.
LEMMA SumsGrow ==
    ASSUME NEW S, NEW T, S \subseteq T, IsFiniteSet(T),
           NEW g, \A x \in S : g[x] \in Nat, NEW k, \A x \in T : k[x] \in Nat,
           \A x \in S : g[x] <= k[x],
           NEW h, Sums(S, g, h), NEW m, Sums(T, k, m)
    PROVE  h[S] <= m[T]
<1>c. \A s \in SUBSET S : \A y \in s : h[s] = g[y] + h[s \ {y}]
  <2>1. IsFiniteSet(S)
    BY FS_Subset
  <2>2. SUFFICES ASSUME NEW s \in SUBSET S, NEW y \in s
                 PROVE  h[s] = g[y] + h[s \ {y}]
    OBVIOUS
  <2> QED
    BY <2>1, SumsCommute
<1> DEFINE Good(t) == \A s \in SUBSET (t \cap S) : h[s] <= m[t]
           G == {t \in SUBSET T : Good(t)}
<1>0. IsFiniteSet(S) /\ h \in [SUBSET S -> Nat] /\ m \in [SUBSET T -> Nat]
  BY FS_Subset, SumsTyped
<1>1. {} \in G
  BY SumsAt
<1>2. \A t \in SUBSET T : t # {} /\ (\A x \in t : t \ {x} \in G) => t \in G
  <2> SUFFICES ASSUME NEW t \in SUBSET T, t # {}, \A x \in t : Good(t \ {x}),
                      NEW s \in SUBSET (t \cap S)
               PROVE  h[s] <= m[t]
    OBVIOUS
  <2>1. PICK y \in t : TRUE
    OBVIOUS
  <2>2. m[t] = k[y] + m[t \ {y}]
    BY SumsCommute
  <2>3. m[t \ {y}] \in Nat /\ k[y] \in Nat /\ s \in SUBSET S /\ h[s] \in Nat /\ h[s \ {y}] \in Nat
    BY <1>0
  <2>4. CASE y \in s
    <3>1. h[s] = g[y] + h[s \ {y}]
      BY <1>c, <2>3, <2>4
    <3>2. h[s \ {y}] <= m[t \ {y}]
      <4>1. s \ {y} \in SUBSET ((t \ {y}) \cap S)
        OBVIOUS
      <4> QED
        BY <4>1
    <3>3. g[y] \in Nat /\ g[y] <= k[y]
      BY <2>4
    <3> QED
      BY <2>2, <2>3, <3>1, <3>2, <3>3
  <2>5. CASE y \notin s
    <3>1. s \in SUBSET ((t \ {y}) \cap S)
      BY <2>5
    <3>2. h[s] <= m[t \ {y}]
      BY <3>1
    <3> QED
      BY <2>2, <2>3, <3>2
  <2> QED
    BY <2>4, <2>5
<1> HIDE DEF G
<1>3. SUBSET T \subseteq G
  BY <1>1, <1>2, SubsetsByInduction
<1>4. T \in G
  BY <1>3
<1> QED
  BY <1>4 DEF G

\* There are such sums: every finite set has its own.
LEMMA SumsExist ==
    ASSUME NEW S, IsFiniteSet(S), NEW g, \A x \in S : g[x] \in Nat
    PROVE  \E h \in [SUBSET S -> Nat] : Sums(S, g, h)
<1> DEFINE First(s) == CHOOSE x \in s : TRUE
           Upto(n) == {s \in SUBSET S : Cardinality(s) <= n}
           Holds(n, f) == \A s \in Upto(n) : f[s] = IF s = {} THEN 0 ELSE g[First(s)] + f[s \ {First(s)}]
           Good(n) == \E f \in [Upto(n) -> Nat] : Holds(n, f)
           G == {n \in Nat : Good(n)}
<1>1. 0 \in G
  <2> DEFINE f == [s \in Upto(0) |-> 0]
  <2>1. \A s \in Upto(0) : s = {}
    BY OneLess
  <2>2. f \in [Upto(0) -> Nat] /\ \A s \in Upto(0) : f[s] = 0
    OBVIOUS
  <2> HIDE DEF f, Upto, First
  <2>3. Holds(0, f)
    BY <2>1, <2>2
  <2> QED
    BY <2>2, <2>3
<1> HIDE DEF Good
<1>2. \A n \in Nat : n \in G => n + 1 \in G
  <2> SUFFICES ASSUME NEW n \in Nat, Good(n)
               PROVE  Good(n + 1)
    OBVIOUS
  <2>0. PICK f \in [Upto(n) -> Nat] : Holds(n, f)
    BY DEF Good
  <2> DEFINE k == [s \in Upto(n + 1) |-> IF s \in Upto(n) THEN f[s] ELSE g[First(s)] + f[s \ {First(s)}]]
  <2>1. \A s \in SUBSET S : s # {} => First(s) \in s
    OBVIOUS
  <2>2. ASSUME NEW s \in Upto(n + 1), s # {} PROVE s \ {First(s)} \in Upto(n) /\ First(s) \in S
    <3>1. First(s) \in s /\ s \in SUBSET S
      BY <2>1, <2>2
    <3> HIDE DEF First
    <3>2. Cardinality(s \ {First(s)}) = Cardinality(s) - 1 /\ Cardinality(s) \in Nat
      BY <3>1, OneLess
    <3> QED
      BY <2>2, <3>1, <3>2
  <2>3. {} \in Upto(n) /\ Upto(n) \subseteq Upto(n + 1)
    <3>1. Cardinality({}) = 0 /\ \A s \in SUBSET S : Cardinality(s) \in Nat
      BY FS_EmptySet, OneLess
    <3> QED
      BY <3>1
  <2> HIDE DEF Upto, First
  <2>4. ASSUME NEW s \in Upto(n + 1) PROVE k[s] \in Nat
    <3>1. CASE s \in Upto(n)
      BY <3>1
    <3>2. CASE s \notin Upto(n)
      <4>1. g[First(s)] \in Nat /\ f[s \ {First(s)}] \in Nat
        BY <2>2, <2>3, <3>2
      <4>2. k[s] = g[First(s)] + f[s \ {First(s)}]
        BY <3>2
      <4> HIDE DEF k
      <4> QED
        BY <4>1, <4>2
    <3> QED
      BY <3>1, <3>2
  <2>5. \A s \in Upto(n) : k[s] = f[s]
    BY <2>3
  <2>6. \A s \in Upto(n + 1) : s \notin Upto(n) => k[s] = g[First(s)] + f[s \ {First(s)}]
    OBVIOUS
  <2>7. k \in [Upto(n + 1) -> Nat]
    BY <2>4
  <2> HIDE DEF k
  <2>8. ASSUME NEW s \in Upto(n + 1)
        PROVE  k[s] = IF s = {} THEN 0 ELSE g[First(s)] + k[s \ {First(s)}]
    <3>1. s # {} => k[s \ {First(s)}] = f[s \ {First(s)}]
      BY <2>2, <2>5
    <3>2. CASE s \in Upto(n)
      BY <2>0, <2>5, <3>1, <3>2
    <3>3. CASE s \notin Upto(n)
      BY <2>3, <2>6, <3>1, <3>3
    <3> QED
      BY <3>2, <3>3
  <2> QED
    BY <2>7, <2>8 DEF Good
<1>3. Nat \subseteq G
  <2> HIDE DEF G
  <2> QED
    BY <1>1, <1>2, NatsByInduction
<1>4. Cardinality(S) \in Nat /\ Upto(Cardinality(S)) = SUBSET S
  <2>1. \A s \in SUBSET S : Cardinality(s) <= Cardinality(S)
    BY FS_Subset
  <2> QED
    BY <2>1, FS_CardinalityType
<1>5. PICK f \in [SUBSET S -> Nat] : \A s \in SUBSET S : f[s] = IF s = {} THEN 0 ELSE g[First(s)] + f[s \ {First(s)}]
  <2>1. Good(Cardinality(S))
    BY <1>3, <1>4
  <2> HIDE DEF Upto, First
  <2> QED
    BY <1>4, <2>1 DEF Good
<1>6. f = [s \in SUBSET S |-> f[s]]
  OBVIOUS
<1>7. Sums(S, g, f)
  BY <1>5, <1>6, Zenon DEF Sums
<1> QED
  BY <1>7
=============================================================================
