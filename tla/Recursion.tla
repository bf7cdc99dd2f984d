-------------------------------- MODULE Recursion --------------------------------
(***************************************************************************)
(* Induction and recursion over the natural numbers, with the statement a  *)
(* set and the step a function, so that the provers can apply them.        *)
(***************************************************************************)
EXTENDS Naturals, FiniteSets, FiniteSetTheorems, TLAPS

\* A set of natural numbers that has 0 and with every number the next one has them
\* all.  If n were missing, adding 1 would send the numbers of the set up to n, of
\* which there are finitely many, one by one to those of them that are not 0.
LEMMA Induction ==
  ASSUME NEW S, 0 \in S, \A n \in Nat : n \in S => n + 1 \in S
  PROVE  Nat \subseteq S
<1> SUFFICES ASSUME NEW n \in Nat, n \notin S PROVE FALSE
  OBVIOUS
<1> DEFINE X == S \cap (0..n)
           Y == X \ {0}
           next == [i \in X |-> i + 1]
<1>1. IsFiniteSet(0..n)
  BY FS_Interval
<1>2. IsFiniteSet(X)
  BY <1>1, FS_Subset
<1>3. 0 \in X
  OBVIOUS
<1>4. IsFiniteSet(Y) /\ Cardinality(Y) = Cardinality(X) - 1
  BY <1>2, <1>3, FS_RemoveElement
<1>5. next \in [X -> Y]
  <2> SUFFICES ASSUME NEW i \in X PROVE i + 1 \in Y
    OBVIOUS
  <2>1. i \in Nat /\ i # n /\ i <= n /\ i + 1 \in S
    OBVIOUS
  <2> QED BY <2>1
<1>6. \A i, j \in X : next[i] = next[j] => i = j
  OBVIOUS
<1>7. Cardinality(X) \in Nat
  BY <1>2, FS_CardinalityType
<1> HIDE DEF X, Y, next
<1>8. Cardinality(Y) < Cardinality(X)
  BY <1>4, <1>7
<1> QED BY <1>2, <1>4, <1>5, <1>6, <1>8, FS_PigeonHole

\* A step maps the value at a number to the value at the next one; f is what it gives.
IsStep(step, V) == step \in [Nat -> [V -> V]]
GivenBy(f, V, v0, step) ==
  f \in [Nat -> V] /\ f[0] = v0 /\ \A n \in Nat : f[n + 1] = step[n][f[n]]

\* A function of the natural numbers can be given by its first value and a step: those
\* that follow the step up to n exist by induction, and agree where two of them do.
LEMMA Recursion ==
  ASSUME NEW V, NEW v0 \in V, NEW step, IsStep(step, V)
  PROVE  \E f : GivenBy(f, V, v0, step)
<1>0. step \in [Nat -> [V -> V]]
  BY DEF IsStep
<1> DEFINE UpTo(g, n) == g[0] = v0 /\ \A k \in Nat : k < n => g[k + 1] = step[k][g[k]]
<1>1. \A n \in Nat : \E g \in [Nat -> V] : UpTo(g, n)
  <2> DEFINE S == {n \in Nat : \E g \in [Nat -> V] : UpTo(g, n)}
  <2>1. 0 \in S
    <3>1. [n \in Nat |-> v0] \in [Nat -> V] /\ UpTo([n \in Nat |-> v0], 0)
      OBVIOUS
    <3> QED BY <3>1
  <2>2. ASSUME NEW n \in Nat, n \in S PROVE n + 1 \in S
    <3>1. PICK g \in [Nat -> V] : UpTo(g, n)
      BY <2>2
    <3> DEFINE h == [g EXCEPT ![n + 1] = step[n][g[n]]]
    <3>2. h \in [Nat -> V]
      BY <1>0
    <3>3. h[n + 1] = step[n][g[n]] /\ \A k \in Nat : k # n + 1 => h[k] = g[k]
      OBVIOUS
    <3> HIDE DEF h
    <3>4. UpTo(h, n + 1)
      <4>1. h[0] = v0 /\ h[n] = g[n]
        BY <3>1, <3>3
      <4>2. ASSUME NEW k \in Nat, k < n + 1 PROVE h[k + 1] = step[k][h[k]]
        <5>1. CASE k = n
          BY <3>3, <4>1, <5>1
        <5>2. CASE k < n
          BY <3>1, <3>3, <5>2
        <5> QED BY <4>2, <5>1, <5>2
      <4> QED BY <4>1, <4>2
    <3> QED BY <3>2, <3>4
  <2> HIDE DEF S
  <2>3. Nat \subseteq S
    BY <2>1, <2>2, Induction
  <2> QED BY <2>3 DEF S
<1> DEFINE G == [n \in Nat |-> CHOOSE g \in [Nat -> V] : UpTo(g, n)]
<1>2. \A n \in Nat : G[n] \in [Nat -> V] /\ UpTo(G[n], n)
  BY <1>1
<1> HIDE DEF G
<1>3. ASSUME NEW m \in Nat, NEW n \in Nat, m <= n PROVE G[m][m] = G[n][m]
  <2> DEFINE S == {k \in Nat : k <= m => G[m][k] = G[n][k]}
  <2>1. 0 \in S
    BY <1>2
  <2>2. ASSUME NEW k \in Nat, k \in S PROVE k + 1 \in S
    <3> SUFFICES ASSUME k + 1 <= m PROVE G[m][k + 1] = G[n][k + 1]
      OBVIOUS
    <3>1. k < m /\ k < n /\ G[m][k] = G[n][k]
      BY <1>3, <2>2
    <3> QED BY <1>2, <3>1
  <2> HIDE DEF S
  <2>3. Nat \subseteq S
    BY <2>1, <2>2, Induction
  <2>4. m \in S /\ m <= m
    BY <2>3
  <2> QED BY <2>4 DEF S
<1> DEFINE f == [n \in Nat |-> G[n][n]]
<1>4. f \in [Nat -> V]
  BY <1>2
<1>5. f[0] = v0
  BY <1>2
<1>6. ASSUME NEW n \in Nat PROVE f[n + 1] = step[n][f[n]]
  <2>1. n + 1 \in Nat /\ n < n + 1 /\ n <= n + 1
    OBVIOUS
  <2>2. G[n + 1][n + 1] = step[n][G[n + 1][n]]
    BY <1>2, <2>1
  <2>3. G[n][n] = G[n + 1][n]
    BY <1>3, <2>1
  <2> QED BY <2>1, <2>2, <2>3
<1> QED BY <1>4, <1>5, <1>6 DEF GivenBy

\* What a recursive function over 0..N is, with its step as a function.
BoundedStep(step, N, V) == step \in [1..N -> [V -> V]]
Recursive(f, N, v0, step) == f = [n \in 0..N |-> IF n = 0 THEN v0 ELSE step[n][f[n - 1]]]

\* A function given by steps up to N.
LEMMA BoundedRecursion ==
  ASSUME NEW N \in Nat, NEW V, NEW v0 \in V, NEW step, BoundedStep(step, N, V)
  PROVE  \E f : Recursive(f, N, v0, step) /\ f \in [0..N -> V]
<1> DEFINE all == [n \in Nat |-> [v \in V |-> IF n + 1 \in 1..N THEN step[n + 1][v] ELSE v]]
<1>1. IsStep(all, V)
  <2>1. \A n \in Nat : \A v \in V : (IF n + 1 \in 1..N THEN step[n + 1][v] ELSE v) \in V
    BY DEF BoundedStep
  <2> QED BY <2>1 DEF IsStep
<1>2. \A n \in Nat, v \in V : n + 1 \in 1..N => all[n][v] = step[n + 1][v]
  OBVIOUS
<1> HIDE DEF all
<1>3. PICK g : GivenBy(g, V, v0, all)
  BY <1>1, Recursion
<1>4. g \in [Nat -> V] /\ g[0] = v0 /\ \A n \in Nat : g[n + 1] = all[n][g[n]]
  BY <1>3 DEF GivenBy
<1> DEFINE f == [n \in 0..N |-> g[n]]
<1>5. ASSUME NEW n \in 0..N PROVE f[n] = IF n = 0 THEN v0 ELSE step[n][f[n - 1]]
  <2>1. CASE n = 0
    BY <1>4, <2>1
  <2>2. CASE n # 0
    <3>1. n - 1 \in Nat /\ n - 1 \in 0..N /\ (n - 1) + 1 = n /\ n \in 1..N /\ n \in Nat
      BY <2>2
    <3>2. g[n - 1] \in V /\ g[n] = all[n - 1][g[n - 1]]
      BY <1>4, <3>1
    <3>3. all[n - 1][g[n - 1]] = step[n][g[n - 1]]
      BY <1>2, <3>1, <3>2
    <3>4. f[n] = g[n] /\ f[n - 1] = g[n - 1]
      BY <3>1
    <3> QED BY <2>2, <3>2, <3>3, <3>4
  <2> QED BY <2>1, <2>2
<1>6. f \in [0..N -> V]
  BY <1>4
<1>7. f = [n \in 0..N |-> f[n]]
  OBVIOUS
<1> HIDE DEF f
<1>8. Recursive(f, N, v0, step)
  BY <1>5, <1>7 DEF Recursive
<1> QED BY <1>6, <1>8

\* Induction over 0..N.
LEMMA BoundedInduction ==
  ASSUME NEW N \in Nat, NEW S, 0 \in S, \A n \in 0..N : n \in S /\ n < N => n + 1 \in S
  PROVE  0..N \subseteq S
<1> DEFINE T == {n \in Nat : n <= N => n \in S}
<1>1. 0 \in T /\ \A n \in Nat : n \in T => n + 1 \in T
  OBVIOUS
<1> HIDE DEF T
<1>2. Nat \subseteq T
  BY <1>1, Induction
<1> QED BY <1>2 DEF T

\* Every set of natural numbers but the empty one has a least element.
LEMMA HasLeast ==
  ASSUME NEW T \in SUBSET Nat, T # {}
  PROVE  \E n \in T : \A m \in T : n <= m
<1> SUFFICES ASSUME \A n \in T : \E m \in T : m < n PROVE FALSE
  OBVIOUS
<1> DEFINE S == {n \in Nat : \A m \in T : m > n}
<1>1. 0 \in S
  OBVIOUS
<1>2. ASSUME NEW n \in Nat, n \in S PROVE n + 1 \in S
  <2> SUFFICES ASSUME NEW m \in T, ~ (m > n + 1) PROVE FALSE
    OBVIOUS
  <2>1. m = n + 1
    BY <1>2
  <2> QED BY <1>2, <2>1
<1> HIDE DEF S
<1>3. Nat \subseteq S
  BY <1>1, <1>2, Induction
<1>4. PICK m \in T : TRUE
  OBVIOUS
<1>5. m \in S
  BY <1>3, <1>4
<1>6. m > m
  BY <1>5 DEF S
<1> QED BY <1>4, <1>6

\* A set of places in a sequence has a last one.
LEMMA HasGreatest ==
  ASSUME NEW N \in Nat, NEW T \in SUBSET (1..N), T # {}
  PROVE  \E n \in T : \A m \in T : n >= m
<1> DEFINE U == {N - i : i \in T}
<1>1. \A i \in T : i \in Nat /\ N - i \in Nat
  OBVIOUS
<1>2. U \in SUBSET Nat /\ U # {}
  BY <1>1
<1> HIDE DEF U
<1>3. PICK u \in U : \A v \in U : u <= v
  BY <1>2, HasLeast
<1>4. PICK n \in T : u = N - n
  BY DEF U
<1>5. ASSUME NEW m \in T PROVE n >= m
  <2>1. N - m \in U
    BY DEF U
  <2>2. N - n <= N - m
    BY <1>3, <1>4, <2>1
  <2> QED BY <1>1, <2>2
<1> QED BY <1>5

\* Of some places, one has the greatest value.
LEMMA HasMaximum ==
  ASSUME NEW N \in Nat, NEW f \in [1..N -> Nat], NEW R \in SUBSET (1..N), R # {}
  PROVE  \E i \in R : \A j \in R : f[j] <= f[i]
<1> DEFINE Upto(n) == {i \in R : i <= n}
           Top(X) == X # {} => \E i \in X : \A j \in X : f[j] <= f[i]
           S == {n \in 0..N : Top(Upto(n))}
<1>0. \A i \in R : i \in Nat /\ i >= 1 /\ i <= N /\ f[i] \in Nat
  OBVIOUS
<1>1. 0 \in S
  <2>1. \A i \in R : ~(i <= 0)
    BY <1>0
  <2>2. Upto(0) = {}
    BY <2>1
  <2>3. 0 \in 0..N
    OBVIOUS
  <2>4. Top(Upto(0))
    BY <2>2
  <2> QED BY <2>3, <2>4
<1>2. ASSUME NEW n \in 0..N, n \in S, n < N PROVE n + 1 \in S
  <2>1. n + 1 \in 0..N /\ n \in Nat
    BY <1>2
  <2>2. \A i \in R : i <= n + 1 <=> i <= n \/ i = n + 1
    BY <1>0, <2>1
  <2>3. Upto(n + 1) = IF n + 1 \in R THEN Upto(n) \cup {n + 1} ELSE Upto(n)
    BY <2>2
  <2>4. Top(Upto(n))
    BY <1>2
  <2>5. \A j \in Upto(n) : f[j] \in Nat
    BY <1>0
  <2> DEFINE X == Upto(n)
             k == n + 1
  <2>6. ASSUME k \in R PROVE Top(X \cup {k})
    <3>1. f[k] \in Nat
      BY <1>0, <2>6
    <3>2. \A j \in X : f[j] \in Nat
      BY <2>5
    <3> HIDE DEF X, k
    <3>3. CASE X = {}
      BY <3>1, <3>3
    <3>4. CASE X # {}
      <4>1. PICK i \in X : \A j \in X : f[j] <= f[i]
        BY <2>4, <3>4 DEF X
      <4>2. CASE f[k] <= f[i]
        BY <4>1, <4>2
      <4>3. CASE f[i] <= f[k]
        <5>1. \A j \in X \cup {k} : f[j] <= f[k]
          BY <3>1, <3>2, <4>1, <4>3
        <5> QED BY <5>1
      <4> QED BY <3>1, <3>2, <4>1, <4>2, <4>3
    <3> QED BY <3>3, <3>4
  <2>7. Top(Upto(n + 1))
    BY <2>3, <2>4, <2>6
  <2> QED BY <2>1, <2>7
<1>3. Top(Upto(N))
  <2> HIDE DEF S
  <2>1. 0..N \subseteq S
    BY <1>1, <1>2, BoundedInduction
  <2>2. N \in S
    BY <2>1
  <2> QED BY <2>2 DEF S
<1>4. Upto(N) = R
  BY <1>0
<1> QED BY <1>3, <1>4
================================================================================
