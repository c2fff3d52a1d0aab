-------------------------- MODULE RateLimitProofs --------------------------
(***************************************************************************)
(* Proofs about RateLimit.                                                 *)
(*                                                                         *)
(* The bound is a sum over the replicas of what each has let through.  The *)
(* first part proves what SumFunction computes for functions from a finite *)
(* set to numbers, the second what toMax computes; the third relates one   *)
(* counter to the history of its limiter, and the fourth does so in every  *)
(* state.                                                                  *)
(***************************************************************************)
EXTENDS RateLimit, FiniteSetTheorems, TLAPS

-----------------------------------------------------------------------------
(* Sums.                                                                   *)

\* Induction over the natural numbers, for a set: a number missing from it would be a
\* least one.
LEMMA Induction ==
    ASSUME NEW G, 0 \in G, \A n \in Nat : n \in G => n + 1 \in G
    PROVE  \A n \in Nat : n \in G
  <1> DEFINE R == OpToRel(<, Nat)
             T == Nat \ G
  <1> SUFFICES ASSUME T # {} PROVE FALSE
    OBVIOUS
  <1>1. IsWellFoundedOn(R, Nat)
    BY NatLessThanWellFounded
  <1>2. PICK n \in T : \A m \in T : ~ (<<m, n>> \in R)
    <2> HIDE DEF R
    <2>1. T \subseteq Nat
      OBVIOUS
    <2> HIDE DEF T
    <2> QED
      BY <1>1, <2>1, WFMin
  <1>3. n \in Nat /\ n # 0 /\ n - 1 \in Nat /\ n - 1 \in T
    OBVIOUS
  <1>4. <<n - 1, n>> \in R
    BY <1>3 DEF OpToRel
  <1> QED
    BY <1>2, <1>3, <1>4

\* The element that SumFunction takes next.
Pick(s) == CHOOSE x \in s : TRUE

\* The equation whose solution SumFunction chooses: g[s] is the sum of f over s.
Summed(g, f, S) ==
    g = [s \in SUBSET S |-> IF s = {} THEN 0 ELSE f[Pick(s)] + g[s \ {Pick(s)}]]

\* Of a set that is not empty an element is taken.
LEMMA PickIn ==
    ASSUME NEW s, s # {}
    PROVE  Pick(s) \in s
  BY DEF Pick

\* Taking an element leaves a subset with one element less.
LEMMA Smaller ==
    ASSUME NEW S, IsFiniteSet(S), NEW s \in SUBSET S, s # {}
    PROVE  /\ s \ {Pick(s)} \in SUBSET S
           /\ Cardinality(s) \in Nat
           /\ Cardinality(s \ {Pick(s)}) \in Nat
           /\ Cardinality(s) = Cardinality(s \ {Pick(s)}) + 1
  <1>1. IsFiniteSet(s) /\ Cardinality(s) \in Nat
    BY FS_Subset, FS_CardinalityType
  <1>2. /\ IsFiniteSet(s \ {Pick(s)})
        /\ Cardinality(s \ {Pick(s)}) = Cardinality(s) - 1
    BY <1>1, PickIn, FS_RemoveElement
  <1>3. Cardinality(s \ {Pick(s)}) \in Nat
    BY <1>2, FS_CardinalityType
  <1> QED
    BY <1>1, <1>2, <1>3

\* The equation has a solution: one for the subsets of at most n elements is extended to
\* those of n + 1.
LEMMA SumExists ==
    ASSUME NEW S, IsFiniteSet(S), NEW f \in [S -> Nat]
    PROVE  \E g \in [SUBSET S -> Nat] : Summed(g, f, S)
  <1> DEFINE Sub(n) == {s \in SUBSET S : Cardinality(s) <= n}
             Step(g, s) == IF s = {} THEN 0 ELSE f[Pick(s)] + g[s \ {Pick(s)}]
             G == {n \in Nat : \E g \in [Sub(n) -> Nat] : \A s \in Sub(n) : g[s] = Step(g, s)}
  <1>0. \A s \in SUBSET S : Cardinality(s) \in Nat
    BY FS_Subset, FS_CardinalityType
  <1>1. 0 \in G
    <2>1. \A s \in Sub(0) : s = {}
      <3> SUFFICES ASSUME NEW s \in SUBSET S, Cardinality(s) <= 0, s # {} PROVE FALSE
        OBVIOUS
      <3>1. /\ Cardinality(s) \in Nat /\ Cardinality(s \ {Pick(s)}) \in Nat
            /\ Cardinality(s) = Cardinality(s \ {Pick(s)}) + 1
        BY Smaller
      <3> QED
        BY <3>1
    <2> DEFINE g == [s \in Sub(0) |-> 0]
    <2>2. g \in [Sub(0) -> Nat] /\ \A s \in Sub(0) : g[s] = Step(g, s)
      BY <2>1
    <2> QED
      BY <2>2
  <1>2. ASSUME NEW n \in Nat, n \in G PROVE n + 1 \in G
    <2>1. PICK g \in [Sub(n) -> Nat] : \A s \in Sub(n) : g[s] = Step(g, s)
      BY <1>2
    <2> DEFINE h == [s \in Sub(n + 1) |-> Step(g, s)]
    <2>2. \A s \in Sub(n + 1) : s # {} => s \ {Pick(s)} \in Sub(n) /\ f[Pick(s)] \in Nat
      BY <1>0, Smaller, PickIn
    <2>3. h \in [Sub(n + 1) -> Nat]
      BY <2>2
    <2>4. Sub(n) \subseteq Sub(n + 1)
      BY <1>0
    <2>5. \A s \in Sub(n) : h[s] = g[s]
      BY <2>1, <2>4
    <2>6. \A s \in Sub(n + 1) : h[s] = Step(h, s)
      BY <2>2, <2>5
    <2>7. \E k \in [Sub(n + 1) -> Nat] : \A s \in Sub(n + 1) : k[s] = Step(k, s)
      <3> HIDE DEF h, Step, Sub
      <3> QED
        BY <2>3, <2>6
    <2> HIDE DEF Step, Sub, h
    <2> QED
      BY <2>7
  <1>3. Cardinality(S) \in G
    <2> HIDE DEF G
    <2>1. \A n \in Nat : n \in G
      BY <1>1, <1>2, Induction
    <2> QED
      BY <2>1, <1>0
  <1>4. Sub(Cardinality(S)) = SUBSET S
    BY FS_Subset
  <1>5. PICK g \in [SUBSET S -> Nat] : \A s \in SUBSET S : g[s] = Step(g, s)
    BY <1>3, <1>4
  <1>6. g = [s \in SUBSET S |-> Step(g, s)]
    BY <1>5
  <1> QED
    BY <1>5, <1>6 DEF Summed

\* A subset without elements is empty.
LEMMA Empty ==
    ASSUME NEW S, IsFiniteSet(S), NEW s \in SUBSET S
    PROVE  Cardinality(s) = 0 <=> s = {}
  BY FS_Subset, FS_EmptySet

\* g[s] is the sum of f over s, step by step.
Sums(g, f, S) ==
    /\ g \in [SUBSET S -> Nat]
    /\ g[{}] = 0
    /\ \A s \in SUBSET S : s # {} => g[s] = f[Pick(s)] + g[s \ {Pick(s)}]

\* SumFunction adds up one element after the other.
LEMMA SumSteps ==
    ASSUME NEW S, IsFiniteSet(S), NEW f \in [S -> Nat]
    PROVE  \E g : Sums(g, f, S) /\ SumFunction(f) = g[S]
  <1> DEFINE T == CHOOSE g : Summed(g, f, S)
  <1>1. SumFunction(f) = T[S]
    <2>1. SumFunctionOnSet(f, S) = T[S]
      BY DEF SumFunctionOnSet, FoldFunctionOnSet, MapThenFoldSet, Summed, Pick
    <2>2. DOMAIN f = S
      OBVIOUS
    <2> QED
      BY <2>1, <2>2 DEF SumFunction
  <1>2. PICK g \in [SUBSET S -> Nat] : Summed(g, f, S)
    BY SumExists
  <1>3. Summed(T, f, S)
    BY <1>2
  <1> HIDE DEF T
  <1>4. /\ T[{}] = 0
        /\ \A s \in SUBSET S : s # {} => T[s] = f[Pick(s)] + T[s \ {Pick(s)}]
    BY <1>3 DEF Summed
  <1>5. T = [s \in SUBSET S |-> T[s]]
    BY <1>3 DEF Summed
  <1> DEFINE G == {n \in Nat : \A s \in SUBSET S : Cardinality(s) = n => T[s] \in Nat}
  <1>6. 0 \in G
    <2>1. \A s \in SUBSET S : Cardinality(s) = 0 => s = {}
      BY Empty
    <2>2. T[{}] \in Nat
      BY <1>4
    <2>3. \A s \in SUBSET S : Cardinality(s) = 0 => T[s] \in Nat
      BY <2>1, <2>2, Zenon
    <2> QED
      BY <2>3
  <1>7. ASSUME NEW n \in Nat, n \in G PROVE n + 1 \in G
    <2> SUFFICES ASSUME NEW s \in SUBSET S, Cardinality(s) = n + 1 PROVE T[s] \in Nat
      OBVIOUS
    <2>1. CASE s = {}
      BY <1>4, <2>1
    <2>2. CASE s # {}
      <3>1. /\ s \ {Pick(s)} \in SUBSET S /\ Cardinality(s \ {Pick(s)}) \in Nat
            /\ Cardinality(s) = Cardinality(s \ {Pick(s)}) + 1
        BY <2>2, Smaller
      <3>2. T[s \ {Pick(s)}] \in Nat
        BY <1>7, <3>1
      <3>3. f[Pick(s)] \in Nat
        BY <2>2, PickIn
      <3>4. T[s] = f[Pick(s)] + T[s \ {Pick(s)}]
        BY <1>4, <2>2
      <3> QED
        BY <3>2, <3>3, <3>4
    <2> QED
      BY <2>1, <2>2
  <1>8. \A n \in Nat : n \in G
    <2> HIDE DEF G
    <2> QED
      BY <1>6, <1>7, Induction
  <1>9. \A s \in SUBSET S : T[s] \in Nat
    BY <1>8, FS_Subset, FS_CardinalityType
  <1>10. T \in [SUBSET S -> Nat]
    BY <1>5, <1>9
  <1> QED
    BY <1>1, <1>4, <1>10 DEF Sums

\* A sum of terms that are at most linear is at most linear.
LEMMA SumBound ==
    ASSUME NEW S, IsFiniteSet(S), NEW f \in [S -> Nat], NEW h \in [S -> Nat],
           NEW k \in Nat, NEW q \in Nat, \A x \in S : f[x] <= k + q * h[x]
    PROVE  /\ SumFunction(f) \in Nat /\ SumFunction(h) \in Nat
           /\ SumFunction(f) <= k * Cardinality(S) + q * SumFunction(h)
  <1>1. PICK F : Sums(F, f, S) /\ SumFunction(f) = F[S]
    BY SumSteps
  <1>2. PICK H : Sums(H, h, S) /\ SumFunction(h) = H[S]
    BY SumSteps
  <1> DEFINE G == {n \in Nat : \A s \in SUBSET S : Cardinality(s) = n => F[s] <= k * n + q * H[s]}
  <1>3. 0 \in G
    <2>1. \A s \in SUBSET S : Cardinality(s) = 0 => s = {}
      BY Empty, Zenon
    <2>2. F[{}] <= k * 0 + q * H[{}]
      BY <1>1, <1>2 DEF Sums
    <2>3. \A s \in SUBSET S : Cardinality(s) = 0 => F[s] <= k * 0 + q * H[s]
      BY <2>1, <2>2, Zenon
    <2> QED
      BY <2>3
  <1>4. ASSUME NEW n \in Nat, n \in G PROVE n + 1 \in G
    <2> SUFFICES ASSUME NEW s \in SUBSET S, Cardinality(s) = n + 1
                 PROVE  F[s] <= k * (n + 1) + q * H[s]
      OBVIOUS
    <2>1. s # {}
      <3>1. Cardinality(s) # 0
        OBVIOUS
      <3> QED
        BY <3>1, Empty, Zenon
    <2> DEFINE x == Pick(s)
               t == s \ {x}
    <2>2. x \in S /\ t \in SUBSET S /\ Cardinality(t) = n
      <3>1. /\ t \in SUBSET S /\ Cardinality(t) \in Nat
            /\ Cardinality(s) = Cardinality(t) + 1
        BY <2>1, Smaller
      <3>2. x \in S
        BY <2>1, PickIn
      <3> QED
        BY <3>1, <3>2
    <2>3. F[s] = f[x] + F[t] /\ H[s] = h[x] + H[t]
      BY <1>1, <1>2, <2>1 DEF Sums
    <2>4. F[t] <= k * n + q * H[t]
      BY <1>4, <2>2
    <2> HIDE DEF x, t
    <2>5. f[x] <= k + q * h[x]
      BY <2>2
    <2>6. f[x] \in Nat /\ F[t] \in Nat /\ h[x] \in Nat /\ H[t] \in Nat
      BY <1>1, <1>2, <2>2 DEF Sums
    <2> QED
      BY <2>3, <2>4, <2>5, <2>6
  <1>5. \A n \in Nat : n \in G
    <2> HIDE DEF G
    <2> QED
      BY <1>3, <1>4, Induction
  <1>6. Cardinality(S) \in Nat
    BY FS_CardinalityType
  <1> QED
    BY <1>1, <1>2, <1>5, <1>6 DEF Sums

-----------------------------------------------------------------------------
(* Limits.                                                                 *)

\* What \div and % compute.
LEMMA Division ==
    ASSUME NEW a \in Nat, NEW d \in Nat \ {0}
    PROVE  /\ a \div d \in Nat
           /\ d * (a \div d) <= a /\ a < d * (a \div d) + d
           /\ a % d = 0 => a = d * (a \div d)
  OBVIOUS

\* A positive factor keeps the order.
LEMMA Monotone ==
    ASSUME NEW a \in Int, NEW b \in Int, NEW d \in Nat \ {0}
    PROVE  a <= b <=> a * d <= b * d
  OBVIOUS

\* A positive factor keeps the strict order.
LEMMA Below ==
    ASSUME NEW a \in Int, NEW b \in Int, NEW d \in Nat \ {0}
    PROVE  a < b <=> a * d < b * d
  OBVIOUS

\* The quotient rounded up is the least number whose product reaches the dividend.
LEMMA CeilingIs ==
    ASSUME NEW m \in Nat, NEW d \in Nat \ {0}, NEW n, n = (m + d - 1) \div d
    PROVE  /\ n \in Nat /\ n <= m
           /\ m <= n * d /\ (n - 1) * d < m
           /\ m % d = 0 => n * d = m
  <1>0. m + d - 1 \in Nat
    OBVIOUS
  <1>1. /\ n \in Nat
        /\ d * n <= m + d - 1 /\ m + d - 1 < d * n + d
    BY <1>0, Division
  <1>2. n * d = d * n /\ (n - 1) * d = n * d - d
    BY <1>1
  <1>3. m <= n * d /\ (n - 1) * d < m
    BY <1>1, <1>2
  <1>4. n <= m
    <2>1. CASE m = 0
      <3>1. (n - 1) * d < 0 * d
        BY <1>3, <2>1
      <3>2. n - 1 < 0
        BY <1>1, <3>1, Below
      <3> QED
        BY <1>1, <2>1, <3>2
    <2>2. CASE m > 0
      <3>1. (n - 1) * d < m * d
        <4>1. m * 1 <= m * d
          OBVIOUS
        <4> QED
          BY <1>3, <1>1, <4>1
      <3>2. n - 1 < m
        BY <1>1, <3>1, Below
      <3> QED
        BY <1>1, <3>2
    <2> QED
      BY <2>1, <2>2
  <1>5. m % d = 0 => n * d = m
    <2> SUFFICES ASSUME m % d = 0 PROVE n * d = m
      OBVIOUS
    <2> DEFINE j == m \div d
    <2>1. j \in Nat /\ m = d * j
      BY Division
    <2> HIDE DEF j
    <2>2. j * d = m
      BY <2>1
    <2>3. n <= j
      <3>1. (n - 1) * d < j * d
        BY <1>3, <2>2
      <3>2. n - 1 < j
        BY <1>1, <2>1, <3>1, Below
      <3> QED
        BY <1>1, <2>1, <3>2
    <2>4. j <= n
      BY <1>1, <1>3, <2>1, <2>2, Monotone
    <2> QED
      BY <1>1, <2>1, <2>2, <2>3, <2>4
  <1> QED
    BY <1>1, <1>3, <1>4, <1>5

\* toMax gives the quota, or one more where the quota is exact.
LEMMA Limits ==
    ASSUME NEW l \in Limiters, NEW k \in ToMax(l)
    PROVE  /\ k \in Nat \ {0}
           /\ QuotaOrOneMore(l) \in Nat /\ k <= QuotaOrOneMore(l)
  <1> DEFINE m == Rpm[l].num * WindowSec
             d == Rpm[l].den * 60
             n == (m + d - 1) \div d
             c == IF n = 0 THEN 1 ELSE n
             Right(q) == /\ q * Rpm[l].den * 60 >= m
                         /\ \A i \in 1 .. q - 1 : i * Rpm[l].den * 60 < m
             Q == Quota(l)
  <1>1. m \in Nat /\ d \in Nat \ {0} /\ Rpm[l].den \in Nat
    BY RateLimitAssumption
  <1>2. \A i \in Nat : i * Rpm[l].den * 60 = i * d
    BY <1>1
  <1>3. /\ n \in Nat /\ n <= m
        /\ m <= n * d /\ (n - 1) * d < m
        /\ m % d = 0 => n * d = m
    <2> HIDE DEF m, d
    <2> QED
      BY <1>1, CeilingIs
  <1>4. k \in {c, c + 1} /\ (k = c + 1 => m % d = 0 /\ n # 0)
    BY <1>3 DEF ToMax, Ceilings
  <1> HIDE DEF m, d, n
  <1>a. n \in Nat /\ n <= m /\ c \in Nat /\ c >= 1
    BY <1>3
  <1>5. c \in 1 .. m + 1 /\ Right(c)
    <2>1. c \in 1 .. m + 1
      BY <1>1, <1>a
    <2>2. c * d >= m
      BY <1>1, <1>3
    <2>3. ASSUME NEW i \in 1 .. c - 1 PROVE i * d < m
      <3>1. i * d <= (n - 1) * d
        BY <1>1, <1>3, Monotone
      <3> QED
        BY <1>1, <1>3, <3>1
    <2> QED
      BY <1>2, <2>1, <2>2, <2>3
  <1>6. Q \in 1 .. m + 1 /\ Right(Q)
    BY <1>5 DEF Quota, m
  <1> HIDE DEF Q
  <1>7. Q = c
    <2>1. ~ c < Q
      BY <1>1, <1>2, <1>5, <1>6
    <2>2. ~ Q < c
      BY <1>1, <1>2, <1>5, <1>6
    <2> QED
      BY <1>1, <1>5, <1>6, <2>1, <2>2
  <1>8. k = c + 1 => Q * Rpm[l].den * 60 = m
    BY <1>1, <1>2, <1>3, <1>4, <1>7
  <1>9. QuotaOrOneMore(l) = Q + (IF Q * Rpm[l].den * 60 = m THEN 1 ELSE 0)
    BY DEF QuotaOrOneMore, Q, m
  <1>10. c \in Nat /\ c >= 1 /\ Q \in Nat
    BY <1>a, <1>7
  <1> HIDE DEF c
  <1>11. k \in {c, c + 1}
    BY <1>4
  <1>12. k = c + 1 => QuotaOrOneMore(l) = Q + 1
    BY <1>8, <1>9
  <1>13. QuotaOrOneMore(l) \in {Q, Q + 1}
    BY <1>9, <1>10
  <1> QED
    BY <1>7, <1>10, <1>11, <1>12, <1>13

-----------------------------------------------------------------------------
(* One counter and its history.                                            *)

\* A counter of the store.
Counter == [hits : Nat, left : 0 .. Window]

\* Beyond the limit a count is kept as the limit plus one.
Capped(c, q) == [c EXCEPT !.hits = IF @ > q THEN q + 1 ELSE @]

\* The lesser of two numbers.
Least(n, q) == IF n < q THEN n ELSE q

\* What the counter c allows the passed requests h to be, by age: those of this window
\* are at least as young as the window, and of the one before the first is too old.
Bounded(c, h, q, b) ==
    /\ c.left > 0 => c.hits > 0
    /\ \A a \in 0 .. Window - 1 :
          IF c.left = 0 THEN h[a] < b + q
          ELSE h[a] < b + Least(c.hits, q) + (IF a < Window - c.left THEN 0 ELSE q)

\* The history of a limiter at one place.
History == [0 .. Window - 1 -> Nat]

\* A counted request is in a window, the present one or a new one.
LEMMA CountedType ==
    ASSUME NEW c \in Counter, NEW q \in Nat \ {0}
    PROVE  /\ Counted(c) \in Counter /\ Capped(Counted(c), q) \in Counter
           /\ Counted(c).left > 0 /\ Counted(c).hits > 0
           /\ Capped(Counted(c), q).left = Counted(c).left
           /\ Capped(Counted(c), q).hits =
                 IF Counted(c).hits > q THEN q + 1 ELSE Counted(c).hits
           /\ c.left = 0 => Counted(c).left = Window /\ Counted(c).hits = 1
           /\ c.left # 0 => Counted(c).left = c.left /\ Counted(c).hits = c.hits + 1
  <1> USE RateLimitAssumption
  <1>1. Counted(c) \in Counter /\ Counted(c).left > 0 /\ Counted(c).hits > 0
        /\ (c.left = 0 => Counted(c).left = Window /\ Counted(c).hits = 1)
        /\ (c.left # 0 => Counted(c).left = c.left /\ Counted(c).hits = c.hits + 1)
    BY DEF Counted, Counter
  <1> QED
    BY <1>1 DEF Capped, Counter

\* Counting without letting through keeps the bound.
LEMMA RefusedBounded ==
    ASSUME NEW c \in Counter, NEW h \in History, NEW q \in Nat \ {0}, NEW b \in Nat,
           Bounded(c, h, q, b)
    PROVE  Bounded(Capped(Counted(c), q), h, q, b)
  <1> DEFINE d == Capped(Counted(c), q)
  <1>1. /\ d \in Counter /\ d.left > 0 /\ d.hits > 0
        /\ c.left = 0 => d.left = Window
        /\ c.left # 0 => d.left = c.left /\ Least(c.hits, q) <= Least(d.hits, q)
        /\ Least(d.hits, q) \in Nat \ {0}
    <2> DEFINE e == Counted(c)
    <2>1. /\ e \in Counter /\ d \in Counter /\ e.left > 0 /\ e.hits > 0
          /\ d.left = e.left /\ d.hits = IF e.hits > q THEN q + 1 ELSE e.hits
          /\ c.left = 0 => e.left = Window /\ e.hits = 1
          /\ c.left # 0 => e.left = c.left /\ e.hits = c.hits + 1
      BY CountedType
    <2>2. e.hits \in Nat /\ c.hits \in Nat /\ d.hits \in Nat
      BY <2>1 DEF Counter
    <2> HIDE DEF d, e
    <2> QED
      BY <2>1, <2>2 DEF Least
  <1> HIDE DEF d
  <1>2. ASSUME NEW a \in 0 .. Window - 1
        PROVE  h[a] < b + Least(d.hits, q) + (IF a < Window - d.left THEN 0 ELSE q)
    <2>1. h[a] \in Nat /\ Window \in Nat /\ c.left \in Nat /\ c.hits \in Nat
      BY RateLimitAssumption DEF Counter, History
    <2>2. Least(c.hits, q) \in Nat
      BY <2>1 DEF Least
    <2>3. IF c.left = 0 THEN h[a] < b + q
          ELSE h[a] < b + Least(c.hits, q) + (IF a < Window - c.left THEN 0 ELSE q)
      BY DEF Bounded
    <2>4. CASE c.left = 0
      BY <1>1, <2>1, <2>3, <2>4
    <2>5. CASE c.left # 0
      BY <1>1, <2>1, <2>2, <2>3, <2>5
    <2> QED
      BY <2>4, <2>5
  <1>3. Bounded(d, h, q, b)
    BY <1>1, <1>2 DEF Bounded, Counter
  <1> QED
    BY <1>3 DEF d

\* Letting through what is within the limit keeps the bound.
LEMMA PassedBounded ==
    ASSUME NEW c \in Counter, NEW h \in History, NEW q \in Nat \ {0}, NEW b \in Nat,
           Bounded(c, h, q, b), Counted(c).hits <= q
    PROVE  Bounded(Capped(Counted(c), q), [a \in 0 .. Window - 1 |-> h[a] + 1], q, b)
  <1> DEFINE d == Capped(Counted(c), q)
             g == [a \in 0 .. Window - 1 |-> h[a] + 1]
  <1>1. /\ d \in Counter /\ d.left > 0 /\ d.hits > 0
        /\ c.left = 0 => d.left = Window /\ Least(d.hits, q) = 1
        /\ c.left # 0 => d.left = c.left /\ Least(d.hits, q) = Least(c.hits, q) + 1
    <2> DEFINE e == Counted(c)
    <2>1. /\ e \in Counter /\ d \in Counter /\ e.left > 0 /\ e.hits > 0
          /\ d.left = e.left /\ d.hits = IF e.hits > q THEN q + 1 ELSE e.hits
          /\ c.left = 0 => e.left = Window /\ e.hits = 1
          /\ c.left # 0 => e.left = c.left /\ e.hits = c.hits + 1
      BY CountedType
    <2>2. e.hits \in Nat /\ c.hits \in Nat /\ d.hits \in Nat
      BY <2>1 DEF Counter
    <2>3. e.hits <= q
      OBVIOUS
    <2> HIDE DEF d, e
    <2> QED
      BY <2>1, <2>2, <2>3 DEF Least
  <1> HIDE DEF d
  <1>2. ASSUME NEW a \in 0 .. Window - 1
        PROVE  g[a] < b + Least(d.hits, q) + (IF a < Window - d.left THEN 0 ELSE q)
    <2>1. g[a] = h[a] + 1 /\ h[a] \in Nat
      BY DEF History
    <2> HIDE DEF g
    <2> QED
      BY <1>1, <2>1, RateLimitAssumption DEF Bounded, Least, Counter
  <1>3. Bounded(d, g, q, b)
    BY <1>1, <1>2 DEF Bounded, Counter
  <1> QED
    BY <1>3 DEF d

\* Time keeps the bound: a window that runs out takes its first request out of the
\* history.
LEMMA OlderBounded ==
    ASSUME NEW c \in Counter, NEW h \in History, NEW q \in Nat \ {0}, NEW b \in Nat,
           Bounded(c, h, q, b)
    PROVE  /\ Older(c) \in Counter
           /\ Bounded(Older(c), [a \in 0 .. Window - 1 |-> IF a = 0 THEN 0 ELSE h[a - 1]], q, b)
  <1> DEFINE d == Older(c)
             g == [a \in 0 .. Window - 1 |-> IF a = 0 THEN 0 ELSE h[a - 1]]
  <1>1. /\ d \in Counter
        /\ c.left <= 1 => d.left = 0
        /\ c.left > 1 => d.left = c.left - 1 /\ d.left > 0 /\ d.hits = c.hits /\ c.hits > 0
    BY RateLimitAssumption DEF Older, NoWindow, Counter, Bounded
  <1> HIDE DEF d
  <1>2. ASSUME NEW a \in 0 .. Window - 1
        PROVE  IF d.left = 0 THEN g[a] < b + q
               ELSE g[a] < b + Least(d.hits, q) + (IF a < Window - d.left THEN 0 ELSE q)
    <2>1. g[a] = IF a = 0 THEN 0 ELSE h[a - 1]
      OBVIOUS
    <2>2. a # 0 => a - 1 \in 0 .. Window - 1 /\ h[a - 1] \in Nat
      BY RateLimitAssumption DEF History
    <2> HIDE DEF g
    <2>3. CASE a = 0
      BY <1>1, <2>1, <2>3, RateLimitAssumption DEF Least, Counter
    <2>4. CASE a # 0
      BY <1>1, <2>1, <2>2, <2>4, RateLimitAssumption DEF Bounded, Least, Counter
    <2> QED
      BY <2>3, <2>4
  <1>3. Bounded(d, g, q, b)
    BY <1>1, <1>2 DEF Bounded, Counter
  <1> QED
    BY <1>1, <1>3 DEF d

\* A lost counter costs a quota.
LEMMA LostBounded ==
    ASSUME NEW c \in Counter, NEW h \in History, NEW q \in Nat \ {0}, NEW b \in Nat,
           Bounded(c, h, q, b)
    PROVE  NoWindow \in Counter /\ Bounded(NoWindow, h, q, b + q)
  <1>1. ASSUME NEW a \in 0 .. Window - 1 PROVE h[a] < b + q + q
    <2>1. h[a] \in Nat /\ c.left \in Nat /\ c.hits \in Nat
      BY RateLimitAssumption DEF Counter, History
    <2>2. Least(c.hits, q) \in Nat /\ Least(c.hits, q) <= q
      BY <2>1 DEF Least
    <2> QED
      BY <2>1, <2>2 DEF Bounded
  <1> QED
    BY <1>1, RateLimitAssumption DEF Bounded, NoWindow, Counter

-----------------------------------------------------------------------------
(* The invariant.                                                          *)

\* How often the counters of a place were lost.
Losses(p) == IF shared THEN 0 ELSE restarts[p]

\* The limits are those of toMax.
MaxInv == \A l \in Limiters : max[l] \in ToMax(l)

\* A request is in front of one of its limiters.
OnChain(q) == q # Idle => q \in Request /\ q.at \in 1 .. Len(Chain(q.kind))

\* All requests are.
ChainInv == \A r \in Requests : OnChain(reqs[r])

\* Every counter accounts for the history of its limiter at its place.
WindowInv ==
    \A p \in Places, l \in Limiters :
        Bounded(counters[p][l], passed[p][l], max[l], max[l] * Losses(p))

\* The inductive invariant.
IndInv == TypeOK /\ MaxInv /\ ChainInv /\ WindowInv

\* A chain has one to three limiters.
LEMMA ChainType ==
    ASSUME NEW k \in Kinds
    PROVE  /\ Len(Chain(k)) \in 1 .. 3
           /\ \A i \in 1 .. Len(Chain(k)) : Chain(k)[i] \in Limiters
  BY RateLimitAssumption DEF Chain, Limiters

\* Limits are positive, and at most the quota or one more.
LEMMA MaxType ==
    ASSUME MaxInv, NEW l \in Limiters
    PROVE  max[l] \in Nat \ {0} /\ max[l] <= QuotaOrOneMore(l) /\ QuotaOrOneMore(l) \in Nat
  BY Limits DEF MaxInv

\* What a limiter finds when it serves a request.
LEMMA Busy ==
    ASSUME IndInv, NEW r \in Requests, reqs[r] # Idle
    PROVE  /\ reqs[r] \in Request
           /\ Place(r) \in Places /\ LimiterOf(r) \in Limiters
           /\ CounterOf(r) \in Counter /\ passed[Place(r)][LimiterOf(r)] \in History
           /\ max[LimiterOf(r)] \in Nat \ {0}
           /\ max[LimiterOf(r)] * Losses(Place(r)) \in Nat
           /\ Bounded(CounterOf(r), passed[Place(r)][LimiterOf(r)], max[LimiterOf(r)],
                      max[LimiterOf(r)] * Losses(Place(r)))
  <1>1. reqs[r] \in Request /\ reqs[r].at \in 1 .. Len(Chain(reqs[r].kind))
    BY DEF IndInv, ChainInv, OnChain
  <1>2. Place(r) \in Places
    BY <1>1 DEF Place, Places, Request
  <1>3. LimiterOf(r) \in Limiters
    BY <1>1, ChainType DEF LimiterOf, Request
  <1>4. CounterOf(r) \in Counter /\ passed[Place(r)][LimiterOf(r)] \in History
    BY <1>2, <1>3 DEF IndInv, TypeOK, CounterOf, Counter, History
  <1>5. max[LimiterOf(r)] \in Nat \ {0}
    BY <1>3, MaxType DEF IndInv
  <1>6. Losses(Place(r)) \in Nat
    BY <1>1 DEF IndInv, TypeOK, Losses, Place, Request
  <1>7. max[LimiterOf(r)] * Losses(Place(r)) \in Nat
    BY <1>5, <1>6
  <1> QED
    BY <1>1, <1>2, <1>3, <1>4, <1>5, <1>7 DEF IndInv, WindowInv, CounterOf

\* One counter and its history are replaced by others within the bound.
LEMMA Slot ==
    ASSUME TypeOK, WindowInv, UNCHANGED <<shared, max, restarts>>,
           NEW p \in Places, NEW l \in Limiters, NEW c \in Counter, NEW h \in History,
           counters' = [counters EXCEPT ![p][l] = c],
           passed' = [passed EXCEPT ![p][l] = h],
           Bounded(c, h, max[l], max[l] * Losses(p))
    PROVE  /\ counters' \in [Places -> [Limiters -> Counter]]
           /\ passed' \in [Places -> [Limiters -> History]]
           /\ WindowInv'
  <1>1. /\ counters \in [Places -> [Limiters -> Counter]]
        /\ passed \in [Places -> [Limiters -> History]]
    BY DEF TypeOK, Counter, History
  <1>2. counters' \in [Places -> [Limiters -> Counter]]
    BY <1>1
  <1>3. passed' \in [Places -> [Limiters -> History]]
    BY <1>1
  <1>4. Places' = Places /\ \A i \in Places : Losses(i)' = Losses(i)
    BY DEF Places, Losses
  <1>5. ASSUME NEW i \in Places, NEW j \in Limiters
        PROVE  Bounded(counters[i][j], passed[i][j], max[j], max[j] * Losses(i))'
    <2>1. CASE i = p /\ j = l
      <3>1. counters'[i][j] = c /\ passed'[i][j] = h
        BY <1>1, <2>1
      <3> QED
        BY <1>4, <2>1, <3>1 DEF Bounded
    <2>2. CASE ~ (i = p /\ j = l)
      <3>1. counters'[i][j] = counters[i][j] /\ passed'[i][j] = passed[i][j]
        BY <1>1, <2>2
      <3>2. Bounded(counters[i][j], passed[i][j], max[j], max[j] * Losses(i))
        BY DEF WindowInv
      <3> QED
        BY <1>4, <3>1, <3>2 DEF Bounded
    <2> QED
      BY <2>1, <2>2
  <1> QED
    BY <1>2, <1>3, <1>4, <1>5 DEF WindowInv

\* The invariant holds at the start.
LEMMA InitInv == Init => IndInv
  <1> SUFFICES ASSUME Init PROVE IndInv
    OBVIOUS
  <1>1. MaxInv
    BY DEF Init, MaxInv
  <1>2. \A l \in Limiters : max[l] \in Nat \ {0}
    BY <1>1, MaxType
  <1>3. max \in [Limiters -> Nat \ {0}]
    BY <1>2 DEF Init
  <1>4. TypeOK
    BY <1>3, RateLimitAssumption DEF Init, TypeOK, NoWindow
  <1>5. ChainInv
    BY DEF Init, ChainInv, OnChain
  <1>6. WindowInv
    <2> SUFFICES ASSUME NEW p \in Places, NEW l \in Limiters
                 PROVE  Bounded(counters[p][l], passed[p][l], max[l], max[l] * Losses(p))
      BY DEF WindowInv
    <2>1. max[l] * Losses(p) = 0
      <3>1. Losses(p) = 0
        BY DEF Init, Losses, Places
      <3> QED
        BY <1>2, <3>1
    <2>2. counters[p][l] = NoWindow /\ \A a \in 0 .. Window - 1 : passed[p][l][a] = 0
      BY DEF Init
    <2> QED
      BY <1>2, <2>1, <2>2 DEF Bounded, NoWindow
  <1> QED
    BY <1>1, <1>4, <1>5, <1>6 DEF IndInv

\* A step that leaves counters, history and losses alone.
LEMMA Elsewhere ==
    ASSUME IndInv, UNCHANGED <<shared, max, counters, passed, restarts>>,
           reqs' \in [Requests -> Request \cup {Idle}], ChainInv',
           answer' \in {"none", "handled", "limited", "error"}
    PROVE  IndInv'
  <1>1. TypeOK'
    BY DEF IndInv, TypeOK, Places
  <1>2. MaxInv' /\ WindowInv'
    BY DEF IndInv, MaxInv, WindowInv, Bounded, Losses, Places
  <1> QED
    BY <1>1, <1>2 DEF IndInv

\* The requests after one of them was set to q.
LEMMA Moved ==
    ASSUME IndInv, NEW r \in Requests, NEW q \in Request \cup {Idle}, OnChain(q),
           reqs' = [reqs EXCEPT ![r] = q]
    PROVE  reqs' \in [Requests -> Request \cup {Idle}] /\ ChainInv'
  BY DEF IndInv, TypeOK, ChainInv

\* A request arrives in front of the first limiter.
LEMMA ArriveInv ==
    ASSUME IndInv, NEW r \in Requests, NEW kind \in Kinds, NEW p \in Replicas,
           Arrive(r, kind, p)
    PROVE  IndInv'
  <1> DEFINE q == [kind |-> kind, replica |-> p, at |-> 1]
  <1>1. q \in Request /\ OnChain(q)
    BY ChainType DEF Request, OnChain
  <1>2. reqs' \in [Requests -> Request \cup {Idle}] /\ ChainInv'
    BY <1>1, Moved DEF Arrive
  <1> QED
    BY <1>2, Elsewhere DEF Arrive, IndInv, TypeOK

\* A request ends.
LEMMA FinishInv ==
    ASSUME IndInv, NEW r \in Requests, NEW how \in {"handled", "limited", "error"}, Finish(r, how)
    PROVE  /\ reqs' \in [Requests -> Request \cup {Idle}] /\ ChainInv'
           /\ answer' \in {"none", "handled", "limited", "error"}
  BY Moved DEF Finish, OnChain

\* What a step of a limiter has to keep, whoever is served.
LEMMA Served ==
    ASSUME IndInv, UNCHANGED <<shared, max, restarts>>,
           NEW p \in Places, NEW l \in Limiters, NEW c \in Counter, NEW h \in History,
           counters' = [counters EXCEPT ![p][l] = c],
           passed' = [passed EXCEPT ![p][l] = h],
           Bounded(c, h, max[l], max[l] * Losses(p)),
           reqs' \in [Requests -> Request \cup {Idle}], ChainInv',
           answer' \in {"none", "handled", "limited", "error"}
    PROVE  IndInv'
  <1>1. /\ counters' \in [Places -> [Limiters -> Counter]]
        /\ passed' \in [Places -> [Limiters -> History]]
        /\ WindowInv'
    BY Slot DEF IndInv
  <1>2. TypeOK'
    BY <1>1 DEF IndInv, TypeOK, Places, Counter, History
  <1>3. MaxInv'
    BY DEF IndInv, MaxInv
  <1> QED
    BY <1>1, <1>2, <1>3 DEF IndInv

\* A history that stays is replaced by itself.
LEMMA SameHistory ==
    ASSUME TypeOK, NEW p \in Places, NEW l \in Limiters, UNCHANGED passed
    PROVE  passed' = [passed EXCEPT ![p][l] = passed[p][l]]
  BY DEF TypeOK

\* Pass keeps the invariant.
LEMMA PassInv ==
    ASSUME IndInv, NEW r \in Requests, Pass(r)
    PROVE  IndInv'
  <1> DEFINE l == LimiterOf(r)
             p == Place(r)
             c == CounterOf(r)
             d == Capped(Counted(c), max[l])
             g == [a \in 0 .. Window - 1 |-> passed[p][l][a] + 1]
  <1>1. /\ reqs[r] \in Request /\ p \in Places /\ l \in Limiters
        /\ c \in Counter /\ passed[p][l] \in History
        /\ max[l] \in Nat \ {0} /\ max[l] * Losses(p) \in Nat
        /\ Bounded(c, passed[p][l], max[l], max[l] * Losses(p))
    BY Busy DEF Pass
  <1>2. Counted(c).hits <= max[l]
    <2>1. Counted(c).hits \in Nat
      BY <1>1, CountedType DEF Counter
    <2> QED
      BY <1>1, <2>1 DEF Pass, Over
  <1>3. d \in Counter /\ g \in History /\ Bounded(d, g, max[l], max[l] * Losses(p))
    <2>1. d \in Counter
      BY <1>1, CountedType
    <2>2. g \in History
      <3> DEFINE h == passed[p][l]
      <3>1. h \in [0 .. Window - 1 -> Nat]
        BY <1>1 DEF History
      <3> HIDE DEF h
      <3>2. [a \in 0 .. Window - 1 |-> h[a] + 1] \in [0 .. Window - 1 -> Nat]
        BY <3>1
      <3> QED
        BY <3>2 DEF History, h
    <2> QED
      BY <1>1, <1>2, <2>1, <2>2, PassedBounded
  <1>4. counters' = [counters EXCEPT ![p][l] = d]
    BY DEF Pass, Hit, Capped
  <1>5. passed' = [passed EXCEPT ![p][l] = g]
    BY DEF Pass, LetThrough
  <1>6. /\ reqs' \in [Requests -> Request \cup {Idle}] /\ ChainInv'
        /\ answer' \in {"none", "handled", "limited", "error"}
    <2>1. CASE reqs[r].at = Len(Chain(reqs[r].kind))
      <3>1. Finish(r, "handled")
        BY <2>1 DEF Pass, LetThrough
      <3> QED
        BY <3>1, FinishInv
    <2>2. CASE reqs[r].at # Len(Chain(reqs[r].kind))
      <3> DEFINE q == [reqs[r] EXCEPT !.at = @ + 1]
      <3>1. reqs' = [reqs EXCEPT ![r] = q] /\ answer' = answer
        BY <2>2 DEF Pass, LetThrough
      <3>2. q \in Request /\ OnChain(q)
        <4>1. reqs[r].at \in 1 .. Len(Chain(reqs[r].kind)) /\ Len(Chain(reqs[r].kind)) \in 1 .. 3
          BY <1>1, ChainType DEF IndInv, ChainInv, OnChain, Pass, Request
        <4>2. q.kind = reqs[r].kind /\ q.at = reqs[r].at + 1
          BY <1>1 DEF Request
        <4>3. q.at \in 1 .. Len(Chain(q.kind)) /\ q.at \in 1 .. 3
          <5> DEFINE n == Len(Chain(reqs[r].kind))
                     i == reqs[r].at
          <5>1. i \in 1 .. n /\ n \in 1 .. 3 /\ i # n
            BY <2>2, <4>1
          <5> HIDE DEF n, i
          <5>2. i + 1 \in 1 .. n /\ i + 1 \in 1 .. 3
            BY <5>1
          <5> QED
            BY <4>2, <5>2 DEF n, i
        <4>4. q \in Request
          BY <1>1, <4>2, <4>3 DEF Request
        <4> HIDE DEF q
        <4> QED
          BY <4>3, <4>4 DEF OnChain
      <3> QED
        BY <3>1, <3>2, Moved DEF IndInv, TypeOK
    <2> QED
      BY <2>1, <2>2
  <1>7. UNCHANGED <<shared, max, restarts>>
    BY DEF Pass
  <1> HIDE DEF l, p, c, d, g
  <1> QED
    BY <1>1, <1>3, <1>4, <1>5, <1>6, <1>7, Served

\* A count without a passage.
LEMMA HitInv ==
    ASSUME IndInv, NEW r \in Requests, reqs[r] # Idle, Hit(r),
           UNCHANGED <<shared, max, passed, restarts>>,
           reqs' \in [Requests -> Request \cup {Idle}], ChainInv',
           answer' \in {"none", "handled", "limited", "error"}
    PROVE  IndInv'
  <1> DEFINE l == LimiterOf(r)
             p == Place(r)
             c == CounterOf(r)
             d == Capped(Counted(c), max[l])
             h == passed[p][l]
  <1>1. /\ p \in Places /\ l \in Limiters /\ c \in Counter /\ h \in History
        /\ max[l] \in Nat \ {0} /\ max[l] * Losses(p) \in Nat
        /\ Bounded(c, h, max[l], max[l] * Losses(p))
    BY Busy
  <1>2. d \in Counter /\ Bounded(d, h, max[l], max[l] * Losses(p))
    BY <1>1, CountedType, RefusedBounded
  <1>3. counters' = [counters EXCEPT ![p][l] = d]
    BY DEF Hit, Capped
  <1>4. passed' = [passed EXCEPT ![p][l] = h]
    BY <1>1, SameHistory DEF IndInv
  <1> HIDE DEF l, p, c, d, h
  <1> QED
    BY <1>1, <1>2, <1>3, <1>4, Served

\* Limit keeps the invariant.
LEMMA LimitInv ==
    ASSUME IndInv, NEW r \in Requests, Limit(r)
    PROVE  IndInv'
  <1>1. /\ reqs' \in [Requests -> Request \cup {Idle}] /\ ChainInv'
        /\ answer' \in {"none", "handled", "limited", "error"}
    BY FinishInv DEF Limit
  <1> QED
    BY <1>1, HitInv DEF Limit

\* StoreFails keeps the invariant, counted or not.
LEMMA StoreFailsInv ==
    ASSUME IndInv, NEW r \in Requests, StoreFails(r)
    PROVE  IndInv'
  <1>1. /\ reqs' \in [Requests -> Request \cup {Idle}] /\ ChainInv'
        /\ answer' \in {"none", "handled", "limited", "error"}
    BY FinishInv DEF StoreFails
  <1>2. CASE Hit(r)
    BY <1>1, <1>2, HitInv DEF StoreFails
  <1>3. CASE UNCHANGED counters
    BY <1>1, <1>3, Elsewhere DEF StoreFails
  <1> QED
    BY <1>2, <1>3 DEF StoreFails

\* Restart keeps the invariant: what it forgets is paid for by the losses.
LEMMA RestartInv ==
    ASSUME IndInv, NEW p \in Replicas, Restart(p)
    PROVE  IndInv'
  <1>1. /\ restarts \in [Replicas -> Nat]
        /\ counters \in [Places -> [Limiters -> Counter]]
        /\ passed \in [Places -> [Limiters -> History]]
        /\ reqs \in [Requests -> Request \cup {Idle}]
        /\ Places' = Places
    BY DEF IndInv, TypeOK, Counter, History, Restart, Places
  <1>2. restarts' \in [Replicas -> Nat] /\ restarts'[p] = restarts[p] + 1
        /\ \A i \in Replicas \ {p} : restarts'[i] = restarts[i]
    BY <1>1 DEF Restart
  <1>3. ASSUME NEW i \in Places, NEW l \in Limiters
        PROVE  /\ counters'[i][l] \in Counter
               /\ Bounded(counters[i][l], passed[i][l], max[l], max[l] * Losses(i))'
    <2>1. /\ Bounded(counters[i][l], passed[i][l], max[l], max[l] * Losses(i))
          /\ counters[i][l] \in Counter /\ passed[i][l] \in History
          /\ max[l] \in Nat \ {0}
      BY <1>1, MaxType DEF IndInv, WindowInv
    <2>2. passed'[i][l] = passed[i][l] /\ max'[l] = max[l]
      BY DEF Restart
    <2>3. CASE ~ shared /\ i = p
      <3>1. counters'[i][l] = NoWindow
        BY <1>1, <2>3 DEF Restart
      <3>2. max[l] * Losses(i) \in Nat /\ (max[l] * Losses(i))' = max[l] * Losses(i) + max[l]
        <4>1. Losses(i) \in Nat /\ Losses(i)' = Losses(i) + 1
          BY <1>1, <1>2, <2>3 DEF Losses, Restart
        <4> QED
          BY <2>1, <2>2, <4>1
      <3>3. NoWindow \in Counter
            /\ Bounded(NoWindow, passed[i][l], max[l], max[l] * Losses(i) + max[l])
        BY <2>1, <3>2, LostBounded
      <3> QED
        BY <2>2, <3>1, <3>2, <3>3 DEF Bounded
    <2>4. CASE ~ (~ shared /\ i = p)
      <3>1. counters'[i][l] = counters[i][l]
        BY <1>1, <2>4 DEF Restart
      <3>2. Losses(i)' = Losses(i)
        BY <1>2, <2>4 DEF Losses, Restart, Places
      <3> QED
        BY <2>1, <2>2, <3>1, <3>2 DEF Bounded
    <2> QED
      BY <2>3, <2>4
  <1>4. counters' \in [Places -> [Limiters -> Counter]]
    BY <1>1, <1>3, RateLimitAssumption DEF Restart, Places, NoWindow, Counter
  <1>5. reqs' \in [Requests -> Request \cup {Idle}] /\ ChainInv'
    BY <1>1 DEF Restart, IndInv, ChainInv, OnChain
  <1>6. TypeOK'
    BY <1>1, <1>2, <1>4, <1>5 DEF IndInv, TypeOK, Restart, Counter, History
  <1>7. MaxInv'
    BY DEF IndInv, MaxInv, Restart
  <1>8. WindowInv'
    BY <1>1, <1>3 DEF WindowInv
  <1> QED
    BY <1>5, <1>6, <1>7, <1>8 DEF IndInv

\* Tick keeps the invariant.
LEMMA TickInv ==
    ASSUME IndInv, Tick
    PROVE  IndInv'
  <1>1. /\ counters \in [Places -> [Limiters -> Counter]]
        /\ passed \in [Places -> [Limiters -> History]]
        /\ Places' = Places /\ \A i \in Places : Losses(i)' = Losses(i) /\ Losses(i) \in Nat
    BY DEF IndInv, TypeOK, Counter, History, Tick, Places, Losses
  <1> DEFINE Aged(h) == [a \in 0 .. Window - 1 |-> IF a = 0 THEN 0 ELSE h[a - 1]]
  <1>2. ASSUME NEW i \in Places, NEW l \in Limiters
        PROVE  /\ counters'[i][l] \in Counter /\ passed'[i][l] \in History
               /\ Bounded(counters[i][l], passed[i][l], max[l], max[l] * Losses(i))'
    <2> DEFINE c == counters[i][l]
               h == passed[i][l]
               b == max[l] * Losses(i)
    <2>1. Bounded(c, h, max[l], b) /\ c \in Counter /\ h \in History /\ max[l] \in Nat \ {0}
      BY <1>1, MaxType DEF IndInv, WindowInv
    <2>2. b \in Nat
      BY <1>1, <2>1
    <2>3. counters'[i][l] = Older(c) /\ passed'[i][l] = Aged(h)
      BY DEF Tick
    <2>4. max'[l] = max[l] /\ b' = b
      BY <1>1 DEF Tick
    <2> HIDE DEF c, h, b
    <2>5. Older(c) \in Counter /\ Bounded(Older(c), Aged(h), max[l], b)
      BY <2>1, <2>2, OlderBounded
    <2>6. Aged(h) \in History
      <3>1. \A a \in 0 .. Window - 1 : a # 0 => a - 1 \in 0 .. Window - 1
        BY RateLimitAssumption
      <3> QED
        BY <2>1, <3>1 DEF History
    <2>7. Bounded(counters'[i][l], passed'[i][l], max'[l], b')
      BY <2>3, <2>4, <2>5
    <2> QED
      BY <2>3, <2>5, <2>6, <2>7 DEF Bounded, b
  <1>3. /\ counters' \in [Places -> [Limiters -> Counter]]
        /\ passed' \in [Places -> [Limiters -> History]]
    <2>1. /\ counters' = [i \in Places |-> [l \in Limiters |-> counters'[i][l]]]
          /\ passed' = [i \in Places |-> [l \in Limiters |-> passed'[i][l]]]
      BY DEF Tick
    <2> QED
      BY <1>2, <2>1
  <1>4. TypeOK'
    BY <1>1, <1>3 DEF IndInv, TypeOK, Tick, Counter, History
  <1>5. MaxInv' /\ ChainInv'
    BY DEF IndInv, MaxInv, ChainInv, Tick
  <1>6. WindowInv'
    BY <1>1, <1>2 DEF WindowInv
  <1> QED
    BY <1>4, <1>5, <1>6 DEF IndInv

\* Every step keeps the invariant.
LEMMA NextInv == IndInv /\ [Next]_vars => IndInv'
  <1> SUFFICES ASSUME IndInv, [Next]_vars PROVE IndInv'
    OBVIOUS
  <1>1. CASE Tick
    BY <1>1, TickInv
  <1>2. ASSUME NEW p \in Replicas, Restart(p) PROVE IndInv'
    BY <1>2, RestartInv
  <1>3. ASSUME NEW p \in Replicas, NEW r \in Requests, NEW kind \in Kinds, Arrive(r, kind, p)
        PROVE  IndInv'
    BY <1>3, ArriveInv
  <1>4. ASSUME NEW r \in Requests, Serve(r) PROVE IndInv'
    BY <1>4, PassInv, LimitInv, StoreFailsInv DEF Serve
  <1>5. CASE UNCHANGED vars
    <2>1. UNCHANGED <<shared, max, counters, reqs, passed, restarts, answer>>
      BY <1>5 DEF vars
    <2>2. reqs' \in [Requests -> Request \cup {Idle}] /\ ChainInv'
      BY <2>1 DEF IndInv, TypeOK, ChainInv
    <2>3. answer' \in {"none", "handled", "limited", "error"}
      BY <2>1 DEF IndInv, TypeOK
    <2> QED
      BY <2>1, <2>2, <2>3, Elsewhere
  <1> QED
    BY <1>1, <1>2, <1>3, <1>4, <1>5 DEF Next

\* Every reachable state satisfies the inductive invariant.
THEOREM Invariance == Spec => []IndInv
  BY InitInv, NextInv, PTL DEF Spec

\* Counters, limits, requests and history keep their types: no limit is ever zero,
\* whatever the rates are.
THEOREM TypeCorrect == Spec => []TypeOK
  <1>1. IndInv => TypeOK
    BY DEF IndInv
  <1> QED
    BY Invariance, <1>1, PTL

\* The bound grows with the limit.
LEMMA Combined ==
    ASSUME NEW m \in Nat \ {0}, NEW q \in Nat, m <= q, NEW n \in Nat, NEW k \in Nat
    PROVE  (2 * m - 1) * n + m * k <= (2 * q - 1) * n + q * k
  <1>1. m * k <= q * k
    OBVIOUS
  <1>2. (2 * m - 1) * n <= (2 * q - 1) * n
    <2>1. 2 * m - 1 \in Nat /\ 2 * q - 1 \in Nat /\ 2 * m - 1 <= 2 * q - 1
      OBVIOUS
    <2> DEFINE a == 2 * m - 1
               b == 2 * q - 1
    <2> HIDE DEF a, b
    <2>2. a \in Nat /\ b \in Nat /\ a <= b
      BY <2>1 DEF a, b
    <2>3. a * n <= b * n
      BY <2>2
    <2> QED
      BY <2>3 DEF a, b
  <1>3. /\ m * k \in Nat /\ q * k \in Nat
        /\ (2 * m - 1) * n \in Int /\ (2 * q - 1) * n \in Int
    OBVIOUS
  <1> QED
    BY <1>1, <1>2, <1>3

\* For any rates, windows and replicas: in any stretch of time as long as a window a
\* limiter lets through less than twice its quota with Redis, and without it that once
\* per replica and a quota more per restart.
THEOREM BurstsBounded == Spec => []BurstBound
  <1>1. ASSUME IndInv, NEW l \in Limiters
        PROVE  Recent(l) <= IF shared THEN 2 * QuotaOrOneMore(l) - 1
                            ELSE (2 * QuotaOrOneMore(l) - 1) * Cardinality(Replicas)
                                 + QuotaOrOneMore(l) * SumFunction(restarts)
    <2> DEFINE m == max[l]
               q == QuotaOrOneMore(l)
               f == [p \in Places |-> passed[p][l][Window - 1]]
    <2>1. m \in Nat \ {0} /\ q \in Nat /\ m <= q
      BY <1>1, MaxType DEF IndInv
    <2>2. Window - 1 \in 0 .. Window - 1
      BY RateLimitAssumption
    <2>3. f \in [Places -> Nat]
      BY <1>1, <2>2 DEF IndInv, TypeOK
    <2>4. ASSUME NEW p \in Places PROVE f[p] <= (2 * m - 1) + m * Losses(p)
      <3> DEFINE c == counters[p][l]
                 h == passed[p][l][Window - 1]
                 b == m * Losses(p)
      <3>1. Bounded(c, passed[p][l], m, b)
        BY <1>1 DEF IndInv, WindowInv
      <3>2. h \in Nat /\ c.hits \in Nat /\ f[p] = h
        BY <1>1, <2>2 DEF IndInv, TypeOK
      <3>3. b \in Nat
        <4>1. Losses(p) \in Nat
          BY <1>1 DEF IndInv, TypeOK, Losses, Places
        <4> QED
          BY <2>1, <4>1
      <3>4. IF c.left = 0 THEN h < b + m
            ELSE h < b + Least(c.hits, m) + (IF Window - 1 < Window - c.left THEN 0 ELSE m)
        BY <2>2, <3>1 DEF Bounded
      <3>5. Least(c.hits, m) \in Nat /\ Least(c.hits, m) <= m
        BY <2>1, <3>2 DEF Least
      <3> HIDE DEF m, c, h, b, f
      <3>6. h < b + m + m
        BY <2>1, <3>2, <3>3, <3>4, <3>5
      <3>7. f[p] <= (2 * m - 1) + b
        BY <2>1, <3>2, <3>3, <3>6
      <3> QED
        BY <3>7 DEF b
    <2>5. Recent(l) = SumFunction(f)
      BY DEF Recent
    <2>6. 2 * m - 1 \in Nat /\ 2 * m - 1 <= 2 * q - 1
      BY <2>1
    <2> HIDE DEF m, q, f
    <2>7. CASE shared
      <3>1. Places = {"redis"} /\ \A p \in Places : f[p] <= (2 * m - 1) + 0 * f[p]
        BY <2>1, <2>3, <2>4, <2>7 DEF Places, Losses
      <3>2. IsFiniteSet(Places) /\ Cardinality(Places) = 1
        BY <3>1, FS_Singleton
      <3>3. /\ SumFunction(f) \in Nat
            /\ SumFunction(f) <= (2 * m - 1) * Cardinality(Places) + 0 * SumFunction(f)
        BY <2>3, <2>6, <3>1, <3>2, SumBound
      <3>4. SumFunction(f) <= 2 * m - 1
        BY <2>1, <3>2, <3>3
      <3>5. SumFunction(f) <= 2 * q - 1
        BY <2>1, <3>3, <3>4
      <3> QED
        BY <2>5, <2>7, <3>5 DEF q
    <2>8. CASE ~ shared
      <3>1. Places = Replicas /\ restarts \in [Replicas -> Nat]
        BY <1>1, <2>8 DEF Places, IndInv, TypeOK
      <3>2. \A p \in Replicas : f[p] <= (2 * m - 1) + m * restarts[p]
        BY <2>4, <2>8, <3>1 DEF Losses
      <3>3. /\ SumFunction(f) \in Nat /\ SumFunction(restarts) \in Nat
            /\ SumFunction(f) <= (2 * m - 1) * Cardinality(Replicas) + m * SumFunction(restarts)
        BY <2>1, <2>3, <2>6, <3>1, <3>2, SumBound, RateLimitAssumption
      <3>4. (2 * m - 1) * Cardinality(Replicas) + m * SumFunction(restarts)
            <= (2 * q - 1) * Cardinality(Replicas) + q * SumFunction(restarts)
        BY <2>1, <3>3, FS_CardinalityType, Combined, RateLimitAssumption
      <3>5. Cardinality(Replicas) \in Nat
        BY FS_CardinalityType, RateLimitAssumption
      <3>6. /\ (2 * m - 1) * Cardinality(Replicas) + m * SumFunction(restarts) \in Int
            /\ (2 * q - 1) * Cardinality(Replicas) + q * SumFunction(restarts) \in Int
        BY <2>1, <3>3, <3>5
      <3>7. SumFunction(f) <= (2 * q - 1) * Cardinality(Replicas) + q * SumFunction(restarts)
        BY <3>3, <3>4, <3>6
      <3> QED
        BY <2>5, <2>8, <3>7 DEF q
    <2> QED
      BY <2>7, <2>8
  <1>2. IndInv => BurstBound
    BY <1>1 DEF BurstBound
  <1> QED
    BY Invariance, <1>2, PTL
=============================================================================
