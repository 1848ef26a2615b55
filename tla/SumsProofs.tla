----------------------------- MODULE SumsProofs -----------------------------
(***************************************************************************)
(* Facts about Total, for sums of any length and any integers.             *)
(***************************************************************************)
EXTENDS Sums, WellFoundedInduction, TLAPS

(***************************************************************************)
(* Induction over an interval, stated on a set so that first-order provers *)
(* can use it: a set that holds 0 and is closed under successor up to n    *)
(* holds the whole interval.  The argument is the least counterexample.    *)
(***************************************************************************)
LEMMA IntervalInduction ==
  ASSUME NEW n \in Nat, NEW S, 0 \in S,
         \A k \in 0 .. n - 1 : k \in S => k + 1 \in S
  PROVE  0 .. n \subseteq S
<1> DEFINE Bad == (0 .. n) \ S
<1> SUFFICES ASSUME Bad # {} PROVE FALSE
  OBVIOUS
<1>1. Bad \subseteq Nat
  OBVIOUS
<1>2. PICK x \in Bad : \A y \in Bad : ~ (<<y, x>> \in OpToRel(<, Nat))
  <2> HIDE DEF Bad
  <2> QED BY <1>1, NatLessThanWellFounded, WFMin, Zenon
<1>3. \A y \in Bad : ~ (y < x)
  BY <1>1, <1>2 DEF OpToRel
<1>4. x # 0 /\ x - 1 \in 0 .. n - 1
  OBVIOUS
<1>5. x - 1 \in S
  BY <1>3, <1>4
<1> QED
  BY <1>4, <1>5

\* p lists the partial sums of f
PartialSums(f, n, p) ==
  /\ p \in [0 .. n -> Int]
  /\ p[0] = 0
  /\ \A k \in 1 .. n : p[k] = p[k - 1] + f[k]

\* The recursive function in the definition of Total exists: it is built one
\* index at a time.
LEMMA PartialSumsExist ==
  ASSUME NEW n \in Nat, NEW f \in [1 .. n -> Int]
  PROVE  \E p : PartialSums(f, n, p)
<1> DEFINE S == {m \in 0 .. n : \E p : PartialSums(f, m, p)}
<1>1. 0 \in S
  <2>1. PartialSums(f, 0, [k \in 0 .. 0 |-> 0])
    BY DEF PartialSums
  <2> QED BY <2>1
<1>2. \A m \in 0 .. n - 1 : m \in S => m + 1 \in S
  <2> SUFFICES ASSUME NEW m \in 0 .. n - 1, NEW p, PartialSums(f, m, p)
               PROVE  \E q : PartialSums(f, m + 1, q)
    OBVIOUS
  <2> DEFINE q == [k \in 0 .. m + 1 |-> IF k <= m THEN p[k] ELSE p[m] + f[m + 1]]
  <2>1. q \in [0 .. m + 1 -> Int] /\ q[0] = 0
    BY DEF PartialSums
  <2>2. ASSUME NEW k \in 1 .. m + 1 PROVE q[k] = q[k - 1] + f[k]
    <3>1. CASE k <= m
      BY <3>1 DEF PartialSums
    <3>2. CASE k = m + 1
      BY <3>2
    <3> QED BY <3>1, <3>2
  <2>3. PartialSums(f, m + 1, q)
    BY <2>1, <2>2 DEF PartialSums
  <2> QED BY <2>3
<1>3. 0 .. n \subseteq S
  <2> HIDE DEF S
  <2> QED BY <1>1, <1>2, IntervalInduction
<1> QED BY <1>3

\* Total is the last partial sum.
LEMMA TotalIsPartialSum ==
  ASSUME NEW n \in Nat, NEW f \in [1 .. n -> Int]
  PROVE  \E p : PartialSums(f, n, p) /\ Total(f, n) = p[n]
<1> DEFINE Is(s) == s = [k \in 0 .. n |-> IF k = 0 THEN 0 ELSE s[k - 1] + f[k]]
           sum == CHOOSE s : Is(s)
<1>1. \E s : Is(s)
  <2>1. PICK p : PartialSums(f, n, p)
    BY PartialSumsExist
  <2>2. Is(p)
    BY <2>1 DEF PartialSums
  <2> QED BY <2>2
<1>2. Is(sum)
  BY <1>1
<1>3. Total(f, n) = sum[n]
  BY DEF Total, sum, Is
<1> HIDE DEF sum
<1>4. /\ DOMAIN sum = 0 .. n
      /\ sum[0] = 0
      /\ \A k \in 1 .. n : sum[k] = sum[k - 1] + f[k]
  BY <1>2
<1> DEFINE S == {k \in 0 .. n : sum[k] \in Int}
<1>5. 0 .. n \subseteq S
  <2>1. 0 \in S
    BY <1>4
  <2>2. ASSUME NEW k \in 0 .. n - 1, k \in S PROVE k + 1 \in S
    <3>1. sum[k + 1] = sum[(k + 1) - 1] + f[k + 1]
      BY <1>4
    <3>2. sum[k + 1] = sum[k] + f[k + 1]
      BY <3>1
    <3> QED BY <2>2, <3>2
  <2> HIDE DEF S
  <2> QED BY <2>1, <2>2, IntervalInduction
<1>6. PartialSums(f, n, sum)
  <2>1. sum \in [0 .. n -> Int]
    BY <1>2, <1>5
  <2> QED BY <2>1, <1>4 DEF PartialSums
<1> QED BY <1>3, <1>6

\* The sum of integers is an integer.
LEMMA TotalType ==
  ASSUME NEW n \in Nat, NEW f \in [1 .. n -> Int]
  PROVE  Total(f, n) \in Int
BY TotalIsPartialSum DEF PartialSums

\* The sum of two lists, added index by index.
LEMMA TotalOfSum ==
  ASSUME NEW n \in Nat, NEW f \in [1 .. n -> Int], NEW g \in [1 .. n -> Int],
         NEW h \in [1 .. n -> Int], \A k \in 1 .. n : h[k] = f[k] + g[k]
  PROVE  Total(h, n) = Total(f, n) + Total(g, n)
<1>1. PICK p : PartialSums(f, n, p) /\ Total(f, n) = p[n]
  BY TotalIsPartialSum
<1>2. PICK q : PartialSums(g, n, q) /\ Total(g, n) = q[n]
  BY TotalIsPartialSum
<1>3. PICK r : PartialSums(h, n, r) /\ Total(h, n) = r[n]
  BY TotalIsPartialSum
<1> DEFINE S == {k \in 0 .. n : r[k] = p[k] + q[k]}
<1>4. 0 \in S
  BY <1>1, <1>2, <1>3 DEF PartialSums
<1>5. ASSUME NEW k \in 0 .. n - 1, k \in S PROVE k + 1 \in S
  BY <1>1, <1>2, <1>3, <1>5 DEF PartialSums
<1>6. 0 .. n \subseteq S
  <2> HIDE DEF S
  <2> QED BY <1>4, <1>5, IntervalInduction
<1> QED BY <1>1, <1>2, <1>3, <1>6

\* A list that is nowhere larger has no larger sum.
LEMMA TotalMonotone ==
  ASSUME NEW n \in Nat, NEW f \in [1 .. n -> Int], NEW g \in [1 .. n -> Int],
         \A k \in 1 .. n : f[k] <= g[k]
  PROVE  Total(f, n) <= Total(g, n)
<1>1. PICK p : PartialSums(f, n, p) /\ Total(f, n) = p[n]
  BY TotalIsPartialSum
<1>2. PICK q : PartialSums(g, n, q) /\ Total(g, n) = q[n]
  BY TotalIsPartialSum
<1> DEFINE S == {k \in 0 .. n : p[k] <= q[k]}
<1>3. 0 \in S
  BY <1>1, <1>2 DEF PartialSums
<1>4. ASSUME NEW k \in 0 .. n - 1, k \in S PROVE k + 1 \in S
  BY <1>1, <1>2, <1>4 DEF PartialSums
<1>5. 0 .. n \subseteq S
  <2> HIDE DEF S
  <2> QED BY <1>3, <1>4, IntervalInduction
<1> QED BY <1>1, <1>2, <1>5

\* A list that is zero but at one index sums to its value there.
LEMMA TotalOfOne ==
  ASSUME NEW n \in Nat, NEW i \in 1 .. n, NEW f \in [1 .. n -> Int],
         \A k \in 1 .. n : k # i => f[k] = 0
  PROVE  Total(f, n) = f[i]
<1>1. PICK p : PartialSums(f, n, p) /\ Total(f, n) = p[n]
  BY TotalIsPartialSum
<1> DEFINE S == {k \in 0 .. n : p[k] = IF k < i THEN 0 ELSE f[i]}
<1>2. 0 \in S
  BY <1>1 DEF PartialSums
<1>3. ASSUME NEW k \in 0 .. n - 1, k \in S PROVE k + 1 \in S
  <2>1. p[k + 1] = p[k] + f[k + 1] /\ p[k] = IF k < i THEN 0 ELSE f[i]
    BY <1>1, <1>3 DEF PartialSums
  <2>2. CASE k + 1 = i
    BY <2>1, <2>2
  <2>3. CASE k + 1 # i
    <3>1. f[k + 1] = 0
      BY <2>3
    <3>2. p[k] \in Int
      BY <1>1 DEF PartialSums
    <3> QED BY <2>1, <2>3, <3>1, <3>2
  <2> QED BY <2>2, <2>3
<1>4. 0 .. n \subseteq S
  <2> HIDE DEF S
  <2> QED BY <1>2, <1>3, IntervalInduction
<1> QED BY <1>1, <1>4

\* Changing one entry changes the sum by the difference.
LEMMA TotalOfExcept ==
  ASSUME NEW n \in Nat, NEW i \in 1 .. n, NEW v \in Int,
         NEW f \in [1 .. n -> Int], NEW h \in [1 .. n -> Int],
         h[i] = v, \A k \in 1 .. n : k # i => h[k] = f[k]
  PROVE  Total(h, n) = Total(f, n) + (v - f[i])
<1> DEFINE d == [k \in 1 .. n |-> IF k = i THEN v - f[i] ELSE 0]
<1>1. d \in [1 .. n -> Int] /\ d[i] = v - f[i] /\ \A k \in 1 .. n : k # i => d[k] = 0
  OBVIOUS
<1>2. \A k \in 1 .. n : h[k] = f[k] + d[k]
  OBVIOUS
<1> HIDE DEF d
<1>3. Total(d, n) = v - f[i]
  BY <1>1, TotalOfOne
<1>4. Total(h, n) = Total(f, n) + Total(d, n)
  BY <1>1, <1>2, TotalOfSum
<1> QED BY <1>3, <1>4

\* The sum of zeros.
LEMMA TotalOfZeros ==
  ASSUME NEW n \in Nat, NEW f \in [1 .. n -> Int], \A k \in 1 .. n : f[k] = 0
  PROVE  Total(f, n) = 0
<1>1. \A k \in 1 .. n : f[k] = f[k] + f[k]
  OBVIOUS
<1>2. Total(f, n) = Total(f, n) + Total(f, n)
  BY <1>1, TotalOfSum
<1> QED BY <1>2, TotalType

\* Differences of successive values add up to the difference of the ends.
LEMMA TotalOfDifferences ==
  ASSUME NEW n \in Nat, NEW f \in [1 .. n -> Int], NEW v, \A k \in 0 .. n : v[k] \in Int,
         \A k \in 1 .. n : f[k] = v[k - 1] - v[k]
  PROVE  Total(f, n) = v[0] - v[n]
<1>1. PICK p : PartialSums(f, n, p) /\ Total(f, n) = p[n]
  BY TotalIsPartialSum
<1> DEFINE S == {k \in 0 .. n : p[k] = v[0] - v[k]}
<1>2. 0 \in S
  BY <1>1 DEF PartialSums
<1>3. ASSUME NEW k \in 0 .. n - 1, k \in S PROVE k + 1 \in S
  <2>1. k + 1 \in 1 .. n /\ (k + 1) - 1 = k
    OBVIOUS
  <2>2. p[k + 1] = p[k] + f[k + 1] /\ f[k + 1] = v[k] - v[k + 1]
    BY <1>1, <2>1 DEF PartialSums
  <2>3. v[0] \in Int /\ v[k] \in Int /\ v[k + 1] \in Int
    OBVIOUS
  <2> QED BY <1>3, <2>2, <2>3
<1>4. 0 .. n \subseteq S
  <2> HIDE DEF S
  <2> QED BY <1>2, <1>3, IntervalInduction
<1> QED BY <1>1, <1>4

\* A list that falls from each index to the next falls from any index to a later one.
LEMMA FallingEverywhere ==
  ASSUME NEW n \in Nat, NEW v, \A k \in 0 .. n : v[k] \in Int, \A k \in 1 .. n : v[k] <= v[k - 1]
  PROVE  \A j, k \in 0 .. n : j <= k => v[k] <= v[j]
<1> DEFINE S == {k \in 0 .. n : \A j \in 0 .. k : v[k] <= v[j]}
<1>1. 0 \in S
  OBVIOUS
<1>2. ASSUME NEW k \in 0 .. n - 1, k \in S PROVE k + 1 \in S
  <2>1. k + 1 \in 1 .. n /\ (k + 1) - 1 = k
    OBVIOUS
  <2>2. v[k + 1] <= v[k]
    BY <2>1
  <2>3. ASSUME NEW j \in 0 .. k + 1 PROVE v[k + 1] <= v[j]
    <3>1. v[j] \in Int /\ v[k] \in Int /\ v[k + 1] \in Int
      OBVIOUS
    <3>2. CASE j = k + 1
      BY <3>1, <3>2
    <3>3. CASE j \in 0 .. k
      BY <1>2, <2>2, <3>1, <3>3
    <3> QED BY <3>2, <3>3
  <2> QED BY <2>1, <2>3
<1>3. 0 .. n \subseteq S
  <2> HIDE DEF S
  <2> QED BY <1>1, <1>2, IntervalInduction
<1> QED BY <1>3

LEMMA Distribute ==
  ASSUME NEW c \in Int, NEW a \in Int, NEW b \in Int
  PROVE  c * (a + b) = c * a + c * b
OBVIOUS

\* The multiples of the numbers of a list add up to the multiple of their sum.
LEMMA TotalOfMultiples ==
  ASSUME NEW n \in Nat, NEW c \in Int, NEW f \in [1 .. n -> Int], NEW h \in [1 .. n -> Int],
         \A k \in 1 .. n : h[k] = c * f[k]
  PROVE  Total(h, n) = c * Total(f, n)
<1>1. PICK p : PartialSums(f, n, p) /\ Total(f, n) = p[n]
  BY TotalIsPartialSum
<1>2. PICK q : PartialSums(h, n, q) /\ Total(h, n) = q[n]
  BY TotalIsPartialSum
<1> DEFINE S == {k \in 0 .. n : q[k] = c * p[k]}
<1>3. 0 \in S
  BY <1>1, <1>2 DEF PartialSums
<1>4. ASSUME NEW k \in 0 .. n - 1, k \in S PROVE k + 1 \in S
  <2>1. k + 1 \in 1 .. n /\ (k + 1) - 1 = k
    OBVIOUS
  <2>2. p[k + 1] = p[k] + f[k + 1] /\ q[k + 1] = q[k] + h[k + 1]
    BY <1>1, <1>2, <2>1 DEF PartialSums
  <2>3. p[k] \in Int /\ f[k + 1] \in Int
    BY <1>1, <2>1 DEF PartialSums
  <2>4. c * (p[k] + f[k + 1]) = c * p[k] + c * f[k + 1]
    BY <2>3, Distribute
  <2> QED BY <1>4, <2>1, <2>2, <2>4
<1>5. 0 .. n \subseteq S
  <2> HIDE DEF S
  <2> QED BY <1>3, <1>4, IntervalInduction
<1> QED BY <1>1, <1>2, <1>5

-----------------------------------------------------------------------------
(***************************************************************************)
(* Recursion over an interval: p lists the values of T that start at x and *)
(* go on by the functions F[1], F[2], ...                                  *)
(***************************************************************************)
Iterates(p, n, T, x, F) ==
  /\ p \in [0 .. n -> T]
  /\ p[0] = x
  /\ \A k \in 1 .. n : p[k] = F[k][p[k - 1]]

LEMMA IterationExists ==
  ASSUME NEW n \in Nat, NEW T, NEW x \in T, NEW F \in [1 .. n -> [T -> T]]
  PROVE  \E p : Iterates(p, n, T, x, F)
<1> DEFINE S == {m \in 0 .. n : \E p : Iterates(p, m, T, x, F)}
<1>1. 0 \in S
  <2>1. Iterates([k \in 0 .. 0 |-> x], 0, T, x, F)
    BY DEF Iterates
  <2> QED BY <2>1
<1>2. \A m \in 0 .. n - 1 : m \in S => m + 1 \in S
  <2> SUFFICES ASSUME NEW m \in 0 .. n - 1, NEW p, Iterates(p, m, T, x, F)
               PROVE  \E q : Iterates(q, m + 1, T, x, F)
    OBVIOUS
  <2> DEFINE q == [k \in 0 .. m + 1 |-> IF k <= m THEN p[k] ELSE F[m + 1][p[m]]]
  <2>1. F[m + 1][p[m]] \in T
    BY DEF Iterates
  <2>2. q \in [0 .. m + 1 -> T] /\ q[0] = x
    BY <2>1 DEF Iterates
  <2>3. ASSUME NEW k \in 1 .. m + 1 PROVE q[k] = F[k][q[k - 1]]
    <3>1. CASE k <= m
      BY <3>1 DEF Iterates
    <3>2. CASE k = m + 1
      BY <3>2
    <3> QED BY <3>1, <3>2
  <2>4. Iterates(q, m + 1, T, x, F)
    <3> HIDE DEF q
    <3> QED BY <2>2, <2>3 DEF Iterates
  <2> QED BY <2>4
<1>3. 0 .. n \subseteq S
  <2> HIDE DEF S
  <2> QED BY <1>1, <1>2, IntervalInduction
<1> QED BY <1>3

(***************************************************************************)
(* Two recursions that start alike and go on alike from equal values.      *)
(***************************************************************************)
LEMMA RecursionsAgree ==
  ASSUME NEW n \in Nat, NEW f, NEW g, f[0] = g[0],
         \A k \in 1 .. n : f[k - 1] = g[k - 1] => f[k] = g[k]
  PROVE  \A k \in 0 .. n : f[k] = g[k]
<1> DEFINE S == {k \in 0 .. n : f[k] = g[k]}
<1>1. 0 \in S
  OBVIOUS
<1>2. ASSUME NEW k \in 0 .. n - 1, k \in S PROVE k + 1 \in S
  <2>1. k + 1 \in 1 .. n /\ (k + 1) - 1 = k
    OBVIOUS
  <2> QED BY <1>2, <2>1
<1>3. 0 .. n \subseteq S
  <2> HIDE DEF S
  <2> QED BY <1>1, <1>2, IntervalInduction
<1> QED BY <1>3
=============================================================================
