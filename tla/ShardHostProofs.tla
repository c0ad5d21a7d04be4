-------------------------- MODULE ShardHostProofs --------------------------
(* What holds of shard maps with any number of ranges and buckets, and of   *)
(* ShardHost for every set of rooms, every set of published maps, every     *)
(* drain delay and every eviction rate.                                     *)
EXTENDS ShardHost, MapCheck, FiniteSetTheorems, WellFoundedInduction, TLAPS

-----------------------------------------------------------------------------
(* Smallest elements and induction.                                        *)

\* A set of naturals has a smallest element, and Min is it.
LEMMA SmallestOf ==
    ASSUME NEW T \in SUBSET Nat, T # {}
    PROVE  /\ Min(T) \in T /\ \A y \in T : Min(T) <= y
<1>1. \E x \in T : \A y \in T : ~(y < x)
  <2>1. IsWellFoundedOn({ss \in Nat \X Nat : ss[1] < ss[2]}, Nat)
    BY NatLessThanWellFounded DEF OpToRel
  <2>2. \E x \in T : \A y \in T : ~(<<y, x>> \in {ss \in Nat \X Nat : ss[1] < ss[2]})
    BY <2>1, WFMin
  <2>3. QED BY <2>2
<1>2. \E x \in T : \A y \in T : x <= y BY <1>1
<1>3. QED BY <1>2 DEF Min

\* Induction up to N, over membership in a set.
LEMMA SetInduction ==
    ASSUME NEW N \in Nat, NEW S, 0 \in S, \A n \in 1..N : n - 1 \in S => n \in S
    PROVE  0..N \subseteq S
<1> DEFINE T == {n \in 0..N : n \notin S}
<1>1. SUFFICES ASSUME T # {} PROVE FALSE
  OBVIOUS
<1>2. T \in SUBSET Nat OBVIOUS
<1>3. PICK x \in T : \A y \in T : x <= y
  <2> HIDE DEF T
  <2> QED BY <1>1, <1>2, SmallestOf
<1>4. x \in 1..N /\ x - 1 \in 0..N BY <1>3
<1>5. x - 1 \in S BY <1>3, <1>4
<1>6. QED BY <1>3, <1>4, <1>5

-----------------------------------------------------------------------------
(* Every sequence can be sorted: by insertion, one element after another.  *)

\* q lists the first n elements of a in ascending order.
Sorts(q, n, a) ==
  /\ q \in [1..n -> 1..n]
  /\ \A i, j \in 1..n : q[i] = q[j] => i = j
  /\ \A k \in 1..n : \E i \in 1..n : q[i] = k
  /\ \A i, j \in 1..n : i < j => a[q[i]] <= a[q[j]]

\* Insert the n-th element: after every smaller or equal one.
LEMMA SortStep ==
    ASSUME NEW N \in Nat, NEW a \in [1..N -> Int], NEW n \in 1..N,
           NEW q, Sorts(q, n - 1, a)
    PROVE  \E r : Sorts(r, n, a)
<1> DEFINE above == {i \in 1..n - 1 : a[q[i]] > a[n]}
<1>1. n \in Nat /\ n - 1 \in Nat OBVIOUS
<1>2. ASSUME NEW i \in 1..n - 1
      PROVE  q[i] \in 1..n - 1 /\ q[i] # n /\ q[i] \in 1..n /\ a[q[i]] \in Int
  <2>1. q[i] \in 1..n - 1 BY DEF Sorts
  <2>2. QED BY <2>1
<1>3. PICK k \in 1..n : /\ \A i \in 1..n - 1 : i < k => a[q[i]] <= a[n]
                        /\ \A i \in 1..n - 1 : i >= k => a[n] <= a[q[i]]
  <2>1. CASE above = {}
    <3>1. ASSUME NEW i \in 1..n - 1 PROVE a[q[i]] <= a[n]
      <4>1. a[q[i]] \in Int /\ a[n] \in Int /\ ~(a[q[i]] > a[n]) BY <1>2, <2>1
      <4>2. QED BY <4>1
    <3>2. n \in 1..n /\ \A i \in 1..n - 1 : ~(i >= n) OBVIOUS
    <3>3. QED BY <3>1, <3>2
  <2>2. CASE above # {}
    <3>1. above \in SUBSET Nat OBVIOUS
    <3>2. PICK k \in above : \A y \in above : k <= y
      <4> HIDE DEF above
      <4> QED BY <2>2, <3>1, SmallestOf
    <3>3. \A i \in 1..n - 1 : i < k => a[q[i]] <= a[n] BY <1>2, <3>2
    <3>4. \A i \in 1..n - 1 : i > k => a[q[k]] <= a[q[i]] BY <3>2 DEF Sorts
    <3>5. \A i \in 1..n - 1 : i >= k => a[n] <= a[q[i]]
      <4>1. SUFFICES ASSUME NEW i \in 1..n - 1, i >= k PROVE a[n] <= a[q[i]] OBVIOUS
      <4>2. a[q[k]] > a[n] /\ a[q[k]] \in Int /\ a[q[i]] \in Int /\ a[n] \in Int
        BY <1>2, <3>2
      <4>3. i = k \/ a[q[k]] <= a[q[i]] BY <3>2, <3>4, <4>1
      <4>4. QED BY <4>2, <4>3
    <3>6. k \in 1..n BY <3>2
    <3>7. QED BY <3>3, <3>5, <3>6
  <2>3. QED BY <2>1, <2>2
<1> DEFINE r == [i \in 1..n |-> IF i < k THEN q[i] ELSE IF i = k THEN n ELSE q[i - 1]]
<1>4. \A i \in 1..n : /\ i < k => i \in 1..n - 1 /\ r[i] = q[i]
                      /\ i = k => r[i] = n
                      /\ i > k => i - 1 \in 1..n - 1 /\ r[i] = q[i - 1]
  OBVIOUS
<1>5. r \in [1..n -> 1..n]
  <2>1. \A i \in 1..n : r[i] \in 1..n BY <1>2, <1>4
  <2>2. QED BY <2>1
<1> HIDE DEF r
<1>6. \A i, j \in 1..n : r[i] = r[j] => i = j
  <2>1. SUFFICES ASSUME NEW i \in 1..n, NEW j \in 1..n, r[i] = r[j] PROVE i = j OBVIOUS
  <2>2. ASSUME NEW h \in 1..n PROVE h = k <=> r[h] = n
    <3>1. CASE h < k BY <1>2, <1>4, <3>1
    <3>2. CASE h = k BY <1>4, <3>2
    <3>3. CASE h > k BY <1>2, <1>4, <3>3
    <3>4. QED BY <3>1, <3>2, <3>3
  <2>3. i = k <=> j = k BY <2>1, <2>2
  <2>4. CASE i = k BY <2>3, <2>4
  <2>5. CASE i # k /\ j # k
    <3> DEFINE x == IF i < k THEN i ELSE i - 1
               y == IF j < k THEN j ELSE j - 1
    <3>1. x \in 1..n - 1 /\ r[i] = q[x] /\ y \in 1..n - 1 /\ r[j] = q[y] BY <1>4, <2>5
    <3>2. x = y BY <2>1, <3>1 DEF Sorts
    <3>3. QED BY <2>5, <3>2
  <2>6. QED BY <2>3, <2>4, <2>5
<1>7. \A m \in 1..n : \E i \in 1..n : r[i] = m
  <2>1. SUFFICES ASSUME NEW m \in 1..n PROVE \E i \in 1..n : r[i] = m OBVIOUS
  <2>2. CASE m = n BY <1>4, <2>2
  <2>3. CASE m # n
    <3>1. PICK i \in 1..n - 1 : q[i] = m BY <2>3 DEF Sorts
    <3>2. CASE i < k
      <4>1. i \in 1..n OBVIOUS
      <4>2. r[i] = q[i] BY <1>4, <3>2, <4>1
      <4>3. QED BY <3>1, <4>1, <4>2
    <3>3. CASE i >= k
      <4>1. i + 1 \in 1..n /\ i + 1 > k /\ (i + 1) - 1 = i BY <3>3
      <4>2. r[i + 1] = q[i] BY <1>4, <4>1
      <4>3. QED BY <3>1, <4>1, <4>2
    <3>4. QED BY <3>2, <3>3
  <2>4. QED BY <2>2, <2>3
<1>8. \A i, j \in 1..n : i < j => a[r[i]] <= a[r[j]]
  <2>1. SUFFICES ASSUME NEW i \in 1..n, NEW j \in 1..n, i < j PROVE a[r[i]] <= a[r[j]]
    OBVIOUS
  <2>2. \A x, y \in 1..n - 1 : x < y => a[q[x]] <= a[q[y]] BY DEF Sorts
  <2>3. CASE i = k
    <3>1. r[i] = n /\ j - 1 \in 1..n - 1 /\ r[j] = q[j - 1] /\ j - 1 >= k BY <1>4, <2>1, <2>3
    <3>2. QED BY <1>3, <3>1
  <2>4. CASE j = k
    <3>1. r[j] = n /\ i \in 1..n - 1 /\ r[i] = q[i] /\ i < k BY <1>4, <2>1, <2>4
    <3>2. QED BY <1>3, <3>1
  <2>5. CASE j < k
    <3>1. i \in 1..n - 1 /\ j \in 1..n - 1 /\ r[i] = q[i] /\ r[j] = q[j] BY <1>4, <2>1, <2>5
    <3>2. QED BY <2>1, <2>2, <3>1
  <2>6. CASE i > k
    <3>1. /\ i - 1 \in 1..n - 1 /\ j - 1 \in 1..n - 1 /\ i - 1 < j - 1
          /\ r[i] = q[i - 1] /\ r[j] = q[j - 1]
      BY <1>4, <2>1, <2>6
    <3>2. QED BY <2>2, <3>1
  <2>7. CASE i < k /\ j > k
    <3>1. /\ i \in 1..n - 1 /\ j - 1 \in 1..n - 1 /\ i < j - 1
          /\ r[i] = q[i] /\ r[j] = q[j - 1]
      BY <1>4, <2>1, <2>7
    <3>2. QED BY <2>2, <3>1
  <2>8. QED BY <2>3, <2>4, <2>5, <2>6, <2>7
<1>9. QED BY <1>5, <1>6, <1>7, <1>8 DEF Sorts

LEMMA SortExists ==
    ASSUME NEW N \in Nat, NEW a \in [1..N -> Int]
    PROVE  \E q : Sorts(q, N, a)
<1> DEFINE S == {n \in 0..N : \E q : Sorts(q, n, a)}
<1>1. 0 \in S
  <2>1. Sorts([i \in 1..0 |-> i], 0, a) BY DEF Sorts
  <2>2. QED BY <2>1
<1>2. ASSUME NEW n \in 1..N, n - 1 \in S PROVE n \in S
  <2>1. PICK q : Sorts(q, n - 1, a) BY <1>2
  <2>2. QED BY <2>1, SortStep
<1>3. 0..N \subseteq S
  <2> HIDE DEF S
  <2> QED BY <1>1, <1>2, SetInduction
<1>4. QED BY <1>3

-----------------------------------------------------------------------------
(* The walk over sorted ranges.                                            *)

Rows(s, n) == s \in [1..n -> Ranges] /\ \A i \in 1..n : ~OutOfBounds(s[i])
Ascending(s, n) == \A i, j \in 1..n : i < j => s[i].low <= s[j].low

\* Every bucket lies in exactly one of the ranges.
Exactly(s, n) ==
  \A b \in Buckets : \E i \in 1..n :
      Covers(s[i], b) /\ \A j \in 1..n : Covers(s[j], b) => j = i

\* next is what the walk computes.
Walks(next, s, n) ==
  /\ next \in [0..n -> Int]
  /\ next[0] = 0
  /\ \A i \in 1..n : next[i] = WalkStep(s[i], next[i - 1])

\* An in-bounds range is an interval of buckets.
LEMMA RowFacts ==
    ASSUME NEW n \in Nat, NEW s, Rows(s, n), NEW i \in 1..n
    PROVE  /\ s[i].low \in Nat /\ s[i].high \in Nat
           /\ s[i].low <= s[i].high /\ s[i].high < EXPECTED_BUCKETS
           /\ s[i].low \in Buckets /\ s[i].high \in Buckets
<1>1. s[i].low \in Int /\ s[i].high \in Int /\ ~OutOfBounds(s[i])
  BY DEF Rows, Ranges
<1>2. QED BY <1>1, ShardMapAssumption DEF OutOfBounds, Buckets

\* The walk is defined on sequences of every length, and ExpectedNext is it.
LEMMA WalkExists ==
    ASSUME NEW N \in Nat, NEW s, Rows(s, N)
    PROVE  \E next : Walks(next, s, N)
<1> DEFINE S == {n \in 0..N : \E next : Walks(next, s, n)}
<1>1. 0 \in S
  <2>1. Walks([i \in 0..0 |-> 0], s, 0) BY DEF Walks
  <2>2. QED BY <2>1
<1>2. ASSUME NEW n \in 1..N, n - 1 \in S PROVE n \in S
  <2>1. PICK w : Walks(w, s, n - 1) BY <1>2
  <2> DEFINE h == [i \in 0..n |-> IF i = n THEN WalkStep(s[n], w[n - 1]) ELSE w[i]]
  <2>2. WalkStep(s[n], w[n - 1]) \in Int BY RowFacts DEF WalkStep
  <2>3. h \in [0..n -> Int] /\ h[0] = 0 BY <2>1, <2>2 DEF Walks
  <2>4. ASSUME NEW i \in 1..n PROVE h[i] = WalkStep(s[i], h[i - 1])
    <3>1. CASE i = n BY <3>1
    <3>2. CASE i # n BY <2>1, <3>2 DEF Walks
    <3>3. QED BY <3>1, <3>2
  <2>5. Walks(h, s, n)
    <3> HIDE DEF h
    <3> QED BY <2>3, <2>4 DEF Walks
  <2>6. QED BY <2>5
<1>3. 0..N \subseteq S
  <2> HIDE DEF S
  <2> QED BY <1>1, <1>2, SetInduction
<1>4. QED BY <1>3

LEMMA ExpectedNextWalks ==
    ASSUME NEW n \in Nat, NEW s, Rows(s, n), Len(s) = n
    PROVE  Walks(ExpectedNext(s), s, n)
<1> DEFINE Is(w) == w = [i \in 0..Len(s) |-> IF i = 0 THEN 0 ELSE WalkStep(s[i], w[i - 1])]
<1>1. PICK w : Walks(w, s, n) BY WalkExists
<1>2. Is(w) BY <1>1 DEF Walks
<1>3. Is(ExpectedNext(s))
  <2>1. ExpectedNext(s) = CHOOSE x : Is(x) BY DEF ExpectedNext
  <2>2. QED BY <1>2, <2>1
<1> DEFINE e == ExpectedNext(s)
<1>4. e = [i \in 0..n |-> IF i = 0 THEN 0 ELSE WalkStep(s[i], e[i - 1])] BY <1>3
<1> HIDE DEF e
<1>5. e[0] = 0 /\ \A i \in 1..n : e[i] = WalkStep(s[i], e[i - 1])
  <2>1. \A i \in 0..n : e[i] = IF i = 0 THEN 0 ELSE WalkStep(s[i], e[i - 1]) BY <1>4
  <2>2. QED BY <2>1
<1>6. e \in [0..n -> Int]
  <2>1. ASSUME NEW i \in 0..n PROVE e[i] \in Int
    <3>1. CASE i = 0 BY <1>5, <3>1
    <3>2. CASE i # 0
      <4>1. i \in 1..n BY <3>2
      <4>2. QED BY <1>5, <4>1, RowFacts DEF WalkStep
    <3>3. QED BY <3>1, <3>2
  <2>2. QED BY <1>4, <2>1
<1>7. QED BY <1>5, <1>6 DEF Walks, e

\* Once a range does not start where it should the walk never recovers.
LEMMA WalkStaysLost ==
    ASSUME NEW n \in Nat, NEW s, Rows(s, n), NEW w, Walks(w, s, n),
           NEW k \in 1..n, s[k].low # w[k - 1]
    PROVE  w[n] = -1
<1> DEFINE S == {i \in 0..n : i >= k => w[i] = -1}
<1>1. 0 \in S OBVIOUS
<1>2. ASSUME NEW i \in 1..n, i - 1 \in S PROVE i \in S
  <2>1. w[i] = WalkStep(s[i], w[i - 1]) BY DEF Walks
  <2>2. CASE i < k BY <2>2
  <2>3. CASE i = k BY <2>1, <2>3 DEF WalkStep
  <2>4. CASE i > k
    <3>1. w[i - 1] = -1 BY <1>2, <2>4
    <3>2. s[i].low \in Nat BY RowFacts
    <3>3. QED BY <2>1, <3>1, <3>2 DEF WalkStep
  <2>5. QED BY <2>2, <2>3, <2>4
<1>3. 0..n \subseteq S
  <2> HIDE DEF S
  <2> QED BY <1>1, <1>2, SetInduction
<1>4. QED BY <1>3

\* A walk that arrives has met every bucket once.
LEMMA WalkAccepts ==
    ASSUME NEW n \in Nat, NEW s, Rows(s, n), NEW w, Walks(w, s, n), w[n] = EXPECTED_BUCKETS
    PROVE  Exactly(s, n)
<1>1. ASSUME NEW i \in 1..n PROVE s[i].low = w[i - 1] /\ w[i] = s[i].high + 1
  <2>1. s[i].low = w[i - 1] BY WalkStaysLost, ShardMapAssumption
  <2>2. QED BY <2>1 DEF Walks, WalkStep
<1>2. \A i \in 0..n : w[i] \in Int BY DEF Walks
<1> DEFINE Met(i) == /\ \A j \in 1..i : s[j].high < w[i]
                     /\ \A b \in 0..w[i] - 1 : \E j \in 1..i :
                           Covers(s[j], b) /\ \A k \in 1..i : Covers(s[k], b) => k = j
           S == {i \in 0..n : Met(i)}
<1>3. 0 \in S BY DEF Walks
<1>4. ASSUME NEW i \in 1..n, i - 1 \in S PROVE i \in S
  <2>1. /\ s[i].low = w[i - 1] /\ w[i] = s[i].high + 1
        /\ s[i].low \in Nat /\ s[i].high \in Nat /\ s[i].low <= s[i].high
    BY <1>1, RowFacts
  <2>2. Met(i - 1) BY <1>4
  <2>3. \A j \in 1..i - 1 : s[j].high \in Nat BY RowFacts
  <2>4. \A j \in 1..i : s[j].high < w[i]
    <3>1. SUFFICES ASSUME NEW j \in 1..i PROVE s[j].high < w[i] OBVIOUS
    <3>2. CASE j = i BY <2>1, <3>2
    <3>3. CASE j # i
      <4>1. j \in 1..i - 1 BY <3>3
      <4>2. s[j].high < w[i - 1] /\ s[j].high \in Nat BY <2>2, <2>3, <4>1
      <4>3. QED BY <2>1, <4>2
    <3>4. QED BY <3>2, <3>3
  <2>5. ASSUME NEW b \in 0..w[i] - 1
        PROVE  \E j \in 1..i : Covers(s[j], b) /\ \A k \in 1..i : Covers(s[k], b) => k = j
    <3>1. CASE b < w[i - 1]
      <4>1. b \in 0..w[i - 1] - 1 BY <2>1, <3>1
      <4>2. PICK j \in 1..i - 1 :
               Covers(s[j], b) /\ \A k \in 1..i - 1 : Covers(s[k], b) => k = j
        BY <2>2, <4>1
      <4>3. ~Covers(s[i], b) BY <2>1, <3>1 DEF Covers
      <4>4. \A k \in 1..i : k = i \/ k \in 1..i - 1 OBVIOUS
      <4>5. j \in 1..i OBVIOUS
      <4>6. QED BY <4>2, <4>3, <4>4, <4>5
    <3>2. CASE b >= w[i - 1]
      <4>1. Covers(s[i], b) BY <2>1, <3>2 DEF Covers
      <4>2. ASSUME NEW k \in 1..i, Covers(s[k], b) PROVE k = i
        <5>1. SUFFICES ASSUME k # i PROVE FALSE OBVIOUS
        <5>2. k \in 1..i - 1 BY <5>1
        <5>3. s[k].high < w[i - 1] /\ s[k].high \in Nat BY <2>2, <2>3, <5>2
        <5>4. QED BY <2>1, <3>2, <4>2, <5>3 DEF Covers
      <4>3. QED BY <4>1, <4>2
    <3>3. QED BY <2>1, <3>1, <3>2
  <2>6. QED BY <2>4, <2>5
<1>5. 0..n \subseteq S
  <2> HIDE DEF S
  <2> QED BY <1>3, <1>4, SetInduction
<1>6. Met(n) BY <1>5
<1>7. Buckets = 0..w[n] - 1 BY DEF Buckets
<1>8. QED BY <1>6, <1>7 DEF Exactly

\* Ranges that cover every bucket once let the walk arrive.
LEMMA WalkArrives ==
    ASSUME NEW n \in Nat, NEW s, Rows(s, n), NEW w, Walks(w, s, n), Ascending(s, n), Exactly(s, n)
    PROVE  w[n] = EXPECTED_BUCKETS
<1>1. EXPECTED_BUCKETS \in Nat \ {0} BY ShardMapAssumption
<1> DEFINE Met(i) == /\ w[i] \in 0..EXPECTED_BUCKETS
                     /\ i > 0 => w[i] = s[i].high + 1
                     /\ \A j \in 1..i : s[j].high < w[i]
           S == {i \in 0..n : Met(i)}
<1>2. 0 \in S BY <1>1 DEF Walks
<1>3. ASSUME NEW i \in 1..n, i - 1 \in S PROVE i \in S
  <2>1. Met(i - 1) BY <1>3
  <2>2. /\ s[i].low \in Nat /\ s[i].high \in Nat /\ s[i].low <= s[i].high
        /\ s[i].high < EXPECTED_BUCKETS /\ s[i].low \in Buckets
    BY RowFacts
  <2>3. ~(s[i].low > w[i - 1])
    <3>1. SUFFICES ASSUME s[i].low > w[i - 1] PROVE FALSE OBVIOUS
    <3>2. w[i - 1] \in Buckets BY <1>1, <2>1, <2>2, <3>1 DEF Buckets
    <3>3. PICK j \in 1..n : Covers(s[j], w[i - 1]) BY <3>2 DEF Exactly
    <3>4. CASE j < i
      <4>1. j \in 1..i - 1 BY <3>4
      <4>2. s[j].high < w[i - 1] /\ s[j].high \in Nat BY <2>1, <4>1, RowFacts
      <4>3. QED BY <2>1, <3>3, <4>2 DEF Covers
    <3>5. CASE j >= i
      <4>1. s[i].low <= s[j].low /\ s[j].low \in Nat BY <3>5, RowFacts DEF Ascending
      <4>2. QED BY <2>1, <2>2, <3>1, <3>3, <4>1 DEF Covers
    <3>6. QED BY <3>4, <3>5
  <2>4. ~(s[i].low < w[i - 1])
    <3>1. SUFFICES ASSUME s[i].low < w[i - 1] PROVE FALSE OBVIOUS
    <3>2. i > 1
      <4>1. w[0] = 0 BY DEF Walks
      <4>2. i # 1 BY <2>2, <3>1, <4>1
      <4>3. QED BY <4>2
    <3>3. i - 1 \in 1..n /\ i - 1 > 0 /\ i - 1 < i BY <3>2
    <3>4. w[i - 1] = s[i - 1].high + 1 BY <2>1, <3>3
    <3>5. /\ s[i - 1].low <= s[i].low
          /\ s[i - 1].low \in Nat /\ s[i - 1].high \in Nat
      BY <3>3, RowFacts DEF Ascending
    <3>6. Covers(s[i - 1], s[i].low) BY <2>2, <3>1, <3>4, <3>5 DEF Covers
    <3>7. Covers(s[i], s[i].low) BY <2>2 DEF Covers
    <3>8. i - 1 = i BY <2>2, <3>3, <3>6, <3>7 DEF Exactly
    <3>9. QED BY <3>8
  <2>5. s[i].low = w[i - 1] BY <2>1, <2>2, <2>3, <2>4
  <2>6. w[i] = s[i].high + 1 BY <2>5 DEF Walks, WalkStep
  <2>7. \A j \in 1..i : s[j].high < w[i]
    <3>1. SUFFICES ASSUME NEW j \in 1..i PROVE s[j].high < w[i] OBVIOUS
    <3>2. CASE j = i BY <2>2, <2>6, <3>2
    <3>3. CASE j # i
      <4>1. j \in 1..i - 1 BY <3>3
      <4>2. s[j].high < w[i - 1] /\ s[j].high \in Nat BY <2>1, <4>1, RowFacts
      <4>3. QED BY <2>1, <2>2, <2>5, <2>6, <4>2
    <3>4. QED BY <3>2, <3>3
  <2>8. w[i] \in 0..EXPECTED_BUCKETS BY <1>1, <2>2, <2>6
  <2>9. Met(i) BY <2>6, <2>7, <2>8
  <2>10. QED BY <2>9
<1>4. 0..n \subseteq S
  <2> HIDE DEF S
  <2> QED BY <1>2, <1>3, SetInduction
<1>5. Met(n) BY <1>4
<1>6. ~(w[n] < EXPECTED_BUCKETS)
  <2>1. SUFFICES ASSUME w[n] < EXPECTED_BUCKETS PROVE FALSE OBVIOUS
  <2>2. w[n] \in Buckets BY <1>1, <1>5, <2>1 DEF Buckets
  <2>3. PICK j \in 1..n : Covers(s[j], w[n]) BY <2>2 DEF Exactly
  <2>4. s[j].high < w[n] /\ s[j].high \in Nat BY <1>5, RowFacts
  <2>5. QED BY <1>5, <2>3, <2>4 DEF Covers
<1>7. QED BY <1>1, <1>5, <1>6

-----------------------------------------------------------------------------
(* The verdict.                                                            *)

\* Sorting reorders the ranges by low and neither loses nor doubles one.
LEMMA SortedFacts ==
    ASSUME NEW ranges \in Seq(Ranges)
    PROVE  /\ Sorted(ranges) \in Seq(Ranges) /\ Len(Sorted(ranges)) = Len(ranges)
           /\ Ascending(Sorted(ranges), Len(ranges))
           /\ \E p : /\ p \in [1..Len(ranges) -> 1..Len(ranges)]
                     /\ \A i, j \in 1..Len(ranges) : p[i] = p[j] => i = j
                     /\ \A k \in 1..Len(ranges) : \E i \in 1..Len(ranges) : p[i] = k
                     /\ \A i \in 1..Len(ranges) : Sorted(ranges)[i] = ranges[p[i]]
<1> DEFINE n == Len(ranges)
           lows == [i \in 1..n |-> ranges[i].low]
           Good(q) == \A i, j \in 1..n : i < j => ranges[q[i]].low <= ranges[q[j]].low
           p == CHOOSE q \in Bijection(1..n, 1..n) : Good(q)
<1>1. n \in Nat /\ \A i \in 1..n : ranges[i] \in Ranges OBVIOUS
<1>2. lows \in [1..n -> Int] BY <1>1 DEF Ranges
<1>3. PICK q : Sorts(q, n, lows)
  <2> HIDE DEF lows, n
  <2> QED BY <1>1, <1>2, SortExists
<1>4. q \in Bijection(1..n, 1..n)
  <2> HIDE DEF lows, n
  <2> QED BY <1>3 DEF Sorts, Bijection, Injection, Surjection, IsInjective
<1>5. Good(q)
  <2>1. ASSUME NEW i \in 1..n, NEW j \in 1..n, i < j PROVE ranges[q[i]].low <= ranges[q[j]].low
    <3>1. lows[q[i]] <= lows[q[j]] BY <1>3, <2>1 DEF Sorts
    <3>2. q[i] \in 1..n /\ q[j] \in 1..n BY <1>3 DEF Sorts
    <3>3. QED BY <3>1, <3>2
  <2>2. QED BY <2>1
<1>6. p \in Bijection(1..n, 1..n) /\ Good(p)
  <2> HIDE DEF Good
  <2> QED BY <1>4, <1>5
<1>7. Sorted(ranges) = [i \in 1..n |-> ranges[p[i]]] BY DEF Sorted
<1> HIDE DEF p
<1>8. /\ p \in [1..n -> 1..n]
      /\ \A i, j \in 1..n : p[i] = p[j] => i = j
      /\ \A k \in 1..n : \E i \in 1..n : p[i] = k
  <2> HIDE DEF n
  <2> QED BY <1>6 DEF Bijection, Injection, Surjection, IsInjective
<1> DEFINE s == Sorted(ranges)
<1>9. \A i \in 1..n : s[i] = ranges[p[i]] /\ s[i] \in Ranges BY <1>1, <1>7, <1>8
<1>10. s \in Seq(Ranges) /\ Len(s) = n
  <2>1. s = [i \in 1..n |-> s[i]] BY <1>7
  <2> HIDE DEF s, n
  <2>2. QED BY <1>1, <1>9, <2>1
<1>11. Ascending(s, n)
  <2> HIDE DEF s, n
  <2> QED BY <1>6, <1>9 DEF Ascending
<1>12. QED BY <1>8, <1>9, <1>10, <1>11

\* The walk over in-bounds ranges arrives exactly if they cover every bucket
\* once, whatever order they are listed in.
LEMMA TilesIff ==
    ASSUME NEW ranges \in Seq(Ranges), \A i \in 1..Len(ranges) : ~OutOfBounds(ranges[i])
    PROVE  Tiles(ranges) <=> Exactly(ranges, Len(ranges))
<1> DEFINE n == Len(ranges)  s == Sorted(ranges)  w == ExpectedNext(s)
<1>1. n \in Nat /\ s \in Seq(Ranges) /\ Len(s) = n /\ Ascending(s, n) BY SortedFacts
<1>2. PICK p : /\ p \in [1..n -> 1..n]
               /\ \A i, j \in 1..n : p[i] = p[j] => i = j
               /\ \A k \in 1..n : \E i \in 1..n : p[i] = k
               /\ \A i \in 1..n : s[i] = ranges[p[i]]
  BY SortedFacts
<1>3. \A i \in 1..n : ~OutOfBounds(ranges[i]) OBVIOUS
<1>4. Tiles(ranges) <=> w[n] = EXPECTED_BUCKETS BY DEF Tiles
<1> HIDE DEF n, s
<1>5. Rows(s, n)
  <2>1. s \in [1..n -> Ranges] BY <1>1
  <2>2. ASSUME NEW i \in 1..n PROVE ~OutOfBounds(s[i])
    <3>1. p[i] \in 1..n /\ s[i] = ranges[p[i]] BY <1>2
    <3>2. QED BY <1>3, <3>1
  <2>3. QED BY <2>1, <2>2 DEF Rows
<1>6. Walks(w, s, n) BY <1>1, <1>5, ExpectedNextWalks
<1> HIDE DEF w
<1>7. w[n] = EXPECTED_BUCKETS <=> Exactly(s, n) BY <1>1, <1>5, <1>6, WalkAccepts, WalkArrives
<1>8. Exactly(s, n) => Exactly(ranges, n)
  <2>1. SUFFICES ASSUME Exactly(s, n), NEW b \in Buckets
                 PROVE  \E i \in 1..n : /\ Covers(ranges[i], b)
                                        /\ \A j \in 1..n : Covers(ranges[j], b) => j = i
    BY DEF Exactly
  <2>2. PICK i \in 1..n : Covers(s[i], b) /\ \A j \in 1..n : Covers(s[j], b) => j = i
    BY <2>1 DEF Exactly
  <2>3. p[i] \in 1..n /\ Covers(ranges[p[i]], b) BY <1>2, <2>2
  <2>4. ASSUME NEW j \in 1..n, Covers(ranges[j], b) PROVE j = p[i]
    <3>1. PICK k \in 1..n : p[k] = j BY <1>2
    <3>2. Covers(s[k], b) BY <1>2, <2>4, <3>1
    <3>3. QED BY <2>2, <3>1, <3>2
  <2>5. QED BY <2>3, <2>4
<1>9. Exactly(ranges, n) => Exactly(s, n)
  <2>1. SUFFICES ASSUME Exactly(ranges, n), NEW b \in Buckets
                 PROVE  \E i \in 1..n : Covers(s[i], b) /\ \A j \in 1..n : Covers(s[j], b) => j = i
    BY DEF Exactly
  <2>2. PICK k \in 1..n : /\ Covers(ranges[k], b)
                          /\ \A j \in 1..n : Covers(ranges[j], b) => j = k
    BY <2>1 DEF Exactly
  <2>3. PICK i \in 1..n : p[i] = k BY <1>2
  <2>4. Covers(s[i], b) BY <1>2, <2>2, <2>3
  <2>5. ASSUME NEW j \in 1..n, Covers(s[j], b) PROVE j = i
    <3>1. p[j] \in 1..n /\ Covers(ranges[p[j]], b) BY <1>2, <2>5
    <3>2. p[j] = p[i] BY <2>2, <2>3, <3>1
    <3>3. QED BY <1>2, <3>2
  <2>6. QED BY <2>4, <2>5
<1>10. QED BY <1>4, <1>7, <1>8, <1>9 DEF n

\* Which ranges pass the checks before the walk.
LEMMA RangeOk ==
    ASSUME NEW r \in Ranges
    PROVE  RangeError(r) = "ok" <=> r.host \in Hosts /\ ~OutOfBounds(r)
<1>1. r.host \in Hosts \/ r.host = EmptyHost \/ r.host = NotAuthority BY DEF Ranges
<1>2. QED BY <1>1, ShardMapAssumption DEF RangeError

\* validateShardMap accepts a map, of any length and in any order, exactly if
\* it partitions the buckets: no gap, overlap or overrun gets through, ties in
\* the sort included, and no good map is refused.
THEOREM ValidatorExact == \A m \in Maps : ValidateShardMap(m) = "ok" <=> Partition(m)
<1> SUFFICES ASSUME NEW m \in Maps PROVE ValidateShardMap(m) = "ok" <=> Partition(m)
  OBVIOUS
<1> DEFINE ranges == m.ranges
           bad == {i \in DOMAIN ranges : RangeError(ranges[i]) # "ok"}
<1>1. m.version \in Int /\ ranges \in Seq(Ranges) BY DEF Maps
<1>2. DOMAIN ranges = 1..Len(ranges) /\ \A i \in 1..Len(ranges) : ranges[i] \in Ranges
  BY <1>1
<1>3. CASE m.version < 0 BY <1>1, <1>3 DEF ValidateShardMap, Partition
<1>4. CASE m.version >= 0 /\ ranges = << >>
  BY <1>1, <1>4 DEF ValidateShardMap, Partition
<1>5. CASE m.version >= 0 /\ ranges # << >> /\ bad # {}
  <2>1. bad \in SUBSET Nat BY <1>2
  <2>2. Min(bad) \in bad
    <3> HIDE DEF bad
    <3> QED BY <1>5, <2>1, SmallestOf
  <2>3. ValidateShardMap(m) = RangeError(ranges[Min(bad)])
    BY <1>1, <1>5 DEF ValidateShardMap
  <2>4. ValidateShardMap(m) # "ok" BY <2>2, <2>3
  <2>5. ~Partition(m) BY <1>2, <2>2, RangeOk DEF Partition
  <2>6. QED BY <2>4, <2>5
<1>6. CASE m.version >= 0 /\ ranges # << >> /\ bad = {}
  <2>1. ValidateShardMap(m) = IF Tiles(ranges) THEN "ok" ELSE "gapOrOverlap"
    BY <1>1, <1>6 DEF ValidateShardMap
  <2>2. \A i \in 1..Len(ranges) : ranges[i].host \in Hosts /\ ~OutOfBounds(ranges[i])
    BY <1>2, <1>6, RangeOk
  <2>3. Tiles(ranges) <=> Exactly(ranges, Len(ranges)) BY <1>1, <2>2, TilesIff
  <2>4. Partition(m) <=> Exactly(ranges, Len(ranges)) BY <1>2, <1>6, <2>2 DEF Partition, Exactly
  <2>5. QED BY <2>1, <2>3, <2>4
<1>7. QED BY <1>1, <1>3, <1>4, <1>5, <1>6

\* Under an accepted map a bucket lies in one range; the lookup finds that
\* range's host, and the gate of that host, and of no other, has the bucket.
LEMMA LookupFinds ==
    ASSUME NEW m \in Maps, Partition(m), NEW b \in Buckets
    PROVE  \E h \in Hosts : /\ HostForBucket(m.ranges, b) = h
                            /\ \A g \in Hosts : b \in OwnedBuckets(m.ranges, g) <=> g = h
<1> DEFINE covering == {i \in DOMAIN m.ranges : Covers(m.ranges[i], b)}
<1>1. DOMAIN m.ranges \in SUBSET Nat BY DEF Maps
<1>2. PICK i \in DOMAIN m.ranges :
         Covers(m.ranges[i], b) /\ \A j \in DOMAIN m.ranges : Covers(m.ranges[j], b) => j = i
  BY DEF Partition
<1>3. m.ranges[i].host \in Hosts BY DEF Partition
<1>4. covering = {i} BY <1>2
<1>5. Min(covering) = i
  <2>1. covering \in SUBSET Nat BY <1>1
  <2> HIDE DEF covering
  <2>2. QED BY <1>4, <2>1, SmallestOf
<1>6. HostForBucket(m.ranges, b) = m.ranges[i].host BY <1>4, <1>5 DEF HostForBucket
<1>7. ASSUME NEW g \in Hosts
      PROVE  b \in OwnedBuckets(m.ranges, g) <=> g = m.ranges[i].host
  BY <1>2 DEF OwnedBuckets
<1>8. QED BY <1>3, <1>6, <1>7

\* Hosts that hold the same accepted map never own the same bucket, and no
\* bucket is left without an owner: a lookup names the one host that admits it.
THEOREM OneOwnerPerBucket ==
  \A m \in Maps : ValidateShardMap(m) = "ok" =>
       \A b \in Buckets : \E h \in Hosts :
          /\ HostForBucket(m.ranges, b) = h
          /\ \A g \in Hosts : b \in OwnedBuckets(m.ranges, g) <=> g = h
BY LookupFinds, ValidatorExact

\* The verdict given is the validator's of this map.
Judged == map \in Maps /\ verdict \in {"none", ValidateShardMap(map)}

LEMMA MapJudged == MapSpec => []Judged
<1>1. MapInit => Judged
  <2>1. SUFFICES ASSUME MapInit PROVE Judged OBVIOUS
  <2>2. NearRanges \subseteq Ranges BY DEF NearRanges, Ranges
  <2>3. PICK n \in 0..MaxRanges : map.ranges \in [1..n -> NearRanges] BY <2>1 DEF MapInit
  <2>4. map.ranges \in [1..n -> Ranges] BY <2>2, <2>3
  <2>5. map.ranges \in Seq(Ranges) BY <2>4, MapCheckAssumption
  <2>6. map \in Maps BY <2>1, <2>5 DEF MapInit, Maps
  <2>7. QED BY <2>1, <2>6 DEF MapInit, Judged
<1>2. Judged /\ [Validate]_<<map, verdict>> => Judged' BY DEF Judged, Validate
<1>3. QED BY <1>1, <1>2, PTL DEF MapSpec

\* validateShardMap accepts exactly the maps that partition the bucket space.
THEOREM AcceptedArePartitions == MapSpec => []ValidIffPartition
<1>1. Judged => ValidIffPartition
  <2>1. SUFFICES ASSUME Judged, verdict # "none" PROVE (verdict = "ok") = Partition(map)
    BY DEF ValidIffPartition
  <2>2. map \in Maps /\ verdict = ValidateShardMap(map) BY <2>1 DEF Judged
  <2>3. verdict = "ok" <=> Partition(map) BY <2>2, ValidatorExact
  <2>4. Partition(map) \in BOOLEAN BY DEF Partition
  <2>5. QED BY <2>3, <2>4
<1>2. QED BY <1>1, MapJudged, PTL

\* hostForBucket and ownedBuckets agree on every accepted map.
THEOREM LookupAgrees == MapSpec => []LookupAgreesWithGate
<1>1. Judged => LookupAgreesWithGate
  <2>1. SUFFICES ASSUME Judged, verdict = "ok", NEW b \in Buckets, NEW h \in Hosts
                 PROVE  (HostForBucket(map.ranges, b) = h) = (b \in OwnedBuckets(map.ranges, h))
    BY DEF LookupAgreesWithGate
  <2>2. map \in Maps /\ ValidateShardMap(map) = "ok" BY <2>1 DEF Judged
  <2>3. QED BY <2>2, OneOwnerPerBucket
<1>2. QED BY <1>1, MapJudged, PTL


-----------------------------------------------------------------------------
(* Arithmetic and cardinality.                                             *)

LEMMA MinOfTwo ==
    ASSUME NEW a \in Nat, NEW b \in Nat
    PROVE  Min({a, b}) = IF a <= b THEN a ELSE b
<1>1. {a, b} \in SUBSET Nat /\ {a, b} # {} OBVIOUS
<1>2. Min({a, b}) \in {a, b} /\ \A y \in {a, b} : Min({a, b}) <= y BY <1>1, SmallestOf
<1>3. QED BY <1>2

\* Tokens at the start of a run: what there is, up to the cap.
LEMMA RefillIs ==
    ASSUME tokens \in Nat, accrued \in Nat
    PROVE  Refill = IF Cap <= tokens + accrued THEN Cap ELSE tokens + accrued
<1>1. Cap \in Nat /\ tokens + accrued \in Nat BY ShardHostAssumption DEF Cap
<1>2. QED BY <1>1, MinOfTwo DEF Refill

\* Cap is the larger of the two rate constants, so it covers one whole token.
LEMMA CapFacts == Cap \in Nat /\ RateNum <= Cap /\ RateDen <= Cap
BY ShardHostAssumption DEF Cap

\* What a pass costs is a natural number: rooms are finitely many.
LEMMA PassCost ==
    ASSUME TypeOK, NEW E \in SUBSET live
    PROVE  Cardinality(E) * RateDen \in Nat
<1>1. IsFiniteSet(E)
  BY FS_Subset, ShardHostAssumption DEF TypeOK
<1>2. Cardinality(E) \in Nat
  BY <1>1, FS_CardinalityType
<1>. QED
  BY <1>2, ShardHostAssumption

-----------------------------------------------------------------------------
(* Type correctness.                                                       *)

LEMMA TypeInit == Init => TypeOK
BY ShardHostAssumption, CapFacts DEF Init, TypeOK

\* One run of the scheduler keeps the types: the token bucket stays within its
\* capacity because a pass spends no more than the refill gave it.
LEMMA TypeRun == TypeOK /\ Run => TypeOK'
<1>. SUFFICES ASSUME TypeOK, Run PROVE TypeOK'
  OBVIOUS
<1>1. PICK D \in SUBSET draining, E \in SUBSET live :
          /\ Pass(D, E)
          /\ live' = live \ E
          /\ draining' = draining \ D
          /\ evicted' = [b \in Buckets |->
                IF b \in D THEN {} ELSE evicted[b] \cup {r \in E : BucketOf[r] = b}]
          /\ tokens' = Refill - Cardinality(E) * RateDen
          /\ debt' = debt + Cardinality(E) * RateDen
  BY DEF Run
<1>2. PICK cost \in Nat : cost = Cardinality(E) * RateDen
  BY PassCost
<1>3. tokens' \in 0..Cap /\ debt' \in Nat
  BY <1>1, <1>2, CapFacts, RefillIs DEF Pass, TypeOK
<1>4. evicted' \in [Buckets -> SUBSET Rooms]
  <2>1. E \subseteq Rooms
    BY DEF TypeOK
  <2>. QED
    BY <1>1, <2>1 DEF TypeOK
<1>5. accrued' \in 0..Cap
  BY CapFacts DEF Run
<1>. QED
  BY <1>1, <1>3, <1>4, <1>5 DEF Run, TypeOK, store

\* A version that is adopted is a natural number: the validator refuses others.
LEMMA AdoptsNatural ==
    ASSUME NEW m \in Published, ValidateShardMap(m) = "ok"
    PROVE  m \in Maps /\ Partition(m) /\ m.version \in Nat
<1>1. m \in Maps BY ShardHostAssumption
<1>2. Partition(m) BY <1>1, ValidatorExact
<1>3. QED BY <1>1, <1>2 DEF Maps, Partition

LEMMA TypeStep == TypeOK /\ [Next]_vars => TypeOK'
<1>. SUFFICES ASSUME TypeOK, [Next]_vars PROVE TypeOK'
  OBVIOUS
<1>. USE ShardHostAssumption, CapFacts DEF TypeOK
<1>1. ASSUME NEW m \in Published, Adopt(m) PROVE TypeOK'
  <2>1. owned' \in SUBSET Buckets /\ version' \in Nat
    BY <1>1, AdoptsNatural DEF Adopt, OwnedBuckets
  <2>2. defer' \in [Buckets -> 0..DrainDelay]
    BY <1>1 DEF Adopt, ApplyDiff
  <2>3. evicted' \in [Buckets -> SUBSET Rooms]
    BY <1>1 DEF Adopt, ApplyDiff
  <2>. QED
    BY <1>1, <2>1, <2>2, <2>3 DEF Adopt, ApplyDiff, meter
<1>2. CASE BootFetchFails
  BY <1>2 DEF BootFetchFails, store, episodes, meter
<1>3. CASE Restart
  BY <1>3 DEF Restart
<1>4. ASSUME NEW r \in Rooms, HandleUpgrade(r) \/ Disconnect(r) \/ HttpGate(r) \/ HttpRun(r)
      PROVE TypeOK'
  BY <1>4 DEF HandleUpgrade, Disconnect, HttpGate, HttpRun, store, episodes, meter
<1>5. CASE Run
  BY <1>5, TypeRun
<1>6. CASE Tick
  <2>1. defer' \in [Buckets -> 0..DrainDelay]
    BY <1>6 DEF Tick
  <2>. QED
    BY <1>6, <2>1, MinOfTwo DEF Tick, store
<1>7. CASE UNCHANGED vars
  BY <1>7 DEF vars, store, episodes, meter
<1>. QED
  BY <1>1, <1>2, <1>3, <1>4, <1>5, <1>6, <1>7 DEF Next

\* Every state of a host is well typed; in particular the token bucket never
\* holds more than its capacity (drainScheduler.js, _cap).
THEOREM TypeCorrect == Spec => []TypeOK
BY TypeInit, TypeStep, PTL DEF Spec

-----------------------------------------------------------------------------
(* Ownership.                                                              *)

\* An episode records rooms of its own bucket.
EvictedOfBucket == \A b \in Buckets : \A r \in evicted[b] : BucketOf[r] = b

\* The inductive invariant: a room served is owned or draining, no bucket is
\* both, and an episode's evicted rooms are gone.  The last two are what make
\* the first survive a map change and the end of an episode.
Ownership ==
    /\ LiveIsOwnedOrDraining
    /\ DrainSparesOwned
    /\ EvictedOnce
    /\ EvictedOfBucket

\* A completed episode leaves no live room of its bucket behind.
LEMMA CompletedIsEmpty ==
    ASSUME NEW D \in SUBSET draining, NEW E, Pass(D, E), EvictedOnce, NEW b \in D
    PROVE  RoomsIn(b) \subseteq E
BY DEF Pass, Pending, RoomsIn, EvictedOnce

LEMMA OwnershipRun ==
    ASSUME TypeOK, Ownership, Run
    PROVE  Ownership'
<1>1. PICK D \in SUBSET draining, E \in SUBSET live :
          /\ Pass(D, E)
          /\ live' = live \ E
          /\ draining' = draining \ D
          /\ evicted' = [b \in Buckets |->
                IF b \in D THEN {} ELSE evicted[b] \cup {r \in E : BucketOf[r] = b}]
  BY DEF Run
<1>2. owned' = owned
  BY DEF Run, store
<1>3. LiveIsOwnedOrDraining'
  <2>1. SUFFICES ASSUME NEW r \in live, r \notin E PROVE BucketOf[r] \in owned' \cup draining'
    BY <1>1 DEF LiveIsOwnedOrDraining
  <2>2. BucketOf[r] \notin D
    BY <1>1, <2>1, CompletedIsEmpty DEF RoomsIn, Ownership
  <2>. QED
    BY <1>1, <1>2, <2>2 DEF Ownership, LiveIsOwnedOrDraining
<1>4. DrainSparesOwned'
  BY <1>1, <1>2 DEF Ownership, DrainSparesOwned
<1>5. EvictedOnce'
  BY <1>1 DEF Ownership, EvictedOnce, TypeOK
<1>6. EvictedOfBucket'
  BY <1>1 DEF Ownership, EvictedOfBucket, TypeOK
<1>. QED
  BY <1>3, <1>4, <1>5, <1>6 DEF Ownership

LEMMA OwnershipStep == TypeOK /\ Ownership /\ [Next]_vars => Ownership'
<1>. SUFFICES ASSUME TypeOK, Ownership, [Next]_vars PROVE Ownership'
  OBVIOUS
<1>. USE DEF Ownership, LiveIsOwnedOrDraining, DrainSparesOwned, EvictedOnce, EvictedOfBucket
<1>1. ASSUME NEW m \in Published, Adopt(m) PROVE Ownership'
  <2>1. /\ live' = live
        /\ draining' = (draining \cup (owned \ owned')) \ (owned' \ owned)
    BY <1>1 DEF Adopt, ApplyDiff
  <2>2. LiveIsOwnedOrDraining'
    BY <2>1
  <2>3. DrainSparesOwned'
    BY <2>1
  <2>4. EvictedOnce'
    BY <1>1, <2>1, ShardHostAssumption DEF Adopt, ApplyDiff, TypeOK
  <2>5. EvictedOfBucket'
    BY <1>1, ShardHostAssumption DEF Adopt, ApplyDiff, TypeOK
  <2>. QED
    BY <2>2, <2>3, <2>4, <2>5
<1>2. CASE BootFetchFails
  BY <1>2 DEF BootFetchFails, store, episodes
<1>3. CASE Restart
  BY <1>3 DEF Restart
<1>4. ASSUME NEW r \in Rooms, HandleUpgrade(r) \/ Disconnect(r) \/ HttpGate(r) \/ HttpRun(r)
      PROVE Ownership'
  <2>1. CASE HandleUpgrade(r)
    <3>1. \A b \in draining : r \notin evicted[b]
      BY <2>1 DEF HandleUpgrade, OwnershipGate, TypeOK
    <3>. QED
      BY <2>1, <3>1 DEF HandleUpgrade, OwnershipGate, store, episodes
  <2>2. CASE Disconnect(r) \/ HttpGate(r) \/ HttpRun(r)
    BY <2>2 DEF Disconnect, HttpGate, HttpRun, store, episodes
  <2>. QED
    BY <1>4, <2>1, <2>2
<1>5. CASE Run
  BY <1>5, OwnershipRun
<1>6. CASE Tick
  BY <1>6 DEF Tick, store
<1>7. CASE UNCHANGED vars
  BY <1>7 DEF vars, store, episodes
<1>. QED
  BY <1>1, <1>2, <1>3, <1>4, <1>5, <1>6, <1>7 DEF Next

LEMMA OwnershipAlways == Spec => []Ownership
<1>1. Init => Ownership
  BY DEF Init, Ownership, LiveIsOwnedOrDraining, DrainSparesOwned, EvictedOnce, EvictedOfBucket
<1>. QED
  BY <1>1, OwnershipStep, TypeCorrect, PTL DEF Spec

\* A host never serves a room of a bucket that it neither owns nor drains: a
\* map change strands no room, in whatever order versions reach the host.
THEOREM NoStrandedRoom == Spec => []LiveIsOwnedOrDraining
BY OwnershipAlways, PTL DEF Ownership

\* The drain scheduler never holds an episode for a bucket the host owns, so
\* re-acquiring a bucket cancels its drain (drainScheduler.js, reacquire).
THEOREM ReacquireCancels == Spec => []DrainSparesOwned
BY OwnershipAlways, PTL DEF Ownership

\* No room is closed twice by one drain episode (drainScheduler.js, run).
THEOREM EvictionOnce == Spec => []EvictedOnce
BY OwnershipAlways, PTL DEF Ownership

-----------------------------------------------------------------------------
(* Pacing.                                                                 *)

\* What can still be spent at once, together with what was spent and not yet
\* paid for, never exceeds the capacity.
Paced == Refill + debt <= Cap

LEMMA PacedStep == TypeOK /\ Paced /\ [Next]_vars => Paced'
<1>. SUFFICES ASSUME TypeOK, Paced, [Next]_vars PROVE Paced'
  OBVIOUS
<1>. DEFINE Now == IF Cap <= tokens + accrued THEN Cap ELSE tokens + accrued
<1>a. Refill = Now
  BY RefillIs, CapFacts DEF TypeOK
<1>b. tokens' \in 0..Cap /\ accrued' \in 0..Cap /\ debt' \in Nat
  BY TypeStep DEF TypeOK
<1>c. Refill' = Now'
  <2>1. Cap' = Cap
    BY DEF Cap
  <2>2. ASSUME NEW t \in 0..Cap, NEW a \in 0..Cap
        PROVE  Min({Cap, t + a}) = IF Cap <= t + a THEN Cap ELSE t + a
    BY CapFacts, MinOfTwo
  <2>3. Refill' = Min({Cap, tokens' + accrued'})
    BY <2>1 DEF Refill
  <2>. QED
    BY <1>b, <2>1, <2>2, <2>3
<1>d. Now + debt <= Cap
  BY <1>a DEF Paced
<1>e. SUFFICES Now' + debt' <= Cap
  BY <1>c DEF Paced
<1>. USE <1>a, <1>b, <1>d, CapFacts DEF TypeOK
<1>1. CASE UNCHANGED meter
  BY <1>1 DEF meter
<1>2. CASE Restart
  BY <1>2 DEF Restart
<1>3. CASE Run
  <2>1. PICK E \in SUBSET live :
            /\ Cardinality(E) * RateDen <= Refill
            /\ tokens' = Refill - Cardinality(E) * RateDen
            /\ debt' = debt + Cardinality(E) * RateDen
    BY <1>3 DEF Run, Pass
  <2>2. PICK cost \in Nat : cost = Cardinality(E) * RateDen
    BY PassCost
  <2>3. accrued' = 0
    BY <1>3 DEF Run
  <2>. QED
    BY <2>1, <2>2, <2>3
<1>4. CASE Tick
  <2>1. RateNum \in Nat
    BY ShardHostAssumption
  <2>2. accrued' = IF Cap <= accrued + RateNum THEN Cap ELSE accrued + RateNum
    BY <1>4, <2>1, MinOfTwo DEF Tick
  <2>. QED
    BY <1>4, <2>1, <2>2 DEF Tick
<1>. QED
  BY <1>1, <1>2, <1>3, <1>4 DEF Next, vars, meter, Adopt, BootFetchFails,
     HandleUpgrade, Disconnect, HttpGate, HttpRun

\* The scheduler keeps to RESHARD_EVICTION_RATE over every window of time: at
\* most Cap + k * rate evictions in any k seconds, runs delayed or bunched.
THEOREM DrainIsPaced == Spec => []EvictionPaced
<1>1. Init => Paced
  BY CapFacts, RefillIs DEF Init, Paced
<1>2. TypeOK /\ Paced => EvictionPaced
  BY CapFacts, RefillIs DEF Paced, TypeOK, EvictionPaced
<1>. QED
  BY <1>1, <1>2, PacedStep, TypeCorrect, PTL DEF Spec

-----------------------------------------------------------------------------
(* The gate and the map.                                                   *)

\* What is kept in memory is the own set of a published map that validates.
HoldsMap ==
    phase = "up" =>
        \E m \in Published :
            /\ ValidateShardMap(m) = "ok" /\ m.version = version
            /\ owned = OwnedBuckets(m.ranges, SelfHost)

LEMMA HoldsMapStep == HoldsMap /\ [Next]_vars => HoldsMap'
<1>. SUFFICES ASSUME HoldsMap, [Next]_vars PROVE HoldsMap'
  OBVIOUS
<1>1. ASSUME NEW m \in Published, Adopt(m) PROVE HoldsMap'
  BY <1>1 DEF Adopt, HoldsMap
<1>2. CASE BootFetchFails \/ Restart
  BY <1>2 DEF BootFetchFails, Restart, HoldsMap
<1>3. CASE UNCHANGED <<phase, store>>
  BY <1>3 DEF store, HoldsMap
<1>. QED
  BY <1>1, <1>2, <1>3 DEF Next, vars, HandleUpgrade, Disconnect, HttpGate, HttpRun, Run, Tick

\* The ownership gate admits a room exactly if a lookup in the map the host
\* holds names this host, and that map is a published one that validates: no
\* sequence of stale, reordered or bad answers makes the gate and the clients
\* disagree about one map (shardMapStore.js applyFetched, admission.js).
THEOREM GateIsTheMap == Spec => []GateFollowsLookup
<1>1. Init => HoldsMap
  BY DEF Init, HoldsMap
<1>2. HoldsMap => GateFollowsLookup
  <2>1. SUFFICES ASSUME HoldsMap, phase = "up" PROVE GateFollowsLookup
    BY DEF GateFollowsLookup
  <2>2. PICK m \in Published :
           /\ ValidateShardMap(m) = "ok" /\ m.version = version
           /\ owned = OwnedBuckets(m.ranges, SelfHost)
    BY <2>1 DEF HoldsMap
  <2>3. ASSUME NEW r \in Rooms
        PROVE  OwnershipGate(r) <=> HostForBucket(m.ranges, BucketOf[r]) = SelfHost
    <3>1. BucketOf[r] \in Buckets /\ SelfHost \in Hosts /\ m \in Maps
      BY ShardHostAssumption
    <3>2. PICK h \in Hosts :
             /\ HostForBucket(m.ranges, BucketOf[r]) = h
             /\ \A g \in Hosts : BucketOf[r] \in OwnedBuckets(m.ranges, g) <=> g = h
      BY <2>2, <3>1, OneOwnerPerBucket
    <3>3. OwnershipGate(r) <=> BucketOf[r] \in OwnedBuckets(m.ranges, SelfHost)
      BY <2>1, <2>2 DEF OwnershipGate
    <3>4. QED BY <3>1, <3>2, <3>3
  <2>4. QED BY <2>2, <2>3 DEF GateFollowsLookup
<1>. QED
  BY <1>1, <1>2, HoldsMapStep, PTL DEF Spec
=============================================================================
