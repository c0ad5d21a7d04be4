-------------------------- MODULE DashboardProofs --------------------------
(***************************************************************************)
(* Dashboard, for any bins, windows, slots, retention and number of        *)
(* scrapes in flight.                                                      *)
(*                                                                         *)
(* The sums a page shows are recursive functions of the rows; what they    *)
(* add up to follows from SetInduction, an induction over a set of times.  *)
(* The invariant is Ordered: a sample, whether in the table or still in    *)
(* flight, was rendered from counters that were a stage of the one run of  *)
(* the relay, so of two samples one follows the other.  Where the times    *)
(* agree with that order, the steps between neighbours telescope.          *)
(***************************************************************************)
EXTENDS Dashboard, FiniteSetTheorems, WellFoundedInduction, TLAPS

-----------------------------------------------------------------------------
(* Running sums.  The induction is over a set of numbers, by its smallest  *)
(* missing element.                                                        *)

LEMMA SetInduction ==
  ASSUME NEW N \in Nat, NEW S, 0 \in S, \A n \in 1..N : n - 1 \in S => n \in S
  PROVE  0..N \subseteq S
  <1> DEFINE T == {n \in 0..N : n \notin S}
  <1>1. SUFFICES ASSUME T # {} PROVE FALSE
    OBVIOUS
  <1>2. T \subseteq Nat OBVIOUS
  <1>3. \E x \in T : \A y \in T : ~(y < x)
    <2>1. IsWellFoundedOn({ss \in Nat \X Nat : ss[1] < ss[2]}, Nat)
      BY NatLessThanWellFounded DEF OpToRel
    <2>2. \E x \in T : \A y \in T : ~(<<y, x>> \in {ss \in Nat \X Nat : ss[1] < ss[2]})
      <3> HIDE DEF T
      <3> QED BY <1>1, <1>2, <2>1, WFMin
    <2>3. QED BY <1>2, <2>2
  <1>4. PICK x \in T : \A y \in T : ~(y < x) BY <1>3
  <1>5. x \in 1..N BY <1>4
  <1>6. x - 1 \notin T BY <1>4, <1>5
  <1>7. QED BY <1>4, <1>5, <1>6

\* g adds up f from 0 to n.
AddsUp(g, f, n) ==
    /\ g \in [0..n -> Int]
    /\ g[0] = f[0]
    /\ \A a \in 1..n : g[a] = g[a - 1] + f[a]

LEMMA SumsExist ==
  ASSUME NEW N \in Nat, NEW f \in [0..N -> Int]
  PROVE  \E g : AddsUp(g, f, N)
  <1> DEFINE S == {n \in 0..N : \E g : AddsUp(g, f, n)}
  <1>1. 0 \in S
    <2>1. AddsUp([a \in 0..0 |-> f[0]], f, 0) BY DEF AddsUp
    <2>2. QED BY <2>1
  <1>2. ASSUME NEW n \in 1..N, n - 1 \in S PROVE n \in S
    <2>1. PICK g : AddsUp(g, f, n - 1) BY <1>2
    <2> DEFINE h == [a \in 0..n |-> IF a = n THEN g[n - 1] + f[n] ELSE g[a]]
    <2>2. h \in [0..n -> Int] BY <2>1 DEF AddsUp
    <2>3. h[0] = f[0] BY <2>1 DEF AddsUp
    <2>4. ASSUME NEW a \in 1..n PROVE h[a] = h[a - 1] + f[a]
      <3>1. CASE a = n BY <3>1
      <3>2. CASE a # n BY <2>1, <3>2 DEF AddsUp
      <3>3. QED BY <3>1, <3>2
    <2>5. AddsUp(h, f, n)
      <3> HIDE DEF h
      <3> QED BY <2>2, <2>3, <2>4 DEF AddsUp
    <2>6. QED BY <2>5
  <1>3. 0..N \subseteq S
    <2> HIDE DEF S
    <2> QED BY <1>1, <1>2, SetInduction
  <1>4. QED BY <1>3

LEMMA SumsAddUp ==
  ASSUME NEW N \in Nat, NEW f \in [0..N -> Int]
  PROVE  AddsUp(Sums(f), f, N)
  <1> DEFINE Is(g) == g = [a \in DOMAIN f |-> IF a = 0 THEN f[0] ELSE g[a - 1] + f[a]]
  <1>1. \E g : Is(g)
    <2>1. PICK g : AddsUp(g, f, N) BY SumsExist
    <2>2. Is(g) BY <2>1 DEF AddsUp
    <2>3. QED BY <2>2
  <1>2. Is(Sums(f))
    <2>1. Sums(f) = CHOOSE g : Is(g) BY DEF Sums
    <2>2. QED BY <1>1, <2>1
  <1>3. Sums(f)[0] = f[0] /\ \A a \in 1..N : Sums(f)[a] = Sums(f)[a - 1] + f[a]
    <2> DEFINE h == Sums(f)
    <2>1. h = [a \in 0..N |-> IF a = 0 THEN f[0] ELSE h[a - 1] + f[a]] BY <1>2
    <2> HIDE DEF h
    <2>2. \A a \in 0..N : h[a] = IF a = 0 THEN f[0] ELSE h[a - 1] + f[a] BY <2>1
    <2>3. h[0] = f[0] /\ \A a \in 1..N : h[a] = h[a - 1] + f[a] BY <2>2
    <2>4. QED BY <2>3 DEF h
  <1>4. Sums(f) \in [0..N -> Int]
    <2> DEFINE S == {n \in 0..N : Sums(f)[n] \in Int}
    <2>1. 0 \in S BY <1>3
    <2>2. \A n \in 1..N : n - 1 \in S => n \in S BY <1>3
    <2>3. 0..N \subseteq S
      <3> HIDE DEF S
      <3> QED BY <2>1, <2>2, SetInduction
    <2>4. QED BY <1>2, <2>3
  <1>5. QED BY <1>3, <1>4 DEF AddsUp

LEMMA SumsNat ==
  ASSUME NEW N \in Nat, NEW f \in [0..N -> Nat]
  PROVE  Sums(f)[N] \in Nat
  <1> DEFINE S == {n \in 0..N : Sums(f)[n] \in Nat}
  <1>1. AddsUp(Sums(f), f, N) BY SumsAddUp
  <1>2. 0 \in S BY <1>1 DEF AddsUp
  <1>3. \A n \in 1..N : n - 1 \in S => n \in S BY <1>1 DEF AddsUp
  <1>4. 0..N \subseteq S
    <2> HIDE DEF S
    <2> QED BY <1>2, <1>3, SetInduction
  <1>5. QED BY <1>4

LEMMA SumsLeq ==
  ASSUME NEW N \in Nat, NEW f \in [0..N -> Int], NEW g \in [0..N -> Int],
         \A a \in 0..N : f[a] <= g[a]
  PROVE  Sums(f)[N] <= Sums(g)[N]
  <1> DEFINE S == {n \in 0..N : Sums(f)[n] <= Sums(g)[n]}
  <1>1. AddsUp(Sums(f), f, N) /\ AddsUp(Sums(g), g, N) BY SumsAddUp
  <1>2. 0 \in S BY <1>1 DEF AddsUp
  <1>3. ASSUME NEW n \in 1..N, n - 1 \in S PROVE n \in S
    <2>1. /\ Sums(f)[n] = Sums(f)[n - 1] + f[n] /\ Sums(g)[n] = Sums(g)[n - 1] + g[n]
          /\ Sums(f)[n - 1] \in Int /\ Sums(g)[n - 1] \in Int /\ f[n] \in Int /\ g[n] \in Int
          /\ f[n] <= g[n] /\ Sums(f)[n - 1] <= Sums(g)[n - 1]
      BY <1>1, <1>3 DEF AddsUp
    <2>2. QED BY <2>1
  <1>4. 0..N \subseteq S
    <2> HIDE DEF S
    <2> QED BY <1>2, <1>3, SetInduction
  <1>5. QED BY <1>4

LEMMA SumsPlus ==
  ASSUME NEW N \in Nat, NEW f \in [0..N -> Int], NEW g \in [0..N -> Int], NEW h \in [0..N -> Int],
         \A a \in 0..N : h[a] = f[a] + g[a]
  PROVE  Sums(h)[N] = Sums(f)[N] + Sums(g)[N]
  <1> DEFINE S == {n \in 0..N : Sums(h)[n] = Sums(f)[n] + Sums(g)[n]}
  <1>1. AddsUp(Sums(f), f, N) /\ AddsUp(Sums(g), g, N) /\ AddsUp(Sums(h), h, N) BY SumsAddUp
  <1>2. 0 \in S BY <1>1 DEF AddsUp
  <1>3. ASSUME NEW n \in 1..N, n - 1 \in S PROVE n \in S
    <2>1. /\ n \in 0..N /\ n - 1 \in 0..N /\ f[n] \in Int /\ g[n] \in Int
          /\ h[n] = f[n] + g[n]
      OBVIOUS
    <2>2. /\ Sums(f)[n] = Sums(f)[n - 1] + f[n] /\ Sums(f)[n - 1] \in Int
          /\ Sums(g)[n] = Sums(g)[n - 1] + g[n] /\ Sums(g)[n - 1] \in Int
          /\ Sums(h)[n] = Sums(h)[n - 1] + h[n]
      BY <1>1, <2>1 DEF AddsUp
    <2>3. Sums(h)[n - 1] = Sums(f)[n - 1] + Sums(g)[n - 1] BY <1>3
    <2> DEFINE u == Sums(f)[n - 1]  v == Sums(g)[n - 1]  x == f[n]  y == g[n]
    <2>4. /\ u \in Int /\ v \in Int /\ x \in Int /\ y \in Int
          /\ Sums(f)[n] = u + x /\ Sums(g)[n] = v + y /\ Sums(h)[n] = (u + v) + (x + y)
      BY <2>1, <2>2, <2>3, Zenon
    <2>5. Sums(h)[n] = Sums(f)[n] + Sums(g)[n]
      <3> HIDE DEF u, v, x, y
      <3> QED BY <2>4
    <2>6. QED BY <2>1, <2>5
  <1>4. 0..N \subseteq S
    <2> HIDE DEF S
    <2> QED BY <1>2, <1>3, SetInduction
  <1>5. QED BY <1>4

\* One summand only.
LEMMA SumsPulse ==
  ASSUME NEW N \in Nat, NEW i \in 0..N, NEW v \in Int, NEW f \in [0..N -> Int],
         \A a \in 0..N : f[a] = IF a = i THEN v ELSE 0
  PROVE  Sums(f)[N] = v
  <1> DEFINE S == {n \in 0..N : Sums(f)[n] = IF n < i THEN 0 ELSE v}
  <1>1. AddsUp(Sums(f), f, N) BY SumsAddUp
  <1>2. 0 \in S BY <1>1 DEF AddsUp
  <1>3. ASSUME NEW n \in 1..N, n - 1 \in S PROVE n \in S
    <2>1. Sums(f)[n] = Sums(f)[n - 1] + f[n] BY <1>1 DEF AddsUp
    <2>2. Sums(f)[n - 1] = IF n - 1 < i THEN 0 ELSE v BY <1>3
    <2>3. QED BY <2>1, <2>2
  <1>4. 0..N \subseteq S
    <2> HIDE DEF S
    <2> QED BY <1>2, <1>3, SetInduction
  <1>5. QED BY <1>4

LEMMA SameFunction ==
  ASSUME NEW D, NEW f \in [D -> Int], NEW g \in [D -> Int], \A a \in D : f[a] = g[a]
  PROVE  f = g
  OBVIOUS

\* Every summand of f on 0..N is dealt to a slot of 0..B; part[b] keeps those
\* of slot b, and g[b] is what they add up to.
Deals(N, B, slot, f, part, g) ==
    /\ slot \in [0..N -> 0..B]
    /\ f \in [0..N -> Int]
    /\ \A b \in 0..B : part[b] \in [0..N -> Int]
    /\ \A b \in 0..B : \A a \in 0..N : part[b][a] = IF slot[a] = b THEN f[a] ELSE 0
    /\ g \in [0..B -> Int]
    /\ \A b \in 0..B : g[b] = Sums(part[b])[N]

\* The sums of the slots add up to the sum.
LEMMA SumsSlots ==
  ASSUME NEW N \in Nat, NEW B \in Nat, NEW slot, NEW f, NEW part, NEW g,
         Deals(N, B, slot, f, part, g)
  PROVE  Sums(g)[B] = Sums(f)[N]
  <1> USE DEF Deals
  <1> DEFINE upTo == [n \in 0..N |-> [b \in 0..B |-> Sums(part[b])[n]]]
             pulse == [n \in 0..N |-> [b \in 0..B |-> IF b = slot[n] THEN f[n] ELSE 0]]
             S == {n \in 0..N : Sums(upTo[n])[B] = Sums(f)[n]}
  <1>1. AddsUp(Sums(f), f, N) BY SumsAddUp
  <1>2. ASSUME NEW b \in 0..B PROVE AddsUp(Sums(part[b]), part[b], N)
    BY SumsAddUp
  <1>3. ASSUME NEW n \in 0..N PROVE upTo[n] \in [0..B -> Int]
    <2>1. ASSUME NEW b \in 0..B PROVE Sums(part[b])[n] \in Int
      <3>1. AddsUp(Sums(part[b]), part[b], N) BY <1>2
      <3>2. QED BY <3>1 DEF AddsUp
    <2>2. QED BY <2>1
  <1>4. ASSUME NEW n \in 0..N PROVE pulse[n] \in [0..B -> Int] /\ Sums(pulse[n])[B] = f[n]
    <2>1. slot[n] \in 0..B /\ f[n] \in Int OBVIOUS
    <2>2. pulse[n] = [b \in 0..B |-> IF b = slot[n] THEN f[n] ELSE 0] OBVIOUS
    <2>3. pulse[n] \in [0..B -> Int] BY <2>1, <2>2
    <2>4. \A b \in 0..B : pulse[n][b] = IF b = slot[n] THEN f[n] ELSE 0 BY <2>2
    <2>5. Sums(pulse[n])[B] = f[n]
      <3> HIDE DEF pulse
      <3> QED BY <2>1, <2>3, <2>4, SumsPulse
    <2>6. QED BY <2>3, <2>5
  <1>5. upTo[0] = pulse[0]
    <2>1. ASSUME NEW b \in 0..B PROVE Sums(part[b])[0] = IF b = slot[0] THEN f[0] ELSE 0
      <3>1. AddsUp(Sums(part[b]), part[b], N) BY <1>2
      <3>2. QED BY <3>1 DEF AddsUp
    <2>2. QED BY <2>1
  <1>6. ASSUME NEW n \in 1..N, NEW b \in 0..B PROVE upTo[n][b] = upTo[n - 1][b] + pulse[n][b]
    <2>1. n \in 0..N /\ n - 1 \in 0..N OBVIOUS
    <2>2. Sums(part[b])[n] = Sums(part[b])[n - 1] + part[b][n] BY <1>2 DEF AddsUp
    <2>3. part[b][n] = IF b = slot[n] THEN f[n] ELSE 0 BY <2>1
    <2>4. /\ upTo[n][b] = Sums(part[b])[n] /\ upTo[n - 1][b] = Sums(part[b])[n - 1]
          /\ pulse[n][b] = part[b][n]
      BY <2>1, <2>3
    <2>5. QED BY <2>2, <2>4
  <1> HIDE DEF upTo, pulse
  <1>7. 0 \in S BY <1>1, <1>4, <1>5 DEF AddsUp
  <1>8. ASSUME NEW n \in 1..N, n - 1 \in S PROVE n \in S
    <2>1. n \in 0..N /\ n - 1 \in 0..N OBVIOUS
    <2>2. Sums(upTo[n])[B] = Sums(upTo[n - 1])[B] + Sums(pulse[n])[B]
      <3>1. /\ upTo[n] \in [0..B -> Int] /\ upTo[n - 1] \in [0..B -> Int]
            /\ pulse[n] \in [0..B -> Int]
        BY <1>3, <1>4, <2>1
      <3>2. \A b \in 0..B : upTo[n][b] = upTo[n - 1][b] + pulse[n][b] BY <1>6
      <3>3. QED BY ONLY B \in Nat, <3>1, <3>2, SumsPlus
    <2>3. Sums(f)[n] = Sums(f)[n - 1] + f[n] BY <1>1 DEF AddsUp
    <2>4. Sums(upTo[n - 1])[B] = Sums(f)[n - 1] BY <1>8
    <2>5. QED BY <1>4, <2>1, <2>2, <2>3, <2>4
  <1>9. 0..N \subseteq S
    <2> HIDE DEF S
    <2> QED BY <1>7, <1>8, SetInduction
  <1>10. upTo[N] = g
    <2>1. upTo[N] \in [0..B -> Int] BY <1>3
    <2>2. \A b \in 0..B : upTo[N][b] = g[b] BY DEF upTo
    <2>3. QED BY <2>1, <2>2, SameFunction
  <1>11. QED BY <1>9, <1>10

-----------------------------------------------------------------------------
(* Windows: sets of times.                                                 *)

LEMMA Extremes ==
  ASSUME NEW N \in Nat, NEW W \in SUBSET (0..N), W # {}
  PROVE  /\ Min(W) \in W /\ \A y \in W : Min(W) <= y
         /\ Max(W) \in W /\ \A y \in W : y <= Max(W)
  <1> DEFINE Low(V) == \E x \in V : \A y \in V : x <= y
             High(V) == \E x \in V : \A y \in V : x >= y
             S == {n \in 0..N : \A V \in SUBSET (0..n) : V # {} => Low(V) /\ High(V)}
  <1>1. 0 \in S
    <2>1. ASSUME NEW V \in SUBSET (0..0), V # {} PROVE Low(V) /\ High(V)
      <3>1. \A x \in V : x = 0 OBVIOUS
      <3>2. PICK x \in V : TRUE BY <2>1
      <3>3. \A y \in V : x <= y /\ x >= y BY <3>1
      <3>4. QED BY <3>3
    <2>2. QED BY <2>1
  <1>2. ASSUME NEW n \in 1..N, n - 1 \in S PROVE n \in S
    <2>1. ASSUME NEW V \in SUBSET (0..n), V # {} PROVE Low(V) /\ High(V)
      <3> DEFINE U == V \cap (0..n - 1)
      <3>1. U \in SUBSET (0..n - 1) OBVIOUS
      <3>2. CASE U = {}
        <4>1. \A x \in V : x = n BY <3>2
        <4>2. PICK x \in V : TRUE BY <2>1
        <4>3. \A y \in V : x <= y /\ x >= y BY <4>1
        <4>4. QED BY <4>3
      <3>3. CASE U # {}
        <4>1. Low(U) /\ High(U) BY <1>2, <3>1, <3>3
        <4>2. Low(V)
          <5>1. PICK x \in U : \A y \in U : x <= y BY <4>1
          <5>2. x \in V /\ \A y \in V : x <= y BY <5>1
          <5>3. QED BY <5>2
        <4>3. High(V)
          <5>1. CASE n \in V BY <5>1
          <5>2. CASE n \notin V
            <6>1. \A x \in V : x \in U BY <5>2
            <6>2. PICK x \in U : \A y \in U : x >= y BY <4>1
            <6>3. QED BY <6>1, <6>2
          <5>3. QED BY <5>1, <5>2
        <4>4. QED BY <4>2, <4>3
      <3>4. QED BY <3>2, <3>3
    <2>2. QED BY <2>1
  <1>3. 0..N \subseteq S
    <2> HIDE DEF S
    <2> QED BY <1>1, <1>2, SetInduction
  <1>4. Low(W) /\ High(W) BY <1>3
  <1>5. QED BY <1>4 DEF Min, Max

\* Increases from row to row add up to the increase from the first to the last.
LEMMA Telescopes ==
  ASSUME NEW N \in Nat, NEW W \in SUBSET (0..N), W # {},
         NEW v \in [0..N -> Int], NEW f \in [0..N -> Int],
         \A a \in 0..N :
            f[a] = IF a \in W /\ Earlier(W, a) # {} THEN v[a] - v[Prev(W, a)] ELSE 0
  PROVE  Sums(f)[N] = v[Max(W)] - v[Min(W)]
  <1> DEFINE first == Min(W)
             Last(n, m) == m \in W /\ m <= n /\ \A y \in W : y <= n => y <= m
             S == {n \in 0..N :
                     /\ Earlier(W, n + 1) = {} => Sums(f)[n] = 0
                     /\ \A m \in 0..N : Last(n, m) => Sums(f)[n] = v[m] - v[first]}
  <1>1. AddsUp(Sums(f), f, N) BY SumsAddUp
  <1>2. first \in W /\ (\A y \in W : first <= y) /\ Max(W) \in W /\ \A y \in W : y <= Max(W)
    BY Extremes
  <1> HIDE DEF first
  <1>3. 0 \in S
    <2>1. Earlier(W, 0) = {}
      <3>1. \A u \in W : ~(u < 0) OBVIOUS
      <3>2. QED BY <3>1 DEF Earlier
    <2>2. Sums(f)[0] = 0 BY <1>1, <2>1 DEF AddsUp
    <2>3. \A m \in 0..N : Last(0, m) => m = first BY <1>2
    <2>4. \A m \in 0..N : v[m] - v[m] = 0 OBVIOUS
    <2>5. QED BY <2>2, <2>3, <2>4
  <1>4. ASSUME NEW n \in 1..N, n - 1 \in S PROVE n \in S
    <2> DEFINE E == Earlier(W, n)
    <2>1. n \in 0..N /\ n - 1 \in 0..N /\ (n - 1) + 1 = n OBVIOUS
    <2>2. Sums(f)[n] = Sums(f)[n - 1] + f[n] /\ Sums(f)[n - 1] \in Int BY <1>1, <2>1 DEF AddsUp
    <2>3. E = {} => Sums(f)[n - 1] = 0 BY <1>4, <2>1
    <2>4. \A m \in 0..N : Last(n - 1, m) => Sums(f)[n - 1] = v[m] - v[first] BY <1>4
    <2>5. Earlier(W, n + 1) = {} => n \notin W /\ E = {}
      <3>1. \A u \in W : (u < n => u < n + 1) /\ n < n + 1 OBVIOUS
      <3>2. QED BY <3>1, Zenon DEF Earlier
    <2>6. Earlier(W, n + 1) = {} => Sums(f)[n] = 0
      BY <2>1, <2>2, <2>3, <2>5
    <2>7. ASSUME NEW m \in 0..N, Last(n, m) PROVE Sums(f)[n] = v[m] - v[first]
      <3>1. CASE n \notin W
        <4>1. f[n] = 0 BY <2>1, <3>1
        <4>2. Last(n - 1, m) BY <2>7, <3>1
        <4>3. QED BY <2>2, <2>4, <4>1, <4>2
      <3>2. CASE n \in W /\ E = {}
        <4>1. f[n] = 0 BY <2>1, <3>2
        <4>2. m = n /\ first = n
          <5>1. m = n BY <2>7, <3>2
          <5>2. ~(first < n) BY <1>2, <3>2 DEF Earlier
          <5>3. QED BY <1>2, <3>2, <5>1, <5>2
        <4>3. v[n] - v[n] = 0 BY <2>1
        <4>4. QED BY <2>2, <2>3, <3>2, <4>1, <4>2, <4>3
      <3>3. CASE n \in W /\ E # {}
        <4>1. m = n BY <2>7, <3>3
        <4>2. E \in SUBSET (0..N) BY DEF Earlier
        <4>3. Max(E) \in E /\ \A y \in E : y <= Max(E) BY <3>3, <4>2, Extremes
        <4>4. Last(n - 1, Max(E)) /\ Max(E) \in 0..N BY <4>2, <4>3 DEF Earlier
        <4>5. Sums(f)[n - 1] = v[Max(E)] - v[first] BY <2>4, <4>4
        <4>6. f[n] = v[n] - v[Max(E)] BY <2>1, <3>3 DEF Prev
        <4>7. v[n] \in Int /\ v[Max(E)] \in Int /\ v[first] \in Int BY <1>2, <2>1, <4>4
        <4> DEFINE x == v[n]  y == v[Max(E)]  z == v[first]
        <4>8. /\ x \in Int /\ y \in Int /\ z \in Int
              /\ Sums(f)[n] = (y - z) + (x - y)
          BY <2>2, <4>5, <4>6, <4>7, Zenon
        <4>9. Sums(f)[n] = x - z
          <5> HIDE DEF x, y, z
          <5> QED BY <4>8
        <4>10. QED BY <4>1, <4>9
      <3>4. QED BY <3>1, <3>2, <3>3
    <2>8. QED BY <2>1, <2>6, <2>7
  <1>5. 0..N \subseteq S
    <2> HIDE DEF S
    <2> QED BY <1>3, <1>4, SetInduction
  <1>6. Last(N, Max(W)) /\ Max(W) \in 0..N
    <2>1. Max(W) \in 0..N BY <1>2
    <2>2. QED BY <1>2, <2>1
  <1>7. Sums(f)[N] = v[Max(W)] - v[first]
    <2>1. N \in S BY <1>5
    <2>2. QED BY <1>6, <2>1
  <1>8. QED BY <1>7 DEF first

LEMMA CountIsSum ==
  ASSUME NEW N \in Nat, NEW W \in SUBSET (0..N), NEW f \in [0..N -> Int],
         \A a \in 0..N : f[a] = IF a \in W THEN 1 ELSE 0
  PROVE  IsFiniteSet(W) /\ Sums(f)[N] = Cardinality(W)
  <1> DEFINE V(n) == W \cap (0..n)
             S == {n \in 0..N : IsFiniteSet(V(n)) /\ Sums(f)[n] = Cardinality(V(n))}
  <1>1. AddsUp(Sums(f), f, N) BY SumsAddUp
  <1>2. 0 \in S
    <2>1. Sums(f)[0] = f[0] BY <1>1 DEF AddsUp
    <2>2. CASE 0 \in W
      <3>1. V(0) = {0} BY <2>2
      <3>2. IsFiniteSet({0}) /\ Cardinality({0}) = 1 BY FS_Singleton
      <3>3. QED BY <2>1, <2>2, <3>1, <3>2
    <2>3. CASE 0 \notin W
      <3>1. V(0) = {} BY <2>3
      <3>2. QED BY <2>1, <2>3, <3>1, FS_EmptySet
    <2>4. QED BY <2>2, <2>3
  <1>3. ASSUME NEW n \in 1..N, n - 1 \in S PROVE n \in S
    <2>1. Sums(f)[n] = Sums(f)[n - 1] + f[n] /\ Sums(f)[n - 1] \in Int BY <1>1 DEF AddsUp
    <2>2. IsFiniteSet(V(n - 1)) /\ Sums(f)[n - 1] = Cardinality(V(n - 1)) BY <1>3
    <2>3. CASE n \in W
      <3>1. V(n) = V(n - 1) \cup {n} /\ n \notin V(n - 1) BY <2>3
      <3>2. IsFiniteSet(V(n)) /\ Cardinality(V(n)) = Cardinality(V(n - 1)) + 1
        <4> DEFINE U == V(n - 1)
        <4>1. IsFiniteSet(U) BY <2>2
        <4>2. n \notin U BY <3>1
        <4> HIDE DEF U
        <4>3. IsFiniteSet(U \cup {n}) /\ Cardinality(U \cup {n}) = Cardinality(U) + 1
          BY <4>1, <4>2, FS_AddElement
        <4>4. V(n) = U \cup {n} BY <3>1 DEF U
        <4>5. QED BY <4>3, <4>4 DEF U
      <3>3. f[n] = 1 BY <2>3
      <3> HIDE DEF V
      <3>4. QED BY <2>1, <2>2, <3>2, <3>3
    <2>4. CASE n \notin W
      <3>1. V(n) = V(n - 1) BY <2>4
      <3>2. f[n] = 0 BY <2>4
      <3> HIDE DEF V
      <3>3. QED BY <2>1, <2>2, <3>1, <3>2
    <2>5. QED BY <2>3, <2>4
  <1>4. 0..N \subseteq S
    <2> HIDE DEF S
    <2> QED BY <1>2, <1>3, SetInduction
  <1>5. V(N) = W OBVIOUS
  <1>6. N \in S BY <1>4
  <1>7. QED BY <1>5, <1>6

-----------------------------------------------------------------------------
(* Quantiles.                                                              *)

LEMMA DivFacts ==
  ASSUME NEW a \in Int, NEW d \in Nat \ {0}
  PROVE  (a \div d) \in Int /\ d * (a \div d) <= a /\ a < d * (a \div d) + d
  OBVIOUS

LEMMA ProductNat ==
  ASSUME NEW x \in Nat, NEW y \in Nat PROVE x * y \in Nat
  OBVIOUS

LEMMA DivMonotone ==
  ASSUME NEW a \in Int, NEW b \in Int, NEW d \in Nat \ {0}, a <= b
  PROVE  (a \div d) <= (b \div d)
  <1> DEFINE q == a \div d  r == b \div d
  <1>1. q \in Int /\ d * q <= a /\ r \in Int /\ b < d * r + d BY DivFacts
  <1> HIDE DEF q, r
  <1>2. SUFFICES ASSUME q > r PROVE FALSE BY <1>1 DEF q, r
  <1>3. q - r - 1 \in Nat BY <1>1, <1>2
  <1>4. d * (q - r - 1) \in Nat BY <1>3, ProductNat
  <1>5. d * (q - r - 1) = d * q - d * r - d BY <1>1
  <1>6. QED BY <1>1, <1>4, <1>5

LEMMA ProductMonotone ==
  ASSUME NEW a \in Int, NEW b \in Int, NEW w \in Nat, a <= b
  PROVE  w * a <= w * b
  <1>1. b - a \in Nat OBVIOUS
  <1>2. w * (b - a) \in Nat BY <1>1, ProductNat
  <1>3. w * (b - a) = w * b - w * a OBVIOUS
  <1>4. QED BY <1>2, <1>3

LEMMA RoundMonotone ==
  ASSUME NEW a \in Int, NEW b \in Int, NEW d \in Nat \ {0}, a <= b
  PROVE  Round(a, d) <= Round(b, d)
  <1>1. 2 * a + d \in Int /\ 2 * b + d \in Int /\ 2 * d \in Nat \ {0} /\ 2 * a + d <= 2 * b + d
    OBVIOUS
  <1>2. QED BY <1>1, DivMonotone DEF Round

LEMMA RoundWithin ==
  ASSUME NEW a \in Nat, NEW d \in Nat \ {0}, NEW w \in Nat, a <= w * d
  PROVE  Round(a, d) \in 0..w
  <1> DEFINE e == 2 * d  r == (2 * a + d) \div e
  <1>1. e \in Nat \ {0} /\ w * d \in Int OBVIOUS
  <1>2. r \in Int /\ e * r <= 2 * a + d /\ 2 * a + d < e * r + e
    <2> DEFINE n == 2 * a + d
    <2>1. n \in Int OBVIOUS
    <2> HIDE DEF n, e
    <2>2. (n \div e) \in Int /\ e * (n \div e) <= n /\ n < e * (n \div e) + e
      BY <1>1, <2>1, DivFacts
    <2>3. QED BY <2>2 DEF n
  <1>3. e * w = 2 * (w * d) /\ e = 2 * d OBVIOUS
  <1> HIDE DEF e, r
  <1>4. r >= 0
    <2>1. SUFFICES ASSUME r < 0 PROVE FALSE BY <1>2
    <2>2. -r - 1 \in Nat BY <1>2, <2>1
    <2>3. e * (-r - 1) \in Nat BY <1>1, <2>2, ProductNat
    <2>4. e * (-r - 1) = -(e * r) - e BY <1>1, <1>2
    <2>5. QED BY <1>1, <1>2, <2>3, <2>4
  <1>5. r <= w
    <2>1. SUFFICES ASSUME r > w PROVE FALSE BY <1>2
    <2>2. r - w - 1 \in Nat BY <1>2, <2>1
    <2>3. e * (r - w - 1) \in Nat BY <1>1, <2>2, ProductNat
    <2>4. e * (r - w - 1) = e * r - e * w - e BY <1>1, <1>2
    <2>5. QED BY <1>1, <1>2, <1>3, <2>3, <2>4
  <1>6. Round(a, d) = r BY DEF Round, r, e
  <1>7. QED BY <1>2, <1>4, <1>5, <1>6

\* The parts of latencyQuantile.
Last == Len(Bounds)
Reaching(percent, cum, total) == {i \in 1..Last : 100 * cum[i] >= percent * total}
Below(cum, i) == IF i = 1 THEN 0 ELSE cum[i - 1]
Low(i) == IF i = 1 THEN 0 ELSE Bounds[i - 1]
Inside(percent, cum, total, i) ==
    Round((Bounds[i] - Low(i)) * (percent * total - 100 * Below(cum, i)),
          100 * (cum[i] - Below(cum, i)))

LEMMA BoundsFacts ==
  /\ Last \in Nat \ {0}
  /\ \A i \in 1..Last : Bounds[i] \in Nat /\ Low(i) \in Nat /\ Low(i) <= Bounds[i]
  /\ \A i, j \in 1..Last : i < j => Bounds[i] <= Low(j)
  /\ \A i \in 1..Last : Bounds[i] <= Bounds[Last]
  <1>1. Last \in Nat \ {0} BY DashboardAssumption DEF Last
  <1>2. \A i \in 1..Last : Bounds[i] \in Nat BY DashboardAssumption DEF Last
  <1>3. \A i, j \in 1..Last : i < j => Bounds[i] < Bounds[j] BY DashboardAssumption DEF Last
  <1>4. ASSUME NEW i \in 1..Last PROVE Low(i) \in Nat /\ Low(i) <= Bounds[i]
    <2>1. CASE i = 1 BY <1>2, <2>1 DEF Low
    <2>2. CASE i # 1
      <3>1. i - 1 \in 1..Last /\ i - 1 < i BY <1>1, <2>2
      <3>2. QED BY <1>2, <1>3, <2>2, <3>1 DEF Low
    <2>3. QED BY <2>1, <2>2
  <1>5. ASSUME NEW i \in 1..Last, NEW j \in 1..Last, i < j PROVE Bounds[i] <= Low(j)
    <2>1. j # 1 /\ j - 1 \in 1..Last /\ (i = j - 1 \/ i < j - 1) BY <1>1, <1>5
    <2>2. QED BY <1>2, <1>3, <2>1 DEF Low
  <1>6. ASSUME NEW i \in 1..Last PROVE Bounds[i] <= Bounds[Last]
    <2>1. Last \in 1..Last /\ (i = Last \/ i < Last) BY <1>1
    <2>2. QED BY <1>2, <1>3, <2>1
  <1>7. QED BY <1>1, <1>2, <1>4, <1>5, <1>6

\* The rank falls into the first bin that reaches it, and the quantile with it.
InBin(percent, cum, total) ==
    LET reaching == Reaching(percent, cum, total)
        q == LatencyQuantile(percent, cum, total) IN
    IF reaching = {} THEN q = Bounds[Last]
    ELSE \E i \in reaching :
            /\ \A j \in reaching : i <= j
            /\ q = Low(i) + Inside(percent, cum, total, i)
            /\ Below(cum, i) \in Nat /\ cum[i] - Below(cum, i) \in Nat \ {0}
            /\ Inside(percent, cum, total, i) \in 0..(Bounds[i] - Low(i))

LEMMA QuantileBin ==
  ASSUME NEW cum \in [Columns -> Nat], NEW total \in Nat \ {0}, NEW percent \in 1..100
  PROVE  InBin(percent, cum, total)
  <1> DEFINE reaching == Reaching(percent, cum, total)
             q == LatencyQuantile(percent, cum, total)
  <1>1. CASE reaching = {}
    <2>1. q = Bounds[Last] BY <1>1 DEF LatencyQuantile, Reaching, Last
    <2>2. QED BY <1>1, <2>1 DEF InBin
  <1>2. CASE reaching # {}
    <2> DEFINE i == Min(reaching)  b == Below(cum, i)  w == Bounds[i] - Low(i)
               rank == percent * total
    <2>1. reaching \subseteq 1..Last /\ Last \in Nat BY BoundsFacts DEF Reaching
    <2>2. i \in reaching /\ \A j \in reaching : i <= j
      <3>1. reaching \in SUBSET (0..Last) BY <2>1
      <3>2. QED BY <1>2, <2>1, <3>1, Extremes
    <2>3. i \in 1..Last BY <2>1, <2>2
    <2>4. rank \in Nat \ {0} OBVIOUS
    <2>5. cum[i] \in Nat BY <2>1, <2>3 DEF Columns, All, Last
    <2>6. 100 * cum[i] >= rank BY <2>2 DEF Reaching
    <2>7. b \in Nat /\ 100 * b < rank
      <3>1. CASE i = 1 BY <2>4, <3>1 DEF Below
      <3>2. CASE i # 1
        <4>1. i - 1 \in 1..Last /\ i - 1 \notin reaching BY <2>1, <2>2, <2>3, <3>2
        <4>2. cum[i - 1] \in Nat BY <2>1, <4>1 DEF Columns, All, Last
        <4>3. ~(100 * cum[i - 1] >= rank) BY <4>1 DEF Reaching
        <4>4. QED BY <2>4, <3>2, <4>2, <4>3 DEF Below
      <3>3. QED BY <3>1, <3>2
    <2>8. w \in Nat BY <2>3, BoundsFacts
    <2>9. cum[i] - b \in Nat \ {0}
      <3> HIDE DEF rank, b
      <3> QED BY <2>4, <2>5, <2>6, <2>7
    <2>10. Round(w * (rank - 100 * b), 100 * (cum[i] - b)) \in 0..w
      <3> DEFINE u == rank - 100 * b  d == 100 * (cum[i] - b)
      <3>1. u \in Nat /\ d \in Nat \ {0} /\ u <= d
        <4> HIDE DEF rank, b
        <4> QED BY <2>4, <2>5, <2>6, <2>7, <2>9
      <3>2. w * u \in Nat /\ w * u <= w * d
        <4> HIDE DEF u, d, w
        <4> QED BY <2>8, <3>1, ProductNat, ProductMonotone
      <3>3. Round(w * u, d) \in 0..w
        <4> DEFINE a == w * u
        <4>1. a \in Nat /\ a <= w * d BY <3>2
        <4> HIDE DEF u, d, w, a
        <4>2. Round(a, d) \in 0..w BY <2>8, <3>1, <4>1, RoundWithin
        <4>3. QED BY <4>2 DEF a
      <3>4. QED BY <3>3
    <2>11. q = Low(i) + Inside(percent, cum, total, i)
      <3>1. ~(cum[i] <= b)
        <4> HIDE DEF b
        <4> QED BY <2>5, <2>7, <2>9
      <3>2. QED BY <1>2, <3>1 DEF LatencyQuantile, Reaching, Last, Below, Low, Inside
    <2>12. Inside(percent, cum, total, i) \in 0..w BY <2>10 DEF Inside
    <2>13. QED BY <1>2, <2>2, <2>7, <2>9, <2>11, <2>12 DEF InBin
  <1>3. QED BY <1>1, <1>2

\* More of the total takes a quantile no lower, in the bin or in a later one.
LEMMA QuantilesMonotone ==
  ASSUME NEW cum \in [Columns -> Nat], NEW total \in Nat \ {0},
         NEW p \in 1..100, NEW r \in 1..100, p <= r
  PROVE  /\ 0 <= LatencyQuantile(p, cum, total)
         /\ LatencyQuantile(p, cum, total) <= LatencyQuantile(r, cum, total)
         /\ LatencyQuantile(r, cum, total) <= Bounds[Last]
  <1> DEFINE P == Reaching(p, cum, total)  R == Reaching(r, cum, total)
             x == LatencyQuantile(p, cum, total)  y == LatencyQuantile(r, cum, total)
             In(percent, i) == Inside(percent, cum, total, i)
  <1>1. InBin(p, cum, total) BY QuantileBin
  <1>2. InBin(r, cum, total) BY QuantileBin
  <1>3. P \subseteq 1..Last /\ R \subseteq 1..Last /\ Last \in Nat BY BoundsFacts DEF Reaching
  <1>4. R \subseteq P
    <2>1. total * p <= total * r BY ProductMonotone
    <2>2. ASSUME NEW i \in 1..Last, 100 * cum[i] >= r * total PROVE 100 * cum[i] >= p * total
      <3>1. cum[i] \in Nat BY <1>3 DEF Columns, All, Last
      <3>2. p * total = total * p /\ r * total = total * r /\ total * p \in Int /\ total * r \in Int
        OBVIOUS
      <3>3. QED BY <2>1, <2>2, <3>1, <3>2
    <2>3. QED BY <2>2 DEF Reaching
  <1> HIDE DEF x, y, P, R
  <1>5. CASE P = {}
    <2>1. x = Bounds[Last] /\ y = Bounds[Last] BY <1>1, <1>2, <1>4, <1>5 DEF InBin, P, R, x, y
    <2>2. Bounds[Last] \in Nat BY BoundsFacts
    <2>3. QED BY <2>1, <2>2 DEF x, y
  <1>6. CASE P # {}
    <2>1. PICK i \in P : /\ \A j \in P : i <= j
                         /\ x = Low(i) + In(p, i)
                         /\ Below(cum, i) \in Nat /\ cum[i] - Below(cum, i) \in Nat \ {0}
                         /\ In(p, i) \in 0..(Bounds[i] - Low(i))
      BY <1>1, <1>6 DEF InBin, P, x
    <2>2. /\ i \in 1..Last /\ Low(i) \in Nat /\ Bounds[i] \in Nat /\ Bounds[Last] \in Nat
          /\ Low(i) <= Bounds[i] /\ Bounds[i] <= Bounds[Last]
      BY <1>3, <2>1, BoundsFacts
    <2>3. x \in Nat /\ x <= Bounds[i]
      <3> HIDE DEF In
      <3> QED BY <2>1, <2>2
    <2>4. CASE R = {}
      <3>1. y = Bounds[Last] BY <1>2, <2>4 DEF InBin, R, y
      <3>2. QED BY <2>2, <2>3, <3>1 DEF x, y
    <2>5. CASE R # {}
      <3>1. PICK j \in R : /\ \A k \in R : j <= k
                           /\ y = Low(j) + In(r, j)
                           /\ In(r, j) \in 0..(Bounds[j] - Low(j))
        BY <1>2, <2>5 DEF InBin, R, y
      <3>2. /\ j \in 1..Last /\ Low(j) \in Nat /\ Bounds[j] \in Nat
            /\ Low(j) <= Bounds[j] /\ Bounds[j] <= Bounds[Last]
        BY <1>3, <3>1, BoundsFacts
      <3>3. y \in Nat /\ Low(j) <= y /\ y <= Bounds[Last]
        <4> HIDE DEF In
        <4> QED BY <2>2, <3>1, <3>2
      <3>4. i <= j BY <1>4, <2>1, <3>1
      <3>5. CASE i < j
        <4>1. Bounds[i] <= Low(j) BY <2>2, <3>2, <3>5, BoundsFacts
        <4>2. QED BY <2>2, <2>3, <3>2, <3>3, <4>1 DEF x, y
      <3>6. CASE i = j
        <4> DEFINE w == Bounds[i] - Low(i)  b == Below(cum, i)  d == 100 * (cum[i] - b)
                   u == p * total - 100 * b  v == r * total - 100 * b
        <4>1. w \in Nat /\ b \in Nat /\ d \in Nat \ {0} BY <2>1, <2>2
        <4>2. u \in Int /\ v \in Int /\ u <= v
          <5>1. total * p <= total * r BY ProductMonotone
          <5>2. /\ p * total = total * p /\ r * total = total * r
                /\ total * p \in Int /\ total * r \in Int
            OBVIOUS
          <5> HIDE DEF b
          <5>3. QED BY <4>1, <5>1, <5>2
        <4>3. Round(w * u, d) <= Round(w * v, d)
          <5> HIDE DEF w, d, u, v
          <5>1. w * u <= w * v /\ w * u \in Int /\ w * v \in Int BY <4>1, <4>2, ProductMonotone
          <5>2. QED BY <4>1, <5>1, RoundMonotone
        <4>4. In(p, i) <= In(r, j) BY <3>6, <4>3 DEF Inside
        <4> HIDE DEF In, w, b, d, u, v
        <4>5. x <= y BY <2>1, <2>2, <3>1, <3>2, <3>6, <4>4
        <4>6. QED BY <2>3, <3>3, <4>5 DEF x, y
      <3>7. QED BY <1>3, <2>2, <3>2, <3>4, <3>5, <3>6
    <2>6. QED BY <2>4, <2>5
  <1>7. QED BY <1>5, <1>6

-----------------------------------------------------------------------------
(* Types.                                                                  *)

Phases == {"idle", "asked", "answered"}
TickStates == [phase : Phases, row : Rows]

LEMMA ColumnFacts ==
  /\ All \in Columns /\ Columns \subseteq Nat /\ \A c \in Columns : c <= All
  /\ Zero \in [Columns -> Nat] /\ Idle \in TickStates /\ Asked \in TickStates
  <1>1. Len(Bounds) \in Nat BY DashboardAssumption
  <1>2. All \in Nat \ {0} BY <1>1 DEF All
  <1>3. All \in Columns /\ Columns \subseteq Nat /\ \A c \in Columns : c <= All
    BY <1>2 DEF Columns
  <1>4. Zero \in [Columns -> Nat] BY DEF Zero
  <1>5. QED BY <1>3, <1>4 DEF Idle, Asked, Empty, TickStates, Phases, Rows

LEMMA SnapshotType == TypeOK => Snapshot \in Rows
  BY DashboardAssumption DEF TypeOK, Snapshot, Rows

\* What the end of a tick does to the rows it is given.
LEMMA PruneEffect ==
  ASSUME TypeOK, NEW rows, Prune(rows)
  PROVE  /\ pruneAccum' \in 0..(PRUNE_EVERY - 1) /\ pruned' \in BOOLEAN
         /\ missed' \in 0..MaxMissed
         /\ DOMAIN samples' \subseteq DOMAIN rows
         /\ \A ts \in DOMAIN samples' : samples'[ts] = rows[ts]
         /\ \/ pruneAccum' = pruneAccum + 1 /\ pruned' = pruned /\ missed' = missed
            \/ /\ pruneAccum' = 0 /\ missed' = 0
               /\ \A ts \in DOMAIN samples' : ts >= now - RETENTION
            \/ /\ pruneAccum + 1 = PRUNE_EVERY /\ pruneAccum' = 0 /\ pruned' = pruned
               /\ pruned => missed' = missed + 1
  <1>0. /\ PRUNE_EVERY \in Nat \ {0} /\ pruneAccum \in 0..(PRUNE_EVERY - 1) /\ pruned \in BOOLEAN
        /\ missed \in 0..MaxMissed /\ MaxMissed \in Nat
    BY DashboardAssumption DEF TypeOK
  <1>1. CASE /\ pruneAccum + 1 >= PRUNE_EVERY /\ pruneAccum' = 0 /\ pruned' = TRUE /\ missed' = 0
             /\ samples' = Since(now - RETENTION, rows)
    <2>1. pruneAccum' = 0 /\ pruned' = TRUE /\ samples' = Since(now - RETENTION, rows)
      BY <1>1
    <2>2. /\ DOMAIN samples' = {u \in DOMAIN rows : u >= now - RETENTION}
          /\ \A ts \in DOMAIN samples' : samples'[ts] = rows[ts]
      BY <2>1 DEF Since
    <2>3. pruneAccum' \in 0..(PRUNE_EVERY - 1) /\ pruned' \in BOOLEAN /\ missed' \in 0..MaxMissed
      BY <1>0, <1>1
    <2>4. /\ DOMAIN samples' \subseteq DOMAIN rows
          /\ \A ts \in DOMAIN samples' : ts >= now - RETENTION
      BY <2>2, Zenon
    <2>5. QED BY <1>1, <2>2, <2>3, <2>4, Zenon
  <1>2. CASE /\ pruneAccum + 1 < PRUNE_EVERY /\ pruneAccum' = pruneAccum + 1 /\ samples' = rows
             /\ UNCHANGED <<pruned, missed>>
    BY <1>0, <1>2
  <1>3. CASE /\ pruneAccum + 1 >= PRUNE_EVERY /\ pruneAccum' = 0 /\ missed < MaxMissed
             /\ samples' = rows /\ missed' = IF pruned THEN missed + 1 ELSE 0
             /\ UNCHANGED pruned
    <2>1. pruneAccum' \in 0..(PRUNE_EVERY - 1) /\ missed' \in 0..MaxMissed BY <1>0, <1>3
    <2>2. pruneAccum + 1 = PRUNE_EVERY /\ (pruned => missed' = missed + 1) BY <1>0, <1>3
    <2>3. QED BY <1>0, <1>3, <2>1, <2>2
  <1>4. QED BY <1>1, <1>2, <1>3 DEF Prune

\* The rows with the one a scrape brings.
Stored(t) == [ts \in DOMAIN samples \cup {now} |-> IF ts = now THEN tick[t].row ELSE samples[ts]]

LEMMA InitType == Init => TypeOK
  <1> SUFFICES ASSUME Init PROVE TypeOK
    OBVIOUS
  <1>1. DOMAIN samples = {} BY DEF Init
  <1>2. 0 \in 0..MaxTime /\ 0 \in 0..MaxRestarts /\ 0 \in 0..(PRUNE_EVERY - 1) /\ 0 \in 0..MaxMissed
    BY DashboardAssumption
  <1>3. tick \in [Slots -> TickStates] BY ColumnFacts DEF Init, Seeded
  <1>4. QED BY <1>1, <1>2, <1>3, ColumnFacts DEF Init, TypeOK, TickStates, Phases

LEMMA NextType == TypeOK /\ [Next]_vars => TypeOK'
  <1> SUFFICES ASSUME TypeOK, [Next]_vars PROVE TypeOK'
    OBVIOUS
  <1>0. /\ now \in 0..MaxTime /\ MaxTime \in Nat /\ restarts \in 0..MaxRestarts /\ MaxRestarts \in Nat
        /\ counters \in [Columns -> Nat] /\ observed \in [Columns -> Nat]
        /\ tick \in [Slots -> TickStates]
        /\ DOMAIN samples \subseteq 0..now /\ \A ts \in DOMAIN samples : samples[ts] \in Rows
        /\ pruneAccum \in 0..(PRUNE_EVERY - 1) /\ pruned \in BOOLEAN
        /\ missed \in 0..MaxMissed /\ MaxMissed \in Nat
        /\ PRUNE_EVERY \in Nat \ {0}
    BY DashboardAssumption DEF TypeOK, TickStates, Phases
  <1>1. ASSUME NEW bin \in Columns, ObserveSocketLifetime(bin) PROVE TypeOK'
    <2>1. /\ counters' = [c \in Columns |-> IF c >= bin THEN counters[c] + 1 ELSE counters[c]]
          /\ observed' = [c \in Columns |-> IF c >= bin THEN observed[c] + 1 ELSE observed[c]]
          /\ UNCHANGED <<now, restarts, tick, samples, pruneAccum, pruned, missed>>
      BY <1>1 DEF ObserveSocketLifetime, table
    <2>2. counters' \in [Columns -> Nat] /\ observed' \in [Columns -> Nat] BY <1>0, <2>1
    <2>3. QED BY <1>0, <2>1, <2>2 DEF TypeOK, TickStates, Phases
  <1>2. CASE Restart
    BY <1>0, <1>2, ColumnFacts DEF Restart, TypeOK, table, TickStates, Phases
  <1>3. ASSUME NextInterval PROVE now' \in 0..MaxTime /\ DOMAIN samples \subseteq 0..now'
    <2>1. now' \in 0..MaxTime /\ now <= now' BY <1>0, <1>3 DEF NextInterval
    <2>2. QED BY <1>0, <2>1
  <1>4. CASE CollectorRestart
    <2>1. tick' \in [Slots -> TickStates] BY <1>4, ColumnFacts DEF CollectorRestart, Seeded
    <2>2. /\ NextInterval /\ UNCHANGED <<counters, observed, restarts, samples>>
          /\ pruneAccum' = 0 /\ pruned' = FALSE /\ missed' = 0
      BY <1>4 DEF CollectorRestart, relay
    <2>3. now' \in 0..MaxTime /\ DOMAIN samples' \subseteq 0..now' BY <1>3, <2>2
    <2>4. pruneAccum' \in 0..(PRUNE_EVERY - 1) BY <1>0, <2>2
    <2>5. pruned' \in BOOLEAN BY <2>2
    <2>6. missed' \in 0..MaxMissed BY <1>0, <2>2
    <2>7. QED BY <1>0, <2>1, <2>2, <2>3, <2>4, <2>5, <2>6 DEF TypeOK, TickStates, Phases
  <1>5. ASSUME NEW t \in Slots, Begin(t) PROVE TypeOK'
    <2>1. tick' \in [Slots -> TickStates] BY <1>0, <1>5, ColumnFacts DEF Begin
    <2>2. QED BY <1>0, <1>3, <1>5, <2>1 DEF Begin, TypeOK, relay, table, TickStates, Phases
  <1>6. ASSUME NEW t \in Slots, Answer(t) PROVE TypeOK'
    <2>1. [phase |-> "answered", row |-> Snapshot] \in TickStates
      BY SnapshotType DEF TickStates, Phases
    <2>2. tick' \in [Slots -> TickStates] BY <1>0, <1>6, <2>1 DEF Answer
    <2>3. QED BY <1>0, <1>6, <2>2 DEF Answer, TypeOK, relay, table, TickStates, Phases
  <1>7. ASSUME NEW t \in Slots, NEW rows, Prune(rows), UNCHANGED <<now, relay>>,
               tick' = [tick EXCEPT ![t] = Idle],
               DOMAIN rows \subseteq 0..now, \A ts \in DOMAIN rows : rows[ts] \in Rows
        PROVE  TypeOK'
    <2>1. tick' \in [Slots -> TickStates] BY <1>0, <1>7, ColumnFacts
    <2>2. /\ pruneAccum' \in 0..(PRUNE_EVERY - 1) /\ pruned' \in BOOLEAN
          /\ missed' \in 0..MaxMissed
          /\ DOMAIN samples' \subseteq DOMAIN rows
          /\ \A ts \in DOMAIN samples' : samples'[ts] = rows[ts]
      BY <1>7, PruneEffect
    <2>3. DOMAIN samples' \subseteq 0..now /\ \A ts \in DOMAIN samples' : samples'[ts] \in Rows
      BY <1>7, <2>2
    <2>4. QED BY <1>0, <1>7, <2>1, <2>2, <2>3 DEF TypeOK, relay, TickStates, Phases
  <1>8. ASSUME NEW t \in Slots, Store(t) PROVE TypeOK'
    <2>1. tick[t].row \in Rows BY <1>0 DEF TickStates
    <2>2. DOMAIN Stored(t) \subseteq 0..now /\ \A ts \in DOMAIN Stored(t) : Stored(t)[ts] \in Rows
      BY <1>0, <2>1 DEF Stored
    <2>3. Prune(Stored(t)) /\ tick' = [tick EXCEPT ![t] = Idle] /\ UNCHANGED <<now, relay>>
      BY <1>8 DEF Store, Stored
    <2>4. QED BY <1>7, <2>2, <2>3
  <1>9. ASSUME NEW t \in Slots, ScrapeFails(t) PROVE TypeOK'
    BY <1>0, <1>7, <1>9 DEF ScrapeFails
  <1>10. CASE UNCHANGED vars
    BY <1>0, <1>10 DEF vars, relay, table, TypeOK, TickStates, Phases
  <1>11. QED BY <1>1, <1>2, <1>4, <1>5, <1>6, <1>8, <1>9, <1>10 DEF Next

\* Clock, counters, ticks in flight and table keep their types: no sample is
\* of the future, and the accumulator never passes an hour.
THEOREM TypeCorrect == Spec => []TypeOK
  <1>1. Init => TypeOK BY InitType
  <1>2. TypeOK /\ [Next]_vars => TypeOK' BY NextType
  <1>3. QED BY <1>1, <1>2, PTL DEF Spec

-----------------------------------------------------------------------------
(* The table and its retention.                                            *)

Busy == {t \in Slots : tick[t].phase # "idle"}

LEMMA BusyFinite == IsFiniteSet(Busy) /\ Cardinality(Busy) \in Nat
  BY FS_Subset, FS_CardinalityType, DashboardAssumption DEF Busy

LEMMA RetentionNext == TypeOK /\ RetentionKept /\ [Next]_vars => RetentionKept'
  <1> SUFFICES ASSUME TypeOK, RetentionKept, [Next]_vars PROVE RetentionKept'
    OBVIOUS
  <1> DEFINE n == Cardinality(Busy)
             lost == missed * PRUNE_EVERY
  <1>0. /\ now \in Nat /\ RETENTION \in Nat /\ pruneAccum \in Nat /\ n \in Nat
        /\ missed \in Nat /\ PRUNE_EVERY \in Nat
        /\ tick \in [Slots -> TickStates] /\ DOMAIN samples \subseteq Nat
    BY BusyFinite, DashboardAssumption DEF TypeOK, TickStates, Phases
  <1>00. lost \in Nat BY <1>0, ProductNat
  <1>1. pruned => \A ts \in DOMAIN samples : now - ts <= RETENTION + lost + pruneAccum + n
    BY DEF RetentionKept, Busy
  <1> DEFINE Goal == pruned' =>
          \A ts \in DOMAIN samples' :
              now' - ts <= RETENTION + missed' * PRUNE_EVERY + pruneAccum' + Cardinality(Busy')
  <1> SUFFICES Goal BY DEF RetentionKept, Busy
  <1>2. ASSUME UNCHANGED <<now, samples, pruneAccum, pruned, missed>>, Busy' = Busy PROVE Goal
    BY <1>1, <1>2
  <1>3. ASSUME NEW bin \in Columns, ObserveSocketLifetime(bin) PROVE Goal
    BY <1>2, <1>3 DEF ObserveSocketLifetime, table, Busy
  <1>4. CASE Restart BY <1>2, <1>4 DEF Restart, table, Busy
  <1>5. CASE CollectorRestart BY <1>5 DEF CollectorRestart
  <1>6. ASSUME NEW t \in Slots, Begin(t) PROVE Goal
    <2>1. t \notin Busy /\ Busy' = Busy \cup {t}
      BY <1>0, <1>6 DEF Begin, Busy, Asked
    <2>2. Cardinality(Busy') = n + 1 BY <2>1, BusyFinite, FS_AddElement
    <2>3. /\ samples' = samples /\ pruneAccum' = pruneAccum /\ pruned' = pruned
          /\ missed' * PRUNE_EVERY = lost
          /\ now' = now \/ now' = now + 1
      BY <1>6 DEF Begin, table, NextInterval
    <2> HIDE DEF n, lost
    <2>4. ASSUME pruned', NEW ts \in DOMAIN samples'
          PROVE  now' - ts <= RETENTION + missed' * PRUNE_EVERY + pruneAccum' + Cardinality(Busy')
      <3>1. now - ts <= RETENTION + lost + pruneAccum + n /\ ts \in Nat BY <1>0, <1>1, <2>3, <2>4
      <3>2. QED BY <1>0, <1>00, <2>2, <2>3, <3>1
    <2>5. QED BY <2>4
  <1>7. ASSUME NEW t \in Slots, Answer(t) PROVE Goal
    <2>1. Busy' = Busy BY <1>0, <1>7 DEF Answer, Busy
    <2>2. QED BY <1>2, <1>7, <2>1 DEF Answer, table
  <1>8. ASSUME NEW t \in Slots, tick[t].phase # "idle", NEW rows, Prune(rows),
               tick' = [tick EXCEPT ![t] = Idle], now' = now,
               DOMAIN rows \subseteq DOMAIN samples \cup {now}
        PROVE  Goal
    <2>1. t \in Busy /\ Busy' = Busy \ {t} BY <1>0, <1>8 DEF Busy, Idle
    <2>2. Cardinality(Busy') = n - 1 /\ Cardinality(Busy') \in Nat
      BY <1>0, <2>1, BusyFinite, FS_RemoveElement, FS_CardinalityType
    <2>3. /\ DOMAIN samples' \subseteq DOMAIN rows
          /\ \/ pruneAccum' = pruneAccum + 1 /\ pruned' = pruned /\ missed' = missed
             \/ /\ pruneAccum' = 0 /\ missed' = 0
                /\ \A ts \in DOMAIN samples' : ts >= now - RETENTION
             \/ /\ pruneAccum + 1 = PRUNE_EVERY /\ pruneAccum' = 0 /\ pruned' = pruned
                /\ pruned => missed' = missed + 1
      BY <1>8, PruneEffect
    <2> HIDE DEF n
    <2>4. ASSUME pruned', NEW ts \in DOMAIN samples'
          PROVE  now' - ts <= RETENTION + missed' * PRUNE_EVERY + pruneAccum' + Cardinality(Busy')
      <3>1. ts \in DOMAIN samples \/ ts = now BY <1>8, <2>3
      <3>2. ts \in Nat BY <1>0, <3>1
      <3>3. CASE pruneAccum' = 0 /\ missed' = 0 /\ ts >= now - RETENTION
        BY <1>0, <1>8, <2>2, <3>2, <3>3
      <3>4. CASE /\ pruned' = pruned
                 /\ pruneAccum' \in Nat /\ missed' \in Nat
                 /\ missed' * PRUNE_EVERY + pruneAccum' = lost + pruneAccum + 1
        <4>1. missed' * PRUNE_EVERY \in Nat BY <1>0, <3>4, ProductNat
        <4> DEFINE later == missed' * PRUNE_EVERY + pruneAccum'
                   before == lost + pruneAccum
        <4>2. later \in Nat /\ before \in Nat /\ later = before + 1
          <5>1. later = lost + pruneAccum + 1 /\ later \in Nat BY <3>4, <4>1
          <5> HIDE DEF lost, later
          <5>2. QED BY <1>0, <1>00, <5>1
        <4>3. ts = now \/ now - ts <= RETENTION + before + n
          <5>1. ts = now \/ now - ts <= RETENTION + lost + pruneAccum + n
            BY <1>1, <2>4, <3>1, <3>4
          <5> HIDE DEF lost
          <5>2. QED BY <1>0, <1>00, <3>2, <5>1
        <4>4. now' = now BY <1>8
        <4>5. now' - ts <= RETENTION + later + Cardinality(Busy')
          <5> HIDE DEF later, before
          <5> QED BY <1>0, <2>2, <3>2, <4>2, <4>3, <4>4
        <4>6. QED BY <1>0, <2>2, <3>2, <3>4, <4>1, <4>4, <4>5
      <3>5. CASE pruneAccum' = pruneAccum + 1 /\ pruned' = pruned /\ missed' = missed
        <4>1. missed' * PRUNE_EVERY = lost BY <3>5
        <4> HIDE DEF lost
        <4>2. QED BY <1>0, <1>00, <3>4, <3>5, <4>1
      <3>6. CASE /\ pruneAccum + 1 = PRUNE_EVERY /\ pruneAccum' = 0 /\ pruned' = pruned
                 /\ pruned => missed' = missed + 1
        <4>1. missed' = missed + 1 BY <2>4, <3>6
        <4>2. missed' * PRUNE_EVERY = lost + PRUNE_EVERY BY <1>0, <4>1
        <4> HIDE DEF lost
        <4>3. QED BY <1>0, <1>00, <3>4, <3>6, <4>1, <4>2
      <3>7. QED BY <2>3, <2>4, <3>3, <3>5, <3>6
    <2>5. QED BY <2>4
  <1>9. ASSUME NEW t \in Slots, Store(t) PROVE Goal
    <2>1. /\ Prune(Stored(t)) /\ tick[t].phase # "idle"
          /\ tick' = [tick EXCEPT ![t] = Idle] /\ now' = now
      BY <1>9 DEF Store, Stored
    <2>2. DOMAIN Stored(t) \subseteq DOMAIN samples \cup {now} BY DEF Stored
    <2>3. QED BY <1>8, <2>1, <2>2
  <1>10. ASSUME NEW t \in Slots, ScrapeFails(t) PROVE Goal
    BY <1>8, <1>10 DEF ScrapeFails
  <1>11. CASE UNCHANGED vars BY <1>2, <1>11 DEF vars, table, Busy
  <1>12. QED BY <1>3, <1>4, <1>5, <1>6, <1>7, <1>9, <1>10, <1>11 DEF Next

\* collector.js, tick: the pruning at the end of every tick, whether its scrape
\* failed or not, keeps the table within the retention, an hour and the ticks
\* in flight, and an hour more for every prune that threw since.
THEOREM TableIsBounded == Spec => []RetentionKept
  <1>1. Init => RetentionKept BY DEF Init, RetentionKept
  <1>2. TypeOK /\ RetentionKept /\ [Next]_vars => RetentionKept' BY RetentionNext
  <1>3. QED BY <1>1, <1>2, TypeCorrect, PTL DEF Spec

-----------------------------------------------------------------------------
(* The order of the snapshots.                                             *)

\* y shows the relay no earlier than x does.
Follows(x, y) ==
    /\ x.restarts <= y.restarts
    /\ x.observed[All] = y.observed[All] => x.observed = y.observed
    /\ \A c \in Columns :
          /\ x.observed[c] <= y.observed[c]
          /\ x.restarts = y.restarts =>
                y.cols[c] - x.cols[c] = y.observed[c] - x.observed[c]
          /\ x.restarts < y.restarts => y.cols[c] <= y.observed[c] - x.observed[c]

\* Every snapshot that was taken and may still be drawn.
Taken ==
    {samples[ts] : ts \in DOMAIN samples}
        \cup {tick[t].row : t \in {u \in Slots : tick[u].phase = "answered"}}

Ordered ==
    /\ \A x \in Taken : Follows(x, Snapshot)
    /\ \A x, y \in Taken : Follows(x, y) \/ Follows(y, x)

LEMMA TakenType == TypeOK => Taken \subseteq Rows
  BY DEF TypeOK, Taken

LEMMA FollowsSelf == ASSUME NEW x \in Rows PROVE Follows(x, x)
  BY ColumnFacts DEF Follows, Rows

LEMMA OrderedShrinks ==
  ASSUME Ordered, Taken' \subseteq Taken, Snapshot' = Snapshot
  PROVE  Ordered'
  BY DEF Ordered

LEMMA ObserveFollows ==
  ASSUME TypeOK, NEW bin \in Columns, ObserveSocketLifetime(bin),
         NEW x \in Rows, Follows(x, Snapshot)
  PROVE  Follows(x, Snapshot')
  <1>1. /\ counters' = [c \in Columns |-> IF c >= bin THEN counters[c] + 1 ELSE counters[c]]
        /\ observed' = [c \in Columns |-> IF c >= bin THEN observed[c] + 1 ELSE observed[c]]
        /\ restarts' = restarts
    BY DEF ObserveSocketLifetime
  <1>2. /\ counters \in [Columns -> Nat] /\ observed \in [Columns -> Nat] /\ restarts \in Nat
        /\ x.cols \in [Columns -> Nat] /\ x.observed \in [Columns -> Nat] /\ x.restarts \in Nat
    <2>1. counters \in [Columns -> Nat] /\ observed \in [Columns -> Nat] BY DEF TypeOK
    <2>2. restarts \in Nat BY DashboardAssumption DEF TypeOK
    <2>3. x.cols \in [Columns -> Nat] /\ x.observed \in [Columns -> Nat] /\ x.restarts \in Nat
      BY DEF Rows
    <2>4. QED BY <2>1, <2>2, <2>3
  <1>3. x.observed[All] # observed'[All]
    <2>1. observed'[All] = observed[All] + 1 BY <1>1, <1>2, ColumnFacts
    <2>2. x.observed[All] <= observed[All] BY ColumnFacts DEF Follows, Snapshot
    <2>3. x.observed[All] \in Nat /\ observed[All] \in Nat BY <1>2, ColumnFacts
    <2>4. QED BY <2>1, <2>2, <2>3
  <1>4. ASSUME NEW c \in Columns
        PROVE  /\ x.observed[c] <= observed'[c]
               /\ x.restarts = restarts' => counters'[c] - x.cols[c] = observed'[c] - x.observed[c]
               /\ x.restarts < restarts' => counters'[c] <= observed'[c] - x.observed[c]
    <2>1. /\ x.observed[c] <= observed[c]
          /\ x.restarts = restarts => counters[c] - x.cols[c] = observed[c] - x.observed[c]
          /\ x.restarts < restarts => counters[c] <= observed[c] - x.observed[c]
      BY DEF Follows, Snapshot
    <2>2. /\ counters[c] \in Nat /\ observed[c] \in Nat /\ x.cols[c] \in Nat /\ x.observed[c] \in Nat
      BY <1>2
    <2>3. \/ counters'[c] = counters[c] + 1 /\ observed'[c] = observed[c] + 1
          \/ counters'[c] = counters[c] /\ observed'[c] = observed[c]
      BY <1>1
    <2>4. QED BY <1>1, <2>1, <2>2, <2>3
  <1>5. QED BY <1>1, <1>3, <1>4 DEF Follows, Snapshot

LEMMA RestartFollows ==
  ASSUME TypeOK, Restart, NEW x \in Rows, Follows(x, Snapshot)
  PROVE  Follows(x, Snapshot')
  <1>1. counters' = Zero /\ restarts' = restarts + 1 /\ observed' = observed BY DEF Restart
  <1>2. /\ observed \in [Columns -> Nat] /\ restarts \in Nat
        /\ x.observed \in [Columns -> Nat] /\ x.restarts \in Nat
    BY DashboardAssumption DEF TypeOK, Rows
  <1>3. x.restarts < restarts' BY <1>1, <1>2 DEF Follows, Snapshot
  <1>4. \A c \in Columns : counters'[c] = 0 BY <1>1 DEF Zero
  <1>5. QED BY <1>1, <1>2, <1>3, <1>4 DEF Follows, Snapshot

LEMMA OrderedNext == TypeOK /\ Ordered /\ [Next]_vars => Ordered'
  <1> SUFFICES ASSUME TypeOK, Ordered, [Next]_vars PROVE Ordered'
    OBVIOUS
  <1>0. Taken \subseteq Rows /\ tick \in [Slots -> TickStates]
    BY TakenType DEF TypeOK, TickStates, Phases
  <1>1. ASSUME NEW bin \in Columns, ObserveSocketLifetime(bin) PROVE Ordered'
    <2>1. Taken' = Taken BY <1>1 DEF ObserveSocketLifetime, table, Taken
    <2>2. \A x \in Taken : Follows(x, Snapshot') BY <1>0, <1>1, ObserveFollows DEF Ordered
    <2>3. QED BY <2>1, <2>2 DEF Ordered
  <1>2. CASE Restart
    <2>1. Taken' = Taken BY <1>2 DEF Restart, table, Taken
    <2>2. \A x \in Taken : Follows(x, Snapshot') BY <1>0, <1>2, RestartFollows DEF Ordered
    <2>3. QED BY <2>1, <2>2 DEF Ordered
  <1>3. CASE CollectorRestart
    <2>1. \A t \in Slots : tick'[t].phase # "answered"
      BY <1>3 DEF CollectorRestart, Seeded, Asked, Idle
    <2>2. Taken' \subseteq Taken BY <1>3, <2>1 DEF CollectorRestart, Taken
    <2>3. QED BY <1>3, <2>2, OrderedShrinks DEF CollectorRestart, relay, Snapshot
  <1>4. ASSUME NEW t \in Slots, Begin(t) PROVE Ordered'
    <2>1. \A u \in Slots : tick'[u].phase = "answered" =>
              tick[u].phase = "answered" /\ tick'[u] = tick[u]
      BY <1>0, <1>4 DEF Begin, Asked
    <2>2. Taken' \subseteq Taken BY <1>4, <2>1 DEF Begin, table, Taken
    <2>3. QED BY <1>4, <2>2, OrderedShrinks DEF Begin, relay, Snapshot
  <1>5. ASSUME NEW t \in Slots, Answer(t) PROVE Ordered'
    <2>1. \A u \in Slots : tick'[u].phase = "answered" =>
              \/ tick'[u].row = Snapshot
              \/ tick[u].phase = "answered" /\ tick'[u] = tick[u]
      BY <1>0, <1>5 DEF Answer
    <2>2. Taken' \subseteq Taken \cup {Snapshot} BY <1>5, <2>1 DEF Answer, table, Taken
    <2>3. Snapshot' = Snapshot BY <1>5 DEF Answer, relay, Snapshot
    <2>4. Follows(Snapshot, Snapshot) BY SnapshotType, FollowsSelf
    <2>5. QED BY <2>2, <2>3, <2>4 DEF Ordered
  <1>6. ASSUME NEW t \in Slots, NEW rows, Prune(rows), UNCHANGED relay,
               tick' = [tick EXCEPT ![t] = Idle],
               \A ts \in DOMAIN rows : rows[ts] \in Taken
        PROVE  Ordered'
    <2>1. \A u \in Slots : tick'[u].phase = "answered" =>
              tick[u].phase = "answered" /\ tick'[u] = tick[u]
      BY <1>0, <1>6 DEF Idle
    <2>2. \A ts \in DOMAIN samples' : samples'[ts] \in Taken BY <1>6, PruneEffect
    <2>3. Taken' \subseteq Taken BY <2>1, <2>2 DEF Taken
    <2>4. QED BY <1>6, <2>3, OrderedShrinks DEF relay, Snapshot
  <1>7. ASSUME NEW t \in Slots, Store(t) PROVE Ordered'
    <2>1. tick[t].row \in Taken BY <1>7 DEF Store, Taken
    <2>2. \A ts \in DOMAIN samples : samples[ts] \in Taken BY DEF Taken
    <2>3. \A ts \in DOMAIN Stored(t) : Stored(t)[ts] \in Taken BY <2>1, <2>2 DEF Stored
    <2>4. Prune(Stored(t)) /\ tick' = [tick EXCEPT ![t] = Idle] /\ UNCHANGED relay
      BY <1>7 DEF Store, Stored, relay
    <2>5. QED BY <1>6, <2>3, <2>4
  <1>8. ASSUME NEW t \in Slots, ScrapeFails(t) PROVE Ordered'
    <2>1. \A ts \in DOMAIN samples : samples[ts] \in Taken BY DEF Taken
    <2>2. Prune(samples) /\ tick' = [tick EXCEPT ![t] = Idle] /\ UNCHANGED relay
      BY <1>8 DEF ScrapeFails, relay
    <2>3. QED BY <1>6, <2>1, <2>2
  <1>9. CASE UNCHANGED vars
    <2>1. Taken' = Taken /\ Snapshot' = Snapshot BY <1>9 DEF vars, relay, table, Taken, Snapshot
    <2>2. QED BY <2>1, OrderedShrinks
  <1>10. QED BY <1>1, <1>2, <1>3, <1>4, <1>5, <1>7, <1>8, <1>9 DEF Next

LEMMA OrderedAlways == Spec => []Ordered
  <1>1. Init => Ordered
    <2> SUFFICES ASSUME Init PROVE Ordered
      OBVIOUS
    <2>1. DOMAIN samples = {} /\ \A t \in Slots : tick[t].phase # "answered" 
      BY DEF Init, Seeded, Idle, Asked
    <2>2. Taken = {} BY <2>1 DEF Taken
    <2>3. QED BY <2>2 DEF Ordered
  <1>2. TypeOK /\ Ordered /\ [Next]_vars => Ordered' BY OrderedNext
  <1>3. QED BY <1>1, <1>2, TypeCorrect, PTL DEF Spec

-----------------------------------------------------------------------------
(* What a page makes of a window.                                          *)

\* The summands of WindowTotal and of Elapsed.
StepsInto(times, part, c) ==
    [ts \in 0..now |->
        IF ts \in part /\ Earlier(times, ts) # {}
        THEN Step(samples[Prev(times, ts)], samples[ts], c) ELSE 0]
GapsInto(times, part) ==
    [ts \in 0..now |->
        IF ts \in part /\ Earlier(times, ts) # {} THEN ts - Prev(times, ts) ELSE 0]

LEMMA WindowFacts ==
  ASSUME TypeOK, NEW from \in Windows
  PROVE  /\ now \in Nat /\ from \in Int /\ from < now
         /\ Times(from) \in SUBSET (0..now) /\ Times(from) \subseteq DOMAIN samples
         /\ \A ts \in Times(from) : samples[ts] \in Rows /\ samples[ts] \in Taken /\ ts >= from
         /\ \A ts \in Times(from) : Earlier(Times(from), ts) # {} =>
                Prev(Times(from), ts) \in Times(from) /\ Prev(Times(from), ts) < ts
  <1> DEFINE times == Times(from)
  <1>1. now \in Nat BY DashboardAssumption DEF TypeOK
  <1>2. from \in Int /\ from < now
    <2>1. PICK span \in RANGES : from = now - span BY DEF Windows
    <2>2. span \in Nat \ {0} BY DashboardAssumption
    <2>3. QED BY <1>1, <2>1, <2>2
  <1>3. times \in SUBSET (0..now) /\ times \subseteq DOMAIN samples /\ \A ts \in times : ts >= from
    BY DEF TypeOK, Times
  <1>4. \A ts \in times : samples[ts] \in Rows /\ samples[ts] \in Taken
    BY <1>3 DEF TypeOK, Taken
  <1>5. ASSUME NEW ts \in times, Earlier(times, ts) # {}
        PROVE  Prev(times, ts) \in times /\ Prev(times, ts) < ts
    <2> HIDE DEF times
    <2>1. Earlier(times, ts) \in SUBSET (0..now) BY <1>3 DEF Earlier
    <2>2. Max(Earlier(times, ts)) \in Earlier(times, ts) BY <1>1, <1>5, <2>1, Extremes
    <2>3. QED BY <2>2 DEF Prev, Earlier
  <1>6. QED BY <1>1, <1>2, <1>3, <1>4, <1>5

LEMMA StepType ==
  ASSUME NEW x \in Rows, NEW y \in Rows, NEW c \in Columns
  PROVE  Step(x, y, c) \in Nat
  <1>1. x.cols[c] \in Nat /\ y.cols[c] \in Nat BY DEF Rows
  <1>2. QED BY <1>1 DEF Step

LEMMA StepHonest ==
  ASSUME NEW x \in Rows, NEW y \in Rows, NEW c \in Columns, Follows(x, y)
  PROVE  /\ Step(x, y, c) <= y.observed[c] - x.observed[c]
         /\ x.restarts = y.restarts => Step(x, y, c) = y.observed[c] - x.observed[c]
  <1>1. /\ x.cols[c] \in Nat /\ y.cols[c] \in Nat /\ x.observed[c] \in Nat /\ y.observed[c] \in Nat
        /\ x.restarts \in Nat /\ y.restarts \in Nat
    BY DEF Rows
  <1>2. /\ x.restarts <= y.restarts /\ x.observed[c] <= y.observed[c]
        /\ x.restarts = y.restarts => y.cols[c] - x.cols[c] = y.observed[c] - x.observed[c]
        /\ x.restarts < y.restarts => y.cols[c] <= y.observed[c] - x.observed[c]
    BY DEF Follows
  <1>3. QED BY <1>1, <1>2 DEF Step

LEMMA StepsType ==
  ASSUME TypeOK, NEW from \in Windows, NEW part \in SUBSET Times(from), NEW c \in Columns
  PROVE  /\ StepsInto(Times(from), part, c) \in [0..now -> Nat]
         /\ WindowTotal(Times(from), part, c) = Sums(StepsInto(Times(from), part, c))[now]
         /\ WindowTotal(Times(from), part, c) \in Nat
  <1> DEFINE times == Times(from)  f == StepsInto(times, part, c)
  <1>1. ASSUME NEW ts \in part, Earlier(times, ts) # {}
        PROVE  Step(samples[Prev(times, ts)], samples[ts], c) \in Nat
    <2>1. ts \in times OBVIOUS
    <2>2. samples[Prev(times, ts)] \in Rows /\ samples[ts] \in Rows
      BY <1>1, <2>1, WindowFacts
    <2>3. QED BY <2>2, StepType
  <1>2. f \in [0..now -> Nat] BY <1>1 DEF StepsInto
  <1>3. WindowTotal(times, part, c) = Sums(f)[now] BY DEF WindowTotal, StepsInto
  <1>4. Sums(f)[now] \in Nat
    <2> HIDE DEF f
    <2> QED BY <1>2, WindowFacts, SumsNat
  <1>5. QED BY <1>2, <1>3, <1>4

\* Of two samples, one that is not swapped with the other follows it.
LEMMA UnswappedFollows ==
  ASSUME Ordered, NEW x \in Taken, NEW y \in Taken, x \in Rows, y \in Rows, ~Swapped(x, y)
  PROVE  Follows(x, y)
  <1>1. /\ x.observed \in [Columns -> Nat] /\ y.observed \in [Columns -> Nat]
        /\ x.cols \in [Columns -> Nat] /\ y.cols \in [Columns -> Nat]
        /\ x.restarts \in Nat /\ y.restarts \in Nat
    BY DEF Rows
  <1>2. x.observed[All] \in Nat /\ y.observed[All] \in Nat BY <1>1, ColumnFacts
  <1>3. Follows(x, y) \/ Follows(y, x) BY DEF Ordered
  <1>4. ASSUME Follows(y, x) PROVE Follows(x, y)
    <2>1. y.restarts <= x.restarts /\ y.observed[All] <= x.observed[All]
      BY <1>4, ColumnFacts DEF Follows
    <2>2. x.restarts = y.restarts /\ y.observed[All] = x.observed[All]
      BY <1>1, <1>2, <2>1 DEF Swapped
    <2>3. x.observed = y.observed BY <1>4, <2>2 DEF Follows
    <2>4. ASSUME NEW c \in Columns PROVE y.cols[c] - x.cols[c] = y.observed[c] - x.observed[c]
      <3>1. x.cols[c] - y.cols[c] = x.observed[c] - y.observed[c] BY <1>4, <2>2 DEF Follows
      <3>2. /\ x.cols[c] \in Nat /\ y.cols[c] \in Nat
            /\ x.observed[c] \in Nat /\ y.observed[c] \in Nat
        BY <1>1
      <3>3. QED BY <3>1, <3>2
    <2>5. QED BY <1>1, <2>2, <2>3, <2>4 DEF Follows
  <1>5. QED BY <1>3, <1>4

\* A step between neighbours counts at most what the relay saw from one to the
\* other and what a swap counts again; without a restart just that.
LEMMA PairHonest ==
  ASSUME Ordered, NEW x \in Taken, NEW y \in Taken, x \in Rows, y \in Rows, NEW c \in Columns
  PROVE  /\ Recounted(x, y, c) \in Int
         /\ Step(x, y, c) <= y.observed[c] - x.observed[c] + Recounted(x, y, c)
         /\ x.restarts = y.restarts =>
               Step(x, y, c) = y.observed[c] - x.observed[c] + Recounted(x, y, c)
  <1>1. /\ x.cols[c] \in Nat /\ y.cols[c] \in Nat /\ x.observed[c] \in Nat /\ y.observed[c] \in Nat
        /\ x.restarts \in Nat /\ y.restarts \in Nat
        /\ x.observed[All] \in Nat /\ y.observed[All] \in Nat
    BY ColumnFacts DEF Rows
  <1>2. CASE ~Swapped(x, y)
    <2>1. Recounted(x, y, c) = 0 BY <1>2 DEF Recounted
    <2>2. Follows(x, y) BY <1>2, UnswappedFollows
    <2>3. QED BY <1>1, <2>1, <2>2, StepHonest
  <1>3. CASE Swapped(x, y)
    <2>1. Recounted(x, y, c) = x.observed[c] - y.observed[c]
              + (IF x.restarts = y.restarts THEN 0 ELSE y.cols[c])
      BY <1>3 DEF Recounted
    <2>2. CASE x.restarts = y.restarts
      <3>1. ~Follows(x, y) BY <1>1, <1>3, <2>2, ColumnFacts DEF Swapped, Follows
      <3>2. Follows(y, x) BY <3>1 DEF Ordered
      <3>3. x.cols[c] - y.cols[c] = x.observed[c] - y.observed[c] /\ y.observed[c] <= x.observed[c]
        BY <2>2, <3>2 DEF Follows
      <3>4. Step(x, y, c) = 0 BY <1>1, <3>3 DEF Step
      <3>5. QED BY <1>1, <2>1, <2>2, <3>4
    <2>3. CASE x.restarts # y.restarts
      <3>1. Step(x, y, c) <= y.cols[c] BY <1>1 DEF Step
      <3>2. Step(x, y, c) \in Nat BY StepType
      <3>3. QED BY <1>1, <2>1, <2>3, <3>1, <3>2
    <2>4. QED BY <2>2, <2>3
  <1>4. QED BY <1>2, <1>3

\* series.js, windowTotal: however the relay restarts, scrapes overlap or fail
\* and rows are pruned, a total does not exceed what the relay counted and
\* what swapped samples count again, and is that when the relay did not restart.
LEMMA TotalsHonest == TypeOK /\ Ordered => WindowHonest
  <1> SUFFICES ASSUME TypeOK, Ordered, NEW from \in Windows,
                      Times(from) # {}, NEW c \in Columns
               PROVE  LET times == Times(from)
                          first == samples[Min(times)]
                          last == samples[Max(times)]
                          seen == last.observed[c] - first.observed[c]
                          again == CountedAgain(times, c) IN
                      /\ Tiles(from)[c] <= seen + again
                      /\ (\A ts \in times : samples[ts].restarts = first.restarts) =>
                            Tiles(from)[c] = seen + again
    BY DEF WindowHonest
  <1> DEFINE times == Times(from)
             f == StepsInto(times, times, c)
             v == [ts \in 0..now |-> IF ts \in times THEN samples[ts].observed[c] ELSE 0]
             e == [ts \in 0..now |->
                     IF ts \in times /\ Earlier(times, ts) # {} THEN v[ts] - v[Prev(times, ts)] ELSE 0]
             r == [ts \in 0..now |->
                     IF ts \in times /\ Earlier(times, ts) # {}
                     THEN Recounted(samples[Prev(times, ts)], samples[ts], c) ELSE 0]
             d == [ts \in 0..now |-> e[ts] + r[ts]]
             first == samples[Min(times)]
             last == samples[Max(times)]
  <1>1. /\ now \in Nat /\ times \in SUBSET (0..now)
        /\ \A ts \in times : samples[ts] \in Rows /\ samples[ts] \in Taken
        /\ \A ts \in times : Earlier(times, ts) # {} =>
              Prev(times, ts) \in times /\ Prev(times, ts) < ts
    BY WindowFacts
  <1>2. Min(times) \in times /\ Max(times) \in times
        /\ \A ts \in times : Min(times) <= ts /\ ts <= Max(times)
    BY <1>1, Extremes
  <1>3. f \in [0..now -> Nat] /\ Tiles(from)[c] = Sums(f)[now]
    <2>1. Tiles(from)[c] = WindowTotal(times, times, c) BY DEF Tiles
    <2>2. QED BY <2>1, StepsType
  <1>4. v \in [0..now -> Int]
    <2>1. \A ts \in times : samples[ts].observed[c] \in Nat BY <1>1 DEF Rows
    <2>2. QED BY <2>1
  <1>5. e \in [0..now -> Int]
    <2>1. ASSUME NEW ts \in times, Earlier(times, ts) # {} PROVE v[ts] - v[Prev(times, ts)] \in Int
      <3>1. ts \in 0..now /\ Prev(times, ts) \in 0..now BY <1>1, <2>1
      <3> HIDE DEF v
      <3>2. QED BY <1>4, <3>1
    <2> HIDE DEF v
    <2>2. QED BY <2>1
  <1>6. Sums(e)[now] = last.observed[c] - first.observed[c]
    <2>1. \A a \in 0..now :
             e[a] = IF a \in times /\ Earlier(times, a) # {} THEN v[a] - v[Prev(times, a)] ELSE 0
      OBVIOUS
    <2>2. Sums(e)[now] = v[Max(times)] - v[Min(times)]
      <3> HIDE DEF e, v, times
      <3> QED BY <1>1, <1>4, <1>5, <2>1, Telescopes DEF times
    <2>3. v[Max(times)] = last.observed[c] /\ v[Min(times)] = first.observed[c]
      BY <1>1, <1>2
    <2> HIDE DEF v, e, first, last
    <2>4. QED BY <2>2, <2>3
  <1>7. ASSUME NEW ts \in times, Earlier(times, ts) # {}
        PROVE  /\ r[ts] \in Int
               /\ f[ts] <= e[ts] + r[ts]
               /\ samples[Prev(times, ts)].restarts = samples[ts].restarts => f[ts] = e[ts] + r[ts]
    <2> DEFINE x == samples[Prev(times, ts)]  y == samples[ts]
    <2>1. ts \in 0..now /\ Prev(times, ts) \in times /\ Prev(times, ts) \in 0..now
      BY <1>1, <1>7
    <2>2. x \in Rows /\ y \in Rows /\ x \in Taken /\ y \in Taken BY <1>1, <2>1
    <2>3. f[ts] = Step(x, y, c) BY <1>7, <2>1 DEF StepsInto
    <2>4. e[ts] = y.observed[c] - x.observed[c] /\ r[ts] = Recounted(x, y, c) BY <1>7, <2>1
    <2> HIDE DEF x, y, f, e, r
    <2>5. /\ Recounted(x, y, c) \in Int
          /\ Step(x, y, c) <= y.observed[c] - x.observed[c] + Recounted(x, y, c)
          /\ x.restarts = y.restarts =>
                Step(x, y, c) = y.observed[c] - x.observed[c] + Recounted(x, y, c)
      BY <2>2, PairHonest
    <2>6. QED BY <2>3, <2>4, <2>5 DEF x, y
  <1>8. ASSUME NEW ts \in 0..now, ~(ts \in times /\ Earlier(times, ts) # {})
        PROVE  f[ts] = 0 /\ e[ts] = 0 /\ r[ts] = 0
    BY <1>8 DEF StepsInto
  <1>9. /\ r \in [0..now -> Int] /\ d \in [0..now -> Int]
        /\ \A ts \in 0..now : d[ts] = e[ts] + r[ts]
        /\ CountedAgain(times, c) = Sums(r)[now]
    <2>1. CountedAgain(times, c) = Sums(r)[now] BY DEF CountedAgain
    <2>2. \A ts \in 0..now : r[ts] \in Int
      <3>1. ASSUME NEW ts \in 0..now PROVE r[ts] \in Int
        <4> HIDE DEF f, e, r, times
        <4> QED BY <1>7, <1>8
      <3> QED BY <3>1
    <2>3. r \in [0..now -> Int] BY <2>2
    <2>4. \A ts \in 0..now : d[ts] = e[ts] + r[ts] OBVIOUS
    <2>5. d \in [0..now -> Int]
      <3> HIDE DEF e, r
      <3> QED BY <1>5, <2>3
    <2>6. QED BY <2>1, <2>3, <2>4, <2>5
  <1>10. Sums(d)[now] = last.observed[c] - first.observed[c] + CountedAgain(times, c)
    <2> HIDE DEF d, e, r, first, last
    <2>1. Sums(d)[now] = Sums(e)[now] + Sums(r)[now] BY <1>1, <1>5, <1>9, SumsPlus
    <2>2. QED BY <1>6, <1>9, <2>1
  <1>11. Tiles(from)[c] <= last.observed[c] - first.observed[c] + CountedAgain(times, c)
    <2>1. \A ts \in 0..now : f[ts] <= d[ts]
      <3>1. ASSUME NEW ts \in 0..now PROVE f[ts] <= d[ts]
        <4> HIDE DEF f, e, r, d, times
        <4>1. CASE ts \in times /\ Earlier(times, ts) # {} BY <1>7, <1>9, <4>1
        <4>2. CASE ~(ts \in times /\ Earlier(times, ts) # {}) BY <1>8, <1>9, <4>2
        <4>3. QED BY <4>1, <4>2
      <3>2. QED BY <3>1
    <2>2. f \in [0..now -> Int] BY <1>3
    <2> HIDE DEF f, d, first, last
    <2>3. Sums(f)[now] <= Sums(d)[now] BY <1>1, <1>9, <2>1, <2>2, SumsLeq
    <2>4. QED BY <1>3, <1>10, <2>3
  <1>12. ASSUME \A ts \in times : samples[ts].restarts = first.restarts
         PROVE  Tiles(from)[c] = last.observed[c] - first.observed[c] + CountedAgain(times, c)
    <2>1. \A ts \in 0..now : f[ts] = d[ts]
      <3>1. ASSUME NEW ts \in times, Earlier(times, ts) # {} PROVE f[ts] = d[ts]
        <4>1. Prev(times, ts) \in times /\ ts \in 0..now BY <1>1, <3>1
        <4>2. samples[Prev(times, ts)].restarts = samples[ts].restarts BY <1>12, <3>1, <4>1
        <4>3. f[ts] = e[ts] + r[ts] BY <1>7, <3>1, <4>2
        <4> HIDE DEF f, d, e, r
        <4>4. QED BY <1>9, <4>1, <4>3
      <3>2. ASSUME NEW ts \in 0..now, ~(ts \in times /\ Earlier(times, ts) # {})
            PROVE  f[ts] = d[ts]
        <4>1. f[ts] = 0 /\ e[ts] = 0 /\ r[ts] = 0 BY <1>8, <3>2
        <4> HIDE DEF f, d, e, r
        <4>2. QED BY <1>9, <4>1
      <3> HIDE DEF f, d
      <3>3. QED BY <3>1, <3>2
    <2>2. f = d
      <3>1. f \in [0..now -> Int] BY <1>3
      <3>2. d \in [0..now -> Int] BY <1>9
      <3> HIDE DEF f, d
      <3>3. QED BY <2>1, <3>1, <3>2, SameFunction
    <2> HIDE DEF f, d, first, last
    <2>3. QED BY <1>3, <1>10, <2>2
  <1>13. QED BY <1>11, <1>12

\* The chart slot of a sample is a slot.
LEMMA IdxType ==
  ASSUME TypeOK, NEW from \in Windows, NEW ts \in Times(from)
  PROVE  Idx(ts, from) \in 0..(BUCKETS - 1)
  <1> DEFINE a == (ts - from) * BUCKETS  d == now - from  i == a \div d
  <1>1. BUCKETS \in Nat \ {0} BY DashboardAssumption
  <1>2. ts \in Nat /\ ts >= from /\ now \in Nat /\ from \in Int /\ from < now BY WindowFacts
  <1>3. ts - from \in Nat /\ d \in Nat \ {0} BY <1>2
  <1>4. a \in Nat BY <1>1, <1>3, ProductNat
  <1>5. i \in Int /\ a < d * i + d
    <2> HIDE DEF a, d
    <2> QED BY <1>3, <1>4, DivFacts
  <1>6. i >= 0
    <2> HIDE DEF a, d, i
    <2>1. SUFFICES ASSUME i < 0 PROVE FALSE BY <1>5
    <2>2. -i - 1 \in Nat BY <1>5, <2>1
    <2>3. d * (-i - 1) \in Nat BY <1>3, <2>2, ProductNat
    <2>4. d * (-i - 1) = -(d * i) - d BY <1>3, <1>5
    <2>5. QED BY <1>3, <1>4, <1>5, <2>3, <2>4
  <1>7. Idx(ts, from) = IF i < BUCKETS THEN i ELSE BUCKETS - 1 BY DEF Idx
  <1> HIDE DEF i
  <1>8. QED BY <1>1, <1>5, <1>6, <1>7

\* The same for the samples of a window, dealt to the slots of the chart.
DealsWindow(from, f, part, g) ==
    /\ f \in [0..now -> Int]
    /\ \A a \in (0..now) \ Times(from) : f[a] = 0
    /\ \A b \in 0..(BUCKETS - 1) : part[b] \in [0..now -> Int]
    /\ \A b \in 0..(BUCKETS - 1) : \A a \in 0..now :
          part[b][a] = IF a \in Times(from) /\ Idx(a, from) = b THEN f[a] ELSE 0
    /\ g \in [0..(BUCKETS - 1) -> Int]
    /\ \A b \in 0..(BUCKETS - 1) : g[b] = Sums(part[b])[now]

LEMMA Dealt ==
  ASSUME TypeOK, NEW from \in Windows, NEW f, NEW part, NEW g, DealsWindow(from, f, part, g)
  PROVE  Sums(g)[BUCKETS - 1] = Sums(f)[now]
  <1> DEFINE B == BUCKETS - 1
             slot == [a \in 0..now |-> IF a \in Times(from) THEN Idx(a, from) ELSE 0]
  <1>1. B \in Nat /\ now \in Nat BY DashboardAssumption, WindowFacts
  <1>2. slot \in [0..now -> 0..B] BY <1>1, IdxType
  <1>3. \A b \in 0..B : \A a \in 0..now : part[b][a] = IF slot[a] = b THEN f[a] ELSE 0
    BY DEF DealsWindow
  <1> HIDE DEF slot
  <1>4. Deals(now, B, slot, f, part, g) BY <1>2, <1>3 DEF Deals, DealsWindow
  <1> HIDE DEF B
  <1>5. Sums(g)[B] = Sums(f)[now] BY <1>1, <1>4, SumsSlots
  <1>6. QED BY <1>5 DEF B

\* series.js, bucketize: slots and tiles are two readings of the same steps.
LEMMA ChartAddsUp == TypeOK => BucketsPartition
  <1> SUFFICES ASSUME TypeOK, NEW from \in Windows
               PROVE  LET times == Times(from)
                          slots == Bucketize(times, from)
                          Sum(f) == Sums(f)[BUCKETS - 1] IN
                      /\ Sum([b \in DOMAIN slots |-> slots[b].n]) = Cardinality(times)
                      /\ times # {} =>
                            Sum([b \in DOMAIN slots |-> slots[b].elapsed]) = Max(times) - Min(times)
                      /\ \A c \in Columns :
                            Sum([b \in DOMAIN slots |-> slots[b].sum[c]]) = Tiles(from)[c]
    BY DEF BucketsPartition
  <1> DEFINE times == Times(from)
             slots == Bucketize(times, from)
             B == BUCKETS - 1
             part(b) == {ts \in times : Idx(ts, from) = b}
  <1>1. /\ now \in Nat /\ times \in SUBSET (0..now)
        /\ \A ts \in times : Earlier(times, ts) # {} => Prev(times, ts) \in times
    BY WindowFacts
  <1>2. /\ DOMAIN slots = 0..B
        /\ \A b \in 0..B : /\ slots[b].n = Cardinality(part(b))
                           /\ slots[b].elapsed = Elapsed(times, part(b))
                           /\ \A c \in Columns : slots[b].sum[c] = WindowTotal(times, part(b), c)
    BY DEF Bucketize
  <1> HIDE DEF slots
  <1>3. Sums([b \in DOMAIN slots |-> slots[b].n])[B] = Cardinality(times)
    <2> DEFINE f == [a \in 0..now |-> IF a \in times THEN 1 ELSE 0]
               p == [b \in 0..B |-> [a \in 0..now |-> IF a \in part(b) THEN 1 ELSE 0]]
               g == [b \in 0..B |-> Sums(p[b])[now]]
    <2>1. /\ f \in [0..now -> Int] /\ \A a \in (0..now) \ times : f[a] = 0
          /\ \A a \in 0..now : f[a] = IF a \in times THEN 1 ELSE 0
      OBVIOUS
    <2>2. ASSUME NEW b \in 0..B
          PROVE  /\ p[b] \in [0..now -> Int]
                 /\ \A a \in 0..now : p[b][a] = IF a \in part(b) THEN 1 ELSE 0
                 /\ \A a \in 0..now : p[b][a] = IF a \in times /\ Idx(a, from) = b THEN f[a] ELSE 0
      OBVIOUS
    <2> HIDE DEF f, p
    <2>3. g \in [0..B -> Int] /\ \A b \in 0..B : g[b] = Sums(p[b])[now]
      <3>1. ASSUME NEW b \in 0..B PROVE Sums(p[b])[now] \in Int
        <4>1. p[b] \in [0..now -> Int] BY <2>2
        <4>2. AddsUp(Sums(p[b]), p[b], now) BY <1>1, <4>1, SumsAddUp
        <4>3. QED BY <1>1, <4>2 DEF AddsUp
      <3>2. QED BY <3>1
    <2>4. Sums(g)[B] = Sums(f)[now]
      <3> HIDE DEF g, part
      <3>1. \A b \in 0..(BUCKETS - 1) : p[b] \in [0..now -> Int] BY <2>2
      <3>2. \A b \in 0..(BUCKETS - 1) : \A a \in 0..now :
               p[b][a] = IF a \in Times(from) /\ Idx(a, from) = b THEN f[a] ELSE 0
        BY <2>2
      <3>3. DealsWindow(from, f, p, g) BY <2>1, <2>3, <3>1, <3>2 DEF DealsWindow
      <3>4. QED BY <3>3, Dealt
    <2>5. Sums(f)[now] = Cardinality(times) BY <1>1, <2>1, CountIsSum
    <2>6. ASSUME NEW b \in 0..B PROVE Sums(p[b])[now] = Cardinality(part(b))
      <3>1. part(b) \in SUBSET (0..now) BY <1>1
      <3> HIDE DEF part
      <3>2. QED BY <1>1, <2>2, <3>1, CountIsSum
    <2>7. [b \in DOMAIN slots |-> slots[b].n] = g BY <1>2, <2>6
    <2>8. QED BY <2>4, <2>5, <2>7
  <1>4. ASSUME times # {}
        PROVE  Sums([b \in DOMAIN slots |-> slots[b].elapsed])[B] = Max(times) - Min(times)
    <2> DEFINE f == GapsInto(times, times)
               p == [b \in 0..B |-> GapsInto(times, part(b))]
               g == [b \in 0..B |-> Sums(p[b])[now]]
               v == [a \in 0..now |-> a]
    <2>1. ASSUME NEW a \in 0..now
          PROVE  f[a] = IF a \in times /\ Earlier(times, a) # {} THEN v[a] - v[Prev(times, a)] ELSE 0
      <3>1. a \in times /\ Earlier(times, a) # {} => Prev(times, a) \in 0..now BY <1>1
      <3>2. QED BY <3>1 DEF GapsInto
    <2>2. f \in [0..now -> Int] /\ v \in [0..now -> Int]
      <3>1. \A a \in times : Earlier(times, a) # {} => Prev(times, a) \in Int BY <1>1
      <3>2. QED BY <3>1 DEF GapsInto
    <2>3. \A a \in (0..now) \ times : f[a] = 0 BY DEF GapsInto
    <2>4. ASSUME NEW b \in 0..B
          PROVE  /\ p[b] \in [0..now -> Int]
                 /\ \A a \in 0..now : p[b][a] = IF a \in times /\ Idx(a, from) = b THEN f[a] ELSE 0
      <3>1. \A a \in times : Earlier(times, a) # {} => Prev(times, a) \in Int BY <1>1
      <3>2. p[b] = GapsInto(times, part(b)) OBVIOUS
      <3>3. p[b] \in [0..now -> Int] BY <3>1, <3>2 DEF GapsInto
      <3>4. \A a \in 0..now : p[b][a] = IF a \in times /\ Idx(a, from) = b THEN f[a] ELSE 0
        BY <3>2 DEF GapsInto
      <3>5. QED BY <3>3, <3>4
    <2> HIDE DEF f, p, v
    <2>5. g \in [0..B -> Int] /\ \A b \in 0..B : g[b] = Sums(p[b])[now]
      <3>1. ASSUME NEW b \in 0..B PROVE Sums(p[b])[now] \in Int
        <4>1. p[b] \in [0..now -> Int] BY <2>4
        <4>2. AddsUp(Sums(p[b]), p[b], now) BY <1>1, <4>1, SumsAddUp
        <4>3. QED BY <1>1, <4>2 DEF AddsUp
      <3>2. QED BY <3>1
    <2>6. Sums(g)[B] = Sums(f)[now]
      <3> HIDE DEF g, part
      <3>1. \A b \in 0..(BUCKETS - 1) : p[b] \in [0..now -> Int] BY <2>4
      <3>2. \A b \in 0..(BUCKETS - 1) : \A a \in 0..now :
               p[b][a] = IF a \in Times(from) /\ Idx(a, from) = b THEN f[a] ELSE 0
        BY <2>4
      <3>3. DealsWindow(from, f, p, g) BY <2>2, <2>3, <2>5, <3>1, <3>2 DEF DealsWindow
      <3>4. QED BY <3>3, Dealt
    <2>7. Sums(f)[now] = v[Max(times)] - v[Min(times)]
      <3> HIDE DEF times
      <3> QED BY <1>1, <1>4, <2>1, <2>2, Telescopes
    <2>8. v[Max(times)] = Max(times) /\ v[Min(times)] = Min(times)
      BY <1>1, <1>4, Extremes DEF v
    <2>9. ASSUME NEW b \in 0..B PROVE Sums(p[b])[now] = Elapsed(times, part(b))
      BY DEF p, GapsInto, Elapsed
    <2>10. [b \in DOMAIN slots |-> slots[b].elapsed] = g BY <1>2, <2>9
    <2>11. QED BY <2>6, <2>7, <2>8, <2>10
  <1>5. ASSUME NEW c \in Columns
        PROVE  Sums([b \in DOMAIN slots |-> slots[b].sum[c]])[B] = Tiles(from)[c]
    <2> DEFINE f == StepsInto(times, times, c)
               p == [b \in 0..B |-> StepsInto(times, part(b), c)]
               g == [b \in 0..B |-> Sums(p[b])[now]]
    <2>1. f \in [0..now -> Nat] /\ Tiles(from)[c] = Sums(f)[now]
      <3>1. Tiles(from)[c] = WindowTotal(times, times, c) BY DEF Tiles
      <3>2. QED BY <3>1, StepsType
    <2>2. f \in [0..now -> Int] BY <2>1
    <2>3. \A a \in (0..now) \ times : f[a] = 0 BY DEF StepsInto
    <2>4. ASSUME NEW b \in 0..B
          PROVE  /\ p[b] \in [0..now -> Nat] /\ Sums(p[b])[now] = WindowTotal(times, part(b), c)
                 /\ \A a \in 0..now : p[b][a] = IF a \in times /\ Idx(a, from) = b THEN f[a] ELSE 0
      <3>1. part(b) \in SUBSET Times(from) /\ p[b] = StepsInto(times, part(b), c) OBVIOUS
      <3>2. p[b] \in [0..now -> Nat] /\ Sums(p[b])[now] = WindowTotal(times, part(b), c)
        <4> HIDE DEF part, p
        <4> QED BY <3>1, StepsType
      <3>3. \A a \in 0..now : p[b][a] = IF a \in times /\ Idx(a, from) = b THEN f[a] ELSE 0
        BY <3>1 DEF StepsInto
      <3>4. QED BY <3>2, <3>3
    <2>5. \A b \in 0..B : p[b] \in [0..now -> Int] BY <2>4
    <2> HIDE DEF f, p
    <2>6. g \in [0..B -> Int] /\ \A b \in 0..B : g[b] = Sums(p[b])[now]
      <3>1. ASSUME NEW b \in 0..B PROVE Sums(p[b])[now] \in Int
        <4>1. p[b] \in [0..now -> Int] BY <2>5
        <4>2. AddsUp(Sums(p[b]), p[b], now) BY <1>1, <4>1, SumsAddUp
        <4>3. QED BY <1>1, <4>2 DEF AddsUp
      <3>2. QED BY <3>1
    <2>7. Sums(g)[B] = Sums(f)[now]
      <3> HIDE DEF g, part
      <3>1. \A b \in 0..(BUCKETS - 1) : p[b] \in [0..now -> Int] BY <2>5
      <3>2. \A b \in 0..(BUCKETS - 1) : \A a \in 0..now :
               p[b][a] = IF a \in Times(from) /\ Idx(a, from) = b THEN f[a] ELSE 0
        BY <2>4
      <3>3. DealsWindow(from, f, p, g) BY <2>2, <2>3, <2>6, <3>1, <3>2 DEF DealsWindow
      <3>4. QED BY <3>3, Dealt
    <2>8. [b \in DOMAIN slots |-> slots[b].sum[c]] = g BY <1>2, <2>4
    <2>9. QED BY <2>1, <2>7, <2>8
  <1>6. QED BY <1>3, <1>4, <1>5 DEF slots

\* series.js, latencyQuantile on the totals of a window.
LEMMA TilesOrdered == TypeOK => QuantilesOrdered
  <1> SUFFICES ASSUME TypeOK, NEW from \in Windows, Tiles(from)[All] > 0
               PROVE  /\ 0 <= LatencyTile(Tiles(from), 50)
                      /\ LatencyTile(Tiles(from), 50) <= LatencyTile(Tiles(from), 95)
                      /\ LatencyTile(Tiles(from), 95) <= Bounds[Len(Bounds)]
    BY DEF QuantilesOrdered
  <1> DEFINE cum == Tiles(from)  total == Tiles(from)[All]
  <1>1. cum \in [Columns -> Nat]
    <2>1. \A c \in Columns : WindowTotal(Times(from), Times(from), c) \in Nat BY StepsType
    <2>2. QED BY <2>1 DEF Tiles
  <1>2. total \in Nat \ {0} BY <1>1, ColumnFacts
  <1>3. /\ LatencyTile(Tiles(from), 50) = LatencyQuantile(50, cum, total)
        /\ LatencyTile(Tiles(from), 95) = LatencyQuantile(95, cum, total)
    BY DEF LatencyTile
  <1> HIDE DEF cum, total
  <1>4. 50 \in 1..100 /\ 95 \in 1..100 /\ 50 <= 95 OBVIOUS
  <1>5. /\ 0 <= LatencyQuantile(50, cum, total)
        /\ LatencyQuantile(50, cum, total) <= LatencyQuantile(95, cum, total)
        /\ LatencyQuantile(95, cum, total) <= Bounds[Last]
    BY <1>1, <1>2, <1>4, QuantilesMonotone
  <1>6. Bounds[Last] = Bounds[Len(Bounds)] BY DEF Last
  <1>7. QED BY <1>3, <1>5, <1>6, Zenon

-----------------------------------------------------------------------------
(* The properties of the run, for every value of the constants.            *)

\* What series.js, windowTotal, reports for a window is never more than the
\* relay saw between the window's first and last sample, through any number of
\* restarts, failed scrapes and prunes, plus what scrapes that overtook each
\* other count again: for each such pair the traffic from the one rendering to
\* the other, and the older count too if a restart lay between them.  Without
\* a restart the total is exactly that, so a window in order is exact.
THEOREM HonestTotals == Spec => []WindowHonest
  BY TypeCorrect, OrderedAlways, TotalsHonest, PTL

\* series.js, bucketize, loses no sample, no step and no elapsed time, and
\* counts none twice: the slots of every chart add up to its window.
THEOREM ChartMatchesTiles == Spec => []BucketsPartition
  BY TypeCorrect, ChartAddsUp, PTL

\* series.js, latencyQuantile: p50 <= p95 <= the last bound, for the column
\* totals of every window, those that a restart has torn included.
THEOREM QuantilesInOrder == Spec => []QuantilesOrdered
  BY TypeCorrect, TilesOrdered, PTL
=============================================================================
