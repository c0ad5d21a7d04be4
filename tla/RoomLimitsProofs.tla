-------------------------- MODULE RoomLimitsProofs --------------------------
(***************************************************************************)
(* RoomLimits, for any sizes, windows, quotas and limits: type             *)
(* correctness, the bar of a room over its quota, and the two bounds on    *)
(* what passes in a rolling window although the windows of the code are    *)
(* fixed: bytes (RollingQuota) and frames (FramesPaced).                   *)
(*                                                                         *)
(* The bounds are sums over the log.  Their invariants are stated for      *)
(* every stretch that ends now, not only for the one of a window's length: *)
(* when a tick drops the oldest entry, the stretch that is one shorter     *)
(* takes over.  The quota needs one more thing: the row in storage must be *)
(* good for the same bound as the one in memory, but for what was counted  *)
(* since the last flush (Pending), because it is what a reload goes on     *)
(* with (Fits).                                                            *)
(***************************************************************************)
EXTENDS RoomLimits, WellFoundedInduction, TLAPS

Ages == 0..QUOTA_WINDOW - 1
Entries == [relayed : Nat, passed : Nat, unflushed : Nat, reloads : Nat]

-----------------------------------------------------------------------------
(* Running sums.  The induction is over a set of numbers, by its smallest  *)
(* missing element.                                                        *)

LEMMA SetInduction ==
  ASSUME NEW N \in Nat, NEW S, 0 \in S, \A n \in 1..N : n - 1 \in S => n \in S
  PROVE  0..N \subseteq S
  <1> DEFINE T == {n \in 0..N : n \notin S}
  <1>1. SUFFICES ASSUME T # {} PROVE FALSE
    OBVIOUS
  <1>2. T \subseteq Nat OBVIOUS
  <1>3. \E x \in T : \A y \in T : ~(y < x)
    <2>1. IsWellFoundedOn({ss \in Nat \X Nat : ss[1] < ss[2]}, Nat)
      BY NatLessThanWellFounded DEF OpToRel
    <2>2. \E x \in T : \A y \in T : ~(<<y, x>> \in {ss \in Nat \X Nat : ss[1] < ss[2]})
      <3> HIDE DEF T
      <3> QED BY <1>1, <1>2, <2>1, WFMin
    <2>3. QED BY <1>2, <2>2
  <1>4. PICK x \in T : \A y \in T : ~(y < x) BY <1>3
  <1>5. x \in 1..N BY <1>4
  <1>6. x - 1 \notin T BY <1>4, <1>5
  <1>7. QED BY <1>4, <1>5, <1>6

\* g adds up f from 0 to n.
AddsUp(g, f, n) ==
    /\ g \in [0..n -> Int]
    /\ g[0] = f[0]
    /\ \A a \in 1..n : g[a] = g[a - 1] + f[a]

LEMMA SumsExist ==
  ASSUME NEW N \in Nat, NEW f \in [0..N -> Int]
  PROVE  \E g : AddsUp(g, f, N)
  <1> DEFINE S == {n \in 0..N : \E g : AddsUp(g, f, n)}
  <1>1. 0 \in S
    <2>1. AddsUp([a \in 0..0 |-> f[0]], f, 0) BY DEF AddsUp
    <2>2. QED BY <2>1
  <1>2. ASSUME NEW n \in 1..N, n - 1 \in S PROVE n \in S
    <2>1. PICK g : AddsUp(g, f, n - 1) BY <1>2
    <2> DEFINE h == [a \in 0..n |-> IF a = n THEN g[n - 1] + f[n] ELSE g[a]]
    <2>2. h \in [0..n -> Int] BY <2>1 DEF AddsUp
    <2>3. h[0] = f[0] BY <2>1 DEF AddsUp
    <2>4. ASSUME NEW a \in 1..n PROVE h[a] = h[a - 1] + f[a]
      <3>1. CASE a = n BY <3>1
      <3>2. CASE a # n BY <2>1, <3>2 DEF AddsUp
      <3>3. QED BY <3>1, <3>2
    <2>5. AddsUp(h, f, n)
      <3> HIDE DEF h
      <3> QED BY <2>2, <2>3, <2>4 DEF AddsUp
    <2>6. QED BY <2>5
  <1>3. 0..N \subseteq S
    <2> HIDE DEF S
    <2> QED BY <1>1, <1>2, SetInduction
  <1>4. QED BY <1>3

LEMMA SumsAddUp ==
  ASSUME NEW N \in Nat, NEW f \in [0..N -> Int]
  PROVE  AddsUp(Sums(f), f, N)
  <1> DEFINE Is(g) == g = [a \in DOMAIN f |-> IF a = 0 THEN f[0] ELSE g[a - 1] + f[a]]
  <1>1. \E g : Is(g)
    <2>1. PICK g : AddsUp(g, f, N) BY SumsExist
    <2>2. Is(g) BY <2>1 DEF AddsUp
    <2>3. QED BY <2>2
  <1>2. Is(Sums(f))
    <2>1. Sums(f) = CHOOSE g : Is(g) BY DEF Sums
    <2>2. QED BY <1>1, <2>1
  <1>3. Sums(f)[0] = f[0] /\ \A a \in 1..N : Sums(f)[a] = Sums(f)[a - 1] + f[a]
    <2> DEFINE h == Sums(f)
    <2>1. h = [a \in 0..N |-> IF a = 0 THEN f[0] ELSE h[a - 1] + f[a]] BY <1>2
    <2> HIDE DEF h
    <2>2. \A a \in 0..N : h[a] = IF a = 0 THEN f[0] ELSE h[a - 1] + f[a] BY <2>1
    <2>3. h[0] = f[0] /\ \A a \in 1..N : h[a] = h[a - 1] + f[a] BY <2>2
    <2>4. QED BY <2>3 DEF h
  <1>4. Sums(f) \in [0..N -> Int]
    <2> DEFINE S == {n \in 0..N : Sums(f)[n] \in Int}
    <2>1. 0 \in S BY <1>3
    <2>2. \A n \in 1..N : n - 1 \in S => n \in S BY <1>3
    <2>3. 0..N \subseteq S
      <3> HIDE DEF S
      <3> QED BY <2>1, <2>2, SetInduction
    <2>4. QED BY <1>2, <2>3
  <1>5. QED BY <1>3, <1>4 DEF AddsUp

\* A change of the first summand, a shift, and summands that are 0 or more.
LEMMA SumsAdd ==
  ASSUME NEW N \in Nat, NEW f \in [0..N -> Int], NEW g \in [0..N -> Int], NEW d \in Int,
         g[0] = f[0] + d, \A a \in 1..N : g[a] = f[a]
  PROVE  \A a \in 0..N : Sums(g)[a] = Sums(f)[a] + d
  <1> DEFINE S == {n \in 0..N : Sums(g)[n] = Sums(f)[n] + d}
  <1>1. AddsUp(Sums(f), f, N) /\ AddsUp(Sums(g), g, N) BY SumsAddUp
  <1>2. 0 \in S BY <1>1 DEF AddsUp
  <1>3. ASSUME NEW n \in 1..N, n - 1 \in S PROVE n \in S
    <2>1. Sums(g)[n - 1] = Sums(f)[n - 1] + d BY <1>3
    <2>2. Sums(g)[n] = Sums(g)[n - 1] + f[n] /\ Sums(f)[n] = Sums(f)[n - 1] + f[n]
          /\ Sums(f)[n - 1] \in Int /\ f[n] \in Int
      BY <1>1 DEF AddsUp
    <2>3. QED BY <2>1, <2>2
  <1>4. 0..N \subseteq S
    <2> HIDE DEF S
    <2> QED BY <1>2, <1>3, SetInduction
  <1>5. QED BY <1>4

LEMMA SumsShift ==
  ASSUME NEW N \in Nat, NEW f \in [0..N -> Int], NEW g \in [0..N -> Int],
         g[0] = 0, \A a \in 1..N : g[a] = f[a - 1]
  PROVE  Sums(g)[0] = 0 /\ \A a \in 1..N : Sums(g)[a] = Sums(f)[a - 1]
  <1> DEFINE S == {n \in 0..N : n > 0 => Sums(g)[n] = Sums(f)[n - 1]}
  <1>1. AddsUp(Sums(f), f, N) /\ AddsUp(Sums(g), g, N) BY SumsAddUp
  <1>2. 0 \in S OBVIOUS
  <1>3. ASSUME NEW n \in 1..N, n - 1 \in S PROVE n \in S
    <2>1. Sums(g)[n] = Sums(g)[n - 1] + f[n - 1] BY <1>1 DEF AddsUp
    <2>2. CASE n = 1 BY <1>1, <2>1, <2>2 DEF AddsUp
    <2>3. CASE n > 1
      <3>1. Sums(g)[n - 1] = Sums(f)[n - 2] BY <1>3, <2>3
      <3>2. Sums(f)[n - 1] = Sums(f)[n - 2] + f[n - 1] BY <1>1, <2>3 DEF AddsUp
      <3>3. QED BY <2>1, <3>1, <3>2
    <2>4. QED BY <2>2, <2>3
  <1>4. 0..N \subseteq S
    <2> HIDE DEF S
    <2> QED BY <1>2, <1>3, SetInduction
  <1>5. QED BY <1>1, <1>4 DEF AddsUp

LEMMA SumsNat ==
  ASSUME NEW N \in Nat, NEW f \in [0..N -> Nat]
  PROVE  \A a \in 0..N : Sums(f)[a] \in Nat
  <1> DEFINE S == {n \in 0..N : Sums(f)[n] \in Nat}
  <1>1. AddsUp(Sums(f), f, N) BY SumsAddUp
  <1>2. 0 \in S BY <1>1 DEF AddsUp
  <1>3. \A n \in 1..N : n - 1 \in S => n \in S BY <1>1 DEF AddsUp
  <1>4. 0..N \subseteq S
    <2> HIDE DEF S
    <2> QED BY <1>2, <1>3, SetInduction
  <1>5. QED BY <1>4

LEMMA SumsZero ==
  ASSUME NEW N \in Nat, NEW f \in [0..N -> Nat], \A a \in 0..N : f[a] = 0
  PROVE  \A a \in 0..N : Sums(f)[a] = 0
  <1> DEFINE S == {n \in 0..N : Sums(f)[n] = 0}
  <1>1. AddsUp(Sums(f), f, N) BY SumsAddUp
  <1>2. 0 \in S BY <1>1 DEF AddsUp
  <1>3. \A n \in 1..N : n - 1 \in S => n \in S BY <1>1 DEF AddsUp
  <1>4. 0..N \subseteq S
    <2> HIDE DEF S
    <2> QED BY <1>2, <1>3, SetInduction
  <1>5. QED BY <1>4

\* The log, of one field.
Fields == {"relayed", "passed", "unflushed", "reloads"}
Logs == [Ages -> Entries]
Column(l, what) == [a \in DOMAIN l |-> l[a][what]]

LEMMA ColumnType ==
  ASSUME NEW l \in Logs, NEW what \in Fields
  PROVE  /\ QUOTA_WINDOW - 1 \in Nat
         /\ Column(l, what) \in [0..QUOTA_WINDOW - 1 -> Nat]
         /\ Column(l, what) \in [0..QUOTA_WINDOW - 1 -> Int]
         /\ \A a \in Ages : Column(l, what)[a] = l[a][what]
         /\ \A a \in Ages : Sums(Column(l, what))[a] \in Nat
  <1>1. QUOTA_WINDOW - 1 \in Nat BY RoomLimitsAssumption
  <1>2. \A a \in Ages : l[a][what] \in Nat BY DEF Logs, Entries, Fields
  <1>3. Column(l, what) \in [0..QUOTA_WINDOW - 1 -> Nat] BY <1>2 DEF Column, Logs, Ages
  <1>4. \A a \in Ages : Sums(Column(l, what))[a] \in Nat BY <1>1, <1>3, SumsNat DEF Ages
  <1>5. QED BY <1>1, <1>3, <1>4 DEF Column, Ages, Logs

-----------------------------------------------------------------------------
(* The inductive invariants.                                               *)

\* A room that was refused is past its window, or over its quota by whichever
\* row the next frame goes by.
Spent(row) == row.dayStart = barred /\ row.bytes > QUOTA
BarHolds ==
    barred # Nothing =>
        \/ now - barred >= QUOTA_WINDOW
        \/ /\ stored # Nothing /\ Spent(stored)
           /\ quota # Nothing => Spent(quota)

\* What was relayed, less what may have been forgotten.
Excess(a) ==
    Recent("relayed")[a] - (Recent("reloads")[a] + Recent("unflushed")[a]) * (QUOTA_FLUSH - 1)

\* No frame can be counted in this row any more.
Expired(row) == row = Nothing \/ now - row.dayStart >= QUOTA_WINDOW

Within(bytes) == IF bytes <= QUOTA THEN bytes ELSE QUOTA

\* Of every stretch that ends now, the row accounts for all but e of the bytes
\* relayed: a stretch that began with the row or later by the row's count, an
\* older one with a quota more, for the window before.
Fits(row, e) ==
    IF Expired(row)
    THEN /\ Excess(0) <= e
         /\ \A a \in Ages : Excess(a) <= QUOTA + e
    ELSE \A a \in Ages :
            Excess(a) <= Within(row.bytes) + e + (IF a > now - row.dayStart THEN QUOTA ELSE 0)

\* Counted since the last flush.
Pending ==
    IF quota = Nothing THEN 0
    ELSE IF quota.bytes <= QUOTA THEN quota.bytes - quotaFlushed ELSE QUOTA_FLUSH - 1

QuotaFits ==
    /\ quota # Nothing => Fits(quota, 0)
    /\ Fits(stored, Pending)
    /\ Pending <= QUOTA_FLUSH - 1
    /\ quota # Nothing /\ stored # Nothing => stored.dayStart <= quota.dayStart

\* Frames let past the limiter, less a limit for each reload.
Surplus(a) == Recent("passed")[a] - Recent("reloads")[a] * MAX_FRAMES

FrameAge == now - frameWindow.start
Used == IF frameWindow.count <= MAX_FRAMES THEN frameWindow.count ELSE MAX_FRAMES

\* The same of frames: a stretch has as many as the window has let through, one
\* less if it began after the window's first frame, and less than a limit more
\* if it began before the window.
FramesFit ==
    IF FrameAge > FRAME_WINDOW
    THEN /\ Surplus(0) <= 0
         /\ \A a \in 0..FRAME_WINDOW : Surplus(a) <= MAX_FRAMES - 1
    ELSE /\ Used > 0 /\ FrameAge >= 0
         /\ \A a \in 0..FRAME_WINDOW :
               /\ a < FrameAge => Surplus(a) <= Used - 1
               /\ a = FrameAge => Surplus(a) <= Used
               /\ a > FrameAge => Surplus(a) <= Used + MAX_FRAMES - 1

-----------------------------------------------------------------------------
(* What a step does to the sums.                                           *)

\* The entry of this tick grows.
Logs1(relayed, passed, unflushed, reloads) ==
    /\ log' \in Logs
    /\ log'[0].relayed = log[0].relayed + relayed
    /\ log'[0].passed = log[0].passed + passed
    /\ log'[0].unflushed = log[0].unflushed + unflushed
    /\ log'[0].reloads = log[0].reloads + reloads
    /\ \A a \in 1..QUOTA_WINDOW - 1 : log'[a] = log[a]

LEMMA RecentType ==
  ASSUME log \in Logs
  PROVE  /\ \A what \in Fields : \A a \in Ages : Recent(what)[a] \in Nat
         /\ \A a \in Ages : Excess(a) \in Int /\ Surplus(a) \in Int
  <1>1. \A what \in Fields : \A a \in Ages : Recent(what)[a] \in Nat
    BY ColumnType DEF Recent, Column
  <1>2. QED BY <1>1, RoomLimitsAssumption DEF Excess, Surplus, Fields

LEMMA RecentGrows ==
  ASSUME log \in Logs, NEW dr \in Nat, NEW dp \in Nat, NEW du \in Nat, NEW dl \in Nat,
         Logs1(dr, dp, du, dl)
  PROVE  \A a \in Ages :
           /\ Excess(a)' = Excess(a) + dr - (dl + du) * (QUOTA_FLUSH - 1)
           /\ Surplus(a)' = Surplus(a) + dp - dl * MAX_FRAMES
  <1>1. ASSUME NEW what \in Fields, NEW d \in Nat, log'[0][what] = log[0][what] + d
        PROVE  \A a \in Ages : Recent(what)'[a] = Recent(what)[a] + d
    <2> DEFINE f == Column(log, what)
               g == Column(log', what)
    <2>1. 0 \in Ages /\ QUOTA_WINDOW - 1 \in Nat BY RoomLimitsAssumption DEF Ages
    <2>2. log' \in Logs /\ \A a \in 1..QUOTA_WINDOW - 1 : log'[a] = log[a] BY DEF Logs1
    <2>3. f \in [0..QUOTA_WINDOW - 1 -> Int] /\ g \in [0..QUOTA_WINDOW - 1 -> Int]
      BY <2>2, ColumnType
    <2>4. g[0] = f[0] + d BY <1>1, <2>1, <2>2, ColumnType
    <2>5. \A a \in 1..QUOTA_WINDOW - 1 : g[a] = f[a] BY <2>2, ColumnType DEF Ages
    <2>6. \A a \in 0..QUOTA_WINDOW - 1 : Sums(g)[a] = Sums(f)[a] + d
      <3>1. d \in Int OBVIOUS
      <3> HIDE DEF f, g
      <3> QED BY <2>1, <2>3, <2>4, <2>5, <3>1, SumsAdd, Zenon
    <2>7. QED BY <2>6 DEF Recent, Column, Ages
  <1>2. SUFFICES ASSUME NEW a \in Ages
        PROVE  /\ Excess(a)' = Excess(a) + dr - (dl + du) * (QUOTA_FLUSH - 1)
               /\ Surplus(a)' = Surplus(a) + dp - dl * MAX_FRAMES
    OBVIOUS
  <1>3. /\ Recent("relayed")'[a] = Recent("relayed")[a] + dr
        /\ Recent("passed")'[a] = Recent("passed")[a] + dp
        /\ Recent("unflushed")'[a] = Recent("unflushed")[a] + du
        /\ Recent("reloads")'[a] = Recent("reloads")[a] + dl
    BY <1>1 DEF Logs1, Fields
  <1>4. /\ Recent("relayed")[a] \in Nat /\ Recent("passed")[a] \in Nat
        /\ Recent("unflushed")[a] \in Nat /\ Recent("reloads")[a] \in Nat
    BY RecentType DEF Fields
  <1>5. ASSUME NEW x \in Int, NEW y \in Int, NEW c \in Int PROVE (x + y) * c = x * c + y * c
    OBVIOUS
  <1>6. QED BY <1>3, <1>4, <1>5, RoomLimitsAssumption DEF Excess, Surplus

LEMMA RecentShifts ==
  ASSUME log \in Logs, log' = [a \in DOMAIN log |-> IF a = 0 THEN Quiet ELSE log[a - 1]]
  PROVE  /\ log' \in Logs
         /\ Excess(0)' = 0 /\ Surplus(0)' = 0
         /\ \A a \in 1..QUOTA_WINDOW - 1 :
              Excess(a)' = Excess(a - 1) /\ Surplus(a)' = Surplus(a - 1)
  <1>1. Quiet \in Entries /\ \A what \in Fields : Quiet[what] = 0
    BY DEF Quiet, Entries, Fields
  <1>2. 0 \in Ages /\ QUOTA_WINDOW - 1 \in Nat BY RoomLimitsAssumption DEF Ages
  <1>3. log' \in Logs BY <1>1, <1>2 DEF Logs, Ages
  <1>4. ASSUME NEW what \in Fields
        PROVE  /\ Recent(what)'[0] = 0
               /\ \A a \in 1..QUOTA_WINDOW - 1 : Recent(what)'[a] = Recent(what)[a - 1]
    <2> DEFINE f == Column(log, what)
               g == Column(log', what)
    <2>1. f \in [0..QUOTA_WINDOW - 1 -> Int] /\ g \in [0..QUOTA_WINDOW - 1 -> Int]
      BY <1>3, ColumnType
    <2>2. g[0] = 0 BY <1>1, <1>2, <1>3, ColumnType DEF Logs
    <2>3. ASSUME NEW a \in 1..QUOTA_WINDOW - 1 PROVE g[a] = f[a - 1]
      <3>1. a \in Ages /\ a - 1 \in Ages /\ a # 0 BY <1>2 DEF Ages
      <3>2. log'[a] = log[a - 1] BY <3>1 DEF Logs
      <3>3. QED BY <1>3, <3>1, <3>2, ColumnType
    <2>4. Sums(g)[0] = 0 /\ \A a \in 1..QUOTA_WINDOW - 1 : Sums(g)[a] = Sums(f)[a - 1]
      <3> HIDE DEF f, g
      <3> QED BY <1>2, <2>1, <2>2, <2>3, SumsShift, Zenon
    <2>5. QED BY <2>4 DEF Recent, Column
  <1>5. Excess(0)' = 0 /\ Surplus(0)' = 0
    <2>1. /\ Recent("relayed")'[0] = 0 /\ Recent("passed")'[0] = 0
          /\ Recent("unflushed")'[0] = 0 /\ Recent("reloads")'[0] = 0
      BY <1>4 DEF Fields
    <2>2. QED BY <2>1, RoomLimitsAssumption DEF Excess, Surplus
  <1>6. ASSUME NEW a \in 1..QUOTA_WINDOW - 1
        PROVE  Excess(a)' = Excess(a - 1) /\ Surplus(a)' = Surplus(a - 1)
    <2>1. /\ Recent("relayed")'[a] = Recent("relayed")[a - 1]
          /\ Recent("passed")'[a] = Recent("passed")[a - 1]
          /\ Recent("unflushed")'[a] = Recent("unflushed")[a - 1]
          /\ Recent("reloads")'[a] = Recent("reloads")[a - 1]
      BY <1>4 DEF Fields
    <2>2. QED BY <2>1 DEF Excess, Surplus
  <1>7. QED BY <1>3, <1>5, <1>6

LEMMA RecentWiped ==
  ASSUME log \in Logs, log' = [a \in DOMAIN log |-> [log[a] EXCEPT !.relayed = 0]]
  PROVE  /\ log' \in Logs
         /\ \A a \in Ages : Excess(a)' <= 0 /\ Surplus(a)' = Surplus(a)
         /\ log'[0].relayed = 0
  <1>1. QUOTA_WINDOW - 1 \in Nat BY RoomLimitsAssumption
  <1>2. ASSUME NEW a \in Ages
        PROVE  /\ log'[a] \in Entries /\ log'[a].relayed = 0
               /\ log'[a].passed = log[a].passed /\ log'[a].unflushed = log[a].unflushed
               /\ log'[a].reloads = log[a].reloads
    <2>1. log[a] \in Entries BY DEF Logs
    <2>2. log'[a] = [relayed |-> 0, passed |-> log[a].passed, unflushed |-> log[a].unflushed,
                     reloads |-> log[a].reloads]
      BY <2>1 DEF Logs, Entries
    <2>3. QED BY <2>1, <2>2 DEF Entries
  <1>3. log' \in Logs /\ DOMAIN log' = Ages /\ DOMAIN log = Ages
    <2>1. log' = [a \in Ages |-> log'[a]] BY DEF Logs
    <2>2. QED BY <1>2, <2>1 DEF Logs
  <1>4. \A a \in Ages : Recent("relayed")'[a] = 0
    <2> DEFINE g == Column(log', "relayed")
    <2>1. g \in [0..QUOTA_WINDOW - 1 -> Nat] /\ \A a \in 0..QUOTA_WINDOW - 1 : g[a] = 0
      <3>1. "relayed" \in Fields BY DEF Fields
      <3>2. g \in [0..QUOTA_WINDOW - 1 -> Nat] /\ \A a \in Ages : g[a] = log'[a].relayed
        BY <1>3, <3>1, ColumnType
      <3>3. QED BY <1>2, <3>2 DEF Ages
    <2>2. \A a \in 0..QUOTA_WINDOW - 1 : Sums(g)[a] = 0
      <3> HIDE DEF g
      <3> QED BY <1>1, <2>1, SumsZero, Zenon
    <2>3. QED BY <2>2 DEF Recent, Column, Ages
  <1>5. /\ Recent("passed")' = Recent("passed")
        /\ Recent("unflushed")' = Recent("unflushed")
        /\ Recent("reloads")' = Recent("reloads")
    <2>1. [a \in DOMAIN log' |-> log'[a].passed] = [a \in DOMAIN log |-> log[a].passed]
      BY <1>2, <1>3
    <2>2. [a \in DOMAIN log' |-> log'[a].unflushed] = [a \in DOMAIN log |-> log[a].unflushed]
      BY <1>2, <1>3
    <2>3. [a \in DOMAIN log' |-> log'[a].reloads] = [a \in DOMAIN log |-> log[a].reloads]
      BY <1>2, <1>3
    <2>4. QED BY <2>1, <2>2, <2>3 DEF Recent
  <1>6. ASSUME NEW a \in Ages PROVE Excess(a)' <= 0 /\ Surplus(a)' = Surplus(a)
    <2>1. Recent("unflushed")[a] \in Nat /\ Recent("reloads")[a] \in Nat
      BY RecentType DEF Fields
    <2>2. ASSUME NEW x \in Nat, NEW c \in Nat PROVE x * c \in Nat
      OBVIOUS
    <2>3. (Recent("reloads")[a] + Recent("unflushed")[a]) * (QUOTA_FLUSH - 1) \in Nat
      BY <2>1, <2>2, RoomLimitsAssumption
    <2>4. QED BY <1>4, <1>5, <2>3 DEF Excess, Surplus
  <1>7. QED BY <1>1, <1>2, <1>3, <1>6 DEF Ages

LEMMA LogsOne ==
  ASSUME log \in Logs
  PROVE  /\ log' = [log EXCEPT ![0].passed = @ + 1] => Logs1(0, 1, 0, 0)
         /\ \A reached \in Nat :
              log' = [log EXCEPT ![0].passed = @ + 1, ![0].relayed = @ + reached]
                => Logs1(reached, 1, 0, 0)
         /\ log' = [log EXCEPT ![0].passed = @ + 1, ![0].unflushed = @ + 1] => Logs1(0, 1, 1, 0)
         /\ log' = [log EXCEPT ![0].reloads = @ + 1] => Logs1(0, 0, 0, 1)
  <1>1. 0 \in Ages /\ log[0] \in Entries BY RoomLimitsAssumption DEF Ages, Logs
  <1>3. log' = [log EXCEPT ![0].passed = @ + 1] => Logs1(0, 1, 0, 0)
    BY <1>1 DEF Logs1, Entries, Logs, Ages
  <1>4. ASSUME NEW reached \in Nat,
               log' = [log EXCEPT ![0].passed = @ + 1, ![0].relayed = @ + reached]
        PROVE  Logs1(reached, 1, 0, 0)
    <2>1. \A a \in Ages \ {0} : log'[a] = log[a] BY <1>4 DEF Logs
    <2>2. log'[0] = [relayed |-> log[0].relayed + reached, passed |-> log[0].passed + 1,
                     unflushed |-> log[0].unflushed, reloads |-> log[0].reloads]
      BY <1>1, <1>4 DEF Logs, Entries
    <2>3. log'[0] \in Entries BY <1>1, <2>2 DEF Entries
    <2>4. log' = [a \in Ages |-> log'[a]] BY <1>4 DEF Logs
    <2>5. log' \in Logs BY <2>1, <2>3, <2>4 DEF Logs
    <2>6. QED BY <1>1, <2>1, <2>2, <2>5, RoomLimitsAssumption DEF Logs1, Ages, Entries
  <1>5. log' = [log EXCEPT ![0].passed = @ + 1, ![0].unflushed = @ + 1] => Logs1(0, 1, 1, 0)
    BY <1>1 DEF Logs1, Entries, Logs, Ages
  <1>6. log' = [log EXCEPT ![0].reloads = @ + 1] => Logs1(0, 0, 0, 1)
    BY <1>1 DEF Logs1, Entries, Logs, Ages
  <1>7. QED BY <1>3, <1>4, <1>5, <1>6

-----------------------------------------------------------------------------
(* Type correctness.                                                       *)

\* The row a frame is counted in, and the row with the frame.
LEMMA BaseFacts ==
  ASSUME TypeOK
  PROVE  /\ Loaded \in Quota /\ Base \in Quota /\ Base # Nothing
         /\ BaseFlushed \in Nat /\ BaseFlushed <= Base.bytes
         /\ BaseStored \in Quota \cup {Nothing}
         /\ RateWindow \in [start : Int, count : Nat]
         /\ \A size \in Sizes :
              /\ Charged(size) \in Quota /\ Charged(size) # Nothing
              /\ Charged(size).dayStart = Base.dayStart
              /\ Charged(size).bytes = Base.bytes + size
  <1>1. Nothing \notin Quota BY RoomLimitsAssumption DEF Quota
  <1>2. Loaded \in Quota BY DEF TypeOK, Loaded, Quota
  <1>3. Base \in Quota BY <1>2 DEF TypeOK, Base, Quota
  <1>4. BaseFlushed \in Nat /\ BaseFlushed <= Base.bytes
    BY <1>1, <1>2 DEF TypeOK, Base, BaseFlushed, Loaded, Quota
  <1>5. BaseStored \in Quota \cup {Nothing} BY <1>3 DEF TypeOK, BaseStored
  <1>6. RateWindow \in [start : Int, count : Nat] BY DEF TypeOK, RateWindow
  <1>7. ASSUME NEW size \in Sizes
        PROVE  /\ Charged(size) \in Quota
               /\ Charged(size).dayStart = Base.dayStart
               /\ Charged(size).bytes = Base.bytes + size
    BY <1>3, RoomLimitsAssumption DEF Charged, Quota
  <1>8. QED BY <1>1, <1>2, <1>3, <1>4, <1>5, <1>6, <1>7

LEMMA TypeParts ==
  TypeOK <=> /\ now \in 0..MaxTime
             /\ frameWindow \in [start : Int, count : Nat]
             /\ quota \in Quota \cup {Nothing}
             /\ quotaFlushed \in Nat /\ (quota # Nothing => quotaFlushed <= quota.bytes)
             /\ stored \in Quota \cup {Nothing}
             /\ log \in Logs
             /\ barred \in 0..MaxTime \cup {Nothing}
  BY DEF TypeOK, Logs, Ages, Entries

LEMMA InitType == Init => TypeOK
  <1> SUFFICES ASSUME Init PROVE TypeOK
    OBVIOUS
  <1>1. log \in Logs BY DEF Init, Logs, Ages, Entries, Quiet
  <1>2. QED BY <1>1, TypeParts, RoomLimitsAssumption DEF Init

\* How a step of each kind moves the log.
LEMMA NextLog ==
  ASSUME TypeOK, [Next]_vars
  PROVE  log' \in Logs
  <1>1. log \in Logs BY TypeParts
  <1>2. CASE log' = log BY <1>1, <1>2
  <1>3. CASE \/ log' = [log EXCEPT ![0].passed = @ + 1]
             \/ log' = [log EXCEPT ![0].passed = @ + 1, ![0].unflushed = @ + 1]
             \/ log' = [log EXCEPT ![0].reloads = @ + 1]
    BY <1>1, <1>3, LogsOne DEF Logs1
  <1>4. ASSUME NEW size \in Sizes, NEW reached \in {0, size}, FrameRelayed(size, reached)
        PROVE  log' \in Logs
    <2>1. reached \in Nat BY RoomLimitsAssumption
    <2>2. QED BY <1>1, <1>4, <2>1, LogsOne DEF FrameRelayed, Logs1
  <1>5. CASE Wipe BY <1>1, <1>5, RecentWiped DEF Wipe
  <1>6. CASE Tick BY <1>1, <1>6, RecentShifts DEF Tick
  <1>7. CASE UNCHANGED vars BY <1>2, <1>7 DEF vars
  <1>8. CASE FrameRateLimited BY <1>2, <1>8 DEF FrameRateLimited
  <1>9. CASE Reload BY <1>3, <1>9 DEF Reload
  <1>10. ASSUME NEW size \in Sizes, FrameRefused(size) \/ FrameFails(size) PROVE log' \in Logs
    BY <1>3, <1>10 DEF FrameRefused, FrameFails
  <1>11. QED BY <1>4, <1>5, <1>6, <1>7, <1>8, <1>9, <1>10 DEF Next

LEMMA NextType == TypeOK /\ [Next]_vars => TypeOK'
  <1> SUFFICES ASSUME TypeOK, [Next]_vars PROVE TypeOK'
    OBVIOUS
  <1>1. log' \in Logs BY NextLog
  <1>2. Nothing \notin Quota BY RoomLimitsAssumption DEF Quota
  <1>3. CASE FrameRateLimited BY <1>1, <1>3, BaseFacts DEF FrameRateLimited, TypeOK, Logs, Ages, Entries
  <1>4. ASSUME NEW size \in Sizes, FrameRefused(size) PROVE TypeOK'
    <2>1. quotaFlushed' <= quota'.bytes 
      BY <1>4, BaseFacts, RoomLimitsAssumption DEF FrameRefused, Quota
    <2>2. barred' \in 0..MaxTime BY <1>4, BaseFacts DEF FrameRefused, Quota
    <2>3. QED BY <1>1, <1>4, <2>1, <2>2, BaseFacts DEF FrameRefused, Passes, TypeOK, Logs, Ages, Entries
  <1>5. ASSUME NEW size \in Sizes, FrameFails(size) PROVE TypeOK'
    <2>1. frameWindow' \in [start : Int, count : Nat] /\ UNCHANGED <<now, barred>>
      BY <1>5, BaseFacts DEF FrameFails, Passes
    <2>2. /\ quota' \in Quota \cup {Nothing} /\ quotaFlushed' \in Nat
          /\ quota' # Nothing => quotaFlushed' <= quota'.bytes
          /\ stored' \in Quota \cup {Nothing}
      <3>1. Base.bytes \in Nat /\ size \in Nat BY BaseFacts, RoomLimitsAssumption DEF Quota
      <3>2. Charged(size).bytes \in Nat BY <3>1, BaseFacts
      <3>3. CASE UNCHANGED <<quota, quotaFlushed, stored>> BY <3>3, TypeParts
      <3>4. CASE quota' = Base /\ quotaFlushed' = 0 /\ stored' = stored
        BY <3>1, <3>4, TypeParts, BaseFacts
      <3>5. CASE quota' = Charged(size) /\ quotaFlushed' = BaseFlushed /\ stored' = BaseStored
        BY <3>1, <3>5, BaseFacts
      <3>6. CASE quota' = Charged(size) /\ quotaFlushed' = Charged(size).bytes
                 /\ stored' = BaseStored
        BY <3>2, <3>6, BaseFacts
      <3>7. QED BY <1>5, <3>3, <3>4, <3>5, <3>6 DEF FrameFails
    <2>3. QED BY <1>1, <2>1, <2>2 DEF TypeOK, Logs, Ages, Entries
  <1>6. ASSUME NEW size \in Sizes, NEW reached \in {0, size}, FrameRelayed(size, reached)
        PROVE  TypeOK'
    <2>1. Base.bytes \in Nat /\ size \in Nat BY BaseFacts, RoomLimitsAssumption DEF Quota
    <2>2. Charged(size).bytes \in Nat BY <2>1, BaseFacts
    <2>3. quotaFlushed' \in Nat /\ quotaFlushed' <= quota'.bytes
      BY <1>6, <2>1, <2>2, BaseFacts DEF FrameRelayed
    <2>4. stored' \in Quota \cup {Nothing} BY <1>6, BaseFacts DEF FrameRelayed
    <2>5. QED BY <1>1, <1>6, <2>3, <2>4, BaseFacts DEF FrameRelayed, Passes, TypeOK, Logs, Ages, Entries
  <1>7. CASE Reload
    BY <1>1, <1>7, RoomLimitsAssumption DEF Reload, Fresh, TypeOK, Logs, Ages, Entries
  <1>8. CASE Wipe BY <1>1, <1>8 DEF Wipe, memory, TypeOK, Logs, Ages, Entries
  <1>9. CASE Tick
    <2>1. now' \in 0..MaxTime BY <1>9, RoomLimitsAssumption DEF Tick, TypeOK
    <2>2. UNCHANGED <<frameWindow, quota, quotaFlushed, stored, barred>> BY <1>9 DEF Tick, memory
    <2>3. QED BY <1>1, <2>1, <2>2 DEF TypeOK, Logs, Ages, Entries
  <1>10. CASE UNCHANGED vars BY <1>10 DEF vars, memory, TypeOK
  <1>11. QED BY <1>3, <1>4, <1>5, <1>6, <1>7, <1>8, <1>9, <1>10 DEF Next

\* The types of the clock, the windows and the rows.
THEOREM TypeCorrect == Spec => []TypeOK
  BY InitType, NextType, PTL DEF Spec

-----------------------------------------------------------------------------
(* The bar of a room over its quota.                                       *)

LEMMA BarNext == TypeOK /\ BarHolds /\ [Next]_vars => BarHolds'
  <1> SUFFICES ASSUME TypeOK, BarHolds, [Next]_vars PROVE BarHolds'
    OBVIOUS
  <1>1. SUFFICES ASSUME barred' # Nothing, ~(now' - barred' >= QUOTA_WINDOW)
        PROVE  /\ stored' # Nothing /\ Spent(stored)'
               /\ quota' # Nothing => Spent(quota)'
    BY DEF BarHolds
  <1>2. ASSUME barred' = barred, now' = now
        PROVE  /\ stored # Nothing /\ Spent(stored) /\ (quota # Nothing => Spent(quota))
               /\ ~Rolls /\ Base = Loaded /\ Spent(Loaded) /\ BaseStored = stored
    <2>1. stored # Nothing /\ Spent(stored) /\ (quota # Nothing => Spent(quota))
      BY <1>1, <1>2 DEF BarHolds
    <2>2. Spent(Loaded) BY <2>1 DEF Loaded
    <2>3. ~Rolls BY <1>1, <1>2, <2>2 DEF Rolls, Spent
    <2>4. QED BY <2>1, <2>2, <2>3 DEF Base, BaseStored
  <1>3. ASSUME NEW size \in Sizes, barred' = barred, now' = now PROVE Spent(Charged(size))
    <2>1. Spent(Base) BY <1>2, <1>3
    <2>2. Base.bytes \in Nat /\ size \in Nat BY BaseFacts, RoomLimitsAssumption DEF Quota
    <2>3. QED BY <2>1, <2>2, BaseFacts, RoomLimitsAssumption DEF Spent
  <1>4. CASE FrameRateLimited BY <1>2, <1>4 DEF FrameRateLimited, Spent
  <1>5. ASSUME NEW size \in Sizes, FrameRefused(size)
        PROVE  stored' # Nothing /\ Spent(stored)' /\ Spent(quota)'
    BY <1>5, BaseFacts DEF FrameRefused, OverQuota, Spent
  <1>6. ASSUME NEW size \in Sizes, FrameFails(size)
        PROVE  stored' # Nothing /\ Spent(stored)' /\ (quota' # Nothing => Spent(quota)')
    <2>1. barred' = barred /\ now' = now BY <1>6 DEF FrameFails
    <2>2. Spent(Charged(size)) /\ ~Rolls BY <1>2, <1>3, <2>1
    <2>3. stored' = stored /\ (quota' = quota \/ quota' = Charged(size))
      BY <1>2, <1>6, <2>1, <2>2 DEF FrameFails
    <2>4. QED BY <1>2, <2>1, <2>2, <2>3 DEF Spent
  <1>7. ASSUME NEW size \in Sizes, NEW reached \in {0, size}, FrameRelayed(size, reached)
        PROVE  FALSE
    <2>1. barred' = barred /\ now' = now /\ ~OverQuota(size) BY <1>7 DEF FrameRelayed
    <2>2. QED BY <1>3, <2>1 DEF Spent, OverQuota
  <1>8. CASE Reload BY <1>2, <1>8 DEF Reload, Fresh, Spent
  <1>9. CASE Wipe BY <1>1, <1>9 DEF Wipe
  <1>10. CASE Tick
    <2>1. barred' = barred /\ stored' = stored /\ quota' = quota /\ now' = now + 1
      BY <1>10 DEF Tick, memory
    <2>2. barred \in Int BY <1>1, <2>1 DEF TypeOK
    <2>3. ~(now - barred >= QUOTA_WINDOW)
      BY <1>1, <2>1, <2>2, RoomLimitsAssumption DEF TypeOK
    <2>4. QED BY <1>1, <2>1, <2>3 DEF BarHolds, Spent
  <1>11. CASE UNCHANGED vars BY <1>2, <1>11 DEF vars, memory, Spent
  <1>12. QED BY <1>4, <1>5, <1>6, <1>7, <1>8, <1>9, <1>10, <1>11 DEF Next

\* A room closed for its quota relays nothing more before its window is over,
\* whatever is evicted, restarted or fails to be written.
THEOREM BarIsKept == Spec => BarredStaysBarred
  <1>1. Init => BarHolds BY DEF Init, BarHolds
  <1>2. ASSUME TypeOK, BarHolds, [Next]_vars,
               barred # Nothing /\ now' = now /\ log'[0].relayed > log[0].relayed
        PROVE  now - barred >= QUOTA_WINDOW
    <2>1. log \in Logs /\ 0 \in Ages /\ log[0].relayed \in Nat
      BY <1>2, TypeParts, RoomLimitsAssumption DEF Logs, Entries, Ages
    <2>2. log' # log /\ ~(log'[0].relayed = log[0].relayed + 0) BY <1>2, <2>1
    <2>3. \A dp, du, dl : ~Logs1(0, dp, du, dl) BY <2>2 DEF Logs1
    <2>4. PICK size \in Sizes : \E reached \in {0, size} : FrameRelayed(size, reached)
      <3>1. ~FrameRateLimited /\ ~UNCHANGED vars BY <2>2 DEF FrameRateLimited, vars
      <3>2. ASSUME NEW size \in Sizes PROVE ~FrameRefused(size) /\ ~FrameFails(size)
        BY <2>1, <2>3, LogsOne DEF FrameRefused, FrameFails
      <3>3. ~Reload BY <2>1, <2>3, LogsOne DEF Reload
      <3>4. ~Wipe BY <1>2, <2>1, RecentWiped DEF Wipe
      <3>5. ~Tick BY <1>2 DEF Tick, TypeOK
      <3>6. QED BY <1>2, <3>1, <3>2, <3>3, <3>4, <3>5 DEF Next
    <2>5. SUFFICES ASSUME ~(now - barred >= QUOTA_WINDOW) PROVE FALSE
      OBVIOUS
    <2>6. Spent(Loaded) BY <1>2, <2>5 DEF BarHolds, Loaded
    <2>7. Base = Loaded BY <2>5, <2>6 DEF Base, Rolls, Spent
    <2>8. Base.bytes \in Nat /\ size \in Nat BY <1>2, BaseFacts, RoomLimitsAssumption DEF Quota
    <2>9. Charged(size).bytes > QUOTA
      BY <1>2, <2>6, <2>7, <2>8, BaseFacts, RoomLimitsAssumption DEF Spent
    <2>10. QED BY <2>4, <2>9 DEF FrameRelayed, OverQuota
  <1>3. TypeOK /\ BarHolds /\ [Next]_vars =>
          [(barred # Nothing /\ now' = now /\ log'[0].relayed > log[0].relayed)
             => now - barred >= QUOTA_WINDOW]_vars
    BY <1>2
  <1>4. QED BY <1>1, <1>3, BarNext, TypeCorrect, PTL DEF Spec, BarredStaysBarred

-----------------------------------------------------------------------------
(* Frames.                                                                 *)

LEMMA FrameLogs ==
  ASSUME TypeOK, NEW size \in Sizes,
         \/ FrameRefused(size) \/ FrameFails(size)
         \/ \E reached \in {0, size} : FrameRelayed(size, reached)
  PROVE  /\ Passes(size) /\ now' = now
         /\ \E dr, du \in Nat : Logs1(dr, 1, du, 0)
  <1>1. log \in Logs BY TypeParts
  <1>2. CASE FrameRefused(size) \/ FrameFails(size)
    BY <1>1, <1>2, LogsOne DEF FrameRefused, FrameFails
  <1>3. ASSUME NEW reached \in {0, size}, FrameRelayed(size, reached)
        PROVE  /\ Passes(size) /\ now' = now
               /\ \E dr, du \in Nat : Logs1(dr, 1, du, 0)
    <2>1. reached \in Nat BY RoomLimitsAssumption
    <2>2. Logs1(reached, 1, 0, 0) BY <1>1, <1>3, <2>1, LogsOne DEF FrameRelayed
    <2>3. QED BY <1>3, <2>1, <2>2 DEF FrameRelayed
  <1>4. QED BY <1>2, <1>3

LEMMA FramesAges ==
  ASSUME TypeOK
  PROVE  /\ 0..FRAME_WINDOW \subseteq Ages
         /\ \A a \in 0..FRAME_WINDOW : Surplus(a) \in Int
         /\ FrameAge \in Int /\ Used \in 0..MAX_FRAMES
  <1>1. 0..FRAME_WINDOW \subseteq Ages BY RoomLimitsAssumption DEF Ages
  <1>2. \A a \in Ages : Surplus(a) \in Int BY RecentType, TypeParts
  <1>3. QED BY <1>1, <1>2, RoomLimitsAssumption DEF TypeOK, FrameAge, Used

\* A frame the limiter lets past, and one it does not.
LEMMA FramesPass ==
  ASSUME TypeOK, FramesFit, frameWindow' = RateWindow, now' = now, ~RateLimited,
         \A a \in 0..FRAME_WINDOW : Surplus(a)' = Surplus(a) + 1
  PROVE  FramesFit'
  <1>1. frameWindow.count \in Nat /\ frameWindow.start \in Int /\ now \in Int
        /\ MAX_FRAMES \in Nat \ {0} /\ FRAME_WINDOW \in Nat
    BY RoomLimitsAssumption DEF TypeOK
  <1>2. CASE FrameAge > FRAME_WINDOW
    <2>1. frameWindow' = [start |-> now, count |-> 1] BY <1>2 DEF RateWindow, FrameAge
    <2>2. FrameAge' = 0 /\ Used' = 1 BY <1>1, <2>1 DEF FrameAge, Used
    <2>3. QED BY <1>1, <1>2, <2>2, FramesAges DEF FramesFit
  <1>3. CASE ~(FrameAge > FRAME_WINDOW)
    <2>1. frameWindow' = [frameWindow EXCEPT !.count = @ + 1] BY <1>3 DEF RateWindow, FrameAge
    <2>2. frameWindow'.start = frameWindow.start /\ frameWindow'.count = frameWindow.count + 1
      BY <2>1 DEF TypeOK
    <2>3. frameWindow.count + 1 <= MAX_FRAMES BY <1>1, <2>2 DEF RateLimited
    <2>4. FrameAge' = FrameAge /\ Used' = Used + 1 BY <1>1, <2>2, <2>3 DEF FrameAge, Used
    <2>5. QED BY <1>1, <1>3, <2>4, FramesAges DEF FramesFit
  <1>4. QED BY <1>2, <1>3

LEMMA FramesLimited ==
  ASSUME TypeOK, FramesFit, frameWindow' = RateWindow, now' = now, RateLimited,
         \A a \in 0..FRAME_WINDOW : Surplus(a)' = Surplus(a)
  PROVE  FramesFit'
  <1>1. frameWindow.count \in Nat /\ frameWindow.start \in Int /\ now \in Int
        /\ MAX_FRAMES \in Nat \ {0} /\ FRAME_WINDOW \in Nat
    BY RoomLimitsAssumption DEF TypeOK
  <1>2. ~(FrameAge > FRAME_WINDOW) BY <1>1 DEF RateLimited, RateWindow, FrameAge
  <1>3. frameWindow' = [frameWindow EXCEPT !.count = @ + 1] BY <1>2 DEF RateWindow, FrameAge
  <1>4. frameWindow'.start = frameWindow.start /\ frameWindow'.count = frameWindow.count + 1
    BY <1>3 DEF TypeOK
  <1>5. frameWindow.count + 1 > MAX_FRAMES BY <1>4 DEF RateLimited
  <1>6. FrameAge' = FrameAge /\ Used' = Used BY <1>1, <1>4, <1>5 DEF FrameAge, Used
  <1>7. QED BY <1>1, <1>2, <1>6 DEF FramesFit

LEMMA FramesNext == TypeOK /\ FramesFit /\ [Next]_vars => FramesFit'
  <1> SUFFICES ASSUME TypeOK, FramesFit, [Next]_vars PROVE FramesFit'
    OBVIOUS
  <1>1. log \in Logs /\ MAX_FRAMES \in Nat \ {0} /\ FRAME_WINDOW \in Nat
        /\ QUOTA_FLUSH - 1 \in Int
    BY TypeParts, RoomLimitsAssumption
  <1>2. ASSUME log' = log PROVE \A a \in 0..FRAME_WINDOW : Surplus(a)' = Surplus(a)
    BY <1>2 DEF Surplus, Recent
  <1>3. ASSUME NEW size \in Sizes,
               \/ FrameRefused(size) \/ FrameFails(size)
               \/ \E reached \in {0, size} : FrameRelayed(size, reached)
        PROVE  FramesFit'
    <2>1. Passes(size) /\ now' = now BY <1>3, FrameLogs
    <2>2. PICK dr \in Nat, du \in Nat : Logs1(dr, 1, du, 0) BY <1>3, FrameLogs
    <2>3. \A a \in Ages : Surplus(a)' = Surplus(a) + 1 - 0 * MAX_FRAMES
      BY <1>1, <2>2, RecentGrows
    <2>4. \A a \in 0..FRAME_WINDOW : Surplus(a)' = Surplus(a) + 1
      BY <1>1, <2>3, FramesAges
    <2>5. QED BY <2>1, <2>4, FramesPass DEF Passes
  <1>4. CASE FrameRateLimited BY <1>2, <1>4, FramesLimited DEF FrameRateLimited
  <1>5. CASE Reload
    <2>1. Logs1(0, 0, 0, 1) BY <1>1, <1>5, LogsOne DEF Reload
    <2>2. \A a \in Ages : Surplus(a)' = Surplus(a) + 0 - 1 * MAX_FRAMES
      BY <1>1, <2>1, RecentGrows
    <2>3. \A a \in 0..FRAME_WINDOW : Surplus(a)' = Surplus(a) - MAX_FRAMES
      BY <1>1, <2>2, FramesAges
    <2>4. frameWindow' = [start |-> -(FRAME_WINDOW + 1), count |-> 0] /\ now' = now
      BY <1>5 DEF Reload, Fresh
    <2>5. FrameAge' > FRAME_WINDOW BY <1>1, <2>4 DEF FrameAge, TypeOK
    <2>6. \A a \in 0..FRAME_WINDOW : Surplus(a) <= 2 * MAX_FRAMES - 1
      BY <1>1, FramesAges DEF FramesFit
    <2>7. Surplus(0) <= MAX_FRAMES BY <1>1, FramesAges DEF FramesFit
    <2>8. QED BY <1>1, <2>3, <2>5, <2>6, <2>7, FramesAges DEF FramesFit
  <1>6. CASE Wipe
    <2>1. \A a \in 0..FRAME_WINDOW : Surplus(a)' = Surplus(a)
      BY <1>1, <1>6, RecentWiped, FramesAges DEF Wipe
    <2>2. FrameAge' = FrameAge /\ Used' = Used BY <1>6 DEF Wipe, memory, FrameAge, Used
    <2>3. QED BY <1>1, <2>1, <2>2 DEF FramesFit
  <1>7. CASE Tick
    <2>1. Surplus(0)' = 0 /\ \A a \in 1..QUOTA_WINDOW - 1 : Surplus(a)' = Surplus(a - 1)
      BY <1>1, <1>7, RecentShifts DEF Tick
    <2>2. \A a \in 1..FRAME_WINDOW : Surplus(a)' = Surplus(a - 1)
      BY <2>1, RoomLimitsAssumption
    <2>3. FrameAge' = FrameAge + 1 /\ Used' = Used
      BY <1>7 DEF Tick, memory, FrameAge, Used, TypeOK
    <2>4. QED BY <1>1, <2>1, <2>2, <2>3, FramesAges DEF FramesFit
  <1>8. CASE UNCHANGED vars
    <2>1. FrameAge' = FrameAge /\ Used' = Used BY <1>8 DEF vars, memory, FrameAge, Used
    <2>2. QED BY <1>1, <1>2, <1>8, <2>1 DEF FramesFit, vars
  <1>9. QED BY <1>3, <1>4, <1>5, <1>6, <1>7, <1>8 DEF Next

LEMMA InitRecent ==
  ASSUME Init
  PROVE  \A a \in Ages : Excess(a) = 0 /\ Surplus(a) = 0
  <1>1. log \in Logs /\ QUOTA_WINDOW - 1 \in Nat
    BY InitType, TypeParts, RoomLimitsAssumption
  <1>2. ASSUME NEW what \in Fields PROVE \A a \in Ages : Recent(what)[a] = 0
    <2> DEFINE f == Column(log, what)
    <2>1. \A a \in Ages : log[a][what] = 0 BY DEF Init, Quiet, Fields, Ages
    <2>2. f \in [0..QUOTA_WINDOW - 1 -> Nat] /\ \A a \in 0..QUOTA_WINDOW - 1 : f[a] = 0
      BY <1>1, <2>1, ColumnType DEF Ages
    <2>3. \A a \in 0..QUOTA_WINDOW - 1 : Sums(f)[a] = 0
      <3> HIDE DEF f
      <3> QED BY <1>1, <2>2, SumsZero, Zenon
    <2>4. QED BY <2>3 DEF Recent, Column, Ages
  <1>3. \A a \in Ages : /\ Recent("relayed")[a] = 0 /\ Recent("passed")[a] = 0
                        /\ Recent("unflushed")[a] = 0 /\ Recent("reloads")[a] = 0
    BY <1>2 DEF Fields
  <1>4. QED BY <1>3, RoomLimitsAssumption DEF Excess, Surplus

\* In any stretch of FRAME_WINDOW, frames stay below twice the limit, and a
\* limit more for each time the context left memory.
THEOREM PacedFrames == Spec => []FramesPaced
  <1>1. Init => FramesFit
    <2> SUFFICES ASSUME Init PROVE FramesFit
      OBVIOUS
    <2>1. \A a \in 0..FRAME_WINDOW : Surplus(a) = 0 BY InitRecent, InitType, FramesAges
    <2>2. FrameAge > FRAME_WINDOW BY RoomLimitsAssumption DEF Init, FrameAge
    <2>3. QED BY <2>1, <2>2, RoomLimitsAssumption DEF FramesFit
  <1>2. TypeOK /\ FramesFit => FramesPaced
    <2> SUFFICES ASSUME TypeOK, FramesFit PROVE FramesPaced
      OBVIOUS
    <2>1. FRAME_WINDOW \in Ages /\ FRAME_WINDOW \in Nat /\ MAX_FRAMES \in Nat \ {0}
      BY RoomLimitsAssumption DEF Ages
    <2>2. Surplus(FRAME_WINDOW) <= 2 * MAX_FRAMES - 1 BY <2>1, FramesAges DEF FramesFit
    <2>3. Recent("passed")[FRAME_WINDOW] \in Nat /\ Recent("reloads")[FRAME_WINDOW] \in Nat
      BY <2>1, TypeParts, RecentType DEF Fields
    <2>4. \A r \in Nat : (2 + r) * MAX_FRAMES = 2 * MAX_FRAMES + r * MAX_FRAMES BY <2>1
    <2>5. \A r \in Nat : r * MAX_FRAMES \in Nat BY <2>1
    <2>6. QED BY <2>1, <2>2, <2>3, <2>4, <2>5 DEF FramesPaced, Surplus
  <1>3. QED BY <1>1, <1>2, FramesNext, TypeCorrect, PTL DEF Spec

-----------------------------------------------------------------------------
(* Bytes.                                                                  *)

LEMMA ExcessMoves ==
  ASSUME TypeOK
  PROVE  /\ \A dr \in Nat : Logs1(dr, 1, 0, 0) => \A a \in Ages : Excess(a)' = Excess(a) + dr
         /\ Logs1(0, 1, 1, 0) \/ Logs1(0, 0, 0, 1) =>
              \A a \in Ages : Excess(a)' = Excess(a) - (QUOTA_FLUSH - 1)
  <1>1. log \in Logs /\ QUOTA_FLUSH - 1 \in Int BY TypeParts, RoomLimitsAssumption
  <1>2. \A a \in Ages : Excess(a) \in Int BY <1>1, RecentType
  <1>3. ASSUME NEW dr \in Nat, Logs1(dr, 1, 0, 0)
        PROVE  \A a \in Ages : Excess(a)' = Excess(a) + dr
    <2>1. \A a \in Ages : Excess(a)' = Excess(a) + dr - (0 + 0) * (QUOTA_FLUSH - 1)
      BY <1>1, <1>3, RecentGrows
    <2>2. QED BY <1>1, <1>2, <2>1
  <1>4. ASSUME Logs1(0, 1, 1, 0)
        PROVE  \A a \in Ages : Excess(a)' = Excess(a) - (QUOTA_FLUSH - 1)
    <2>1. \A a \in Ages : Excess(a)' = Excess(a) + 0 - (0 + 1) * (QUOTA_FLUSH - 1)
      BY <1>1, <1>4, RecentGrows
    <2>2. QED BY <1>1, <1>2, <2>1
  <1>5. ASSUME Logs1(0, 0, 0, 1)
        PROVE  \A a \in Ages : Excess(a)' = Excess(a) - (QUOTA_FLUSH - 1)
    <2>1. \A a \in Ages : Excess(a)' = Excess(a) + 0 - (1 + 0) * (QUOTA_FLUSH - 1)
      BY <1>1, <1>5, RecentGrows
    <2>2. QED BY <1>1, <1>2, <2>1
  <1>6. QED BY <1>3, <1>4, <1>5

\* A row that fits still fits when the sums, its count and its allowance move
\* by no more than each other.
LEMMA FitsMoves ==
  ASSUME TypeOK, NEW row \in Quota, NEW row2 \in Quota, row2.dayStart = row.dayStart,
         NEW e \in Int, NEW e2 \in Int, NEW d \in Int, now' = now,
         \A a \in Ages : Excess(a)' = Excess(a) + d,
         Expired(row) => e + d <= e2, Within(row.bytes) + e + d <= Within(row2.bytes) + e2,
         Fits(row, e)
  PROVE  Fits(row2, e2)'
  <1>1. QUOTA \in Nat /\ QUOTA_WINDOW \in Nat \ {0} /\ now \in Int BY RoomLimitsAssumption DEF TypeOK
  <1>2. \A a \in Ages : Excess(a) \in Int BY RecentType, TypeParts
  <1>3. row.dayStart \in Int /\ row.bytes \in Nat /\ row2.bytes \in Nat
        /\ row # Nothing /\ row2 # Nothing
    BY RoomLimitsAssumption DEF Quota
  <1>4. Within(row.bytes) \in Int /\ Within(row2.bytes) \in Int BY <1>1, <1>3 DEF Within
  <1>5. 0 \in Ages BY <1>1 DEF Ages
  <1>6. CASE now - row.dayStart >= QUOTA_WINDOW
    <2>1. Excess(0) <= e /\ \A a \in Ages : Excess(a) <= QUOTA + e
      BY <1>6 DEF Fits, Expired
    <2>2. Excess(0)' <= e2 /\ \A a \in Ages : Excess(a)' <= QUOTA + e2
      BY <1>1, <1>2, <1>5, <1>6, <2>1 DEF Expired
    <2>3. Expired(row2)' BY <1>6 DEF Expired
    <2>4. QED BY <2>2, <2>3 DEF Fits
  <1>7. CASE ~(now - row.dayStart >= QUOTA_WINDOW)
    <2>1. \A a \in Ages : Excess(a) <= Within(row.bytes) + e
                                      + (IF a > now - row.dayStart THEN QUOTA ELSE 0)
      BY <1>3, <1>7 DEF Fits, Expired
    <2>2. ~Expired(row2)' BY <1>3, <1>7 DEF Expired
    <2>3. ASSUME NEW a \in Ages
          PROVE  Excess(a)' <= Within(row2.bytes) + e2
                                 + (IF a > now' - row2.dayStart THEN QUOTA ELSE 0)
      BY <1>1, <1>2, <1>3, <1>4, <2>1
    <2>4. QED BY <2>2, <2>3 DEF Fits, Within
  <1>8. QED BY <1>6, <1>7

\* No row is like a row that has expired.
LEMMA FitsMovesNone ==
  ASSUME TypeOK, NEW e \in Int, NEW e2 \in Int, NEW d \in Int,
         \A a \in Ages : Excess(a)' = Excess(a) + d, e + d <= e2, Fits(Nothing, e)
  PROVE  Fits(Nothing, e2)'
  <1>1. QUOTA \in Nat /\ 0 \in Ages BY RoomLimitsAssumption DEF Ages
  <1>2. \A a \in Ages : Excess(a) \in Int BY RecentType, TypeParts
  <1>3. Excess(0) <= e /\ \A a \in Ages : Excess(a) <= QUOTA + e BY DEF Fits, Expired
  <1>4. Excess(0)' <= e2 /\ \A a \in Ages : Excess(a)' <= QUOTA + e2 BY <1>1, <1>2, <1>3
  <1>5. QED BY <1>4 DEF Fits, Expired

LEMMA FitsFacts ==
  ASSUME TypeOK, NEW row \in Quota \cup {Nothing}, NEW e \in Int, Fits(row, e)
  PROVE  /\ \A e2 \in Int : e <= e2 => Fits(row, e2)
         /\ \A row2 : Expired(row) /\ Expired(row2) => Fits(row2, e)
         /\ Expired(row) => Fits([dayStart |-> now, bytes |-> 0], e)
         /\ \A a \in Ages : Excess(a) <= 2 * QUOTA + e
  <1>1. QUOTA \in Nat /\ QUOTA_WINDOW \in Nat \ {0} /\ now \in Int /\ 0 \in Ages
    BY RoomLimitsAssumption DEF TypeOK, Ages
  <1>2. \A a \in Ages : Excess(a) \in Int BY RecentType, TypeParts
  <1>3. CASE Expired(row)
    <2>1. Excess(0) <= e /\ \A a \in Ages : Excess(a) <= QUOTA + e BY <1>3 DEF Fits
    <2>2. ASSUME NEW e2 \in Int, e <= e2 PROVE Fits(row, e2)
      <3>1. Excess(0) <= e2 /\ \A a \in Ages : Excess(a) <= QUOTA + e2
        BY <1>1, <1>2, <2>1, <2>2
      <3>2. QED BY <1>3, <3>1 DEF Fits
    <2>3. ASSUME NEW row2, Expired(row2) PROVE Fits(row2, e) BY <2>1, <2>3 DEF Fits
    <2>4. Fits([dayStart |-> now, bytes |-> 0], e)
      <3> DEFINE new == [dayStart |-> now, bytes |-> 0]
      <3>1. new.dayStart = now /\ new.bytes = 0 /\ new # Nothing
        BY RoomLimitsAssumption DEF TypeOK
      <3>2. ~Expired(new)
        <4> HIDE DEF new
        <4> QED BY <1>1, <3>1 DEF Expired
      <3>3. ASSUME NEW a \in Ages PROVE Excess(a) <= 0 + e + (IF a > now - now THEN QUOTA ELSE 0)
        <4>1. CASE a = 0 BY <1>1, <1>2, <2>1, <4>1
        <4>2. CASE a # 0 BY <1>1, <1>2, <2>1, <4>2 DEF Ages
        <4>3. QED BY <4>1, <4>2
      <3>4. Within(0) = 0 BY <1>1 DEF Within
      <3>5. QED
        <4> HIDE DEF new
        <4>1. Fits(new, e) BY <3>1, <3>2, <3>3, <3>4 DEF Fits
        <4>2. QED BY <4>1 DEF new
    <2>5. \A a \in Ages : Excess(a) <= 2 * QUOTA + e BY <1>1, <1>2, <2>1
    <2>6. QED BY <2>2, <2>3, <2>4, <2>5
  <1>4. CASE ~Expired(row)
    <2>1. row.bytes \in Nat /\ row.dayStart \in Int BY <1>4 DEF Expired, Quota
    <2>2. Within(row.bytes) \in Int /\ Within(row.bytes) <= QUOTA BY <1>1, <2>1 DEF Within
    <2>3. \A a \in Ages : Excess(a) <= Within(row.bytes) + e
                                      + (IF a > now - row.dayStart THEN QUOTA ELSE 0)
      BY <1>4 DEF Fits
    <2>4. ASSUME NEW e2 \in Int, e <= e2 PROVE Fits(row, e2)
      <3>1. \A a \in Ages : Excess(a) <= Within(row.bytes) + e2
                                        + (IF a > now - row.dayStart THEN QUOTA ELSE 0)
        BY <1>1, <1>2, <2>1, <2>2, <2>3, <2>4 DEF Ages
      <3>2. QED BY <1>4, <3>1 DEF Fits
    <2>5. \A a \in Ages : Excess(a) <= 2 * QUOTA + e
      BY <1>1, <1>2, <2>1, <2>2, <2>3 DEF Ages
    <2>6. QED BY <1>4, <2>4, <2>5
  <1>5. QED BY <1>3, <1>4

\* Before a frame is counted: the row it will be counted in, and the stored one.
BasePending == IF Base.bytes <= QUOTA THEN Base.bytes - BaseFlushed ELSE QUOTA_FLUSH - 1

LEMMA BaseFits ==
  ASSUME TypeOK, QuotaFits
  PROVE  /\ Fits(Base, 0) /\ Fits(BaseStored, BasePending)
         /\ BasePending \in 0..QUOTA_FLUSH - 1
         /\ BaseStored # Nothing => BaseStored.dayStart <= Base.dayStart
         /\ Rolls => Expired(stored) /\ Fits(stored, 0)
                     /\ (stored # Nothing => stored.dayStart <= now)
  <1>1. QUOTA \in Nat /\ QUOTA_WINDOW \in Nat \ {0} /\ now \in Int /\ QUOTA_FLUSH \in Nat \ {0}
    BY RoomLimitsAssumption DEF TypeOK
  <1>2. Nothing \notin Quota BY RoomLimitsAssumption DEF Quota
  <1>3. Loaded \in Quota /\ Loaded.dayStart \in Int /\ Loaded.bytes \in Nat
    BY BaseFacts DEF Quota
  <1>4. stored \in Quota \cup {Nothing} /\ quota \in Quota \cup {Nothing} BY DEF TypeOK
  <1>5. Rolls <=> Expired(Loaded) BY <1>2, <1>3 DEF Rolls, Expired
  <1>6. CASE quota # Nothing
    <2>1. Loaded = quota /\ Fits(quota, 0) BY <1>6 DEF Loaded, QuotaFits
    <2>2. CASE Rolls
      <3>1. Base = [dayStart |-> now, bytes |-> 0] /\ BaseStored = Base /\ BaseFlushed = 0
        BY <2>2 DEF Base, BaseStored, BaseFlushed
      <3>2. Fits(Base, 0) BY <1>3, <1>5, <2>1, <2>2, <3>1, FitsFacts
      <3>3. Base.dayStart = now /\ Base.bytes = 0 BY <3>1
      <3>4. BasePending = 0 BY <1>1, <3>1, <3>3 DEF BasePending
      <3>5. stored # Nothing => stored.dayStart <= quota.dayStart BY <1>6 DEF QuotaFits
      <3>6. stored # Nothing => stored.dayStart \in Int BY <1>4 DEF Quota
      <3>7. quota.dayStart \in Int /\ now - quota.dayStart >= QUOTA_WINDOW
        BY <1>3, <2>1, <2>2 DEF Rolls
      <3>8. Expired(stored) /\ (stored # Nothing => stored.dayStart <= now)
        BY <1>1, <3>5, <3>6, <3>7 DEF Expired
      <3>9. Fits(stored, 0) BY <1>3, <1>5, <2>1, <2>2, <3>8, FitsFacts
      <3>10. QED BY <1>1, <3>1, <3>2, <3>3, <3>4, <3>8, <3>9
    <2>3. CASE ~Rolls
      <3>1. Base = quota /\ BaseStored = stored /\ BaseFlushed = quotaFlushed
        BY <1>6, <2>1, <2>3 DEF Base, BaseStored, BaseFlushed
      <3>2. BasePending = Pending BY <1>6, <3>1 DEF BasePending, Pending
      <3>3. BasePending \in 0..QUOTA_FLUSH - 1
        BY <1>1, <3>1, <3>2, BaseFacts DEF QuotaFits, BasePending, Quota
      <3>4. QED BY <1>6, <2>1, <2>3, <3>1, <3>2, <3>3 DEF QuotaFits
    <2>4. QED BY <2>2, <2>3
  <1>7. CASE quota = Nothing /\ stored # Nothing
    <2>1. Loaded = stored /\ Fits(stored, 0) BY <1>7 DEF Loaded, QuotaFits, Pending
    <2>2. CASE Rolls
      <3>1. Base = [dayStart |-> now, bytes |-> 0] /\ BaseStored = Base /\ BaseFlushed = 0
        BY <2>2 DEF Base, BaseStored, BaseFlushed
      <3>2. Fits(Base, 0) BY <1>3, <1>5, <2>1, <2>2, <3>1, FitsFacts
      <3>3. Base.dayStart = now /\ Base.bytes = 0 BY <3>1
      <3>4. BasePending = 0 BY <1>1, <3>1, <3>3 DEF BasePending
      <3>5. stored.dayStart <= now BY <1>1, <1>3, <2>1, <2>2 DEF Rolls
      <3>6. QED BY <1>1, <1>5, <2>1, <2>2, <3>1, <3>2, <3>3, <3>4, <3>5
    <2>3. CASE ~Rolls
      <3>1. Base = stored /\ BaseStored = stored /\ BaseFlushed = stored.bytes
        BY <1>7, <2>1, <2>3 DEF Base, BaseStored, BaseFlushed
      <3>2. BasePending \in {0, QUOTA_FLUSH - 1} BY <1>3, <2>1, <3>1 DEF BasePending
      <3>3. BasePending \in 0..QUOTA_FLUSH - 1 BY <1>1, <3>2
      <3>4. Fits(BaseStored, BasePending) BY <1>4, <2>1, <3>1, <3>3, FitsFacts
      <3>5. QED BY <1>3, <2>1, <2>3, <3>1, <3>3, <3>4
    <2>4. QED BY <2>2, <2>3
  <1>8. CASE quota = Nothing /\ stored = Nothing
    <2>1. Loaded = [dayStart |-> now, bytes |-> 0] BY <1>8 DEF Loaded
    <2>2. ~Rolls BY <1>1, <2>1 DEF Rolls
    <2>3. Base = [dayStart |-> now, bytes |-> 0] /\ BaseStored = Nothing /\ BaseFlushed = 0
      BY <1>8, <2>1, <2>2 DEF Base, BaseStored, BaseFlushed
    <2>4. Base.bytes = 0 BY <2>3
    <2>5. BasePending = 0 BY <1>1, <2>3, <2>4 DEF BasePending
    <2>6. Fits(Nothing, 0) /\ Expired(Nothing) BY <1>8 DEF QuotaFits, Pending, Expired
    <2>7. Fits(Base, 0) BY <2>3, <2>6, FitsFacts
    <2>8. QED BY <1>1, <2>2, <2>3, <2>5, <2>6, <2>7
  <1>9. QED BY <1>6, <1>7, <1>8

LEMMA QuotaFitsNext ==
  ASSUME NEW q, NEW r, NEW p, quota' = q, stored' = r, Pending' = p,
         q # Nothing => Fits(q, 0)', Fits(r, p)', p <= QUOTA_FLUSH - 1,
         q # Nothing /\ r # Nothing => r.dayStart <= q.dayStart
  PROVE  QuotaFits'
  <1>1. quota' # Nothing => Fits(quota, 0)' BY DEF Fits, Expired
  <1>2. Fits(stored, Pending)' BY DEF Fits, Expired
  <1>3. QED BY <1>1, <1>2 DEF QuotaFits

LEMMA BaseLive ==
  ASSUME TypeOK
  PROVE  ~Expired(Base)
  <1>1. QUOTA_WINDOW \in Nat \ {0} /\ now \in Int BY RoomLimitsAssumption DEF TypeOK
  <1>2. Base # Nothing /\ Loaded.dayStart \in Int BY BaseFacts DEF Quota
  <1>3. CASE Rolls
    <2>1. Base.dayStart = now BY <1>3 DEF Base
    <2>2. QED BY <1>1, <1>2, <2>1 DEF Expired
  <1>4. CASE ~Rolls
    <2>1. Base = Loaded BY <1>4 DEF Base
    <2>2. QED BY <1>1, <1>2, <1>4, <2>1 DEF Expired, Rolls
  <1>5. QED BY <1>3, <1>4

\* A frame within the quota moves its row and, as pending, the stored one.
LEMMA RelayedFits ==
  ASSUME TypeOK, QuotaFits, NEW size \in Sizes, NEW reached \in {0, size},
         FrameRelayed(size, reached)
  PROVE  QuotaFits'
  <1>1. QUOTA \in Nat /\ QUOTA_FLUSH \in Nat \ {0} /\ size \in Nat /\ reached \in Nat
        /\ reached <= size
    BY RoomLimitsAssumption
  <1>2. PICK b \in Quota, c \in Quota, r \in Quota \cup {Nothing}, p \in 0..QUOTA_FLUSH - 1 :
          b = Base /\ c = Charged(size) /\ r = BaseStored /\ p = BasePending
    BY BaseFacts, BaseFits
  <1>3. /\ c.dayStart = b.dayStart /\ c.bytes = b.bytes + size /\ c # Nothing
        /\ b.bytes \in Nat /\ c.bytes \in Nat /\ c.bytes <= QUOTA
        /\ Within(b.bytes) = b.bytes /\ Within(c.bytes) = c.bytes
    <2>1. /\ c.dayStart = b.dayStart /\ c.bytes = b.bytes + size /\ c # Nothing
          /\ b.bytes \in Nat /\ c.bytes \in Nat
      BY <1>2, BaseFacts DEF Quota
    <2>2. c.bytes <= QUOTA BY <1>1, <1>2, <2>1 DEF FrameRelayed, OverQuota
    <2>3. QED BY <1>1, <2>1, <2>2 DEF Within
  <1>4. \A a \in Ages : Excess(a)' = Excess(a) + reached
    <2>1. Logs1(reached, 1, 0, 0) BY <1>1, LogsOne, TypeParts DEF FrameRelayed
    <2>2. QED BY <1>1, <2>1, ExcessMoves
  <1>5. now' = now /\ quota' = c BY <1>2 DEF FrameRelayed
  <1>6. Fits(c, 0)'
    <2>1. Fits(b, 0) BY <1>2, BaseFits
    <2>2. ~Expired(b) BY <1>2, BaseLive
    <2>3. Within(b.bytes) + 0 + reached <= Within(c.bytes) + 0 /\ reached \in Int BY <1>1, <1>3
    <2>4. QED BY <1>3, <1>4, <1>5, <2>1, <2>2, <2>3, FitsMoves
  <1>7. CASE FlushDue(size)
    <2>1. stored' = c /\ quotaFlushed' = c.bytes BY <1>2, <1>7 DEF FrameRelayed
    <2>2. Pending' = 0 BY <1>3, <1>5, <2>1 DEF Pending
    <2>3. c.dayStart <= c.dayStart BY DEF Quota
    <2>4. QED BY <1>1, <1>5, <1>6, <2>1, <2>2, <2>3, QuotaFitsNext
  <1>8. CASE ~FlushDue(size)
    <2>1. stored' = r /\ quotaFlushed' = BaseFlushed BY <1>2, <1>8 DEF FrameRelayed
    <2>2. p = b.bytes - BaseFlushed /\ BaseFlushed \in Nat
      BY <1>1, <1>2, <1>3, BaseFacts DEF BasePending
    <2>3. Pending' = p + size BY <1>1, <1>3, <1>5, <2>1, <2>2 DEF Pending
    <2>4. p + size <= QUOTA_FLUSH - 1
      BY <1>1, <1>2, <1>3, <1>8, <2>2 DEF FlushDue, OverQuota
    <2>5. Fits(r, p) BY <1>2, BaseFits
    <2>6. p + reached <= p + size /\ p \in Int /\ p + size \in Int /\ reached \in Int BY <1>1
    <2>7. Fits(r, p + size)'
      <3>1. CASE r = Nothing BY <1>4, <2>5, <2>6, <3>1, FitsMovesNone
      <3>2. CASE r # Nothing
        <4>1. r \in Quota /\ r.bytes \in Nat BY <1>2, <3>2 DEF Quota
        <4>2. Within(r.bytes) + p + reached <= Within(r.bytes) + (p + size)
          BY <1>1, <4>1 DEF Within
        <4>3. QED BY <1>4, <1>5, <2>5, <2>6, <4>1, <4>2, FitsMoves
      <3>3. QED BY <3>1, <3>2
    <2>8. r # Nothing => r.dayStart <= c.dayStart BY <1>2, <1>3, BaseFits
    <2>9. QED BY <1>5, <1>6, <2>1, <2>3, <2>4, <2>7, <2>8, QuotaFitsNext
  <1>9. QED BY <1>7, <1>8

\* A frame over the quota changes no sum; its row may or may not be written.
LEMMA RefusedFits ==
  ASSUME TypeOK, QuotaFits, NEW size \in Sizes, OverQuota(size), Logs1(0, 1, 0, 0), now' = now,
         quota' = Charged(size), stored' \in {Charged(size), BaseStored}
  PROVE  QuotaFits'
  <1>1. QUOTA \in Nat /\ QUOTA_FLUSH \in Nat \ {0} /\ size \in Nat /\ QUOTA_FLUSH - 1 \in Int
    BY RoomLimitsAssumption
  <1>2. PICK b \in Quota, c \in Quota, r \in Quota \cup {Nothing}, p \in 0..QUOTA_FLUSH - 1 :
          b = Base /\ c = Charged(size) /\ r = BaseStored /\ p = BasePending
    BY BaseFacts, BaseFits
  <1>3. /\ c.dayStart = b.dayStart /\ c.bytes = b.bytes + size /\ c # Nothing
        /\ b.bytes \in Nat /\ c.bytes \in Nat /\ c.bytes > QUOTA
        /\ Within(b.bytes) \in Int /\ Within(b.bytes) <= QUOTA /\ Within(c.bytes) = QUOTA
    <2>1. /\ c.dayStart = b.dayStart /\ c.bytes = b.bytes + size /\ c # Nothing
          /\ b.bytes \in Nat /\ c.bytes \in Nat
      BY <1>2, BaseFacts DEF Quota
    <2>2. c.bytes > QUOTA BY <1>2 DEF OverQuota
    <2>3. QED BY <1>1, <2>1, <2>2 DEF Within
  <1>4. \A a \in Ages : Excess(a)' = Excess(a) + 0 BY ExcessMoves
  <1>5. Pending' = QUOTA_FLUSH - 1 BY <1>1, <1>2, <1>3 DEF Pending
  <1>6. Fits(b, 0) /\ ~Expired(b) BY <1>2, BaseFits, BaseLive
  <1>7. Fits(c, 0)'
    <2>1. Within(b.bytes) + 0 + 0 <= Within(c.bytes) + 0 BY <1>1, <1>3
    <2>2. QED BY <1>3, <1>4, <1>6, <2>1, FitsMoves
  <1>8. CASE stored' = c
    <2>1. Within(b.bytes) + 0 + 0 <= Within(c.bytes) + (QUOTA_FLUSH - 1) BY <1>1, <1>3
    <2>2. Fits(c, QUOTA_FLUSH - 1)' BY <1>1, <1>3, <1>4, <1>6, <2>1, FitsMoves
    <2>3. c.dayStart <= c.dayStart BY DEF Quota
    <2>4. QED BY <1>1, <1>2, <1>5, <1>7, <1>8, <2>2, <2>3, QuotaFitsNext
  <1>9. CASE stored' = r
    <2>1. Fits(r, p) BY <1>2, BaseFits
    <2>2. p \in Int /\ p + 0 <= QUOTA_FLUSH - 1 BY <1>1
    <2>3. Fits(r, QUOTA_FLUSH - 1)'
      <3>1. CASE r = Nothing BY <1>1, <1>4, <2>1, <2>2, <3>1, FitsMovesNone
      <3>2. CASE r # Nothing
        <4>1. r \in Quota /\ r.bytes \in Nat BY <1>2, <3>2 DEF Quota
        <4>2. Within(r.bytes) + p + 0 <= Within(r.bytes) + (QUOTA_FLUSH - 1)
          BY <1>1, <2>2, <4>1 DEF Within
        <4>3. QED BY <1>1, <1>4, <2>1, <2>2, <4>1, <4>2, FitsMoves
      <3>3. QED BY <3>1, <3>2
    <2>4. r # Nothing => r.dayStart <= c.dayStart BY <1>2, <1>3, BaseFits
    <2>5. QED BY <1>1, <1>2, <1>5, <1>7, <1>9, <2>3, <2>4, QuotaFitsNext
  <1>10. QED BY <1>2, <1>8, <1>9

\* A storage call fails: on the load, the roll, the refusal or the flush.
LEMMA FailedFits ==
  ASSUME TypeOK, QuotaFits, NEW size \in Sizes, FrameFails(size)
  PROVE  QuotaFits'
  <1>1. QUOTA \in Nat /\ QUOTA_FLUSH \in Nat \ {0} /\ size \in Nat /\ QUOTA_FLUSH - 1 \in Int
    BY RoomLimitsAssumption
  <1>2. PICK b \in Quota, c \in Quota, r \in Quota \cup {Nothing}, p \in 0..QUOTA_FLUSH - 1 :
          b = Base /\ c = Charged(size) /\ r = BaseStored /\ p = BasePending
    BY BaseFacts, BaseFits
  <1>3. PICK old \in Quota \cup {Nothing} : old = stored BY DEF TypeOK
  <1>4. /\ c.dayStart = b.dayStart /\ c.bytes = b.bytes + size /\ c # Nothing /\ b # Nothing
        /\ b.bytes \in Nat /\ c.bytes \in Nat /\ b.dayStart \in Int
    BY <1>2, BaseFacts DEF Quota
  <1>5. now' = now /\ log \in Logs BY TypeParts DEF FrameFails
  <1>6. Fits(b, 0) /\ ~Expired(b) BY <1>2, BaseFits, BaseLive
  <1>7. CASE quota = Nothing /\ UNCHANGED <<quota, quotaFlushed, stored>>
             /\ log' = [log EXCEPT ![0].passed = @ + 1]
    <2>1. \A a \in Ages : Excess(a)' = Excess(a) + 0 BY <1>5, <1>7, LogsOne, ExcessMoves
    <2>2. Fits(old, 0) BY <1>3, <1>7 DEF QuotaFits, Pending
    <2>3. Fits(old, 0)'
      <3>1. CASE old = Nothing BY <2>1, <2>2, <3>1, FitsMovesNone
      <3>2. CASE old # Nothing
        <4>1. old \in Quota /\ old.bytes \in Nat BY <3>2 DEF Quota
        <4>2. Within(old.bytes) + 0 + 0 <= Within(old.bytes) + 0 BY <1>1, <4>1 DEF Within
        <4>3. QED BY <1>5, <2>1, <2>2, <4>1, <4>2, FitsMoves
      <3>3. QED BY <3>1, <3>2
    <2>4. Pending' = 0 BY <1>7 DEF Pending
    <2>5. quota' = Nothing /\ stored' = old BY <1>3, <1>7
    <2>6. QED BY <1>1, <2>3, <2>4, <2>5, QuotaFitsNext
  <1>8. CASE Rolls /\ quota' = Base /\ quotaFlushed' = 0 /\ stored' = stored
             /\ log' = [log EXCEPT ![0].passed = @ + 1]
    <2>1. \A a \in Ages : Excess(a)' = Excess(a) + 0 BY <1>5, <1>8, LogsOne, ExcessMoves
    <2>2. Fits(old, 0) /\ (old # Nothing => old.dayStart <= now) BY <1>3, <1>8, BaseFits
    <2>3. Fits(old, 0)'
      <3>1. CASE old = Nothing BY <2>1, <2>2, <3>1, FitsMovesNone
      <3>2. CASE old # Nothing
        <4>1. old \in Quota /\ old.bytes \in Nat BY <3>2 DEF Quota
        <4>2. Within(old.bytes) + 0 + 0 <= Within(old.bytes) + 0 BY <1>1, <4>1 DEF Within
        <4>3. QED BY <1>5, <2>1, <2>2, <4>1, <4>2, FitsMoves
      <3>3. QED BY <3>1, <3>2
    <2>4. b.dayStart = now /\ b.bytes = 0 BY <1>2, <1>8 DEF Base
    <2>5. Fits(b, 0)'
      <3>1. Within(b.bytes) + 0 + 0 <= Within(b.bytes) + 0 BY <1>1, <1>4 DEF Within
      <3>2. QED BY <1>5, <1>6, <2>1, <3>1, FitsMoves
    <2>6. Pending' = 0 BY <1>1, <1>2, <1>4, <1>8, <2>4 DEF Pending
    <2>7. quota' = b /\ stored' = old BY <1>2, <1>3, <1>8
    <2>8. QED BY <1>1, <2>2, <2>3, <2>4, <2>5, <2>6, <2>7, QuotaFitsNext
  <1>9. CASE OverQuota(size) /\ quota' = Charged(size) /\ quotaFlushed' = BaseFlushed
             /\ stored' = BaseStored /\ log' = [log EXCEPT ![0].passed = @ + 1]
    BY <1>5, <1>9, LogsOne, RefusedFits
  <1>10. CASE FlushDue(size) /\ quota' = Charged(size) /\ quotaFlushed' = Charged(size).bytes
              /\ stored' = BaseStored
              /\ log' = [log EXCEPT ![0].passed = @ + 1, ![0].unflushed = @ + 1]
    <2>1. Logs1(0, 1, 1, 0) BY <1>5, <1>10, LogsOne
    <2>2. \A a \in Ages : Excess(a)' = Excess(a) - (QUOTA_FLUSH - 1) BY <2>1, ExcessMoves
    <2>3. \A a \in Ages : Excess(a) \in Int BY <1>5, RecentType
    <2>4. PICK d \in Int : d = -(QUOTA_FLUSH - 1) BY <1>1
    <2>5. \A a \in Ages : Excess(a)' = Excess(a) + d BY <1>1, <2>2, <2>3, <2>4
    <2>6. c.bytes <= QUOTA BY <1>1, <1>2, <1>4, <1>10 DEF FlushDue, OverQuota
    <2>7. Fits(c, 0)'
      <3>1. Within(b.bytes) + 0 + d <= Within(c.bytes) + 0
        BY <1>1, <1>4, <2>4, <2>6 DEF Within
      <3>2. QED BY <1>4, <1>5, <1>6, <2>5, <3>1, FitsMoves
    <2>8. Fits(r, p) /\ p \in Int /\ p + d <= 0 BY <1>1, <1>2, <2>4, BaseFits
    <2>9. Fits(r, 0)'
      <3>1. CASE r = Nothing BY <2>5, <2>8, <3>1, FitsMovesNone
      <3>2. CASE r # Nothing
        <4>1. r \in Quota /\ r.bytes \in Nat BY <1>2, <3>2 DEF Quota
        <4>2. Within(r.bytes) + p + d <= Within(r.bytes) + 0 BY <1>1, <2>8, <4>1 DEF Within
        <4>3. QED BY <1>5, <2>5, <2>8, <4>1, <4>2, FitsMoves
      <3>3. QED BY <3>1, <3>2
    <2>10. Pending' = 0 BY <1>2, <1>4, <1>10, <2>6 DEF Pending
    <2>11. r # Nothing => r.dayStart <= c.dayStart BY <1>2, <1>4, BaseFits
    <2>12. quota' = c /\ stored' = r BY <1>2, <1>10
    <2>13. QED BY <1>1, <2>7, <2>9, <2>10, <2>11, <2>12, QuotaFitsNext
  <1>11. QED BY <1>7, <1>8, <1>9, <1>10 DEF FrameFails

LEMMA FitsTick ==
  ASSUME TypeOK, Tick, NEW row \in Quota \cup {Nothing}, NEW e \in Nat, Fits(row, e)
  PROVE  Fits(row, e)'
  <1>1. QUOTA \in Nat /\ QUOTA_WINDOW \in Nat \ {0} /\ now \in Int /\ now' = now + 1
    BY RoomLimitsAssumption DEF TypeOK, Tick
  <1>2. /\ Excess(0)' = 0
        /\ \A a \in 1..QUOTA_WINDOW - 1 : Excess(a)' = Excess(a - 1)
    BY RecentShifts, TypeParts DEF Tick
  <1>3. \A a \in Ages : Excess(a) \in Int BY RecentType, TypeParts
  <1>4. \A a \in Ages : a # 0 => a \in 1..QUOTA_WINDOW - 1 /\ a - 1 \in Ages BY <1>1 DEF Ages
  <1>5. CASE Expired(row)
    <2>1. Expired(row)' BY <1>1, <1>5 DEF Expired, Quota
    <2>2. \A a \in Ages : Excess(a) <= QUOTA + e BY <1>5 DEF Fits
    <2>3. ASSUME NEW a \in Ages PROVE Excess(a)' <= QUOTA + e
      <3>1. CASE a = 0 BY <1>1, <1>2, <3>1
      <3>2. CASE a # 0 BY <1>2, <1>4, <2>2, <3>2
      <3>3. QED BY <3>1, <3>2
    <2>4. QED BY <1>2, <2>1, <2>3 DEF Fits
  <1>6. CASE ~Expired(row)
    <2>1. row # Nothing /\ row.bytes \in Nat /\ row.dayStart \in Int BY <1>6 DEF Expired, Quota
    <2>2. Within(row.bytes) \in Nat /\ Within(row.bytes) <= QUOTA BY <1>1, <2>1 DEF Within
    <2>3. now - row.dayStart < QUOTA_WINDOW BY <1>1, <1>6, <2>1 DEF Expired
    <2>4. \A a \in Ages : Excess(a) <= Within(row.bytes) + e
                                      + (IF a > now - row.dayStart THEN QUOTA ELSE 0)
      BY <1>6 DEF Fits
    <2>5. ASSUME NEW a \in Ages
          PROVE  Excess(a)' <= Within(row.bytes) + e
                                 + (IF a > now' - row.dayStart THEN QUOTA ELSE 0)
      <3>1. CASE a = 0 BY <1>1, <1>2, <2>1, <2>2, <3>1
      <3>2. CASE a # 0
        <4>1. a \in Int /\ a - 1 \in Ages /\ Excess(a)' = Excess(a - 1)
          BY <1>2, <1>4, <3>2 DEF Ages
        <4>2. Excess(a - 1) <= Within(row.bytes) + e
                                + (IF a - 1 > now - row.dayStart THEN QUOTA ELSE 0)
          BY <2>4, <4>1
        <4>3. a - 1 > now - row.dayStart <=> a > now' - row.dayStart BY <1>1, <2>1, <4>1
        <4>4. QED BY <4>1, <4>2, <4>3
      <3>3. QED BY <3>1, <3>2
    <2>6. CASE Expired(row)'
      <3>1. now' - row.dayStart = QUOTA_WINDOW BY <1>1, <2>1, <2>3, <2>6 DEF Expired
      <3>2. ASSUME NEW a \in Ages PROVE Excess(a)' <= QUOTA + e
        <4>1. ~(a > now' - row.dayStart) /\ a \in Int BY <1>1, <3>1 DEF Ages
        <4>2. Excess(a)' <= Within(row.bytes) + e + 0 BY <2>5, <4>1
        <4>3. Excess(a)' \in Int BY <1>2, <1>3, <1>4
        <4>4. QED BY <1>1, <2>2, <4>2, <4>3
      <3>3. QED BY <1>2, <2>6, <3>2 DEF Fits
    <2>7. CASE ~Expired(row)'
      BY <2>5, <2>7 DEF Fits, Within
    <2>8. QED BY <2>6, <2>7
  <1>7. QED BY <1>5, <1>6

LEMMA FitsWiped ==
  ASSUME NEW row \in Quota \cup {Nothing}, NEW e \in Nat, now' \in Int, log' \in Logs,
         \A a \in Ages : Excess(a)' <= 0
  PROVE  Fits(row, e)'
  <1>1. QUOTA \in Nat /\ QUOTA_WINDOW \in Nat \ {0} /\ 0 \in Ages
    BY RoomLimitsAssumption DEF Ages
  <1>2. \A what \in Fields : \A a \in Ages : Recent(what)'[a] \in Nat
    BY ColumnType DEF Recent, Column
  <1>3. \A a \in Ages : Excess(a)' \in Int
    BY <1>2, RoomLimitsAssumption DEF Excess, Fields
  <1>4. CASE Expired(row)' BY <1>1, <1>3, <1>4 DEF Fits
  <1>5. CASE ~Expired(row)'
    <2>1. row.bytes \in Nat /\ row.dayStart \in Int BY <1>5 DEF Expired, Quota
    <2>2. Within(row.bytes) \in Nat BY <1>1, <2>1 DEF Within
    <2>3. \A a \in Ages : Excess(a)' <= Within(row.bytes) + e
                                      + (IF a > now' - row.dayStart THEN QUOTA ELSE 0)
      BY <1>1, <1>3, <2>2 DEF Ages
    <2>4. QED BY <1>5, <2>3 DEF Fits, Within
  <1>6. QED BY <1>4, <1>5

LEMMA QuotaNext == TypeOK /\ QuotaFits /\ [Next]_vars => QuotaFits'
  <1> SUFFICES ASSUME TypeOK, QuotaFits, [Next]_vars PROVE QuotaFits'
    OBVIOUS
  <1>1. QUOTA \in Nat /\ QUOTA_FLUSH \in Nat \ {0} /\ now \in Int /\ log \in Logs
        /\ QUOTA_FLUSH - 1 \in Int
    BY TypeParts, RoomLimitsAssumption
  <1>2. Pending \in 0..QUOTA_FLUSH - 1 BY <1>1 DEF QuotaFits, Pending, TypeOK, Quota
  <1>3. PICK q \in Quota \cup {Nothing}, r \in Quota \cup {Nothing}, p \in 0..QUOTA_FLUSH - 1 :
          q = quota /\ r = stored /\ p = Pending
    BY <1>2 DEF TypeOK
  <1>4. /\ q # Nothing => Fits(q, 0)
        /\ Fits(r, p) /\ p <= QUOTA_FLUSH - 1 /\ p \in Nat /\ p \in Int
        /\ q # Nothing /\ r # Nothing => r.dayStart <= q.dayStart
    BY <1>1, <1>3 DEF QuotaFits
  <1>5. ASSUME NEW row \in Quota \cup {Nothing}, NEW e \in Int, NEW e2 \in Int, NEW d \in Int,
               e + d <= e2, now' = now, \A a \in Ages : Excess(a)' = Excess(a) + d, Fits(row, e)
        PROVE  Fits(row, e2)'
    <2>1. CASE row = Nothing BY <1>5, <2>1, FitsMovesNone
    <2>2. CASE row # Nothing
      <3>1. row \in Quota /\ row.bytes \in Nat BY <2>2 DEF Quota
      <3>2. Within(row.bytes) + e + d <= Within(row.bytes) + e2
        BY <1>1, <1>5, <3>1 DEF Within
      <3>3. QED BY <1>5, <3>1, <3>2, FitsMoves
    <2>3. QED BY <2>1, <2>2
  <1>6. ASSUME UNCHANGED <<now, quota, quotaFlushed, stored, log>> PROVE QuotaFits'
    <2>1. \A a \in Ages : Excess(a) \in Int /\ Excess(a)' = Excess(a)
      BY <1>1, <1>6, RecentType DEF Excess, Recent
    <2>2. \A a \in Ages : Excess(a)' = Excess(a) + 0 BY <2>1
    <2>3. p + 0 <= p /\ 0 + 0 <= 0 BY <1>4
    <2>4. Fits(r, p)' /\ (q # Nothing => Fits(q, 0)') BY <1>4, <1>5, <1>6, <2>2, <2>3
    <2>5. quota' = q /\ stored' = r /\ Pending' = p BY <1>3, <1>6 DEF Pending
    <2>6. QED BY <1>4, <2>4, <2>5, QuotaFitsNext
  <1>7. CASE FrameRateLimited BY <1>6, <1>7 DEF FrameRateLimited
  <1>8. ASSUME NEW size \in Sizes, FrameRefused(size) PROVE QuotaFits'
    BY <1>1, <1>8, LogsOne, RefusedFits DEF FrameRefused
  <1>9. ASSUME NEW size \in Sizes, FrameFails(size) PROVE QuotaFits' BY <1>9, FailedFits
  <1>10. ASSUME NEW size \in Sizes, NEW reached \in {0, size}, FrameRelayed(size, reached)
         PROVE  QuotaFits'
    BY <1>10, RelayedFits
  <1>11. CASE Reload
    <2>1. \A a \in Ages : Excess(a)' = Excess(a) - (QUOTA_FLUSH - 1)
      BY <1>1, <1>11, LogsOne, ExcessMoves DEF Reload
    <2>2. PICK d \in Int : d = -(QUOTA_FLUSH - 1) BY <1>1
    <2>3. \A a \in Ages : Excess(a)' = Excess(a) + d BY <1>1, <2>1, <2>2, RecentType
    <2>4. p + d <= 0 BY <1>1, <1>4, <2>2
    <2>5. now' = now /\ quota' = Nothing /\ stored' = r BY <1>3, <1>11 DEF Reload, Fresh
    <2>6. Fits(r, 0)' BY <1>4, <1>5, <2>3, <2>4, <2>5
    <2>7. Pending' = 0 BY <2>5 DEF Pending
    <2>8. QED BY <1>1, <2>5, <2>6, <2>7, QuotaFitsNext
  <1>12. CASE Wipe
    <2>1. \A a \in Ages : Excess(a)' <= 0 BY <1>1, <1>12, RecentWiped DEF Wipe
    <2>2. now' = now /\ quota' = q /\ stored' = Nothing /\ Pending' = p /\ log' \in Logs
      BY <1>1, <1>3, <1>12, RecentWiped DEF Wipe, memory, Pending
    <2>3. Fits(Nothing, p)' /\ Fits(q, 0)' BY <1>1, <1>4, <2>1, <2>2, FitsWiped
    <2>4. QED BY <1>4, <2>2, <2>3, QuotaFitsNext
  <1>13. CASE Tick
    <2>1. quota' = q /\ stored' = r /\ Pending' = p
      BY <1>3, <1>13 DEF Tick, memory, Pending
    <2>2. Fits(r, p)' /\ (q # Nothing => Fits(q, 0)') BY <1>4, <1>13, FitsTick
    <2>3. QED BY <1>4, <2>1, <2>2, QuotaFitsNext
  <1>14. CASE UNCHANGED vars BY <1>6, <1>14 DEF vars, memory
  <1>15. QED BY <1>7, <1>8, <1>9, <1>10, <1>11, <1>12, <1>13, <1>14 DEF Next

\* In any stretch of QUOTA_WINDOW, the bytes relayed stay within twice the
\* quota, and a flush step more for each reload and each failed flush in it:
\* for any quota, flush step and window.
THEOREM QuotaIsRolling == Spec => []RollingQuota
  <1>1. Init => QuotaFits
    <2> SUFFICES ASSUME Init PROVE QuotaFits
      OBVIOUS
    <2>1. QUOTA \in Nat /\ QUOTA_FLUSH \in Nat \ {0} /\ 0 \in Ages
      BY RoomLimitsAssumption DEF Ages
    <2>2. Pending = 0 /\ Expired(stored) BY DEF Init, Pending, Expired
    <2>3. \A a \in Ages : Excess(a) = 0 BY InitRecent
    <2>4. Fits(stored, 0) BY <2>1, <2>2, <2>3 DEF Fits
    <2>5. QED BY <2>1, <2>2, <2>4 DEF QuotaFits, Init
  <1>2. TypeOK /\ QuotaFits => RollingQuota
    <2> SUFFICES ASSUME TypeOK, QuotaFits PROVE RollingQuota
      OBVIOUS
    <2>1. QUOTA_WINDOW - 1 \in Ages /\ QUOTA \in Nat /\ QUOTA_FLUSH - 1 \in Nat /\ log \in Logs
      BY TypeParts, RoomLimitsAssumption DEF Ages
    <2>2. Excess(QUOTA_WINDOW - 1) <= 2 * QUOTA
      <3>1. CASE quota # Nothing
        <4>1. Fits(quota, 0) /\ quota \in Quota \cup {Nothing} BY <3>1 DEF QuotaFits, TypeOK
        <4>2. Excess(QUOTA_WINDOW - 1) <= 2 * QUOTA + 0 BY <2>1, <4>1, FitsFacts
        <4>3. QED BY <2>1, <4>2
      <3>2. CASE quota = Nothing
        <4>1. Fits(stored, 0) /\ stored \in Quota \cup {Nothing}
          BY <3>2 DEF QuotaFits, Pending, TypeOK
        <4>2. Excess(QUOTA_WINDOW - 1) <= 2 * QUOTA + 0 BY <2>1, <4>1, FitsFacts
        <4>3. QED BY <2>1, <4>2
      <3>3. QED BY <3>1, <3>2
    <2>3. Past("relayed") \in Nat /\ Past("reloads") \in Nat /\ Past("unflushed") \in Nat
      BY <2>1, RecentType DEF Past, Fields
    <2>4. \A x, c \in Nat : x * c \in Nat OBVIOUS
    <2>5. (Past("reloads") + Past("unflushed")) * (QUOTA_FLUSH - 1) \in Nat
      BY <2>1, <2>3, <2>4
    <2>6. QED BY <2>1, <2>2, <2>3, <2>5 DEF RollingQuota, Excess, Past
  <1>3. QED BY <1>1, <1>2, QuotaNext, TypeCorrect, PTL DEF Spec
=============================================================================
