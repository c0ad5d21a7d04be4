----------------------------- MODULE Dashboard -----------------------------
(***************************************************************************)
(* The history a dashboard draws (dashboard/collector.js, db.js,           *)
(* series.js): the relay counts connections in memory and forgets the      *)
(* counts when it restarts; a collector scrapes them into a table on a     *)
(* timer and prunes it; a page reads a window of the table and has to make *)
(* rates, fractions and quantiles of counters that may go backwards.       *)
(*                                                                         *)
(* A sample keeps one histogram: column j counts what fell into the first  *)
(* j bins, the last column counts everything.  The first and the last one  *)
(* stand for any pair of a counter and a part of it (http_requests and     *)
(* http_errors); bounds and columns for the lifetimes of sockets and the   *)
(* latencies of the push relay.  Gauges are left out: a tile copies the    *)
(* newest.  Time is counted in scrape intervals, and rounding of rates to  *)
(* decimals is left out.                                                   *)
(***************************************************************************)
EXTENDS Sequences, FiniteSets, FiniteSetsExt, RunningSums

CONSTANTS
    Bounds,       \* the upper bounds of the histogram's bins
    RANGES,       \* the lengths of window a page may ask for
    BUCKETS,      \* slots a chart is divided into
    RETENTION,    \* retentionMs, in intervals
    PRUNE_EVERY,  \* an hour, in intervals
    Slots,        \* ticks of the collector that may be in flight together
    MaxTime,      \* bounds: intervals,
    MaxObserved,  \*   observations in all,
    MaxRestarts,  \*   restarts of the relay,
    MaxMissed     \*   prunes that fail one after the other

ASSUME DashboardAssumption ==
    /\ Bounds \in Seq(Nat) /\ Len(Bounds) > 0
    /\ \A i, j \in 1..Len(Bounds) : i < j => Bounds[i] < Bounds[j]
    /\ {BUCKETS, PRUNE_EVERY} \subseteq Nat \ {0}
    /\ RANGES \subseteq Nat \ {0}
    /\ RETENTION \in Nat
    /\ IsFiniteSet(Slots)
    /\ {MaxTime, MaxObserved, MaxRestarts, MaxMissed} \subseteq Nat

VARIABLES
    now,          \* in intervals
    counters,     \* the relay's columns since it started
    tick,         \* per slot: the scrape in flight
    samples,      \* the table: a sample for some times
    pruneAccum,   \* intervals since the collector last pruned or started
    observed,     \* history: the columns over all restarts of the relay
    restarts,     \* history: how often the relay restarted
    pruned,       \* history: the collector has pruned since it started
    missed        \* history: the prunes that failed since then

relay == <<counters, observed, restarts>>
table == <<samples, pruneAccum, pruned, missed>>
vars == <<now, relay, tick, table>>

All == Len(Bounds) + 1
Columns == 1..All
Zero == [c \in Columns |-> 0]
\* A sample, with the history at the time it was taken.
Rows == [cols : [Columns -> Nat], observed : [Columns -> Nat], restarts : Nat]
Empty == [cols |-> Zero, observed |-> Zero, restarts |-> 0]
Idle == [phase |-> "idle", row |-> Empty]
Asked == [phase |-> "asked", row |-> Empty]

\* A collector that starts ticks at once.
Seeded(ticks) == \E t \in Slots : ticks = [u \in Slots |-> IF u = t THEN Asked ELSE Idle]

TypeOK ==
    /\ now \in 0..MaxTime
    /\ counters \in [Columns -> Nat] /\ observed \in [Columns -> Nat]
    /\ restarts \in 0..MaxRestarts
    /\ tick \in [Slots -> [phase : {"idle", "asked", "answered"}, row : Rows]]
    /\ DOMAIN samples \subseteq 0..now
    /\ \A ts \in DOMAIN samples : samples[ts] \in Rows
    /\ pruneAccum \in 0..(PRUNE_EVERY - 1)
    /\ pruned \in BOOLEAN /\ missed \in 0..MaxMissed

Init ==
    /\ now = 0
    /\ counters = Zero /\ observed = Zero /\ restarts = 0
    /\ Seeded(tick)
    /\ samples = <<>> /\ pruneAccum = 0 /\ pruned = FALSE /\ missed = 0

-----------------------------------------------------------------------------
(* The relay.                                                              *)

\* An observation counts in every column whose bound is not below it.
ObserveSocketLifetime(bin) ==
    /\ observed[All] < MaxObserved
    /\ counters' = [c \in Columns |-> IF c >= bin THEN counters[c] + 1 ELSE counters[c]]
    /\ observed' = [c \in Columns |-> IF c >= bin THEN observed[c] + 1 ELSE observed[c]]
    /\ UNCHANGED <<now, restarts, tick, table>>

Restart ==
    /\ restarts < MaxRestarts
    /\ counters' = Zero
    /\ restarts' = restarts + 1
    /\ UNCHANGED <<now, observed, tick, table>>

\* render, and parseMetrics of the text.
Snapshot == [cols |-> counters, observed |-> observed, restarts |-> restarts]

-----------------------------------------------------------------------------
(* The collector.                                                          *)

\* The clock, which stands still at the bound; the timer then starts nothing.
NextInterval == now' = IF now < MaxTime THEN now + 1 ELSE now

\* The interval timer starts a tick.
Begin(t) ==
    /\ tick[t].phase = "idle"
    /\ now < MaxTime /\ NextInterval
    /\ tick' = [tick EXCEPT ![t] = Asked]
    /\ UNCHANGED <<relay, table>>

Answer(t) ==
    /\ tick[t].phase = "asked"
    /\ tick' = [tick EXCEPT ![t] = [phase |-> "answered", row |-> Snapshot]]
    /\ UNCHANGED <<now, relay, table>>

Since(cutoff, rows) == [ts \in {u \in DOMAIN rows : u >= cutoff} |-> rows[ts]]

\* The end of every tick: about once an hour, rows past retention are deleted.
\* The hour starts again before the attempt: a delete that throws, which is
\* reported and swallowed, has to wait for another one.
Prune(rows) ==
    \/ /\ pruneAccum + 1 < PRUNE_EVERY
       /\ pruneAccum' = pruneAccum + 1
       /\ samples' = rows
       /\ UNCHANGED <<pruned, missed>>
    \/ /\ pruneAccum + 1 >= PRUNE_EVERY
       /\ pruneAccum' = 0
       /\ \/ /\ samples' = Since(now - RETENTION, rows)
             /\ pruned' = TRUE /\ missed' = 0
          \/ /\ missed < MaxMissed
             /\ samples' = rows
             /\ missed' = IF pruned THEN missed + 1 ELSE 0
             /\ UNCHANGED pruned

\* The scrape has arrived: INSERT OR REPLACE at the time it did.
Store(t) ==
    /\ tick[t].phase = "answered"
    /\ Prune([ts \in DOMAIN samples \cup {now} |-> IF ts = now THEN tick[t].row ELSE samples[ts]])
    /\ tick' = [tick EXCEPT ![t] = Idle]
    /\ UNCHANGED <<now, relay>>

\* Variant: a failed scrape returns before it prunes.
ScrapeFailsUnpruned(t) ==
    /\ tick[t].phase # "idle"
    /\ tick' = [tick EXCEPT ![t] = Idle]
    /\ UNCHANGED <<now, relay, table>>

\* The fetch, the body, the parse or the insert fails: reported and swallowed.
ScrapeFails(t) ==
    /\ tick[t].phase # "idle"
    /\ Prune(samples)
    /\ tick' = [tick EXCEPT ![t] = Idle]
    /\ UNCHANGED <<now, relay>>

\* The dashboard restarts; the table stays.
CollectorRestart ==
    /\ NextInterval
    /\ pruneAccum' = 0 /\ pruned' = FALSE /\ missed' = 0
    /\ Seeded(tick')
    /\ UNCHANGED <<relay, samples>>

Next ==
    \/ \E bin \in Columns : ObserveSocketLifetime(bin)
    \/ Restart \/ CollectorRestart
    \/ \E t \in Slots : Begin(t) \/ Answer(t) \/ Store(t) \/ ScrapeFails(t)

Spec == Init /\ [][Next]_vars

-----------------------------------------------------------------------------
(* What the page makes of a window, which ends now.                        *)

\* db.range: the times of the samples since from.
Times(from) == {ts \in DOMAIN samples : ts >= from}

\* The rows before the one of time ts; the last of them is its neighbour.
Earlier(times, ts) == {u \in times : u < ts}
Prev(times, ts) == Max(Earlier(times, ts))

\* Variant: a counter that went backwards is traffic all the same.
StepAbsolute(prev, cur, c) ==
    IF cur.cols[c] >= prev.cols[c] THEN cur.cols[c] - prev.cols[c] ELSE prev.cols[c] - cur.cols[c]

\* A counter that went backwards was reset: nothing is counted.
Step(prev, cur, c) == IF cur.cols[c] < prev.cols[c] THEN 0 ELSE cur.cols[c] - prev.cols[c]

\* windowTotal, over those steps between neighbours that lead into a row of part.
WindowTotal(times, part, c) ==
    Sums([ts \in 0..now |->
        IF ts \in part /\ Earlier(times, ts) # {}
        THEN Step(samples[Prev(times, ts)], samples[ts], c) ELSE 0])[now]

Elapsed(times, part) ==
    Sums([ts \in 0..now |->
        IF ts \in part /\ Earlier(times, ts) # {} THEN ts - Prev(times, ts) ELSE 0])[now]

\* Variant: no clamp; the sample at the end of the window has no slot.
IdxUnclamped(ts, from) == ((ts - from) * BUCKETS) \div (now - from)

\* The chart slot of a time; the last one includes the window's end.
Idx(ts, from) ==
    LET i == ((ts - from) * BUCKETS) \div (now - from) IN
    IF i < BUCKETS THEN i ELSE BUCKETS - 1

\* bucketize: what each slot adds up, a step in the slot of its later sample.
Bucketize(times, from) ==
    [b \in 0..(BUCKETS - 1) |->
        LET part == {ts \in times : Idx(ts, from) = b} IN
        [n |-> Cardinality(part),
         elapsed |-> Elapsed(times, part),
         sum |-> [c \in Columns |-> WindowTotal(times, part, c)]]]

Round(num, den) == (2 * num + den) \div (2 * den)

\* Variant: the lower bound of the bin is not carried along.
LatencyQuantileFromZero(percent, cum, total) ==
    LET reaching == {i \in 1..Len(Bounds) : 100 * cum[i] >= percent * total}
        i == Min(reaching)
        before == IF i = 1 THEN 0 ELSE cum[i - 1] IN
    IF reaching = {} THEN Bounds[Len(Bounds)]
    ELSE IF cum[i] <= before THEN Bounds[i]
    ELSE Round(Bounds[i] * (percent * total - 100 * before), 100 * (cum[i] - before))

\* latencyQuantile, of a total above 0: linear inside the first bin that
\* reaches the rank, the last bound for what lies above all of them.
LatencyQuantile(percent, cum, total) ==
    LET reaching == {i \in 1..Len(Bounds) : 100 * cum[i] >= percent * total}
        i == Min(reaching)
        before == IF i = 1 THEN 0 ELSE cum[i - 1]
        low == IF i = 1 THEN 0 ELSE Bounds[i - 1] IN
    IF reaching = {} THEN Bounds[Len(Bounds)]
    ELSE IF cum[i] <= before THEN Bounds[i]
    ELSE low + Round((Bounds[i] - low) * (percent * total - 100 * before),
                     100 * (cum[i] - before))

-----------------------------------------------------------------------------
(* The payload.                                                            *)

\* The windows a page may ask for, by their start.
Windows == {now - span : span \in RANGES}

\* buildDashboard: the totals over the window, counted once for every column.
Tiles(from) ==
    LET times == Times(from) IN [c \in Columns |-> WindowTotal(times, times, c)]

\* buildPush: a latency quantile of the window's column totals.
LatencyTile(tiles, percent) == LatencyQuantile(percent, tiles, tiles[All])

-----------------------------------------------------------------------------
(* Properties.                                                             *)

\* Neighbours of which the first to be stored was rendered last: two scrapes
\* overtook each other.
Swapped(prev, cur) ==
    prev.observed[All] > cur.observed[All] \/ prev.restarts > cur.restarts

\* What a swapped pair makes the page count again: the traffic from the one
\* rendering to the other, and if a restart lay between them, which hides
\* that the counter fell back, all that the older one shows.
Recounted(prev, cur, c) ==
    IF ~Swapped(prev, cur) THEN 0
    ELSE prev.observed[c] - cur.observed[c]
            + (IF prev.restarts = cur.restarts THEN 0 ELSE cur.cols[c])

CountedAgain(times, c) ==
    Sums([ts \in 0..now |->
        IF ts \in times /\ Earlier(times, ts) # {}
        THEN Recounted(samples[Prev(times, ts)], samples[ts], c) ELSE 0])[now]

\* A window total (series.js, windowTotal) never reports more than the relay
\* saw between the first and the last sample, however many restarts, failed
\* scrapes and prunes fall into the window, but for the stretch that scrapes
\* which overtook each other count again: nothing when they were stored in
\* order.  Without a restart it is exactly that.
WindowHonest ==
    \A from \in Windows :
        LET times == Times(from)  tiles == Tiles(from) IN
        times # {} =>
            LET first == samples[Min(times)]  last == samples[Max(times)] IN
            \A c \in Columns :
                LET seen == last.observed[c] - first.observed[c]
                    again == CountedAgain(times, c) IN
                /\ tiles[c] <= seen + again
                /\ (\A ts \in times : samples[ts].restarts = first.restarts) =>
                      tiles[c] = seen + again

\* The slots of a chart (series.js, bucketize) split the window: every sample
\* and every step lands in one slot, so the chart adds up to the tiles.
BucketsPartition ==
    \A from \in Windows :
        LET times == Times(from)
            slots == Bucketize(times, from)
            tiles == Tiles(from)
            Sum(f) == Sums(f)[BUCKETS - 1] IN
        /\ Sum([b \in DOMAIN slots |-> slots[b].n]) = Cardinality(times)
        /\ times # {} =>
              Sum([b \in DOMAIN slots |-> slots[b].elapsed]) = Max(times) - Min(times)
        /\ \A c \in Columns : Sum([b \in DOMAIN slots |-> slots[b].sum[c]]) = tiles[c]

\* latencyQuantile keeps its order and its bounds although a restart may leave
\* column totals that no histogram could have: p50 is never above p95.
QuantilesOrdered ==
    \A from \in Windows :
        LET tiles == Tiles(from) IN
        tiles[All] > 0 =>
            /\ 0 <= LatencyTile(tiles, 50)
            /\ LatencyTile(tiles, 50) <= LatencyTile(tiles, 95)
            /\ LatencyTile(tiles, 95) <= Bounds[Len(Bounds)]

\* The table limits itself (collector.js): once a collector has pruned, no row
\* is older than the retention and the time since, whether scrapes succeed or
\* not, give or take the tick in flight; every prune that fails costs an hour.
RetentionKept ==
    pruned => \A ts \in DOMAIN samples :
        now - ts <= RETENTION + missed * PRUNE_EVERY + pruneAccum
                        + Cardinality({t \in Slots : tick[t].phase # "idle"})

-----------------------------------------------------------------------------
(* A sentence of the README that the code does not keep.                   *)

\* README of the dashboard: a restart shows as a gap, never a spike.  Columns
\* are reset one by one, so a part can be counted where its whole is not.
PartWithinWhole == \A from \in Windows : Tiles(from)[1] <= Tiles(from)[All]
=============================================================================
