# A TLA+ verification of the companion relay

The relay introduces two devices, a *mac* and a *phone*, to each other in a
*room* and then splices opaque bytes between them.  It is a Node process built
of small asynchronous handlers around per-room objects, run on several hosts
that share the rooms out by hash bucket, watched by a monitor and drawn by a
dashboard.  Most of what can go wrong in it is a matter of order: a handler that
checks, awaits a signature and writes; a close event that arrives after its
socket's successor; a timer that fires beside a new request; a host that learns
of a map late; a counter that fell back to zero between two scrapes.

These modules model that control, TLC explores it on small instances, and TLAPS
proves every safety property of the passing runs for every size (section 5).

Contents: 1 inventory, 2 modules and code, 3 runs, 4 fairness, 5 proofs,
6 what the checks found, 7 other sentences the code does not keep,
8 abstractions and what is not modelled, 9 plan.

Run a model with `tlc -workers 2 -config MCRoom.cfg MCRoom`, check proofs with
`tlapm RoomProofs.tla`.  Paths below are relative to the repository.


## 1. Inventory

### Room: admission and splice (`src/room.js`, `RoomContext` in `host/runtime.js`)

*State.*  The sockets in `ctx._sockets`, each with an attachment (state `hello`,
`challenged` or `admitted`, role, `nonDisplacing`), the per-socket promise chain
that serialises its frames, error and close callbacks, and two stored values:
the verifier (a room with one is *established*) and the count of pairing cycles.

*Operations.*  Upgrade, hello, proof (accepted at once in pairing mode, after an
awaited signature check in an established room), relayed frame, close frame,
error, close, quota and rate violations, a handler that throws, room teardown.

*Hard.*  The await in `handleProof`; nothing asks after it whether the socket is
still in the room.  A closed socket keeps its attachment, its in-flight frames
are still dispatched, and its loss may be reported after a successor took the
slot.  Displacement, peer closing and the cap on pairing cycles all act on the
slots as they are *then*.

*Correct if* each role has one holder; a mac that comes is worth at most
`MAX_PAIRING_CYCLES` attempts of unpaired phones; displacing a device does not
disconnect its peer; no phone is left talking to nobody, and the loss of a mac
reaches its phone.  `Pairing` says the first three abstractly.

### Room limits (`src/room.js`: `webSocketMessage`, `rateLimited`, `overQuota`)

*State.*  In memory, and gone with the context: the frame window, the quota of
the current day and the part of it already written.  In storage: the row
`quota`.  *Operations.*  A frame is counted, relayed or refused; the row is
loaded lazily, rolled when its day is over, flushed in steps of 4 MiB, written
when the quota is exceeded; the context leaves memory; the room is wiped.
*Hard.*  The two copies differ by up to a step, a write may throw between the
mark and the row, windows are fixed while the promise is about any 24 hours.
*Correct if* what a room relays in any stretch of a window's length is bounded,
losses of memory included, and a room refused for its quota stays refused.

### Room lifetime and housekeeping (`host/runtime.js`, `src/room.js`, `host/storage.js`)

*State.*  The registry of live contexts, the pins that keep a context from being
evicted, one alarm row per room in SQLite and a timer per context that serves
it, ages of pre-auth sockets and of ephemeral records, the idle TTL.

*Operations.*  `get`, `maybeEvict`, `ensureAlarm`, the alarm with its three
sweeps, its retry when it throws, `teardownRoom`, the HTTP handlers that write
records, crash, and `rehydrate` at boot.

*Hard.*  A context evicted while something runs on it would be a second instance
of the room, and frames of a socket that was closed are still dispatched to the
context that accepted it; after a crash only the alarm row says a room needs a
timer, and a registration writes the verifier before that row, in a transaction
of its own; the row and the timer are two copies of one fact; an alarm may throw
with half of its sweeps done.

*Correct if* loiterers are bounded in number and age, an established room
has an alarm row and, once watched, a timer, and sockets, upgrades and requests
belong to the registered context alone.

### Credentials (`src/room.js`: `/attest/challenge`, `/attest`, `/register`, `/delete`, tickets)

*State.*  Challenges, tickets, registration tokens, assertion counters per key,
the registrant and the verifier.  *Operations.*  Issue, attest, redeem a ticket
in a proof, register, delete, expire, reap.  *Hard.*  Every handler reads
a record, deletes it, awaits cryptography, then writes; another handler may come
between the read and the delete, a wipe of the room during the await, a crash
between two writes.  *Correct if* challenges and tickets are single-use, their number is
capped, counters increase, the pinned registrant is the key that asserted the
current verifier, and a verifier is not overwritten.

### Sharding (`src/sharding/*`, gate in `host/server.js`)

*State.*  The adopted map and its version, the owned buckets, drain episodes with
a deferral and a set of rooms already closed, a token bucket.  *Operations.*
Boot fetch with retries, poll and adopt, ownership gate, scheduler run, restart.
*Hard.*  Maps arrive late and out of order; a bucket can be lost, regained and
lost again while it drains; the eviction rate can be a fraction of a room per
second.  *Correct if* no served room is stranded, owned buckets are not drained,
evictions are paced and every drain ends; and if the validator accepts exactly
the maps that partition the buckets.

### Host entry (`host/server.js`)

*State.*  Open sockets in total and per address, the resident rooms, a liveness
mark per socket, the HTTP connections from their first byte to their answer.
*Operations.*  Upgrade, request
(checks, body, handler, answer), ping sweep, close events, eviction, shutdown,
boot.  *Hard.*  A connection can end in six ways and must be counted out once; a
peer can vanish without a word; the room cap is checked before a body is read and
used after; `close()` waits for everyone, also for a client that never completes
its headers.  *Correct if* the counters are exact,
the room cap is overshot by the requests in flight and no more, half-open
connections are reaped and a shutdown ends.

### Fleet monitor (`monitor/src`)

*State.*  One persisted record: streaks, last send times and severities, the last
good host list.  *Operations.*  A tick reads it, fetches map, health, probes and
metrics, debounces, decides what is due, mails, writes back.  *Hard.*  The write
comes after the mail, ticks may be lost in between, hosts come and go, a check
may not be looked at in a tick.  *Correct if* pages are debounced, repeated no
more often than the cooldown, at least that often while a failure lasts, and
retried when the mail failed.

### Dashboard history (`dashboard/collector.js`, `db.js`, `series.js`)

*State.*  A table of samples of the relay's counters, the pruning accumulator.
*Operations.*  Scrape, store, prune; window totals, chart slots, quantiles.
*Hard.*  The relay's counters restart at zero, scrapes overlap and fail, a prune
that throws has already been counted as done.  *Correct if* totals never overstate the traffic, charts add up to the tiles,
quantiles are ordered, and the table keeps to its retention.

### How they interact

`host/server.js` takes every upgrade and HTTP request, asks the ownership gate
(ShardHost), applies its caps and limiters (HostEntry), gets a context from the
registry (Housekeeping) and hands the request to it (Room, Credentials); the
frames of an admitted socket pass RoomLimits before they are relayed.  The drain
scheduler calls `Runtime.closeRoom`, which is Room's `CloseRoom` and ShardHost's
eviction.  `teardownRoom` is shared: Room's `TeardownRoom`, Housekeeping's
`WipeRows`, Credentials' `Wipe` are its three views (slots; rows, alarm and
timers; records).  An alarm that reaps a room is `AlarmReap` in Room, `Fire` in
Housekeeping and `Reap` in Credentials.  The monitor and the dashboard read
`/metrics` over HTTP and share nothing else with the relay.


## 2. Modules and code

`PROJECT.json` maps every definition to its lines.  Each module's header states
its grain of atomicity; a handler runs in one step up to its first *real* await
(a digest, a signature, a fetch), because SQLite calls are synchronous and an
`await` on one yields a microtask only (`host/storage.js`, "ATOMICITY
INVARIANT").  Where the code says that even this gap matters it is a step:
between the read of a single-use record and its delete (`host/storage.js:59-62`).
And where a crash in the gap can be told from one outside it, between the
autocommitted writes of a registration, the writes may be cut at each of them.

| module | models | state | actions |
|---|---|---|---|
| `Room` | `src/room.js`, `RoomContext` | `att`, `role`, `nonDisplacing` (attachment); `sockets`; `serverClosed`, `net` (transport); `verifying`, `owed` (promise chains); `verifier`, `pairingCycles` (storage) | `HandleUpgrade`, `HandleHello`, `RefuseFrame`, `PairingProof`, `SignedProof`/`SignedProofVerified` (the two halves of `handleProof`), `AbusiveFrame`, `QuotaExceeded`, `FrameHandlerThrows`, `CloseFrame`, `ErrorEvent`, `CloseEvent`, `RunOwed`, `ChainDrains`, `DropPreAuth`, `AlarmReap`, `RegisterCommit`, `DeleteCommit`, `CloseRoom` |
| `Pairing` | what a room promises; `Room` implements it | `slot`, `attempts`, `established` | `Park`, `Join`, `Yield` (a mac comes and is turned away), `Leave`, `Establish`, `Dissolve` |
| `RoomLimits` | frame window and byte quota of a room | `frameWindow`, `quota`, `quotaFlushed` (memory); `stored` (row); `now` | `FrameRateLimited`, `FrameRefused`, `FrameRelayed`, `FrameFails`, `Reload`, `Wipe`, `Tick` |
| `HostEntry` | caps, counters, keepalive, shutdown of one process | `conn`/`ip`/`room`/`isAlive`/`gone` (sockets), `totalSockets`, `ipSockets`, `resident`, `request`/`target`, `phase` | `HandleUpgrade`, `HttpConnect`/`HttpCheck`/`HttpRun`/`HttpAbort`/`HttpOrphan`/`HttpDone`, `Evict`, `BeginClose`, `PeerVanishes`, `CloseEvent`, `Pong`, `Sweep`, `Shutdown`, `WssClosed`, `HttpClosed`, `Boot` |
| `Housekeeping` | registry, alarm, sweeps, boot | `registry`, `timer`, `sock`/`home`/`age`, pins `upgrading`/`verifying`/`ops`, `row`, kv rows | `HandleUpgrade`/`UpgradeTagged`, `Leave`, `TransportEnds`, `AdmitPairing`, `CycleCapKills`, `SignedProof`/`SignedProofVerified`/`SignedProofRejected`, `BeginHttp`/`AttestCommit`/`RegisterCommit`/`DeleteCommit`/`HttpRefused`, `RegisterTorn` (cut after any of its writes), `Fire`, `FireThrows` (any part of the alarm's effects, then the retry), `Crash`, `Rehydrate`, `Tick` |
| `Credentials` | attestation, registration, deletion | `challenge`, `ticket`, `token`, `counter`, `registrant`, `verifier`; `request`, `reading`, `redeeming` (handlers in flight, and those not yet past their delete) | `IssueChallenge`, `Attest`/`Register`/`Delete` (the read), `ConsumeChallenge` (the delete), `AttestVerified`, `RegisterVerified`, `DeleteVerified`, `Refuse`, `RegisterTorn`, `ReadTicket`/`RedeemTicket`, `Reap`, `Expire`, `Crash` |
| `ShardMap` | `shardMap.js`, `ownedSet.js` as operators: `ValidateShardMap`, `HostForBucket`, `OwnedBuckets`; `Partition` is the reference | | |
| `MapCheck` | one fetched map and the verdict on it, over `ShardMap` | `map`, `verdict` | `Validate` |
| `ShardHost` | store, poller, gate, drain scheduler; validates and reads maps with `ShardMap` | `phase`, `attempts`, `version`, `owned`, `live`, `reading`, `draining`, `defer`, `evicted`, `tokens`, `accrued` | `Adopt`, `BootFetchFails`, `Restart`, `HandleUpgrade`, `Disconnect`, `HttpGate`/`HttpRun`, `Run`, `Tick` |
| `Monitor` | the fleet monitor's tick | `kv`, `tick` | `Begin`, `Analyze`, `Commit`, `Lose`, `TickFails`, `Crash` |
| `Dashboard` | collector, table, series | `samples`, `pruneAccum`, `counters`, `tick` | `ObserveSocketLifetime`, `Restart`, `Begin`, `Answer`, `Store`, `ScrapeFails`, `CollectorRestart` (the prune at the end of a tick works or throws); `WindowTotal`, `Bucketize`, `LatencyQuantile` as operators |
| `RunningSums` | what a loop over rows adds up; used by `RoomLimits` and `Dashboard` | | |
| `RoomProofs`, `ShardHostProofs`, `HousekeepingProofs`, `CredentialsProofs`, `HostEntryProofs`, `RoomLimitsProofs`, `MonitorProofs`, `DashboardProofs` | theorems about the module each one is named after; `ShardHostProofs` also about `ShardMap` and `MapCheck` | | |
| `MC…` | instances for TLC | | |

Variables marked *history* in a module are not in the code: they record what a
property needs to speak about the past (phones admitted since a mac last came, the
evictions not yet paid for, challenges two requests had read, a registration cut
in two, prunes that failed, the counters accepted from a key, the last mail that
went out, the bytes relayed in the last ticks) and never appear in a guard that models code.

Definitions with a telling suffix next to a mapped one (`CapOffByOne`,
`WipeKeepsVerifier`, `SweepForgives` …) are plausible bugs.  Nothing uses them;
`PROJECT.json` "mutants" names for each property one that violates it when put
in place of the real definition, which shows that the property can fail.


## 3. Runs

| run | instance | checks |
|---|---|---|
| `room` | 3 sockets, cap 1, clients of either role may ask not to displace | `OneHolderPerRole`, `PhoneBacked`, `ImplementsPairing` (refinement) |
| `room_loss` | 2 sockets, fair | `LossReachesPhone` |
| `housekeeping` | 2 sockets, 2 context objects, crashes | `PreAuthBounded`, `DeadlineWhileAwake`, `OneContextActs`, `EstablishedPersistsAlarm`, `IdleWatchKept` |
| `housekeeping_wake` | the same without crashes | `HousekeepingWake` is **violated** |
| `credentials` | 2 requests at a time, 3 challenges, 2 tickets, 2 keys, counters 1..2, cap 2, crashes | `ChallengeSingleUse`, `TicketSingleUse`, `RegistrantAsserted`, `CountersIncrease` |
| `credentials_overwrite` | the same with two verifiers | `VerifierNotOverwritten` is **violated** |
| `shard_map` | every sequence of up to 3 ranges on 3 buckets | `ValidIffPartition`, `LookupAgreesWithGate` |
| `shard_host` | 2 buckets, 3 rooms, 4 good maps and a bad one, half a room a second, delay 2 | `LiveIsOwnedOrDraining`, `EvictionPaced`, `DrainCompletes` |
| `monitor` | 1 host, streak 2, cooldown 2, ticks and process may be lost | `PagesAreDebounced`, `FailureIsTold`, `CooldownHeld`, `UndeliveredRetried` |
| `host_entry` | 3 connections, 2 addresses, 1 HTTP request, 3 rooms, room cap 1, fair | `CountsExact`, `RoomCapSoft`, `DeadPeerReaped`, `ShutdownCompletes` |
| `room_limits` | quota 3, flush step 2, day of 2 ticks, 3 frames per 2 ticks, 2 losses of memory and 1 failed flush per day | `RollingQuota`, `FramesPaced`, `BarredStaysBarred` |
| `dashboard` | 2 overlapping scrapes, 3 intervals, 3 observations, 1 relay restart, 1 failed prune | `WindowHonest`, `BucketsPartition`, `QuantilesOrdered`, `RetentionKept` |

Each passing run but `room_loss`, `shard_map` and `dashboard` also checks its
module's `TypeOK`.  `CyclesPerMac`, `AdmissionSparesPeer`, `DrainSparesOwned`,
`EvictedOnce` and `GateFollowsLookup` are proved (section 5) and are in no run.

**Why the bounds are enough.**

* *Room.*  Three sockets are a holder, its challenger and the peer: enough for
  two sockets to race for a slot while the third's connection hangs on the
  outcome.  A socket identity is reused once its connection is over, so runs of
  any number of connections are covered.  Cap 1 makes the second phone of a park
  the one to refuse.  The safety properties are also proved for any number of
  sockets and any cap.  Liveness needs two sockets: a mac and its phone, or two
  generations of either; symmetry is off there.
* *Housekeeping.*  Two contexts are the registered one and one that has left the
  registry; two sockets with a cap of one reach the eviction, and one of them can
  be closed, outlive its context's eviction and still have a proof dispatched to
  it while the other waits in the context that replaced it.  Deadline,
  interval and ephemeral TTL are 1, retry 2, idle TTL 3: all the orders of two
  of them expiring occur, and the code compares nothing finer.  Ages saturate
  one above the last value compared.
* *Credentials.*  Two requests are in flight together and two sockets hold the
  same ticket, which is what every race here needs.  Identifiers are never
  reissued, so the number of challenges bounds the history, not the concurrency;
  three let a wipe and a third request follow two that raced.
* *ShardMap.*  Three ranges on three buckets with bounds one below and one above
  the legal ones contain every gap, overlap, duplicate, inversion and overrun
  between neighbours.  Both properties are also proved for all sizes.
* *ShardHost.*  The good maps give the host {0,1}, {1}, {0} and {}: versions come
  in increasing order of adoption, so each bucket can be lost, and 0 regained
  and lost again; the newest map has an overlap and must never be adopted; `Restart` makes any order possible.  Two rooms share a bucket
  so that an episode can run out of tokens halfway.  The rate is a half, the
  case the burst cap exists for.  Proved for all rates and sizes, `DrainCompletes`
  excepted.
* *Room limits.*  The span of a property is one window, and a window's length of
  history is kept, so the clock bound of 4 only limits how many days follow each
  other: two rolls.  A tick holds more frames than a day's quota, so a window can
  be used up at its very end and the next at its start.  `MaxOver` bounds what is
  tried past a limit, where the code only counts on.
* *Host entry.*  Two of three connections fill the host and the address; a room
  cap of one, a request in flight and three rooms let the cap be overshot by one
  and would let it be overshot by two.  Connections and requests are reused.
* *Monitor.*  One host: the state of one target's checks never depends on
  another's except through the shared mail, and the target's own checks share
  that too.  A streak saturates at its limit, send times at the cooldown.  The
  checks of a push relay are explored with `Hosts = {}`, `Pushes = {"p1"}`,
  `AlertFailStreak = 1`, `MayLose = FALSE` in `MCMonitor.cfg`.
* *Dashboard.*  With three observations and a restart every column can fall back,
  be overtaken and be hidden by the restart, and the columns of a window can stop
  being cumulative: a bin whose fall the restart hides while the total's shows
  makes the bin's total exceed it, which takes the third observation.  Retention
  1 and pruning every 2 intervals let a table of three intervals be pruned, the
  prune fail and its rows overstay.  The bins of 19 and 1 milliseconds make
  interpolation and rounding differ between the columns.  The four properties are
  also proved for all sizes.

No run switches deadlock checking off except `shard_map`, whose one step is the
whole computation, and `room_limits`, whose clock is bounded.


## 4. Fairness

Three specifications assume any.

`Room!FairSpec`: a suspended `verifyJoin` settles (`WF SignedProofVerified`; it is
a WebCrypto promise on in-memory data), a promise chain drains (`WF RunOwed`; a
settled promise runs its continuation; `WF ChainDrains` is the same of a chain
with nothing but frames left), and a connection that began to close
ends (`WF` of `CloseEvent` once `net # "open"`; `ws` destroys a closing socket
after its own timeout).  Nothing is assumed of peers: they need not send, close
or reconnect.

`ShardHost!FairSpec`: time passes (`WF Tick`) and the drain ticker's interval
fires (`WF Run`).  Nothing is assumed of clients, maps or restarts: an episode
also ends when the bucket comes back or the process restarts.

`HostEntry!FairSpec`: the keepalive interval fires (`WF Sweep`), a connection that
began to close ends (`WF CloseEvent` while it is closing; `ws` destroys it after
its own timeout, and `terminate` at once), a handler's promise settles
(`WF HttpDone`), and the callbacks of `wss.close` and `httpServer.close` come
(`WF WssClosed`, `WF HttpClosed`).  Peers need not answer, send or close.
`ShutdownCompletes` has a premise instead of a fairness assumption about clients:
again and again no headers and no body are awaited.  The code has nothing to put
in its place: `httpServer.close` waits for such a connection too, and with the
call the server stops timing it out (section 7).


## 5. Proofs

TLAPS checks eight modules; nothing is taken on trust beyond the named assumptions
on constants, which TLC evaluates in the runs.  They say that caps, periods,
limits and bounds are natural numbers, that sets one counts are finite, that
sentinels (`NoKey`, `NoIp`, `Nothing`) are none of the values they stand beside,
and that some periods are in the order the code's own constants are in.  Every
inductive invariant was first checked by TLC on the instance of the module's run.

**`RoomProofs`**, for any set of sockets and any cap (`LimitsAssumption`):

* `Base` is the part everything rests on: `TypeOK`, a routable socket is neither
  closing nor closed by the server (`Routable`), close callbacks are owed only
  after a loss (`OwedAfterLoss`), and a socket in `verifyJoin` is challenged
  (`VerifyingChallenged`).  `BaseStep` goes through the actions one by one.
* `TypeCorrect`: `Spec => []TypeOK`.
* `SlotExclusion`: `Spec => []OneHolderPerRole`.  Lemma `NewHolder`: only
  `AdmitTakesSlot` makes a holder, and that action severs the previous one.
* `DisplacementSparesPeer`: `Spec => AdmissionSparesPeer`.
* `CycleCap`: `Spec => []CyclesPerMac`: between one mac that gets as far as `admit`
  in pairing mode and the next, at most `MAX_PAIRING_CYCLES` phones are admitted.
  The cap itself is not inductive; `Budget` adds that while a mac is parked the
  stored count is at least the number of phones since.  The macs that come
  include those turned away because they asked not to displace: they renew the
  budget too, which is less than the code promises (section 7).  The history
  starts over when the room is established: whatever ends that disconnects
  everyone, and the next phone needs a mac that comes first.
* `RoomImplementsPairing`: `Spec => ImplementsPairing`, the refinement.  The mapping
  takes the routable holders of each role for a slot and the history of phones
  since a mac last came for the attempts.  Lemma `AdmitSimulates`
  does the one hard case: an admission is a `Park` or a `Join` and leaves the
  other slot alone, a refusal at most a `Yield`; `Join`'s guard on the attempts is
  `Budget` (lemma `BudgetAlways`).  Every other action is a `Leave`, `Establish`,
  `Dissolve` or a stutter.
* `PhoneNeverAlone`: `Spec => []PhoneBacked`; the loss of a mac stays pending
  until the phone is told, through every action.

**`ShardHostProofs`**, for any rooms, buckets, hosts, published maps, delay and rate
(`ShardMapAssumption`, `ShardHostAssumption`).  First the map, of any length:

* `ValidatorExact`: `ValidateShardMap(m) = "ok"` exactly if `Partition(m)`.  The
  code sorts and walks, the reference only counts covers, so the proof needs:
  every sequence has a sorting permutation (`SortExists`, by inserting one
  element after another), so that `Sorted` is one (`SortedFacts`); the recursive
  function of the walk exists and is `ExpectedNext` (`WalkExists`,
  `ExpectedNextWalks`); a walk that missed once never arrives (`WalkStaysLost`:
  the model's -1 is the code's throw); a walk that arrives has met every bucket
  below its position once (`WalkAccepts`); and sorted ranges that cover every
  bucket once leave it nowhere to miss (`WalkArrives`).  `TilesIff` carries both
  directions back through the permutation, ties in the sort included.
* `OneOwnerPerBucket`: under an accepted map each bucket has one host, the one a
  lookup names and the only one whose own set has it; so hosts that hold the same
  map never claim the same bucket, and none is unclaimed.
* `AcceptedArePartitions` (`ValidIffPartition`) and `LookupAgrees`
  (`LookupAgreesWithGate`) are the two as invariants of `MapCheck`, for any
  `MaxRanges`.

Then the host:

* `GateIsTheMap`: `Spec => []GateFollowsLookup`, from `HoldsMap` (what is in memory
  is the own set of a published map that validates) and `OneOwnerPerBucket`.

* `TypeCorrect`; the token bucket never exceeds `Cap` (lemma `TypeRun`).
* `Ownership` is the inductive invariant: live rooms are owned or draining, no
  bucket is both, a room an episode has closed is not live, and it belongs to
  the episode's bucket.  The first conjunct is not inductive alone: when an
  episode ends one must know that nothing of its bucket is live (lemma
  `CompletedIsEmpty`, from the third), and when a map gives a bucket back that
  the episode goes.  `NoStrandedRoom`, `ReacquireCancels` and `EvictionOnce` are
  its parts.
* `DrainIsPaced`: `EvictionPaced`, from the invariant that what has been evicted
  ahead of time and what the next run could still spend fit into the cap together
  (`Paced == Refill + debt <= Cap`), with `PassCost` for the cardinality.

**`HousekeepingProofs`**, for any sockets, context objects, caps and periods
(`HousekeepingAssumption`):

* `NoSplitBrainButStray`: `Spec => []OneContextActs`.  A context that is not
  registered is `Outside`: no socket, upgrade or request, only proofs of severed
  sockets, a timer only if something strayed.  A step that gives a context more
  than that acts on the registered one, because what lets it act (a routable
  socket, an upgrade, a request) already is there (lemmas `SingleStep`,
  `SocketHome`, `OperationHome`), and a context is dropped only when nothing of
  that kind is left.  `PendingProofs` says that a suspended
  proof is of a socket not yet admitted, so that a late one can only find its
  socket severed; `DownIsEmpty` closes the loop through crash and boot.
* `EstablishedIsScheduled`: `Spec => []EstablishedPersistsAlarm`, inductive with
  `TypeOK` alone, since the alarm of an established room always asks for another
  (lemma `NextAlarmBounds`).  The exception `torn` is the registration cut between
  verifier and row; it ends with the next alarm that is set.
* `PreAuthCap`: `Spec => []PreAuthBounded`, by the cardinalities before and after
  an upgrade and an eviction (`UpgradeBounded`, `TaggedBounded`).
* `AdmissionDeadline`: `Spec => []DeadlineWhileAwake`.  The deadline says nothing
  of the time a timer has left and is not inductive.  `AwakeInTime` is: a
  waiting socket's age and the time left add up to at most the deadline and a
  wake.  It needs `TimerServesRow`, because `ensureAlarm` believes the row and not
  the timer, and that a waiting socket implies a row, so that no timer is armed
  for one that has waited unwatched (section 6, 1).
* `IdleTTLStaysArmed`: `Spec => IdleWatchKept`, an action property, from the same.

**`CredentialsProofs`**, for any challenges, tickets, keys, verifiers, counters and
cap (`CredentialsAssumption`), and any number of requests and of sockets redeeming
a ticket at once.  Every handler here is cut at its delete and at its await, and
the invariant says what the later parts may rely on:

* `ChallengeUsedOnce` (`ChallengeSingleUse`): past its delete a request's challenge is
  gone (`DeletedFirst`), and a challenge that is not in `raced` is held by one
  request at most, which has been granted nothing (`HeldOnce`).  So the gap between
  read and delete is the only way to use a challenge twice.
* `TicketAdmitsOnce` (`TicketSingleUse`), without exception: any number of sockets may
  have read a ticket, but its delete is asked whether it deleted, and a ticket not
  yet gone has admitted nobody (`AdmittedOnce`).
* `RegistrantIsSigner` (`RegistrantAsserted`): the key behind a token read before
  the await is the same after it (`KeyBehindToken`).  The exception `torn` is a
  crash between the writes of a registration in a room that has a verifier.
* `NoCounterReplay` (`CountersIncrease`): the stored counter bounds all accepted ones
  (`CounterIsBound`); the compare that counts is the one after the await.

**`HostEntryProofs`**, for any connections, requests, addresses, rooms and caps
(`HostEntryAssumption`):

* `CountersAreExact` (`CountsExact`): a connection has an address exactly while it
  is counted (`AddressWhileCounted`), so whichever way it ends, the `close`
  callback gives back what the upgrade took.
* `RoomCapOvershoot` (`RoomCapSoft`): the number of resident rooms is not inductive,
  since a request may re-create a room evicted after its check.  What stays
  bounded are the rooms that are resident or claimed by a request whose body is
  awaited (`ClaimedBounded`): an eviction does not make that set larger, and its
  excess over the resident ones is the width of the concurrency (`WithinWidth`).

**`RoomLimitsProofs`**, for any sizes, windows, quota, flush step and limit
(`RoomLimitsAssumption`).  The bounds are sums over a log; their facts are proved
by induction on a *set* of numbers through its smallest missing element (lemma
`SetInduction`, from the library's `WFMin`), which needs no operator parameter.

* `BarIsKept` (`BarredStaysBarred`): the refused window is the stored one and is over
  the quota (`BarHolds`).
* `PacedFrames` (`FramesPaced`) and `QuotaIsRolling` (`RollingQuota`).  A bound on one
  window's length is not inductive under the passing of time: the invariants
  `FramesFit` and `QuotaFits` bound *every* stretch that ends now, so that when a
  tick drops the oldest entry a shorter stretch takes over.  `QuotaFits` speaks of
  the row in memory and of the stored one, the latter with what was counted since
  the last flush as an allowance, since that one is what a reload goes on with.

**`MonitorProofs`**, for any hosts, push relays, streak and cooldown
(`MonitorAssumption`).  `TypeCorrect` holds as it is; the other four have the
hypothesis `OneAtATime`, that ticks do not overlap, without which they are false
(section 7):

* The properties speak of what the operator saw, a tick decides by the state it
  read.  The invariant is that the two agree (`StateTracks`): streaks are runs of
  failures, a recorded send time is that of the last mail, a condition the
  operator knows of is recorded with its severity, whichever step the tick in
  flight has reached.  `PagesDebounced`, `CooldownKept` and `NothingUnsaid` follow.
* `FailedMailRetried` (`UndeliveredRetried`): what was due and did not go out is due
  by the stored state and by that of every tick in flight (`StaysDue`).

**`DashboardProofs`**, for any bins, windows, number of slots, retention, pruning
interval and number of scrapes in flight (`DashboardAssumption`: bounds are
natural numbers in increasing order, as `LAT_BOUNDS_MS` and `LIFE_BUCKETS` are).

* `TableIsBounded` (`RetentionKept`): a tick that ends, in whatever way, has added
  one to the accumulator, pruned, or tried to and failed, so an interval that
  passes is paid for by the tick it started, in flight or over, and a failed prune
  by a pruning interval more (lemma `RetentionNext`).
* `HonestTotals` (`WindowHonest`).  The table alone is not inductive: what is in
  flight will be in it.  `Ordered` says of the snapshots in either place that of
  two one `Follows` the other: no count fell except at a restart, between
  restarts the counters grew by what was observed, and after one they show no
  more than was observed since.  Of two neighbours in the table that are not
  `Swapped` the later stored follows the earlier (`UnswappedFollows`); a swapped
  pair counts again exactly what `Recounted` says.  `StepHonest` and `PairHonest` draw from it what one step of
  `windowTotal` may count, and `Telescopes` adds the steps up: increases between
  neighbours sum to the increase from the first row to the last.
* `ChartMatchesTiles` (`BucketsPartition`) is a fact about the operators in every
  state of the right type: a time has one slot in range (`IdxType`, from the facts
  of integer division), and summands dealt out to slots add up to the same
  (`SumsSlots`).
* `QuantilesInOrder` (`QuantilesOrdered`) holds for *any* column totals
  (`QuantilesMonotone`): within a bin the interpolation is monotone and rounding
  keeps it between the bin's bounds, and a higher rank is reached in no earlier
  bin, even where a restart has left totals that are no histogram's.

Sums here and in `RoomLimits` are recursive functions, as is the walk of
`ShardMap`; their lemmas use the same `SetInduction`.

*Only model-checked*: the liveness properties (`LossReachesPhone`,
`DrainCompletes`, `DeadPeerReaped`, `ShutdownCompletes`), since the prover has no
fairness reasoning.


## 6. What the checks found

Everything the passing runs list holds.  Two sentences of the code's own comments
do not and have a run that shows a behaviour; more are in section 7.

1. **A fired alarm's row suppresses the next wake** (`housekeeping_wake`).
   `_fire` does not delete the row of the alarm it runs, and `alarm()` overwrites
   it only if something is left to watch.  After a sweep that found nothing, the
   row is still there, in the past; `ensureAlarm` (`src/room.js:790`) takes any
   row that is not beyond the horizon for a pending wake and arms nothing.  A
   socket that then loiters before authentication is not timed out until
   something else arms a timer.  The comment (`src/room.js:782`): "Guarantee a
   housekeeping wake within HOUSEKEEPING_INTERVAL_MS."  `DeadlineWhileAwake` is
   what does hold: with a timer armed, the deadline is kept.
2. **Two first registrations can both succeed** (`credentials_overwrite`).  The
   test for an existing verifier (`src/room.js:662`) precedes the awaited digest
   and assertion and is not repeated before the write at 719.  The comment
   (660-661): "A second first-registration is refused, so a room-name holder
   cannot hijack V."  `RegistrantAsserted` and `CountersIncrease` hold even then.

Two comments are more modest than the code.  `host/server.js:671-673` allows
concurrent upgrades to overshoot the socket caps; no await lies between check and
count, and `CountsExact` shows that the caps are exact.  `host/server.js:587-590`
allows the room cap an overshoot of the concurrency width; `RoomCapSoft` shows
that this does not add up over time, although a request may also re-create a room
that was resident at its check and has been evicted since.


## 7. Other sentences the code does not keep

Stated in the modules, violated by the model, and kept out of the runs.  To see a
behaviour, list the property in a copy of the configuration named.

| property | configuration | sentence | behaviour |
|---|---|---|---|
| `Room!PhoneBacked` without its last disjunct | `MCRoom.cfg` | `host/runtime.js:271-273`: `phone_only` "should stay ~0", "a nonzero value is an invariant tripwire" | a socket that has been displaced still has a frame in flight; the frame breaks a limit, and `closePeerOf` on its behalf closes the mac now parked, not its phone |
| `Room!CyclesPerMac` with the reset of `grinds` left out of `AdmitRefused` (the cap per *parked* mac) | `MCRoom.cfg` | `src/room.js:41-43`: the cap is per mac park | `nonDisplacing` is taken from a hello of either role (`src/room.js:386`); a non-displacing mac that is refused because the slot is held (505-513) has reset the count already (466-467) |
| `HostEntry!ShutdownCompletes` without its premise | `MCHostEntry.cfg` | `bin/relay.js:135-139`: `close()` is awaited and `process.exit(0)` follows, with no deadline | `httpServer.close` (812) waits for every connection that is not idle; one that never completes its headers or its body is never ended by the process.  Under the unit in `ops/` systemd's `TimeoutStopSec` ends it |
| `Housekeeping!EstablishedResident` | `MCHousekeeping.cfg` | `host/runtime.js:325`: established rooms "remain resident" | a boot that finds a past-due row starts the alarm with `_alarmAt` already null, and `maybeEvict` drops the context before `alarm()` has rescheduled |
| `Housekeeping!NoSplitBrain` | `MCHousekeeping.cfg` | `host/runtime.js:322-331`, and the purpose of the pins | the same context then runs its alarm and keeps a timer outside the registry; and a proof that a closed socket sent late is dispatched to the context that accepted it, evicted or not (`host/runtime.js:138-141`), and may arm a timer there.  `OneContextActs` says what is left: such a context has no socket, no upgrade and no request |
| `Housekeeping!EstablishedPersistsAlarm` without `torn` | `MCHousekeeping.cfg` | `host/runtime.js:324-325`: "established rooms carry an idle-TTL alarm" | the verifier (`src/room.js:719`) and the alarm row (791) are written one after the other, each in its own transaction; a crash or a storage error in between leaves the room without a row until something calls `ensureAlarm`, if an earlier wipe had removed the row |
| `Housekeeping!DeadlineWhileAwake` without `~strayed` | `MCHousekeeping.cfg`, also with `MayCrash = FALSE` | `src/room.js:33`, 814-826: un-admitted sockets are closed after `PREAUTH_DEADLINE_MS` | a stray context's alarm rewrites the one row that the live context's `ensureAlarm` reads |
| `Housekeeping!DormantIsEmpty` | `MCHousekeeping.cfg` | `src/room.js:860-862`: a never-established room is reclaimed | rows no sweep visits (`pairingCycles`, the quota) stay |
| `Housekeeping!AlarmSparesAdmitted` | `MCHousekeeping.cfg` | `src/room.js:72-73`: the TTL never reaps a room in active use | idleness is measured from the last signed join, so one connection kept longer than the TTL is closed |
| `Credentials!ChallengeSingleUse` without `raced` | `MCCredentials.cfg` | `src/room.js` 609, 691, 747: "single-use" | two requests read a challenge before either deletes it (`host/storage.js:59-62` foresees it); these deletes, unlike a ticket's, do not look at whether they deleted anything |
| `Credentials!RegistrantAsserted` without `torn` | `MCCredentials.cfg` | `src/room.js:678`: "The attested key id is pinned as the registrant." | of two registrations past the check the second is cut by a crash after its registrant (`src/room.js:715`) and before its verifier (719) |
| `Credentials!NothingSurvivesWipe` | `MCCredentials.cfg` | `src/room.js:758-765`: nothing survives a teardown | a handler suspended on a verification writes into the wiped room |
| `ShardHost!HttpWhereOwned` | `MCShardHost.cfg` | `src/sharding/admission.js:5-6`: reject on doubt | the gate is asked before the body is read (`host/server.js:578-622`), the map may change meanwhile |
| `Monitor!CooldownHeld` | `MCMonitor.cfg` with `Slots = {"t1","t2"}`, `MayLose = FALSE` | the cooldown | ticks are started by an interval (`monitor/src/server.js:572`) and may overlap; both read the state before either writes |
| `Monitor!RecurrenceRepages` | `MCMonitor.cfg` with `Cooldown = 3`, `MayLose = FALSE` | `monitor/src/monitor.js:421-422`: "Conditions absent from `alerts` are cleared from state, so they re-page if they recur after resolving." | when the mail fails, `run` keeps the whole previous `sentAt` (`monitor/src/core.js:297`), entries of conditions absent from this tick's alerts included; one that recurs within the cooldown is held back |
| `RoomLimits!RollingQuota` with `QUOTA` in place of its bound | `MCRoomLimits.cfg` | `src/room.js:55-57`: bytes "per rolling 24h", "Persisted (survives hibernation)" | windows are fixed, so a stretch of 24 hours can touch two; and what was counted since the last flush is forgotten when the context leaves memory |
| `Dashboard!PartWithinWhole` | `MCDashboard.cfg` | `dashboard/README.md:150-151`: a restart "shows as a gap, never a negative or a spike" | `series.js` treats each counter's fall by itself; if the whole fell and the part did not, the part is counted alone and a rate of errors can exceed all requests.  The monitor resets all counters together, so pager and dashboard can differ, which `series.js:5-11` rules out |

Two conditions in the properties that hold come from the same places.
`PhoneBacked` excepts a stray close and a throwing handler (history `strayClose`),
and `DeadlineWhileAwake` and `OneContextActs` except a context with a timer
outside the registry (`strayed`).  `WindowHonest` has a term for samples stored in
another order than the relay rendered them in: overlapping scrapes do that, and
then an increase is counted again (`CountedAgain`, zero when no two were swapped).
`RetentionKept` has one for prunes that throw: `pruneAccum` is zeroed before the
`try` (`dashboard/collector.js:46-47`), so a failed prune is not tried again for
an hour.  `PagesAreDebounced`,
`CooldownHeld` and `FailureIsTold` say nothing after a tick that mailed and was
lost before its write (`lost`): then the state is older than the mail.


## 8. Abstractions, and what is not modelled

* Payloads, names, signatures and tags: a proof, a ticket, an assertion is
  accepted or not, a frame is within limits or not.  The models take either
  outcome wherever the code can.
* Wall-clock time is a count of units chosen per module (15 s in Housekeeping,
  1 s in ShardHost, one interval in Monitor and Dashboard, any unit in
  RoomLimits).  A due timer fires
  before time moves on, except that the tickers of ShardHost may be late.
* Clock jumps, the 2^31 ms hops of a long timer, and a room established before
  `lastActivity` existed.
* Housekeeping: the alarm that `get` or `rehydrate` fires for a past-due row is
  taken not to throw; `closeRoom` leaves the eviction of the
  context to the close events that follow, where `Leave` does both; the quota row that frames write is RoomLimits'.
* *Not modelled:* App Attest and CBOR parsing (pure functions of bytes), metrics
  rendering and push (no state), the dashboard's page and login, configuration
  and process entry, operator scripts and probes, SQLite itself.
* The limiters of the host entry (`makeLimiter`): a fixed window per key whose
  state meets nothing else; in `HostEntry` a request they refuse changes nothing.
  The same kind of window is modelled for a room's frames (`FramesPaced`).
* *Not modelled yet:* the monitor's traffic baseline, pull mode and ingest
  endpoint; several hosts together.


## 9. Plan

In order of what a failure would cost.

1. `Fleet`: several `ShardHost`s under one sequence of maps, with an abstract
   specification "each room has one place at a time, and moves"; what the loss of
   the adopted version in a restart costs.  `OneOwnerPerBucket` is the case in
   which all hosts hold one map.
2. `MonitorBaseline`: deltas, the hourly roll after a gap, the anomaly history.

Done: `Room` and its refinement of `Pairing`, `RoomLimits`, `Housekeeping`,
`Credentials`, `ShardMap` and `MapCheck`, `ShardHost`, `HostEntry`, `Monitor`, `Dashboard`, the
proofs of section 5.
