----------------------------- MODULE RoomLimits -----------------------------
(***************************************************************************)
(* What one room lets through of the frames of its admitted sockets        *)
(* (src/room.js): the frame-rate window and the daily byte quota, which is *)
(* kept in memory, loaded lazily, and flushed to storage in steps.         *)
(*                                                                         *)
(* Grain of atomicity.  A frame is one step: the awaits on its path are    *)
(* all of storage, which yields microtasks only, and frames of different   *)
(* sockets are different macrotasks (host/storage.js).                     *)
(*                                                                         *)
(* Abstracted: the sockets (a frame's sender was admitted, is perhaps      *)
(* closed by now, and has a peer or not; whom a refusal closes is in       *)
(* Room), which alarm keeps a room resident (Housekeeping), and the units: *)
(* a tick stands for any length of time, a byte for any amount.  The clock *)
(* does not go back.                                                       *)
(***************************************************************************)
EXTENDS RunningSums

CONSTANTS
    Sizes,                            \* of frames within MAX_FRAME_BYTES
    QUOTA_WINDOW, QUOTA_FLUSH, QUOTA, \* ticks; bytes; RELAY_DAILY_BYTE_QUOTA
    FRAME_WINDOW, MAX_FRAMES,
    MaxTime, MaxReloads, MaxFailures, \* bounds
    MaxOver,                          \* bound on what is tried past a limit
    Nothing                           \* null, undefined

ASSUME RoomLimitsAssumption ==
    /\ Sizes \subseteq Nat
    /\ QUOTA_WINDOW \in Nat \ {0} /\ QUOTA_FLUSH \in Nat \ {0} /\ QUOTA \in Nat
    /\ FRAME_WINDOW \in Nat /\ FRAME_WINDOW < QUOTA_WINDOW
    /\ MAX_FRAMES \in Nat \ {0}
    /\ MaxTime \in Nat
    /\ Nothing \notin [dayStart : Nat, bytes : Nat]

VARIABLES
    now,
    frameWindow,   \* memory of the context
    quota,         \*   Nothing until a frame loads it
    quotaFlushed,  \*   quotaFlushedBytes
    stored,        \* the row "quota"
    log,           \* history, per age in ticks: what happened that long ago
    barred         \* history: the dayStart of the window last refused in

memory == <<frameWindow, quota, quotaFlushed>>
vars == <<now, memory, stored, log, barred>>

Quota == [dayStart : 0..MaxTime, bytes : Nat]
Quiet == [relayed |-> 0, passed |-> 0, unflushed |-> 0, reloads |-> 0]

TypeOK ==
    /\ now \in 0..MaxTime
    /\ frameWindow \in [start : Int, count : Nat]
    /\ quota \in Quota \cup {Nothing}
    /\ quotaFlushed \in Nat /\ (quota # Nothing => quotaFlushed <= quota.bytes)
    /\ stored \in Quota \cup {Nothing}
    /\ log \in [0..QUOTA_WINDOW - 1 -> [relayed : Nat, passed : Nat, unflushed : Nat, reloads : Nat]]
    /\ barred \in 0..MaxTime \cup {Nothing}

\* The constructor's window began in 1970.
Fresh ==
    /\ frameWindow' = [start |-> -(FRAME_WINDOW + 1), count |-> 0]
    /\ quota' = Nothing
    /\ quotaFlushed' = 0

Init ==
    /\ now = 0
    /\ frameWindow = [start |-> -(FRAME_WINDOW + 1), count |-> 0]
    /\ quota = Nothing
    /\ quotaFlushed = 0
    /\ stored = Nothing
    /\ log = [a \in 0..QUOTA_WINDOW - 1 |-> Quiet]
    /\ barred = Nothing

\* Of the ages up to a: what happened in the last a + 1 ticks.
Recent(what) == Sums([a \in DOMAIN log |-> log[a][what]])
Past(what) == Recent(what)[QUOTA_WINDOW - 1]

-----------------------------------------------------------------------------
(* One frame: rateLimited, then overQuota, then forward.                   *)

\* Variant: the window ends a tick early.
RateWindowShort ==
    IF now - frameWindow.start >= FRAME_WINDOW
      THEN [start |-> now, count |-> 1]
      ELSE [frameWindow EXCEPT !.count = @ + 1]

RateWindow ==
    IF now - frameWindow.start > FRAME_WINDOW
      THEN [start |-> now, count |-> 1]
      ELSE [frameWindow EXCEPT !.count = @ + 1]

RateLimited == RateWindow.count > MAX_FRAMES

Loaded ==
    IF quota # Nothing THEN quota
    ELSE IF stored # Nothing THEN stored
    ELSE [dayStart |-> now, bytes |-> 0]

Rolls == now - Loaded.dayStart >= QUOTA_WINDOW

\* The quota the frame is counted in, what storage has of it, and the row.
Base == IF Rolls THEN [dayStart |-> now, bytes |-> 0] ELSE Loaded

\* Variant: a new window keeps the old one's mark.
BaseFlushedKept == IF quota = Nothing THEN Loaded.bytes ELSE quotaFlushed

BaseFlushed ==
    IF Rolls THEN 0 ELSE IF quota = Nothing THEN Loaded.bytes ELSE quotaFlushed

BaseStored == IF Rolls THEN Base ELSE stored

Charged(size) == [Base EXCEPT !.bytes = @ + size]

OverQuota(size) == Charged(size).bytes > QUOTA

FlushDue(size) ==
    ~OverQuota(size) /\ Charged(size).bytes - BaseFlushed >= QUOTA_FLUSH

Passes(size) ==
    /\ ~RateLimited
    /\ Charged(size).bytes <= QUOTA + MaxOver
    /\ frameWindow' = RateWindow

\* Too many frames: sender and peer are closed.
FrameRateLimited ==
    /\ RateLimited
    /\ RateWindow.count <= MAX_FRAMES + MaxOver
    /\ frameWindow' = RateWindow
    /\ UNCHANGED <<now, quota, quotaFlushed, stored, log, barred>>

\* Variant: the refusal is not written.
FrameRefusedInMemory(size) ==
    /\ Passes(size)
    /\ OverQuota(size)
    /\ quota' = Charged(size)
    /\ quotaFlushed' = BaseFlushed
    /\ stored' = BaseStored
    /\ log' = [log EXCEPT ![0].passed = @ + 1]
    /\ barred' = Base.dayStart
    /\ UNCHANGED now

\* Over the quota: the row is written and every socket closed.
FrameRefused(size) ==
    /\ Passes(size)
    /\ OverQuota(size)
    /\ quota' = Charged(size)
    /\ quotaFlushed' = BaseFlushed
    /\ stored' = Charged(size)
    /\ log' = [log EXCEPT ![0].passed = @ + 1]
    /\ barred' = Base.dayStart
    /\ UNCHANGED now

\* Variant: the count is never flushed.
FrameRelayedUnflushed(size, reached) ==
    /\ Passes(size)
    /\ ~OverQuota(size)
    /\ quota' = Charged(size)
    /\ quotaFlushed' = BaseFlushed
    /\ stored' = BaseStored
    /\ log' = [log EXCEPT ![0].passed = @ + 1,
                          ![0].relayed = @ + reached]
    /\ UNCHANGED <<now, barred>>

\* Within it: counted, flushed if due, and handed to the peer if there is one:
\* reached bytes.
FrameRelayed(size, reached) ==
    /\ Passes(size)
    /\ ~OverQuota(size)
    /\ quota' = Charged(size)
    /\ quotaFlushed' = IF FlushDue(size) THEN Charged(size).bytes ELSE BaseFlushed
    /\ stored' = IF FlushDue(size) THEN Charged(size) ELSE BaseStored
    /\ log' = [log EXCEPT ![0].passed = @ + 1,
                          ![0].relayed = @ + reached]
    /\ UNCHANGED <<now, barred>>

\* A storage call on the way throws: what precedes it stands, the frame is not
\* relayed.  quotaFlushedBytes is set before the flush is written.
FrameFails(size) ==
    /\ Passes(size)
    /\ \/ /\ quota = Nothing
          /\ log' = [log EXCEPT ![0].passed = @ + 1]
          /\ UNCHANGED <<quota, quotaFlushed, stored>>
       \/ /\ Rolls
          /\ quota' = Base /\ quotaFlushed' = 0
          /\ log' = [log EXCEPT ![0].passed = @ + 1]
          /\ UNCHANGED stored
       \/ /\ OverQuota(size)
          /\ quota' = Charged(size) /\ quotaFlushed' = BaseFlushed
          /\ stored' = BaseStored
          /\ log' = [log EXCEPT ![0].passed = @ + 1]
       \/ /\ FlushDue(size)
          /\ Past("unflushed") < MaxFailures
          /\ quota' = Charged(size) /\ quotaFlushed' = Charged(size).bytes
          /\ stored' = BaseStored
          /\ log' = [log EXCEPT ![0].passed = @ + 1, ![0].unflushed = @ + 1]
    /\ UNCHANGED <<now, barred>>

-----------------------------------------------------------------------------

\* The context leaves memory: evicted when idle, or with its process.
Reload ==
    /\ frameWindow.count > 0
    /\ Past("reloads") < MaxReloads
    /\ Fresh
    /\ log' = [log EXCEPT ![0].reloads = @ + 1]
    /\ UNCHANGED <<now, stored, barred>>

\* teardownRoom: the rows are deleted; the memory is not reset, and a frame still
\* under way may write its row again.  What was relayed was relayed for another pairing.
Wipe ==
    /\ stored # Nothing
    /\ stored' = Nothing
    /\ log' = [a \in DOMAIN log |-> [log[a] EXCEPT !.relayed = 0]]
    /\ barred' = Nothing
    /\ UNCHANGED <<now, memory>>

Tick ==
    /\ now < MaxTime
    /\ now' = now + 1
    /\ log' = [a \in DOMAIN log |-> IF a = 0 THEN Quiet ELSE log[a - 1]]
    /\ UNCHANGED <<memory, stored, barred>>

Next ==
    \/ FrameRateLimited
    \/ \E size \in Sizes :
          \/ FrameRefused(size) \/ FrameFails(size)
          \/ \E reached \in {0, size} : FrameRelayed(size, reached)
    \/ Reload \/ Wipe \/ Tick

Spec == Init /\ [][Next]_vars

-----------------------------------------------------------------------------
(* Properties.                                                             *)

\* The bytes relayed in any stretch of a window's length stay within twice the
\* quota (the windows are fixed, overQuota), and within a flush step more for
\* each time the context left memory or a write failed in that stretch: what was
\* counted since the last flush is all that can be forgotten.
RollingQuota ==
    Past("relayed") <= 2 * QUOTA + (Past("reloads") + Past("unflushed")) * (QUOTA_FLUSH - 1)

\* A room closed for its quota relays nothing more until that window is over,
\* however often it is reconnected, evicted or restarted; only the deletion of
\* the room ends the bar.
BarredStaysBarred ==
    [][(barred # Nothing /\ now' = now /\ log'[0].relayed > log[0].relayed)
         => now - barred >= QUOTA_WINDOW]_vars

\* The frames let past the rate limiter in any stretch of its window's length:
\* less than twice the limit (a window begins with a frame, rateLimited), and the
\* limit more for each time the context left memory.
FramesPaced ==
    Recent("passed")[FRAME_WINDOW] < (2 + Recent("reloads")[FRAME_WINDOW]) * MAX_FRAMES
=============================================================================
