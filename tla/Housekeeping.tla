---------------------------- MODULE Housekeeping ----------------------------
(***************************************************************************)
(* The lifetime of one room on one host: the registry of live contexts and *)
(* their pins (host/runtime.js), the room's single persisted alarm and the *)
(* timers that serve it (host/runtime.js, host/storage.js), and the        *)
(* housekeeping that runs on it (src/room.js: alarm, ensureAlarm, the cap  *)
(* and the deadline on pre-auth sockets, ephemeral records, the idle TTL). *)
(*                                                                         *)
(* Time is kept as ages and countdowns, saturated just above the last      *)
(* value the code tells apart; Tick is one unit, 15 s in the code's terms. *)
(* A due timer fires before time goes on, and a handler in flight waits    *)
(* for a digest or a signature only, which takes no time at that scale.    *)
(*                                                                         *)
(* A context is an object: one that has left the registry while something  *)
(* still runs on it keeps its own timer.  alarm() awaits storage only, so  *)
(* it is one step; the step includes what runs between its microtasks: the *)
(* socket accepted after get() returned, and rehydrate's maybeEvict.       *)
(*                                                                         *)
(* A pre-auth socket that is closed leaves ctx._sockets at once, but until *)
(* its transport has ended and its chain has drained its frames are still  *)
(* dispatched, to the context it was accepted by: it is "severed".  Those  *)
(* of an admitted socket change nothing that is kept here.                 *)
(*                                                                         *)
(* Abstracted: the slots and the frame path (Room), the contents of the    *)
(* ephemeral records (the newest token stands for all tokens, the newest   *)
(* ticket or challenge for all of those), the 2^31 ms hops of a long timer,*)
(* the count of pairing cycles.                                            *)
(***************************************************************************)
EXTENDS Integers, FiniteSets, FiniteSetsExt

CONSTANTS
    Sockets,
    Contexts,
    NoContext,
    MAX_PREAUTH_SOCKETS,
    PREAUTH_DEADLINE,
    HOUSEKEEPING_INTERVAL,
    ALARM_RETRY,
    EPHEMERAL_TTL,         \* of a ticket, registration token or challenge
    IDLE_TTL,              \* of an established room
    MayCrash               \* does the process crash and boot again?

ASSUME HousekeepingAssumption ==
    /\ IsFiniteSet(Sockets) /\ NoContext \notin Contexts
    /\ MAX_PREAUTH_SOCKETS \in Nat
    /\ {PREAUTH_DEADLINE, HOUSEKEEPING_INTERVAL, ALARM_RETRY,
        EPHEMERAL_TTL, IDLE_TTL} \subseteq Nat \ {0}
    /\ HOUSEKEEPING_INTERVAL <= ALARM_RETRY
    /\ HOUSEKEEPING_INTERVAL <= IDLE_TTL
    /\ MayCrash \in BOOLEAN

VARIABLES
    up,         \* the process is running
    registry,   \* runtime.rooms: the live context, or NoContext
    timer,      \* per context: time left until _alarmAt, None when null
    sock,       \* per socket: preauth or admitted (in ctx._sockets), severed
                \*   (closed before it was admitted, not yet gone) or none
    home,       \* the context that accepted the socket
    age,        \* time since connectedAt, of a pre-auth socket
    upgrading,  \* sockets whose handleUpgrade awaits roomTag (a pin on home)
    verifying,  \* sockets whose frame awaits verifyJoin (a pin on home)
    ops,        \* HTTP handlers in flight: <<context, kind>> (a pin)
    row,        \* alarms table: time left, 0 when due or past, None when absent
    verifier,   \* kv: "none" or "set"
    idle,       \* kv: time since lastActivity, None when absent
    token,      \* kv: age of the newest registration token, None when absent
    eph,        \* kv: age of the newest ticket or challenge, None when absent
    leftover,   \* kv: "set" once rows exist that no sweep visits
                \*   (pairingCycles, quota)
    torn,       \* history: "yes" from a registration cut short in a room with
                \*   no alarm row until the row is written again
    strayed     \* history: a context outside the registry has set the alarm:
                \*   the one a boot dropped with its past-due alarm, or the
                \*   home of a severed socket whose proof came late

kv == <<verifier, idle, token, eph, leftover>>
conns == <<sock, home, age>>
pins == <<upgrading, verifying, ops>>
vars == <<up, registry, timer, conns, pins, row, torn, kv, strayed>>

None == -1
Kinds == {"attest", "register", "delete"}
Outcomes == {"mac", "phone", "refused"}
Overdue == PREAUTH_DEADLINE + ALARM_RETRY
MaxAge == Overdue + 1

TypeOK ==
    /\ up \in {"up", "down"}
    /\ registry \in Contexts \cup {NoContext}
    /\ timer \in [Contexts -> {None} \cup 0..(IDLE_TTL + ALARM_RETRY)]
    /\ sock \in [Sockets -> {"none", "preauth", "admitted", "severed"}]
    /\ home \in [Sockets -> Contexts]
    /\ age \in [Sockets -> 0..MaxAge]
    /\ upgrading \subseteq Sockets
    /\ verifying \subseteq Sockets
    /\ ops \subseteq Contexts \X Kinds
    /\ row \in {None} \cup 0..IDLE_TTL
    /\ verifier \in {"none", "set"}
    /\ idle \in {None} \cup 0..IDLE_TTL
    /\ token \in {None} \cup 0..(EPHEMERAL_TTL + 1)
    /\ eph \in {None} \cup 0..(EPHEMERAL_TTL + 1)
    /\ leftover \in {"none", "set"}
    /\ torn \in {"no", "yes"}
    /\ strayed \in BOOLEAN

Init ==
    /\ up = "up"
    /\ registry = NoContext
    /\ timer = [c \in Contexts |-> None]
    /\ sock = [s \in Sockets |-> "none"]
    /\ \E c \in Contexts : home = [s \in Sockets |-> c]
    /\ age = [s \in Sockets |-> 0]
    /\ upgrading = {} /\ verifying = {} /\ ops = {}
    /\ row = None
    /\ verifier = "none" /\ idle = None /\ leftover = "none"
    /\ token = None /\ eph = None
    /\ torn = "no"
    /\ strayed = FALSE

-----------------------------------------------------------------------------
(* Contexts: pins and eviction.                                            *)

\* ctx.getWebSockets().
SocketsOf(c) == {s \in Sockets : sock[s] \in {"preauth", "admitted"} /\ home[s] = c}
PreAuth(c) == {s \in SocketsOf(c) : sock[s] = "preauth"}

\* Variant: an HTTP request does not pin its context.
PinnedBySockets(c) == \E s \in upgrading \cup verifying : home[s] = c

Pinned(c) ==
    \/ \E s \in upgrading \cup verifying : home[s] = c
    \/ \E k \in Kinds : <<c, k>> \in ops

Idle(c) == SocketsOf(c) = {} /\ timer[c] = None /\ ~Pinned(c)

\* maybeEvict(c), after the rest of the step.
MaybeEvict(c) ==
    registry' = IF registry = c /\ Idle(c)' THEN NoContext ELSE registry

\* Nothing refers to the context object any more: its identity can be reused.
Unused(c) ==
    /\ registry # c /\ Idle(c)
    /\ \A s \in Sockets : sock[s] = "severed" => home[s] # c

-----------------------------------------------------------------------------
(* The alarm.                                                              *)

\* setAlarm through context c: the row, and c's timer.
SetAlarm(c, left) ==
    /\ row' = left
    /\ timer' = [timer EXCEPT ![c] = left]
    /\ torn' = "no"

EnsureAlarm(c) ==
    IF row = None \/ row > HOUSEKEEPING_INTERVAL
    THEN SetAlarm(c, HOUSEKEEPING_INTERVAL)
    ELSE UNCHANGED <<row, timer, torn>>

\* What a close leaves of a socket, here and after a late admission.
Ended(state) == IF state \in {"preauth", "severed"} THEN "severed" ELSE "none"

\* Sockets closed: out of ctx._sockets at once.
Close(T) ==
    /\ sock' = [s \in Sockets |-> IF s \in T THEN Ended(sock[s]) ELSE sock[s]]
    /\ age' = [s \in Sockets |-> IF s \in T THEN 0 ELSE age[s]]

\* Variant: the verifier survives.
WipeKeepsVerifier(c) ==
    /\ idle' = None /\ leftover' = "none"
    /\ token' = None /\ eph' = None
    /\ SetAlarm(c, None)
    /\ UNCHANGED verifier

\* deleteAll.
WipeKv ==
    /\ verifier' = "none" /\ idle' = None /\ leftover' = "none"
    /\ token' = None /\ eph' = None

\* teardownRoom run by context c wipes every row and the alarm.
WipeRows(c) == WipeKv /\ SetAlarm(c, None)

PastTTL == verifier = "set" /\ idle >= IDLE_TTL

Live(rec) == rec # None /\ rec <= EPHEMERAL_TTL

\* pruneExpired: what it leaves of an ephemeral record.
PruneExpired(rec) == IF Live(rec) THEN rec ELSE None

\* alarm() starts the idle window of an established room that has none.
LastActivity == IF verifier = "set" /\ idle = None THEN 0 ELSE idle

\* Variant: the idle deadline is computed with the wrong sign.
NextAlarmWrongSign(pending) ==
    (IF pending # {} \/ Live(token) \/ Live(eph) THEN {HOUSEKEEPING_INTERVAL} ELSE {})
        \cup (IF verifier = "set" THEN {IDLE_TTL + LastActivity} ELSE {})

\* Variant: remaining pre-auth sockets are not counted as work.
NextAlarmIgnoresSockets(pending) ==
    (IF Live(token) \/ Live(eph) THEN {HOUSEKEEPING_INTERVAL} ELSE {})
        \cup (IF verifier = "set" THEN {IDLE_TTL - LastActivity} ELSE {})

\* When alarm() asks to be run again: soon while pre-auth sockets or ephemeral
\* records remain, and at the idle deadline of an established room.
NextAlarm(pending) ==
    (IF pending # {} \/ Live(token) \/ Live(eph) THEN {HOUSEKEEPING_INTERVAL} ELSE {})
        \cup (IF verifier = "set" THEN {IDLE_TTL - LastActivity} ELSE {})

Overstayed(c) == {s \in PreAuth(c) : age[s] > PREAUTH_DEADLINE}

\* The sockets alarm() closes.
AlarmCloses(c) == IF PastTTL THEN SocketsOf(c) ELSE Overstayed(c)

\* alarm() run by context c, its timer spent: the rows and the next alarm.
AlarmRows(c) ==
    LET wanted == NextAlarm(PreAuth(c) \ Overstayed(c)) IN
    IF PastTTL THEN WipeRows(c)
    ELSE /\ token' = PruneExpired(token)
         /\ eph' = PruneExpired(eph)
         /\ IF wanted # {}
            THEN SetAlarm(c, Min(wanted))
            ELSE timer' = [timer EXCEPT ![c] = None] /\ UNCHANGED <<row, torn>>
         /\ idle' = LastActivity
         /\ UNCHANGED <<verifier, leftover>>

\* _fire of an armed timer.
Fire(c) ==
    /\ up = "up"
    /\ timer[c] = 0
    /\ Close(AlarmCloses(c))
    /\ AlarmRows(c)
    /\ UNCHANGED <<up, strayed, home, pins>>
    /\ MaybeEvict(c)

\* What alarm() has done when it throws from storage: overstayed sockets are
\* closed and some records pruned; of a room past its TTL all sockets may be
\* closed and the rows gone, the alarm row excepted.
AlarmInPart(c) ==
    \/ /\ Close(Overstayed(c)) \/ (PastTTL /\ Close(SocketsOf(c)))
       /\ token' \in {token, PruneExpired(token)}
       /\ eph' \in {eph, PruneExpired(eph)}
       /\ idle' \in {idle, LastActivity}
       /\ UNCHANGED <<verifier, leftover>>
    \/ PastTTL /\ Close(SocketsOf(c)) /\ WipeKv

\* Variant: no retry is armed.
FireThrowsNoRetry(c) ==
    /\ up = "up"
    /\ timer[c] = 0
    /\ AlarmInPart(c)
    /\ timer' = [timer EXCEPT ![c] = None]
    /\ UNCHANGED <<up, strayed, registry, home, pins, row, torn>>

\* _fire when alarm() throws: a retry is armed that no row records.
FireThrows(c) ==
    /\ up = "up"
    /\ timer[c] = 0
    /\ AlarmInPart(c)
    /\ timer' = [timer EXCEPT ![c] = ALARM_RETRY]
    /\ UNCHANGED <<up, strayed, registry, home, pins, row, torn>>

-----------------------------------------------------------------------------
(* Entering a room.                                                        *)

\* runtime.get: the live context, or a new one whose init arms the persisted
\* alarm, or fires it at once when it is past due.
Get(c) ==
    /\ up = "up"
    /\ registry = c \/ (registry = NoContext /\ Unused(c))
    /\ registry' = c
    /\ IF registry = NoContext /\ row = 0
       THEN AlarmRows(c)
       ELSE /\ timer' = IF registry = NoContext
                        THEN [timer EXCEPT ![c] = row] ELSE timer
            /\ UNCHANGED <<row, torn, kv>>

\* The host's upgrade: get, pin, acceptWebSocket.  A past-due alarm fired by
\* init() looked for sockets before this one was accepted, and if it reaps the
\* room it does so after.
HandleUpgrade(c, s) ==
    /\ sock[s] = "none" /\ s \notin upgrading \cup verifying
    /\ Get(c)
    /\ home' = [home EXCEPT ![s] = c]
    /\ age' = [age EXCEPT ![s] = 0]
    /\ sock' = [sock EXCEPT ![s] =
                   IF registry = NoContext /\ row = 0 /\ PastTTL THEN "severed" ELSE "preauth"]
    /\ upgrading' = upgrading \cup {s}
    /\ UNCHANGED <<up, strayed, verifying, ops>>

\* Variant: the cap is off by one.
ExcessOffByOne(c) ==
    {T \in SUBSET PreAuth(c) :
        /\ Cardinality(PreAuth(c) \ T) <= MAX_PREAUTH_SOCKETS + 1
        /\ T # {} => Cardinality(PreAuth(c) \ T) = MAX_PREAUTH_SOCKETS + 1
        /\ \A t \in T, k \in PreAuth(c) \ T : age[t] >= age[k]}

\* evictExcessPreAuth: which sets of oldest pre-auth sockets may be dropped.
ExcessPreAuth(c) ==
    {T \in SUBSET PreAuth(c) :
        /\ Cardinality(PreAuth(c) \ T) <= MAX_PREAUTH_SOCKETS
        /\ T # {} => Cardinality(PreAuth(c) \ T) = MAX_PREAUTH_SOCKETS
        /\ \A t \in T, k \in PreAuth(c) \ T : age[t] >= age[k]}

\* roomTag is back: the cap on pre-auth sockets, ensureAlarm, unpin.
UpgradeTagged(s) ==
    /\ s \in upgrading
    /\ upgrading' = upgrading \ {s}
    /\ \E T \in ExcessPreAuth(home[s]) : Close(T)
    /\ EnsureAlarm(home[s])
    /\ UNCHANGED <<up, strayed, home, verifying, ops, kv>>
    /\ MaybeEvict(home[s])

\* A socket goes: 'close' event, refusal, displacement.
Leave(s) ==
    /\ sock[s] \in {"preauth", "admitted"}
    /\ Close({s})
    /\ UNCHANGED <<up, strayed, timer, home, pins, row, torn, kv>>
    /\ MaybeEvict(home[s])

\* The transport of a severed socket has ended and its chain is empty.
TransportEnds(s) ==
    /\ sock[s] = "severed" /\ s \notin upgrading \cup verifying
    /\ sock' = [sock EXCEPT ![s] = "none"]
    /\ UNCHANGED <<up, strayed, timer, home, age, pins, row, torn, kv>>
    /\ MaybeEvict(home[s])

-----------------------------------------------------------------------------
(* Admission, as far as storage and the alarm are concerned.  A frame runs *)
(* on the context that accepted its socket, be it evicted or not.          *)

\* A proof of s can be dispatched now.
ProofComes(s) == sock[s] \in {"preauth", "severed"} /\ s \notin verifying

\* A phone joins only while another socket of its context is admitted as mac.
MacParked(s) == \E t \in SocketsOf(home[s]) \ {s} : sock[t] = "admitted"

\* pairingCycles, written in pairing mode.
Charged == IF verifier = "none" THEN "set" ELSE leftover

\* admit, but for ensureAlarm and the cycle cap: a phone gets a registration
\* token; a socket that is refused (no mac, slot occupied) may have reset the
\* cycle count before.
Admit(s, outcome) ==
    \/ /\ outcome \in {"mac", "phone"}
       /\ outcome = "phone" => MacParked(s)
       /\ sock' = [sock EXCEPT ![s] = IF @ = "preauth" THEN "admitted" ELSE "none"]
       /\ token' = IF outcome = "phone" THEN 0 ELSE token
       /\ leftover' = Charged
       /\ UNCHANGED age
    \/ /\ outcome = "refused"
       /\ Close({s})
       /\ leftover' \in {leftover, Charged}
       /\ UNCHANGED token

\* handleProof in pairing mode; a phone makes sure its token will be pruned.
AdmitPairing(s, outcome) ==
    /\ ProofComes(s)
    /\ verifier = "none"
    /\ Admit(s, outcome)
    /\ IF outcome = "phone" THEN EnsureAlarm(home[s]) ELSE UNCHANGED <<row, torn, timer>>
    /\ UNCHANGED <<up, strayed, home, pins, verifier, idle, eph>>
    /\ MaybeEvict(home[s])

\* A signed proof, up to verifyJoin.
SignedProof(s) ==
    /\ ProofComes(s)
    /\ verifier = "set"
    /\ verifying' = verifying \cup {s}
    /\ UNCHANGED <<up, strayed, registry, timer, conns, upgrading, ops, row, torn, kv>>

\* verifyJoin succeeded: bumpActivity and admit, on whatever the room is now.
SignedProofVerified(s, outcome) ==
    /\ s \in verifying
    /\ verifying' = verifying \ {s}
    /\ idle' = 0
    /\ EnsureAlarm(home[s])
    /\ Admit(s, outcome)
    /\ strayed' = IF home[s] # registry /\ timer'[home[s]] # None THEN TRUE ELSE strayed
    /\ UNCHANGED <<up, home, upgrading, ops, verifier, eph>>
    /\ MaybeEvict(home[s])

\* verifyJoin failed.
SignedProofRejected(s) ==
    /\ s \in verifying
    /\ verifying' = verifying \ {s}
    /\ Close({s})
    /\ UNCHANGED <<up, strayed, timer, home, upgrading, ops, row, torn, kv>>
    /\ MaybeEvict(home[s])

\* admit of a phone beyond the cycle cap, in pairing mode: teardownRoom.
CycleCapKills(s) ==
    /\ ProofComes(s) \/ s \in verifying
    /\ verifier = "none" /\ MacParked(s)
    /\ verifying' = verifying \ {s}
    /\ Close(SocketsOf(home[s]))
    /\ WipeRows(home[s])
    /\ UNCHANGED <<up, strayed, home, upgrading, ops>>
    /\ MaybeEvict(home[s])

-----------------------------------------------------------------------------
(* HTTP requests: the host's get and pin with the handler's checks, then   *)
(* what the handler writes, and the unpin.                                 *)

BeginHttp(c, kind) ==
    /\ <<c, kind>> \notin ops
    /\ Get(c)
    /\ kind = "register" => verifier' = "none" /\ Live(token')
    /\ kind = "delete" => verifier' = "set" /\ Live(eph')
    /\ ops' = ops \cup {<<c, kind>>}
    /\ UNCHANGED <<up, strayed, conns, upgrading, verifying>>

\* A refused request writes nothing.
HttpRefused(c, kind) ==
    /\ <<c, kind>> \in ops
    /\ ops' = ops \ {<<c, kind>>}
    /\ UNCHANGED <<up, strayed, timer, conns, upgrading, verifying, row, torn, kv>>
    /\ MaybeEvict(c)

\* handleAttestChallenge, handleAttest: a new ephemeral record.
AttestCommit(c) ==
    /\ <<c, "attest">> \in ops
    /\ ops' = ops \ {<<c, "attest">>}
    /\ eph' = 0
    /\ EnsureAlarm(c)
    /\ UNCHANGED <<up, strayed, conns, upgrading, verifying, verifier, idle, token, leftover>>
    /\ MaybeEvict(c)

\* handleRegister: the token is consumed, the verifier written, bumpActivity.
RegisterCommit(c) ==
    /\ <<c, "register">> \in ops
    /\ ops' = ops \ {<<c, "register">>}
    /\ verifier' = "set"
    /\ idle' = 0
    /\ token' = None
    /\ EnsureAlarm(c)
    /\ UNCHANGED <<up, strayed, conns, upgrading, verifying, eph, leftover>>
    /\ MaybeEvict(c)

\* handleRegister cut short between its writes, each of which commits alone:
\* the token is gone, then the verifier is there, then lastActivity, but the
\* alarm is not set.  Storage threw; a crash in the same place is this step
\* and then Crash.
RegisterTorn(c, writes) ==
    /\ <<c, "register">> \in ops
    /\ ops' = ops \ {<<c, "register">>}
    /\ token' = None
    /\ verifier' = IF writes >= 2 THEN "set" ELSE verifier
    /\ idle' = IF writes >= 3 THEN 0 ELSE idle
    /\ torn' = IF writes >= 2 /\ row = None THEN "yes" ELSE torn
    /\ UNCHANGED <<up, strayed, timer, conns, upgrading, verifying, row, eph, leftover>>
    /\ MaybeEvict(c)

\* handleDelete.
DeleteCommit(c) ==
    /\ <<c, "delete">> \in ops
    /\ ops' = ops \ {<<c, "delete">>}
    /\ Close(SocketsOf(c))
    /\ WipeRows(c)
    /\ UNCHANGED <<up, strayed, home, upgrading, verifying>>
    /\ MaybeEvict(c)

-----------------------------------------------------------------------------
(* The process, and time.                                                  *)

Crash ==
    /\ MayCrash
    /\ up = "up"
    /\ up' = "down"
    /\ registry' = NoContext
    /\ timer' = [c \in Contexts |-> None]
    /\ sock' = [s \in Sockets |-> "none"]
    /\ age' = [s \in Sockets |-> 0]
    /\ upgrading' = {} /\ verifying' = {} /\ ops' = {}
    /\ strayed' = FALSE
    /\ UNCHANGED <<home, row, torn, kv>>

\* rehydrate: a pending alarm keeps its context resident.  A past-due one
\* fires, and maybeEvict drops the context before alarm() has finished.
Rehydrate(c) ==
    /\ up = "down"
    /\ up' = "up"
    /\ strayed' = (row = 0)
    /\ IF row = 0
       THEN AlarmRows(c) /\ UNCHANGED registry
       ELSE /\ registry' = IF row = None THEN NoContext ELSE c
            /\ timer' = [timer EXCEPT ![c] = row]
            /\ UNCHANGED <<row, torn, kv>>
    /\ UNCHANGED <<conns, pins>>

Older(x, limit) == IF x = None \/ x = limit THEN x ELSE x + 1
Nearer(x) == IF x \in {None, 0} THEN x ELSE x - 1

Tick ==
    /\ \A c \in Contexts : timer[c] # 0
    /\ upgrading = {} /\ verifying = {} /\ ops = {}
    /\ timer' = [c \in Contexts |-> Nearer(timer[c])]
    /\ row' = Nearer(row)
    /\ age' = [s \in Sockets |-> IF sock[s] = "preauth" THEN Older(age[s], MaxAge) ELSE 0]
    /\ idle' = Older(idle, IDLE_TTL)
    /\ token' = Older(token, EPHEMERAL_TTL + 1)
    /\ eph' = Older(eph, EPHEMERAL_TTL + 1)
    /\ UNCHANGED <<up, strayed, registry, sock, home, pins, torn, verifier, leftover>>

Next ==
    \/ \E c \in Contexts :
          \/ Fire(c) \/ FireThrows(c)
          \/ \E s \in Sockets : HandleUpgrade(c, s)
          \/ \E kind \in Kinds : BeginHttp(c, kind) \/ HttpRefused(c, kind)
          \/ AttestCommit(c) \/ RegisterCommit(c) \/ DeleteCommit(c)
          \/ \E writes \in 1..3 : RegisterTorn(c, writes)
          \/ Rehydrate(c)
    \/ \E s \in Sockets :
          \/ UpgradeTagged(s) \/ Leave(s) \/ TransportEnds(s)
          \/ \E outcome \in Outcomes :
                AdmitPairing(s, outcome) \/ SignedProofVerified(s, outcome)
          \/ SignedProof(s) \/ SignedProofRejected(s) \/ CycleCapKills(s)
    \/ Crash \/ Tick

Spec == Init /\ [][Next]_vars

-----------------------------------------------------------------------------
(* Properties.                                                             *)

\* evictExcessPreAuth bounds a loiterer flood: un-admitted sockets beyond the
\* cap are only those whose upgrade has not reached the eviction yet.
PreAuthBounded ==
    \A c \in Contexts :
        Cardinality(PreAuth(c)) <= MAX_PREAUTH_SOCKETS + Cardinality(upgrading)

\* The admission deadline (room.js, alarm): while the live context has a timer
\* armed and no stray context rewrites the row it shares, no pre-auth socket
\* outlives the deadline by more than one wake.
DeadlineWhileAwake ==
    ~strayed /\ registry # NoContext /\ timer[registry] # None
        => \A s \in PreAuth(registry) : age[s] <= Overdue

\* An established room keeps an alarm row, so that a boot finds its idle TTL
\* again (runtime.js, rehydrate), whatever handler was in flight when.  Only a
\* registration cut between the verifier and the alarm leaves it without one,
\* until the next ensureAlarm.
EstablishedPersistsAlarm == verifier = "set" => row # None \/ torn = "yes"

\* The pins prevent split brain (runtime.js, _pending): every socket, upgrade
\* and HTTP operation belongs to the context in the registry.  Outside it only
\* a late proof of a severed socket still runs (runtime.js, _dispatch), and
\* only a context that strayed has a timer.
OneContextActs ==
    \A c \in Contexts : c # registry =>
        /\ SocketsOf(c) = {}
        /\ \A s \in upgrading : home[s] # c
        /\ \A s \in verifying : home[s] = c => sock[s] = "severed"
        /\ \A k \in Kinds : <<c, k>> \notin ops
        /\ timer[c] # None => strayed

\* The idle TTL stays enforced: once some timer watches an established room it
\* always has one, through every sweep, eviction and failed alarm, and a boot
\* arms one (runtime.js, rehydrate and _fire), but for a room whose
\* registration was cut before its alarm.
Watched == \E c \in Contexts : timer[c] # None

IdleWatchKept ==
    [][verifier = "set" /\ verifier' = "set" /\ up' = "up"
             /\ (Watched \/ (up = "down" /\ torn = "no"))
          => Watched']_vars

\* ensureAlarm: "Guarantee a housekeeping wake": whenever work for the sweep
\* is pending, the live context has a timer.
HousekeepingWake ==
    up = "up" /\ registry # NoContext /\ PreAuth(registry) \ upgrading # {}
        => timer[registry] # None

-----------------------------------------------------------------------------
(* Further sentences of the comments that the code does not keep; the      *)
(* README describes the behaviours that violate them.                      *)

\* rehydrate: "established rooms carry an idle-TTL alarm, so they remain
\* resident".
EstablishedResident ==
    up = "up" /\ verifier = "set" => registry # NoContext

\* pruneExpired: a never-established room is reclaimed (storage emptied) once
\* nothing watches it any more.
DormantIsEmpty ==
    up = "up" /\ registry = NoContext /\ verifier = "none" /\ token = None /\ eph = None
        => leftover = "none"

\* DEFAULT_ESTABLISHED_IDLE_TTL_MS: the TTL never reaps a room in active use:
\* no alarm closes an admitted socket.
AlarmSparesAdmitted ==
    [][\A c \in Contexts : Fire(c) =>
          \A s \in Sockets : sock[s] = "admitted" => sock'[s] = "admitted"]_vars

\* The pins as stated, timers included: one that is armed for the room belongs
\* to the context in the registry.  A boot with a past-due row breaks it.
NoSplitBrain == \A c \in Contexts : c = registry \/ Idle(c)
=============================================================================
