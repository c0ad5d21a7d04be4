------------------------------ MODULE Monitor ------------------------------
(***************************************************************************)
(* The fleet monitor (monitor/src/core.js, monitor.js): a tick reads the    *)
(* persisted state, observes every relay host the shard map names and every*)
(* push relay, debounces what it saw, decides which alerts are due, mails  *)
(* them and writes the state back.                                         *)
(*                                                                         *)
(* A tick is asynchronous: it reads the state when the interval timer      *)
(* starts it, and mails and writes after fetches of its own.  Slots bounds *)
(* the ticks in flight: with one, a tick ends before the next interval.    *)
(* Time is counted in intervals; the age of a sent alert is saturated at   *)
(* the cooldown.                                                           *)
(*                                                                         *)
(* A check is a key <<target, name>>; what a tick sees of it is ok, skip   *)
(* (not looked at), or the severity it would be raised with.  Capacity,    *)
(* error, exception, shard-fetch and anomaly alerts of a host are one key, *)
(* "metrics"; so are the APNs and the remaining peer alerts of a push      *)
(* relay.  Which thresholds were crossed is left open.  Direct mode (one   *)
(* host, no map) and dry runs, which write nothing, are left out.          *)
(***************************************************************************)
EXTENDS Naturals, FiniteSets

CONSTANTS
    Hosts,            \* relays the shard map may name
    Pushes,           \* configured push relays
    Slots,            \* ticks that may be in flight together
    AlertFailStreak,  \* failing ticks before a vantage-sensitive check pages
    PeerOutboxStreak, \* and before a stuck peer outbox does
    Cooldown,         \* intervals between two mails about one condition
    MayLose           \* may a tick or the process fail before it has written?

ASSUME MonitorAssumption ==
    /\ AlertFailStreak \in Nat \ {0}
    /\ PeerOutboxStreak \in Nat \ {0}
    /\ Cooldown \in Nat \ {0}
    /\ MayLose \in BOOLEAN
    /\ Slots # {}
    /\ Hosts \cap Pushes = {} /\ "fleet" \notin Hosts \cup Pushes

Map == <<"fleet", "map">>
Keys ==
    {Map} \cup (Hosts \X {"liveness", "probe", "metrics"})
          \cup (Pushes \X {"liveness", "probe", "outbox", "metrics"})

Debounced(k) == k[2] # "metrics"
\* A streak is counted up to where it pages.
Limit(k) == IF k[2] = "outbox" THEN PeerOutboxStreak ELSE AlertFailStreak
Severities == {"warn", "critical"}
Never == Cooldown + 1     \* no send time is recorded

\* What a tick may see of a check.
Reached == {"ok", "skip", "critical"}               \* liveness, handshakes
Measured == {"ok", "skip", "warn", "critical"}      \* thresholds
HostOutcomes == [liveness |-> Reached, probe |-> Reached, metrics |-> Measured]
PushOutcomes ==
    [liveness |-> Reached, probe |-> Reached, metrics |-> Measured, outbox |-> {"ok", "skip", "warn"}]
Outcomes(k) ==
    CASE k = Map -> {"ok", "critical"}
      [] k[1] \in Hosts -> HostOutcomes[k[2]]
      [] k[1] \in Pushes -> PushOutcomes[k[2]]

VARIABLES
    kv,        \* the persisted state: hosts, streak, sentAt, sev
    tick,      \* per slot: the tick in flight
    starting,  \* the process has just started
    failing,   \* history: per check, ticks in a row that saw it fail
    paged,     \* history: per check, age of the last mail that went out
    told,      \* history: per check, the severity the operator knows of, "no"
               \*   once a tick did not raise it
    lost,      \* history: a tick was lost after its mails, before its write
    last       \* history: the last analysis: the checks it saw fail, the alerts
               \*   <<key, severity>> it raised and found due, and whether its
               \*   mail went out; later only what was due and did not go out

history == <<failing, paged, told, lost, last>>
vars == <<kv, tick, starting, history>>

States ==
    [hosts : SUBSET Hosts, streak : [Keys -> Nat],
     sentAt : [Keys -> 0..Never], sev : [Keys -> Severities]]
Empty ==
    [hosts |-> {}, streak |-> [k \in Keys |-> 0],
     sentAt |-> [k \in Keys |-> Never], sev |-> [k \in Keys |-> "warn"]]
Idle == [phase |-> "idle", state |-> Empty, age |-> 0]

TypeOK ==
    /\ kv \in States
    /\ tick \in [Slots -> [phase : {"idle", "read", "sent"}, state : States, age : 0..Cooldown]]
    /\ starting \in BOOLEAN
    /\ failing \in [Keys -> Nat]
    /\ paged \in [Keys -> 0..Never]
    /\ told \in [Keys -> {"no"} \cup Severities]
    /\ lost \in BOOLEAN
    /\ last \in [failed : SUBSET Keys, raised : SUBSET (Keys \X Severities),
                 due : SUBSET (Keys \X Severities), delivered : BOOLEAN]

Init ==
    /\ kv = Empty
    /\ tick = [t \in Slots |-> Idle]
    /\ starting = TRUE
    /\ failing = [k \in Keys |-> 0]
    /\ paged = [k \in Keys |-> Never]
    /\ told = [k \in Keys |-> "no"]
    /\ lost = FALSE
    /\ last = [failed |-> {}, raised |-> {}, due |-> {}, delivered |-> TRUE]

UpTo(limit, n) == IF n <= limit THEN n ELSE limit

-----------------------------------------------------------------------------
(* The start of a tick.                                                    *)

\* An interval passes for a recorded send time.
Later(age) == IF age = Never THEN Never ELSE UpTo(Cooldown, age + 1)
Aged(state) == [state EXCEPT !.sentAt = [k \in Keys |-> Later(@[k])]]

\* The timer starts a tick, which reads the state; the first runs at startup.
Begin(t) ==
    /\ tick[t].phase = "idle"
    /\ starting' = FALSE
    /\ LET now == IF starting THEN kv ELSE Aged(kv) IN
          /\ kv' = now
          /\ tick' = [u \in Slots |->
                CASE u = t -> [phase |-> "read", state |-> now, age |-> 0]
                  [] u # t /\ tick[u].phase = "idle" -> Idle
                  [] OTHER -> [phase |-> tick[u].phase, state |-> Aged(tick[u].state),
                               age |-> UpTo(Cooldown, tick[u].age + 1)]]
          /\ paged' = IF starting THEN paged ELSE [k \in Keys |-> Later(paged[k])]
    /\ UNCHANGED <<failing, told, lost, last>>

-----------------------------------------------------------------------------
(* What a tick sees.                                                       *)

Failed(o) == o \in Severities

\* The hosts a tick watches: those the map names, or the last known ones.
Watchable(state, map) == IF map = "ok" THEN SUBSET Hosts ELSE {state.hosts}
Watched(o) == {h \in Hosts : o[<<h, "liveness">>] # "skip"}

\* What a tick may see of each check.  A stale host has no metrics to look at,
\* an unreachable push relay neither metrics nor outbox; a host is probed with
\* a room the map gives it.
Observations ==
    {o \in [Keys -> {"ok", "skip"} \cup Severities] :
        /\ \A k \in Keys : o[k] \in Outcomes(k)
        /\ \A h \in Hosts :
              /\ (o[<<h, "metrics">>] = "skip") = (o[<<h, "liveness">>] # "ok")
              /\ (o[<<h, "probe">>] = "skip") = (h \notin Watched(o) \/ o[Map] # "ok")
        /\ \A p \in Pushes :
              /\ o[<<p, "liveness">>] # "skip" /\ o[<<p, "probe">>] # "skip"
              /\ (o[<<p, "metrics">>] = "skip") = (o[<<p, "liveness">>] # "ok")
              /\ (o[<<p, "outbox">>] = "skip") = (o[<<p, "liveness">>] # "ok")}

\* Pruned: what a tick drops of a host it does not watch.
Pruned(k, watched) == k[1] \in Hosts \ watched

\* Variant: a check that was not looked at starts over.
NextStreakSkipResets(k, n, seen) == IF Failed(seen) THEN UpTo(Limit(k), n + 1) ELSE 0

\* Variant: every failing tick counts, in a row or not.
NextStreakNoReset(k, n, seen) == IF Failed(seen) THEN UpTo(Limit(k), n + 1) ELSE n

\* A streak after a tick: one more failure, a success, or not looked at.
NextStreak(k, n, seen) ==
    CASE Failed(seen) -> UpTo(Limit(k), n + 1)
      [] seen = "ok" -> 0
      [] OTHER -> n

Streaks(state, o, watched) ==
    [k \in Keys |-> IF Pruned(k, watched) \/ ~Debounced(k) THEN 0
                    ELSE NextStreak(k, state.streak[k], o[k])]

\* The checks raised as alerts.
Alerts(streak, o) ==
    {k \in Keys : Failed(o[k]) /\ (Debounced(k) => streak[k] >= Limit(k))}

-----------------------------------------------------------------------------
(* Which alerts are mailed.                                                *)

Escalated(state, k, o) == state.sentAt[k] # Never /\ state.sev[k] = "warn" /\ o[k] = "critical"

\* Variant: an active alert is mailed on every tick.
DueEveryTick(state, alerts, o) == alerts

\* dueAlerts: new, escalated, or past the cooldown.
DueAlerts(state, alerts, o) ==
    {k \in alerts : Escalated(state, k, o) \/ state.sentAt[k] >= Cooldown}

\* dueAlerts: the send times and severities it returns.
SentAt(state, alerts, due, age) ==
    [k \in Keys |-> IF k \in due THEN age
                    ELSE IF k \in alerts THEN state.sentAt[k] ELSE Never]

\* Variant: whatever was seen is kept as a severity, raised or not.
SevUnfiltered(alerts, o) == [k \in Keys |-> o[k]]

Sev(alerts, o) == [k \in Keys |-> IF k \in alerts THEN o[k] ELSE "warn"]

\* Variant: the cooldown advances although nothing was delivered.
CooldownAlways(state, alerts, due, o, age, delivered) ==
    <<SentAt(state, alerts, due, age), Sev(alerts, o)>>

\* What a tick writes of them: the old ones if the mail did not go out.
CooldownState(state, alerts, due, o, age, delivered) ==
    IF delivered THEN <<SentAt(state, alerts, due, age), Sev(alerts, o)>>
    ELSE <<state.sentAt, state.sev>>

\* History of an analysis; of pages, up to the first that was lost.
Record(o, watched, alerts, due, age, delivered) ==
    /\ IF lost THEN UNCHANGED <<failing, paged, told>> ELSE
       /\ failing' = [k \in Keys |->
             CASE Failed(o[k]) -> UpTo(Limit(k), failing[k] + 1)
               [] o[k] = "ok" \/ Pruned(k, watched) -> 0
               [] OTHER -> failing[k]]
       /\ paged' = [k \in Keys |-> IF delivered /\ k \in due THEN age ELSE paged[k]]
       /\ told' = [k \in Keys |-> IF k \notin alerts THEN "no"
                                  ELSE IF delivered THEN o[k] ELSE told[k]]
    /\ last' = [failed |-> {k \in Keys : Failed(o[k])}, raised |-> {<<k, o[k]>> : k \in alerts},
                due |-> {<<k, o[k]>> : k \in due}, delivered |-> delivered]

\* The body of run(): observe, analyze, mail what is due.
Analyze(t) ==
    LET state == tick[t].state IN
    /\ tick[t].phase = "read"
    /\ \E o \in Observations :
          LET watched == Watched(o)
              streak == Streaks(state, o, watched)
              alerts == Alerts(streak, o)
              due == DueAlerts(state, alerts, o) IN
          /\ watched \in Watchable(state, o[Map])
          /\ \E delivered \in IF due = {} THEN {TRUE} ELSE BOOLEAN :
                LET cool == CooldownState(state, alerts, due, o, tick[t].age, delivered) IN
                /\ tick' = [tick EXCEPT ![t] =
                      [phase |-> "sent", age |-> tick[t].age,
                       state |-> [hosts |-> watched, streak |-> streak,
                                  sentAt |-> cool[1], sev |-> cool[2]]]]
                /\ Record(o, watched, alerts, due, tick[t].age, delivered)
    /\ UNCHANGED <<kv, starting, lost>>

\* History of a tick that ends: what it could not mail is remembered.
Settle ==
    last' = [last EXCEPT !.failed = {}, !.raised = {}, !.due = IF last.delivered THEN {} ELSE @]

\* The state is written, by renaming a temporary file over the old one.
Commit(t) ==
    /\ tick[t].phase = "sent"
    /\ kv' = tick[t].state
    /\ tick' = [tick EXCEPT ![t] = Idle]
    /\ Settle
    /\ UNCHANGED <<starting, failing, paged, told, lost>>

\* History of a tick that is lost.
Lose(t) ==
    IF tick[t].phase = "sent"
    THEN /\ lost' = TRUE
         /\ failing' = [k \in Keys |-> 0]
         /\ paged' = [k \in Keys |-> Never]
         /\ told' = [k \in Keys |-> "no"]
    ELSE UNCHANGED <<lost, failing, paged, told>>

\* A tick throws (a read or a write of the store fails): logged, nothing kept.
TickFails(t) ==
    /\ MayLose
    /\ tick[t].phase # "idle"
    /\ tick' = [tick EXCEPT ![t] = Idle]
    /\ Lose(t)
    /\ Settle
    /\ UNCHANGED <<kv, starting>>

\* The process dies and is started again.
Crash ==
    /\ MayLose
    /\ tick' = [t \in Slots |-> Idle]
    /\ starting' = TRUE
    /\ \E t \in Slots :
          /\ Lose(t)
          /\ tick[t].phase # "sent" => \A u \in Slots : tick[u].phase # "sent"
    /\ Settle
    /\ UNCHANGED kv

Next ==
    \/ \E t \in Slots : Begin(t) \/ Analyze(t) \/ Commit(t) \/ TickFails(t)
    \/ Crash

Spec == Init /\ [][Next]_vars

-----------------------------------------------------------------------------
(* Properties.                                                             *)

Analyzed == \E t \in Slots : tick[t].phase = "read" /\ tick'[t].phase = "sent"

\* ALERT_FAIL_STREAK: no mail about a vantage-sensitive check before as many
\* consecutive looks at it failed, through skipped probes, map outages, hosts
\* that come and go, failed mails and ticks lost before they mailed.
PagesAreDebounced ==
    ~lost => \A m \in last.due : Debounced(m[1]) => failing[m[1]] >= Limit(m[1])

\* A mail that failed is not recorded as sent: what was due and still holds at
\* the next analysis is due again (core.js, run).
UndeliveredRetried ==
    [][Analyzed /\ ~last.delivered =>
          \A m \in last.due : m \in last'.raised => m \in last'.due]_vars

\* dueAlerts: a condition the operator knows of is mailed again only when it
\* has become worse or the cooldown has passed.
CooldownHeld ==
    [][Analyzed /\ ~lost => \A m \in last'.due :
          \/ told[m[1]] = "no"
          \/ told[m[1]] = "warn" /\ m[2] = "critical"
          \/ paged[m[1]] >= Cooldown]_vars

\* Nothing stays unsaid: when an analysis has mailed what it found due, every
\* check that keeps failing past its debounce was mailed about less than a
\* cooldown ago.
FailureIsTold ==
    [][Analyzed /\ last'.delivered /\ ~lost =>
          \A k \in last'.failed : failing'[k] >= Limit(k) => paged'[k] < Cooldown]_vars

\* dueAlerts: "Conditions absent from `alerts` are cleared from state, so they
\* re-page if they recur after resolving."
RecurrenceRepages ==
    [][Analyzed => \A m \in last'.raised : told[m[1]] = "no" => m \in last'.due]_vars
=============================================================================
