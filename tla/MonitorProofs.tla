--------------------------- MODULE MonitorProofs ---------------------------
(***************************************************************************)
(* Monitor, for any hosts, push relays, streaks and cooldown, as long as a *)
(* tick ends before the next interval begins: type correctness, the        *)
(* debounce of pages, the retry of a mail that failed, the cooldown and    *)
(* its counterpart that nothing stays unsaid.                              *)
(*                                                                         *)
(* The properties speak of what the operator saw; a tick decides by the    *)
(* state it read.  The invariant is that the two agree, whichever step     *)
(* the tick in flight has reached and whatever became of its mail: the     *)
(* streak is the run of failures, a recorded send time is that of the last *)
(* mail, and a condition the operator knows of is recorded with the        *)
(* severity it was mailed with (Tracks).                                   *)
(***************************************************************************)
EXTENDS Monitor, TLAPS

\* A tick ends before the next begins.
OneAtATime == \A t, u \in Slots : t = u

\* A tick reads the state that is stored, in the interval it mails in.
ReadsStored ==
    \A t \in Slots : tick[t].phase = "read" => tick[t].state = kv /\ tick[t].age = 0

Tracks(state) ==
    \A k \in Keys :
        /\ Debounced(k) => state.streak[k] = failing[k]
        /\ state.sentAt[k] # Never => state.sentAt[k] = paged[k]
        /\ told[k] # "no" => state.sentAt[k] # Never /\ state.sev[k] = told[k]

\* The state that the next tick will go by, unless this one is lost.
StateTracks ==
    lost = FALSE =>
        \A t \in Slots : Tracks(IF tick[t].phase = "sent" THEN tick[t].state ELSE kv)

\* Would the alert m be due by this state?
DueIn(state, m) ==
    \/ state.sentAt[m[1]] >= Cooldown
    \/ state.sentAt[m[1]] # Never /\ state.sev[m[1]] = "warn" /\ m[2] = "critical"

\* What was due and did not go out stays due.
StaysDue ==
    last.delivered = FALSE =>
        \A m \in last.due :
            /\ DueIn(kv, m)
            /\ \A t \in Slots : tick[t].phase # "idle" => DueIn(tick[t].state, m)

Inv == TypeOK /\ ReadsStored /\ StateTracks /\ PagesAreDebounced /\ StaysDue

-----------------------------------------------------------------------------
(* An analysis, with its parts named.                                      *)

StreakOf(t, o) == Streaks(tick[t].state, o, Watched(o))
AlertsOf(t, o) == Alerts(StreakOf(t, o), o)
DueOf(t, o) == DueAlerts(tick[t].state, AlertsOf(t, o), o)
SentOf(t, o, delivered) ==
    IF delivered THEN SentAt(tick[t].state, AlertsOf(t, o), DueOf(t, o), tick[t].age)
    ELSE tick[t].state.sentAt
SevOf(t, o, delivered) ==
    IF delivered THEN Sev(AlertsOf(t, o), o) ELSE tick[t].state.sev
StateOf(t, o, delivered) ==
    [hosts |-> Watched(o), streak |-> StreakOf(t, o),
     sentAt |-> SentOf(t, o, delivered), sev |-> SevOf(t, o, delivered)]

AnalysisOf(t, o, delivered) ==
    /\ tick[t].phase = "read"
    /\ tick' = [tick EXCEPT ![t] = [phase |-> "sent", age |-> tick[t].age,
                                        state |-> StateOf(t, o, delivered)]]
    /\ Record(o, Watched(o), AlertsOf(t, o), DueOf(t, o), tick[t].age, delivered)
    /\ UNCHANGED <<kv, starting, lost>>

LEMMA AnalyzeParts ==
  ASSUME NEW t \in Slots, Analyze(t)
  PROVE  \E o \in Observations, delivered \in BOOLEAN : AnalysisOf(t, o, delivered)
  <1>1. PICK o \in Observations : \E delivered \in BOOLEAN :
          LET state == tick[t].state
              watched == Watched(o)
              streak == Streaks(state, o, watched)
              alerts == Alerts(streak, o)
              due == DueAlerts(state, alerts, o)
              cool == CooldownState(state, alerts, due, o, tick[t].age, delivered) IN
          /\ tick' = [tick EXCEPT ![t] =
                [phase |-> "sent", age |-> tick[t].age,
                 state |-> [hosts |-> watched, streak |-> streak,
                            sentAt |-> cool[1], sev |-> cool[2]]]]
          /\ Record(o, watched, alerts, due, tick[t].age, delivered)
    BY DEF Analyze
  <1>2. PICK delivered \in BOOLEAN :
          LET cool == CooldownState(tick[t].state, AlertsOf(t, o), DueOf(t, o), o, tick[t].age,
                                    delivered) IN
          /\ tick' = [tick EXCEPT ![t] =
                [phase |-> "sent", age |-> tick[t].age,
                 state |-> [hosts |-> Watched(o), streak |-> StreakOf(t, o),
                            sentAt |-> cool[1], sev |-> cool[2]]]]
          /\ Record(o, Watched(o), AlertsOf(t, o), DueOf(t, o), tick[t].age, delivered)
    BY <1>1 DEF StreakOf, AlertsOf, DueOf
  <1>3. CASE delivered
    BY <1>2, <1>3 DEF Analyze, AnalysisOf, StateOf, SentOf, SevOf, CooldownState
  <1>4. CASE ~delivered
    BY <1>2, <1>4 DEF Analyze, AnalysisOf, StateOf, SentOf, SevOf, CooldownState
  <1>5. QED BY <1>3, <1>4

\* What is dropped with a host the tick does not watch was not looked at.
LEMMA ObservationFacts ==
  ASSUME NEW o \in Observations
  PROVE  /\ o \in [Keys -> {"ok", "skip", "warn", "critical"}]
         /\ \A k \in Keys : Pruned(k, Watched(o)) => o[k] = "skip"
  <1>1. o \in [Keys -> {"ok", "skip", "warn", "critical"}] BY DEF Observations, Severities
  <1>2. ASSUME NEW k \in Keys, Pruned(k, Watched(o)) PROVE o[k] = "skip"
    <2>1. PICK h \in Hosts, n \in {"liveness", "probe", "metrics"} : k = <<h, n>>
      BY <1>2, MonitorAssumption DEF Pruned, Keys, Map
    <2>2. h \in Hosts \ Watched(o) BY <1>2, <2>1 DEF Pruned
    <2>3. o[<<h, "liveness">>] = "skip" BY <2>2 DEF Watched
    <2>4. QED BY <2>1, <2>2, <2>3 DEF Observations
  <1>3. QED BY <1>1, <1>2

\* The alerts of an analysis, and which of them are due.
LEMMA DueFacts ==
  ASSUME TypeOK, NEW t \in Slots, NEW o \in Observations
  PROVE  /\ StreakOf(t, o) \in [Keys -> Nat]
         /\ \A k \in Keys : k \in AlertsOf(t, o) <=>
              Failed(o[k]) /\ (Debounced(k) => StreakOf(t, o)[k] >= Limit(k))
         /\ AlertsOf(t, o) \subseteq Keys
         /\ DueOf(t, o) \subseteq AlertsOf(t, o)
         /\ \A k \in AlertsOf(t, o) : k \in DueOf(t, o) <=> DueIn(tick[t].state, <<k, o[k]>>)
  <1>1. StreakOf(t, o) \in [Keys -> Nat]
    BY MonitorAssumption
    DEF StreakOf, Streaks, NextStreak, UpTo, Limit, TypeOK, States
  <1>2. \A k \in Keys : k \in AlertsOf(t, o) <=>
              Failed(o[k]) /\ (Debounced(k) => StreakOf(t, o)[k] >= Limit(k))
    BY DEF AlertsOf, Alerts
  <1>3. AlertsOf(t, o) \subseteq Keys BY DEF AlertsOf, Alerts
  <1>4. DueOf(t, o) \subseteq AlertsOf(t, o) BY DEF DueOf, DueAlerts
  <1>5. \A k \in AlertsOf(t, o) : k \in DueOf(t, o) <=> DueIn(tick[t].state, <<k, o[k]>>)
    BY DEF DueOf, DueAlerts, DueIn, Escalated
  <1>6. QED BY <1>1, <1>2, <1>3, <1>4, <1>5

-----------------------------------------------------------------------------
(* Type correctness.                                                       *)

TickStates == [phase : {"idle", "read", "sent"}, state : States, age : 0..Cooldown]
LastStates ==
    [failed : SUBSET Keys, raised : SUBSET (Keys \X Severities),
     due : SUBSET (Keys \X Severities), delivered : BOOLEAN]

LEMMA EmptyType == Empty \in States /\ Idle \in TickStates /\ Idle.phase = "idle"
  <1>1. Empty \in States BY MonitorAssumption DEF Empty, States, Never, Severities
  <1>2. QED BY <1>1, MonitorAssumption DEF Idle, TickStates

LEMMA LaterType ==
  ASSUME NEW a \in 0..Never
  PROVE  /\ Later(a) \in 0..Never
         /\ Later(a) = Never <=> a = Never
         /\ a >= Cooldown => Later(a) >= Cooldown
  BY MonitorAssumption DEF Later, UpTo, Never

LEMMA AgedType ==
  ASSUME NEW state \in States
  PROVE  /\ Aged(state) \in States
         /\ Aged(state).streak = state.streak /\ Aged(state).sev = state.sev
         /\ \A k \in Keys : Aged(state).sentAt[k] = Later(state.sentAt[k])
  <1>1. /\ state.hosts \in SUBSET Hosts /\ state.streak \in [Keys -> Nat]
        /\ state.sentAt \in [Keys -> 0..Never] /\ state.sev \in [Keys -> Severities]
        /\ state = [hosts |-> state.hosts, streak |-> state.streak,
                    sentAt |-> state.sentAt, sev |-> state.sev]
    BY DEF States
  <1>2. [k \in Keys |-> Later(state.sentAt[k])] \in [Keys -> 0..Never] BY <1>1, LaterType
  <1>3. Aged(state) = [hosts |-> state.hosts, streak |-> state.streak,
                       sentAt |-> [k \in Keys |-> Later(state.sentAt[k])], sev |-> state.sev]
    BY <1>1 DEF Aged
  <1>4. QED BY <1>1, <1>2, <1>3 DEF States

LEMMA InitType == Init => TypeOK
  <1> SUFFICES ASSUME Init PROVE TypeOK
    OBVIOUS
  <1>1. kv \in States /\ tick \in [Slots -> TickStates] BY EmptyType DEF Init
  <1>2. starting \in BOOLEAN /\ lost \in BOOLEAN BY Zenon DEF Init
  <1>3. last \in LastStates BY DEF Init, LastStates
  <1>4. failing \in [Keys -> Nat] /\ paged \in [Keys -> 0..Never]
        /\ told \in [Keys -> {"no"} \cup Severities]
    BY MonitorAssumption DEF Init, Never
  <1>5. QED BY <1>1, <1>2, <1>3, <1>4 DEF TypeOK, TickStates, LastStates

LEMMA StateOfType ==
  ASSUME TypeOK, NEW t \in Slots, NEW o \in Observations, NEW delivered \in BOOLEAN
  PROVE  StateOf(t, o, delivered) \in States
  <1>1. /\ tick[t].state.sentAt \in [Keys -> 0..Never] /\ tick[t].age \in 0..Cooldown
        /\ tick[t].state.sev \in [Keys -> Severities]
    BY DEF TypeOK, States
  <1>2. SentOf(t, o, delivered) \in [Keys -> 0..Never]
    BY <1>1, MonitorAssumption DEF SentOf, SentAt, Never
  <1>3. SevOf(t, o, delivered) \in [Keys -> Severities]
    BY <1>1, DueFacts DEF SevOf, Sev, Failed, Severities
  <1>4. Watched(o) \in SUBSET Hosts BY DEF Watched
  <1>5. QED BY <1>2, <1>3, <1>4, DueFacts DEF StateOf, States

\* What an analysis adds to the history.
LEMMA HistoryOf ==
  ASSUME NEW t \in Slots, NEW o \in Observations, NEW delivered \in BOOLEAN,
         AnalysisOf(t, o, delivered), ~lost
  PROVE  /\ failing' = [k \in Keys |->
               CASE Failed(o[k]) -> UpTo(Limit(k), failing[k] + 1)
                 [] o[k] = "ok" \/ Pruned(k, Watched(o)) -> 0
                 [] OTHER -> failing[k]]
         /\ paged' = [k \in Keys |->
               IF delivered /\ k \in DueOf(t, o) THEN tick[t].age ELSE paged[k]]
         /\ told' = [k \in Keys |-> IF k \notin AlertsOf(t, o) THEN "no"
                                    ELSE IF delivered THEN o[k] ELSE told[k]]
  BY DEF AnalysisOf, Record

LEMMA AnalyzeType ==
  ASSUME TypeOK, NEW t \in Slots, NEW o \in Observations, NEW delivered \in BOOLEAN,
         AnalysisOf(t, o, delivered)
  PROVE  /\ TypeOK'
         /\ tick'[t].phase = "sent" /\ tick'[t].state = StateOf(t, o, delivered)
         /\ last'.failed = {k \in Keys : Failed(o[k])}
         /\ last'.raised = {<<k, o[k]>> : k \in AlertsOf(t, o)}
         /\ last'.due = {<<k, o[k]>> : k \in DueOf(t, o)}
         /\ last'.delivered = delivered
  <1>1. tick[t] \in TickStates BY DEF TypeOK, TickStates
  <1>2. tick' \in [Slots -> TickStates]
        /\ tick'[t].phase = "sent" /\ tick'[t].state = StateOf(t, o, delivered)
    BY <1>1, StateOfType DEF AnalysisOf, TypeOK, TickStates
  <1>3. last' = [failed |-> {k \in Keys : Failed(o[k])},
                 raised |-> {<<k, o[k]>> : k \in AlertsOf(t, o)},
                 due |-> {<<k, o[k]>> : k \in DueOf(t, o)}, delivered |-> delivered]
    BY DEF AnalysisOf, Record
  <1>4. last' \in LastStates BY <1>3, DueFacts DEF LastStates, Failed
  <1>5. /\ failing' \in [Keys -> Nat] /\ paged' \in [Keys -> 0..Never]
        /\ told' \in [Keys -> {"no"} \cup Severities]
    <2>1. CASE lost BY <2>1 DEF AnalysisOf, Record, TypeOK
    <2>2. CASE ~lost
      <3>1. failing' \in [Keys -> Nat]
        BY <2>2, HistoryOf, MonitorAssumption DEF TypeOK, UpTo, Limit
      <3>2. tick[t].age \in 0..Never BY <1>1, MonitorAssumption DEF TickStates, Never
      <3>3. paged' \in [Keys -> 0..Never] BY <2>2, <3>2, HistoryOf DEF TypeOK
      <3>4. \A k \in AlertsOf(t, o) : o[k] \in Severities BY DueFacts DEF Failed
      <3>5. told \in [Keys -> {"no"} \cup Severities] BY DEF TypeOK
      <3>6. told' \in [Keys -> {"no"} \cup Severities] BY <2>2, <3>4, <3>5, HistoryOf
      <3>7. QED BY <3>1, <3>3, <3>6
    <2>3. QED BY <2>1, <2>2
  <1>6. QED BY <1>2, <1>3, <1>4, <1>5 DEF AnalysisOf, TypeOK, TickStates, LastStates

LEMMA BeginType ==
  ASSUME TypeOK, NEW t \in Slots, Begin(t)
  PROVE  TypeOK'
  <1>1. kv \in States /\ Aged(kv) \in States BY AgedType DEF TypeOK
  <1>2. ASSUME NEW u \in Slots PROVE tick'[u] \in TickStates
    <2>1. tick[u].phase \in {"idle", "read", "sent"} /\ tick[u].age \in 0..Cooldown
          /\ Aged(tick[u].state) \in States
      BY AgedType DEF TypeOK
    <2>2. UpTo(Cooldown, tick[u].age + 1) \in 0..Cooldown BY <2>1, MonitorAssumption DEF UpTo
    <2>3. CASE u = t
      BY <1>1, <2>3, MonitorAssumption DEF Begin, TickStates
    <2>4. CASE u # t /\ tick[u].phase = "idle" BY <2>4, EmptyType DEF Begin
    <2>5. CASE u # t /\ tick[u].phase # "idle"
      BY <2>1, <2>2, <2>5 DEF Begin, TickStates
    <2>6. QED BY <2>3, <2>4, <2>5
  <1>3. tick' \in [Slots -> TickStates]
    <2>1. tick' = [u \in Slots |-> tick'[u]] BY DEF Begin
    <2>2. QED BY <1>2, <2>1
  <1>4. kv' \in States BY <1>1 DEF Begin
  <1>5. paged' \in [Keys -> 0..Never] BY LaterType DEF Begin, TypeOK
  <1>6. starting' \in BOOLEAN BY Zenon DEF Begin
  <1>7. QED BY <1>3, <1>4, <1>5, <1>6 DEF Begin, TypeOK, TickStates, LastStates

LEMMA SettleType ==
  ASSUME TypeOK, Settle
  PROVE  /\ last' \in LastStates /\ last'.delivered = last.delivered
         /\ last'.due \subseteq last.due
  <1>1. last \in LastStates BY DEF TypeOK, LastStates
  <1>2. last' = [failed |-> {}, raised |-> {}, due |-> IF last.delivered THEN {} ELSE last.due,
                 delivered |-> last.delivered]
    BY <1>1 DEF Settle, LastStates
  <1>3. QED BY <1>1, <1>2 DEF LastStates

\* A tick ends without a trace: it leaves its slot, and what was stored stays.
Drops(t) ==
    /\ tick' = [tick EXCEPT ![t] = Idle]
    /\ Lose(t)
    /\ Settle
    /\ kv' = kv

LEMMA LoseType ==
  ASSUME TypeOK, NEW t \in Slots, Lose(t)
  PROVE  /\ failing' \in [Keys -> Nat] /\ paged' \in [Keys -> 0..Never]
         /\ told' \in [Keys -> {"no"} \cup Severities] /\ lost' \in BOOLEAN
  <1>1. Never \in 0..Never BY MonitorAssumption DEF Never
  <1>2. CASE tick[t].phase = "sent" BY <1>1, <1>2 DEF Lose
  <1>3. CASE tick[t].phase # "sent" BY <1>3 DEF Lose, TypeOK
  <1>4. QED BY <1>2, <1>3

LEMMA NextType == TypeOK /\ [Next]_vars => TypeOK'
  <1> SUFFICES ASSUME TypeOK, [Next]_vars PROVE TypeOK'
    OBVIOUS
  <1>1. ASSUME NEW t \in Slots, Begin(t) PROVE TypeOK' BY <1>1, BeginType
  <1>2. ASSUME NEW t \in Slots, Analyze(t) PROVE TypeOK' BY <1>2, AnalyzeParts, AnalyzeType
  <1>3. ASSUME NEW t \in Slots, Commit(t) PROVE TypeOK'
    <2>1. kv' \in States BY <1>3 DEF Commit, TypeOK
    <2>2. tick' \in [Slots -> TickStates] BY <1>3, EmptyType DEF Commit, TypeOK, TickStates
    <2>3. QED BY <1>3, <2>1, <2>2, SettleType DEF Commit, TypeOK, TickStates, LastStates
  <1>4. ASSUME NEW t \in Slots, TickFails(t) PROVE TypeOK'
    <2>1. tick' \in [Slots -> TickStates] BY <1>4, EmptyType DEF TickFails, TypeOK, TickStates
    <2>2. QED BY <1>4, <2>1, SettleType, LoseType
          DEF TickFails, TypeOK, TickStates, LastStates
  <1>5. ASSUME Crash PROVE TypeOK'
    <2>1. tick' \in [Slots -> TickStates] BY <1>5, EmptyType DEF Crash
    <2>2. starting' \in BOOLEAN BY <1>5, Zenon DEF Crash
    <2>3. QED BY <1>5, <2>1, <2>2, SettleType, LoseType
          DEF Crash, TypeOK, TickStates, LastStates
  <1>6. CASE UNCHANGED vars BY <1>6 DEF vars, history, TypeOK
  <1>7. QED BY <1>1, <1>2, <1>3, <1>4, <1>5, <1>6 DEF Next

\* The types of the state, of the ticks in flight and of the history.
THEOREM TypeCorrect == Spec => []TypeOK
  BY InitType, NextType, PTL DEF Spec

-----------------------------------------------------------------------------
(* The state a tick decides by agrees with what happened.                  *)

\* A streak and the run of failures it counts move together.
LEMMA StreakMoves ==
  ASSUME TypeOK, NEW t \in Slots, NEW o \in Observations, NEW delivered \in BOOLEAN,
         AnalysisOf(t, o, delivered), ~lost, Tracks(tick[t].state)
  PROVE  \A k \in Keys : Debounced(k) => StreakOf(t, o)[k] = failing'[k]
  <1> SUFFICES ASSUME NEW k \in Keys, Debounced(k) PROVE StreakOf(t, o)[k] = failing'[k]
    OBVIOUS
  <1>1. tick[t].state.streak[k] = failing[k] BY DEF Tracks
  <1>2. o[k] \in {"ok", "skip", "warn", "critical"} BY ObservationFacts
  <1>3. StreakOf(t, o)[k] = IF Pruned(k, Watched(o)) THEN 0
                           ELSE NextStreak(k, failing[k], o[k])
    BY <1>1 DEF StreakOf, Streaks
  <1>4. CASE Pruned(k, Watched(o))
    <2>1. o[k] = "skip" BY <1>4, ObservationFacts
    <2>2. failing'[k] = 0 BY <1>4, <2>1, HistoryOf DEF Failed, Severities
    <2>3. QED BY <1>3, <1>4, <2>2
  <1>5. CASE ~Pruned(k, Watched(o))
    BY <1>2, <1>3, <1>5, HistoryOf DEF NextStreak, Failed, Severities
  <1>6. QED BY <1>4, <1>5

\* So do a recorded send time and the mail it stands for.
LEMMA SendTimeMoves ==
  ASSUME TypeOK, NEW t \in Slots, NEW o \in Observations, NEW delivered \in BOOLEAN,
         AnalysisOf(t, o, delivered), ~lost, Tracks(tick[t].state)
  PROVE  \A k \in Keys :
           /\ SentOf(t, o, delivered)[k] # Never => SentOf(t, o, delivered)[k] = paged'[k]
           /\ told'[k] # "no" => /\ SentOf(t, o, delivered)[k] # Never
                                 /\ SevOf(t, o, delivered)[k] = told'[k]
  <1> SUFFICES ASSUME NEW k \in Keys
      PROVE /\ SentOf(t, o, delivered)[k] # Never => SentOf(t, o, delivered)[k] = paged'[k]
            /\ told'[k] # "no" => /\ SentOf(t, o, delivered)[k] # Never
                                  /\ SevOf(t, o, delivered)[k] = told'[k]
    OBVIOUS
  <1> DEFINE was == tick[t].state.sentAt[k]
  <1>1. was \in 0..Never /\ tick[t].age \in 0..Cooldown BY DEF TypeOK, States
  <1>2. was # Never => was = paged[k] BY DEF Tracks
  <1>3. told[k] # "no" => was # Never /\ tick[t].state.sev[k] = told[k] BY DEF Tracks
  <1>h. /\ paged' = [j \in Keys |->
              IF delivered /\ j \in DueOf(t, o) THEN tick[t].age ELSE paged[j]]
        /\ told' = [j \in Keys |-> IF j \notin AlertsOf(t, o) THEN "no"
                                     ELSE IF delivered THEN o[j] ELSE told[j]]
    BY HistoryOf
  <1>4. CASE ~delivered
    <2>1. SentOf(t, o, delivered)[k] = was /\ SevOf(t, o, delivered)[k] = tick[t].state.sev[k]
      BY <1>4 DEF SentOf, SevOf
    <2>2. paged'[k] = paged[k] /\ (told'[k] # "no" => told'[k] = told[k])
      BY <1>4, <1>h
    <2>3. QED BY <1>2, <1>3, <2>1, <2>2
  <1>5. CASE delivered /\ k \in DueOf(t, o)
    <2>1. k \in AlertsOf(t, o) BY <1>5, DueFacts
    <2>2. SentOf(t, o, delivered)[k] = tick[t].age /\ SevOf(t, o, delivered)[k] = o[k]
      BY <1>5, <2>1 DEF SentOf, SentAt, SevOf, Sev
    <2>3. paged'[k] = tick[t].age /\ told'[k] = o[k] BY <1>5, <2>1, <1>h
    <2>4. tick[t].age # Never BY <1>1, MonitorAssumption DEF Never
    <2>5. QED BY <2>2, <2>3, <2>4
  <1>6. CASE delivered /\ k \in AlertsOf(t, o) \ DueOf(t, o)
    <2>1. SentOf(t, o, delivered)[k] = was /\ SevOf(t, o, delivered)[k] = o[k]
      BY <1>6 DEF SentOf, SentAt, SevOf, Sev
    <2>2. paged'[k] = paged[k] /\ told'[k] = o[k] BY <1>6, <1>h
    <2>3. ~DueIn(tick[t].state, <<k, o[k]>>) BY <1>6, DueFacts
    <2>4. was # Never BY <1>1, <2>3, MonitorAssumption DEF DueIn, Never
    <2>5. QED BY <1>2, <2>1, <2>2, <2>4
  <1>7. CASE delivered /\ k \notin AlertsOf(t, o)
    <2>1. SentOf(t, o, delivered)[k] = Never BY <1>7, DueFacts DEF SentOf, SentAt
    <2>2. told'[k] = "no" BY <1>7, <1>h
    <2>3. QED BY <2>1, <2>2
  <1>8. QED BY <1>4, <1>5, <1>6, <1>7

LEMMA AnalyzeInv ==
  ASSUME OneAtATime, Inv, NEW t \in Slots, NEW o \in Observations,
         NEW delivered \in BOOLEAN, AnalysisOf(t, o, delivered)
  PROVE  Inv'
  <1> USE DEF Inv
  <1>1. \A u \in Slots : u = t BY DEF OneAtATime
  <1>2. tick[t].phase = "read" /\ kv' = kv /\ lost' = lost BY DEF AnalysisOf
  <1>3. tick[t].state = kv BY <1>2 DEF ReadsStored
  <1>4. tick'[t].phase = "sent" /\ tick'[t].state = StateOf(t, o, delivered)
    BY AnalyzeType
  <1>5. TypeOK' BY AnalyzeType
  <1>6. ReadsStored' BY <1>1, <1>4 DEF ReadsStored
  <1>7. ASSUME ~lost PROVE /\ Tracks(tick[t].state)
                           /\ \A k \in Keys : Debounced(k) => StreakOf(t, o)[k] = failing'[k]
    <2>1. lost = FALSE BY <1>7 DEF TypeOK
    <2>2. Tracks(tick[t].state) BY <1>2, <1>3, <2>1 DEF StateTracks
    <2>3. QED BY <1>7, <2>2, StreakMoves
  <1>8. StateTracks'
    <2>1. SUFFICES ASSUME ~lost PROVE Tracks(tick[t].state)'
      BY <1>1, <1>2, <1>4 DEF StateTracks
    <2>2. SUFFICES ASSUME NEW k \in Keys
          PROVE /\ Debounced(k) => StreakOf(t, o)[k] = failing'[k]
                /\ SentOf(t, o, delivered)[k] # Never => SentOf(t, o, delivered)[k] = paged'[k]
                /\ told'[k] # "no" => /\ SentOf(t, o, delivered)[k] # Never
                                      /\ SevOf(t, o, delivered)[k] = told'[k]
      BY <1>4 DEF Tracks, StateOf
    <2>3. QED BY <1>7, <2>1, SendTimeMoves
  <1>9. PagesAreDebounced'
    <2>1. SUFFICES ASSUME ~lost, NEW m \in last'.due, Debounced(m[1])
          PROVE failing'[m[1]] >= Limit(m[1])
      BY <1>2 DEF PagesAreDebounced
    <2>2. PICK k \in DueOf(t, o) : m = <<k, o[k]>> BY AnalyzeType
    <2>3. k \in Keys /\ StreakOf(t, o)[k] >= Limit(k) BY <2>1, <2>2, DueFacts
    <2>4. QED BY <1>7, <2>1, <2>2, <2>3
  <1>10. StaysDue'
    <2>1. ASSUME delivered = FALSE, NEW m \in last'.due
          PROVE  DueIn(kv', m) /\ DueIn(tick'[t].state, m)
      <3>1. PICK k \in DueOf(t, o) : m = <<k, o[k]>> BY AnalyzeType
      <3>2. DueIn(tick[t].state, m) BY <3>1, DueFacts
      <3>3. tick'[t].state.sentAt = kv.sentAt /\ tick'[t].state.sev = kv.sev
        BY <1>3, <1>4, <2>1 DEF StateOf, SentOf, SevOf
      <3>4. QED BY <1>2, <1>3, <3>2, <3>3 DEF DueIn
    <2>2. last'.delivered = delivered BY AnalyzeType
    <2>3. QED BY <1>1, <2>1, <2>2 DEF StaysDue, DueIn
  <1>11. QED BY <1>5, <1>6, <1>8, <1>9, <1>10

\* An interval passes for the stored state and for the mails alike.
LEMMA BeginInv ==
  ASSUME OneAtATime, Inv, NEW t \in Slots, Begin(t)
  PROVE  Inv'
  <1> USE DEF Inv
  <1>1. \A u \in Slots : u = t BY DEF OneAtATime
  <1>2. tick[t].phase = "idle" BY DEF Begin
  <1>3. tick'[t].phase = "read" /\ tick'[t].state = kv' /\ tick'[t].age = 0 BY DEF Begin
  <1>4. UNCHANGED <<failing, told, lost, last>> BY DEF Begin
  <1>5. /\ kv'.streak = kv.streak /\ kv'.sev = kv.sev
        /\ \/ kv' = kv /\ paged' = paged
           \/ \A k \in Keys : kv'.sentAt[k] = Later(kv.sentAt[k]) /\ paged'[k] = Later(paged[k])
    <2>1. kv \in States BY DEF TypeOK
    <2>2. CASE starting BY <2>2 DEF Begin
    <2>3. CASE ~starting BY <2>1, <2>3, AgedType DEF Begin
    <2>4. QED BY <2>2, <2>3
  <1>6. \A k \in Keys : kv.sentAt[k] \in 0..Never BY DEF TypeOK, States
  <1>7. TypeOK' BY BeginType
  <1>8. ReadsStored' BY <1>1, <1>3 DEF ReadsStored
  <1>9. StateTracks'
    <2>1. SUFFICES ASSUME lost = FALSE PROVE Tracks(kv)'
      BY <1>1, <1>3, <1>4 DEF StateTracks
    <2>2. Tracks(kv) BY <1>2, <2>1 DEF StateTracks
    <2>3. QED BY <1>4, <1>5, <1>6, <2>2, LaterType DEF Tracks
  <1>10. PagesAreDebounced' BY <1>4 DEF PagesAreDebounced
  <1>11. StaysDue'
    <2>1. ASSUME last.delivered = FALSE, NEW m \in last.due PROVE DueIn(kv', m)
      <3>1. DueIn(kv, m) /\ m[1] \in Keys BY <2>1 DEF StaysDue, TypeOK
      <3>2. QED BY <1>5, <1>6, <3>1, LaterType DEF DueIn
    <2>2. last'.delivered = FALSE =>
            \A m \in last'.due : DueIn(kv', m) /\ DueIn(tick'[t].state, m)
      BY <1>3, <1>4, <2>1
    <2>3. QED BY <1>1, <2>2 DEF StaysDue, DueIn
  <1>12. QED BY <1>7, <1>8, <1>9, <1>10, <1>11

LEMMA CommitInv ==
  ASSUME OneAtATime, Inv, NEW t \in Slots, Commit(t)
  PROVE  Inv'
  <1> USE DEF Inv
  <1>1. \A u \in Slots : u = t BY DEF OneAtATime
  <1>2. tick[t].phase = "sent" /\ kv' = tick[t].state BY DEF Commit
  <1>3. tick'[t].phase = "idle" BY EmptyType DEF Commit, TypeOK
  <1>4. UNCHANGED <<failing, paged, told, lost>> BY DEF Commit
  <1>5. last'.delivered = last.delivered /\ last'.due \subseteq last.due
    BY SettleType DEF Commit
  <1>6. TypeOK' BY NextType DEF Next
  <1>7. ReadsStored' BY <1>1, <1>3 DEF ReadsStored
  <1>8. StateTracks' BY <1>1, <1>2, <1>3, <1>4 DEF StateTracks, Tracks
  <1>9. PagesAreDebounced' BY <1>4, <1>5 DEF PagesAreDebounced
  <1>10. StaysDue' BY <1>1, <1>2, <1>3, <1>5 DEF StaysDue, DueIn
  <1>11. QED BY <1>6, <1>7, <1>8, <1>9, <1>10

\* A tick that fails before its mails leaves everything as it was; after them,
\* what they said is lost, and what was due by the stored state still is.
LEMMA DropInv ==
  ASSUME OneAtATime, Inv, TypeOK', NEW t \in Slots, Drops(t)
  PROVE  Inv'
  <1> USE DEF Inv
  <1>1. \A u \in Slots : u = t BY DEF OneAtATime
  <1>2. kv' = kv /\ Lose(t) BY DEF Drops
  <1>3. tick'[t].phase = "idle" BY EmptyType DEF Drops, TypeOK
  <1>4. last'.delivered = last.delivered /\ last'.due \subseteq last.due
    BY SettleType DEF Drops
  <1>5. ReadsStored' BY <1>1, <1>3 DEF ReadsStored
  <1>6. StaysDue' BY <1>1, <1>2, <1>3, <1>4 DEF StaysDue, DueIn
  <1>7. StateTracks' /\ PagesAreDebounced'
    <2>1. CASE tick[t].phase = "sent"
      BY <1>2, <2>1 DEF Lose, StateTracks, PagesAreDebounced
    <2>2. CASE tick[t].phase # "sent"
      <3>1. UNCHANGED <<lost, failing, paged, told>> BY <1>2, <2>2 DEF Lose
      <3>2. StateTracks' BY <1>1, <1>2, <1>3, <2>2, <3>1 DEF StateTracks, Tracks
      <3>3. PagesAreDebounced' BY <1>4, <3>1 DEF PagesAreDebounced
      <3>4. QED BY <3>2, <3>3
    <2>3. QED BY <2>1, <2>2
  <1>8. QED BY <1>5, <1>6, <1>7

LEMMA InitInv == Init => Inv
  <1> SUFFICES ASSUME Init PROVE Inv
    OBVIOUS
  <1>1. \A t \in Slots : tick[t].phase = "idle" BY EmptyType DEF Init
  <1>2. ReadsStored BY <1>1 DEF ReadsStored
  <1>3. Tracks(kv) BY DEF Init, Empty, Tracks
  <1>4. StateTracks BY <1>1, <1>3 DEF StateTracks
  <1>5. last.due = {} /\ last.delivered = TRUE BY DEF Init
  <1>6. PagesAreDebounced /\ StaysDue BY <1>5 DEF PagesAreDebounced, StaysDue
  <1>7. QED BY <1>2, <1>4, <1>6, InitType DEF Inv

LEMMA NextInv == OneAtATime /\ Inv /\ [Next]_vars => Inv'
  <1> SUFFICES ASSUME OneAtATime, Inv, [Next]_vars PROVE Inv'
    OBVIOUS
  <1>1. TypeOK' BY NextType DEF Inv
  <1>2. ASSUME NEW t \in Slots, Begin(t) PROVE Inv' BY <1>2, BeginInv
  <1>3. ASSUME NEW t \in Slots, Analyze(t) PROVE Inv' BY <1>3, AnalyzeParts, AnalyzeInv
  <1>4. ASSUME NEW t \in Slots, Commit(t) PROVE Inv' BY <1>4, CommitInv
  <1>5. ASSUME NEW t \in Slots, TickFails(t) PROVE Inv'
    <2>1. Drops(t) BY <1>5 DEF TickFails, Drops
    <2>2. QED BY <1>1, <2>1, DropInv
  <1>6. ASSUME Crash PROVE Inv'
    <2>1. PICK t \in Slots : Lose(t) BY <1>6 DEF Crash
    <2>2. tick' = [tick EXCEPT ![t] = Idle]
      <3>1. tick' = [u \in Slots |-> Idle] /\ DOMAIN tick = Slots
        BY <1>6 DEF Crash, Inv, TypeOK
      <3>2. \A u \in Slots : u = t BY DEF OneAtATime
      <3>3. QED BY <3>1, <3>2 DEF Inv, TypeOK
    <2>3. Drops(t) BY <1>6, <2>1, <2>2 DEF Crash, Drops
    <2>4. QED BY <1>1, <2>3, DropInv
  <1>7. CASE UNCHANGED vars
    BY <1>1, <1>7 DEF vars, history, Inv, ReadsStored, StateTracks, Tracks,
                      PagesAreDebounced, StaysDue, DueIn
  <1>8. QED BY <1>2, <1>3, <1>4, <1>5, <1>6, <1>7 DEF Next

LEMMA Invariance == OneAtATime => (Spec => []Inv)
  <1> SUFFICES ASSUME OneAtATime PROVE Spec => []Inv
    OBVIOUS
  <1>1. Init => Inv BY InitInv
  <1>2. Inv /\ [Next]_vars => Inv' BY NextInv
  <1>3. QED BY <1>1, <1>2, PTL DEF Spec

-----------------------------------------------------------------------------
(* The properties.                                                         *)

\* No other step than an analysis moves a tick on to its mails.
LEMMA AnalyzedIs ==
  ASSUME TypeOK, [Next]_vars, Analyzed
  PROVE  \E t \in Slots, o \in Observations, delivered \in BOOLEAN : AnalysisOf(t, o, delivered)
  <1>1. PICK t \in Slots : tick[t].phase = "read" /\ tick'[t].phase = "sent" BY DEF Analyzed
  <1>2. ASSUME NEW u \in Slots, Begin(u) PROVE FALSE
    BY <1>1, <1>2 DEF Begin
  <1>3. ASSUME NEW u \in Slots, Commit(u) \/ TickFails(u) PROVE FALSE
    <2>1. tick' = [tick EXCEPT ![u] = Idle] BY <1>3 DEF Commit, TickFails
    <2>2. QED BY <1>1, <2>1, EmptyType DEF TypeOK
  <1>4. ASSUME Crash PROVE FALSE BY <1>1, <1>4, EmptyType DEF Crash
  <1>5. tick' # tick BY <1>1
  <1>6. PICK u \in Slots : Analyze(u)
    BY <1>2, <1>3, <1>4, <1>5 DEF Next, vars
  <1>7. QED BY <1>6, AnalyzeParts

\* Pages wait for as many failures in a row as ALERT_FAIL_STREAK asks, for any
\* hosts, push relays and streaks, whatever fails in between.
THEOREM PagesDebounced == OneAtATime => (Spec => []PagesAreDebounced)
  <1> SUFFICES ASSUME OneAtATime PROVE Spec => []PagesAreDebounced
    OBVIOUS
  <1>1. Inv => PagesAreDebounced BY DEF Inv
  <1>2. QED BY <1>1, Invariance, PTL

\* What the state read by an analysis says, by the invariant.
LEMMA ReadTracks ==
  ASSUME Inv, NEW t \in Slots, tick[t].phase = "read", ~lost
  PROVE  Tracks(tick[t].state)
  <1>1. lost = FALSE BY DEF Inv, TypeOK
  <1>2. tick[t].state = kv BY DEF Inv, ReadsStored
  <1>3. QED BY <1>1, <1>2 DEF Inv, StateTracks

\* An alert whose mail failed is due again at the next analysis that still
\* raises it, through restarts and ticks lost in between.
THEOREM FailedMailRetried == OneAtATime => (Spec => UndeliveredRetried)
  <1> SUFFICES ASSUME OneAtATime PROVE Spec => UndeliveredRetried
    OBVIOUS
  <1>1. ASSUME Inv, [Next]_vars, Analyzed /\ ~last.delivered,
               NEW m \in last.due, m \in last'.raised
        PROVE  m \in last'.due
    <2>1. PICK t \in Slots, o \in Observations, delivered \in BOOLEAN : AnalysisOf(t, o, delivered)
      BY <1>1, AnalyzedIs DEF Inv
    <2>2. last.delivered = FALSE BY <1>1 DEF Inv, TypeOK
    <2>3. DueIn(tick[t].state, m) BY <1>1, <2>1, <2>2 DEF Inv, StaysDue, AnalysisOf
    <2>4. PICK k \in AlertsOf(t, o) : m = <<k, o[k]>> BY <1>1, <2>1, AnalyzeType DEF Inv
    <2>5. k \in DueOf(t, o) BY <2>3, <2>4, DueFacts, <1>1 DEF Inv
    <2>6. QED BY <1>1, <2>1, <2>4, <2>5, AnalyzeType DEF Inv
  <1>2. Inv /\ [Next]_vars =>
          [Analyzed /\ ~last.delivered =>
             \A m \in last.due : m \in last'.raised => m \in last'.due]_vars
    BY <1>1
  <1>3. QED BY <1>2, Invariance, PTL DEF Spec, UndeliveredRetried

\* The cooldown: what the operator was told is not mailed again before it gets
\* worse or the cooldown passes, for any cooldown.
THEOREM CooldownKept == OneAtATime => (Spec => CooldownHeld)
  <1> SUFFICES ASSUME OneAtATime PROVE Spec => CooldownHeld
    OBVIOUS
  <1>1. ASSUME Inv, [Next]_vars, Analyzed /\ ~lost, NEW m \in last'.due
        PROVE  \/ told[m[1]] = "no"
               \/ told[m[1]] = "warn" /\ m[2] = "critical"
               \/ paged[m[1]] >= Cooldown
    <2>1. PICK t \in Slots, o \in Observations, delivered \in BOOLEAN : AnalysisOf(t, o, delivered)
      BY <1>1, AnalyzedIs DEF Inv
    <2>2. Tracks(tick[t].state) BY <1>1, <2>1, ReadTracks DEF AnalysisOf
    <2>3. PICK k \in DueOf(t, o) : m = <<k, o[k]>> BY <1>1, <2>1, AnalyzeType DEF Inv
    <2>4. k \in Keys /\ DueIn(tick[t].state, m) BY <1>1, <2>3, DueFacts DEF Inv
    <2>5. QED BY <2>2, <2>3, <2>4 DEF Tracks, DueIn
  <1>2. Inv /\ [Next]_vars =>
          [Analyzed /\ ~lost => \A m \in last'.due :
             \/ told[m[1]] = "no"
             \/ told[m[1]] = "warn" /\ m[2] = "critical"
             \/ paged[m[1]] >= Cooldown]_vars
    BY <1>1
  <1>3. QED BY <1>2, Invariance, PTL DEF Spec, CooldownHeld

\* Nothing stays unsaid: after an analysis whose mail went out, a check that
\* failed past its debounce was mailed about within the cooldown.
THEOREM NothingUnsaid == OneAtATime => (Spec => FailureIsTold)
  <1> SUFFICES ASSUME OneAtATime PROVE Spec => FailureIsTold
    OBVIOUS
  <1>1. ASSUME Inv, [Next]_vars, Analyzed /\ last'.delivered /\ ~lost,
               NEW k \in last'.failed, failing'[k] >= Limit(k)
        PROVE  paged'[k] < Cooldown
    <2>1. PICK t \in Slots, o \in Observations, delivered \in BOOLEAN : AnalysisOf(t, o, delivered)
      BY <1>1, AnalyzedIs DEF Inv
    <2>2. Tracks(tick[t].state) /\ tick[t].age = 0
      BY <1>1, <2>1, ReadTracks DEF AnalysisOf, Inv, ReadsStored
    <2>3. k \in Keys /\ Failed(o[k]) /\ delivered BY <1>1, <2>1, AnalyzeType DEF Inv
    <2>4. Debounced(k) => StreakOf(t, o)[k] >= Limit(k)
      BY <1>1, <2>1, <2>2, <2>3, StreakMoves DEF Inv
    <2>5. k \in AlertsOf(t, o) BY <1>1, <2>3, <2>4, DueFacts DEF Inv
    <2>6. paged'[k] = IF k \in DueOf(t, o) THEN 0 ELSE paged[k]
      <3>1. paged' = [j \in Keys |->
                IF delivered /\ j \in DueOf(t, o) THEN tick[t].age ELSE paged[j]]
        BY <1>1, <2>1, HistoryOf
      <3>2. QED BY <2>2, <2>3, <3>1
    <2>7. CASE k \in DueOf(t, o) BY <2>6, <2>7, MonitorAssumption
    <2>8. CASE k \notin DueOf(t, o)
      <3>1. ~DueIn(tick[t].state, <<k, o[k]>>) BY <1>1, <2>5, <2>8, DueFacts DEF Inv
      <3>2. tick[t].state.sentAt[k] \in 0..Never BY <1>1, <2>3 DEF Inv, TypeOK, States
      <3>3. tick[t].state.sentAt[k] < Cooldown /\ tick[t].state.sentAt[k] # Never
        BY <3>1, <3>2, MonitorAssumption DEF DueIn, Never
      <3>4. QED BY <2>2, <2>3, <2>6, <2>8, <3>3 DEF Tracks
    <2>9. QED BY <2>7, <2>8
  <1>2. Inv /\ [Next]_vars =>
          [Analyzed /\ last'.delivered /\ ~lost =>
             \A k \in last'.failed : failing'[k] >= Limit(k) => paged'[k] < Cooldown]_vars
    BY <1>1
  <1>3. QED BY <1>2, Invariance, PTL DEF Spec, FailureIsTold
=============================================================================
