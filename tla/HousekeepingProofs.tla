------------------------ MODULE HousekeepingProofs ------------------------
(***************************************************************************)
(* Housekeeping, for any sockets, contexts, caps and periods: type         *)
(* correctness, one acting context, the cap and the deadline on pre-auth   *)
(* sockets, and the watch over the idle TTL.                               *)
(*                                                                         *)
(* The deadline needs the most.  A context's timer and the shared row tell *)
(* the same time, except that a retry after a throw and a timer that was   *)
(* let go leave a row that is due (TimerServesRow).  A socket past its     *)
(* upgrade implies a row, so that ensureAlarm never arms a timer for one   *)
(* that has waited unwatched, and its age and the time left add up to at   *)
(* most the deadline and one retry (AwakeInTime).                          *)
(***************************************************************************)
EXTENDS Housekeeping, FiniteSetTheorems, TLAPS

DownIsEmpty ==
    up = "down" =>
        /\ registry = NoContext /\ strayed = FALSE /\ verifying = {}
        /\ \A s \in Sockets : sock[s] = "none"

\* No time passes while an upgrade awaits its tag.
UpgradeIsNew == \A s \in upgrading : age[s] = 0

TimerServesRow ==
    strayed = FALSE /\ registry # NoContext =>
        \/ timer[registry] = row
        \/ row = 0 /\ timer[registry] <= ALARM_RETRY

AwakeInTime ==
    strayed = FALSE /\ registry # NoContext =>
        \A s \in PreAuth(registry) \ upgrading :
            /\ row # None
            /\ timer[registry] # None => age[s] + timer[registry] <= Overdue

Base == TypeOK /\ EstablishedPersistsAlarm
\* A proof that awaits verifyJoin is of a socket that was not admitted.
PendingProofs == \A s \in verifying : sock[s] \in {"preauth", "severed"}

Single == OneContextActs /\ DownIsEmpty
Timely == UpgradeIsNew /\ TimerServesRow /\ AwakeInTime

Inv == Base /\ PendingProofs /\ Single /\ PreAuthBounded /\ Timely

-----------------------------------------------------------------------------
(* What the alarm's operators do.                                          *)

\* Min of a set of one or two integers.
LEMMA MinOfTwo ==
  ASSUME NEW a \in Int, NEW b \in Int, NEW W, W # {}, W \subseteq {a, b}
  PROVE  Min(W) \in W /\ \A y \in W : Min(W) <= y
  <1>1. \E x \in W : \A y \in W : x <= y
    <2>1. CASE a \in W /\ b \in W BY <2>1
    <2>2. CASE a \notin W
      <3>1. W = {b} BY <2>2
      <3>2. QED BY <3>1
    <2>3. CASE b \notin W
      <3>1. W = {a} BY <2>3
      <3>2. QED BY <3>1
    <2>4. QED BY <2>1, <2>2, <2>3
  <1>2. QED BY <1>1 DEF Min

\* The next alarm is within the TTL, and within the interval while pre-auth
\* sockets remain; an established room always asks for one.
LEMMA NextAlarmBounds ==
  ASSUME TypeOK, NEW P
  PROVE  /\ verifier = "set" \/ P # {} => NextAlarm(P) # {}
         /\ NextAlarm(P) # {} =>
              /\ Min(NextAlarm(P)) \in 0..IDLE_TTL
              /\ P # {} => Min(NextAlarm(P)) <= HOUSEKEEPING_INTERVAL
  <1> DEFINE W == NextAlarm(P)
  <1>1. W \subseteq 0..IDLE_TTL
    BY HousekeepingAssumption DEF NextAlarm, LastActivity, TypeOK, None
  <1>2. /\ verifier = "set" => W # {}
        /\ P # {} => HOUSEKEEPING_INTERVAL \in W
    BY DEF NextAlarm
  <1>3. W \subseteq {HOUSEKEEPING_INTERVAL, IDLE_TTL - LastActivity} BY DEF NextAlarm
  <1>4. HOUSEKEEPING_INTERVAL \in Int /\ IDLE_TTL - LastActivity \in Int
    BY HousekeepingAssumption DEF LastActivity, TypeOK, None
  <1> HIDE DEF W
  <1>5. ASSUME W # {} PROVE Min(W) \in W /\ \A y \in W : Min(W) <= y
    BY <1>3, <1>4, <1>5, MinOfTwo
  <1>6. QED BY <1>1, <1>2, <1>5 DEF W

\* alarm() touches the timer of its own context only, and leaves the timer and
\* the row together or lets the timer go and the row as it was.
LEMMA AlarmRowsEffect ==
  ASSUME Base, NEW c \in Contexts, AlarmRows(c)
  PROVE  /\ row' \in {None} \cup 0..IDLE_TTL
         /\ verifier' \in {"none", "set"} /\ idle' \in {None} \cup 0..IDLE_TTL
         /\ token' \in {None} \cup 0..(EPHEMERAL_TTL + 1)
         /\ eph' \in {None} \cup 0..(EPHEMERAL_TTL + 1)
         /\ leftover' \in {"none", "set"}
         /\ timer' = [timer EXCEPT ![c] = timer'[c]]
         /\ timer'[c] \in {None} \cup 0..IDLE_TTL
         /\ torn' \in {"no", "yes"} /\ EstablishedPersistsAlarm'
         /\ verifier' = "set" => verifier = "set" /\ timer'[c] # None
         /\ timer'[c] = row' \/ (timer'[c] = None /\ row' = row)
         /\ row' = None => PastTTL \/ row = None
         /\ PastTTL \/ PreAuth(c) \ Overstayed(c) = {}
              \/ (timer'[c] # None /\ timer'[c] <= HOUSEKEEPING_INTERVAL)
  <1> DEFINE P == PreAuth(c) \ Overstayed(c)
  <1> USE DEF Base
  <1>1. CASE PastTTL
    BY <1>1, HousekeepingAssumption
    DEF AlarmRows, WipeRows, WipeKv, SetAlarm, TypeOK, EstablishedPersistsAlarm, None
  <1>2. CASE ~PastTTL /\ NextAlarm(P) # {}
    <2>1. /\ row' = Min(NextAlarm(P))
          /\ timer' = [timer EXCEPT ![c] = Min(NextAlarm(P))]
          /\ token' = PruneExpired(token) /\ eph' = PruneExpired(eph)
          /\ idle' = LastActivity /\ torn' = "no" /\ UNCHANGED <<verifier, leftover>>
      BY <1>2 DEF AlarmRows, SetAlarm
    <2>2. Min(NextAlarm(P)) \in 0..IDLE_TTL
          /\ (P # {} => Min(NextAlarm(P)) <= HOUSEKEEPING_INTERVAL)
      BY <1>2, NextAlarmBounds
    <2>3. timer'[c] = Min(NextAlarm(P)) BY <2>1 DEF TypeOK
    <2> HIDE DEF P
    <2>4. QED BY <2>1, <2>2, <2>3, HousekeepingAssumption
              DEF PruneExpired, LastActivity, TypeOK, EstablishedPersistsAlarm, None, P
  <1>3. CASE ~PastTTL /\ NextAlarm(P) = {}
    <2>1. /\ timer' = [timer EXCEPT ![c] = None]
          /\ token' = PruneExpired(token) /\ eph' = PruneExpired(eph)
          /\ idle' = LastActivity /\ UNCHANGED <<verifier, leftover, row, torn>>
      BY <1>3 DEF AlarmRows
    <2>2. verifier # "set" /\ P = {} BY <1>3, NextAlarmBounds
    <2>3. timer'[c] = None BY <2>1 DEF TypeOK
    <2> HIDE DEF P
    <2>4. QED BY <2>1, <2>2, <2>3, HousekeepingAssumption
              DEF PruneExpired, LastActivity, TypeOK, EstablishedPersistsAlarm, None, P
  <1>4. QED BY <1>1, <1>2, <1>3

\* ensureAlarm leaves a row, and moves it and the timer of its context to the
\* interval or leaves both.
LEMMA EnsureAlarmEffect ==
  ASSUME Base, NEW c \in Contexts, EnsureAlarm(c)
  PROVE  /\ row' \in 0..IDLE_TTL /\ torn' \in {"no", "yes"}
         /\ timer' = [timer EXCEPT ![c] = timer'[c]]
         /\ timer'[c] \in {None} \cup 0..(IDLE_TTL + ALARM_RETRY)
         /\ \/ /\ row = None \/ row > HOUSEKEEPING_INTERVAL
               /\ row' = HOUSEKEEPING_INTERVAL /\ timer'[c] = HOUSEKEEPING_INTERVAL
            \/ /\ row \in 0..HOUSEKEEPING_INTERVAL
               /\ row' = row /\ timer' = timer
  BY HousekeepingAssumption DEF Base, TypeOK, EnsureAlarm, SetAlarm, None

LEMMA CloseType ==
  ASSUME TypeOK, NEW T, Close(T)
  PROVE  /\ sock' \in [Sockets -> {"none", "preauth", "admitted", "severed"}]
         /\ age' \in [Sockets -> 0..MaxAge]
  BY HousekeepingAssumption DEF TypeOK, Close, Ended, MaxAge, Overdue

\* runtime.get: the rows and timers after it, in the two cases of init.
LEMMA GetEffect ==
  ASSUME Base, NEW c \in Contexts, Get(c)
  PROVE  /\ up = "up" /\ registry' = c
         /\ registry = c \/ (registry = NoContext /\ Unused(c))
         /\ row' \in {None} \cup 0..IDLE_TTL
         /\ verifier' \in {"none", "set"} /\ idle' \in {None} \cup 0..IDLE_TTL
         /\ token' \in {None} \cup 0..(EPHEMERAL_TTL + 1)
         /\ eph' \in {None} \cup 0..(EPHEMERAL_TTL + 1)
         /\ leftover' \in {"none", "set"}
         /\ timer' = [timer EXCEPT ![c] = timer'[c]]
         /\ timer'[c] \in {None} \cup 0..(IDLE_TTL + ALARM_RETRY)
         /\ torn' \in {"no", "yes"} /\ EstablishedPersistsAlarm'
         /\ verifier' = "set" => verifier = "set"
         /\ registry = c => UNCHANGED <<row, timer>>
         /\ registry = NoContext =>
              \/ timer'[c] = row'
              \/ timer'[c] = None /\ row = 0 /\ row' = 0
         /\ registry = NoContext /\ verifier' = "set" /\ row # None => timer'[c] # None
         /\ registry = NoContext /\ row = 0 => AlarmRows(c)
  <1>1. CASE registry = NoContext /\ row = 0
    <2>1. AlarmRows(c) /\ up = "up" /\ registry' = c /\ Unused(c)
      BY <1>1, HousekeepingAssumption DEF Get
    <2>2. QED BY <1>1, <2>1, AlarmRowsEffect, HousekeepingAssumption DEF None
  <1>2. CASE ~(registry = NoContext /\ row = 0)
    BY <1>2, HousekeepingAssumption
    DEF Get, Base, TypeOK, EstablishedPersistsAlarm, kv, None
  <1>3. QED BY <1>1, <1>2

-----------------------------------------------------------------------------
(* The shape of the state, and the alarm row of an established room.       *)

LEMMA InitBase == Init => Base
  <1> SUFFICES ASSUME Init PROVE TypeOK /\ EstablishedPersistsAlarm
    BY DEF Base
  <1> USE DEF Init
  <1>1. PICK c \in Contexts : home = [s \in Sockets |-> c] OBVIOUS
  <1>2. age \in [Sockets -> 0..MaxAge] BY HousekeepingAssumption DEF MaxAge, Overdue
  <1>3. home \in [Sockets -> Contexts] BY <1>1
  <1>4. strayed \in BOOLEAN BY Zenon
  <1>5. TypeOK BY <1>2, <1>3, <1>4 DEF TypeOK
  <1>6. QED BY <1>5 DEF EstablishedPersistsAlarm

LEMMA EvictType ==
  ASSUME TypeOK, NEW c, MaybeEvict(c)
  PROVE  registry' \in Contexts \cup {NoContext}
  BY DEF TypeOK, MaybeEvict

LEMMA AdmitType ==
  ASSUME TypeOK, NEW s \in Sockets, NEW outcome, Admit(s, outcome)
  PROVE  /\ sock' \in [Sockets -> {"none", "preauth", "admitted", "severed"}]
         /\ age' \in [Sockets -> 0..MaxAge]
         /\ token' \in {None} \cup 0..(EPHEMERAL_TTL + 1)
         /\ leftover' \in {"none", "set"}
  <1>1. CASE outcome = "refused"
    BY <1>1, CloseType DEF Admit, Charged, TypeOK
  <1>2. CASE outcome # "refused"
    BY <1>2, HousekeepingAssumption DEF Admit, Charged, TypeOK
  <1>3. QED BY <1>1, <1>2

\* What a throwing alarm leaves.
LEMMA InPartType ==
  ASSUME Base, NEW c \in Contexts, AlarmInPart(c)
  PROVE  /\ sock' \in [Sockets -> {"none", "preauth", "admitted", "severed"}]
         /\ age' \in [Sockets -> 0..MaxAge]
         /\ verifier' \in {verifier, "none"} /\ idle' \in {None} \cup 0..IDLE_TTL
         /\ token' \in {None} \cup 0..(EPHEMERAL_TTL + 1)
         /\ eph' \in {None} \cup 0..(EPHEMERAL_TTL + 1)
         /\ leftover' \in {"none", "set"}
  <1>1. Close(Overstayed(c)) \/ Close(SocketsOf(c)) BY DEF AlarmInPart
  <1>2. QED BY <1>1, CloseType, HousekeepingAssumption
            DEF AlarmInPart, WipeKv, PruneExpired, LastActivity, Base, TypeOK

LEMMA NextBase == Base /\ [Next]_vars => Base'
  <1> SUFFICES ASSUME Base, [Next]_vars PROVE Base'
    OBVIOUS
  <1> USE HousekeepingAssumption DEF Base, conns, pins
  <1>1. ASSUME NEW c \in Contexts, Fire(c) PROVE Base'
    BY <1>1, AlarmRowsEffect, CloseType, EvictType DEF Fire, TypeOK
  <1>2. ASSUME NEW c \in Contexts, FireThrows(c) PROVE Base'
    BY <1>2, InPartType DEF FireThrows, TypeOK, EstablishedPersistsAlarm
  <1>3. ASSUME NEW c \in Contexts, NEW s \in Sockets, HandleUpgrade(c, s) PROVE Base'
    BY <1>3, GetEffect DEF HandleUpgrade, TypeOK, MaxAge, Overdue
  <1>4. ASSUME NEW c \in Contexts, NEW kind \in Kinds, BeginHttp(c, kind) PROVE Base'
    BY <1>4, GetEffect DEF BeginHttp, TypeOK
  <1>5. ASSUME NEW c \in Contexts, NEW kind \in Kinds, HttpRefused(c, kind) PROVE Base'
    BY <1>5, EvictType
    DEF HttpRefused, TypeOK, EstablishedPersistsAlarm, kv
  <1>6. ASSUME NEW c \in Contexts, AttestCommit(c) PROVE Base'
    BY <1>6, EnsureAlarmEffect, EvictType
    DEF AttestCommit, TypeOK, EstablishedPersistsAlarm, None
  <1>7. ASSUME NEW c \in Contexts, RegisterCommit(c) PROVE Base'
    BY <1>7, EnsureAlarmEffect, EvictType
    DEF RegisterCommit, TypeOK, EstablishedPersistsAlarm, None
  <1>8. ASSUME NEW c \in Contexts, DeleteCommit(c) PROVE Base'
    BY <1>8, CloseType, EvictType
    DEF DeleteCommit, WipeRows, WipeKv, SetAlarm, TypeOK, EstablishedPersistsAlarm
  <1>9. ASSUME NEW c \in Contexts, Rehydrate(c) PROVE Base'
    <2>1. CASE row = 0
      BY <1>9, <2>1, AlarmRowsEffect DEF Rehydrate, TypeOK
    <2>2. CASE row # 0
      BY <1>9, <2>2 DEF Rehydrate, TypeOK, EstablishedPersistsAlarm, kv
    <2>3. QED BY <2>1, <2>2
  <1>10. ASSUME NEW s \in Sockets, UpgradeTagged(s) PROVE Base'
    <2>1. home[s] \in Contexts BY DEF TypeOK
    <2>2. PICK T \in ExcessPreAuth(home[s]) : Close(T) BY <1>10 DEF UpgradeTagged
    <2>3. QED BY <1>10, <2>1, <2>2, EnsureAlarmEffect, CloseType, EvictType
              DEF UpgradeTagged, TypeOK, EstablishedPersistsAlarm, kv, None
  <1>11. ASSUME NEW s \in Sockets, Leave(s) PROVE Base'
    BY <1>11, CloseType, EvictType
    DEF Leave, TypeOK, EstablishedPersistsAlarm, kv
  <1>12. ASSUME NEW s \in Sockets, NEW outcome \in Outcomes, AdmitPairing(s, outcome)
         PROVE  Base'
    <2>1. home[s] \in Contexts BY DEF TypeOK
    <2>2. CASE outcome = "phone"
      BY <1>12, <2>1, <2>2, EnsureAlarmEffect, AdmitType, EvictType
      DEF AdmitPairing, TypeOK, EstablishedPersistsAlarm, None
    <2>3. CASE outcome # "phone"
      BY <1>12, <2>3, AdmitType, EvictType DEF AdmitPairing, TypeOK, EstablishedPersistsAlarm
    <2>4. QED BY <2>2, <2>3
  <1>13. ASSUME NEW s \in Sockets, NEW outcome \in Outcomes, SignedProofVerified(s, outcome)
         PROVE  Base'
    <2>1. home[s] \in Contexts BY DEF TypeOK
    <2>2. strayed' \in BOOLEAN BY <1>13 DEF SignedProofVerified, TypeOK
    <2>3. /\ row' \in 0..IDLE_TTL /\ torn' \in {"no", "yes"}
          /\ timer' \in [Contexts -> {None} \cup 0..(IDLE_TTL + ALARM_RETRY)]
      BY <1>13, <2>1, EnsureAlarmEffect DEF SignedProofVerified, TypeOK
    <2>4. registry' \in Contexts \cup {NoContext} BY <1>13, EvictType DEF SignedProofVerified
    <2>5. /\ sock' \in [Sockets -> {"none", "preauth", "admitted", "severed"}]
          /\ age' \in [Sockets -> 0..MaxAge]
          /\ token' \in {None} \cup 0..(EPHEMERAL_TTL + 1)
          /\ leftover' \in {"none", "set"}
      BY <1>13, AdmitType DEF SignedProofVerified
    <2>6. /\ UNCHANGED <<up, home, upgrading, ops, verifier, eph>>
          /\ verifying' = verifying \ {s} /\ idle' = 0
      BY <1>13 DEF SignedProofVerified
    <2>7. QED BY <2>2, <2>3, <2>4, <2>5, <2>6 DEF TypeOK, EstablishedPersistsAlarm, None
  <1>14. ASSUME NEW s \in Sockets, SignedProof(s) PROVE Base'
    BY <1>14 DEF SignedProof, TypeOK, EstablishedPersistsAlarm, kv
  <1>15. ASSUME NEW s \in Sockets, SignedProofRejected(s) PROVE Base'
    BY <1>15, CloseType, EvictType
    DEF SignedProofRejected, TypeOK, EstablishedPersistsAlarm, kv
  <1>16. ASSUME Crash PROVE Base'
    <2>1. age' \in [Sockets -> 0..MaxAge] BY <1>16 DEF Crash, MaxAge, Overdue
    <2>2. strayed' \in BOOLEAN BY <1>16, Zenon DEF Crash
    <2>3. QED BY <1>16, <2>1, <2>2 DEF Crash, TypeOK, EstablishedPersistsAlarm, kv
  <1>17. ASSUME Tick PROVE Base'
    BY <1>17 DEF Tick, Older, Nearer, TypeOK, EstablishedPersistsAlarm, None, MaxAge,
                 Overdue
  <1>18. ASSUME UNCHANGED vars PROVE Base'
    BY <1>18 DEF vars, TypeOK, EstablishedPersistsAlarm, kv
  <1>19. ASSUME NEW s \in Sockets, TransportEnds(s) PROVE Base'
    BY <1>19, EvictType DEF TransportEnds, TypeOK, EstablishedPersistsAlarm, kv
  <1>20. ASSUME NEW s \in Sockets, CycleCapKills(s) PROVE Base'
    BY <1>20, CloseType, EvictType
    DEF CycleCapKills, WipeRows, WipeKv, SetAlarm, TypeOK, EstablishedPersistsAlarm
  <1>21. ASSUME NEW c \in Contexts, NEW writes \in 1..3, RegisterTorn(c, writes) PROVE Base'
    BY <1>21, EvictType DEF RegisterTorn, TypeOK, EstablishedPersistsAlarm, None
  <1>22. QED BY <1>1, <1>2, <1>3, <1>4, <1>5, <1>6, <1>7, <1>8, <1>9, <1>10, <1>11, <1>12, <1>13,
                <1>14, <1>15, <1>16, <1>17, <1>18, <1>19, <1>20, <1>21 DEF Next

-----------------------------------------------------------------------------
(* One context acts for the room.                                          *)

\* A context outside the registry: at most late proofs of severed sockets run
\* on it, and it has a timer only if it strayed.
Outside(c) ==
    /\ SocketsOf(c) = {}
    /\ \A s \in upgrading : home[s] # c
    /\ \A s \in verifying : home[s] = c => sock[s] = "severed"
    /\ \A k \in Kinds : <<c, k>> \notin ops
    /\ timer[c] # None => strayed

LEMMA OthersOutside == OneContextActs <=> \A c \in Contexts : c # registry => Outside(c)
  BY DEF OneContextActs, Outside

\* A step that gives context d nothing leaves it outside.
LEMMA OutsideStep ==
  ASSUME NEW d \in Contexts, Outside(d), home' = home,
         \A s \in Sockets : sock'[s] \in {"preauth", "admitted"} => sock[s] \in {"preauth", "admitted"},
         upgrading' \subseteq upgrading, ops' \subseteq ops,
         \A s \in verifying' : home[s] = d => sock'[s] = "severed",
         timer'[d] # None => strayed'
  PROVE  Outside(d)'
  BY DEF Outside, SocketsOf

\* A step on context c leaves the others outside, and c registered, or let go
\* idle, or as much outside as it was.
LEMMA SingleStep ==
  ASSUME OneContextActs, NEW c \in Contexts,
         \A d \in Contexts \ {c} : Outside(d) => Outside(d)',
         \/ registry' = c /\ registry \in {c, NoContext}
         \/ registry' = NoContext /\ registry = c /\ Idle(c)'
         \/ registry' = registry /\ registry # c /\ Outside(c)'
  PROVE  OneContextActs'
  <1> SUFFICES ASSUME NEW d \in Contexts, d # registry' PROVE Outside(d)'
    BY DEF OneContextActs, Outside
  <1>1. CASE d # c
    <2>1. d # registry BY <1>1, HousekeepingAssumption
    <2>2. QED BY <1>1, <2>1, OthersOutside
  <1>2. CASE d = c
    <2>1. CASE Idle(c)' BY <1>2, <2>1 DEF Idle, Outside, Pinned
    <2>2. QED BY <1>2, <2>1
  <1>3. QED BY <1>1, <1>2

LEMMA InitPending == Init => PendingProofs
  BY DEF Init, PendingProofs

LEMMA NextPending == Base /\ PendingProofs /\ [Next]_vars => PendingProofs'
  <1> SUFFICES ASSUME Base, PendingProofs, [Next]_vars PROVE PendingProofs'
    OBVIOUS
  <1> USE DEF conns, pins, Base
  <1>0. verifying \subseteq Sockets BY DEF TypeOK
  <1>1. ASSUME NEW T, Close(T), verifying' \subseteq verifying PROVE PendingProofs'
    BY <1>0, <1>1 DEF PendingProofs, Close, Ended
  <1>2. ASSUME NEW c \in Contexts, Fire(c) \/ FireThrows(c) \/ DeleteCommit(c) PROVE PendingProofs'
    <2>1. verifying' = verifying /\ \E T : Close(T)
      BY <1>2 DEF Fire, FireThrows, DeleteCommit, AlarmInPart
    <2>2. QED BY <1>1, <2>1
  <1>3. ASSUME NEW s \in Sockets,
               Leave(s) \/ SignedProofRejected(s) \/ CycleCapKills(s) \/ UpgradeTagged(s)
        PROVE  PendingProofs'
    <2>1. verifying' \subseteq verifying /\ \E T : Close(T)
      BY <1>3 DEF Leave, SignedProofRejected, CycleCapKills, UpgradeTagged
    <2>2. QED BY <1>1, <2>1
  <1>4. ASSUME NEW s \in Sockets, NEW outcome \in Outcomes,
               AdmitPairing(s, outcome) \/ SignedProofVerified(s, outcome)
        PROVE  PendingProofs'
    <2>1. Admit(s, outcome) /\ verifying' \subseteq verifying /\ s \notin verifying'
      BY <1>4 DEF AdmitPairing, SignedProofVerified, ProofComes
    <2>2. CASE outcome = "refused" BY <1>1, <2>1, <2>2 DEF Admit
    <2>3. CASE outcome # "refused" BY <1>0, <2>1, <2>3 DEF Admit, PendingProofs, TypeOK
    <2>4. QED BY <2>2, <2>3
  <1>5. ASSUME NEW c \in Contexts, NEW s \in Sockets, HandleUpgrade(c, s) PROVE PendingProofs'
    BY <1>0, <1>5 DEF HandleUpgrade, PendingProofs, TypeOK
  <1>6. ASSUME NEW s \in Sockets, TransportEnds(s) \/ SignedProof(s) PROVE PendingProofs'
    BY <1>0, <1>6 DEF TransportEnds, SignedProof, ProofComes, PendingProofs, TypeOK
  <1>7. ASSUME \/ \E c \in Contexts :
                    \/ \E kind \in Kinds : BeginHttp(c, kind) \/ HttpRefused(c, kind)
                    \/ AttestCommit(c) \/ RegisterCommit(c) \/ Rehydrate(c)
                    \/ \E writes \in 1..3 : RegisterTorn(c, writes)
               \/ Tick \/ UNCHANGED vars
        PROVE  PendingProofs'
    <2>1. UNCHANGED <<sock, verifying>>
      BY <1>7 DEF BeginHttp, HttpRefused, AttestCommit, RegisterCommit, Rehydrate, RegisterTorn,
                  Tick, vars
    <2>2. QED BY <2>1 DEF PendingProofs
  <1>8. ASSUME Crash PROVE PendingProofs' BY <1>8 DEF Crash, PendingProofs
  <1>9. QED BY <1>2, <1>3, <1>4, <1>5, <1>6, <1>7, <1>8 DEF Next

LEMMA InitSingle == Init => Single
  BY HousekeepingAssumption DEF Init, Single, OneContextActs, DownIsEmpty, SocketsOf

\* Whatever lives, lives in a process that is up.
LEMMA LiveIsUp ==
  ASSUME Base, Single, registry \in Contexts \/ \E s \in Sockets : sock[s] # "none" \/ s \in verifying
  PROVE  up = "up"
  BY HousekeepingAssumption DEF Base, TypeOK, Single, DownIsEmpty

\* Sockets and pins only go, but for late frames of context c; a timer is
\* written on c only, and makes c a stray when it is not registered.
LEMMA QuietSingle ==
  ASSUME Base, Single, NEW c \in Contexts, up = "up", up' = up, home' = home,
         \A s \in Sockets : sock'[s] \in {"preauth", "admitted"} => sock[s] \in {"preauth", "admitted"},
         upgrading' \subseteq upgrading, ops' \subseteq ops,
         \A s \in verifying' : \/ s \in verifying /\ (sock[s] = "severed" => sock'[s] = "severed")
                               \/ home[s] = c,
         timer' = [timer EXCEPT ![c] = timer'[c]],
         strayed => strayed',
         \/ c = registry
         \/ /\ \A s \in verifying' : home[s] = c => sock'[s] = "severed"
            /\ timer'[c] # None => strayed',
         MaybeEvict(c) \/ registry' = registry
  PROVE  Single'
  <1>1. ASSUME NEW d \in Contexts \ {c}, Outside(d) PROVE Outside(d)'
    <2>1. timer'[d] = timer[d] BY DEF Base, TypeOK
    <2>2. \A s \in verifying' : home[s] = d => sock'[s] = "severed" BY <1>1 DEF Outside
    <2>3. timer'[d] # None => strayed' BY <1>1, <2>1 DEF Outside
    <2>4. QED BY <1>1, <2>2, <2>3, OutsideStep
  <1>2. CASE c = registry
    <2>1. registry' = c \/ (registry' = NoContext /\ Idle(c)') BY <1>2 DEF MaybeEvict
    <2>2. OneContextActs' BY <1>1, <1>2, <2>1, SingleStep DEF Single
    <2>3. QED BY <2>2 DEF Single, DownIsEmpty
  <1>3. CASE c # registry
    <2>1. registry' = registry BY <1>3 DEF MaybeEvict
    <2>2. Outside(c) BY <1>3, OthersOutside DEF Single
    <2>3. Outside(c)' BY <1>3, <2>2, OutsideStep
    <2>4. OneContextActs' BY <1>1, <1>3, <2>1, <2>3, SingleStep DEF Single
    <2>5. QED BY <2>4 DEF Single, DownIsEmpty
  <1>4. QED BY <1>2, <1>3

\* runtime.get and what it admits: a socket or an operation of context c.
LEMMA GetSingle ==
  ASSUME Base, Single, NEW c \in Contexts, Get(c), up' = up, strayed' = strayed,
         \A d \in Contexts \ {c} : Outside(d) /\ timer'[d] = timer[d] => Outside(d)'
  PROVE  Single'
  <1>1. /\ up = "up" /\ registry' = c /\ registry \in {c, NoContext}
        /\ timer' = [timer EXCEPT ![c] = timer'[c]]
    BY GetEffect
  <1>2. \A d \in Contexts \ {c} : timer'[d] = timer[d] BY <1>1 DEF Base, TypeOK
  <1>3. OneContextActs' BY <1>1, <1>2, SingleStep DEF Single
  <1>4. QED BY <1>1, <1>3 DEF Single, DownIsEmpty

\* Closing sockets severs or ends them.
LEMMA CloseShrinks ==
  ASSUME TypeOK, NEW T, Close(T)
  PROVE  \A s \in Sockets :
            /\ sock'[s] \in {"preauth", "admitted"} =>
                  s \notin T /\ sock'[s] = sock[s] /\ age'[s] = age[s]
            /\ sock[s] = "severed" => sock'[s] = "severed"
            /\ age'[s] = 0 \/ age'[s] = age[s]
  BY DEF Close, Ended, TypeOK

LEMMA AdmitShrinks ==
  ASSUME TypeOK, NEW s \in Sockets, NEW outcome, Admit(s, outcome),
         sock[s] \in {"preauth", "severed"}
  PROVE  \A t \in Sockets :
            /\ sock'[t] \in {"preauth", "admitted"} => sock[t] \in {"preauth", "admitted"}
            /\ sock'[t] = "preauth" => sock[t] = "preauth" /\ age'[t] = age[t]
            /\ t # s /\ sock[t] = "severed" => sock'[t] = "severed"
            /\ age'[t] = 0 \/ age'[t] = age[t]
  <1>1. CASE outcome = "refused"
    <2>1. Close({s}) BY <1>1 DEF Admit
    <2>2. QED BY <2>1, CloseShrinks
  <1>2. CASE outcome # "refused" BY <1>2 DEF Admit, TypeOK
  <1>3. QED BY <1>1, <1>2

LEMMA InPartShrinks ==
  ASSUME TypeOK, NEW c, AlarmInPart(c)
  PROVE  \A s \in Sockets :
            /\ sock'[s] \in {"preauth", "admitted"} => sock'[s] = sock[s] /\ age'[s] = age[s]
            /\ sock[s] = "severed" => sock'[s] = "severed"
            /\ age'[s] = 0 \/ age'[s] = age[s]
  <1>1. Close(Overstayed(c)) \/ Close(SocketsOf(c)) BY DEF AlarmInPart
  <1>2. QED BY <1>1, CloseShrinks

\* An alarm: of the registered context, or of a stray.
LEMMA FireSingle ==
  ASSUME Base, Single, NEW c \in Contexts, Fire(c) \/ FireThrows(c)
  PROVE  Single'
  <1> USE DEF Base
  <1>1. /\ UNCHANGED <<home, upgrading, verifying, ops, up, strayed>>
        /\ up = "up" /\ timer[c] = 0
        /\ MaybeEvict(c) \/ registry' = registry
    BY DEF Fire, FireThrows, pins
  <1>2. \A s \in Sockets :
           /\ sock'[s] \in {"preauth", "admitted"} => sock'[s] = sock[s]
           /\ sock[s] = "severed" => sock'[s] = "severed"
    BY CloseShrinks, InPartShrinks DEF Fire, FireThrows
  <1>3. timer' = [timer EXCEPT ![c] = timer'[c]]
    BY AlarmRowsEffect DEF Fire, FireThrows, TypeOK
  <1>4. verifying \subseteq Sockets BY DEF TypeOK
  <1>5. c # registry => strayed /\ \A s \in verifying : home[s] = c => sock[s] = "severed"
    BY <1>1 DEF Single, OneContextActs, None
  <1>6. QED BY <1>1, <1>2, <1>3, <1>4, <1>5, QuietSingle

\* A boot: nothing acts yet, and the context of a past-due alarm is a stray.
LEMMA RehydrateSingle ==
  ASSUME Base, Single, NEW c \in Contexts, Rehydrate(c)
  PROVE  Single'
  <1>1. /\ up' = "up" /\ registry = NoContext /\ strayed' = (row = 0) /\ strayed = FALSE
        /\ verifying = {} /\ \A s \in Sockets : sock[s] = "none"
        /\ UNCHANGED <<sock, home, upgrading, verifying, ops>>
    BY DEF Rehydrate, Single, DownIsEmpty, conns, pins
  <1>2. \A d \in Contexts : Outside(d) /\ timer[d] = None
    BY <1>1, OthersOutside, HousekeepingAssumption DEF Single, Outside
  <1>3. ASSUME row # 0, NEW d \in Contexts, d # registry' PROVE timer'[d] = None
    BY <1>2, <1>3 DEF Rehydrate, Base, TypeOK
  <1>4. OneContextActs' BY <1>1, <1>2, <1>3 DEF OneContextActs, Outside, SocketsOf
  <1>5. QED BY <1>1, <1>4 DEF Single, DownIsEmpty

\* Whose context a step on a live socket, or on an operation, runs in.
LEMMA SocketHome ==
  ASSUME Base, Single, NEW s \in Sockets,
         sock[s] \in {"preauth", "admitted"} \/ s \in upgrading \/ MacParked(s)
  PROVE  home[s] \in Contexts /\ home[s] = registry
  <1>1. home[s] \in Contexts BY DEF Base, TypeOK
  <1>2. SocketsOf(home[s]) # {} \/ s \in upgrading BY DEF MacParked, SocketsOf
  <1>3. QED BY <1>1, <1>2 DEF Single, OneContextActs

LEMMA OperationHome ==
  ASSUME Base, Single, NEW c \in Contexts, NEW kind \in Kinds, <<c, kind>> \in ops
  PROVE  c = registry
  BY DEF Single, OneContextActs

LEMMA NextSingle == Base /\ PendingProofs /\ Single /\ [Next]_vars => Single'
  <1> SUFFICES ASSUME Base, PendingProofs, Single, [Next]_vars PROVE Single'
    OBVIOUS
  <1> USE DEF conns, pins, Base
  <1>0. /\ verifying \subseteq Sockets /\ home \in [Sockets -> Contexts]
        /\ \A c \in Contexts : timer = [timer EXCEPT ![c] = timer[c]]
    BY DEF TypeOK
  <1>1. ASSUME NEW c \in Contexts, Fire(c) \/ FireThrows(c) PROVE Single'
    BY <1>1, FireSingle
  <1>2. ASSUME NEW c \in Contexts, NEW s \in Sockets, HandleUpgrade(c, s) PROVE Single'
    <2>1. ASSUME NEW d \in Contexts \ {c}, Outside(d), timer'[d] = timer[d] PROVE Outside(d)'
      BY <1>2, <2>1 DEF HandleUpgrade, Outside, SocketsOf, TypeOK
    <2>2. QED BY <1>2, <2>1, GetSingle DEF HandleUpgrade
  <1>3. ASSUME NEW c \in Contexts, NEW kind \in Kinds, BeginHttp(c, kind) PROVE Single'
    <2>1. ASSUME NEW d \in Contexts \ {c}, Outside(d), timer'[d] = timer[d] PROVE Outside(d)'
      BY <1>3, <2>1 DEF BeginHttp, Outside, SocketsOf
    <2>2. QED BY <1>3, <2>1, GetSingle DEF BeginHttp
  <1>4. ASSUME NEW c \in Contexts,
               \/ \E kind \in Kinds : HttpRefused(c, kind)
               \/ \E writes \in 1..3 : RegisterTorn(c, writes)
        PROVE  Single'
    <2>1. c = registry BY <1>4, OperationHome DEF HttpRefused, RegisterTorn, Kinds
    <2>2. up = "up" BY <2>1, LiveIsUp
    <2>3. /\ UNCHANGED <<up, strayed, timer, sock, home, upgrading, verifying>>
          /\ ops' \subseteq ops /\ MaybeEvict(c)
      BY <1>4 DEF HttpRefused, RegisterTorn
    <2>4. QED BY <1>0, <2>1, <2>2, <2>3, QuietSingle
  <1>5. ASSUME NEW c \in Contexts, AttestCommit(c) \/ RegisterCommit(c) PROVE Single'
    <2>1. c = registry BY <1>5, OperationHome DEF AttestCommit, RegisterCommit, Kinds
    <2>2. up = "up" BY <2>1, LiveIsUp
    <2>3. timer' = [timer EXCEPT ![c] = timer'[c]]
      BY <1>5, EnsureAlarmEffect DEF AttestCommit, RegisterCommit
    <2>4. QED BY <1>5, <2>1, <2>2, <2>3, QuietSingle DEF AttestCommit, RegisterCommit
  <1>6. ASSUME NEW c \in Contexts, DeleteCommit(c) PROVE Single'
    <2>1. c = registry BY <1>6, OperationHome DEF DeleteCommit, Kinds
    <2>2. up = "up" BY <2>1, LiveIsUp
    <2>3. timer' = [timer EXCEPT ![c] = timer'[c]]
      BY <1>6 DEF DeleteCommit, WipeRows, SetAlarm, TypeOK
    <2>4. \A s \in Sockets :
             /\ sock'[s] \in {"preauth", "admitted"} => sock[s] \in {"preauth", "admitted"}
             /\ sock[s] = "severed" => sock'[s] = "severed"
      BY <1>6, CloseShrinks DEF DeleteCommit
    <2>5. QED BY <1>0, <1>6, <2>1, <2>2, <2>3, <2>4, QuietSingle DEF DeleteCommit
  <1>7. ASSUME NEW c \in Contexts, Rehydrate(c) PROVE Single'
    BY <1>7, RehydrateSingle
  <1>8. ASSUME NEW s \in Sockets, UpgradeTagged(s) PROVE Single'
    <2>1. home[s] \in Contexts /\ home[s] = registry BY <1>8, SocketHome DEF UpgradeTagged
    <2>2. up = "up" BY <2>1, LiveIsUp
    <2>3. PICK T \in ExcessPreAuth(home[s]) : Close(T) BY <1>8 DEF UpgradeTagged
    <2>4. timer' = [timer EXCEPT ![home[s]] = timer'[home[s]]]
      BY <1>8, <2>1, EnsureAlarmEffect DEF UpgradeTagged
    <2>5. \A t \in Sockets :
             /\ sock'[t] \in {"preauth", "admitted"} => sock[t] \in {"preauth", "admitted"}
             /\ sock[t] = "severed" => sock'[t] = "severed"
      BY <2>3, CloseShrinks
    <2>6. QED BY <1>0, <1>8, <2>1, <2>2, <2>4, <2>5, QuietSingle DEF UpgradeTagged
  <1>9. ASSUME NEW s \in Sockets, Leave(s) \/ SignedProofRejected(s) PROVE Single'
    <2>1. up = "up" BY <1>9, LiveIsUp DEF Leave, SignedProofRejected
    <2>2. \A t \in Sockets :
             /\ sock'[t] \in {"preauth", "admitted"} => sock[t] \in {"preauth", "admitted"}
             /\ sock[t] = "severed" => sock'[t] = "severed"
      BY <1>9, CloseShrinks DEF Leave, SignedProofRejected
    <2>3. /\ UNCHANGED <<up, strayed, timer, home, upgrading, ops>>
          /\ verifying' \subseteq verifying /\ MaybeEvict(home[s])
      BY <1>9 DEF Leave, SignedProofRejected
    <2>4. home[s] # registry => Outside(home[s]) BY <1>0, OthersOutside DEF Single
    <2>5. home[s] # registry =>
             /\ \A t \in verifying' : home[t] = home[s] => sock'[t] = "severed"
             /\ timer'[home[s]] # None => strayed'
      BY <1>0, <2>2, <2>3, <2>4 DEF Outside
    <2>6. QED BY <1>0, <2>1, <2>2, <2>3, <2>5, QuietSingle
  <1>10. ASSUME NEW s \in Sockets, TransportEnds(s) \/ SignedProof(s) PROVE Single'
    <2>1. up = "up" BY <1>10, LiveIsUp DEF TransportEnds, SignedProof, ProofComes
    <2>2. \A t \in Sockets :
             /\ sock'[t] \in {"preauth", "admitted"} => sock[t] \in {"preauth", "admitted"}
             /\ t \in verifying => sock'[t] = sock[t]
      BY <1>10 DEF TransportEnds, SignedProof, TypeOK
    <2>3. /\ UNCHANGED <<up, strayed, timer, home, upgrading, ops>>
          /\ MaybeEvict(home[s]) \/ registry' = registry
      BY <1>10 DEF TransportEnds, SignedProof
    <2>4. \A t \in verifying' : t \in verifying \/ (t = s /\ ProofComes(s) /\ sock' = sock)
      BY <1>10 DEF TransportEnds, SignedProof
    <2>5. home[s] # registry => Outside(home[s]) /\ sock[s] \notin {"preauth", "admitted"}
      BY <1>0, OthersOutside DEF Single, Outside, SocketsOf
    <2>6. home[s] # registry =>
             /\ \A t \in verifying' : home[t] = home[s] => sock'[t] = "severed"
             /\ timer'[home[s]] # None => strayed'
      BY <1>0, <2>2, <2>3, <2>4, <2>5 DEF Outside, ProofComes
    <2>7. QED BY <1>0, <2>1, <2>2, <2>3, <2>4, <2>6, QuietSingle
  <1>11. ASSUME NEW s \in Sockets, NEW outcome \in Outcomes, AdmitPairing(s, outcome)
         PROVE  Single'
    <2>1. up = "up" BY <1>11, LiveIsUp DEF AdmitPairing, ProofComes
    <2>2. Admit(s, outcome) /\ ProofComes(s) BY <1>11 DEF AdmitPairing
    <2>3. \A t \in Sockets :
             /\ sock'[t] \in {"preauth", "admitted"} => sock[t] \in {"preauth", "admitted"}
             /\ t # s /\ sock[t] = "severed" => sock'[t] = "severed"
      BY <2>2, AdmitShrinks DEF ProofComes
    <2>4. timer' = [timer EXCEPT ![home[s]] = timer'[home[s]]]
          /\ (outcome # "phone" => timer' = timer)
      BY <1>0, <1>11, EnsureAlarmEffect DEF AdmitPairing
    <2>5. outcome = "phone" => home[s] = registry
      BY <2>2, SocketHome DEF Admit
    <2>6. /\ UNCHANGED <<up, strayed, home, upgrading, verifying, ops>>
          /\ MaybeEvict(home[s]) /\ s \notin verifying
      BY <1>11 DEF AdmitPairing, ProofComes
    <2>7. home[s] # registry => Outside(home[s]) BY <1>0, OthersOutside DEF Single
    <2>8. home[s] # registry =>
             /\ \A t \in verifying' : home[t] = home[s] => sock'[t] = "severed"
             /\ timer'[home[s]] # None => strayed'
      BY <1>0, <2>3, <2>4, <2>5, <2>6, <2>7 DEF Outside
    <2>9. QED BY <1>0, <2>1, <2>3, <2>4, <2>6, <2>8, QuietSingle
  <1>12. ASSUME NEW s \in Sockets, NEW outcome \in Outcomes, SignedProofVerified(s, outcome)
         PROVE  Single'
    <2>1. up = "up" BY <1>12, LiveIsUp DEF SignedProofVerified
    <2>2. sock[s] \in {"preauth", "severed"}
      BY <1>12 DEF SignedProofVerified, PendingProofs
    <2>3. \A t \in Sockets :
             /\ sock'[t] \in {"preauth", "admitted"} => sock[t] \in {"preauth", "admitted"}
             /\ t # s /\ sock[t] = "severed" => sock'[t] = "severed"
      BY <1>12, <2>2, AdmitShrinks DEF SignedProofVerified
    <2>4. timer' = [timer EXCEPT ![home[s]] = timer'[home[s]]]
      BY <1>0, <1>12, EnsureAlarmEffect DEF SignedProofVerified
    <2>5. /\ UNCHANGED <<up, home, upgrading, ops>> /\ verifying' = verifying \ {s}
          /\ MaybeEvict(home[s])
          /\ strayed' = IF home[s] # registry /\ timer'[home[s]] # None THEN TRUE ELSE strayed
      BY <1>12 DEF SignedProofVerified
    <2>6. home[s] # registry => Outside(home[s]) BY <1>0, OthersOutside DEF Single
    <2>7. /\ strayed => strayed'
          /\ home[s] # registry /\ timer'[home[s]] # None => strayed'
      BY <2>5
    <2>8. home[s] # registry => \A t \in verifying' : home[t] = home[s] => sock'[t] = "severed"
      BY <1>0, <2>3, <2>5, <2>6 DEF Outside
    <2>9. QED BY <1>0, <2>1, <2>3, <2>4, <2>5, <2>7, <2>8, QuietSingle
  <1>13. ASSUME NEW s \in Sockets, CycleCapKills(s) PROVE Single'
    <2>1. home[s] \in Contexts /\ home[s] = registry BY <1>13, SocketHome DEF CycleCapKills
    <2>2. up = "up" BY <2>1, LiveIsUp
    <2>3. timer' = [timer EXCEPT ![home[s]] = timer'[home[s]]]
      BY <1>13, <2>1 DEF CycleCapKills, WipeRows, SetAlarm, TypeOK
    <2>4. \A t \in Sockets :
             /\ sock'[t] \in {"preauth", "admitted"} => sock[t] \in {"preauth", "admitted"}
             /\ sock[t] = "severed" => sock'[t] = "severed"
      BY <1>13, CloseShrinks DEF CycleCapKills
    <2>5. QED BY <1>0, <1>13, <2>1, <2>2, <2>3, <2>4, QuietSingle DEF CycleCapKills
  <1>14. ASSUME Crash PROVE Single'
    BY <1>14, HousekeepingAssumption
    DEF Crash, Single, OneContextActs, DownIsEmpty, SocketsOf
  <1>15. ASSUME Tick PROVE Single'
    <2>1. UNCHANGED <<up, strayed, registry, sock, home, upgrading, verifying, ops>>
      BY <1>15 DEF Tick
    <2>2. \A d \in Contexts : timer[d] = None => timer'[d] = None BY <1>15 DEF Tick, Nearer
    <2>3. QED BY <2>1, <2>2 DEF Single, OneContextActs, DownIsEmpty, SocketsOf
  <1>16. ASSUME UNCHANGED vars PROVE Single'
    BY <1>16 DEF vars, Single, OneContextActs, DownIsEmpty, SocketsOf
  <1>17. QED BY <1>1, <1>2, <1>3, <1>4, <1>5, <1>6, <1>7, <1>8, <1>9, <1>10, <1>11, <1>12, <1>13,
                <1>14, <1>15, <1>16 DEF Next

-----------------------------------------------------------------------------
(* The cap on pre-auth sockets.                                            *)

LEMMA FinitePreAuth ==
  ASSUME TypeOK, NEW c
  PROVE  /\ IsFiniteSet(PreAuth(c)) /\ Cardinality(PreAuth(c)) \in Nat
         /\ IsFiniteSet(upgrading) /\ Cardinality(upgrading) \in Nat
  BY FS_Subset, FS_CardinalityType, HousekeepingAssumption DEF TypeOK, PreAuth, SocketsOf

LEMMA InitBounded == Init => PreAuthBounded
  <1> SUFFICES ASSUME Init, NEW c \in Contexts
               PROVE  Cardinality(PreAuth(c)) <= MAX_PREAUTH_SOCKETS + Cardinality(upgrading)
    BY DEF PreAuthBounded
  <1>1. PreAuth(c) = {} /\ upgrading = {} BY DEF Init, PreAuth, SocketsOf
  <1>2. QED BY <1>1, FS_EmptySet, HousekeepingAssumption

\* No upgrade begins or ends, and no socket becomes pre-auth.
LEMMA QuietBounded ==
  ASSUME TypeOK, PreAuthBounded, upgrading' = upgrading,
         \A c \in Contexts : PreAuth(c)' \subseteq PreAuth(c)
  PROVE  PreAuthBounded'
  <1> SUFFICES ASSUME NEW c \in Contexts
               PROVE  Cardinality(PreAuth(c)') <= MAX_PREAUTH_SOCKETS + Cardinality(upgrading)
    BY DEF PreAuthBounded
  <1>1. IsFiniteSet(PreAuth(c)') /\ Cardinality(PreAuth(c)') <= Cardinality(PreAuth(c))
    BY FinitePreAuth, FS_Subset
  <1>2. Cardinality(PreAuth(c)') \in Nat BY <1>1, FS_CardinalityType
  <1>3. QED BY <1>1, <1>2, FinitePreAuth, HousekeepingAssumption DEF PreAuthBounded

LEMMA UpgradeBounded ==
  ASSUME TypeOK, PreAuthBounded, NEW c \in Contexts, NEW s \in Sockets, HandleUpgrade(c, s)
  PROVE  PreAuthBounded'
  <1> SUFFICES ASSUME NEW d \in Contexts
               PROVE  Cardinality(PreAuth(d)') <= MAX_PREAUTH_SOCKETS + Cardinality(upgrading')
    BY DEF PreAuthBounded
  <1>1. upgrading' = upgrading \cup {s} /\ s \notin upgrading BY DEF HandleUpgrade
  <1>2. Cardinality(upgrading') = Cardinality(upgrading) + 1
    BY <1>1, FinitePreAuth, FS_AddElement
  <1>3. PreAuth(d)' \subseteq PreAuth(d) \cup {s}
    BY DEF HandleUpgrade, PreAuth, SocketsOf, TypeOK
  <1>4. IsFiniteSet(PreAuth(d) \cup {s})
        /\ Cardinality(PreAuth(d) \cup {s}) \in Nat
        /\ Cardinality(PreAuth(d) \cup {s}) <= Cardinality(PreAuth(d)) + 1
    BY FinitePreAuth, FS_AddElement, FS_CardinalityType
  <1>5. IsFiniteSet(PreAuth(d)')
        /\ Cardinality(PreAuth(d)') <= Cardinality(PreAuth(d) \cup {s})
    BY <1>3, <1>4, FS_Subset
  <1>6. Cardinality(PreAuth(d)') \in Nat BY <1>5, FS_CardinalityType
  <1>7. QED BY <1>2, <1>4, <1>5, <1>6, FinitePreAuth, HousekeepingAssumption DEF PreAuthBounded

\* evictExcessPreAuth brings the context of the upgrade down to the cap, and
\* no other context has a socket.
LEMMA TaggedBounded ==
  ASSUME Base, Base', Single, NEW s \in Sockets, UpgradeTagged(s)
  PROVE  PreAuthBounded'
  <1> SUFFICES ASSUME NEW d \in Contexts
               PROVE  Cardinality(PreAuth(d)') <= MAX_PREAUTH_SOCKETS + Cardinality(upgrading')
    BY DEF PreAuthBounded
  <1>1. home[s] \in Contexts /\ home[s] = registry BY SocketHome DEF UpgradeTagged
  <1>2. PICK T \in ExcessPreAuth(home[s]) : Close(T) BY DEF UpgradeTagged
  <1>3. Cardinality(upgrading') \in Nat
    BY FS_Subset, FS_CardinalityType, HousekeepingAssumption DEF Base, TypeOK
  <1>4. CASE d = home[s]
    <2>1. PreAuth(d)' = PreAuth(d) \ T
      BY <1>2, <1>4 DEF UpgradeTagged, Close, Ended, PreAuth, SocketsOf, ExcessPreAuth
    <2>2. Cardinality(PreAuth(d) \ T) <= MAX_PREAUTH_SOCKETS
      BY <1>2, <1>4 DEF ExcessPreAuth
    <2>3. Cardinality(PreAuth(d) \ T) \in Nat
      BY FinitePreAuth, FS_Subset, FS_CardinalityType DEF Base
    <2>4. QED BY <1>3, <2>1, <2>2, <2>3, HousekeepingAssumption
  <1>5. CASE d # home[s]
    <2>1. SocketsOf(d) = {} BY <1>1, <1>5 DEF Single, OneContextActs
    <2>2. PreAuth(d)' = {}
      BY <1>2, <2>1 DEF UpgradeTagged, Close, Ended, PreAuth, SocketsOf
    <2>3. QED BY <1>3, <2>2, FS_EmptySet, HousekeepingAssumption
  <1>6. QED BY <1>4, <1>5

LEMMA NextBounded == Base /\ Base' /\ Single /\ PreAuthBounded /\ [Next]_vars => PreAuthBounded'
  <1> SUFFICES ASSUME Base, Base', Single, PreAuthBounded, [Next]_vars PROVE PreAuthBounded'
    OBVIOUS
  <1>1. CASE \E c \in Contexts, s \in Sockets : HandleUpgrade(c, s)
    BY <1>1, UpgradeBounded DEF Base
  <1>2. CASE \E s \in Sockets : UpgradeTagged(s)
    BY <1>2, TaggedBounded
  <1>3. CASE Crash
    <2>1. \A c \in Contexts : PreAuth(c)' = {} BY <1>3 DEF Crash, PreAuth, SocketsOf
    <2>2. upgrading' = {} BY <1>3 DEF Crash
    <2>3. QED BY <2>1, <2>2, FS_EmptySet, HousekeepingAssumption DEF PreAuthBounded
  <1>4. ASSUME upgrading' = upgrading, home' = home,
               \A s \in Sockets : sock'[s] = "preauth" => sock[s] = "preauth"
        PROVE  PreAuthBounded'
    <2>1. \A c \in Contexts : PreAuth(c)' \subseteq PreAuth(c)
      BY <1>4 DEF PreAuth, SocketsOf
    <2>2. QED BY <1>4, <2>1, QuietBounded DEF Base
  <1>5. ASSUME NEW T, Close(T), upgrading' = upgrading, home' = home PROVE PreAuthBounded'
    BY <1>4, <1>5 DEF Close, Ended
  <1>6. CASE \E c \in Contexts : Fire(c) \/ FireThrows(c) \/ DeleteCommit(c)
    BY <1>5, <1>6 DEF Fire, FireThrows, AlarmInPart, DeleteCommit, pins
  <1>7. CASE \E s \in Sockets : Leave(s) \/ SignedProofRejected(s) \/ CycleCapKills(s)
    BY <1>5, <1>7 DEF Leave, SignedProofRejected, CycleCapKills, pins
  <1>8. CASE \/ \E c \in Contexts :
                   \/ \E kind \in Kinds : BeginHttp(c, kind) \/ HttpRefused(c, kind)
                   \/ AttestCommit(c) \/ RegisterCommit(c) \/ Rehydrate(c)
                   \/ \E writes \in 1..3 : RegisterTorn(c, writes)
             \/ \E s \in Sockets : SignedProof(s)
             \/ Tick \/ UNCHANGED vars
    <2>1. UNCHANGED <<upgrading, home, sock>>
      BY <1>8 DEF BeginHttp, HttpRefused, AttestCommit, RegisterCommit, Rehydrate, RegisterTorn,
                  SignedProof, Tick, vars, conns, pins
    <2>2. QED BY <1>4, <2>1
  <1>9. CASE \E s \in Sockets : TransportEnds(s)
    BY <1>4, <1>9 DEF TransportEnds, pins, Base, TypeOK
  <1>10. ASSUME NEW s \in Sockets, NEW outcome \in Outcomes,
                AdmitPairing(s, outcome) \/ SignedProofVerified(s, outcome)
         PROVE  PreAuthBounded'
    <2>1. Admit(s, outcome) /\ upgrading' = upgrading /\ home' = home
      BY <1>10 DEF AdmitPairing, SignedProofVerified, pins
    <2>2. CASE outcome = "refused" BY <1>5, <2>1, <2>2 DEF Admit
    <2>3. CASE outcome # "refused" BY <1>4, <2>1, <2>3 DEF Admit, Base, TypeOK
    <2>4. QED BY <2>2, <2>3
  <1>11. QED BY <1>1, <1>2, <1>3, <1>6, <1>7, <1>8, <1>9, <1>10 DEF Next

-----------------------------------------------------------------------------
(* The admission deadline.                                                 *)

\* The pre-auth sockets of c that are past their upgrade.
Waiting(c) == PreAuth(c) \ upgrading

LEMMA InitTimely == Init => Timely
  BY HousekeepingAssumption
  DEF Init, Timely, UpgradeIsNew, TimerServesRow, AwakeInTime, PreAuth, SocketsOf

\* Nothing is promised of a room without a registered context, or of a stray.
LEMMA TimelyVacuous ==
  ASSUME UpgradeIsNew', registry' = NoContext \/ strayed' = TRUE
  PROVE  Timely'
  BY DEF Timely, TimerServesRow, AwakeInTime

\* A step that moves neither the row nor the timer, and makes nobody wait.
LEMMA QuietTimely ==
  ASSUME Base, Timely, UpgradeIsNew', NEW c \in Contexts, registry = c,
         registry' \in {c, NoContext}, strayed' = strayed, row' = row, timer'[c] = timer[c],
         \A s \in Waiting(c)' : s \in Waiting(c) /\ age'[s] = age[s]
  PROVE  Timely'
  <1>1. CASE registry' = NoContext \/ strayed # FALSE
    BY <1>1, TimelyVacuous DEF Base, TypeOK
  <1>2. CASE registry' = c /\ strayed = FALSE
    <2>1. TimerServesRow' BY <1>2, HousekeepingAssumption DEF Timely, TimerServesRow
    <2>2. AwakeInTime'
      BY <1>2, HousekeepingAssumption DEF Timely, AwakeInTime, Waiting
    <2>3. QED BY <2>1, <2>2 DEF Timely
  <1>3. QED BY <1>1, <1>2

\* ensureAlarm, in a step that makes only a new socket wait: a timer that is
\* moved was later, and one that is left is due within the retry.
LEMMA EnsureTimely ==
  ASSUME Base, Timely, UpgradeIsNew', NEW c \in Contexts, registry = c,
         registry' \in {c, NoContext}, strayed' = strayed, EnsureAlarm(c),
         \A s \in Waiting(c)' : s \in Sockets /\ (age'[s] = 0 \/ (s \in Waiting(c) /\ age'[s] = age[s]))
  PROVE  Timely'
  <1>1. CASE registry' = NoContext \/ strayed # FALSE
    BY <1>1, TimelyVacuous DEF Base, TypeOK
  <1>2. CASE registry' = c /\ strayed = FALSE
    <2>1. /\ c # NoContext
          /\ timer[c] = row \/ (row = 0 /\ timer[c] <= ALARM_RETRY)
          /\ \A s \in Waiting(c) : row # None
                /\ (timer[c] # None => age[s] + timer[c] <= Overdue)
      BY <1>2, HousekeepingAssumption DEF Timely, TimerServesRow, AwakeInTime, Waiting
    <2>2. /\ row \in {None} \cup 0..IDLE_TTL
          /\ timer[c] \in {None} \cup 0..(IDLE_TTL + ALARM_RETRY)
          /\ \A s \in Sockets : age[s] \in 0..MaxAge
          /\ Waiting(c) \subseteq Sockets
      BY DEF Base, TypeOK, Waiting, PreAuth, SocketsOf
    <2>3. /\ HOUSEKEEPING_INTERVAL \in Nat \ {0} /\ ALARM_RETRY \in Nat \ {0}
          /\ PREAUTH_DEADLINE \in Nat \ {0} /\ HOUSEKEEPING_INTERVAL <= ALARM_RETRY
          /\ Overdue = PREAUTH_DEADLINE + ALARM_RETRY /\ MaxAge = Overdue + 1 /\ None = -1
          /\ IDLE_TTL \in Nat
      BY HousekeepingAssumption DEF Overdue, MaxAge, None
    <2>4. CASE /\ row = None \/ row > HOUSEKEEPING_INTERVAL
               /\ row' = HOUSEKEEPING_INTERVAL /\ timer'[c] = HOUSEKEEPING_INTERVAL
      <3>1. \A s \in Waiting(c)' : age'[s] + HOUSEKEEPING_INTERVAL <= Overdue
        BY <2>1, <2>2, <2>3, <2>4
      <3>2. QED BY <1>2, <2>3, <2>4, <3>1 DEF Timely, TimerServesRow, AwakeInTime, Waiting
    <2>5. CASE row \in 0..HOUSEKEEPING_INTERVAL /\ row' = row /\ timer' = timer
      <3>1. \A s \in Waiting(c)' : timer[c] # None => age'[s] + timer[c] <= Overdue
        BY <2>1, <2>2, <2>3, <2>5
      <3>2. QED BY <1>2, <2>1, <2>3, <2>5, <3>1 DEF Timely, TimerServesRow, AwakeInTime, Waiting
    <2>6. QED BY <2>4, <2>5, EnsureAlarmEffect
  <1>3. QED BY <1>1, <1>2

\* No socket waits after the step.
LEMMA NobodyWaits ==
  ASSUME UpgradeIsNew', NEW c \in Contexts, registry' \in {c, NoContext},
         Waiting(c)' = {},
         \/ timer'[c] = row' \/ (row' = 0 /\ timer'[c] <= ALARM_RETRY)
  PROVE  Timely'
  BY DEF Timely, TimerServesRow, AwakeInTime, Waiting

\* The alarm of the registered context comes when the row is due, and closes
\* whoever has overstayed.
LEMMA FireTimely ==
  ASSUME Base, Single, Timely, NEW c \in Contexts, Fire(c) \/ FireThrows(c)
  PROVE  Timely'
  <1> USE DEF Base
  <1>1. UpgradeIsNew'
    <2>1. \A s \in Sockets : age'[s] = 0 \/ age'[s] = age[s]
      BY CloseShrinks, InPartShrinks DEF Fire, FireThrows
    <2>2. QED BY <2>1 DEF Fire, FireThrows, pins, Timely, UpgradeIsNew, TypeOK
  <1>2. timer[c] = 0 /\ strayed' = strayed /\ strayed \in BOOLEAN
        /\ upgrading' = upgrading /\ home' = home
        /\ (registry' = registry \/ registry' = NoContext)
    BY DEF Fire, FireThrows, MaybeEvict, pins, TypeOK
  <1>3. CASE strayed # FALSE BY <1>1, <1>2, <1>3, TimelyVacuous
  <1>4. CASE strayed = FALSE
    <2>1. c = registry BY <1>2, <1>4 DEF Single, OneContextActs, None
    <2>2. row = 0 BY <1>2, <1>4, <2>1, HousekeepingAssumption DEF Timely, TimerServesRow
    <2>3. registry' \in {c, NoContext} BY <1>2, <2>1
    <2>4. /\ HOUSEKEEPING_INTERVAL \in Nat /\ ALARM_RETRY \in Nat /\ PREAUTH_DEADLINE \in Nat
          /\ HOUSEKEEPING_INTERVAL <= ALARM_RETRY
          /\ Overdue = PREAUTH_DEADLINE + ALARM_RETRY /\ None = -1
      BY HousekeepingAssumption DEF Overdue, None
    <2>5. CASE FireThrows(c)
      <3>1. row' = 0 /\ timer'[c] = ALARM_RETRY BY <2>2, <2>5 DEF FireThrows, TypeOK
      <3>2. \A s \in Waiting(c)' : age'[s] \in Nat /\ age'[s] <= PREAUTH_DEADLINE
        <4>1. Close(Overstayed(c)) \/ Close(SocketsOf(c)) BY <2>5 DEF FireThrows, AlarmInPart
        <4>2. QED BY <1>2, <2>4, <4>1
                  DEF Close, Ended, Waiting, PreAuth, SocketsOf, Overstayed, TypeOK
      <3>3. \A s \in Waiting(c)' : age'[s] + timer'[c] <= Overdue BY <2>4, <3>1, <3>2
      <3>4. QED BY <1>1, <2>3, <2>4, <3>1, <3>3
                DEF Timely, TimerServesRow, AwakeInTime, Waiting
    <2>6. CASE Fire(c) /\ PastTTL
      <3>1. Waiting(c)' = {}
        BY <1>2, <2>6 DEF Fire, AlarmCloses, Close, Ended, Waiting, PreAuth, SocketsOf
      <3>2. timer'[c] = row' \/ (timer'[c] = None /\ row' = row)
        BY <2>6, AlarmRowsEffect DEF Fire
      <3>3. QED BY <1>1, <2>2, <2>3, <2>4, <3>1, <3>2, NobodyWaits
    <2>7. CASE Fire(c) /\ ~PastTTL
      <3>1. AlarmRows(c) /\ Close(Overstayed(c)) BY <2>7 DEF Fire, AlarmCloses
      <3>2. /\ timer'[c] \in {None} \cup 0..IDLE_TTL
            /\ timer'[c] = row' \/ (timer'[c] = None /\ row' = row)
            /\ row' # None
            /\ PreAuth(c) \ Overstayed(c) = {}
                 \/ (timer'[c] # None /\ timer'[c] <= HOUSEKEEPING_INTERVAL)
        BY <2>2, <2>4, <2>7, <3>1, AlarmRowsEffect
      <3>3. \A s \in Waiting(c)' :
               s \in PreAuth(c) \ Overstayed(c) /\ age'[s] \in Nat /\ age'[s] <= PREAUTH_DEADLINE
        BY <1>2, <2>4, <3>1 DEF Close, Ended, Waiting, PreAuth, SocketsOf, Overstayed, TypeOK
      <3>4. \A s \in Waiting(c)' : age'[s] + timer'[c] <= Overdue
        BY <2>4, <3>2, <3>3, HousekeepingAssumption
      <3>5. TimerServesRow' BY <2>2, <2>3, <2>4, <3>2 DEF TimerServesRow
      <3>6. AwakeInTime' BY <2>3, <3>2, <3>4 DEF AwakeInTime, Waiting
      <3>7. QED BY <1>1, <3>5, <3>6 DEF Timely
    <2>8. QED BY <2>5, <2>6, <2>7
  <1>5. QED BY <1>3, <1>4

\* runtime.get, on the live context or on a new one.
LEMMA GetTimely ==
  ASSUME Base, Timely, UpgradeIsNew', NEW c \in Contexts, Get(c), strayed' = strayed,
         \A s \in Waiting(c)' : s \in Waiting(c) /\ age'[s] = age[s]
  PROVE  Timely'
  <1>1. CASE registry = c
    <2>1. row' = row /\ timer' = timer /\ registry' = c BY <1>1, GetEffect
    <2>2. QED BY <1>1, <2>1, QuietTimely
  <1>2. CASE registry # c
    <2>1. /\ registry' = c /\ registry = NoContext /\ Unused(c)
          /\ timer'[c] = row' \/ (timer'[c] = None /\ row' = 0)
      BY <1>2, GetEffect
    <2>2. Waiting(c)' = {} BY <2>1 DEF Unused, Idle, Waiting, PreAuth
    <2>3. None <= ALARM_RETRY BY HousekeepingAssumption DEF None
    <2>4. QED BY <2>1, <2>2, <2>3, NobodyWaits
  <1>3. QED BY <1>1, <1>2

LEMMA EvictsOrKeeps ==
  ASSUME NEW c, registry = c, MaybeEvict(c)
  PROVE  registry' \in {c, NoContext}
  BY DEF MaybeEvict

\* A step on a context that may be outside the registry, which moves neither
\* the row nor a timer and makes nobody wait.
LEMMA LateTimely ==
  ASSUME Base, Timely, UpgradeIsNew', NEW c, MaybeEvict(c) \/ registry' = registry,
         strayed' = strayed, row' = row, timer' = timer,
         \A d \in Contexts : \A s \in Waiting(d)' : s \in Waiting(d) /\ age'[s] = age[s]
  PROVE  Timely'
  <1>1. registry' \in {registry, NoContext} BY DEF MaybeEvict
  <1>2. CASE registry = NoContext BY <1>1, <1>2, TimelyVacuous
  <1>3. CASE registry \in Contexts BY <1>1, <1>3, QuietTimely
  <1>4. QED BY <1>2, <1>3 DEF Base, TypeOK

LEMMA NextTimely == Base /\ PendingProofs /\ Single /\ Timely /\ [Next]_vars => Timely'
  <1> SUFFICES ASSUME Base, PendingProofs, Single, Timely, [Next]_vars PROVE Timely'
    OBVIOUS
  <1> USE DEF conns, pins
  <1>1. ASSUME NEW c \in Contexts, Fire(c) \/ FireThrows(c) PROVE Timely'
    BY <1>1, FireTimely
  <1>2. ASSUME NEW c \in Contexts, NEW s \in Sockets, HandleUpgrade(c, s) PROVE Timely'
    <2>1. UpgradeIsNew' BY <1>2 DEF HandleUpgrade, Timely, UpgradeIsNew, Base, TypeOK
    <2>2. \A t \in Waiting(c)' : t \in Waiting(c) /\ age'[t] = age[t]
      BY <1>2 DEF HandleUpgrade, Waiting, PreAuth, SocketsOf, Base, TypeOK
    <2>3. QED BY <1>2, <2>1, <2>2, GetTimely DEF HandleUpgrade
  <1>3. ASSUME NEW c \in Contexts, NEW kind \in Kinds, BeginHttp(c, kind) PROVE Timely'
    <2>1. UpgradeIsNew' BY <1>3 DEF BeginHttp, Timely, UpgradeIsNew
    <2>2. \A t \in Waiting(c)' : t \in Waiting(c) /\ age'[t] = age[t]
      BY <1>3 DEF BeginHttp, Waiting, PreAuth, SocketsOf
    <2>3. QED BY <1>3, <2>1, <2>2, GetTimely DEF BeginHttp
  <1>4. ASSUME NEW c \in Contexts,
               \/ \E kind \in Kinds : HttpRefused(c, kind)
               \/ \E writes \in 1..3 : RegisterTorn(c, writes)
        PROVE  Timely'
    <2>1. registry = c BY <1>4, OperationHome DEF HttpRefused, RegisterTorn, Kinds
    <2>2. UpgradeIsNew' BY <1>4 DEF HttpRefused, RegisterTorn, Timely, UpgradeIsNew
    <2>3. \A t \in Waiting(c)' : t \in Waiting(c) /\ age'[t] = age[t]
      BY <1>4 DEF HttpRefused, RegisterTorn, Waiting, PreAuth, SocketsOf
    <2>4. QED BY <1>4, <2>1, <2>2, <2>3, QuietTimely, EvictsOrKeeps DEF HttpRefused, RegisterTorn
  <1>5. ASSUME NEW c \in Contexts, AttestCommit(c) \/ RegisterCommit(c) PROVE Timely'
    <2>1. registry = c BY <1>5, OperationHome DEF AttestCommit, RegisterCommit, Kinds
    <2>2. UpgradeIsNew' BY <1>5 DEF AttestCommit, RegisterCommit, Timely, UpgradeIsNew
    <2>3. \A t \in Waiting(c)' : t \in Sockets /\ t \in Waiting(c) /\ age'[t] = age[t]
      BY <1>5 DEF AttestCommit, RegisterCommit, Waiting, PreAuth, SocketsOf
    <2>4. QED BY <1>5, <2>1, <2>2, <2>3, EnsureTimely, EvictsOrKeeps
              DEF AttestCommit, RegisterCommit
  <1>6. ASSUME NEW c \in Contexts, DeleteCommit(c) PROVE Timely'
    <2>1. registry = c BY <1>6, OperationHome DEF DeleteCommit, Kinds
    <2>2. UpgradeIsNew' BY <1>6 DEF DeleteCommit, Close, Ended, Timely, UpgradeIsNew, Base, TypeOK
    <2>3. Waiting(c)' = {} BY <1>6 DEF DeleteCommit, Close, Ended, Waiting, PreAuth, SocketsOf
    <2>4. timer'[c] = row' BY <1>6 DEF DeleteCommit, WipeRows, SetAlarm, Base, TypeOK
    <2>5. QED BY <1>6, <2>1, <2>2, <2>3, <2>4, NobodyWaits, EvictsOrKeeps DEF DeleteCommit
  <1>7. ASSUME NEW c \in Contexts, Rehydrate(c) PROVE Timely'
    <2>1. UpgradeIsNew' BY <1>7 DEF Rehydrate, Timely, UpgradeIsNew
    <2>2. registry = NoContext BY <1>7 DEF Rehydrate, Single, DownIsEmpty
    <2>3. CASE registry' = NoContext BY <2>1, <2>3, TimelyVacuous
    <2>4. CASE registry' # NoContext
      <3>1. registry' = c /\ row' = row /\ timer' = [timer EXCEPT ![c] = row]
        BY <1>7, <2>2, <2>4 DEF Rehydrate
      <3>2. timer'[c] = row' BY <3>1 DEF Base, TypeOK
      <3>3. SocketsOf(c)' = {}
        BY <1>7, <2>2, HousekeepingAssumption
        DEF Rehydrate, Single, OneContextActs, SocketsOf
      <3>4. Waiting(c)' = {} BY <3>3 DEF Waiting, PreAuth
      <3>5. QED BY <2>1, <3>1, <3>2, <3>4, NobodyWaits
    <2>5. QED BY <2>3, <2>4
  <1>8. ASSUME NEW s \in Sockets, UpgradeTagged(s) PROVE Timely'
    <2>1. home[s] \in Contexts /\ home[s] = registry BY <1>8, SocketHome DEF UpgradeTagged
    <2>2. PICK T \in ExcessPreAuth(home[s]) : Close(T) BY <1>8 DEF UpgradeTagged
    <2>3. UpgradeIsNew' BY <1>8, <2>2 DEF UpgradeTagged, Close, Timely, UpgradeIsNew, Base, TypeOK
    <2>4. ASSUME NEW t \in Waiting(home[s])'
          PROVE  t \in Sockets /\ (age'[t] = 0 \/ (t \in Waiting(home[s]) /\ age'[t] = age[t]))
      <3>1. t \in PreAuth(home[s]) /\ t \in Sockets /\ age'[t] = age[t]
        BY <1>8, <2>2 DEF UpgradeTagged, Close, Ended, Waiting, PreAuth, SocketsOf
      <3>2. CASE t \in upgrading BY <3>1, <3>2 DEF Timely, UpgradeIsNew
      <3>3. CASE t \notin upgrading BY <3>1, <3>3 DEF Waiting
      <3>4. QED BY <3>2, <3>3
    <2>5. QED BY <1>8, <2>1, <2>3, <2>4, EnsureTimely, EvictsOrKeeps DEF UpgradeTagged
  <1>9. ASSUME NEW s \in Sockets, Leave(s) \/ SignedProofRejected(s) PROVE Timely'
    <2>1. Close({s}) BY <1>9 DEF Leave, SignedProofRejected
    <2>2. UpgradeIsNew'
      BY <1>9, <2>1, CloseShrinks
      DEF Leave, SignedProofRejected, Timely, UpgradeIsNew, Base, TypeOK
    <2>3. \A c \in Contexts : \A t \in Waiting(c)' : t \in Waiting(c) /\ age'[t] = age[t]
      BY <1>9, <2>1 DEF Leave, SignedProofRejected, Close, Ended, Waiting, PreAuth, SocketsOf
    <2>4. UNCHANGED <<row, timer, strayed>> /\ MaybeEvict(home[s])
      BY <1>9 DEF Leave, SignedProofRejected
    <2>5. QED BY <2>2, <2>3, <2>4, LateTimely
  <1>10. ASSUME NEW s \in Sockets, NEW outcome \in Outcomes, AdmitPairing(s, outcome)
         PROVE  Timely'
    <2>1. Admit(s, outcome) /\ ProofComes(s) BY <1>10 DEF AdmitPairing
    <2>2. \A t \in Sockets :
             /\ sock'[t] = "preauth" => sock[t] = "preauth" /\ age'[t] = age[t]
             /\ age'[t] = 0 \/ age'[t] = age[t]
      BY <2>1, AdmitShrinks DEF ProofComes, Base
    <2>3. UpgradeIsNew' BY <1>10, <2>2 DEF AdmitPairing, Timely, UpgradeIsNew, Base, TypeOK
    <2>4. \A c \in Contexts :
             \A t \in Waiting(c)' : t \in Sockets /\ t \in Waiting(c) /\ age'[t] = age[t]
      BY <1>10, <2>2 DEF AdmitPairing, Waiting, PreAuth, SocketsOf
    <2>5. CASE outcome = "phone"
      <3>1. home[s] \in Contexts /\ home[s] = registry BY <2>1, <2>5, SocketHome DEF Admit
      <3>2. QED BY <1>10, <2>3, <2>4, <2>5, <3>1, EnsureTimely, EvictsOrKeeps DEF AdmitPairing
    <2>6. CASE outcome # "phone"
      BY <1>10, <2>3, <2>4, <2>6, LateTimely DEF AdmitPairing
    <2>7. QED BY <2>5, <2>6
  <1>11. ASSUME NEW s \in Sockets, SignedProof(s) \/ TransportEnds(s) PROVE Timely'
    <2>1. UpgradeIsNew' BY <1>11 DEF SignedProof, TransportEnds, Timely, UpgradeIsNew
    <2>2. \A c \in Contexts : \A t \in Waiting(c)' : t \in Waiting(c) /\ age'[t] = age[t]
      BY <1>11 DEF SignedProof, TransportEnds, Waiting, PreAuth, SocketsOf, Base, TypeOK
    <2>3. UNCHANGED <<row, timer, strayed>> /\ (MaybeEvict(home[s]) \/ registry' = registry)
      BY <1>11 DEF SignedProof, TransportEnds
    <2>4. QED BY <2>1, <2>2, <2>3, LateTimely
  <1>12. ASSUME NEW s \in Sockets, NEW outcome \in Outcomes, SignedProofVerified(s, outcome)
         PROVE  Timely'
    <2>1. Admit(s, outcome) /\ sock[s] \in {"preauth", "severed"}
      BY <1>12 DEF SignedProofVerified, PendingProofs
    <2>2. \A t \in Sockets :
             /\ sock'[t] = "preauth" => sock[t] = "preauth" /\ age'[t] = age[t]
             /\ age'[t] = 0 \/ age'[t] = age[t]
      BY <2>1, AdmitShrinks DEF Base
    <2>3. UpgradeIsNew' BY <1>12, <2>2 DEF SignedProofVerified, Timely, UpgradeIsNew, Base, TypeOK
    <2>4. \A c \in Contexts :
             \A t \in Waiting(c)' : t \in Sockets /\ t \in Waiting(c) /\ age'[t] = age[t]
      BY <1>12, <2>2 DEF SignedProofVerified, Waiting, PreAuth, SocketsOf
    <2>5. home[s] \in Contexts BY DEF Base, TypeOK
    <2>6. /\ EnsureAlarm(home[s]) /\ MaybeEvict(home[s])
          /\ strayed' = IF home[s] # registry /\ timer'[home[s]] # None THEN TRUE ELSE strayed
      BY <1>12 DEF SignedProofVerified
    <2>7. CASE home[s] = registry
      BY <2>3, <2>4, <2>5, <2>6, <2>7, EnsureTimely, EvictsOrKeeps
    <2>8. CASE home[s] # registry /\ timer'[home[s]] # None
      <3>1. strayed' = TRUE BY <2>6, <2>8
      <3>2. QED BY <2>3, <3>1, TimelyVacuous
    <2>9. CASE home[s] # registry /\ timer'[home[s]] = None
      <3>1. strayed' = strayed BY <2>6, <2>9
      <3>2. row' = row /\ timer' = timer
        BY <2>5, <2>6, <2>9, EnsureAlarmEffect, HousekeepingAssumption DEF None
      <3>3. QED BY <2>3, <2>4, <2>6, <3>1, <3>2, LateTimely
    <2>10. QED BY <2>7, <2>8, <2>9
  <1>13. ASSUME Crash PROVE Timely'
    BY <1>13, TimelyVacuous DEF Crash, UpgradeIsNew
  <1>14. ASSUME Tick PROVE Timely'
    <2>1. UpgradeIsNew' BY <1>14 DEF Tick, UpgradeIsNew
    <2>2. UNCHANGED <<strayed, registry>> BY <1>14 DEF Tick
    <2>3. CASE strayed # FALSE \/ registry = NoContext
      BY <2>1, <2>2, <2>3, TimelyVacuous DEF Base, TypeOK
    <2>4. CASE strayed = FALSE /\ registry # NoContext
      <3>1. registry \in Contexts BY <2>4 DEF Base, TypeOK
      <3>2. /\ timer[registry] # 0 /\ timer'[registry] = Nearer(timer[registry])
            /\ row' = Nearer(row) /\ timer[registry] \in {None} \cup 0..(IDLE_TTL + ALARM_RETRY)
            /\ row \in {None} \cup 0..IDLE_TTL
        BY <1>14, <3>1 DEF Tick, Base, TypeOK
      <3>3. TimerServesRow'
        BY <2>2, <2>4, <3>2, HousekeepingAssumption DEF Timely, TimerServesRow, Nearer, None
      <3>4. ASSUME NEW s \in Waiting(registry)'
            PROVE  /\ row' # None
                   /\ timer'[registry] # None => age'[s] + timer'[registry] <= Overdue
        <4>1. s \in Sockets /\ s \in Waiting(registry) /\ age'[s] = Older(age[s], MaxAge)
              /\ age[s] \in 0..MaxAge
          BY <1>14, <2>2 DEF Tick, Waiting, PreAuth, SocketsOf, Base, TypeOK
        <4>2. row # None /\ (timer[registry] # None => age[s] + timer[registry] <= Overdue)
          BY <2>4, <4>1 DEF Timely, AwakeInTime, Waiting
        <4>3. QED BY <3>2, <4>1, <4>2, HousekeepingAssumption
                  DEF Older, Nearer, None, MaxAge, Overdue
      <3>5. AwakeInTime' BY <2>2, <3>4 DEF AwakeInTime, Waiting
      <3>6. QED BY <2>1, <3>3, <3>5 DEF Timely
    <2>5. QED BY <2>3, <2>4
  <1>15. ASSUME UNCHANGED vars PROVE Timely'
    BY <1>15 DEF vars, Timely, UpgradeIsNew, TimerServesRow, AwakeInTime, PreAuth, SocketsOf
  <1>16. ASSUME NEW s \in Sockets, CycleCapKills(s) PROVE Timely'
    <2>1. home[s] \in Contexts /\ home[s] = registry BY <1>16, SocketHome DEF CycleCapKills
    <2>2. UpgradeIsNew'
      BY <1>16, CloseShrinks DEF CycleCapKills, Timely, UpgradeIsNew, Base, TypeOK
    <2>3. Waiting(home[s])' = {}
      BY <1>16 DEF CycleCapKills, Close, Ended, Waiting, PreAuth, SocketsOf
    <2>4. timer'[home[s]] = row'
      BY <1>16, <2>1 DEF CycleCapKills, WipeRows, SetAlarm, Base, TypeOK
    <2>5. QED BY <1>16, <2>1, <2>2, <2>3, <2>4, NobodyWaits, EvictsOrKeeps DEF CycleCapKills
  <1>17. QED BY <1>1, <1>2, <1>3, <1>4, <1>5, <1>6, <1>7, <1>8, <1>9, <1>10, <1>11, <1>12, <1>13,
                <1>14, <1>15, <1>16 DEF Next

-----------------------------------------------------------------------------
(* The theorems.                                                           *)

LEMMA Invariance == Spec => []Inv
  BY InitBase, InitPending, InitSingle, InitBounded, InitTimely, NextBase, NextPending, NextSingle,
     NextBounded, NextTimely, PTL DEF Spec, Inv

\* Contexts, timers, sockets and rows stay of their types: in particular the
\* alarm a sweep asks for is never in the past.
THEOREM TypeCorrect == Spec => []TypeOK
  BY Invariance, PTL DEF Inv, Base

\* pin, unpin and maybeEvict: every socket, upgrade and request belongs to the
\* context in the registry, through every interleaving of upgrades, requests,
\* alarms, closes and crashes; outside it run at most the late proofs of
\* severed sockets, and only what strayed has a timer.
THEOREM NoSplitBrainButStray == Spec => []OneContextActs
  BY Invariance, PTL DEF Inv, Single

\* bumpActivity, ensureAlarm and alarm(): an established room has an alarm row
\* in storage whenever the process may crash, unless its registration was cut
\* between the verifier and the alarm.
THEOREM EstablishedIsScheduled == Spec => []EstablishedPersistsAlarm
  BY Invariance, PTL DEF Inv, Base

\* evictExcessPreAuth: the flood of un-admitted sockets is bounded by the cap
\* and the upgrades in flight.
THEOREM PreAuthCap == Spec => []PreAuthBounded
  BY Invariance, PTL DEF Inv

\* alarm(): as long as the live context has a timer, no pre-auth socket
\* outlives its deadline by more than one retry, also when alarms throw.
THEOREM AdmissionDeadline == Spec => []DeadlineWhileAwake
  <1>1. Inv => DeadlineWhileAwake
    <2> SUFFICES ASSUME Inv, strayed = FALSE, registry # NoContext, timer[registry] # None,
                        NEW s \in PreAuth(registry)
                 PROVE  age[s] <= Overdue
      BY DEF DeadlineWhileAwake, Inv, Base, TypeOK
    <2>1. /\ registry \in Contexts /\ s \in Sockets /\ age[s] \in 0..MaxAge
          /\ timer[registry] \in 0..(IDLE_TTL + ALARM_RETRY)
      BY DEF Inv, Base, TypeOK, PreAuth, SocketsOf
    <2>2. CASE s \in upgrading
      BY <2>2, HousekeepingAssumption DEF Inv, Timely, UpgradeIsNew, Overdue
    <2>3. CASE s \notin upgrading
      <3>1. age[s] + timer[registry] <= Overdue BY <2>3 DEF Inv, Timely, AwakeInTime
      <3>2. QED BY <2>1, <3>1, HousekeepingAssumption DEF Overdue, MaxAge
    <2>4. QED BY <2>2, <2>3
  <1>2. QED BY <1>1, Invariance, PTL

\* rehydrate, _fire and ensureAlarm: an established room that a timer watches
\* keeps one through every sweep, eviction and failed alarm, and a boot arms
\* one from the row, unless the registration was cut before the row.
THEOREM IdleTTLStaysArmed == Spec => IdleWatchKept
  <1> DEFINE Step == verifier = "set" /\ verifier' = "set" /\ up' = "up"
                          /\ (Watched \/ (up = "down" /\ torn = "no"))
                       => Watched'
  <1>1. Inv /\ [Next]_vars => [Step]_vars
    <2> SUFFICES ASSUME Inv, Next, verifier = "set", verifier' = "set", up' = "up",
                        Watched \/ (up = "down" /\ torn = "no")
                 PROVE  \E c \in Contexts : timer'[c] # None
      BY DEF Step, Watched
    <2> USE DEF Inv, conns, pins
    <2>1. Base /\ ALARM_RETRY # None /\ HOUSEKEEPING_INTERVAL # None
      BY HousekeepingAssumption DEF None
    <2>2. ASSUME up # "down", NEW c \in Contexts, EnsureAlarm(c)
          PROVE  \E d \in Contexts : timer'[d] # None
      BY <2>1, <2>2, EnsureAlarmEffect DEF Watched, Base, TypeOK
    <2>3. ASSUME up # "down", timer' = timer PROVE \E d \in Contexts : timer'[d] # None
      BY <2>3 DEF Watched
    <2>4. ASSUME NEW c \in Contexts, Get(c) PROVE \E d \in Contexts : timer'[d] # None
      <3>1. up = "up" BY <2>4 DEF Get
      <3>2. PICK d \in Contexts : timer[d] # None BY <3>1 DEF Watched
      <3>3. timer'[d] # None \/ timer' = timer
        BY <2>1, <2>4, <3>2, GetEffect DEF Unused, Idle, Base, TypeOK
      <3>4. QED BY <3>2, <3>3
    <2>5. ASSUME NEW c \in Contexts, Fire(c) PROVE timer'[c] # None
      BY <2>1, <2>5, AlarmRowsEffect DEF Fire
    <2>6. ASSUME NEW c \in Contexts, FireThrows(c) PROVE timer'[c] # None
      BY <2>1, <2>6 DEF FireThrows, Base, TypeOK
    <2>7. ASSUME NEW c \in Contexts, Rehydrate(c) PROVE timer'[c] # None
      <3>1. \A d \in Contexts : timer[d] = None
        BY <2>7, HousekeepingAssumption DEF Rehydrate, Single, DownIsEmpty, OneContextActs
      <3>2. row # None BY <2>1, <2>7, <3>1 DEF Watched, Base, EstablishedPersistsAlarm
      <3>3. CASE row = 0 BY <2>1, <2>7, <3>3, AlarmRowsEffect DEF Rehydrate
      <3>4. CASE row # 0 BY <2>1, <2>7, <3>2, <3>4 DEF Rehydrate, Base, TypeOK
      <3>5. QED BY <3>3, <3>4
    <2>8. ASSUME NEW c \in Contexts, AttestCommit(c) \/ RegisterCommit(c)
          PROVE  \E d \in Contexts : timer'[d] # None
      <3>1. c = registry BY <2>8, OperationHome DEF AttestCommit, RegisterCommit, Kinds
      <3>2. up = "up" BY <3>1, LiveIsUp
      <3>3. QED BY <2>2, <2>8, <3>2 DEF AttestCommit, RegisterCommit
    <2>9. ASSUME NEW c \in Contexts,
                 \/ \E kind \in Kinds : HttpRefused(c, kind)
                 \/ \E writes \in 1..3 : RegisterTorn(c, writes)
          PROVE  \E d \in Contexts : timer'[d] # None
      <3>1. c = registry BY <2>9, OperationHome DEF HttpRefused, RegisterTorn, Kinds
      <3>2. up = "up" BY <3>1, LiveIsUp
      <3>3. QED BY <2>3, <2>9, <3>2 DEF HttpRefused, RegisterTorn
    <2>10. ASSUME NEW s \in Sockets, sock[s] # "none" \/ s \in upgrading \cup verifying,
                  EnsureAlarm(home[s]) \/ timer' = timer
           PROVE  \E d \in Contexts : timer'[d] # None
      <3>1. home[s] \in Contexts BY DEF Base, TypeOK
      <3>2. up = "up" BY <2>10, LiveIsUp, SocketHome
      <3>3. QED BY <2>2, <2>3, <2>10, <3>1, <3>2
    <2>11. ASSUME Tick PROVE \E d \in Contexts : timer'[d] # None
      <3>1. up # "down" BY <2>11 DEF Tick
      <3>2. PICK c \in Contexts : timer[c] # None BY <3>1 DEF Watched
      <3>3. timer'[c] = Nearer(timer[c]) BY <2>11 DEF Tick
      <3>4. QED BY <3>2, <3>3 DEF Nearer, None, Base, TypeOK
    <2>12. ASSUME NEW c \in Contexts, DeleteCommit(c) PROVE FALSE
      BY <2>12 DEF DeleteCommit, WipeRows, WipeKv
    <2>13. ASSUME Crash PROVE FALSE BY <2>13 DEF Crash
    <2>14. ASSUME NEW s \in Sockets,
                  \/ UpgradeTagged(s) \/ Leave(s) \/ TransportEnds(s)
                  \/ SignedProof(s) \/ SignedProofRejected(s)
                  \/ \E outcome \in Outcomes : AdmitPairing(s, outcome) \/ SignedProofVerified(s, outcome)
           PROVE  \E d \in Contexts : timer'[d] # None
      BY <2>10, <2>14 DEF UpgradeTagged, Leave, TransportEnds, AdmitPairing, ProofComes, SignedProof,
                          SignedProofVerified, SignedProofRejected
    <2>15. ASSUME NEW c \in Contexts,
                  \/ \E s \in Sockets : HandleUpgrade(c, s)
                  \/ \E kind \in Kinds : BeginHttp(c, kind)
           PROVE  \E d \in Contexts : timer'[d] # None
      BY <2>4, <2>15 DEF HandleUpgrade, BeginHttp
    <2>16. ASSUME NEW s \in Sockets, CycleCapKills(s) PROVE FALSE
      BY <2>16 DEF CycleCapKills, WipeRows, WipeKv
    <2>17. QED BY <2>5, <2>6, <2>7, <2>8, <2>9, <2>11, <2>12, <2>13, <2>14, <2>15, <2>16 DEF Next
  <1>2. QED BY <1>1, Invariance, PTL DEF Spec, IdleWatchKept
=============================================================================
