------------------------- MODULE CredentialsProofs -------------------------
(***************************************************************************)
(* Credentials, for any number of requests, challenges, tickets, keys and  *)
(* verifiers: type correctness, single use of tickets and, outside the gap *)
(* between its read and its delete, of a challenge, the registrant pinned  *)
(* with a verifier, and the replay bound on assertion counters.            *)
(*                                                                         *)
(* No property here is inductive alone.  A request that awaits its         *)
(* verification has deleted its challenge, so a later request can only     *)
(* share it with one that has not (DeletedFirst); a challenge that was not *)
(* raced is held by one request at most, and by none once it was granted   *)
(* (HeldOnce).  A ticket that is not gone has admitted nobody, however     *)
(* many sockets have read it (AdmittedOnce).  The key behind a token that  *)
(* a handler read before its await cannot change until it is used after    *)
(* it: the token exists only once the ticket is gone, and only a fresh     *)
(* ticket is given an owner (KeyBehindToken).                              *)
(***************************************************************************)
EXTENDS Credentials, TLAPS

\* q has read the challenge ch.
Holds(q, ch) == request[q] # NoRequest /\ request[q].ch = ch

\* Past its delete, a request's challenge is gone; one that is not gone was
\* granted nothing.
DeletedFirst ==
    /\ \A q \in Reqs \ reading : request[q] # NoRequest => challenge[request[q].ch] = "gone"
    /\ \A ch \in Challenges : challenge[ch] # "gone" => grants[ch] = 0

HeldOnce ==
    \A ch \in Challenges \ raced : \A q \in Reqs :
        Holds(q, ch) => /\ grants[ch] = 0
                        /\ \A p \in Reqs : Holds(p, ch) => p = q

AdmittedOnce ==
    \A t \in Tickets : /\ ticket[t] # "gone" => admissions[t] = 0
                       /\ redeeming[t] > 0 => ticket[t] # "fresh"

Registering(q) == request[q] # NoRequest /\ request[q].kind = "register"

KeyBehindToken ==
    /\ \A t \in Tickets : ticket[t] # "fresh" => owner[t] \in Keys
    /\ \A t \in Tickets : token[t] # "fresh" => ticket[t] = "gone"
    /\ \A q \in Reqs : Registering(q) => token[request[q].token] # "fresh"

CounterIsBound == \A k \in Keys : \A d \in accepted[k] : d <= counter[k]

Challenged == DeletedFirst /\ HeldOnce /\ ChallengeSingleUse
Ticketed == AdmittedOnce /\ TicketSingleUse
Registered == RegistrantAsserted /\ CounterIsBound

Inv == TypeOK /\ Challenged /\ Ticketed /\ KeyBehindToken /\ Registered

-----------------------------------------------------------------------------
(* What a request is, and which parts of the invariant depend on what.     *)

LEMMA RequestRecord ==
  ASSUME TypeOK, NEW q \in Reqs, request[q] # NoRequest
  PROVE  request[q].ch \in Challenges
  BY DEF TypeOK, Requests

LEMMA RegisterRecord ==
  ASSUME TypeOK, NEW q \in Reqs, Registering(q)
  PROVE  /\ request[q].token \in Tickets
         /\ request[q].v \in Verifiers
         /\ request[q].c \in Counters
  BY DEF TypeOK, Requests, Registering

LEMMA AttestRecord ==
  ASSUME TypeOK, NEW q \in Reqs, Verified(q, "attest")
  PROVE  request[q].key \in Keys
  BY DEF TypeOK, Requests, Verified

\* The key a registration in flight will be checked against is attested.
LEMMA RegisterKey ==
  ASSUME TypeOK, KeyBehindToken, NEW q \in Reqs, Registering(q)
  PROVE  owner[request[q].token] \in Keys
  <1>1. request[q].token \in Tickets BY RegisterRecord
  <1>2. ticket[request[q].token] = "gone" BY <1>1 DEF KeyBehindToken
  <1>3. QED BY <1>1, <1>2 DEF KeyBehindToken

LEMMA InitInv == Init => Inv
  BY CredentialsAssumption
  DEF Init, Inv, TypeOK, Challenged, DeletedFirst, HeldOnce, Holds, ChallengeSingleUse, Ticketed,
      AdmittedOnce, TicketSingleUse, KeyBehindToken, Registering, Registered,
      RegistrantAsserted, CounterIsBound, Requests

\* Requests that end, and challenges that go, disturb nothing about the rest.
LEMMA FewerRequests ==
  ASSUME Challenged, UNCHANGED <<grants, raced>>,
         \A q \in Reqs : request'[q] = request[q] \/ request'[q] = NoRequest,
         \A q \in Reqs \ reading' : q \notin reading \/ request'[q] = NoRequest,
         \A ch \in Challenges : challenge[ch] = "gone" => challenge'[ch] = "gone",
         \A q \in Reqs : request[q] # NoRequest => request[q].ch \in Challenges
  PROVE  Challenged'
  <1>1. DeletedFirst'
    BY DEF Challenged, DeletedFirst
  <1>2. ASSUME NEW ch \in Challenges, NEW q \in Reqs, Holds(q, ch)' PROVE Holds(q, ch)
    BY <1>2 DEF Holds
  <1>3. HeldOnce' BY <1>2 DEF Challenged, HeldOnce
  <1>4. ChallengeSingleUse' BY DEF Challenged, ChallengeSingleUse
  <1>5. QED BY <1>1, <1>3, <1>4 DEF Challenged

\* Records that decay leave the key behind every token alone.
LEMMA KeysKept ==
  ASSUME TypeOK, KeyBehindToken, UNCHANGED owner,
         \A q \in Reqs : request'[q] = request[q] \/ request'[q] = NoRequest,
         \A t \in Tickets : ticket'[t] = ticket[t] \/ (ticket[t] # "fresh" /\ ticket'[t] = "gone"),
         \A t \in Tickets : token'[t] = token[t] \/ (token[t] # "fresh" /\ token'[t] = "gone")
  PROVE  KeyBehindToken'
  <1>1. ASSUME NEW t \in Tickets
        PROVE  (ticket[t] # "fresh" => owner[t] \in Keys)'
               /\ (token[t] # "fresh" => ticket[t] = "gone")'
    BY DEF KeyBehindToken
  <1>2. ASSUME NEW q \in Reqs, Registering(q)' PROVE (token[request[q].token] # "fresh")'
    <2>1. request'[q] = request[q] /\ Registering(q) BY <1>2 DEF Registering
    <2>2. request[q].token \in Tickets BY <2>1, RegisterRecord
    <2>3. token[request[q].token] # "fresh" BY <2>1 DEF KeyBehindToken
    <2>4. QED BY <2>1, <2>2, <2>3
  <1>3. QED BY <1>1, <1>2 DEF KeyBehindToken

\* A granted challenge that was not raced was granted nothing before.
LEMMA GrantOnce ==
  ASSUME TypeOK, Challenged, NEW q \in Reqs, request[q] # NoRequest, q \notin reading, Grant(q),
         UNCHANGED <<reading, raced>>,
         \A ch \in Challenges : challenge[ch] = "gone" => challenge'[ch] = "gone"
  PROVE  /\ request' \in [Reqs -> Requests]
         /\ grants' \in [Challenges -> Nat]
         /\ \A p \in Reqs : request'[p] = request[p] \/ request'[p] = NoRequest
         /\ Challenged'
  <1> DEFINE c == request[q].ch
  <1>1. c \in Challenges BY RequestRecord
  <1>2. /\ request' = [request EXCEPT ![q] = NoRequest]
        /\ grants' = [grants EXCEPT ![c] = @ + 1]
    BY DEF Grant
  <1>3. Holds(q, c) BY DEF Holds
  <1>4. challenge[c] = "gone" BY DEF Challenged, DeletedFirst
  <1> HIDE DEF c
  <1>5. request' \in [Reqs -> Requests] BY <1>2 DEF TypeOK, Requests
  <1>6. grants' \in [Challenges -> Nat] BY <1>1, <1>2 DEF TypeOK
  <1>7. request'[q] = NoRequest /\ \A p \in Reqs \ {q} : request'[p] = request[p]
    BY <1>2 DEF TypeOK
  <1>8. grants'[c] = grants[c] + 1 /\ \A ch \in Challenges \ {c} : grants'[ch] = grants[ch]
    BY <1>1, <1>2 DEF TypeOK
  <1>9. DeletedFirst'
    <2>1. \A p \in Reqs \ reading' : request'[p] # NoRequest => challenge'[request'[p].ch] = "gone"
      BY <1>7, RequestRecord DEF Challenged, DeletedFirst
    <2>2. \A ch \in Challenges : challenge'[ch] # "gone" => grants'[ch] = 0
      BY <1>4, <1>8 DEF Challenged, DeletedFirst
    <2>3. QED BY <2>1, <2>2 DEF DeletedFirst
  <1>10. ASSUME NEW ch \in Challenges \ raced, NEW p \in Reqs, Holds(p, ch)'
         PROVE  p # q /\ Holds(p, ch) /\ ch # c
    <2>1. p # q /\ Holds(p, ch) BY <1>7, <1>10 DEF Holds
    <2>2. QED BY <1>3, <2>1 DEF Challenged, HeldOnce
  <1>11. HeldOnce'
    BY <1>8, <1>10 DEF Challenged, HeldOnce
  <1>12. ChallengeSingleUse'
    <2>1. ASSUME NEW ch \in Challenges \ raced PROVE grants'[ch] <= 1
      <3>1. CASE ch = c BY <1>1, <1>3, <1>8, <3>1 DEF Challenged, HeldOnce
      <3>2. CASE ch # c BY <1>8, <3>2 DEF Challenged, ChallengeSingleUse
      <3>3. QED BY <3>1, <3>2
    <2>2. QED BY <2>1 DEF ChallengeSingleUse
  <1>13. QED BY <1>5, <1>6, <1>7, <1>9, <1>11, <1>12 DEF Challenged
-----------------------------------------------------------------------------
(* Every step keeps the invariant.                                         *)

LEMMA StutterInv == Inv /\ UNCHANGED vars => Inv'
  BY DEF vars, records, registration, running, history, Inv, TypeOK, Challenged, DeletedFirst,
         HeldOnce, Holds, ChallengeSingleUse, Ticketed, AdmittedOnce, TicketSingleUse,
         KeyBehindToken, Registering, Registered, RegistrantAsserted, CounterIsBound

LEMMA IssueInv ==
  ASSUME Inv, NEW ch \in Challenges, IssueChallenge(ch)
  PROVE  Inv'
  <1> USE DEF IssueChallenge, registration, running, history, Inv
  <1>1. TypeOK' BY DEF TypeOK
  <1>2. Challenged'
    <2>1. \A d \in Challenges : challenge[d] = "gone" => challenge'[d] = "gone"
      BY DEF TypeOK
    <2>2. QED BY <2>1, FewerRequests, RequestRecord
  <1>3. Ticketed' BY DEF Ticketed, AdmittedOnce, TicketSingleUse
  <1>4. KeyBehindToken' BY KeysKept
  <1>5. Registered' BY DEF Registered, RegistrantAsserted, CounterIsBound
  <1>6. QED BY <1>1, <1>2, <1>3, <1>4, <1>5

\* A request that is well formed and whose token, if it has one, was issued
\* reads its challenge.
LEMMA ReadInv ==
  ASSUME Inv, NEW q \in Reqs, NEW r \in Requests, r.ch \in Challenges,
         r.kind = "register" => token[r.token] # "fresh",
         ReadChallenge(q, r)
  PROVE  Inv'
  <1> USE DEF ReadChallenge, records, registration, Inv
  <1>1. TypeOK' BY DEF TypeOK
  <1>2. request'[q] = r /\ \A p \in Reqs \ {q} : request'[p] = request[p]
    BY DEF TypeOK
  <1>3. DeletedFirst'
    BY <1>2 DEF Challenged, DeletedFirst
  <1>4. ASSUME NEW ch \in Challenges \ raced', NEW p \in Reqs, Holds(p, ch)'
        PROVE  grants'[ch] = 0 /\ \A o \in Reqs : Holds(o, ch)' => o = p
    <2>1. ch \in Challenges \ raced OBVIOUS
    <2>2. \A o \in Reqs \ {q} : Holds(o, ch)' <=> Holds(o, ch)
      BY <1>2 DEF Holds
    <2>3. ~Holds(q, ch) BY DEF Holds
    <2>4. CASE ch = r.ch
      <3>1. grants[ch] = 0 BY <2>4 DEF Challenged, DeletedFirst
      <3>2. ASSUME NEW o \in Reqs, Holds(o, ch) PROVE FALSE
        <4>1. CASE o \in reading BY <1>4, <2>4, <3>2, <4>1 DEF Holds
        <4>2. CASE o \notin reading BY <2>4, <3>2, <4>2 DEF Holds, Challenged, DeletedFirst
        <4>3. QED BY <4>1, <4>2
      <3>3. QED BY <1>4, <2>2, <3>1, <3>2
    <2>5. CASE ch # r.ch
      <3>1. ~Holds(q, ch)' BY <1>2, <2>5 DEF Holds
      <3>2. QED BY <1>4, <2>1, <2>2, <3>1 DEF Challenged, HeldOnce
    <2>6. QED BY <2>4, <2>5
  <1>5. HeldOnce' BY <1>4 DEF HeldOnce
  <1>6. ChallengeSingleUse' BY DEF Challenged, ChallengeSingleUse
  <1>7. Ticketed' BY DEF Ticketed, AdmittedOnce, TicketSingleUse
  <1>8. KeyBehindToken'
    <2>1. ASSUME NEW p \in Reqs, Registering(p)' PROVE (token[request[p].token] # "fresh")'
      BY <1>2, <2>1 DEF Registering, KeyBehindToken
    <2>2. QED BY <2>1 DEF KeyBehindToken
  <1>9. Registered' BY DEF Registered, RegistrantAsserted, CounterIsBound
  <1>10. QED BY <1>1, <1>3, <1>5, <1>6, <1>7, <1>8, <1>9 DEF Challenged

LEMMA ConsumeInv ==
  ASSUME Inv, NEW q \in Reqs, ConsumeChallenge(q)
  PROVE  Inv'
  <1> USE DEF ConsumeChallenge, registration, history, Inv
  <1>1. TypeOK' BY DEF TypeOK
  <1>2. DeletedFirst'
    <2>1. ASSUME NEW p \in Reqs \ reading', request'[p] # NoRequest
          PROVE  challenge'[request'[p].ch] = "gone"
      BY <2>1, RequestRecord DEF Challenged, DeletedFirst, TypeOK
    <2>2. \A ch \in Challenges : challenge'[ch] # "gone" => grants'[ch] = 0
      BY DEF Challenged, DeletedFirst, TypeOK
    <2>3. QED BY <2>1, <2>2 DEF DeletedFirst
  <1>3. HeldOnce' BY DEF Challenged, HeldOnce, Holds
  <1>4. ChallengeSingleUse' BY DEF Challenged, ChallengeSingleUse
  <1>5. Ticketed' BY DEF Ticketed, AdmittedOnce, TicketSingleUse
  <1>6. KeyBehindToken' BY KeysKept
  <1>7. Registered' BY DEF Registered, RegistrantAsserted, CounterIsBound
  <1>8. QED BY <1>1, <1>2, <1>3, <1>4, <1>5, <1>6, <1>7 DEF Challenged

LEMMA RefuseInv ==
  ASSUME Inv, NEW q \in Reqs, Refuse(q)
  PROVE  Inv'
  <1> USE DEF Refuse, records, registration, history, Inv
  <1>1. TypeOK' BY DEF TypeOK, Requests
  <1>2. \A p \in Reqs : request'[p] = request[p] \/ request'[p] = NoRequest
    BY DEF TypeOK
  <1>3. Challenged' BY <1>2, FewerRequests, RequestRecord
  <1>4. Ticketed' BY DEF Ticketed, AdmittedOnce, TicketSingleUse
  <1>5. KeyBehindToken' BY <1>2, KeysKept
  <1>6. Registered' BY DEF Registered, RegistrantAsserted, CounterIsBound
  <1>7. QED BY <1>1, <1>3, <1>4, <1>5, <1>6

LEMMA AttestVerifiedInv ==
  ASSUME Inv, NEW q \in Reqs, NEW t \in Tickets, AttestVerified(q, t)
  PROVE  Inv'
  <1> USE DEF AttestVerified, registration, Inv
  <1>1. request[q].key \in Keys /\ request[q] # NoRequest /\ q \notin reading
    BY AttestRecord DEF Verified
  <1>2. request' \in [Reqs -> Requests] /\ grants' \in [Challenges -> Nat]
        /\ (\A p \in Reqs : request'[p] = request[p] \/ request'[p] = NoRequest)
        /\ Challenged'
    BY <1>1, GrantOnce
  <1>3. TypeOK' BY <1>1, <1>2 DEF TypeOK
  <1>4. KeyBehindToken'
    <2>1. ASSUME NEW u \in Tickets
          PROVE  (ticket[u] # "fresh" => owner[u] \in Keys)'
                 /\ (token[u] # "fresh" => ticket[u] = "gone")'
      BY <1>1 DEF KeyBehindToken, TypeOK
    <2>2. ASSUME NEW p \in Reqs, Registering(p)' PROVE (token[request[p].token] # "fresh")'
      <3>1. request'[p] = request[p] BY <1>2, <2>2 DEF Registering
      <3>2. QED BY <3>1, <2>2 DEF KeyBehindToken, Registering
    <2>3. QED BY <2>1, <2>2 DEF KeyBehindToken
  <1>5. Ticketed' BY DEF Ticketed, TicketSingleUse, AdmittedOnce, TypeOK
  <1>6. Registered' BY DEF Registered, RegistrantAsserted, CounterIsBound
  <1>7. QED BY <1>2, <1>3, <1>4, <1>5, <1>6

LEMMA ReadTicketInv ==
  ASSUME Inv, NEW t \in Tickets, ReadTicket(t)
  PROVE  Inv'
  <1> USE DEF ReadTicket, records, registration, history, Inv
  <1>1. TypeOK' BY CredentialsAssumption DEF TypeOK
  <1>2. Challenged' BY FewerRequests, RequestRecord
  <1>3. Ticketed' BY DEF Ticketed, AdmittedOnce, TicketSingleUse, TypeOK
  <1>4. KeyBehindToken' BY KeysKept
  <1>5. Registered' BY DEF Registered, RegistrantAsserted, CounterIsBound
  <1>6. QED BY <1>1, <1>2, <1>3, <1>4, <1>5

LEMMA RedeemInv ==
  ASSUME Inv, NEW t \in Tickets, NEW admitted \in BOOLEAN, RedeemTicket(t, admitted)
  PROVE  Inv'
  <1> USE DEF RedeemTicket, registration, Inv
  <1>0. ticket[t] # "fresh" BY DEF Ticketed, AdmittedOnce
  <1>1. TypeOK' BY CredentialsAssumption DEF TypeOK
  <1>2. Challenged' BY FewerRequests, RequestRecord
  <1>3. Ticketed'
    <2>0. \A u \in Tickets : redeeming'[u] > 0 => ticket'[u] # "fresh"
      BY DEF Ticketed, AdmittedOnce, TypeOK
    <2>1. CASE admitted
      <3>1. admissions[t] = 0 BY <2>1 DEF Ticketed, AdmittedOnce
      <3>2. QED BY <2>0, <2>1, <3>1 DEF Ticketed, AdmittedOnce, TicketSingleUse, TypeOK
    <2>2. CASE ~admitted
      BY <2>0, <2>2 DEF Ticketed, AdmittedOnce, TicketSingleUse, TypeOK
    <2>3. QED BY <2>1, <2>2
  <1>4. KeyBehindToken'
    <2>1. ASSUME NEW u \in Tickets
          PROVE  (ticket[u] # "fresh" => owner[u] \in Keys)'
                 /\ (token[u] # "fresh" => ticket[u] = "gone")'
      BY <1>0 DEF KeyBehindToken, TypeOK
    <2>2. ASSUME NEW p \in Reqs, Registering(p)' PROVE (token[request[p].token] # "fresh")'
      <3>1. request[p].token \in Tickets /\ token[request[p].token] # "fresh"
        BY <2>2, RegisterRecord DEF Registering, KeyBehindToken
      <3>2. QED BY <3>1 DEF TypeOK
    <2>3. QED BY <2>1, <2>2 DEF KeyBehindToken
  <1>5. Registered' BY DEF Registered, RegistrantAsserted, CounterIsBound
  <1>6. QED BY <1>1, <1>2, <1>3, <1>4, <1>5

\* The counter of a good assertion exceeds what is stored, and is stored.
LEMMA StoreBound ==
  ASSUME Inv, NEW q \in Reqs, Verified(q, "register"), ~Stale(q), StoreCounter(q)
  PROVE  /\ counter' \in [Keys -> 0..MaxCounter]
         /\ accepted' \in [Keys -> SUBSET Counters]
         /\ CounterIsBound'
  <1> DEFINE c == request[q].c
             k == owner[request[q].token]
  <1>0. Registering(q) BY DEF Verified, Registering
  <1>1. c \in Counters /\ k \in Keys
    BY <1>0, RegisterRecord, RegisterKey DEF Inv
  <1>2. /\ counter' = [counter EXCEPT ![k] = c]
        /\ accepted' = [accepted EXCEPT ![k] = @ \cup {c}]
        /\ ~(c <= counter[k])
    BY DEF StoreCounter, Stale
  <1> HIDE DEF c, k
  <1>3. counter' \in [Keys -> 0..MaxCounter] /\ accepted' \in [Keys -> SUBSET Counters]
    BY <1>1, <1>2, CredentialsAssumption DEF Inv, TypeOK, Counters
  <1>4. ASSUME NEW j \in Keys, NEW d \in accepted'[j] PROVE d <= counter'[j]
    <2>1. CASE j = k
      <3>1. counter'[j] = c BY <1>2, <2>1 DEF Inv, TypeOK
      <3>2. CASE d = c BY <1>1, <3>1, <3>2 DEF Counters
      <3>3. CASE d \in accepted[k]
        <4>1. d \in Counters /\ counter[k] \in 0..MaxCounter BY <1>1, <3>3 DEF Inv, TypeOK
        <4>2. d <= counter[k] BY <1>1, <3>3 DEF Inv, Registered, CounterIsBound
        <4>3. QED BY <1>1, <1>2, <3>1, <4>1, <4>2, CredentialsAssumption DEF Counters
      <3>4. QED BY <1>2, <2>1, <3>2, <3>3 DEF Inv, TypeOK
    <2>2. CASE j # k BY <1>2, <2>2 DEF Inv, TypeOK, Registered, CounterIsBound
    <2>3. QED BY <2>1, <2>2
  <1>5. QED BY <1>3, <1>4 DEF CounterIsBound

LEMMA RegisterVerifiedInv ==
  ASSUME Inv, NEW q \in Reqs, RegisterVerified(q)
  PROVE  Inv'
  <1>1. /\ Verified(q, "register") /\ ~Stale(q)
        /\ StoreCounter(q) /\ PinRegistrant(q) /\ SpendToken(q) /\ Grant(q)
        /\ verifier' = request[q].v
        /\ signer' = owner[request[q].token]
        /\ torn' = "no"
        /\ UNCHANGED <<challenge, ticket, owner, reading, redeeming, raced, admissions, orphans>>
    BY DEF RegisterVerified
  <1>2. Registering(q) /\ request[q] # NoRequest /\ q \notin reading
    BY <1>1 DEF Verified, Registering
  <1>3. /\ request[q].token \in Tickets /\ request[q].v \in Verifiers
        /\ owner[request[q].token] \in Keys
    BY <1>2, RegisterRecord, RegisterKey DEF Inv
  <1>4. counter' \in [Keys -> 0..MaxCounter] /\ accepted' \in [Keys -> SUBSET Counters]
        /\ CounterIsBound'
    BY <1>1, StoreBound
  <1>5. request' \in [Reqs -> Requests] /\ grants' \in [Challenges -> Nat]
        /\ (\A p \in Reqs : request'[p] = request[p] \/ request'[p] = NoRequest)
        /\ Challenged'
    BY <1>1, <1>2, GrantOnce DEF Inv
  <1>6. token' \in [Tickets -> {"fresh", "live", "gone"}]
        /\ \A t \in Tickets : token'[t] = token[t] \/ (token[t] # "fresh" /\ token'[t] = "gone")
    BY <1>1, <1>2 DEF SpendToken, Inv, TypeOK, KeyBehindToken
  <1>7. TypeOK'
    BY <1>1, <1>3, <1>4, <1>5, <1>6 DEF PinRegistrant, Inv, TypeOK
  <1>8. KeyBehindToken' BY <1>1, <1>5, <1>6, KeysKept DEF Inv
  <1>9. Ticketed' BY <1>1 DEF Inv, Ticketed, TicketSingleUse, AdmittedOnce
  <1>10. RegistrantAsserted' BY <1>1 DEF PinRegistrant, RegistrantAsserted
  <1>11. QED BY <1>4, <1>5, <1>7, <1>8, <1>9, <1>10 DEF Inv, Registered

\* A crash ends every handler.
LEMMA LoseHandlersInv ==
  ASSUME Inv, LoseHandlers, UNCHANGED <<challenge, ticket, owner, grants, raced, admissions>>,
         \A t \in Tickets : token'[t] = token[t] \/ (token[t] # "fresh" /\ token'[t] = "gone")
  PROVE  /\ request' \in [Reqs -> Requests] /\ reading' \subseteq Reqs
         /\ redeeming' \in [Tickets -> 0..MaxRedeemers] /\ orphans' \subseteq Reqs
         /\ Challenged' /\ Ticketed' /\ KeyBehindToken'
  <1> USE DEF LoseHandlers, Inv
  <1>1. request' \in [Reqs -> Requests] /\ \A q \in Reqs : request'[q] = NoRequest
    BY DEF Requests
  <1>2. redeeming' \in [Tickets -> 0..MaxRedeemers] BY CredentialsAssumption
  <1>3. Challenged' BY <1>1, FewerRequests, RequestRecord
  <1>4. Ticketed' BY DEF Ticketed, TicketSingleUse, AdmittedOnce
  <1>5. KeyBehindToken' BY <1>1, KeysKept
  <1>6. QED BY <1>1, <1>2, <1>3, <1>4, <1>5

LEMMA CrashInv == ASSUME Inv, Crash PROVE Inv'
  <1> USE DEF Crash, records, registration
  <1>1. /\ request' \in [Reqs -> Requests] /\ reading' \subseteq Reqs
        /\ redeeming' \in [Tickets -> 0..MaxRedeemers] /\ orphans' \subseteq Reqs
        /\ Challenged' /\ Ticketed' /\ KeyBehindToken'
    BY LoseHandlersInv
  <1>2. TypeOK' BY <1>1 DEF Inv, TypeOK
  <1>3. Registered' BY DEF Inv, Registered, RegistrantAsserted, CounterIsBound
  <1>4. QED BY <1>1, <1>2, <1>3 DEF Inv

LEMMA RegisterTornInv ==
  ASSUME Inv, NEW q \in Reqs, NEW writes \in 1..3, RegisterTorn(q, writes)
  PROVE  Inv'
  <1>1. /\ Verified(q, "register") /\ ~Stale(q) /\ StoreCounter(q) /\ LoseHandlers
        /\ registrant' = registrant \/ (writes >= 2 /\ registrant' = owner[request[q].token])
        /\ token' = token \/ token' = [token EXCEPT ![request[q].token] = "gone"]
        /\ torn' = IF writes >= 2 /\ verifier # NoVerifier THEN "yes" ELSE torn
        /\ UNCHANGED <<challenge, ticket, owner, verifier, grants, raced, admissions, signer>>
    BY DEF RegisterTorn, PinRegistrant, SpendToken
  <1>2. Registering(q) BY <1>1 DEF Verified, Registering
  <1>3. owner[request[q].token] \in Keys BY <1>2, RegisterKey DEF Inv
  <1>4. counter' \in [Keys -> 0..MaxCounter] /\ accepted' \in [Keys -> SUBSET Counters]
        /\ CounterIsBound'
    BY <1>1, StoreBound
  <1>5. token' \in [Tickets -> {"fresh", "live", "gone"}]
        /\ \A t \in Tickets : token'[t] = token[t] \/ (token[t] # "fresh" /\ token'[t] = "gone")
    BY <1>1, <1>2 DEF Inv, TypeOK, KeyBehindToken
  <1>6. /\ request' \in [Reqs -> Requests] /\ reading' \subseteq Reqs
        /\ redeeming' \in [Tickets -> 0..MaxRedeemers] /\ orphans' \subseteq Reqs
        /\ Challenged' /\ Ticketed' /\ KeyBehindToken'
    BY <1>1, <1>5, LoseHandlersInv
  <1>7. TypeOK' BY <1>1, <1>3, <1>4, <1>5, <1>6 DEF Inv, TypeOK
  <1>8. RegistrantAsserted' BY <1>1 DEF Inv, Registered, RegistrantAsserted
  <1>9. QED BY <1>4, <1>6, <1>7, <1>8 DEF Inv, Registered

\* deleteAll, whatever becomes of the request that asked for it.
LEMMA WipeInv ==
  ASSUME Inv, Wipe,
         request' \in [Reqs -> Requests], grants' \in [Challenges -> Nat],
         \A q \in Reqs : request'[q] = request[q] \/ request'[q] = NoRequest,
         Challenged'
  PROVE  Inv'
  <1> USE DEF Wipe, Inv
  <1>1. TypeOK' BY CredentialsAssumption DEF TypeOK
  <1>2. Ticketed' BY DEF Ticketed, TicketSingleUse, AdmittedOnce, TypeOK
  <1>3. KeyBehindToken' BY KeysKept DEF TypeOK
  <1>4. Registered' BY DEF Registered, RegistrantAsserted, CounterIsBound
  <1>5. QED BY <1>1, <1>2, <1>3, <1>4

LEMMA ExpireInv == ASSUME Inv, Expire PROVE Inv'
  <1>1. /\ challenge' \in [Challenges -> {"fresh", "live", "gone"}]
        /\ ticket' \in [Tickets -> {"fresh", "live", "gone"}]
        /\ token' \in [Tickets -> {"fresh", "live", "gone"}]
        /\ \A ch \in Challenges : challenge[ch] = "gone" => challenge'[ch] = "gone"
        /\ \A t \in Tickets : ticket'[t] = ticket[t] \/ (ticket[t] # "fresh" /\ ticket'[t] = "gone")
        /\ \A t \in Tickets : token'[t] = token[t] \/ (token[t] # "fresh" /\ token'[t] = "gone")
    BY DEF Expire, Outstanding, Inv, TypeOK
  <1>2. UNCHANGED <<owner, counter, registrant, verifier, request, reading, redeeming, grants,
                    raced, admissions, accepted, signer, torn, orphans>>
    BY DEF Expire, registration, running, history
  <1> USE DEF Inv
  <1>3. TypeOK' BY <1>1, <1>2 DEF TypeOK
  <1>4. Challenged' BY <1>1, <1>2, FewerRequests, RequestRecord
  <1>5. Ticketed' BY <1>1, <1>2 DEF Ticketed, TicketSingleUse, AdmittedOnce
  <1>6. KeyBehindToken' BY <1>1, <1>2, KeysKept
  <1>7. Registered' BY <1>2 DEF Registered, RegistrantAsserted, CounterIsBound
  <1>8. QED BY <1>3, <1>4, <1>5, <1>6, <1>7

LEMMA NextInv == Inv /\ [Next]_vars => Inv'
  <1> SUFFICES ASSUME Inv, [Next]_vars PROVE Inv'
    OBVIOUS
  <1>1. ASSUME NEW q \in Reqs, NEW ch \in Challenges, NEW k \in Keys, Attest(q, ch, k) PROVE Inv'
    <2> DEFINE r == [kind |-> "attest", ch |-> ch, key |-> k]
    <2>1. r \in Requests /\ r.ch \in Challenges /\ r.kind # "register" BY DEF Requests
    <2>2. ReadChallenge(q, r) BY <1>1 DEF Attest
    <2> HIDE DEF r
    <2>3. QED BY <2>1, <2>2, ReadInv
  <1>2. ASSUME NEW q \in Reqs, NEW ch \in Challenges, NEW t \in Tickets, NEW v \in Verifiers,
               NEW c \in Counters, Register(q, ch, t, v, c)
        PROVE  Inv'
    <2> DEFINE r == [kind |-> "register", ch |-> ch, token |-> t, v |-> v, c |-> c]
    <2>1. r \in Requests /\ r.ch \in Challenges /\ r.token = t BY DEF Requests
    <2>2. ReadChallenge(q, r) /\ token[t] = "live" BY <1>2 DEF Register
    <2> HIDE DEF r
    <2>3. QED BY <2>1, <2>2, ReadInv
  <1>3. ASSUME NEW q \in Reqs, NEW ch \in Challenges, Delete(q, ch) PROVE Inv'
    <2> DEFINE r == [kind |-> "delete", ch |-> ch]
    <2>1. r \in Requests /\ r.ch \in Challenges /\ r.kind # "register" BY DEF Requests
    <2>2. ReadChallenge(q, r) BY <1>3 DEF Delete
    <2> HIDE DEF r
    <2>3. QED BY <2>1, <2>2, ReadInv
  <1>4. ASSUME NEW q \in Reqs, DeleteVerified(q) PROVE Inv'
    <2>1. Grant(q) /\ Wipe /\ request[q] # NoRequest /\ q \notin reading
      BY <1>4 DEF DeleteVerified, Verified
    <2>2. UNCHANGED <<reading, raced>>
          /\ \A ch \in Challenges : challenge[ch] = "gone" => challenge'[ch] = "gone"
      BY <2>1 DEF Wipe
    <2>3. QED BY <2>1, <2>2, GrantOnce, WipeInv DEF Inv
  <1>5. ASSUME Reap PROVE Inv'
    <2>1. Challenged' BY <1>5, FewerRequests, RequestRecord DEF Reap, Wipe, Inv
    <2>2. QED BY <1>5, <2>1, WipeInv DEF Reap, Inv, TypeOK
  <1>6. QED BY <1>1, <1>2, <1>3, <1>4, <1>5, StutterInv, IssueInv, ConsumeInv, RefuseInv,
               AttestVerifiedInv, RegisterVerifiedInv, RegisterTornInv, ReadTicketInv, RedeemInv,
               ExpireInv, CrashInv DEF Next

LEMMA Invariance == Spec => []Inv
  BY InitInv, NextInv, PTL DEF Spec

-----------------------------------------------------------------------------
(* The theorems.                                                           *)

\* The records of a room and its requests stay of their types, whatever
\* interleaves and wherever the process ends.
THEOREM TypeCorrect == Spec => []TypeOK
  BY Invariance, PTL DEF Inv

\* The handlers of /attest, /register and /delete delete a challenge before
\* they verify anything: however many requests name it, through expiries, wipes
\* and crashes, at most one is granted on it, unless two had read it before
\* either deleted it.
THEOREM ChallengeUsedOnce == Spec => []ChallengeSingleUse
  BY Invariance, PTL DEF Inv, Challenged

\* handleProof lets only the socket whose delete removed the ticket go on: it
\* admits at most one phone, however many sockets have read it.
THEOREM TicketAdmitsOnce == Spec => []TicketSingleUse
  BY Invariance, PTL DEF Inv, Ticketed

\* handleRegister writes the registrant before the verifier and deleteAll
\* drops both: a verifier is pinned to the attested key that asserted it, unless
\* a crash came between the two writes of a second registration.
THEOREM RegistrantIsSigner == Spec => []RegistrantAsserted
  BY Invariance, PTL DEF Inv, Registered

\* handleRegister compares the counter after the await, in the step that
\* stores it: no registration is granted with a counter that its key has used
\* since the room was last wiped, even when two of them were verified together
\* or one was cut short by a crash.
THEOREM NoCounterReplay == Spec => CountersIncrease
  <1> DEFINE Step == \A q \in Reqs :
          Verified(q, "register") /\ request'[q] # request[q] /\ grants' # grants
            => \A d \in accepted[owner[request[q].token]] : d < request[q].c
  <1>1. Inv /\ [Next]_vars => [Step]_vars
    <2> SUFFICES ASSUME Inv, Next, NEW q \in Reqs,
                        Verified(q, "register"), request'[q] # request[q], grants' # grants,
                        NEW d \in accepted[owner[request[q].token]]
                 PROVE  d < request[q].c
      BY DEF Step
    <2> USE DEF Inv
    <2>1. RegisterVerified(q)
      <3>1. ASSUME NEW p \in Reqs, NEW t \in Tickets, AttestVerified(p, t) PROVE FALSE
        BY <3>1 DEF AttestVerified, Grant, Verified, TypeOK
      <3>2. ASSUME NEW p \in Reqs, DeleteVerified(p) PROVE FALSE
        BY <3>2 DEF DeleteVerified, Grant, Verified, TypeOK
      <3>3. ASSUME NEW p \in Reqs, RegisterVerified(p) PROVE RegisterVerified(q)
        BY <3>3 DEF RegisterVerified, Grant, TypeOK
      <3>4. QED BY <3>1, <3>2, <3>3 DEF Next, IssueChallenge, ConsumeChallenge, Refuse, Attest,
                   Register, Delete, ReadChallenge, ReadTicket, RedeemTicket, RegisterTorn, Crash,
                   Reap, Expire, history
    <2>2. Registering(q) BY DEF Verified, Registering
    <2>3. request[q].c \in Counters /\ owner[request[q].token] \in Keys
      BY <2>2, RegisterRecord, RegisterKey
    <2>4. d \in Counters /\ d <= counter[owner[request[q].token]]
          /\ counter[owner[request[q].token]] \in 0..MaxCounter
      BY <2>3 DEF TypeOK, Registered, CounterIsBound
    <2>5. ~(request[q].c <= counter[owner[request[q].token]])
      BY <2>1 DEF RegisterVerified, Stale
    <2>6. QED BY <2>3, <2>4, <2>5, CredentialsAssumption DEF Counters
  <1>2. QED BY <1>1, Invariance, PTL DEF Spec, CountersIncrease
=============================================================================
