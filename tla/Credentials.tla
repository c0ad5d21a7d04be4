---------------------------- MODULE Credentials ----------------------------
(***************************************************************************)
(* How a phone earns the right to register a verifier for a room and how   *)
(* the room is deleted, under attestation (src/room.js: /attest/challenge, *)
(* /attest, the ticket in handleProof, /register, /delete).                *)
(*                                                                         *)
(* A handler reads the challenge, deletes it, awaits a digest and a        *)
(* signature verification, and writes.  Requests on one room interleave    *)
(* at each of these points: between the read and the delete because a      *)
(* storage await yields too, and the delete does not look at what it       *)
(* deleted (host/storage.js:59-62); the delete of a ticket does.  What     *)
(* follows a verification has only storage awaits and no competing read:   *)
(* one step, except that a crash may come after any of its writes.         *)
(*                                                                         *)
(* A registration token is identified by the ticket that was redeemed for  *)
(* it.  Identifiers are random and never issued twice.                     *)
(*                                                                         *)
(* Expiry is a step that may come at any time while a record is live.      *)
(* Whether a verification succeeds is left open.  The slots and the cycle  *)
(* cap that admit applies after a ticket is consumed are those of Room:    *)
(* here the phone is admitted or not.  Open mode, where /register needs no *)
(* assertion and has no await, is not modelled.                            *)
(***************************************************************************)
EXTENDS Naturals, FiniteSets

CONSTANTS
    Challenges, Tickets, Keys, Verifiers,
    Reqs,                         \* HTTP requests that can be running at once
    NoVerifier, NoKey, NoRequest,
    MaxCounter,                   \* bound on App Attest counters
    MaxRedeemers,                 \* bound on sockets redeeming one ticket at once
    MAX_OUTSTANDING_CHALLENGES

ASSUME CredentialsAssumption ==
    /\ NoVerifier \notin Verifiers
    /\ NoKey \notin Keys
    /\ MaxCounter \in Nat \ {0}
    /\ MaxRedeemers \in Nat \ {0}
    /\ MAX_OUTSTANDING_CHALLENGES \in Nat \ {0}

VARIABLES
    challenge,   \* attestchallenge: records
    ticket,      \* ticket: records
    owner,       \* the attested key of each ticket, and of its token
    token,       \* regtoken: records
    counter,     \* assertcounter: per key, 0 when absent
    registrant,  \* registrantKeyId
    verifier,    \* the room's verifier
    request,     \* the requests that have read a live challenge
    reading,     \* those of them that have not deleted it yet
    redeeming,   \* per ticket: sockets that read it live and have not deleted it
    grants,      \* history: per challenge, requests granted on it
    raced,       \* history: challenges two requests had read, neither deleted
    admissions,  \* history: per ticket, phones admitted with it
    accepted,    \* history: per key, the counters stored since the last wipe
    signer,      \* history: the key that asserted the current verifier
    torn,        \* history: "yes" when a crash cut a registration that had
                 \*   replaced the registrant of a standing verifier
    orphans      \* history: requests in flight when the room was last wiped

records == <<challenge, ticket, token>>
registration == <<counter, registrant, verifier>>
running == <<request, reading, redeeming>>
history == <<grants, raced, admissions, accepted, signer, torn, orphans>>
vars == <<records, owner, registration, running, history>>

Counters == 1..MaxCounter
Requests ==
    {NoRequest}
        \cup [kind : {"attest"}, ch : Challenges, key : Keys]
        \cup [kind : {"register"}, ch : Challenges, token : Tickets, v : Verifiers, c : Counters]
        \cup [kind : {"delete"}, ch : Challenges]

TypeOK ==
    /\ challenge \in [Challenges -> {"fresh", "live", "gone"}]
    /\ ticket \in [Tickets -> {"fresh", "live", "gone"}]
    /\ owner \in [Tickets -> Keys \cup {NoKey}]
    /\ token \in [Tickets -> {"fresh", "live", "gone"}]
    /\ counter \in [Keys -> 0..MaxCounter]
    /\ registrant \in Keys \cup {NoKey}
    /\ verifier \in Verifiers \cup {NoVerifier}
    /\ request \in [Reqs -> Requests]
    /\ reading \subseteq Reqs
    /\ redeeming \in [Tickets -> 0..MaxRedeemers]
    /\ grants \in [Challenges -> Nat]
    /\ raced \subseteq Challenges
    /\ admissions \in [Tickets -> Nat]
    /\ accepted \in [Keys -> SUBSET Counters]
    /\ signer \in Keys \cup {NoKey}
    /\ torn \in {"no", "yes"}
    /\ orphans \subseteq Reqs

Init ==
    /\ challenge = [ch \in Challenges |-> "fresh"]
    /\ ticket = [t \in Tickets |-> "fresh"]
    /\ owner = [t \in Tickets |-> NoKey]
    /\ token = [t \in Tickets |-> "fresh"]
    /\ counter = [k \in Keys |-> 0]
    /\ registrant = NoKey
    /\ verifier = NoVerifier
    /\ request = [q \in Reqs |-> NoRequest]
    /\ reading = {}
    /\ redeeming = [t \in Tickets |-> 0]
    /\ grants = [ch \in Challenges |-> 0]
    /\ raced = {}
    /\ admissions = [t \in Tickets |-> 0]
    /\ accepted = [k \in Keys |-> {}]
    /\ signer = NoKey
    /\ torn = "no"
    /\ orphans = {}

-----------------------------------------------------------------------------
(* Challenges, and what a request does with one.                           *)

Outstanding == {ch \in Challenges : challenge[ch] = "live"}

\* handleAttestChallenge
IssueChallenge(ch) ==
    /\ challenge[ch] = "fresh"
    /\ Cardinality(Outstanding) < MAX_OUTSTANDING_CHALLENGES
    /\ challenge' = [challenge EXCEPT ![ch] = "live"]
    /\ UNCHANGED <<ticket, token, owner, registration, running, history>>

\* A request reads the challenge it names, and finds it live.
ReadChallenge(q, r) ==
    /\ request[q] = NoRequest
    /\ challenge[r.ch] = "live"
    /\ request' = [request EXCEPT ![q] = r]
    /\ reading' = reading \cup {q}
    /\ raced' = IF \E p \in reading : request[p].ch = r.ch THEN raced \cup {r.ch} ELSE raced
    /\ orphans' = orphans \ {q}
    /\ UNCHANGED <<records, owner, registration, redeeming, grants, admissions, accepted,
                   signer, torn>>

\* Variant: the challenge is only deleted once the request is granted.
VerifyFirst(q) ==
    /\ q \in reading
    /\ reading' = reading \ {q}
    /\ UNCHANGED <<records, owner, registration, request, redeeming, history>>

\* It deletes the challenge, there or not, and goes to its verification.
ConsumeChallenge(q) ==
    /\ q \in reading
    /\ challenge' = [challenge EXCEPT ![request[q].ch] = "gone"]
    /\ reading' = reading \ {q}
    /\ UNCHANGED <<ticket, token, owner, registration, request, redeeming, history>>

\* The request has been verified and granted, or refused.
Grant(q) ==
    /\ request' = [request EXCEPT ![q] = NoRequest]
    /\ grants' = [grants EXCEPT ![request[q].ch] = @ + 1]

Refuse(q) ==
    /\ request[q] # NoRequest
    /\ q \notin reading
    /\ request' = [request EXCEPT ![q] = NoRequest]
    /\ UNCHANGED <<records, owner, registration, reading, redeeming, history>>

Verified(q, kind) == request[q] # NoRequest /\ q \notin reading /\ request[q].kind = kind

-----------------------------------------------------------------------------
(* Attestation and the ticket.                                             *)

Attest(q, ch, k) == ReadChallenge(q, [kind |-> "attest", ch |-> ch, key |-> k])

AttestVerified(q, t) ==
    /\ Verified(q, "attest")
    /\ ticket[t] = "fresh"
    /\ ticket' = [ticket EXCEPT ![t] = "live"]
    /\ owner' = [owner EXCEPT ![t] = request[q].key]
    /\ Grant(q)
    /\ UNCHANGED <<challenge, token, registration, reading, redeeming, raced, admissions,
                   accepted, signer, torn, orphans>>

\* handleProof with a ticket, in pairing mode: the ticket is read and is live.
ReadTicket(t) ==
    /\ verifier = NoVerifier
    /\ ticket[t] = "live"
    /\ redeeming[t] < MaxRedeemers
    /\ redeeming' = [redeeming EXCEPT ![t] = @ + 1]
    /\ UNCHANGED <<records, owner, registration, request, reading, history>>

\* Variant: what the delete deleted is not looked at.
RedeemUnchecked(t, admitted) ==
    /\ redeeming[t] > 0
    /\ redeeming' = [redeeming EXCEPT ![t] = @ - 1]
    /\ ticket' = [ticket EXCEPT ![t] = "gone"]
    /\ token' = IF admitted THEN [token EXCEPT ![t] = "live"] ELSE token
    /\ admissions' = IF admitted THEN [admissions EXCEPT ![t] = @ + 1] ELSE admissions
    /\ UNCHANGED <<challenge, owner, registration, request, reading, grants, raced, accepted,
                   signer, torn, orphans>>

\* It is deleted.  Only the socket whose delete removed it is taken to admit,
\* which gives it a registration token for the ticket's key, or turns it away.
RedeemTicket(t, admitted) ==
    /\ redeeming[t] > 0
    /\ admitted => ticket[t] = "live"
    /\ redeeming' = [redeeming EXCEPT ![t] = @ - 1]
    /\ ticket' = [ticket EXCEPT ![t] = "gone"]
    /\ token' = IF admitted THEN [token EXCEPT ![t] = "live"] ELSE token
    /\ admissions' = IF admitted THEN [admissions EXCEPT ![t] = @ + 1] ELSE admissions
    /\ UNCHANGED <<challenge, owner, registration, request, reading, grants, raced, accepted,
                   signer, torn, orphans>>

-----------------------------------------------------------------------------
(* Registration.                                                           *)

\* handleRegister up to its challenge.  The token is read, not consumed.
Register(q, ch, t, v, c) ==
    /\ verifier = NoVerifier
    /\ token[t] = "live"
    /\ ReadChallenge(q, [kind |-> "register", ch |-> ch, token |-> t, v |-> v, c |-> c])

\* Variant: a repeated counter passes.
StaleStrict(q) == request[q].c < counter[owner[request[q].token]]

Stale(q) == request[q].c <= counter[owner[request[q].token]]

\* Variant: the registrant is pinned once and kept.
PinKeeps(q) == registrant' = IF registrant = NoKey THEN owner[request[q].token] ELSE registrant

\* Variant: the token is pinned as the registrant.
PinToken(q) == registrant' = request[q].token

PinRegistrant(q) == registrant' = owner[request[q].token]

\* The writes that follow a good assertion, in the order the code makes them.
StoreCounter(q) ==
    LET k == owner[request[q].token] IN
    /\ counter' = [counter EXCEPT ![k] = request[q].c]
    /\ accepted' = [accepted EXCEPT ![k] = @ \cup {request[q].c}]

SpendToken(q) == token' = [token EXCEPT ![request[q].token] = "gone"]

\* The assertion is good: the counter, the registrant, the token and the
\* verifier are written.
RegisterVerified(q) ==
    /\ Verified(q, "register")
    /\ ~Stale(q)
    /\ StoreCounter(q) /\ PinRegistrant(q) /\ SpendToken(q)
    /\ verifier' = request[q].v
    /\ signer' = owner[request[q].token]
    /\ torn' = "no"
    /\ Grant(q)
    /\ UNCHANGED <<challenge, ticket, owner, reading, redeeming, raced, admissions, orphans>>

\* The process ends: every handler is lost, what is stored stays.
LoseHandlers ==
    /\ request' = [q \in Reqs |-> NoRequest]
    /\ reading' = {}
    /\ redeeming' = [t \in Tickets |-> 0]
    /\ orphans' = {}

Crash ==
    /\ LoseHandlers
    /\ UNCHANGED <<records, owner, registration, grants, raced, admissions, accepted, signer, torn>>

\* It ends between the writes of a registration: the counter is stored, then
\* the registrant, then the token is gone, and the verifier is still missing.
RegisterTorn(q, writes) ==
    /\ Verified(q, "register")
    /\ ~Stale(q)
    /\ StoreCounter(q)
    /\ IF writes >= 2 THEN PinRegistrant(q) ELSE UNCHANGED registrant
    /\ IF writes = 3 THEN SpendToken(q) ELSE UNCHANGED token
    /\ torn' = IF writes >= 2 /\ verifier # NoVerifier THEN "yes" ELSE torn
    /\ LoseHandlers
    /\ UNCHANGED <<challenge, ticket, owner, verifier, grants, raced, admissions, signer>>

-----------------------------------------------------------------------------
(* Deletion, reaping, expiry.                                              *)

\* deleteAll, with every record of the room.
Wipe ==
    /\ challenge' = [ch \in Challenges |-> IF challenge[ch] = "live" THEN "gone" ELSE challenge[ch]]
    /\ ticket' = [t \in Tickets |-> IF ticket[t] = "live" THEN "gone" ELSE ticket[t]]
    /\ token' = [t \in Tickets |-> IF token[t] = "live" THEN "gone" ELSE token[t]]
    /\ counter' = [k \in Keys |-> 0]
    /\ registrant' = NoKey
    /\ verifier' = NoVerifier
    /\ accepted' = [k \in Keys |-> {}]
    /\ signer' = NoKey
    /\ torn' = "no"
    /\ orphans' = {q \in Reqs : request'[q] # NoRequest}
    /\ UNCHANGED <<owner, reading, redeeming, raced, admissions>>

\* handleDelete up to its challenge.
Delete(q, ch) ==
    /\ verifier # NoVerifier
    /\ ReadChallenge(q, [kind |-> "delete", ch |-> ch])

DeleteVerified(q) ==
    /\ Verified(q, "delete")
    /\ Grant(q)
    /\ Wipe

\* The idle TTL, or the pairing-cycle cap, tears the room down.
Reap ==
    /\ UNCHANGED <<request, grants>>
    /\ Wipe

Expire ==
    /\ \/ \E ch \in Outstanding :
             /\ challenge' = [challenge EXCEPT ![ch] = "gone"]
             /\ UNCHANGED <<ticket, token>>
       \/ \E t \in Tickets :
             /\ ticket[t] = "live"
             /\ ticket' = [ticket EXCEPT ![t] = "gone"]
             /\ UNCHANGED <<challenge, token>>
       \/ \E t \in Tickets :
             /\ token[t] = "live"
             /\ token' = [token EXCEPT ![t] = "gone"]
             /\ UNCHANGED <<challenge, ticket>>
    /\ UNCHANGED <<owner, registration, running, history>>

Next ==
    \/ \E ch \in Challenges : IssueChallenge(ch)
    \/ \E q \in Reqs :
          \/ \E ch \in Challenges :
                \/ \E k \in Keys : Attest(q, ch, k)
                \/ \E t \in Tickets, v \in Verifiers, c \in Counters : Register(q, ch, t, v, c)
                \/ Delete(q, ch)
          \/ ConsumeChallenge(q) \/ Refuse(q)
          \/ \E t \in Tickets : AttestVerified(q, t)
          \/ RegisterVerified(q) \/ DeleteVerified(q)
          \/ \E writes \in 1..3 : RegisterTorn(q, writes)
    \/ \E t \in Tickets : ReadTicket(t) \/ \E admitted \in BOOLEAN : RedeemTicket(t, admitted)
    \/ Reap \/ Expire \/ Crash

Spec == Init /\ [][Next]_vars

-----------------------------------------------------------------------------
(* Properties.                                                             *)

\* A challenge is good for one request, whichever endpoints race for it, unless
\* two of them had read it before either deleted it: nothing but that gap lets
\* a challenge be used again, not its expiry, a wipe or a crash.
ChallengeSingleUse == \A ch \in Challenges \ raced : grants[ch] <= 1

\* A ticket admits one phone (handleProof, "ATOMIC single-use"), also when
\* several sockets have read it before one of them deletes it.
TicketSingleUse == \A t \in Tickets : admissions[t] <= 1

\* The registrant pinned with a verifier is the attested key that asserted it,
\* also when registrations and wipes overlap, unless a crash cut a second
\* registration between its registrant and its verifier.
RegistrantAsserted == verifier # NoVerifier => registrant = signer \/ torn = "yes"

\* Replay bound: the counter a registration is granted with exceeds every
\* counter stored for that key since the room was last wiped.
CountersIncrease ==
    [][\A q \in Reqs :
          Verified(q, "register") /\ request'[q] # request[q] /\ grants' # grants
            => \A d \in accepted[owner[request[q].token]] : d < request[q].c]_vars

\* handleRegister, overwrite protection: once a verifier is registered, only a
\* wipe of the room removes it.
VerifierNotOverwritten ==
    [][verifier # NoVerifier /\ verifier' # verifier => verifier' = NoVerifier]_vars

\* teardownRoom: "so nothing (pseudonym, verifier, attest key id) survives": a
\* request that was in flight when the room was wiped writes nothing after.
NothingSurvivesWipe ==
    [][\A q \in orphans : request'[q] # request[q] => grants' = grants]_vars
=============================================================================
