----------------------------- MODULE Enrollment -----------------------------
(***************************************************************************)
(* enrollment-service redeems a token for a device certificate that        *)
(* pki-service issues.                                                     *)
(*                                                                         *)
(* A redemption commits a reservation, calls PKI without any lock, and     *)
(* records the outcome in a second transaction.  That transaction selects  *)
(* its rows again FOR UPDATE, but the session already holds them as        *)
(* objects (autoflush and expire_on_commit are off, and the select does    *)
(* not repopulate them): it decides on what the first transaction read,    *)
(* and writes only the columns it changes from those values.  `req` is     *)
(* what a handler remembers of that reading.                               *)
(*                                                                         *)
(* device_id, issuance_id and request fingerprint are drawn together:      *)
(* Identity.  A PKI call is in `calls` once sent, with the grant its        *)
(* handler signed, and may be executed late, repeatedly or never;          *)
(* pki-service is idempotent by issuance_id, so the table `certificates`   *)
(* is a set of identities.                                                 *)
(***************************************************************************)
EXTENDS Naturals, Sequences, FiniteSets

CONSTANTS
    Token,            \* enrollment_tokens.id
    Handler,          \* concurrent requests (bound)
    Request,          \* fingerprints: CSR, platform, host name, agent version
    Unfit,            \* the requests pki-service refuses whenever it sees them
    GrantsLapse,      \* may a grant lapse before PKI has answered all tries?
    MaxAttempts       \* identities drawn for one token (bound)

ASSUME UnfitAssumption == Unfit \subseteq Request
ASSUME GrantsLapseAssumption == GrantsLapse \in BOOLEAN
ASSUME MaxAttemptsAssumption == MaxAttempts \in Nat

VARIABLES
    tokens,           \* table enrollment_tokens
    enrollments,      \* table device_enrollments, at most one row per token
    events,           \* enrollment-service's outbox, by token, oldest first
    req,              \* what each handler of enrollment-service remembers
    calls,            \* requests sent to POST /certificates/issue whose grant
                      \* is not known to have lapsed
    certificates,     \* pki-service's table certificates
    answers           \* every 200 and 201 the service gave (history)

vars == <<tokens, enrollments, events, req, calls, certificates, answers>>

Identity == [token : Token, attempt : Nat \ {0}, request : Request]
None == [token |-> "none"]

TokenRow ==
    [created : BOOLEAN, expired : BOOLEAN, revoked : BOOLEAN,
     reserved : BOOLEAN, consumedBy : Identity \cup {None}]
NewToken ==
    [created |-> TRUE, expired |-> FALSE, revoked |-> FALSE,
     reserved |-> FALSE, consumedBy |-> None]

Failures == {"none", "pki_rejected", "pki_unavailable"}
Enrollments ==
    [status : {"pending", "enrolled", "failed"}, id : Identity,
     certificate : Identity \cup {None}, failure : Failures]
NoEnrollment == [status |-> "absent"]
NewEnrollment(id) ==
    [status |-> "pending", id |-> id, certificate |-> None, failure |-> "none"]

Event ==
    [type : {"token.created", "token.revoked"}]
    \cup [type : {"device.enrolled", "device.enrollment.failed"}, id : Identity]

Idle == [op |-> "idle"]
Handling ==
    {Idle} \cup [op : {"revoke"}, token : Token]
    \cup [op : {"issue"}, id : Identity, failure : Failures]
    \cup [op : {"answer"}, id : Identity]

TypeOK ==
    /\ tokens \in [Token -> TokenRow]
    /\ enrollments \in [Token -> Enrollments \cup {NoEnrollment}]
    /\ events \in [Token -> Seq(Event)]
    /\ req \in [Handler -> Handling]
    /\ calls \subseteq [handler : Handler, id : Identity]
    /\ certificates \subseteq Identity
    /\ answers \subseteq [asked : Identity, device : Identity, certificate : Identity]

Init ==
    /\ tokens = [t \in Token |-> [NewToken EXCEPT !.created = FALSE]]
    /\ enrollments = [t \in Token |-> NoEnrollment]
    /\ events = [t \in Token |-> <<>>]
    /\ req = [h \in Handler |-> Idle]
    /\ calls = {}
    /\ certificates = {}
    /\ answers = {}

-----------------------------------------------------------------------------
(* Helpers *)

Consumed(t) == tokens[t].consumedBy # None
Finish(h) == req' = [req EXCEPT ![h] = Idle]
Emit(t, e) == events' = [events EXCEPT ![t] = Append(@, e)]

-----------------------------------------------------------------------------
(* Tokens *)

CreateToken(t) ==
    /\ ~tokens[t].created
    /\ tokens' = [tokens EXCEPT ![t] = NewToken]
    /\ Emit(t, [type |-> "token.created"])
    /\ UNCHANGED <<enrollments, req, calls, certificates, answers>>

\* expires_at passes.
ExpireToken(t) ==
    /\ tokens[t].created
    /\ ~tokens[t].expired
    /\ tokens' = [tokens EXCEPT ![t].expired = TRUE]
    /\ UNCHANGED <<enrollments, events, req, calls, certificates, answers>>

\* Revocation reads the row without a lock and asks other services whether the
\* caller may; a row read as revoked is answered at once.
RevokeRead(h, t) ==
    /\ req[h] = Idle
    /\ tokens[t].created
    /\ ~tokens[t].revoked
    /\ req' = [req EXCEPT ![h] = [op |-> "revoke", token |-> t]]
    /\ UNCHANGED <<tokens, enrollments, events, calls, certificates, answers>>

RevokeCommit(h) ==
    /\ req[h].op = "revoke"
    /\ tokens' = [tokens EXCEPT ![req[h].token].revoked = TRUE]
    /\ Emit(req[h].token, [type |-> "token.revoked"])
    /\ Finish(h)
    /\ UNCHANGED <<enrollments, calls, certificates, answers>>

-----------------------------------------------------------------------------
(* POST /enrollments *)

\* The reservation is committed and the call to PKI is sent.
Call(h, id, failure) ==
    /\ req' = [req EXCEPT ![h] = [op |-> "issue", id |-> id, failure |-> failure]]
    /\ calls' = calls \cup {[handler |-> h, id |-> id]}

\* No enrollment yet, or one that failed before it had a certificate.
Startable(e) ==
    e = NoEnrollment \/ (e.status = "failed" /\ e.certificate = None)

NextAttempt(t) ==
    IF enrollments[t] = NoEnrollment THEN 1 ELSE enrollments[t].id.attempt + 1

\* Mutant: revocation is not looked at.
Reserve_Revoked(h, t, r) ==
    /\ req[h] = Idle
    /\ tokens[t].created /\ ~tokens[t].expired
    /\ ~Consumed(t) /\ ~tokens[t].reserved
    /\ Startable(enrollments[t])
    /\ NextAttempt(t) <= MaxAttempts
    /\ LET id == [token |-> t, attempt |-> NextAttempt(t), request |-> r]
       IN  /\ enrollments' = [enrollments EXCEPT ![t] = NewEnrollment(id)]
           /\ Call(h, id, "none")
    /\ tokens' = [tokens EXCEPT ![t].reserved = TRUE]
    /\ UNCHANGED <<events, certificates, answers>>

\* Mutant: a pending reservation is taken over by another request.
Reserve_TakesOver(h, t, r) ==
    /\ req[h] = Idle
    /\ tokens[t].created /\ ~tokens[t].expired /\ ~tokens[t].revoked /\ ~Consumed(t)
    /\ NextAttempt(t) <= MaxAttempts
    /\ LET id == [token |-> t, attempt |-> NextAttempt(t), request |-> r]
       IN  /\ enrollments' = [enrollments EXCEPT ![t] = NewEnrollment(id)]
           /\ Call(h, id, "none")
    /\ tokens' = [tokens EXCEPT ![t].reserved = TRUE]
    /\ UNCHANGED <<events, certificates, answers>>

\* The token is free: a new identity is drawn for the request.
Reserve(h, t, r) ==
    /\ req[h] = Idle
    /\ tokens[t].created /\ ~tokens[t].expired /\ ~tokens[t].revoked
    /\ ~Consumed(t) /\ ~tokens[t].reserved
    /\ Startable(enrollments[t])
    /\ NextAttempt(t) <= MaxAttempts
    /\ LET id == [token |-> t, attempt |-> NextAttempt(t), request |-> r]
       IN  /\ enrollments' = [enrollments EXCEPT ![t] = NewEnrollment(id)]
           /\ Call(h, id, "none")
    /\ tokens' = [tokens EXCEPT ![t].reserved = TRUE]
    /\ UNCHANGED <<events, certificates, answers>>

\* The token is reserved for the same request: the retry carries on with its
\* identity, expired or not.
Resume(h, t, r) ==
    /\ req[h] = Idle
    /\ tokens[t].reserved /\ ~tokens[t].revoked /\ ~Consumed(t)
    /\ enrollments[t].id.request = r
    /\ Call(h, enrollments[t].id, enrollments[t].failure)
    /\ UNCHANGED <<tokens, enrollments, events, certificates, answers>>

Answered(asked, e) ==
    answers' = answers \cup {[asked |-> asked, device |-> e.id, certificate |-> e.certificate]}

\* Mutant: whoever has the token gets the stored result.
Replay_AnyRequest(h, t, r) ==
    /\ req[h] = Idle
    /\ Consumed(t)
    /\ enrollments[t].status = "enrolled"
    /\ Answered([enrollments[t].id EXCEPT !.request = r], enrollments[t])
    /\ UNCHANGED <<tokens, enrollments, events, req, calls, certificates>>

\* The token is consumed: the same request gets the stored result.
Replay(h, t, r) ==
    /\ req[h] = Idle
    /\ Consumed(t)
    /\ enrollments[t].id.request = r
    /\ enrollments[t].status = "enrolled"
    /\ Answered(enrollments[t].id, enrollments[t])
    /\ UNCHANGED <<tokens, enrollments, events, req, calls, certificates>>

\* pki-service executes a call.  It stores a certificate unless the issuance_id
\* has one, which it then returns: a unique constraint decides between two.
Certify(call) ==
    /\ call.id.request \notin Unfit
    /\ certificates' = certificates \cup {call.id}
    /\ UNCHANGED <<tokens, enrollments, events, req, calls, answers>>

\* Mutant: the status is left as it was.
Enroll_StaysPending(h) ==
    LET id == req[h].id
    IN  /\ req[h].op = "issue"
        /\ id \in certificates
        /\ enrollments' = [enrollments EXCEPT ![id.token].certificate = id]
        /\ tokens' = [tokens EXCEPT ![id.token].consumedBy = id]
        /\ Emit(id.token, [type |-> "device.enrolled", id |-> id])
        /\ req' = [req EXCEPT ![h] = [op |-> "answer", id |-> id]]
        /\ UNCHANGED <<calls, certificates, answers>>

\* Mutant: the outcome is recorded before PKI has answered.
Enroll_Early(h) ==
    LET id == req[h].id
    IN  /\ req[h].op = "issue"
        /\ enrollments' = [enrollments EXCEPT ![id.token].status = "enrolled",
                                              ![id.token].certificate = id]
        /\ tokens' = [tokens EXCEPT ![id.token].consumedBy = id]
        /\ Emit(id.token, [type |-> "device.enrolled", id |-> id])
        /\ req' = [req EXCEPT ![h] = [op |-> "answer", id |-> id]]
        /\ UNCHANGED <<calls, certificates, answers>>

\* Mutant: an attempt with a recorded failure is not completed.
Enroll_FirstTryOnly(h) ==
    LET id == req[h].id
    IN  /\ req[h].op = "issue" /\ req[h].failure = "none"
        /\ id \in certificates
        /\ enrollments' = [enrollments EXCEPT ![id.token].status = "enrolled",
                                              ![id.token].certificate = id]
        /\ tokens' = [tokens EXCEPT ![id.token].consumedBy = id]
        /\ Emit(id.token, [type |-> "device.enrolled", id |-> id])
        /\ req' = [req EXCEPT ![h] = [op |-> "answer", id |-> id]]
        /\ UNCHANGED <<calls, certificates, answers>>

\* PKI answered with the certificate.  The remembered row was pending, so the
\* test for an enrollment completed meanwhile never succeeds; identity columns
\* are not written; the failure is cleared only if it was there before.
Enroll(h) ==
    LET id == req[h].id
    IN  /\ req[h].op = "issue"
        /\ id \in certificates
        /\ enrollments' = [enrollments EXCEPT
                             ![id.token].status = "enrolled",
                             ![id.token].certificate = id,
                             ![id.token].failure = IF req[h].failure = "none" THEN @ ELSE "none"]
        /\ tokens' = [tokens EXCEPT ![id.token].consumedBy = id]
        /\ Emit(id.token, [type |-> "device.enrolled", id |-> id])
        /\ req' = [req EXCEPT ![h] = [op |-> "answer", id |-> id]]
        /\ UNCHANGED <<calls, certificates, answers>>

\* The answer is built from the row as it is after the commit.
Answer(h) ==
    LET e == enrollments[req[h].id.token]
    IN  /\ req[h].op = "answer"
        /\ IF e.status = "enrolled" THEN Answered(req[h].id, e) ELSE UNCHANGED answers
        /\ Finish(h)
        /\ UNCHANGED <<tokens, enrollments, events, calls, certificates>>

FailureAfter(h, code) ==
    IF req[h].failure = code THEN enrollments[req[h].id.token].failure ELSE code

\* PKI answered 4xx, to an unfit request or because the grant has lapsed, which
\* it checks before it looks the issuance_id up: the attempt has failed and the
\* token is free again.  The remembered row has no certificate.
PkiRejected(h) ==
    LET id == req[h].id
    IN  /\ req[h].op = "issue"
        /\ id.request \in Unfit \/ GrantsLapse
        /\ enrollments' = [enrollments EXCEPT
                             ![id.token].status = "failed",
                             ![id.token].failure = FailureAfter(h, "pki_rejected")]
        /\ tokens' = [tokens EXCEPT ![id.token].reserved = FALSE]
        /\ Emit(id.token, [type |-> "device.enrollment.failed", id |-> id])
        /\ calls' = calls \ {[handler |-> h, id |-> id]}
        /\ Finish(h)
        /\ UNCHANGED <<certificates, answers>>

\* Mutant: a call without an answer counts as a failed attempt.
PkiUnavailable_Releases(h) ==
    LET id == req[h].id
    IN  /\ req[h].op = "issue"
        /\ enrollments' = [enrollments EXCEPT
                             ![id.token].status = "failed",
                             ![id.token].failure = FailureAfter(h, "pki_unavailable")]
        /\ tokens' = [tokens EXCEPT ![id.token].reserved = FALSE]
        /\ Finish(h)
        /\ UNCHANGED <<events, calls, certificates, answers>>

\* No usable answer in any try: the reservation stays.
PkiUnavailable(h) ==
    LET id == req[h].id
    IN  /\ req[h].op = "issue"
        /\ enrollments' = [enrollments EXCEPT
                             ![id.token].failure = FailureAfter(h, "pki_unavailable")]
        /\ Finish(h)
        /\ UNCHANGED <<tokens, events, calls, certificates, answers>>

\* The process dies, the database fails or breaks a deadlock, or the caller is
\* gone before it reads the answer.
Abort(h) ==
    /\ req[h] # Idle
    /\ Finish(h)
    /\ UNCHANGED <<tokens, enrollments, events, calls, certificates, answers>>

-----------------------------------------------------------------------------
Redeem(h, t, r) == Reserve(h, t, r) \/ Resume(h, t, r) \/ Replay(h, t, r)
Proceed(h) == Enroll(h) \/ Answer(h) \/ PkiRejected(h) \/ PkiUnavailable(h)

Next ==
    \/ \E t \in Token : CreateToken(t) \/ ExpireToken(t)
    \/ \E h \in Handler :
        \/ \E t \in Token : RevokeRead(h, t) \/ \E r \in Request : Redeem(h, t, r)
        \/ RevokeCommit(h) \/ Proceed(h) \/ Abort(h)
    \/ \E call \in calls : Certify(call)

Spec == Init /\ [][Next]_vars

\* Handlers end: every call has a timeout.  PKI executes what it is sent, and a
\* call repeated again and again is answered once.
FairSpec ==
    /\ Spec
    /\ \A h \in Handler : WF_vars(Proceed(h) \/ RevokeCommit(h)) /\ SF_vars(Enroll(h))
    /\ WF_vars(\E call \in calls : Certify(call))

-----------------------------------------------------------------------------
(* Properties *)

EventsOf(t, type) == {i \in DOMAIN events[t] : events[t][i].type = type}

\* What the service calls enrolled has a certificate at PKI: the identity that
\* consumed a token, the certificate on record, every device.enrolled event
\* (enroll_device records the outcome after PKI's answer, whoever else is
\* redeeming the token and whatever was lost).
EnrolledMeansCertified ==
    \A t \in Token :
        /\ Consumed(t) => {tokens[t].consumedBy, enrollments[t].certificate} \subseteq certificates
        /\ \A i \in EventsOf(t, "device.enrolled") : events[t][i].id \in certificates

\* A token that is expired, revoked or consumed begins no new enrollment, and
\* consumption is final: no handler, however stale its reading of the token,
\* gives it another identity (the checks of reserve_or_resume under the lock).
SpentTokenStartsNothing ==
    [][\A t \in Token :
        /\ tokens[t].expired \/ tokens[t].revoked \/ Consumed(t)
             => (enrollments'[t] = NoEnrollment <=> enrollments[t] = NoEnrollment)
                /\ (enrollments[t] # NoEnrollment => enrollments'[t].id = enrollments[t].id)
        /\ Consumed(t) => tokens'[t].consumedBy # None]_vars

\* A reservation belongs to one request: while the token is reserved no other
\* request replaces the identity drawn for it (reserve_or_resume refuses it as
\* a replay), through lost answers, restarts and retries.
ReservationBindsOneRequest ==
    [][\A t \in Token : tokens[t].reserved => enrollments'[t].id = enrollments[t].id]_vars

\* "A completed enrollment remains retrievable by an identical retry" (comment in
\* reserve_or_resume): a consumed token has an enrolled row whose certificate is
\* that of its own device.  Concurrent redemptions break it.
CompletedIsRetrievable ==
    \A t \in Token : Consumed(t) =>
        /\ enrollments[t].status = "enrolled"
        /\ enrollments[t].certificate = enrollments[t].id
        /\ tokens[t].consumedBy = enrollments[t].id

\* An answer carries the certificate of the request it answers and of the device
\* it names (_result reads the row again after the commit).  Concurrent
\* redemptions break it.
AnswerIsOwn ==
    \A a \in answers : a.certificate = a.asked /\ a.device = a.asked

\* "Once a PKI certificate exists, Enrollment must never create a new issuance ID
\* to recover" (design, failure handling).  A refusal that follows a lost answer
\* breaks it.
NoNewIdentityOnceCertified ==
    [][\A c \in certificates :
        c.attempt = enrollments[c.token].id.attempt
            => enrollments'[c.token].id = enrollments[c.token].id]_vars

\* An enrollment whose caller repeats its request again and again after losses,
\* outages and restarts is completed (transient PKI failures keep the
\* reservation and its identity), unless the token is revoked.
RetriesComplete ==
    \A t \in Token :
        []<><<\E h \in Handler, r \in Request \ Unfit : Resume(h, t, r)>>_vars
            => <>Consumed(t)
=============================================================================
