-------------------------- MODULE EnrollmentProofs --------------------------
(***************************************************************************)
(* Theorems about Enrollment, for every value of its constants: any number *)
(* of tokens, requests and concurrent handlers, lapsing grants or not.     *)
(***************************************************************************)
EXTENDS Enrollment, TLAPS

\* What a handler relies on: a row belongs to a created token, a token in use and
\* a token being redeemed have their row, and an enrolled row has a certificate.
RowsAreThere ==
    /\ \A t \in Token :
        /\ enrollments[t] # NoEnrollment => enrollments[t].id.token = t /\ tokens[t].created
        /\ tokens[t].reserved \/ Consumed(t) => enrollments[t] # NoEnrollment
        /\ enrollments[t].status = "enrolled" => enrollments[t].certificate # None
    /\ \A h \in Handler :
        req[h].op \in {"issue", "answer"} => enrollments[req[h].id.token] # NoEnrollment

IInv == TypeOK /\ RowsAreThere /\ EnrolledMeansCertified

-----------------------------------------------------------------------------
(* Values *)

\* The absence of a certificate is no identity.
LEMMA NoneIsNoIdentity == None \notin Identity
BY DEF None, Identity

\* What is known of an enrollment that is on record.
LEMMA StoredRow ==
    ASSUME NEW e \in Enrollments \cup {NoEnrollment}, e # NoEnrollment
    PROVE  /\ e \in Enrollments
           /\ e.id \in Identity
           /\ e.failure \in Failures
           /\ e.certificate \in Identity \cup {None}
BY DEF Enrollments, NoEnrollment

\* A new enrollment is an enrollment.
LEMMA NewRow ==
    ASSUME NEW id \in Identity
    PROVE  /\ NewEnrollment(id) \in Enrollments
           /\ NewEnrollment(id) # NoEnrollment
BY DEF NewEnrollment, Enrollments, NoEnrollment, Failures

\* What a request carries is well typed.
LEMMA RequestFields ==
    ASSUME TypeOK, NEW h \in Handler
    PROVE  /\ req[h].op = "issue" => req[h].id \in Identity /\ req[h].failure \in Failures
           /\ req[h].op = "answer" => req[h].id \in Identity
           /\ req[h].op = "revoke" => req[h].token \in Token
BY DEF TypeOK, Handling, Idle

\* The identity that would be drawn next is an identity.
LEMMA NextIdentity ==
    ASSUME TypeOK, NEW t \in Token, NEW r \in Request
    PROVE  [token |-> t, attempt |-> NextAttempt(t), request |-> r] \in Identity
<1>1. CASE enrollments[t] = NoEnrollment
  BY <1>1 DEF NextAttempt, Identity
<1>2. CASE enrollments[t] # NoEnrollment
  <2>1. enrollments[t].id.attempt \in Nat \ {0}
    BY <1>2, StoredRow DEF TypeOK, Identity
  <2>2. NextAttempt(t) \in Nat \ {0}
    BY <1>2, <2>1 DEF NextAttempt
  <2>3. QED  BY <2>2 DEF Identity
<1>3. QED  BY <1>1, <1>2

-----------------------------------------------------------------------------
(* What a step does to a row *)

\* The row that Enroll, PkiRejected or PkiUnavailable writes.
LEMMA EnrollWrites ==
    ASSUME TypeOK, RowsAreThere, NEW h \in Handler, Enroll(h)
    PROVE  LET id == req[h].id
           IN  /\ id \in Identity /\ id \in certificates
               /\ enrollments' \in [Token -> Enrollments \cup {NoEnrollment}]
               /\ \A t \in Token : t # id.token => enrollments'[t] = enrollments[t]
               /\ enrollments'[id.token] # NoEnrollment
               /\ enrollments'[id.token].id = enrollments[id.token].id
               /\ enrollments'[id.token].status = "enrolled"
               /\ enrollments'[id.token].certificate = id
<1> DEFINE id == req[h].id
           e == enrollments[id.token]
           f == IF req[h].failure = "none" THEN e.failure ELSE "none"
           w == [e EXCEPT !.status = "enrolled", !.certificate = id, !.failure = f]
<1>1. id \in Identity /\ id.token \in Token /\ id \in certificates
  BY RequestFields DEF Enroll, Identity
<1>2. e \in Enrollments
  BY <1>1, StoredRow DEF RowsAreThere, Enroll, TypeOK
<1>3. f \in Failures
  BY <1>2 DEF Enrollments, Failures
<1>4. w \in Enrollments /\ w # NoEnrollment /\ w.id = e.id /\ w.status = "enrolled" /\ w.certificate = id
  BY <1>1, <1>2, <1>3 DEF Enrollments, NoEnrollment
<1>5. enrollments' = [enrollments EXCEPT ![id.token] = w]
  BY <1>1, <1>2 DEF Enroll, TypeOK, Enrollments
<1>6. QED  BY <1>1, <1>4, <1>5 DEF TypeOK

\* A failure leaves the identity and the certificate of the row.
LEMMA FailureWrites ==
    ASSUME TypeOK, RowsAreThere, NEW h \in Handler, PkiRejected(h) \/ PkiUnavailable(h)
    PROVE  LET id == req[h].id
           IN  /\ id \in Identity
               /\ enrollments' \in [Token -> Enrollments \cup {NoEnrollment}]
               /\ \A t \in Token : t # id.token => enrollments'[t] = enrollments[t]
               /\ enrollments'[id.token] # NoEnrollment
               /\ enrollments'[id.token].id = enrollments[id.token].id
               /\ enrollments'[id.token].certificate = enrollments[id.token].certificate
               /\ enrollments'[id.token].status = "enrolled" => enrollments[id.token].status = "enrolled"
<1> DEFINE id == req[h].id
           e == enrollments[id.token]
<1>1. id \in Identity /\ id.token \in Token /\ req[h].failure \in Failures
  BY RequestFields DEF PkiRejected, PkiUnavailable, Identity
<1>2. e \in Enrollments
  BY <1>1, StoredRow DEF RowsAreThere, PkiRejected, PkiUnavailable, TypeOK
<1>3. \A code \in {"pki_rejected", "pki_unavailable"} : FailureAfter(h, code) \in Failures
  BY <1>2 DEF FailureAfter, Enrollments, Failures
<1>4. CASE PkiRejected(h)
  <2> DEFINE w == [e EXCEPT !.status = "failed", !.failure = FailureAfter(h, "pki_rejected")]
  <2>1. /\ w \in Enrollments /\ w # NoEnrollment /\ w.id = e.id
        /\ w.status = "failed" /\ w.certificate = e.certificate
    BY <1>2, <1>3 DEF Enrollments, NoEnrollment
  <2>2. enrollments' = [enrollments EXCEPT ![id.token] = w]
    BY <1>1, <1>2, <1>4 DEF PkiRejected, TypeOK, Enrollments
  <2>3. QED  BY <1>1, <2>1, <2>2 DEF TypeOK
<1>5. CASE PkiUnavailable(h)
  <2> DEFINE w == [e EXCEPT !.failure = FailureAfter(h, "pki_unavailable")]
  <2>1. /\ w \in Enrollments /\ w # NoEnrollment /\ w.id = e.id
        /\ w.status = e.status /\ w.certificate = e.certificate
    BY <1>2, <1>3 DEF Enrollments, NoEnrollment
  <2>2. enrollments' = [enrollments EXCEPT ![id.token] = w]
    BY <1>1, <1>2, <1>5 DEF PkiUnavailable, TypeOK, Enrollments
  <2>3. QED  BY <1>1, <2>1, <2>2 DEF TypeOK
<1>6. QED  BY <1>4, <1>5

\* A reservation writes a pending row with a fresh identity.
LEMMA ReserveWrites ==
    ASSUME TypeOK, NEW h \in Handler, NEW t \in Token, NEW r \in Request, Reserve(h, t, r)
    PROVE  LET id == [token |-> t, attempt |-> NextAttempt(t), request |-> r]
           IN  /\ id \in Identity
               /\ enrollments' \in [Token -> Enrollments \cup {NoEnrollment}]
               /\ \A u \in Token : u # t => enrollments'[u] = enrollments[u]
               /\ enrollments'[t] = NewEnrollment(id)
               /\ enrollments'[t] # NoEnrollment
               /\ req' = [req EXCEPT ![h] = [op |-> "issue", id |-> id, failure |-> "none"]]
               /\ calls' = calls \cup {[handler |-> h, id |-> id]}
<1> DEFINE id == [token |-> t, attempt |-> NextAttempt(t), request |-> r]
<1>1. id \in Identity
  BY NextIdentity
<1>2. NewEnrollment(id) \in Enrollments /\ NewEnrollment(id) # NoEnrollment
  BY <1>1, NewRow
<1>3. /\ enrollments' = [enrollments EXCEPT ![t] = NewEnrollment(id)]
      /\ Call(h, id, "none")
  BY DEF Reserve
<1>4. QED  BY <1>1, <1>2, <1>3 DEF TypeOK, Call

-----------------------------------------------------------------------------
(* The inductive invariant *)

\* A new token is a token.
LEMMA NewTokenType == NewToken \in TokenRow
BY DEF NewToken, TokenRow

\* The invariant holds at first.
LEMMA InitInv == Init => IInv
<1> SUFFICES ASSUME Init PROVE IInv
  OBVIOUS
<1>1. TypeOK
  <2>1. tokens \in [Token -> TokenRow]
    BY NewTokenType DEF Init, TokenRow
  <2>2. events \in [Token -> Seq(Event)] /\ req \in [Handler -> Handling]
    BY DEF Init, Handling
  <2>3. QED  BY <2>1, <2>2 DEF Init, TypeOK
<1>2. \A t \in Token : ~Consumed(t) /\ ~tokens[t].reserved /\ enrollments[t].status = "absent"
  BY DEF Init, NewToken, Consumed, NoEnrollment
<1>3. RowsAreThere
  BY <1>2 DEF RowsAreThere, Init, Idle
<1>4. EnrolledMeansCertified
  BY <1>2 DEF EnrolledMeansCertified, EventsOf, Init
<1>5. QED  BY <1>1, <1>3, <1>4 DEF IInv

\* An event that is written leaves the outbox well typed.
LEMMA EmitType ==
    ASSUME TypeOK, NEW t \in Token, NEW e \in Event, Emit(t, e)
    PROVE  events' \in [Token -> Seq(Event)]
BY DEF TypeOK, Emit

\* Every step keeps the types.
LEMMA NextType == TypeOK /\ RowsAreThere /\ [Next]_vars => TypeOK'
<1> SUFFICES ASSUME TypeOK, RowsAreThere, [Next]_vars PROVE TypeOK'
  OBVIOUS
<1>1. ASSUME NEW t \in Token, CreateToken(t) \/ ExpireToken(t)
      PROVE  TypeOK'
  <2>1. tokens' \in [Token -> TokenRow]
    <3>1. CASE CreateToken(t)
      BY <3>1, NewTokenType DEF TypeOK, CreateToken
    <3>2. CASE ExpireToken(t)
      BY <3>2 DEF TypeOK, ExpireToken, TokenRow
    <3>3. QED  BY <1>1, <3>1, <3>2
  <2>2. events' \in [Token -> Seq(Event)]
    BY <1>1, EmitType DEF TypeOK, CreateToken, ExpireToken, Event
  <2>3. QED  BY <1>1, <2>1, <2>2 DEF TypeOK, CreateToken, ExpireToken
<1>2. ASSUME NEW h \in Handler, NEW t \in Token, RevokeRead(h, t)
      PROVE  TypeOK'
  BY <1>2 DEF TypeOK, RevokeRead, Handling
<1>3. ASSUME NEW h \in Handler, RevokeCommit(h)
      PROVE  TypeOK'
  <2>1. req[h].token \in Token
    BY <1>3, RequestFields DEF RevokeCommit
  <2>2. tokens' \in [Token -> TokenRow]
    BY <1>3, <2>1 DEF TypeOK, RevokeCommit, TokenRow
  <2>3. events' \in [Token -> Seq(Event)]
    BY <1>3, <2>1, EmitType DEF RevokeCommit, Event
  <2>4. QED  BY <1>3, <2>2, <2>3 DEF TypeOK, RevokeCommit, Finish, Handling
<1>4. ASSUME NEW h \in Handler, NEW t \in Token, NEW r \in Request, Reserve(h, t, r)
      PROVE  TypeOK'
  <2>1. tokens' \in [Token -> TokenRow]
    BY <1>4 DEF TypeOK, Reserve, TokenRow
  <2> DEFINE id == [token |-> t, attempt |-> NextAttempt(t), request |-> r]
  <2>2. req' \in [Handler -> Handling] /\ calls' \subseteq [handler : Handler, id : Identity]
    <3>1. id \in Identity /\ "none" \in Failures
      BY NextIdentity DEF Failures
    <3>2. [op |-> "issue", id |-> id, failure |-> "none"] \in Handling
      BY <3>1 DEF Handling
    <3>3. /\ req' = [req EXCEPT ![h] = [op |-> "issue", id |-> id, failure |-> "none"]]
          /\ calls' = calls \cup {[handler |-> h, id |-> id]}
      BY <1>4 DEF Reserve, Call
    <3>4. QED  BY <3>1, <3>2, <3>3 DEF TypeOK
  <2>3. QED  BY <1>4, <2>1, <2>2, ReserveWrites DEF TypeOK, Reserve
<1>5. ASSUME NEW h \in Handler, NEW t \in Token, NEW r \in Request, Resume(h, t, r)
      PROVE  TypeOK'
  <2>1. enrollments[t].id \in Identity /\ enrollments[t].failure \in Failures
    BY <1>5, StoredRow DEF TypeOK, RowsAreThere, Resume
  <2>2. QED  BY <1>5, <2>1 DEF TypeOK, Resume, Call, Handling
<1>6. ASSUME NEW h \in Handler, NEW t \in Token, NEW r \in Request, Replay(h, t, r)
      PROVE  TypeOK'
  <2>1. enrollments[t].id \in Identity /\ enrollments[t].certificate \in Identity
    BY <1>6, StoredRow DEF TypeOK, RowsAreThere, Replay
  <2>2. QED  BY <1>6, <2>1 DEF TypeOK, Replay, Answered
<1>7. ASSUME NEW call \in calls, Certify(call)
      PROVE  TypeOK'
  BY <1>7 DEF TypeOK, Certify
<1>8. ASSUME NEW h \in Handler, Enroll(h)
      PROVE  TypeOK'
  <2>1. req[h].id \in Identity /\ req[h].id.token \in Token
    BY <1>8, EnrollWrites DEF Identity
  <2>2. tokens' \in [Token -> TokenRow]
    BY <1>8, <2>1 DEF TypeOK, Enroll, TokenRow
  <2>3. events' \in [Token -> Seq(Event)]
    BY <1>8, <2>1, EmitType DEF Enroll, Event
  <2>4. req' \in [Handler -> Handling]
    BY <1>8, <2>1 DEF TypeOK, Enroll, Handling
  <2>5. QED  BY <1>8, <2>2, <2>3, <2>4, EnrollWrites DEF TypeOK, Enroll
<1>9. ASSUME NEW h \in Handler, Answer(h)
      PROVE  TypeOK'
  <2>1. req[h].id \in Identity /\ req[h].id.token \in Token
    BY <1>9, RequestFields DEF Answer, Identity
  <2>2. enrollments[req[h].id.token] # NoEnrollment
    BY <1>9 DEF Answer, RowsAreThere
  <2>3. enrollments[req[h].id.token].status = "enrolled" =>
            /\ enrollments[req[h].id.token].id \in Identity
            /\ enrollments[req[h].id.token].certificate \in Identity
    BY <2>1, <2>2, StoredRow DEF TypeOK, RowsAreThere
  <2>4. answers' \subseteq [asked : Identity, device : Identity, certificate : Identity]
    BY <1>9, <2>1, <2>3 DEF TypeOK, Answer, Answered
  <2>5. QED  BY <1>9, <2>4 DEF TypeOK, Answer, Finish, Handling
<1>10. ASSUME NEW h \in Handler, PkiRejected(h)
       PROVE  TypeOK'
  <2>1. req[h].id \in Identity /\ req[h].id.token \in Token
    BY <1>10, FailureWrites DEF Identity
  <2>2. tokens' \in [Token -> TokenRow]
    BY <1>10, <2>1 DEF TypeOK, PkiRejected, TokenRow
  <2>3. events' \in [Token -> Seq(Event)]
    BY <1>10, <2>1, EmitType DEF PkiRejected, Event
  <2>4. req' \in [Handler -> Handling] /\ calls' \subseteq [handler : Handler, id : Identity]
    BY <1>10 DEF TypeOK, PkiRejected, Finish, Handling
  <2>5. QED  BY <1>10, <2>2, <2>3, <2>4, FailureWrites DEF TypeOK, PkiRejected
<1>11. ASSUME NEW h \in Handler, PkiUnavailable(h)
       PROVE  TypeOK'
  <2>1. req' \in [Handler -> Handling]
    BY <1>11 DEF TypeOK, PkiUnavailable, Finish, Handling
  <2>2. QED  BY <1>11, <2>1, FailureWrites DEF TypeOK, PkiUnavailable
<1>12. ASSUME NEW h \in Handler, Abort(h)
       PROVE  TypeOK'
  BY <1>12 DEF TypeOK, Abort, Finish, Handling
<1>13. CASE UNCHANGED vars
  BY <1>13 DEF TypeOK, vars
<1>14. QED
  BY <1>1, <1>2, <1>3, <1>4, <1>5, <1>6, <1>7, <1>8, <1>9, <1>10, <1>11, <1>12, <1>13
  DEF Next, Redeem, Proceed

\* Steps that leave the rows, and what tokens and handlers need of them, alone.
LEMMA RowsStay ==
    ASSUME TypeOK, RowsAreThere, UNCHANGED enrollments,
           \A t \in Token : tokens[t].created => tokens'[t].created,
           \A t \in Token : tokens'[t].reserved \/ tokens'[t].consumedBy # None
                                => tokens[t].reserved \/ Consumed(t),
           \A h \in Handler : req'[h].op \in {"issue", "answer"}
                                => req'[h] = req[h] \/ enrollments[req'[h].id.token] # NoEnrollment
    PROVE  RowsAreThere'
BY DEF RowsAreThere, Consumed

\* Every step keeps every row that is referred to.
LEMMA NextRows == TypeOK /\ RowsAreThere /\ [Next]_vars => RowsAreThere'
<1> SUFFICES ASSUME TypeOK, RowsAreThere, [Next]_vars PROVE RowsAreThere'
  OBVIOUS
<1>1. ASSUME NEW t \in Token, CreateToken(t) \/ ExpireToken(t)
      PROVE  RowsAreThere'
  <2>1. \A u \in Token :
            /\ tokens[u].created => tokens'[u].created
            /\ tokens'[u].reserved \/ tokens'[u].consumedBy # None
                   => tokens[u].reserved \/ Consumed(u)
    <3>1. CASE CreateToken(t)
      BY <3>1 DEF TypeOK, CreateToken, NewToken, Consumed
    <3>2. CASE ExpireToken(t)
      BY <3>2 DEF TypeOK, ExpireToken, TokenRow, Consumed
    <3>3. QED  BY <1>1, <3>1, <3>2
  <2>2. QED  BY <1>1, <2>1, RowsStay DEF CreateToken, ExpireToken
<1>2. ASSUME NEW h \in Handler, NEW t \in Token, RevokeRead(h, t)
      PROVE  RowsAreThere'
  BY <1>2, RowsStay DEF RevokeRead, TypeOK, Consumed
<1>3. ASSUME NEW h \in Handler, RevokeCommit(h)
      PROVE  RowsAreThere'
  <2>1. \A u \in Token :
            /\ tokens[u].created => tokens'[u].created
            /\ tokens'[u].reserved \/ tokens'[u].consumedBy # None
                   => tokens[u].reserved \/ Consumed(u)
    BY <1>3, RequestFields DEF TypeOK, RevokeCommit, TokenRow, Consumed
  <2>2. QED  BY <1>3, <2>1, RowsStay DEF RevokeCommit, Finish, Idle, TypeOK
<1>4. ASSUME NEW h \in Handler, NEW t \in Token, NEW r \in Request, Reserve(h, t, r)
      PROVE  RowsAreThere'
  <2> DEFINE id == [token |-> t, attempt |-> NextAttempt(t), request |-> r]
  <2>1. /\ enrollments' = [enrollments EXCEPT ![t] = NewEnrollment(id)]
        /\ tokens' = [tokens EXCEPT ![t].reserved = TRUE]
        /\ req' = [req EXCEPT ![h] = [op |-> "issue", id |-> id, failure |-> "none"]]
    BY <1>4 DEF Reserve, Call
  <2>2. NewEnrollment(id) # NoEnrollment /\ NewEnrollment(id).id = id /\ NewEnrollment(id).status = "pending"
    BY DEF NewEnrollment, NoEnrollment
  <2>3. /\ \A u \in Token : u # t => enrollments'[u] = enrollments[u] /\ tokens'[u] = tokens[u]
        /\ tokens'[t].created
    BY <1>4, <2>1 DEF Reserve, TypeOK, TokenRow
  <2>4. enrollments'[t] = NewEnrollment(id)
    BY <2>1 DEF TypeOK
  <2>5. \A u \in Token : enrollments[u] # NoEnrollment => enrollments'[u] # NoEnrollment
    BY <2>2, <2>3, <2>4
  <2>6. \A g \in Handler : req'[g].op \in {"issue", "answer"} => enrollments'[req'[g].id.token] # NoEnrollment
    <3>1. SUFFICES ASSUME NEW g \in Handler, req'[g].op \in {"issue", "answer"}
                   PROVE  enrollments'[req'[g].id.token] # NoEnrollment
      OBVIOUS
    <3>2. CASE g = h
      BY <2>1, <2>2, <2>4, <3>2 DEF TypeOK
    <3>3. CASE g # h
      BY <2>1, <2>5, <3>1, <3>3, RequestFields DEF TypeOK, RowsAreThere, Identity
    <3>4. QED  BY <3>2, <3>3
  <2>7. QED  BY <2>2, <2>3, <2>4, <2>6 DEF RowsAreThere, Consumed
<1>5. ASSUME NEW h \in Handler, NEW t \in Token, NEW r \in Request, Resume(h, t, r)
      PROVE  RowsAreThere'
  <2>1. enrollments[t] # NoEnrollment /\ enrollments[t].id.token = t
    BY <1>5 DEF RowsAreThere, Resume
  <2>2. QED  BY <1>5, <2>1, RowsStay DEF Resume, Call, TypeOK, Consumed
<1>6. ASSUME NEW h \in Handler, NEW t \in Token, NEW r \in Request, Replay(h, t, r)
      PROVE  RowsAreThere'
  BY <1>6, RowsStay DEF Replay, Consumed
<1>7. ASSUME NEW call \in calls, Certify(call)
      PROVE  RowsAreThere'
  BY <1>7, RowsStay DEF Certify, Consumed
<1>8. ASSUME NEW h \in Handler, Enroll(h)
      PROVE  RowsAreThere'
  <2> DEFINE id == req[h].id
  <2>1. /\ id \in Identity /\ id # None /\ id.token \in Token
        /\ enrollments[id.token] # NoEnrollment
    <3>1. id \in Identity /\ req[h].op = "issue"
      BY <1>8, RequestFields DEF Enroll
    <3>2. id # None
      BY <3>1, NoneIsNoIdentity
    <3>3. QED  BY <3>1, <3>2 DEF Identity, RowsAreThere
  <2>2. /\ \A u \in Token : u # id.token => enrollments'[u] = enrollments[u]
        /\ enrollments'[id.token] # NoEnrollment
        /\ enrollments'[id.token].id = enrollments[id.token].id
        /\ enrollments'[id.token].certificate = id
    BY <1>8, EnrollWrites
  <2>3. /\ \A u \in Token : u # id.token => tokens'[u] = tokens[u]
        /\ tokens'[id.token].created = tokens[id.token].created
    BY <1>8, <2>1 DEF Enroll, TypeOK, TokenRow
  <2>4. \A g \in Handler : req'[g].op \in {"issue", "answer"} =>
            req[g].op \in {"issue", "answer"} /\ req'[g].id = req[g].id
    BY <1>8 DEF Enroll, TypeOK
  <2>5. \A g \in Handler : req'[g].op \in {"issue", "answer"} =>
            req'[g].id.token \in Token /\ enrollments'[req'[g].id.token] # NoEnrollment
    BY <2>2, <2>4, RequestFields DEF RowsAreThere, Identity
  <2>6. QED  BY <2>1, <2>2, <2>3, <2>5 DEF RowsAreThere, Consumed
<1>9. ASSUME NEW h \in Handler, Answer(h)
      PROVE  RowsAreThere'
  BY <1>9, RowsStay DEF Answer, Finish, Idle, TypeOK, Consumed
<1>10. ASSUME NEW h \in Handler, PkiRejected(h) \/ PkiUnavailable(h)
       PROVE  RowsAreThere'
  <2> DEFINE id == req[h].id
  <2>1. id \in Identity /\ id.token \in Token /\ enrollments[id.token] # NoEnrollment
    BY <1>10, FailureWrites DEF PkiRejected, PkiUnavailable, Identity, RowsAreThere
  <2>2. /\ \A u \in Token : u # id.token => enrollments'[u] = enrollments[u]
        /\ enrollments'[id.token] # NoEnrollment
        /\ enrollments'[id.token].id = enrollments[id.token].id
        /\ enrollments'[id.token].certificate = enrollments[id.token].certificate
        /\ enrollments'[id.token].status = "enrolled" => enrollments[id.token].status = "enrolled"
    BY <1>10, FailureWrites
  <2>3. /\ \A u \in Token : u # id.token => tokens'[u] = tokens[u]
        /\ tokens'[id.token].created = tokens[id.token].created
    <3>1. CASE PkiRejected(h)
      BY <2>1, <3>1 DEF PkiRejected, TypeOK, TokenRow
    <3>2. CASE PkiUnavailable(h)
      BY <3>2 DEF PkiUnavailable
    <3>3. QED  BY <1>10, <3>1, <3>2
  <2>4. \A g \in Handler : req'[g].op \in {"issue", "answer"} => req'[g] = req[g]
    BY <1>10 DEF PkiRejected, PkiUnavailable, Finish, Idle, TypeOK
  <2>5. \A g \in Handler : req'[g].op \in {"issue", "answer"} =>
            req'[g].id.token \in Token /\ enrollments'[req'[g].id.token] # NoEnrollment
    BY <2>2, <2>4, RequestFields DEF RowsAreThere, Identity
  <2>6. QED  BY <2>1, <2>2, <2>3, <2>5 DEF RowsAreThere, Consumed
<1>11. ASSUME NEW h \in Handler, Abort(h)
       PROVE  RowsAreThere'
  BY <1>11, RowsStay DEF Abort, Finish, Idle, TypeOK, Consumed
<1>12. CASE UNCHANGED vars
  BY <1>12 DEF RowsAreThere, Consumed, vars
<1>13. QED
  BY <1>1, <1>2, <1>3, <1>4, <1>5, <1>6, <1>7, <1>8, <1>9, <1>10, <1>11, <1>12
  DEF Next, Redeem, Proceed

\* An element of an appended sequence is an old one or the new one.
LEMMA AppendMember ==
    ASSUME NEW S, NEW s \in Seq(S), NEW e, NEW i \in DOMAIN Append(s, e)
    PROVE  (i \in DOMAIN s /\ Append(s, e)[i] = s[i]) \/ Append(s, e)[i] = e
OBVIOUS

\* Certificates are never withdrawn by a step, and every outcome recorded is one
\* that PKI has answered with.
LEMMA NextCertified ==
    TypeOK /\ RowsAreThere /\ EnrolledMeansCertified /\ [Next]_vars => EnrolledMeansCertified'
<1> SUFFICES ASSUME TypeOK, RowsAreThere, EnrolledMeansCertified, [Next]_vars
             PROVE  EnrolledMeansCertified'
  OBVIOUS
<1> USE DEF EnrolledMeansCertified, EventsOf, Consumed
<1>1. ASSUME \A t \in Token :
                 /\ \/ tokens'[t].consumedBy = tokens[t].consumedBy
                    \/ tokens'[t].consumedBy = None
                 /\ Consumed(t) => enrollments'[t].certificate = enrollments[t].certificate,
             \A t \in Token :
                 \/ events'[t] = events[t]
                 \/ \E e : events'[t] = Append(events[t], e)
                           /\ (e.type # "device.enrolled" \/ e.id \in certificates),
             certificates \subseteq certificates'
      PROVE  EnrolledMeansCertified'
  <2>1. ASSUME NEW t \in Token, NEW i \in DOMAIN events'[t], events'[t][i].type = "device.enrolled"
        PROVE  events'[t][i].id \in certificates'
    <3>1. CASE events'[t] = events[t]
      BY <1>1, <2>1, <3>1
    <3>2. ASSUME NEW e, events'[t] = Append(events[t], e),
                 e.type # "device.enrolled" \/ e.id \in certificates
          PROVE  events'[t][i].id \in certificates'
      <4>1. events[t] \in Seq(Event)
        BY DEF TypeOK
      <4>2. (i \in DOMAIN events[t] /\ events'[t][i] = events[t][i]) \/ events'[t][i] = e
        BY <2>1, <3>2, <4>1, AppendMember
      <4>3. QED  BY <1>1, <2>1, <3>2, <4>2
    <3>3. QED  BY <1>1, <3>1, <3>2
  <2>2. QED  BY <1>1, <2>1
<1>2. ASSUME NEW t \in Token, CreateToken(t) \/ ExpireToken(t)
      PROVE  EnrolledMeansCertified'
  <2>1. \A u \in Token : /\ \/ tokens'[u].consumedBy = tokens[u].consumedBy
                            \/ tokens'[u].consumedBy = None
                         /\ \/ events'[u] = events[u]
                            \/ events'[u] = Append(events[u], [type |-> "token.created"])
    <3>1. CASE CreateToken(t)
      BY <3>1 DEF TypeOK, CreateToken, NewToken, Emit
    <3>2. CASE ExpireToken(t)
      BY <3>2 DEF TypeOK, ExpireToken, TokenRow
    <3>3. QED  BY <1>2, <3>1, <3>2
  <2>2. UNCHANGED <<enrollments, certificates>>
    BY <1>2 DEF CreateToken, ExpireToken
  <2>3. [type |-> "token.created"].type # "device.enrolled"
    OBVIOUS
  <2>4. QED  BY <1>1, <2>1, <2>2, <2>3
<1>3. ASSUME NEW h \in Handler, RevokeCommit(h)
      PROVE  EnrolledMeansCertified'
  <2>1. \A u \in Token : /\ tokens'[u].consumedBy = tokens[u].consumedBy
                         /\ \/ events'[u] = events[u]
                            \/ events'[u] = Append(events[u], [type |-> "token.revoked"])
    BY <1>3, RequestFields DEF TypeOK, RevokeCommit, TokenRow, Emit
  <2>2. [type |-> "token.revoked"].type # "device.enrolled"
    OBVIOUS
  <2>3. QED  BY <1>1, <1>3, <2>1, <2>2 DEF RevokeCommit
<1>4. ASSUME NEW h \in Handler, NEW t \in Token, NEW r \in Request, Reserve(h, t, r)
      PROVE  EnrolledMeansCertified'
  <2>1. \A u \in Token : /\ tokens'[u].consumedBy = tokens[u].consumedBy
                         /\ Consumed(u) => enrollments'[u] = enrollments[u]
    BY <1>4, ReserveWrites DEF TypeOK, Reserve, TokenRow
  <2>2. QED  BY <1>1, <1>4, <2>1 DEF Reserve
<1>5. ASSUME NEW h \in Handler, NEW t \in Token,
             RevokeRead(h, t) \/ (\E r \in Request : Resume(h, t, r) \/ Replay(h, t, r))
      PROVE  EnrolledMeansCertified'
  BY <1>5 DEF RevokeRead, Resume, Replay
<1>6. ASSUME NEW call \in calls, Certify(call)
      PROVE  EnrolledMeansCertified'
  BY <1>1, <1>6 DEF Certify
<1>7. ASSUME NEW h \in Handler, Enroll(h)
      PROVE  EnrolledMeansCertified'
  <2> DEFINE id == req[h].id
             e == [type |-> "device.enrolled", id |-> id]
  <2>1. id \in certificates /\ id \in Identity /\ id.token \in Token
    BY <1>7, EnrollWrites DEF Identity
  <2>2. /\ \A u \in Token : u # id.token => enrollments'[u] = enrollments[u]
        /\ enrollments'[id.token].certificate = id
    BY <1>7, EnrollWrites
  <2>3. /\ \A u \in Token : u # id.token => tokens'[u] = tokens[u] /\ events'[u] = events[u]
        /\ tokens'[id.token].consumedBy = id
        /\ events'[id.token] = Append(events[id.token], e)
        /\ certificates' = certificates
    BY <1>7, <2>1 DEF Enroll, TypeOK, TokenRow, Emit
  <2>4. ASSUME NEW t \in Token, NEW i \in DOMAIN events'[t], events'[t][i].type = "device.enrolled"
        PROVE  events'[t][i].id \in certificates'
    <3>1. CASE t # id.token
      BY <2>3, <2>4, <3>1
    <3>2. CASE t = id.token
      <4>1. events[t] \in Seq(Event)
        BY DEF TypeOK
      <4>2. events'[t] = Append(events[t], e)
        BY <2>3, <3>2
      <4>3. i \in DOMAIN Append(events[t], e)
        BY <2>4, <4>2
      <4>4. (i \in DOMAIN events[t] /\ events'[t][i] = events[t][i]) \/ events'[t][i] = e
        BY <4>1, <4>2, <4>3, AppendMember
      <4>5. QED  BY <2>1, <2>3, <2>4, <4>4
    <3>3. QED  BY <3>1, <3>2
  <2>5. \A t \in Token : tokens'[t].consumedBy # None
            => {tokens'[t].consumedBy, enrollments'[t].certificate} \subseteq certificates'
    BY <2>1, <2>2, <2>3
  <2>6. QED  BY <2>4, <2>5
<1>8. ASSUME NEW h \in Handler, PkiRejected(h) \/ PkiUnavailable(h)
      PROVE  EnrolledMeansCertified'
  <2> DEFINE id == req[h].id
             e == [type |-> "device.enrollment.failed", id |-> id]
  <2>1. id.token \in Token
    BY <1>8, FailureWrites DEF Identity
  <2>2. /\ \A u \in Token : enrollments'[u].certificate = enrollments[u].certificate
    BY <1>8, FailureWrites
  <2>3. /\ \A u \in Token : tokens'[u].consumedBy = tokens[u].consumedBy
        /\ \A u \in Token : events'[u] = events[u] \/ events'[u] = Append(events[u], e)
    <3>1. CASE PkiRejected(h)
      BY <2>1, <3>1 DEF PkiRejected, TypeOK, TokenRow, Emit
    <3>2. CASE PkiUnavailable(h)
      BY <3>2 DEF PkiUnavailable
    <3>3. QED  BY <1>8, <3>1, <3>2
  <2>4. e.type # "device.enrolled"
    OBVIOUS
  <2>5. certificates' = certificates
    BY <1>8 DEF PkiRejected, PkiUnavailable
  <2>6. QED  BY <1>1, <2>2, <2>3, <2>4, <2>5
<1>9. ASSUME NEW h \in Handler, Answer(h) \/ Abort(h)
      PROVE  EnrolledMeansCertified'
  BY <1>9 DEF Answer, Abort
<1>10. CASE UNCHANGED vars
  BY <1>10 DEF vars
<1>11. QED
  BY <1>2, <1>3, <1>4, <1>5, <1>6, <1>7, <1>8, <1>9, <1>10 DEF Next, Redeem, Proceed

\* Every step keeps the invariant.
LEMMA NextInv == IInv /\ [Next]_vars => IInv'
BY NextType, NextRows, NextCertified DEF IInv

\* What the service calls enrolled has a certificate at PKI, whatever races and
\* whatever is lost (enroll_device).
THEOREM EnrolledIsCertified == Spec => [](TypeOK /\ EnrolledMeansCertified)
<1>1. IInv => TypeOK /\ EnrolledMeansCertified
  BY DEF IInv
<1>2. QED  BY InitInv, NextInv, <1>1, PTL DEF Spec

-----------------------------------------------------------------------------
(* Action properties *)

\* The identity of a row changes in Reserve only.
LEMMA IdentityStays ==
    ASSUME IInv, [Next]_vars, NEW t \in Token,
           ~ \E h \in Handler, r \in Request : Reserve(h, t, r)
    PROVE  /\ enrollments'[t] = NoEnrollment <=> enrollments[t] = NoEnrollment
           /\ enrollments[t] # NoEnrollment => enrollments'[t].id = enrollments[t].id
<1> USE DEF IInv
<1>1. ASSUME NEW h \in Handler, NEW u \in Token, NEW r \in Request, Reserve(h, u, r)
      PROVE  enrollments'[t] = enrollments[t]
  BY <1>1, ReserveWrites, ZenonT(30)
<1>2. ASSUME NEW h \in Handler, Enroll(h)
      PROVE  /\ enrollments'[t] = NoEnrollment <=> enrollments[t] = NoEnrollment
             /\ enrollments'[t].id = enrollments[t].id
  <2>1. enrollments[req[h].id.token] # NoEnrollment
    BY <1>2 DEF Enroll, RowsAreThere
  <2>2. QED  BY <1>2, <2>1, EnrollWrites
<1>3. ASSUME NEW h \in Handler, PkiRejected(h) \/ PkiUnavailable(h)
      PROVE  /\ enrollments'[t] = NoEnrollment <=> enrollments[t] = NoEnrollment
             /\ enrollments'[t].id = enrollments[t].id
  <2>1. enrollments[req[h].id.token] # NoEnrollment
    BY <1>3 DEF PkiRejected, PkiUnavailable, RowsAreThere
  <2>2. QED  BY <1>3, <2>1, FailureWrites
<1>4. CASE UNCHANGED enrollments
  BY <1>4
<1>5. QED
  BY <1>1, <1>2, <1>3, <1>4
  DEF Next, Redeem, Proceed, CreateToken, ExpireToken, RevokeRead, RevokeCommit,
      Resume, Replay, Certify, Answer, Abort, vars

\* A consumed token stays consumed.
LEMMA ConsumedStays ==
    ASSUME IInv, [Next]_vars, NEW t \in Token, Consumed(t)
    PROVE  tokens'[t].consumedBy # None
<1> USE DEF IInv
<1>1. ASSUME NEW u \in Token, CreateToken(u)
      PROVE  tokens'[t] = tokens[t]
  BY <1>1 DEF CreateToken, RowsAreThere, TypeOK
<1>2. ASSUME NEW h \in Handler, Enroll(h)
      PROVE  tokens'[t].consumedBy # None
  <2>1. req[h].id \in Identity /\ req[h].id # None
    BY <1>2, EnrollWrites, NoneIsNoIdentity
  <2>2. QED  BY <1>2, <2>1 DEF Enroll, TypeOK, TokenRow, Consumed
<1>3. ASSUME NEW h \in Handler, RevokeCommit(h) \/ PkiRejected(h)
      PROVE  tokens'[t].consumedBy = tokens[t].consumedBy
  <2>1. CASE RevokeCommit(h)
    BY <2>1, RequestFields DEF RevokeCommit, TypeOK, TokenRow
  <2>2. CASE PkiRejected(h)
    <3>1. tokens' = [tokens EXCEPT ![req[h].id.token].reserved = FALSE]
      BY <2>2 DEF PkiRejected
    <3>2. QED  BY <3>1 DEF TypeOK, TokenRow
  <2>3. QED  BY <1>3, <2>1, <2>2
<1>4. ASSUME NEW h \in Handler, NEW u \in Token, NEW r \in Request, Reserve(h, u, r)
      PROVE  tokens'[t].consumedBy = tokens[t].consumedBy
  BY <1>4 DEF Reserve, TypeOK, TokenRow
<1>5. ASSUME NEW u \in Token, ExpireToken(u)
      PROVE  tokens'[t].consumedBy = tokens[t].consumedBy
  BY <1>5 DEF ExpireToken, TypeOK, TokenRow
<1>6. CASE UNCHANGED tokens
  BY <1>6 DEF Consumed
<1>7. QED
  BY <1>1, <1>2, <1>3, <1>4, <1>5, <1>6
  DEF Next, Redeem, Proceed, RevokeRead, Resume, Replay, Certify, Answer,
      PkiUnavailable, Abort, vars, Consumed

\* An expired, revoked or consumed token begins no new enrollment, and
\* consumption is final (the checks of reserve_or_resume under the row lock).
THEOREM SpentTokensStartNothing == Spec => SpentTokenStartsNothing
<1>1. IInv /\ [Next]_vars =>
        [\A t \in Token :
            /\ tokens[t].expired \/ tokens[t].revoked \/ Consumed(t)
                 => (enrollments'[t] = NoEnrollment <=> enrollments[t] = NoEnrollment)
                    /\ (enrollments[t] # NoEnrollment => enrollments'[t].id = enrollments[t].id)
            /\ Consumed(t) => tokens'[t].consumedBy # None]_vars
  <2>1. SUFFICES ASSUME IInv, [Next]_vars, NEW t \in Token
                 PROVE  /\ tokens[t].expired \/ tokens[t].revoked \/ Consumed(t)
                             => (enrollments'[t] = NoEnrollment <=> enrollments[t] = NoEnrollment)
                                /\ (enrollments[t] # NoEnrollment => enrollments'[t].id = enrollments[t].id)
                        /\ Consumed(t) => tokens'[t].consumedBy # None
    OBVIOUS
  <2>2. (\E h \in Handler, r \in Request : Reserve(h, t, r))
            => ~(tokens[t].expired \/ tokens[t].revoked \/ Consumed(t))
    BY DEF Reserve
  <2>3. QED  BY <2>1, <2>2, IdentityStays, ConsumedStays
<1>2. QED  BY InitInv, NextInv, <1>1, PTL DEF Spec, SpentTokenStartsNothing

\* A reservation is not taken over by another request (reserve_or_resume refuses
\* it as a replay).
THEOREM ReservationsBindOneRequest == Spec => ReservationBindsOneRequest
<1>1. IInv /\ [Next]_vars =>
        [\A t \in Token : tokens[t].reserved => enrollments'[t].id = enrollments[t].id]_vars
  <2>1. SUFFICES ASSUME IInv, [Next]_vars, NEW t \in Token, tokens[t].reserved
                 PROVE  enrollments'[t].id = enrollments[t].id
    OBVIOUS
  <2>2. ~ \E h \in Handler, r \in Request : Reserve(h, t, r)
    BY <2>1 DEF Reserve
  <2>3. enrollments[t] # NoEnrollment
    BY <2>1 DEF IInv, RowsAreThere
  <2>4. QED  BY <2>1, <2>2, <2>3, IdentityStays
<1>2. QED  BY InitInv, NextInv, <1>1, PTL DEF Spec, ReservationBindsOneRequest

-----------------------------------------------------------------------------
(* Redemptions of a token that do not overlap *)

\* No token is in the hands of two redemptions at once.  Redemptions of different
\* tokens, revocations and PKI calls that arrive late race as before.
Alone == \A g, h \in Handler :
    g # h /\ req[g].op = "issue" /\ req[h].op = "issue" => req[g].id.token # req[h].id.token

\* The handler knows the row as it is.
NothingIsStale == \A h \in Handler :
    LET id == req[h].id
    IN  /\ req[h].op = "issue" => enrollments[id.token].id = id /\ ~Consumed(id.token)
        /\ req[h].op = "answer" =>
              /\ Consumed(id.token)
              /\ enrollments[id.token].id = id /\ enrollments[id.token].certificate = id

OwnInv == NothingIsStale /\ CompletedIsRetrievable /\ AnswerIsOwn

\* At first nothing is remembered and nothing was answered.
LEMMA OwnInitially == Init => OwnInv
<1> SUFFICES ASSUME Init  PROVE OwnInv
  OBVIOUS
<1>1. \A t \in Token : ~Consumed(t)
  BY DEF Init, NewToken, Consumed
<1>2. \A h \in Handler : req[h].op = "idle"
  BY DEF Init, Idle
<1> QED
  BY <1>1, <1>2 DEF Init, OwnInv, NothingIsStale, CompletedIsRetrievable, AnswerIsOwn

\* The token of a handler's identity is a token.
LEMMA WorkedOnTokens ==
    ASSUME IInv, NEW g \in Handler, req[g].op \in {"issue", "answer"}
    PROVE  req[g].id \in Identity /\ req[g].id.token \in Token
BY RequestFields DEF IInv, Identity

\* A token is created, expires or is revoked, or a certificate is signed: nothing of an
\* enrollment changes.
LEMMA OtherStepsKeepOwn ==
    ASSUME IInv, OwnInv, UNCHANGED <<enrollments, answers>>,
           \A t \in Token : tokens'[t].consumedBy = tokens[t].consumedBy,
           \A g \in Handler : req'[g].op \in {"issue", "answer"} => req'[g] = req[g]
    PROVE  OwnInv'
<1>1. \A g \in Handler : req'[g].op \in {"issue", "answer"} => req[g].id.token \in Token
  BY WorkedOnTokens
<1>2. NothingIsStale'
  BY <1>1 DEF OwnInv, NothingIsStale, Consumed
<1> QED
  BY <1>2 DEF OwnInv, CompletedIsRetrievable, AnswerIsOwn, Consumed

\* A redemption reserves or resumes a token: no other one holds it, and who has still
\* to answer for it would have consumed it.
LEMMA BeginKeepsOwn ==
    ASSUME IInv, OwnInv, Alone', NEW h \in Handler, NEW t \in Token, NEW id \in Identity,
           ~Consumed(t), id.token = t, enrollments'[t].id = id,
           req'[h].op = "issue", req'[h].id = id,
           \A g \in Handler : g # h => req'[g] = req[g],
           \A u \in Token : u # t => enrollments'[u] = enrollments[u],
           \A u \in Token : tokens'[u].consumedBy = tokens[u].consumedBy,
           UNCHANGED answers
    PROVE  OwnInv'
<1>1. ASSUME NEW g \in Handler, g # h, req[g].op \in {"issue", "answer"}
      PROVE  req[g].id.token \in Token /\ req[g].id.token # t
  <2>1. CASE req[g].op = "issue"
    BY <1>1, <2>1, WorkedOnTokens DEF Alone
  <2>2. CASE req[g].op = "answer"
    BY <1>1, <2>2, WorkedOnTokens DEF OwnInv, NothingIsStale
  <2> QED  BY <1>1, <2>1, <2>2
<1>2. NothingIsStale'
  <2> SUFFICES ASSUME NEW g \in Handler, req'[g].op \in {"issue", "answer"}
               PROVE  /\ req'[g].op = "issue" =>
                            /\ enrollments'[req'[g].id.token].id = req'[g].id
                            /\ tokens'[req'[g].id.token].consumedBy = None
                      /\ req'[g].op = "answer" =>
                            /\ tokens'[req'[g].id.token].consumedBy # None
                            /\ enrollments'[req'[g].id.token].id = req'[g].id
                            /\ enrollments'[req'[g].id.token].certificate = req'[g].id
    BY DEF NothingIsStale, Consumed
  <2>1. CASE g = h
    BY <2>1 DEF Consumed
  <2>2. CASE g # h
    BY <1>1, <2>2 DEF OwnInv, NothingIsStale, Consumed
  <2> QED  BY <2>1, <2>2
<1>3. CompletedIsRetrievable'
  BY DEF OwnInv, CompletedIsRetrievable, Consumed
<1> QED  BY <1>2, <1>3 DEF OwnInv, AnswerIsOwn

\* Reserving and resuming keep it.
LEMMA RedemptionsKeepOwn ==
    ASSUME IInv, OwnInv, Alone', NEW h \in Handler, NEW t \in Token, NEW r \in Request,
           Reserve(h, t, r) \/ Resume(h, t, r)
    PROVE  OwnInv'
<1>1. DOMAIN req = Handler
  BY DEF IInv, TypeOK
<1>2. CASE Reserve(h, t, r)
  <2> DEFINE id == [token |-> t, attempt |-> NextAttempt(t), request |-> r]
  <2>1. /\ id \in Identity /\ id.token = t
        /\ \A u \in Token : u # t => enrollments'[u] = enrollments[u]
        /\ enrollments'[t] = NewEnrollment(id)
        /\ req' = [req EXCEPT ![h] = [op |-> "issue", id |-> id, failure |-> "none"]]
    BY <1>2, ReserveWrites DEF IInv
  <2>2. /\ ~Consumed(t) /\ UNCHANGED answers
        /\ \A u \in Token : tokens'[u].consumedBy = tokens[u].consumedBy
    BY <1>2 DEF Reserve, IInv, TypeOK, TokenRow
  <2>3. enrollments'[t].id = id
    BY <2>1 DEF NewEnrollment
  <2> HIDE DEF id
  <2> QED  BY <1>1, <2>1, <2>2, <2>3, BeginKeepsOwn
<1>3. CASE Resume(h, t, r)
  <2> DEFINE id == enrollments[t].id
  <2>1. /\ UNCHANGED <<tokens, enrollments, answers>> /\ ~Consumed(t)
        /\ req' = [req EXCEPT ![h] = [op |-> "issue", id |-> id, failure |-> enrollments[t].failure]]
    BY <1>3 DEF Resume, Call
  <2>2. enrollments[t] # NoEnrollment /\ id.token = t
    BY <1>3 DEF IInv, RowsAreThere, Resume
  <2>3. id \in Identity
    BY <2>2, StoredRow DEF IInv, TypeOK, Enrollments
  <2> HIDE DEF id
  <2>4. enrollments'[t].id = id
    BY <2>1 DEF id
  <2> QED  BY <1>1, <2>1, <2>2, <2>3, <2>4, BeginKeepsOwn
<1> QED  BY <1>2, <1>3

\* A stored result and one that was just recorded are answered alike.
LEMMA AnswersKeepOwn ==
    ASSUME IInv, OwnInv, NEW h \in Handler,
           (\E t \in Token, r \in Request : Replay(h, t, r)) \/ Answer(h)
    PROVE  OwnInv'
<1>1. UNCHANGED <<tokens, enrollments>>
  BY DEF Replay, Answer
<1>2. \A g \in Handler : req'[g].op \in {"issue", "answer"} => req'[g] = req[g]
  BY DEF Replay, Answer, Finish, Idle, IInv, TypeOK
<1>3. AnswerIsOwn'
  <2>1. CASE \E t \in Token, r \in Request : Replay(h, t, r)
    BY <2>1 DEF Replay, Answered, OwnInv, AnswerIsOwn, CompletedIsRetrievable
  <2>2. CASE Answer(h)
    BY <2>2 DEF Answer, Answered, OwnInv, AnswerIsOwn, NothingIsStale
  <2> QED  BY <2>1, <2>2
<1>4. CompletedIsRetrievable'
  BY <1>1 DEF OwnInv, CompletedIsRetrievable, Consumed
<1>5. NothingIsStale'
  BY <1>1, <1>2 DEF OwnInv, NothingIsStale, Consumed
<1> QED  BY <1>3, <1>4, <1>5 DEF OwnInv

\* What Enroll changes, the row and the token it is about.
LEMMA EnrollEffect ==
    ASSUME IInv, OwnInv, NEW h \in Handler, Enroll(h)
    PROVE  LET id == req[h].id
               t == id.token
           IN  /\ id \in Identity /\ id \in certificates /\ t \in Token
               /\ \A u \in Token : u # t => enrollments'[u] = enrollments[u] /\ tokens'[u] = tokens[u]
               /\ enrollments[t].id = id /\ ~Consumed(t)
               /\ enrollments'[t] # NoEnrollment /\ enrollments'[t].id = id
               /\ enrollments'[t].status = "enrolled" /\ enrollments'[t].certificate = id
               /\ tokens'[t].consumedBy = id
               /\ req' = [req EXCEPT ![h] = [op |-> "answer", id |-> id]]
               /\ UNCHANGED <<calls, certificates, answers>>
<1> DEFINE id == req[h].id
           t == id.token
<1>1. /\ id \in Identity /\ id \in certificates /\ t \in Token
      /\ \A u \in Token : u # t => enrollments'[u] = enrollments[u]
      /\ enrollments'[t] # NoEnrollment /\ enrollments'[t].id = enrollments[t].id
      /\ enrollments'[t].status = "enrolled" /\ enrollments'[t].certificate = id
  BY EnrollWrites DEF IInv, Identity
<1>2. UNCHANGED <<calls, certificates, answers>>
  BY DEF Enroll
<1>3. req' = [req EXCEPT ![h] = [op |-> "answer", id |-> id]]
  BY DEF Enroll
<1>4. /\ tokens'[t].consumedBy = id
      /\ \A u \in Token : u # t => tokens'[u] = tokens[u]
  <2>1. tokens' = [tokens EXCEPT ![t].consumedBy = id]
    BY DEF Enroll
  <2> QED  BY <1>1, <2>1 DEF IInv, TypeOK, TokenRow
<1>5. enrollments[t].id = id /\ ~Consumed(t)
  BY DEF Enroll, OwnInv, NothingIsStale
<1> QED  BY <1>1, <1>2, <1>3, <1>4, <1>5

\* Whoever else is at work has another token.
LEMMA OthersHaveOthers ==
    ASSUME IInv, OwnInv, Alone, NEW h \in Handler, NEW g \in Handler, g # h,
           req[h].op = "issue", req[g].op \in {"issue", "answer"}
    PROVE  req[g].id.token \in Token /\ req[g].id.token # req[h].id.token
<1>1. CASE req[g].op = "issue"
  BY <1>1, WorkedOnTokens DEF Alone
<1>2. CASE req[g].op = "answer"
  BY <1>2, WorkedOnTokens DEF OwnInv, NothingIsStale
<1> QED  BY <1>1, <1>2

\* Recording the enrollment keeps it.
LEMMA EnrollKeepsOwn ==
    ASSUME IInv, OwnInv, Alone, NEW h \in Handler, Enroll(h)
    PROVE  OwnInv'
<1> DEFINE id == req[h].id
           t == id.token
<1>1. /\ id \in Identity /\ t \in Token
      /\ \A u \in Token : u # t => enrollments'[u] = enrollments[u] /\ tokens'[u] = tokens[u]
      /\ enrollments'[t].id = id
      /\ enrollments'[t].status = "enrolled" /\ enrollments'[t].certificate = id
      /\ tokens'[t].consumedBy = id
      /\ req' = [req EXCEPT ![h] = [op |-> "answer", id |-> id]]
      /\ UNCHANGED answers
  BY EnrollEffect
<1>2. DOMAIN req = Handler /\ req[h].op = "issue" /\ id # None
  BY <1>1, NoneIsNoIdentity DEF IInv, TypeOK, Enroll
<1>3. ASSUME NEW g \in Handler, g # h, req[g].op \in {"issue", "answer"}
      PROVE  req[g].id.token \in Token /\ req[g].id.token # t
  BY <1>2, <1>3, OthersHaveOthers
<1> HIDE DEF id, t
<1>4. NothingIsStale'
  <2> SUFFICES ASSUME NEW g \in Handler, req'[g].op \in {"issue", "answer"}
               PROVE  /\ req'[g].op = "issue" =>
                            /\ enrollments'[req'[g].id.token].id = req'[g].id
                            /\ tokens'[req'[g].id.token].consumedBy = None
                      /\ req'[g].op = "answer" =>
                            /\ tokens'[req'[g].id.token].consumedBy # None
                            /\ enrollments'[req'[g].id.token].id = req'[g].id
                            /\ enrollments'[req'[g].id.token].certificate = req'[g].id
    BY DEF NothingIsStale, Consumed
  <2>1. CASE g = h
    BY <1>1, <1>2, <2>1 DEF Consumed, t
  <2>2. CASE g # h
    <3>1. req'[g] = req[g]
      BY <1>1, <2>2
    <3> QED  BY <1>1, <1>3, <2>2, <3>1 DEF OwnInv, NothingIsStale, Consumed
  <2> QED  BY <2>1, <2>2
<1>5. CompletedIsRetrievable'
  BY <1>1 DEF OwnInv, CompletedIsRetrievable, Consumed
<1> QED  BY <1>1, <1>4, <1>5 DEF OwnInv, AnswerIsOwn

\* What the two failures change.
LEMMA FailureEffect ==
    ASSUME IInv, OwnInv, NEW h \in Handler, PkiRejected(h) \/ PkiUnavailable(h)
    PROVE  LET id == req[h].id
               t == id.token
           IN  /\ id \in Identity /\ t \in Token
               /\ \A u \in Token : u # t => enrollments'[u] = enrollments[u]
               /\ enrollments[t].id = id /\ ~Consumed(t) /\ enrollments[t] # NoEnrollment
               /\ enrollments'[t].id = id /\ enrollments'[t] # NoEnrollment
               /\ \A u \in Token : tokens'[u].consumedBy = tokens[u].consumedBy
               /\ req' = [req EXCEPT ![h] = Idle] /\ req[h].op = "issue"
               /\ UNCHANGED <<certificates, answers>> /\ calls' \subseteq calls
<1> DEFINE id == req[h].id
           t == id.token
<1>1. /\ id \in Identity /\ t \in Token
      /\ \A u \in Token : u # t => enrollments'[u] = enrollments[u]
      /\ enrollments'[t] # NoEnrollment /\ enrollments'[t].id = enrollments[t].id
  BY FailureWrites DEF IInv, Identity
<1>2. /\ UNCHANGED <<certificates, answers>> /\ calls' \subseteq calls
      /\ req' = [req EXCEPT ![h] = Idle] /\ req[h].op = "issue"
  BY DEF PkiRejected, PkiUnavailable, Finish
<1>3. \A u \in Token : tokens'[u].consumedBy = tokens[u].consumedBy
  <2>1. CASE PkiRejected(h)
    BY <1>1, <2>1 DEF PkiRejected, IInv, TypeOK, TokenRow
  <2>2. CASE PkiUnavailable(h)
    BY <2>2 DEF PkiUnavailable
  <2> QED  BY <2>1, <2>2
<1>4. enrollments[t].id = id /\ ~Consumed(t) /\ enrollments[t] # NoEnrollment
  BY DEF PkiRejected, PkiUnavailable, OwnInv, NothingIsStale, IInv, RowsAreThere
<1> QED  BY <1>1, <1>2, <1>3, <1>4

\* A refused or unanswered attempt keeps it: its token was not consumed.
LEMMA FailuresKeepOwn ==
    ASSUME IInv, OwnInv, Alone, NEW h \in Handler, PkiRejected(h) \/ PkiUnavailable(h)
    PROVE  OwnInv'
<1> DEFINE t == req[h].id.token
<1>1. /\ t \in Token /\ ~Consumed(t) /\ req[h].op = "issue"
      /\ \A u \in Token : u # t => enrollments'[u] = enrollments[u]
      /\ \A u \in Token : tokens'[u].consumedBy = tokens[u].consumedBy
      /\ req' = [req EXCEPT ![h] = Idle] /\ UNCHANGED answers
  BY FailureEffect
<1>2. DOMAIN req = Handler
  BY DEF IInv, TypeOK
<1>3. ASSUME NEW g \in Handler, g # h, req[g].op \in {"issue", "answer"}
      PROVE  req[g].id.token \in Token /\ req[g].id.token # t
  BY <1>1, <1>3, OthersHaveOthers
<1>4. \A g \in Handler : req'[g].op \in {"issue", "answer"} => g # h /\ req'[g] = req[g]
  BY <1>1, <1>2 DEF Idle
<1> HIDE DEF t
<1>5. NothingIsStale'
  BY <1>1, <1>3, <1>4 DEF OwnInv, NothingIsStale, Consumed
<1>6. CompletedIsRetrievable'
  BY <1>1 DEF OwnInv, CompletedIsRetrievable, Consumed
<1> QED  BY <1>1, <1>5, <1>6 DEF OwnInv, AnswerIsOwn

\* The steps in which no redemption moves write no enrollment.
LEMMA TokenSteps ==
    ASSUME IInv,
           \/ \E t \in Token : CreateToken(t) \/ ExpireToken(t)
           \/ \E h \in Handler : (\E t \in Token : RevokeRead(h, t)) \/ RevokeCommit(h) \/ Abort(h)
           \/ \E call \in calls : Certify(call)
    PROVE  /\ UNCHANGED <<enrollments, calls, answers>>
           /\ \A u \in Token : tokens'[u].consumedBy = tokens[u].consumedBy
           /\ \A g \in Handler : req'[g].op \in {"issue", "answer"} => req'[g] = req[g]
<1>1. ASSUME NEW t \in Token, CreateToken(t) \/ ExpireToken(t)
      PROVE  \A u \in Token : tokens'[u].consumedBy = tokens[u].consumedBy
  <2>1. CASE CreateToken(t)
    <3>1. tokens[t].consumedBy = None
      BY <2>1 DEF CreateToken, IInv, RowsAreThere, Consumed
    <3> QED  BY <2>1, <3>1 DEF CreateToken, NewToken, IInv, TypeOK
  <2>2. CASE ExpireToken(t)
    BY <2>2 DEF ExpireToken, IInv, TypeOK, TokenRow
  <2> QED  BY <1>1, <2>1, <2>2
<1>2. ASSUME NEW h \in Handler, RevokeCommit(h)
      PROVE  \A u \in Token : tokens'[u].consumedBy = tokens[u].consumedBy
  BY <1>2 DEF RevokeCommit, IInv, TypeOK, TokenRow
<1>3. ASSUME NEW h \in Handler, (\E t \in Token : RevokeRead(h, t)) \/ RevokeCommit(h) \/ Abort(h)
      PROVE  \A g \in Handler : req'[g].op \in {"issue", "answer"} => req'[g] = req[g]
  BY <1>3 DEF RevokeRead, RevokeCommit, Abort, Finish, Idle, IInv, TypeOK
<1>4. UNCHANGED <<enrollments, calls, answers>>
  BY DEF CreateToken, ExpireToken, RevokeRead, RevokeCommit, Abort, Certify
<1> QED
  BY <1>1, <1>2, <1>3, <1>4 DEF CreateToken, ExpireToken, RevokeRead, Abort, Certify

\* Every step keeps it, where redemptions of a token do not overlap.
LEMMA OwnPreserved == ASSUME IInv, OwnInv, Alone, Alone', [Next]_vars  PROVE OwnInv'
<1>1. CASE \/ \E t \in Token : CreateToken(t) \/ ExpireToken(t)
           \/ \E h \in Handler : (\E t \in Token : RevokeRead(h, t)) \/ RevokeCommit(h) \/ Abort(h)
           \/ \E call \in calls : Certify(call)
  BY <1>1, TokenSteps, OtherStepsKeepOwn
<1>2. CASE UNCHANGED vars
  BY <1>2, OtherStepsKeepOwn DEF vars
<1> QED
  BY <1>1, <1>2, RedemptionsKeepOwn, AnswersKeepOwn, EnrollKeepsOwn, FailuresKeepOwn
  DEF Next, Redeem, Proceed

\* What concurrent redemptions of one token break holds without them: a consumed token
\* keeps its enrolled row, with the certificate of its own device, through crashes, lost
\* answers, outages and grants that lapse (reserve_or_resume).
THEOREM CompletedStaysRetrievable == Spec /\ []Alone => []CompletedIsRetrievable
<1>1. OwnInv => CompletedIsRetrievable
  BY DEF OwnInv
<1>2. IInv /\ OwnInv /\ Alone /\ Alone' /\ [Next]_vars => OwnInv'
  BY OwnPreserved
<1> QED  BY InitInv, NextInv, OwnInitially, <1>1, <1>2, PTL DEF Spec

\* Nobody is answered with the certificate or the device of another request, or of an
\* identity that was replaced meanwhile (_result).
THEOREM AnswersAreOwn == Spec /\ []Alone => []AnswerIsOwn
<1>1. OwnInv => AnswerIsOwn
  BY DEF OwnInv
<1>2. IInv /\ OwnInv /\ Alone /\ Alone' /\ [Next]_vars => OwnInv'
  BY OwnPreserved
<1> QED  BY InitInv, NextInv, OwnInitially, <1>1, <1>2, PTL DEF Spec

-----------------------------------------------------------------------------
(* ... and grants that last until PKI has answered *)

\* Only the identity on record may have a certificate, or get one: an identity that
\* was replaced was that of a request PKI refuses whenever it sees it.
IdentityIsOnRecord ==
    /\ \A c \in calls : c.id.request \notin Unfit =>
          enrollments[c.id.token] # NoEnrollment /\ enrollments[c.id.token].id = c.id
    /\ \A c \in certificates :
          /\ c.request \notin Unfit
          /\ enrollments[c.token] # NoEnrollment /\ enrollments[c.token].id = c
    /\ \A t \in Token : enrollments[t].status = "failed" => enrollments[t].id.request \in Unfit

\* A new identity is drawn only after one whose request is unfit.
LEMMA ReserveKeepsRecord ==
    ASSUME IInv, IdentityIsOnRecord,
           NEW h \in Handler, NEW t \in Token, NEW r \in Request, Reserve(h, t, r)
    PROVE  IdentityIsOnRecord'
<1> DEFINE id == [token |-> t, attempt |-> NextAttempt(t), request |-> r]
<1>1. /\ id \in Identity /\ id.token = t
      /\ \A u \in Token : u # t => enrollments'[u] = enrollments[u]
      /\ enrollments'[t] = NewEnrollment(id) /\ enrollments'[t] # NoEnrollment
      /\ calls' = calls \cup {[handler |-> h, id |-> id]}
  BY ReserveWrites DEF IInv
<1>2. Startable(enrollments[t]) /\ UNCHANGED certificates
  BY DEF Reserve
<1>3. enrollments'[t].id = id /\ enrollments'[t].status = "pending"
  BY <1>1 DEF NewEnrollment
<1> HIDE DEF id
<1>4. enrollments[t] # NoEnrollment => enrollments[t].id.request \in Unfit
  BY <1>2 DEF Startable, IdentityIsOnRecord
<1>5. \A c \in calls : c.id.request \notin Unfit => c.id.token # t
  BY <1>4 DEF IdentityIsOnRecord
<1>6. \A c \in certificates : c.token # t
  BY <1>4 DEF IdentityIsOnRecord
<1>7. (\A c \in calls : c.id.token \in Token) /\ (\A c \in certificates : c.token \in Token)
  BY DEF IInv, TypeOK, Identity
<1>8. \A c \in calls' : c.id.request \notin Unfit =>
          enrollments'[c.id.token] # NoEnrollment /\ enrollments'[c.id.token].id = c.id
  BY <1>1, <1>3, <1>5, <1>7 DEF IdentityIsOnRecord
<1>9. \A c \in certificates' :
          /\ c.request \notin Unfit
          /\ enrollments'[c.token] # NoEnrollment /\ enrollments'[c.token].id = c
  BY <1>1, <1>2, <1>6, <1>7 DEF IdentityIsOnRecord
<1>10. \A u \in Token : enrollments'[u].status = "failed" => enrollments'[u].id.request \in Unfit
  BY <1>1, <1>3 DEF IdentityIsOnRecord
<1> QED  BY <1>8, <1>9, <1>10 DEF IdentityIsOnRecord

\* Resuming repeats the call of the identity on record.
LEMMA ResumeKeepsRecord ==
    ASSUME IInv, IdentityIsOnRecord,
           NEW h \in Handler, NEW t \in Token, NEW r \in Request, Resume(h, t, r)
    PROVE  IdentityIsOnRecord'
<1>1. /\ UNCHANGED <<enrollments, certificates>>
      /\ calls' = calls \cup {[handler |-> h, id |-> enrollments[t].id]}
  BY DEF Resume, Call
<1>2. enrollments[t] # NoEnrollment /\ enrollments[t].id.token = t
  BY DEF IInv, RowsAreThere, Resume
<1> QED  BY <1>1, <1>2 DEF IdentityIsOnRecord

\* Recording the enrollment keeps the identity.
LEMMA EnrollKeepsRecord ==
    ASSUME IInv, OwnInv, IdentityIsOnRecord, NEW h \in Handler, Enroll(h)
    PROVE  IdentityIsOnRecord'
<1> DEFINE t == req[h].id.token
<1>1. /\ t \in Token /\ UNCHANGED <<calls, certificates>>
      /\ \A u \in Token : u # t => enrollments'[u] = enrollments[u]
      /\ enrollments'[t] # NoEnrollment /\ enrollments'[t].id = enrollments[t].id
      /\ enrollments'[t].status = "enrolled"
  BY EnrollEffect
<1>2. (\A c \in calls : c.id.token \in Token) /\ (\A c \in certificates : c.token \in Token)
  BY DEF IInv, TypeOK, Identity
<1> HIDE DEF t
<1> QED  BY <1>1, <1>2 DEF IdentityIsOnRecord

\* A refused attempt is one of an unfit request.
LEMMA FailuresKeepRecord ==
    ASSUME ~GrantsLapse, IInv, OwnInv, IdentityIsOnRecord,
           NEW h \in Handler, PkiRejected(h) \/ PkiUnavailable(h)
    PROVE  IdentityIsOnRecord'
<1> DEFINE id == req[h].id
           t == id.token
<1>1. /\ t \in Token /\ UNCHANGED certificates /\ calls' \subseteq calls
      /\ \A u \in Token : u # t => enrollments'[u] = enrollments[u]
      /\ enrollments[t].id = id /\ enrollments[t] # NoEnrollment
      /\ enrollments'[t].id = id /\ enrollments'[t] # NoEnrollment
  BY FailureEffect
<1>2. enrollments'[t].status = "failed" => id.request \in Unfit
  <2>1. CASE PkiRejected(h)
    BY <2>1 DEF PkiRejected
  <2>2. CASE PkiUnavailable(h)
    <3>1. enrollments[t] \in Enrollments
      BY <1>1, StoredRow DEF IInv, TypeOK
    <3>2. enrollments'[t].status = enrollments[t].status
      BY <1>1, <2>2, <3>1 DEF PkiUnavailable, IInv, TypeOK, Enrollments
    <3>3. enrollments[t].status = "failed" => enrollments[t].id.request \in Unfit
      BY <1>1 DEF IdentityIsOnRecord
    <3> QED  BY <1>1, <3>2, <3>3
  <2> QED  BY <2>1, <2>2
<1>3. (\A c \in calls : c.id.token \in Token) /\ (\A c \in certificates : c.token \in Token)
  BY DEF IInv, TypeOK, Identity
<1> HIDE DEF id, t
<1> QED  BY <1>1, <1>2, <1>3 DEF IdentityIsOnRecord

\* Every step keeps the certified identity on record, where grants do not lapse.
LEMMA RecordPreserved ==
    ASSUME ~GrantsLapse, IInv, OwnInv, IdentityIsOnRecord, [Next]_vars
    PROVE  IdentityIsOnRecord'
<1>1. ASSUME NEW call \in calls, Certify(call)  PROVE IdentityIsOnRecord'
  BY <1>1 DEF Certify, IdentityIsOnRecord
<1>2. CASE UNCHANGED <<enrollments, calls, certificates>>
  BY <1>2 DEF IdentityIsOnRecord
<1> QED
  BY <1>1, <1>2, ReserveKeepsRecord, ResumeKeepsRecord, EnrollKeepsRecord, FailuresKeepRecord
  DEF Next, Redeem, Proceed, CreateToken, ExpireToken, RevokeRead, RevokeCommit, Replay,
      Answer, Abort, vars

\* Once PKI has certified the identity on record, it is never replaced (the two runs
\* that violate it overlap redemptions, or let a grant lapse).
THEOREM CertifiedIdentityStays ==
    ASSUME ~GrantsLapse  PROVE Spec /\ []Alone => NoNewIdentityOnceCertified
<1>1. IInv /\ IdentityIsOnRecord /\ [Next]_vars =>
        [\A c \in certificates : c.attempt = enrollments[c.token].id.attempt
            => enrollments'[c.token].id = enrollments[c.token].id]_vars
  <2>1. SUFFICES ASSUME IInv, IdentityIsOnRecord, [Next]_vars, NEW c \in certificates
                 PROVE  enrollments'[c.token].id = enrollments[c.token].id
    OBVIOUS
  <2>2. /\ c.token \in Token /\ enrollments[c.token] # NoEnrollment
        /\ enrollments[c.token].status # "failed"
    <3>1. c \in Identity
      BY <2>1 DEF IInv, TypeOK
    <3>2. c.token \in Token
      BY <3>1 DEF Identity
    <3> QED  BY <2>1, <3>2 DEF IdentityIsOnRecord
  <2>3. ~ \E h \in Handler, r \in Request : Reserve(h, c.token, r)
    BY <2>2 DEF Reserve, Startable
  <2> QED  BY <2>1, <2>2, <2>3, IdentityStays
<1>2. IInv /\ OwnInv /\ Alone /\ Alone' /\ [Next]_vars => OwnInv'
  BY OwnPreserved
<1>3. IInv /\ OwnInv /\ IdentityIsOnRecord /\ [Next]_vars => IdentityIsOnRecord'
  BY RecordPreserved
<1>4. Init => IdentityIsOnRecord
  BY DEF Init, IdentityIsOnRecord, NoEnrollment
<1> QED
  BY InitInv, NextInv, OwnInitially, <1>1, <1>2, <1>3, <1>4, PTL DEF Spec, NoNewIdentityOnceCertified
=============================================================================
