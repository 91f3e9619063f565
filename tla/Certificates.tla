----------------------------- MODULE Certificates -----------------------------
(***************************************************************************)
(* pki-service's register of device certificates: issue, rotate, revoke,   *)
(* and the rows a revocation list is built from.                           *)
(*                                                                         *)
(* Handlers take no lock.  They decide on what they read and commit later; *)
(* the unique issuance_id keeps a second row out, and the handler that     *)
(* meets it looks again.  The session writes the columns it changes, on a  *)
(* row as it is by then.  A row is named by its issuance_id; the identity  *)
(* of a certificate (tenant, asset, device, platform) is its device.       *)
(***************************************************************************)
EXTENDS Naturals, FiniteSets

CONSTANTS
    Issuance,       \* issuance_ids
    Key,            \* key pairs of devices, one CSR for each
    Device,
    Request,        \* what enrollment-service has signed a grant for
    Thread,         \* requests pki-service handles at a time (bound)
    Horizon         \* bound: how long after a revocation time is told apart

None == "none"

ASSUME RequestAssumption ==
    Request \subseteq [op : {"issue", "rotate"}, issuance : Issuance, key : Key,
                       device : Device, old : Issuance \cup {None}]
ASSUME NoneAssumption == None \notin Issuance
ASSUME HorizonAssumption == Horizon \in Nat

VARIABLES
    certificates,   \* the table, by issuance_id
    thread,         \* what each handler remembers
    revokedFor      \* time since a certificate was revoked, up to Horizon (history)

pkiVars == <<certificates, thread, revokedFor>>

NoRow == [status |-> "absent"]
NewRow(r) ==
    [status |-> "active", key |-> r.key, device |-> r.device,
     replaces |-> r.old, reason |-> None]
Exists(i) == certificates[i] # NoRow
Active(i) == certificates[i].status = "active"
Revoked == {i \in Issuance : certificates[i].status = "revoked"}

Idle == [at |-> "idle"]

PkiInit ==
    /\ certificates = [i \in Issuance |-> NoRow]
    /\ thread = [t \in Thread |-> Idle]
    /\ revokedFor = [i \in Issuance |-> 0]

-----------------------------------------------------------------------------
(* Helpers *)

\* The certificate of the request's issuance_id was made for this very request
\* (_same_issuance, _same_rotation).
MadeFor(r) ==
    LET c == certificates[r.issuance]
    IN  /\ Exists(r.issuance)
        /\ c.key = r.key /\ c.device = r.device
        /\ r.op = "rotate" => c.replaces = r.old

Become(t, next) == thread' = [thread EXCEPT ![t] = next]

\* A certificate is there: the same request gets it, another is refused.
Existing(t, r) ==
    Become(t, [at |-> IF MadeFor(r) THEN "answered" ELSE "refused", request |-> r])

\* Nothing is told apart any more once a revocation is Horizon old.
Older(age, limit) == IF age < limit THEN age + 1 ELSE age
PkiTick ==
    /\ revokedFor' = [i \in Issuance |->
           IF i \in Revoked THEN Older(revokedFor[i], Horizon) ELSE 0]
    /\ UNCHANGED <<certificates, thread>>

-----------------------------------------------------------------------------
(* POST /certificates/issue *)

Issue(t, r) ==
    /\ thread[t] = Idle
    /\ r.op = "issue"
    /\ IF Exists(r.issuance)
       THEN Existing(t, r)
       ELSE Become(t, [at |-> "inserting", request |-> r])
    /\ UNCHANGED <<certificates, revokedFor>>

-----------------------------------------------------------------------------
(* POST /certificates/rotate *)

\* The certificate to be replaced is read first.
Rotate(t, r) ==
    /\ thread[t] = Idle
    /\ r.op = "rotate"
    /\ Exists(r.old) /\ certificates[r.old].device = r.device
    /\ Become(t, [at |-> "rotating", request |-> r, old |-> certificates[r.old]])
    /\ UNCHANGED <<certificates, revokedFor>>

\* Mutant: a revoked certificate is refused before the issuance_id is looked up.
Lookup_StatusFirst(t) ==
    LET r == thread[t].request
    IN  /\ thread[t].at = "rotating"
        /\ IF thread[t].old.status = "revoked" \/ thread[t].old.key = r.key
           THEN Become(t, [at |-> "refused", request |-> r])
           ELSE IF Exists(r.issuance)
           THEN Existing(t, r)
           ELSE Become(t, [at |-> "inserting", request |-> r])
        /\ UNCHANGED <<certificates, revokedFor>>

\* The issuance_id second; only then is the status read before looked at.
Lookup(t) ==
    LET r == thread[t].request
    IN  /\ thread[t].at = "rotating"
        /\ IF Exists(r.issuance)
           THEN Existing(t, r)
           ELSE IF thread[t].old.status = "revoked" \/ thread[t].old.key = r.key
           THEN Become(t, [at |-> "refused", request |-> r])
           ELSE Become(t, [at |-> "inserting", request |-> r])
        /\ UNCHANGED <<certificates, revokedFor>>

-----------------------------------------------------------------------------
(* The commits *)

\* Another handler was faster: its row is what the request gets, or meets.
Collide(t) ==
    /\ thread[t].at = "inserting" /\ Exists(thread[t].request.issuance)
    /\ Existing(t, thread[t].request)
    /\ UNCHANGED <<certificates, revokedFor>>

IssueCommit(t) ==
    LET r == thread[t].request
    IN  /\ thread[t].at = "inserting" /\ r.op = "issue"
        /\ ~Exists(r.issuance)
        /\ certificates' = [certificates EXCEPT ![r.issuance] = NewRow(r)]
        /\ Become(t, [at |-> "answered", request |-> r])
        /\ UNCHANGED revokedFor

\* The old certificate is revoked with it, whatever has become of it meanwhile.
RotateCommit(t) ==
    LET r == thread[t].request
    IN  /\ thread[t].at = "inserting" /\ r.op = "rotate"
        /\ ~Exists(r.issuance)
        /\ certificates' = [certificates EXCEPT ![r.issuance] = NewRow(r),
                                                ![r.old].status = "revoked",
                                                ![r.old].reason = "superseded"]
        /\ Become(t, [at |-> "answered", request |-> r])
        /\ UNCHANGED revokedFor

\* POST /certificates/{id}/revoke.
Revoke(t, i) ==
    /\ thread[t] = Idle
    /\ Active(i)
    /\ Become(t, [at |-> "revoking", issuance |-> i])
    /\ UNCHANGED <<certificates, revokedFor>>

RevokeCommit(t) ==
    /\ thread[t].at = "revoking"
    /\ certificates' = [certificates EXCEPT ![thread[t].issuance].status = "revoked",
                                            ![thread[t].issuance].reason = "key_compromise"]
    /\ Become(t, Idle)
    /\ UNCHANGED revokedFor

\* The caller has its answer; or the handler, its process or its database fails.
End(t) ==
    /\ thread[t] # Idle
    /\ Become(t, Idle)
    /\ UNCHANGED <<certificates, revokedFor>>

PkiStep(t, requests) ==
    \/ \E r \in requests : Issue(t, r) \/ Rotate(t, r)
    \/ \E i \in Issuance : Revoke(t, i)
    \/ Lookup(t) \/ Collide(t) \/ IssueCommit(t) \/ RotateCommit(t)
    \/ RevokeCommit(t) \/ End(t)

-----------------------------------------------------------------------------
(* Properties *)

\* A request is refused only as long as no certificate was made for it: one that
\* is repeated, after its answer was lost or at the same time, gets what the
\* first got, also when that has revoked the certificate it names (issuance_id
\* is idempotent, _same_rotation).
RetryIsAnswered ==
    [][\A t \in Thread : thread[t].at # "refused" /\ thread'[t].at = "refused"
          => ~MadeFor(thread'[t].request)]_pkiVars

\* "existing active certificate for the same tenant/asset/device" is what a
\* rotation requires (PKI design, Rotation): no certificate is replaced that is
\* revoked when its replacement is committed.
OnlyActiveIsReplaced ==
    [][\A i \in Issuance : ~Exists(i) /\ Exists(i)' /\ certificates'[i].replaces # None
          => Active(certificates'[i].replaces)]_pkiVars
=============================================================================
