---------------------------- MODULE GatewayAudit ----------------------------
(***************************************************************************)
(* The gateway from the moment a request is let in (modules TokenVerifier  *)
(* and RateLimit) to its answer: the notice of acceptance, the call to the *)
(* service behind, with what that service does of it and when, and the     *)
(* notice of its end.                                                      *)
(***************************************************************************)
EXTENDS JetStream

CONSTANTS
    Audited,    \* requests on routes with audit_intent_required
    Safe        \* GET and HEAD requests, the only ones repeated

ASSUME GatewayAssumption == Audited \subseteq Request /\ Safe \subseteq Request

VARIABLES
    call,       \* per request, how far its handler is in the gateway
    tries,      \* per request, connections that failed
    upstream    \* per request, what has become of it at the service behind

gatewayVars == <<call, tries, upstream>>

GatewayInit ==
    /\ call = [r \in Request |-> "new"]
    /\ tries = [r \in Request |-> 0]
    /\ upstream = [r \in Request |-> "none"]

MaxAttempts(r) == IF r \in Safe THEN 2 ELSE 1

\* Routing, limits, authentication and the rate limit let it pass, or not.
Admit(r) ==
    /\ call[r] = "new"
    /\ \E next \in {IF r \in Audited THEN "intent" ELSE "calling", "refused"} :
         call' = [call EXCEPT ![r] = next]
    /\ UNCHANGED <<tries, upstream, streamVars>>

Intent_FailOpen(r, returned) ==
    /\ call[r] = "intent"
    /\ Publish(Accepted(r), returned)
    /\ call' = [call EXCEPT ![r] = "calling"]
    /\ UNCHANGED <<tries, upstream>>

\* Without its notice of acceptance a request ends here, with 503.
Intent(r, returned) ==
    /\ call[r] = "intent"
    /\ Publish(Accepted(r), returned)
    /\ call' = [call EXCEPT ![r] = IF returned THEN "calling" ELSE "refused"]
    /\ UNCHANGED <<tries, upstream>>

\* The outcome the notice of the end carries is read off the status of the answer,
\* 200 to 399 or not; it says nothing sure of what the service behind has done, and
\* nothing here depends on it.
Ended(r) ==
    call' = [call EXCEPT ![r] = IF r \in Audited THEN "completing" ELSE "answered"]

ConnectError(r) ==
    /\ call[r] = "calling"
    /\ tries' = [tries EXCEPT ![r] = @ + 1]
    /\ IF tries[r] + 1 < MaxAttempts(r)
       THEN UNCHANGED call
       ELSE Ended(r)
    /\ UNCHANGED <<upstream, streamVars>>

\* The request is on the wire: the service behind may handle it from now on,
\* whether or not the gateway still waits.
Forward(r) ==
    /\ call[r] = "calling"
    /\ call' = [call EXCEPT ![r] = "waiting"]
    /\ upstream' = [upstream EXCEPT ![r] = "arrived"]
    /\ UNCHANGED <<tries, streamVars>>

\* The service behind commits the request's change, or declines it.
Decide(r, verdict) ==
    /\ upstream[r] = "arrived"
    /\ upstream' = [upstream EXCEPT ![r] = verdict]
    /\ UNCHANGED <<call, tries, streamVars>>

Execute(r) == Decide(r, "executed")
Decline(r) == Decide(r, "declined")

\* The service behind answers, with whatever status.
Response(r) ==
    /\ call[r] = "waiting"
    /\ upstream[r] \in {"executed", "declined"}
    /\ Ended(r)
    /\ UNCHANGED <<tries, upstream, streamVars>>

\* A timeout or a broken connection after the request was sent: no repeat.
RequestError(r) ==
    /\ call[r] = "waiting"
    /\ Ended(r)
    /\ UNCHANGED <<tries, upstream, streamVars>>

\* The answer goes out whether or not the notice of completion was stored.
Complete(r, returned) ==
    /\ call[r] = "completing"
    /\ Publish(Completed(r), returned)
    /\ call' = [call EXCEPT ![r] = "answered"]
    /\ UNCHANGED <<tries, upstream>>

\* The gateway ends, or the client hangs up and its handler is cancelled.
Cancel(r) ==
    /\ call[r] \in {"intent", "calling", "waiting", "completing"}
    /\ call' = [call EXCEPT ![r] = "cancelled"]
    /\ UNCHANGED <<tries, upstream, streamVars>>

Handle(r) ==
    \/ Admit(r)
    \/ \E returned \in BOOLEAN : Intent(r, returned) \/ Complete(r, returned)
    \/ ConnectError(r) \/ Forward(r) \/ Response(r) \/ RequestError(r)

-----------------------------------------------------------------------------
\* Nothing reaches a service behind through an audited route unless the notice
\* of its acceptance is in the stream (execute_with_audit, fail closed).
NoEffectWithoutIntent ==
    \A r \in Audited : upstream[r] # "none" => Accepted(r) \in Stored
=============================================================================
