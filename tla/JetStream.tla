------------------------------ MODULE JetStream ------------------------------
(***************************************************************************)
(* GUARDIAN_EVENTS, the JetStream stream between the services and audit:   *)
(* external, modelled from how the services use it.  A publish carries the *)
(* event id as Nats-Msg-Id, so that a repeat within the duplicate window   *)
(* is acknowledged and not stored again.  An event is <<n, kind>>: row n   *)
(* of an outbox, or the notice of the gateway that it accepted or          *)
(* completed request n.                                                    *)
(***************************************************************************)
EXTENDS Integers, Sequences, FiniteSets

CONSTANTS
    Domain,     \* rows of the outbox, numbered in the order of created_at
    Request,    \* those written by a mutation that came through the gateway
    Rejected,   \* rows whose publication always fails (too large, bad subject)
    MaxCopies   \* bound: how often the duplicate window forgets an event

ASSUME DomainAssumption == Domain \subseteq Nat /\ IsFiniteSet(Domain)
ASSUME RequestAssumption == Request \subseteq Domain /\ Rejected \subseteq Domain
ASSUME CopiesAssumption == MaxCopies \in Nat \ {0}

Row(n) == <<n, "domain">>
Accepted(n) == <<n, "accepted">>
Completed(n) == <<n, "completed">>

Event == Domain \X {"domain", "accepted", "completed"}

VARIABLES
    stream,     \* the messages stored, each an event, in order
    remembered  \* the events still in the duplicate window

streamVars == <<stream, remembered>>

Stored == {stream[m] : m \in DOMAIN stream}

StreamInit == stream = <<>> /\ remembered = {}

Store(e) ==
    IF e \in remembered
    THEN UNCHANGED streamVars
    ELSE /\ stream' = Append(stream, e)
         /\ remembered' = remembered \cup {e}

\* A publish that returns was stored, one that raises may have been.
Publish(e, returned) == Store(e) \/ (~returned /\ UNCHANGED streamVars)

Forget ==
    \E e \in remembered :
        /\ Cardinality({m \in DOMAIN stream : stream[m] = e}) < MaxCopies
        /\ remembered' = remembered \ {e}
        /\ UNCHANGED stream
=============================================================================
