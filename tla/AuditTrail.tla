----------------------------- MODULE AuditTrail -----------------------------
(***************************************************************************)
(* From a change to its record: a service commits a change with an outbox  *)
(* row, on its own or for a request the gateway let through, the worker    *)
(* and the gateway publish to the stream, audit-service records.           *)
(***************************************************************************)
EXTENDS Outbox, GatewayAudit, AuditChain

CONSTANTS
    Setting     \* the instances considered: whose outbox, which processes run,
                \* which rows and requests may come, whether the API is used,
                \* whether the duplicate window lapses, and the bound on
                \* failures of workers and consumers

ASSUME SettingAssumption == \A s \in Setting : s.faults \in Nat /\ s.rows \subseteq Domain

VARIABLES
    setting,    \* the one in question; never changes
    faults      \* failures so far

vars == <<streamVars, outboxVars, gatewayVars, auditVars, setting, faults>>

Init ==
    /\ setting \in Setting
    /\ StreamInit /\ OutboxInit /\ GatewayInit /\ AuditInit
    /\ service = setting.service /\ faults = 0

\* A change made without the gateway: a device, another service, a timer.
InternalChange ==
    /\ \E n \in setting.rows \ Request : WriteRow(n)
    /\ UNCHANGED <<streamVars, gatewayVars, auditVars, setting, faults>>

\* The change a request asks for, and its outbox row, in one transaction.
RequestedChange ==
    /\ \E r \in setting.rows \cap Request :
         Execute(r) /\ IF r \in Safe THEN UNCHANGED outboxVars ELSE WriteRow(r)
    /\ UNCHANGED <<auditVars, setting, faults>>

GatewayStep ==
    /\ \E r \in setting.rows \cap Request : Handle(r) \/ Decline(r) \/ Cancel(r)
    /\ UNCHANGED <<outboxVars, auditVars, setting, faults>>

Faulty(fault) ==
    /\ faults' = faults + (IF fault THEN 1 ELSE 0)
    /\ faults' <= setting.faults

WorkerStep(w, fault) ==
    /\ w \in setting.workers /\ OutboxStep(w, fault) /\ Faulty(fault)
    /\ UNCHANGED <<gatewayVars, auditVars, setting>>

ConsumerStep(c, fault) ==
    /\ c \in setting.consumers
    /\ (IF fault THEN Fail(c) ELSE Consume(c)) /\ Faulty(fault)
    /\ UNCHANGED <<outboxVars, gatewayVars, setting>>

ApiStep == setting.api /\ Api /\ UNCHANGED <<outboxVars, gatewayVars, setting, faults>>

WindowLapses ==
    /\ setting.window /\ Forget
    /\ UNCHANGED <<outboxVars, gatewayVars, auditVars, setting, faults>>

Next ==
    \/ InternalChange
    \/ RequestedChange
    \/ GatewayStep
    \/ \E w \in Worker, fault \in BOOLEAN : WorkerStep(w, fault)
    \/ \E c \in Consumer, fault \in BOOLEAN : ConsumerStep(c, fault)
    \/ ApiStep
    \/ WindowLapses

Spec == Init /\ [][Next]_vars

Recordable == {n \in Domain \ (Rejected \cup Safe) : Row(n) \notin Malformed}

\* Workers and consumers are started again after every failure, PostgreSQL
\* grants an advisory lock in the order of the requests for it, and JetStream
\* brings every message that is not acknowledged again and again.
Fairness ==
    /\ \A w \in Worker : WF_vars(WorkerStep(w, FALSE))
    /\ \A c \in Consumer : SF_vars(ConsumerStep(c, FALSE))
    /\ WF_vars(ApiStep /\ VerifyHead)
    /\ \A n \in Recordable :
         SF_vars(\E c \in Consumer : ConsumerStep(c, FALSE) /\ Take(c) /\ EventOf(c)' = Row(n))

FairSpec == Spec /\ Fairness

-----------------------------------------------------------------------------
TypeOK ==
    /\ stream \in Seq(Event) /\ remembered \subseteq Event
    /\ setting \in Setting /\ service = setting.service /\ faults \in 0..setting.faults
    /\ row \in [Domain -> {"absent", "pending", "published"}]
    /\ worker \in [Worker -> [phase : {"off", "free", "publishing"}, todo : SUBSET Domain,
                              sent : SUBSET Domain, tried : SUBSET Domain]]
    /\ call \in [Request -> {"new", "refused", "intent", "calling", "waiting",
                             "completing", "answered", "cancelled"}]
    /\ upstream \in [Request -> {"none", "arrived", "executed", "declined"}]
    /\ tries \in [Request -> Nat]
    /\ unacked \subseteq DOMAIN stream /\ acked \subseteq DOMAIN stream
    /\ \A c \in Consumer :
        /\ consumer[c].step \in {"idle", "taken", "new", "appending", "committed"}
        /\ consumer[c].step # "idle" => consumer[c].message \in DOMAIN stream
    /\ verdicts \subseteq BOOLEAN

\* Nothing is lost on the way: a row marked published is in the stream, and what
\* is in the stream is on record or still to be acknowledged, whichever worker,
\* broker connection or consumer fails (published_at, ingest_message).
NothingLost ==
    /\ \A n \in Domain : row[n] = "published" => Row(n) \in Stored
    /\ \A m \in acked : stream[m] \in Malformed \/ Recorded(stream[m])

\* The audit trail is a log in the sense of module AuditLog.
LogOf(k) ==
    [i \in 1..Cardinality(records[k]) |->
        (CHOOSE r \in records[k] : r.sequence = i).source_event_id]

Log == INSTANCE AuditLog WITH
    happened <- {Row(n) : n \in {i \in Domain : row[i] # "absent"}}
                \cup (Stored \ {Row(n) : n \in Domain}),
    log <- [k \in Chain |-> LogOf(k)]

\* Whatever is lost, repeated or reordered between a service and the chain,
\* what is recorded happened, is recorded once, and stays in its place
\* (outbox workers, consumer.py, chain.py together).
KeepsTheLog == Log!Spec

\* A change that was committed is on record in the end, unless it cannot be
\* published or read: fewer rows that cannot be published than a batch holds
\* and fewer messages that cannot be read than JetStream leaves unacknowledged
\* do not hold the others up.
CommittedIsRecorded == \A n \in Recordable : row[n] = "pending" ~> Recorded(Row(n))
=============================================================================
