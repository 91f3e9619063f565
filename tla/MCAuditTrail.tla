---------------------------- MODULE MCAuditTrail ----------------------------
EXTENDS AuditTrail

\* Row 1 cannot be published, row 3 cannot be read, request 2 is a POST on an
\* audited route, request 6 a GET.
Tenants == [e \in Event |-> IF e[2] = "domain" THEN "t" ELSE Platform]

Unreadable == {Row(3)}

One(s, rows) ==
    [service |-> s, rows |-> rows, workers |-> {"w1"}, consumers |-> {"c1"},
     api |-> FALSE, window |-> FALSE, faults |-> 2]

Services ==
    {"enrollment", "pki", "tenant", "asset", "command", "telemetry", "agent-control"}

\* Every service alone, one with a row nobody can read; two workers on one
\* outbox; requests through the gateway; two consumers; the API in use; a
\* duplicate window that lapses.
Settings ==
    {One(s, {1, 4}) : s \in Services}
    \cup {One("asset", {1, 3, 4})}
    \cup {[One(s, {1, 4}) EXCEPT !.workers = Worker] : s \in {"tenant", "command"}}
    \cup {One("tenant", {2}), One("command", {6})}
    \cup {[One("pki", {4, 5}) EXCEPT !.consumers = Consumer, !.faults = 1]}
    \cup {[One("pki", {4, 5}) EXCEPT !.api = TRUE, !.faults = 1]}
    \cup {[One("telemetry", {4}) EXCEPT !.consumers = Consumer, !.api = TRUE,
                                        !.window = TRUE, !.faults = 1]}
=============================================================================
