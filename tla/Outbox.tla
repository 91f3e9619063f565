------------------------------- MODULE Outbox -------------------------------
(***************************************************************************)
(* The outbox of one service and the workers that publish it.  Four        *)
(* services publish row by row, each row in a transaction of its own that  *)
(* locks it and skips the rows others hold; three read a batch without a   *)
(* lock, publish all of it and record it in one commit.                    *)
(***************************************************************************)
EXTENDS JetStream

CONSTANTS
    Worker,     \* processes that run the service's outbox_worker.py
    BatchSize   \* batch_size, and the limit of the batch readers: 100

ASSUME BatchAssumption == BatchSize \in Nat \ {0}

VARIABLES
    service,    \* whose outbox this is; never changes
    row,        \* per row: absent, pending or published (published_at)
    worker      \* per worker, what it holds in memory

outboxVars == <<service, row, worker>>

\* off: not connected; free: between two rows, or passes; publishing: has rows.
Off == [phase |-> "off", todo |-> {}, sent |-> {}, tried |-> {}]

OutboxInit ==
    /\ row = [n \in Domain |-> "absent"]
    /\ worker = [w \in Worker |-> Off]

\* A handler's transaction writes the event together with its change.  Rows
\* become visible in any order: created_at is taken before the commit.
WriteRow(n) ==
    /\ row[n] = "absent"
    /\ row' = [row EXCEPT ![n] = "pending"]
    /\ UNCHANGED <<service, worker>>

Oldest(k, S) == {n \in S : Cardinality({i \in S : i < n}) < k}

Pending == {n \in Domain : row[n] = "pending"}

\* nats.connect, and the stream is created if it does not exist.
Connect(w) ==
    /\ worker[w].phase = "off"
    /\ worker' = [worker EXCEPT ![w].phase = "free"]
    /\ UNCHANGED <<service, row, streamVars>>

-----------------------------------------------------------------------------
\* One row at a time.

Locked == UNION {worker[w].todo \cup worker[w].sent : w \in Worker}

Pickable_Oldest(w) == Pending \ Locked
Pickable(w) == Pending \ (worker[w].tried \cup Locked)

Pick(w) ==
    /\ worker[w].phase = "free"
    /\ Cardinality(worker[w].tried) < BatchSize
    /\ \E n \in Oldest(1, Pickable(w)) :
         worker' = [worker EXCEPT ![w].phase = "publishing",
                                  ![w].todo = {n},
                                  ![w].tried = @ \cup {n}]
    /\ UNCHANGED <<service, row, streamVars>>

EndPass(w) ==
    /\ worker[w].phase = "free"
    /\ worker[w].tried # {}
    /\ Pickable(w) = {} \/ Cardinality(worker[w].tried) = BatchSize
    /\ worker' = [worker EXCEPT ![w].tried = {}]
    /\ UNCHANGED <<service, row, streamVars>>

-----------------------------------------------------------------------------
\* A batch.

Read(w) ==
    /\ worker[w].phase = "free"
    /\ Pending # {}
    /\ worker' = [worker EXCEPT ![w].phase = "publishing",
                                ![w].todo = Oldest(BatchSize, Pending)]
    /\ UNCHANGED <<service, row, streamVars>>

-----------------------------------------------------------------------------
\* Both.

Send(w, fault) ==
    /\ \E n \in Oldest(1, worker[w].todo) :
         /\ IF n \in Rejected
            THEN ~fault /\ UNCHANGED streamVars
            ELSE Publish(Row(n), ~fault)
         /\ worker' = [worker EXCEPT
              ![w].todo = @ \ {n},
              ![w].sent = IF fault \/ n \in Rejected THEN @ ELSE @ \cup {n}]
    /\ UNCHANGED <<service, row>>

\* The commit.  A failed publish leaves attempts and last_error, not modelled.
Save(w, next) ==
    /\ worker[w].phase = "publishing"
    /\ worker[w].todo = {}
    /\ row' = [n \in Domain |-> IF n \in worker[w].sent THEN "published" ELSE row[n]]
    /\ worker' = [worker EXCEPT ![w].phase = next, ![w].sent = {}]
    /\ UNCHANGED <<service, streamVars>>

\* The process ends, or its database or its connection fails: the uncommitted
\* marks are lost, what was published stays published.
Crash(w) ==
    /\ worker[w].phase # "off"
    /\ worker' = [worker EXCEPT ![w] = Off]
    /\ UNCHANGED <<service, row, streamVars>>

RowByRow(w, fault) ==
    \/ ~fault /\ (Connect(w) \/ Pick(w) \/ Save(w, "free") \/ EndPass(w))
    \/ Send(w, fault)
    \/ fault /\ Crash(w)

Batch(w, fault, next) ==
    \/ ~fault /\ (Connect(w) \/ Read(w) \/ Save(w, next))
    \/ Send(w, fault)
    \/ fault /\ Crash(w)

EnrollmentWorker(w, fault) == service = "enrollment" /\ RowByRow(w, fault)
PkiWorker(w, fault) == service = "pki" /\ RowByRow(w, fault)
TenantWorker(w, fault) == service = "tenant" /\ RowByRow(w, fault)
AssetWorker(w, fault) == service = "asset" /\ RowByRow(w, fault)
CommandWorker(w, fault) == service = "command" /\ Batch(w, fault, "free")
TelemetryWorker(w, fault) == service = "telemetry" /\ Batch(w, fault, "free")

\* agent-control connects anew for every pass.
AgentControlWorker(w, fault) == service = "agent-control" /\ Batch(w, fault, "off")

OutboxStep(w, fault) ==
    \/ EnrollmentWorker(w, fault)
    \/ PkiWorker(w, fault)
    \/ TenantWorker(w, fault)
    \/ AssetWorker(w, fault)
    \/ CommandWorker(w, fault)
    \/ TelemetryWorker(w, fault)
    \/ AgentControlWorker(w, fault)
=============================================================================
