# Formal models of IT Guardian

IT Guardian manages company computers: operators work in a web console, agents on
Windows endpoints report to it and carry out a few typed commands. This directory holds
TLA+ modules for the parts of the system where order, failure or concurrency decide
whether it is correct, TLC configurations that check them on small instances, and
theorems about them that TLAPS checks for every instance.

Run everything from this directory:

    tlc -config CommandOutcome.cfg MCCommandService.tla
    tlapm CommandServiceProofs.tla

## The system

Operators' browsers talk to the **web-console-service** (a backend for the console, with
sessions in Valkey), which talks to the **gateway-service** (authentication, rate limit,
audit of every change), which forwards to the domain services. Agents talk to the
**device-edge-service** over mTLS, which checks the certificate against a revocation list
and forwards to agent-control, command and telemetry. Services own their PostgreSQL
database each and call one another over HTTP. What happens in a service is written to its
`outbox_events` table in the same transaction; a worker publishes the rows to NATS
JetStream, and the **audit-service** appends them to a hash chain.

| Component | State | Operations | What is hard | Modules |
| --- | --- | --- | --- | --- |
| command-service | commands, results, outbox rows | create, acquire, running, result, cancel | requests that interleave around row locks, clock readings that are stale once the lock is there, repeated and conflicting requests | CommandTable, CommandService, CommandLifecycle |
| windows-agent: operations loop | spool directory; the cycle in memory | drain, heartbeat, telemetry, poll, execute, report | calls without an answer, crashes at every step, a bounded spool, an item the services refuse | EndpointCommands, CommandExecution, Endpoint |
| windows-agent: updater | executables, health marker | stage, apply, commit, roll back | crashes between file operations; a deadline that races the marker; a second `update` | AgentUpdate, Endpoint |
| telemetry-service | batches, samples | ingest | repeats; the acceptance window | EndpointCommands (partly) |
| enrollment-service | tokens, enrollments, outbox | create token, revoke, enroll | a saga over PKI: lost answers, concurrent retries, stale rows | Enrollment |
| pki-service | certificates, outbox | issue, rotate, revoke, revocation list | idempotent issue; rotation and revocation without locks | Certificates |
| device-edge-service | revocation list | start, refresh, admit | a list that is old, late, or has run out | DeviceEdge |
| agent-control-service | device sessions, outbox | heartbeat, sweep | sweeps and heartbeats that overlap | DevicePresence, DeviceTrust |
| outbox workers | `published_at` of the rows | read, publish, mark | crash between publish and mark; several instances | JetStream, Outbox |
| audit-service | chain records and heads | ingest, verify, list | redelivery; concurrent appends; reads meanwhile | AuditChain, AuditLog, AuditTrail |
| gateway-service | token buckets; calls under way | limit, proxy with notice of intent and outcome | fail-closed publishing; late effects | RateLimit, GatewayAudit |
| identity-service | users, bootstrap flag, signing key | bootstrap, login, refresh, user status | racing bootstraps; tokens nobody can withdraw | IdentityService |
| token checks in nine services | cached keys | verify, refetch | caches that are old, or shared by threads | TokenVerifier |
| web-console-service | sessions in Valkey | login, logout, proxied operations with one refresh | commands to Valkey of concurrent handlers | Console, Access |
| tenant-service | tenants, members, sites, departments | create, change | rows read one by one without locks; a tree | Tenancy |
| asset-service | assets, external links | create, link | decisions on two answers of another service | Assets |

`PROJECT.json` lists the components with their sources and the hazards at their lines.

## The modules

### CommandTable, CommandService, CommandLifecycle

`CommandTable` has no state: it says what command-service's functions decide about one
row of `commands` (may it be acquired, run, completed, cancelled, and what it becomes).
`CommandService` is the service: tables `commands` and `results`, the outbox rows of each
command (`events`), and for each concurrent request (`Handler`) what it has read and
which row it has locked (`req`). A request is cut into steps exactly where another can
come between: after it reads the clock (`DeviceRequest`), between the lookup of an
idempotency key and the insert (`CreateLookup`, `CreateInsert`, `CreateCollides`), and
while `cancel` holds its row through two HTTP calls (`CancelLock`, `CancelCommit`).
`Abort` is every refusal, failed upstream call, lost connection or restart: the
transaction rolls back. What a device may send is not trusted: any token issued so far or
a wrong one, any sequence number, any payload, any order.

`CommandLifecycle` is what the service promises to its callers: a job is submitted,
offered to its device at most once, ends at most once, and its device's report is on
record exactly when that report ended it. `KeepsItsPromise` is the refinement.

A token is modelled by the number of the dispatch that drew it (the code draws 32 random
bytes); the type and the arguments of a command do not influence the service and are left
out; a result's payload is its sequence number, its status and one more value for all
that the digest distinguishes.

### EndpointCommands, CommandExecution, AgentUpdate, Endpoint

`EndpointCommands`: one agent, its spool, and the services behind Device Edge. The agent
is a single goroutine; `pc` names the next thing `Runner.Cycle` or `Runner.Run` does, and
every call has three ends: an answer, a refusal, or no answer. Without an answer the
request was lost or is still in `wire` and takes effect later. That also stands for a
request that took effect and whose answer was lost. `Crash` is possible at every step and
leaves only the spool. The spool is a set of files with the order `List` gives them,
`Enqueued` is `Queue.Enqueue` with its eviction, and `Upfront` the item `drain` sends
next. The disk may fail whenever the spool is read or written: `ListFails` and `Ack` end
the cycle, `DiskFails` is every other error of `Enqueue`, after the eviction or before it.
A result whose file cannot be written is lost: `Runner.commands` returns at once
(`Broken`), and neither the result nor the rest of the poll is held anywhere. The services use the same `CommandTable` operators as `CommandService`, one request
at a time. All files are the same size (so the byte bound is the item bound); a due time
is a free choice after the first cycle; the backoff has no length; the clocks agree.

`CommandExecution` is what service and agent promise together to whoever asks for a job,
without requests, spool, retries or restarts. It extends `CommandLifecycle` by what the
device has of each job: nothing, the job to do, the job begun, or its verdict. The answer
of the one offer reaches the device or is lost, a job is begun only while it is still
offered, it may be given up at any time and is then never given again, and what settles it
is the verdict of that execution. `ExecutesAsPromised` is the refinement: of the row its
phase, of the stored result the verdict, and of the agent `todo`, `pc` and `job`.

`AgentUpdate` is `itguardian-agent update` (`cli`) and the helper it starts (`helper`).
Every rename, stop and start is a step and may fail, power may be lost between any two,
and a second `update` may run beside the helper. A file is the version it contains.
Two facts about Windows are assumed: the image of a running process can be renamed but
neither deleted nor replaced; and removing the health marker works (rollback.go:55 ignores that
error). Only one `update`
process runs at a time. Nothing in the code enforces that: two helpers, both inside
`Activate`, could overwrite `previous`.

`Endpoint` composes the two: the helper stops and starts the process whose steps
`EndpointCommands` describes, and that process writes the health marker when its first
cycle is complete. The process may die at any time, before or after the marker
(`AgentDies`, and `Crash` in the other setting). Its variable `setting` chooses what is looked at, the agent's work or
its replacement; the product of both is large and adds nothing, since the updater sees of
the agent only whether its first cycle ended and whether the process still lives. The
helper asks for less than that: it looks at the marker alone. An update may therefore end
as committed with its service stopped, when the process died after the marker; the history
variable `died` tells this from a service that the helper left stopped.

### Enrollment

`enroll_device` is a saga of two transactions with a call to pki-service between them.
`Reserve`, `Resume` and `Replay` are the first transaction with its three ends
(`reserve_or_resume`); `Certify` is pki-service executing a call in `calls`, as late and
as often as it likes; `Enroll`, `PkiRejected` and `PkiUnavailable` are the second
transaction, `Answer` the answer read back after it. `RevokeRead` and `RevokeCommit` are
the two ends of a revocation. `Abort` is a death, a rollback or a caller who is gone.

What makes it hard is that the second transaction selects its rows `FOR UPDATE`, but the
SQLAlchemy session returns the objects it already holds and does not repopulate them: it
locks new rows and decides on old ones. `req` is what a handler remembers, and a handler
writes only the columns it changes.

`device_id`, `issuance_id` and the request's fingerprint are drawn together and are one
`Identity`. `Unfit` are requests that pki-service refuses whenever it sees them (a CSR
or host name its stricter checks reject), `GrantsLapse` says whether a grant may expire
between two tries of one call. Identities are numbered per token, `MaxAttempts` bounds
them. The order in which rows are locked is not modelled: PostgreSQL breaks a deadlock
and the request fails, which `Abort` covers.

### JetStream, Outbox, GatewayAudit, AuditChain, AuditTrail

`JetStream` is the stream, external: a publish that returns was stored, one that raises
may have been, a repeat within the duplicate window is not stored again, and what is not
acknowledged is delivered again. `Outbox` has both ways the seven services publish: four
lock a row, publish and mark it in a transaction of its own, three read a batch
without a lock and mark all of it in one commit. `GatewayAudit` follows a request through
`execute_with_audit`: notice of acceptance, the call to the service behind (which may take
effect after the gateway gave up), notice of the outcome. Which outcome the notice names
is left out: it is read off the status of the answer, 200 to 399 or not
(audit_publisher.py:193), and so it does not say for sure whether the service has changed
anything: a redirect and an idempotent repeat are successes that commit nothing, a
`failure` may be of a request that is carried out later. `AuditChain` is
audit-service's consumers with their two advisory locks, the verification of a chain,
and a client that pages through it. A hash is the record it was computed from, so equal
hashes mean equal contents.

`AuditTrail` composes them, from the commit of a change to its record.
`AuditLog` is what the whole promises: what happened is written once, at the end of its
tenant's log, and stays there. `KeepsTheLog` is the refinement.

### IdentityService, RateLimit, TokenVerifier, Console, Access

Each of these extends the one before it. `IdentityService` signs stateless tokens, so
`users`, the key and the lives of tokens are all that decides about them; `RateLimit` is
`TokenBucketLimiter`; `TokenVerifier` the key cache of a service (with a lock in
six services, without one in three) and its judgement of a token, with a call that goes
through the gateway and is judged again behind it; `Console` the session store command by
command, a pipeline being one step, and the handlers that read a session, call, refresh
once and write the new pair back. `Access` adds clients that keep their own tokens and an
administrator who creates, disables and enables users. The history variable `strays`
counts the sessions that were set again after they were removed, or set and then not
indexed. There is one clock.

A login is two steps, the read of the user's row and the signature, since argon2 lies
between them (api.py:80-93 of identity-service) and a disable that commits meanwhile is
not seen. Whoever logs in waits no longer than `SignInTimeout` for the answer: the gateway
and the console give up after ten seconds (routes.py:160, config.py:15), and what comes
later is not given to anybody. A refresh is one step: no hash lies between the row and the
new pair. A handler of the console ends at any command (`Dies`: the process, or
Valkey cannot be reached), with what it had stored left as it is; so a login may leave a session that no
index lists, which is never counted or evicted and lasts its time. The score that a
session gets is the time the handler read before `_evict` or before its `SET`. In
`Touch` the time and the pipeline after it are one step.

### Certificates, DeviceEdge, DevicePresence, DeviceTrust

`Certificates` is pki-service's register. Handlers lock nothing: they decide on what they
read and commit later, the unique `issuance_id` keeps a second row out, and whoever meets
it looks again. `DeviceEdge` holds one revocation list; pki-service reads the revoked rows
first and dates the list afterwards, which is why `RefusedInTime` allows the fetch's
timeout on top of the list's lifetime. `DevicePresence` is the heartbeat and the offline
sweep of agent-control-service; the last event of a device is the one committed last,
while its worker publishes in the order of `created_at` (outbox_worker.py:47), which is
read before the commit. `DeviceTrust` composes the three. Times are measured from
a revocation, from a heartbeat or to the end of a list, and are told apart up to
`Horizon`, so no clock grows without bound and liveness can be checked.

### Tenancy, Assets

`Tenancy` is tenant-service: a handler reads row by row, its session returns the object it
already holds, and the commit writes only the columns that differ from what was read.
`Assets` is asset-service on top of it: before a change it asks tenant-service twice, and
each answer rests on several reads. `held` is a history variable: what was in force at
some time since a request came.

## The runs

| Run | Question | Instance |
| --- | --- | --- |
| command_outcome | does a command end once, in time, with the right result and events? does the service implement the lifecycle? | 1 command, 2 requests, 2 devices, 2 sequence numbers, 2 payloads, lifetimes 1 and 3, lease 2, clock to 4 |
| command_queue | does the queue of a device that keeps polling drain? | 2 commands, 2 requests, 2 keys, lifetimes 1 and 2, clock to 1, poll limits below 0 and above the maximum, fair |
| endpoint_faults | what can loss, delay and crashes do to executions and reports? does the spool empty again? does an update ever cost the last version that works, or the running service? do service and agent implement the execution of a job? | 2 commands, of which one an inventory.refresh, 2 batches, spool of 2, 1 delayed request, crashes, failing disks; 3 releases; fair |
| endpoint_poison | finding: one refused item stops the agent for ever | 1 command |
| enrollment_race | what holds whatever races? | 1 token, 2 handlers, 2 requests of which 1 unfit, lapsing grants, 3 identities |
| enrollment_one_at_a_time | are the design's promises kept when redemptions do not overlap, and is a caller that repeats its request enrolled? | the same with 1 handler, no lapsing grants, fair |
| enrollment_lost_result | finding: a late refusal marks a completed enrollment as failed | 2 handlers |
| audit_trail | is every committed change recorded, once, and does the chain tell? is the gateway fail-closed? | 15 settings, below |
| access | who gets in, how often and how long? | 17 settings, below |
| device_trust | is a revoked certificate refused in time, a retry answered, a device's state announced? | 3 settings, below |
| rotation_race | finding: a revoked certificate gets an active successor | the same |
| assets | does what a request changes rest on what was in force? does the tree stay one? | 4 settings, below |

`MaxTime`, `MaxBatches`, `MaxAttempts`, `MaxWire`, `MaxCopies`, `MaxKey`, `MaxDrawn`,
`Horizon` and the sets of processes are bounds of the models, not of the code. They only
disable the actions that would exceed them.

### Settings

Four of the runs check a family of instances at once. A variable `setting`, chosen in
`Init` and never changed, says which processes, rows and requests there are; the MC module
lists the choices. Every setting is a question of its own, and the properties hold in all
of them; what is left out of one is in another.

* **audit_trail**: each of the seven services alone with two rows of which the first can
  never be published; one with a row nobody can read; two workers on one outbox, for each way
  of locking; an audited POST and a GET through the gateway; two consumers; the API
  in use; two consumers, the API and a duplicate window that lapses. Batches of 2, at most
  3 unacknowledged messages, pages of 1, 1 or 2 failures of workers and consumers. A batch
  of 2 shows what a batch is: one row that fails beside one that does not.
* **access**: three racing bootstraps; each of eight services, called directly by one client, while identity
  changes its key or is away; two threads of one service, with each kind of cache; one client against
  its buckets; a user who is disabled and enabled while calling; two browsers' requests on one
  session; more logins than sessions; a login after the session ran out. Access tokens
  live 3, refresh tokens 6, sessions 2, cached keys 1, and time runs to 4, so that each
  of them but the refresh token runs out within a behaviour. A login is answered within 1.
Where two threads share a cache the time ends at 3, and telemetry's at 2.
* **device_trust**: three threads of pki-service with four requests that compete
  for one issuance or one predecessor; a rotation and a revocation with the list and one
  heartbeat; two heartbeats. Lists live 2, a fetch takes at most 1, the horizon is 3, beyond both.
* **assets**: departments that move and are created in both tenants; an administrator with
  requests under way while she and her tenant are shut out; an asset whose tenant,
  administrator, site and department come and go; two assets that want one external identity.

### Why the bounds are enough

Two requests are enough for the races of `CommandService`: each of them is about two
transactions on one row or key. One command shows everything about a single row, since
rows only meet in a poll, in the unique key and in the order of the queue, which the
second run is about. In `command_outcome` the clock runs past every lease and lifetime; in
`command_queue` one lifetime ends while the other command is still alive, so that polls meet
old, young and expired commands at once. A spool of 2 gives up telemetry for a result,
and refuses a third result. Three releases let an update follow a rolled back one, and
one that succeeded.

Tokens of `Enrollment` never meet, so one is enough; two handlers overlap in every way
two redemptions, or a redemption and a revocation, can; three identities let a token be
freed twice. The run without lapsing grants leaves out one choice, to show what holds but for it. Deadlock is
not checked where every identity is drawn, or every row written, and nobody asks any more.

In `assets` three departments make cycles of every length up to three, and one thread
moves them: the walk in `_validate_department_parent` is meant for moves one after the
other, and with two at once in one tenant the property is false (below).

### Fairness

`command_queue`: handlers run on (threads are scheduled, database and HTTP calls have
timeouts), and the clock advances. That a device's polls reach the service is an
assumption of the property, not of the specification.

`endpoint_faults`: the agent runs on, a stopped device is started some day, and the
network and the disk keep coming back, so that a call tried again and again is answered
once, and the file of what was answered removed once, before the process dies. Nothing is assumed about the services accepting what is sent, nor about
the updater.

`enrollment_one_at_a_time`: handlers end (every call has a timeout, and database
transactions end), pki-service executes what it is sent, and a call repeated again and
again is answered once before its handler gives up. That the caller repeats its request is
the property's hypothesis.

`audit_trail`: workers and consumers are started again after a failure (Compose restarts
them), of which there are finitely many in an instance; PostgreSQL grants an advisory lock
in the order of the requests for it; JetStream brings a message that is not acknowledged
again and again. Nothing is assumed of the gateway's clients.

`device_trust`: handlers end and clients time out, the offline worker goes round, time
passes. A refresh of the revocation list may fail for ever.

## What the findings say

Three runs end in a counterexample, each to a sentence of the repository's own documents.

* **One refused item wedges the agent** (endpoint_poison). `drain` does not tell a refusal
  from a failure and comes first in every cycle. An operator who cancels a command while
  it executes, with the result in the spool, stops that agent's heartbeat, telemetry and
  commands.
* **Overlapping redemptions decide on stale rows** (enrollment_lost_result). A refusal
  recorded after a completion turns the enrolled row into a failed one, and the
  identical retry is refused for ever.
* **A rotation decides on the certificate as it read it** (rotation_race). A revocation that
  commits meanwhile is not seen: a revoked certificate gets an active successor.

The following was met while modelling. The models show it, in that the property named
needs the exception it has; there is no run for it.

* A lapsed lease is final: the design lets an expired dispatch return to `queued`,
  `acquire_commands` selects `queued` rows only. `ExecutedOnce` relies on that.
* An agent that boots without a connection exits, and nothing restarts it.
* A refusal that frees a token under a waiting redemption lets that one write its
  certificate into the row of the next identity (`AnswerIsOwn` holds where one token's redemptions do not overlap); the
  client takes every 4xx for a refusal before issuance, so a grant that lapses between two
  tries leaves a certificate no enrollment refers to (`NoNewIdentityOnceCertified`).
* As many rows that cannot be published as a batch holds, or as many unreadable
  messages as may be unacknowledged, keep everything younger from the trail
  (`CommittedIsRecorded` has fewer of them).
* telemetry-service reads its key cache back after it stored what it fetched; another
  thread's older answer may be there by then (`FreshTokenAccepted` leaves it out).
* A console session that is replaced by a refresh while it is logged out comes back: the
  store writes with `SET` without `XX`, against 2026-08-28-web-console-v08-design.md:18
  (`LogoutIsFinal` is about logouts that overlap with nothing). Concurrent logins exceed
  `max_sessions`, by one for each handler but one, and so does each session that comes back
  after a login evicted it, and each that a login set without indexing it because it failed
  between `SET` and `ZADD`, against "bounded cardinality" (session.py:86). `SessionsBounded`
  counts them all. A refresh that is answered 429 or 503 deletes the session (authenticated.py:31).
* The last administrator can be disabled. A user who is disabled while his password is
  checked is given tokens all the same, which last as long as any (`LockedOutInTime` allows
  for it).
* A result whose file cannot be written is lost with the process alive and room in the
  spool (runner.go:222-223), with the commands of that poll that were still to be
  executed; such a command stays in `running`, which only a cancellation ends
  (`HeldUntilRecorded` names this case).
* Two heartbeats at once announce `device.online` twice
  (2026-08-26-agent-control-command-telemetry-design.md:61 says once), two revocations at once are two
  events. A sweep that overlaps with a heartbeat leaves a fresh device offline until its next one.
  `StateIsAnnounced` still holds: the last event always names the state on record.
* TLS connections are kept alive past the certificate's `not_after`; no code writes the
  session state `disabled`.
* Two department moves that overlap, A under B and B under A, make the cycle that
  `_validate_department_parent` is there to refuse (`HierarchyIsAcyclic` holds where such moves of one tenant do not overlap).
* Two concurrent links of one external identity to the *same* asset: the slower is refused
  as linked to another asset, where plan 2026-08-23-v0.3.0-asset-service.md:85 asks for an
  idempotent association. Two first upserts of one membership: the slower
  fails with an unhandled IntegrityError.
* The updater's end is safe for the files and less so for the service
  (agents/windows-agent/README.md:102-103: a valid marker removes `previous`, a timeout
  restores it and restarts):
  a marker written between the last look for it and the forced stop makes `Evaluate`
  commit, which `forceRollback` takes for an error: the service is left stopped
  (trouble "late"). `Activate` refuses after the stop when a second `update`, whose copy of
  the helper failed, has removed the staged file (update_windows.go:64-66), with the same
  end ("refused"). After a crash between two renames there is nothing at the place the service
  starts from ("power", "rename"), and a `previous` left behind refuses every later
  update (update_windows.go:49-51). The old executable cannot be removed while another
  `update` runs from it ("in use"). A process that dies after it wrote the marker is
  committed (apply.go:48-57), and nothing starts it again. `ServiceIsLeftRunning` is about helpers that end
  without such a trouble, and `WorkingVersionKept` about all of them.

## What is proved

Eight modules hold the proofs. Every safety invariant, action property and refinement
that a passing run checks is a theorem, for any processes, rows, keys and requests, any
sizes, rates and lifetimes; `MaxTime`, `MaxWire` and the other bounds of the models may
be any numbers. `PROJECT.json` names the theorem of each property.

| Module | Theorems about | Inductive invariant |
| --- | --- | --- |
| CommandServiceProofs | `TypeOK`, `GrantedOnce`, `OneOutcome`, `ReportedInTime`, `EventsTellTheStory`, `OneCommandPerKey`, `KeepsItsPromise` | `IInv` |
| EndpointProofs | `WorkingVersionKept`, `ServiceIsLeftRunning`; `ExecutedOnce`, `VerdictIsTrue`, `HeldUntilRecorded`; `ExecutesAsPromised` | `UpdateInv`; `OutcomeInv`; `OutcomeInv` with `TodoOK` |
| EnrollmentProofs | `TypeOK`, `EnrolledMeansCertified`, `SpentTokenStartsNothing`, `ReservationBindsOneRequest`; `CompletedIsRetrievable`, `AnswerIsOwn`; `NoNewIdentityOnceCertified` | `IInv`; `OwnInv`; `IdentityIsOnRecord` |
| AuditTrailProofs | `NothingLost`, `NoEffectWithoutIntent`, `RecordedOnce`, `NoFalseAlarm`, `TamperingShows`, `PagesMissNothing`, `LocksSuffice`, `KeepsTheLog` | `TrailInv` |
| AccessProofs | one bootstrap; `WithinRate`; `LogoutIsFinal`; `LockedOutInTime`, `OldKeyRefusedInTime`, `FreshTokenAccepted` | `BootstrapInv`; `RateInv`; `ConsoleInv`, `ClosedInv`; `AccessInv` |
| ConsoleProofs | `SessionsBounded` | `BoundInv` |
| DeviceTrustProofs | `RefusedInTime`, `RetryIsAnswered`; `StateIsAnnounced` | `TrustInv`; `PresenceInv` |
| AssetsProofs | `InForceWhenHandled`, `NobodyLetsThemselvesBackIn`; `HierarchyIsAcyclic` | `AssetsInv`; `AssetsInv` with `PathIsAbove` |

Each proof has the same shape: the invariant holds at first, every action keeps it (one
lemma per action or per group of actions that touch the same variables), and the
property follows from it, or from it and one step. None of the properties is inductive
alone. What each invariant adds is said below.

**CommandServiceProofs.** The types and the safety invariants together: that a completed
command has no second result needs that only dispatched commands carry a token
(`GrantedOnce`); that results are in time needs that a lease never changes once granted.
`StepOfEachCommand` says what any step does to any one row, `OneTouched` that all steps
but a poll change at most one; the invariants follow row by row, and so does the
refinement (`PollRefines`, `CommandRefines`).

**EndpointProofs.** `UpdateInv` says for each place of the helper what is on the disk,
and that a marker is there only since the executable in place completed a cycle: so
`previous` is removed only when it is no longer needed; and of the service, that it runs
from there unless it died by itself (`died`). `OutcomeInv` follows a command's
one execution through the agent's hands, the spool, the network and the row: each copy
of a report, wherever it is, and however often it failed to be written or removed, tells what `executed` says, and a command that may still be
executed was handed out and has not been executed. That a lease which lapsed is never
granted again carries `ExecutedOnce`.

`JobsExecuteAsPromised` is the refinement, one lemma for each kind of step. A request,
whether it is answered, late or repeated, is a poll of which the device hears nothing, a
settlement, or a stutter; only the agent's own steps change what the device has, and each
of them that neither calls nor executes can only give jobs up (`DropRefines`). It needs
`TodoOK` besides: an agent that polls has nothing left to do, so that what it is given is
what that one poll offered. The refinement says what `VerdictIsTrue`
says, which is why no run checks that one on its own, and besides that a job is begun only
while the service still offers it, so one that was cancelled, expired or settled is never
begun, and that a job which was given up after it was begun is not begun again. `PromiseKeepsLifecycle` shows that the endpoint's promise
includes the one that command-service makes alone.

**EnrollmentProofs.** `IInv` adds to the types and to `EnrolledMeansCertified` only
`RowsAreThere`: a token that is reserved or consumed, or that a handler works on, has an
enrollment row. That little is enough for what does not depend on what a handler
remembers. The other three properties do depend on it. They are proved of the behaviours in
which no two redemptions of *one* token overlap: `Spec /\ []Alone => []P`, where
redemptions of different tokens, revocations and calls that PKI executes late interleave
freely, among any number of handlers. The run `enrollment_lost_result` shows why that is
needed: a handler that waited decides on the rows it read before. `OwnInv` says that what
such a handler remembers is the row (`NothingIsStale`); it is enough for
`CompletedIsRetrievable` and `AnswerIsOwn`, also where grants lapse. Only
`NoNewIdentityOnceCertified` needs besides that no grant lapses between two tries of one
call, since a refusal after a lapse is taken for a refusal before any issuance;
`IdentityIsOnRecord` says that only the identity on record has a certificate or a call
that PKI could still certify. The run `enrollment_one_at_a_time` has one handler and so
checks an instance of both.

**AuditTrailProofs.** `TrailInv` is the conjunction of what holds of each part and of
what ties it to the next: a worker holds rows that were written, what it sent or marked
is in the stream, what was acknowledged is on record or unreadable; a chain is numbered
without gap, linked and agrees with its head (`ChainOK`); what a consumer read of a
chain stays true until its commit because no other holds the chain's lock (`ConsumerOK`,
`Exclusive`), which is also why no append meets a unique constraint (`LocksSuffice`);
the verifier's rows are a beginning of the chain, the pages seen are complete to the
cursor. `TamperingShows` needs no induction over the chain: `AlteredIsNotVerified` finds
the two records, or the record and the head, that no longer fit.

**AccessProofs.** `BootstrapInv`: a request that is done left the row of
`identity_state` behind, and no two are done; `users` alone would not do, since every
request found it empty. `RateInv` strengthens `WithinRate` by what a bucket holds now:
`Since(k, from) * Cost` and the tokens left are at most `Capacity[k] + (clock - from) *
Refill[k]`. `ClosedInv` says of a session that was closed while nobody else was at work
on it that all handlers which come to it later find it gone and write nothing.
`AccessInv` says of every pair of tokens, wherever it is kept, that identity issued it
with a key it had and, if its user is disabled, that it runs out within the life it then
had; and of every key a service holds, keeps or is fetching, how old it can be. A login
under way is part of it (`SignInsOK`): whoever was active when it read his row has not been
disabled before, so that what it signs later, if anybody still waits for it, was signed no
more than `SignInTimeout` after he was.

**ConsoleProofs.** A login counts the index, removes what is in excess and adds its own
session, in separate commands. `BoundInv` gives each login that is making room the set
of handlers that wrote to the index since it counted (`ahead`), of two logins at least
one of which is not ahead of the other: so the logins are ordered, the last of them
found the others' sessions counted or is the one they are ahead of, and the excess is at
most one for each handler but one. Sessions that no index lists have a term of their own:
those a refresh set again after they were removed, and those whose login ended before it
indexed them (`LeftOut`); `strays`, a history variable, counts both. The bound is false
without either term: two handlers and three logins, or one login that fails before as many
sessions as there may be, are enough.

**DeviceTrustProofs.** `ListInv`: what a list lacks was revoked no longer before the
list's date than the fetch took, since its rows are read first. `PresenceInv` is
`StateIsAnnounced` with the types: it is inductive, since every handler writes the event
in the transaction that writes the state.

**AssetsProofs.** `AssetsInv` says of every request under way what it has found so far,
and that each of it was in force at some time since it came (`GrantsOK`, by the history
variable `held`), and that a session holds the rows as they were found (`SessionOK`), so
that a commit writes back only the columns the request is about. `HierarchyIsAcyclic` is
proved of the behaviours in which no two requests of one tenant that put a department
under another are in their walk or commit at once: `Spec /\ []Apart => []HierarchyIsAcyclic`.
With two at once it is false, as said above. Everything else may race with a move:
departments are created, switched off and moved to the top, and the other tenants move
theirs. `PathIsAbove` says that everything above the new parent is among the departments
the walk has passed or still ahead; a cycle would have to pass through the department that
moves, which is not among them. That another request can only shorten the path
(`OtherPathsStay`) is what `Apart` is needed for.

### Assumptions

Those the modules name, and nothing else. Lifetimes, rates and limits are positive or
natural numbers; handlers are callers; the tables and requests of a setting have the
types that the database and the schemas give them (`SettingsAssumption` of Access,
DeviceTrust and Assets, `SettingAssumption` of AuditTrail, `ServiceAssumption` of
TokenVerifier). The only set that must be finite is that of the console's handlers,
because `SessionsBounded` counts them. TLC evaluates each assumption in the runs.

### What is only model-checked

The liveness properties: `QueueDrains`, `DrainsUnlessRefused`, `RetriesComplete`,
`CommittedIsRecorded` and `RevokedGoesDark`. Each rests on fairness, that is on ENABLED,
which is out of the prover's reach. So are the three runs that end in a counterexample:
what they refute needs no proof.

Two hypotheses of theorems are about behaviours and not about constants, `[]Alone` and
`[]Apart`. Neither is assumed of the code: the findings and the notes above say what
happens without them.

### What remains open

1. Safety lemmas that the liveness properties rest on, such as that a row which
   is waiting can always be offered: they would name the step that is enabled without ENABLED.
2. The overlap of two redemptions of one token, refined: which of the steps of the second
   one are harmless.
3. Concurrent ingestion in telemetry-service, and several `update` processes at once.

## Not modelled

* The agent's enrollment client, keystore and state file: one request per run with a new
  key, whose answer is saved or lost. `Enrollment` accepts any such caller.
* Telemetry collection, platform code and configuration of the agent: they read the
  operating system and validate values, and keep no state.
* The web-console's user interface: what it holds is a cache of what the services answer.
* The creation of the CA's and the edge's key files (ca.py, servertls): it runs once, before
  anything else. A crash in it leaves files that every later start refuses.
* Concurrent ingestion of one telemetry batch, and the validation of samples.
* Filters and fields of listings, names, codes and addresses: no property tells them apart.
* NATS, PostgreSQL and Valkey themselves; build, deployment and CI; formats, encodings and
  cryptography.
