-------------------------- MODULE EndpointCommands --------------------------
(***************************************************************************)
(* One Windows agent, its disk spool, and the services behind Device Edge. *)
(*                                                                         *)
(* The agent is one goroutine (runner.Runner): a first Cycle, whose error  *)
(* ends the process, and then Run, which backs off after an error and      *)
(* starts again at drain.  Every step of it is an action; `pc` is where it *)
(* stands.  It may die at any point, and keeps only its spool.             *)
(*                                                                         *)
(* A call to the services is answered, or gets no answer.  In that case    *)
(* the request was lost, or is still on its way (`wire`) and takes effect  *)
(* later, or took effect and the answer was lost: that one is a request    *)
(* delivered while nobody waits.  The services act on a request in one     *)
(* step: what concurrent requests can do to each other is CommandService.  *)
(* The clocks of agent and services agree.                                 *)
(***************************************************************************)
EXTENDS CommandTable, Sequences

CONSTANTS
    Command,          \* command ids (bound)
    Refresh,          \* those that are inventory.refresh
    Self,             \* the agent's device principal
    MaxItems,         \* capacity of the spool
    Window,           \* how old a batch telemetry-service accepts (24 h)
    MaxBatches,       \* telemetry batches the agent makes (bound)
    MaxWire,          \* requests on their way without a caller (bound)
    MayCrash,         \* whether the process may be killed
    MaxTime           \* last instant of the clock (bound)

ASSUME CommandAssumption == Command \subseteq Nat /\ Refresh \subseteq Command
ASSUME DeviceAssumption == Self \in Device /\ Command \subseteq Key
ASSUME SpoolAssumption == MaxItems \in Nat \ {0}
ASSUME BoundsAssumption == {Window, MaxBatches, MaxWire, MaxTime} \subseteq Nat

VARIABLES
    clock,            \* the time, on both sides
    rows,             \* command-service: table commands
    stored,           \* command-service: status of result 1 of each command
    ingested,         \* telemetry-service: the batches it has
    wire,             \* requests that may still arrive
    pc,               \* what the agent does next
    first,            \* in the first Cycle, before Run
    todo,             \* commands acquired in this cycle and not yet begun
    seenAt,           \* `now` of Runner.commands
    job,              \* the command being executed, then its result
    batches,          \* telemetry batches made so far
    spool,            \* files of the spool directory
    executed          \* history: the verdicts of each command's executions

services == <<rows, stored, ingested>>
cycle == <<first, todo, seenAt, job>>
vars == <<clock, services, wire, pc, cycle, batches, spool, executed>>

Verdict == {"succeeded", "failed"}

\* What acquire tells about a command (RemoteCommand).
Grant == [command : Command, token : Nat, lease : Nat \cup {NoLease}, expiresAt : Nat]
NoJob == [command |-> 0, token |-> 0, lease |-> NoLease, expiresAt |-> 0]

ResultItem ==
    [kind : {"command-result"}, id : Command, token : Nat, status : Verdict, createdAt : Nat]
TelemetryItem == [kind : {"telemetry"}, id : 1..MaxBatches, createdAt : Nat]

Request ==
    [op : {"acquire"}] \cup [op : {"running"}, command : Command, token : Nat]
    \cup [op : {"send"}, item : ResultItem \cup TelemetryItem]

Steps == {"exited", "drain", "ack", "heartbeat", "telemetry", "acquire", "stamp",
          "next", "execute", "submit", "keep", "broken"}

TypeOK ==
    /\ clock \in 0..MaxTime
    /\ rows \in [Command -> Row \cup {NoRow}]
    /\ stored \in [Command -> Verdict \cup {"none"}]
    /\ ingested \subseteq 1..MaxBatches
    /\ wire \subseteq Request /\ Cardinality(wire) <= MaxWire
    /\ pc \in Steps
    /\ first \in BOOLEAN
    /\ todo \subseteq Grant
    /\ seenAt \in Nat
    /\ job \in Grant \cup ResultItem \cup {NoJob}
    /\ batches \in 0..MaxBatches
    /\ spool \subseteq ResultItem \cup TelemetryItem /\ Cardinality(spool) <= MaxItems
    /\ executed \in [Command -> Seq(Verdict)]

Init ==
    /\ clock = 0
    /\ rows = [c \in Command |-> NoRow]
    /\ stored = [c \in Command |-> "none"]
    /\ ingested = {}
    /\ wire = {}
    /\ pc = "exited"
    /\ first = TRUE
    /\ todo = {}
    /\ seenAt = 0
    /\ job = NoJob
    /\ batches = 0
    /\ spool = {}
    /\ executed = [c \in Command |-> <<>>]

-----------------------------------------------------------------------------
(* The services *)

\* The commands a poll may hand out now, and the poll.
Polls == OldestFirst(rows, {c \in Command : Acquirable(rows[c], Self, clock)}, MaxAcquireLimit)

HandOut(taken) ==
    /\ rows' = [c \in Command |->
          IF Expirable(rows[c], Self, clock) THEN Expired(rows[c])
          ELSE IF c \in taken THEN Dispatched(rows[c], clock)
          ELSE rows[c]]
    /\ UNCHANGED <<stored, ingested>>

Replayed(item) == stored[item.id] = item.status

AcceptsResult(item) ==
    /\ BoundTo(rows[item.id], Self)
    /\ TokenValid(rows[item.id], item.token)
    /\ \/ Replayed(item)
       \/ stored[item.id] = "none" /\ MayComplete(rows[item.id], clock, FALSE)

RecordResult(item) ==
    /\ stored' = [stored EXCEPT ![item.id] = item.status]
    /\ rows' = IF Replayed(item) THEN rows
               ELSE [rows EXCEPT ![item.id] = Completed(@, item.status)]
    /\ UNCHANGED ingested

AcceptsBatch(item) == clock <= item.createdAt + Window

RecordBatch(item) == ingested' = ingested \cup {item.id} /\ UNCHANGED <<rows, stored>>

\* Whether a request is answered with 2xx.
Accepts(r) ==
    \/ r.op = "acquire"
    \/ r.op = "running" /\ MayRun(rows[r.command], Self, r.token, clock)
    \/ /\ r.op = "send"
       /\ IF r.item.kind = "telemetry" THEN AcceptsBatch(r.item) ELSE AcceptsResult(r.item)

\* What it does if so; a refused request is rolled back.
Effect(r) ==
    \/ r.op = "acquire" /\ \E taken \in Polls : HandOut(taken)
    \/ /\ r.op = "running"
       /\ rows' = [rows EXCEPT ![r.command] = Running(@)]
       /\ UNCHANGED <<stored, ingested>>
    \/ /\ r.op = "send"
       /\ IF r.item.kind = "telemetry" THEN RecordBatch(r.item) ELSE RecordResult(r.item)

-----------------------------------------------------------------------------
(* A call of the agent: PostJSON *)

Answered(r) == Accepts(r) /\ Effect(r) /\ UNCHANGED wire

Refused(r) == ~Accepts(r) /\ UNCHANGED <<services, wire>>

Unanswered(r) ==
    /\ UNCHANGED services
    /\ \/ UNCHANGED wire
       \/ Cardinality(wire) < MaxWire /\ wire' = wire \cup {r}

Errs(r) == Refused(r) \/ Unanswered(r)

Poll == [op |-> "acquire"]
StartOf(grant) == [op |-> "running", command |-> grant.command, token |-> grant.token]
Sending(item) == [op |-> "send", item |-> item]

-----------------------------------------------------------------------------
(* spool.Queue *)

Results == {i \in spool : i.kind = "command-result"}
Batches == {i \in spool : i.kind = "telemetry"}

\* The order of List: by creation, then by file name.
Earlier(i, j) == i.createdAt < j.createdAt \/ (i.createdAt = j.createdAt /\ i.id <= j.id)
Oldest(S) == CHOOSE i \in S : \A j \in S : Earlier(i, j)

\* A full spool gives up its oldest telemetry, and refuses the item if it has
\* none (ErrFull).  A file of the same name is kept: nil if it is the same item.
Present(item) == {i \in spool : i.kind = item.kind /\ i.id = item.id}

Fits == Cardinality(spool) < MaxItems

\* Mutant: room is made by dropping the oldest item of either kind.
Enqueued_EvictsAny(item) ==
    IF Present(item) # {} THEN spool
    ELSE IF Fits THEN spool \cup {item}
    ELSE (spool \ {Oldest(spool)}) \cup {item}

Enqueued(item) ==
    IF Present(item) # {} THEN spool
    ELSE IF Fits THEN spool \cup {item}
    ELSE IF Batches # {} THEN (spool \ {Oldest(Batches)}) \cup {item}
    ELSE spool
EnqueueFails(item) ==
    IF Present(item) # {} THEN Present(item) # {item} ELSE ~Fits /\ Batches = {}

\* The directory cannot be read, or the file not be written: a full disk, an I/O
\* error.  Telemetry that had to make room is gone by then, or not.
DiskFails(item) ==
    \/ UNCHANGED spool
    \/ /\ Present(item) = {} /\ ~Fits /\ Batches # {}
       /\ spool' = spool \ {Oldest(Batches)}

\* The item drain sends next: results before telemetry, then in List's order.
Upfront == IF Results # {} THEN Oldest(Results) ELSE Oldest(Batches)

-----------------------------------------------------------------------------
(* runner.Runner *)

\* `return err`: the first Cycle ends the process, Run sleeps and starts over.
Fail ==
    /\ pc' = IF first THEN "exited" ELSE "drain"
    /\ todo' = {} /\ seenAt' = 0 /\ job' = NoJob
    /\ UNCHANGED first

EndOfCycle ==
    /\ pc' = "drain"
    /\ first' = FALSE /\ seenAt' = 0
    /\ UNCHANGED <<todo, job>>

Goto(step) == pc' = step /\ UNCHANGED cycle

Start ==
    /\ pc = "exited"
    /\ pc' = "drain" /\ first' = TRUE
    /\ UNCHANGED <<clock, services, wire, todo, seenAt, job, batches, spool, executed>>

\* Mutant: a refusal is taken for a confirmation.
DrainSend_AcksRefusal ==
    /\ pc = "drain" /\ spool # {}
    /\ \/ Answered(Sending(Upfront)) /\ Goto("ack")
       \/ Refused(Sending(Upfront)) /\ Goto("ack")
       \/ Unanswered(Sending(Upfront)) /\ Fail
    /\ UNCHANGED <<clock, batches, spool, executed>>

DrainSend ==
    /\ pc = "drain" /\ spool # {}
    /\ \/ Answered(Sending(Upfront)) /\ Goto("ack")
       \/ Errs(Sending(Upfront)) /\ Fail
    /\ UNCHANGED <<clock, batches, spool, executed>>

\* Mutant: results are looked for under the file name of telemetry.
Ack_WrongName ==
    /\ pc = "ack"
    /\ spool' = spool \ {i \in Batches : i = Upfront}
    /\ Goto("drain")
    /\ UNCHANGED <<clock, services, wire, batches, executed>>

\* The item the service has is removed; if that fails it will be sent again.
Ack ==
    /\ pc = "ack"
    /\ \/ spool' = spool \ {Upfront} /\ Goto("drain")
       \/ UNCHANGED spool /\ Fail
    /\ UNCHANGED <<clock, services, wire, batches, executed>>

\* Queue.List fails.
ListFails ==
    /\ pc = "drain"
    /\ Fail
    /\ UNCHANGED <<clock, services, wire, batches, spool, executed>>

Drained ==
    /\ pc = "drain" /\ spool = {}
    /\ Goto("heartbeat")
    /\ UNCHANGED <<clock, services, wire, batches, spool, executed>>

\* Agent Control answers, or not.  Run also goes on here when no heartbeat is due.
Heartbeat ==
    /\ pc = "heartbeat"
    /\ Goto("telemetry") \/ Fail
    /\ UNCHANGED <<clock, services, wire, batches, spool, executed>>

\* Runner.telemetry returns without an error: there were no samples, the batch
\* was sent, or it is in the spool.
Reports ==
    \/ UNCHANGED <<services, wire, batches, spool>>
    \/ LET item == [kind |-> "telemetry", id |-> batches + 1, createdAt |-> clock]
       IN  /\ batches < MaxBatches
           /\ batches' = batches + 1
           /\ \/ Answered(Sending(item)) /\ UNCHANGED spool
              \/ Errs(Sending(item)) /\ ~EnqueueFails(item) /\ spool' = Enqueued(item)

\* It returns an error: collecting failed, or the batch is not in the spool either,
\* which is full or cannot be written.  The number of a batch of which nothing is
\* left goes to the next one.
FailsToReport ==
    \/ UNCHANGED <<services, wire, batches, spool>>
    \/ LET item == [kind |-> "telemetry", id |-> batches + 1, createdAt |-> clock]
       IN  /\ batches < MaxBatches
           /\ Errs(Sending(item)) /\ DiskFails(item)
           /\ batches' = IF wire' = wire THEN batches ELSE batches + 1

\* Run also goes on here when no telemetry is due.
Telemetry ==
    /\ pc = "telemetry"
    /\ \/ Reports /\ Goto("acquire")
       \/ FailsToReport /\ Fail
    /\ UNCHANGED <<clock, executed>>

\* Runner.commands: poll; in Run, only if a poll is due.
AcquireCommands ==
    /\ pc = "acquire"
    /\ \/ /\ \E taken \in Polls :
                /\ HandOut(taken)
                /\ todo' = {[command |-> c, token |-> rows'[c].token, lease |-> rows'[c].lease,
                             expiresAt |-> rows'[c].expiresAt] : c \in taken}
          /\ pc' = "stamp"
          /\ UNCHANGED <<wire, first, seenAt, job>>
       \/ Errs(Poll) /\ Fail
       \/ ~first /\ EndOfCycle /\ UNCHANGED <<services, wire>>
    /\ UNCHANGED <<clock, batches, spool, executed>>

Stamp ==
    /\ pc = "stamp"
    /\ seenAt' = clock
    /\ pc' = "next"
    /\ UNCHANGED <<clock, services, wire, first, todo, job, batches, spool, executed>>

\* The next command of the answer, which lists them as they were created.
Foremost(g) ==
    /\ g \in todo
    /\ \A o \in todo : rows[g.command].createdAt <= rows[o.command].createdAt

TooLate(g) == seenAt >= g.lease \/ seenAt >= g.expiresAt

Skip(g) ==
    /\ pc = "next" /\ Foremost(g) /\ TooLate(g)
    /\ todo' = todo \ {g}
    /\ UNCHANGED <<clock, services, wire, pc, first, seenAt, job, batches, spool, executed>>

MarkRunning(g) ==
    /\ pc = "next" /\ Foremost(g) /\ ~TooLate(g)
    /\ \/ /\ Answered(StartOf(g))
          /\ pc' = "execute" /\ job' = g /\ todo' = todo \ {g}
          /\ UNCHANGED <<first, seenAt>>
       \/ Errs(StartOf(g)) /\ Fail
    /\ UNCHANGED <<clock, batches, spool, executed>>

CommandsDone ==
    /\ pc = "next" /\ todo = {}
    /\ EndOfCycle
    /\ UNCHANGED <<clock, services, wire, batches, spool, executed>>

\* Executor.Execute: inventory.refresh is a telemetry report of its own.
Execute ==
    /\ pc = "execute"
    /\ \E verdict \in Verdict :
          /\ IF job.command \notin Refresh THEN UNCHANGED <<services, wire, batches, spool>>
             ELSE IF verdict = "succeeded" THEN Reports ELSE FailsToReport
          /\ executed' = [executed EXCEPT ![job.command] = Append(@, verdict)]
          /\ job' = [kind |-> "command-result", id |-> job.command, token |-> job.token,
                     status |-> verdict, createdAt |-> clock]
    /\ pc' = "submit"
    /\ UNCHANGED <<clock, first, todo, seenAt>>

Submit ==
    /\ pc = "submit"
    /\ \/ /\ Answered(Sending(job))
          /\ pc' = "next" /\ job' = NoJob /\ UNCHANGED <<first, todo, seenAt>>
       \/ Errs(Sending(job)) /\ Goto("keep")
    /\ UNCHANGED <<clock, batches, spool, executed>>

\* The result goes to the spool; if the spool refuses it or cannot be written, it is
\* lost, and the other commands of the poll with it.
Keep ==
    /\ pc = "keep"
    /\ \/ /\ ~EnqueueFails(job)
          /\ spool' = Enqueued(job)
          /\ pc' = "next" /\ job' = NoJob /\ UNCHANGED <<first, todo, seenAt>>
       \/ EnqueueFails(job) /\ UNCHANGED spool /\ Fail
       \/ /\ DiskFails(job)
          /\ pc' = "broken" /\ todo' = {} /\ seenAt' = 0 /\ job' = NoJob /\ UNCHANGED first
    /\ UNCHANGED <<clock, services, wire, batches, executed>>

\* Runner.commands returned the spool's I/O error.
Broken ==
    /\ pc = "broken"
    /\ Fail
    /\ UNCHANGED <<clock, services, wire, batches, spool, executed>>

\* The process is killed, stopped or loses power.
Crash ==
    /\ MayCrash /\ pc # "exited"
    /\ pc' = "exited" /\ first' = TRUE /\ todo' = {} /\ seenAt' = 0 /\ job' = NoJob
    /\ UNCHANGED <<clock, services, wire, batches, spool, executed>>

-----------------------------------------------------------------------------
(* Around the agent *)

\* A request nobody waits for any more arrives.
Deliver(r) ==
    /\ r \in wire
    /\ wire' = wire \ {r}
    /\ IF Accepts(r) THEN Effect(r) ELSE UNCHANGED services
    /\ UNCHANGED <<clock, pc, cycle, batches, spool, executed>>

Create(c, lifetime) ==
    /\ ~Exists(rows[c])
    /\ rows' = [rows EXCEPT ![c] = NewRow(c, [device |-> Self, lifetime |-> lifetime], clock)]
    /\ UNCHANGED <<clock, stored, ingested, wire, pc, cycle, batches, spool, executed>>

Cancel(c) ==
    /\ Cancellable(rows[c])
    /\ rows' = [rows EXCEPT ![c] = Cancelled(@)]
    /\ UNCHANGED <<clock, stored, ingested, wire, pc, cycle, batches, spool, executed>>

Tick ==
    /\ clock < MaxTime
    /\ clock' = clock + 1
    /\ UNCHANGED <<services, wire, pc, cycle, batches, spool, executed>>

Agent ==
    \/ ListFails \/ DrainSend \/ Ack \/ Drained \/ Heartbeat \/ Telemetry \/ AcquireCommands \/ Stamp
    \/ \E g \in todo : Skip(g) \/ MarkRunning(g)
    \/ CommandsDone \/ Execute \/ Submit \/ Keep \/ Broken

Next ==
    \/ Agent \/ Start \/ Crash \/ Tick
    \/ \E r \in wire : Deliver(r)
    \/ \E c \in Command : Cancel(c) \/ \E lifetime \in Lifetime : Create(c, lifetime)

Spec == Init /\ [][Next]_vars

-----------------------------------------------------------------------------
(* Safety *)

Spooled(c) == \E i \in Results : i.id = c
InHand(c) == pc \in {"submit", "keep"} /\ job.id = c

\* Whatever is lost, late or killed, a command is executed at most once, and a
\* failed upload never has it executed again (Runner.commands, acquire_commands).
ExecutedOnce == \A c \in Command : Len(executed[c]) <= 1

\* The verdict on record is that of the command's one execution, also when the
\* report was repeated, or arrived late and out of order (submit_result, drain).
VerdictIsTrue ==
    \A c \in Command :
        /\ stored[c] # "none" => executed[c] = <<stored[c]>>
        /\ rows[c].state \in Verdict \/ stored[c] # "none" => rows[c].state = stored[c]

\* What becomes of an execution's outcome before the service has it.  Once in the
\* spool it stays there, through crashes, failing disks and any pressure for room.
\* From the agent's hands it goes into the spool, or is lost in one of three ways
\* only: with the process, for want of room among results alone, or because its
\* file cannot be written, and then nothing else of the poll is executed
\* (Queue.Enqueue, Queue.Ack, drain, Runner.commands).
HeldUntilRecorded ==
    [][\A c \in Command :
          /\ Spooled(c) /\ ~Spooled(c)' => stored'[c] # "none"
          /\ InHand(c) /\ ~InHand(c)' =>
                \/ stored'[c] # "none"
                \/ Spooled(c)'
                \/ pc' = "exited" /\ MayCrash
                \/ Cardinality(Results) = MaxItems
                \/ pc' = "broken" /\ todo' = {}]_vars

-----------------------------------------------------------------------------
(* The promise to those who ask for jobs *)

phases == [c \in Command |-> PhaseOf(rows[c].state)]
reports == [c \in Command |-> {stored[c]} \ {"none"}]

\* What the device has of a command: it is still to do, being executed, or done.
devices == [c \in Command |->
    IF \E g \in todo : g.command = c THEN "given"
    ELSE IF pc = "execute" /\ job.command = c THEN "busy"
    ELSE IF executed[c] = <<>> THEN "idle"
    ELSE executed[c][1]]

Execution == INSTANCE CommandExecution WITH phase <- phases, report <- reports, device <- devices

\* Service, agent, spool and network together, through losses, repetitions, late
\* arrivals and restarts, implement: one offer, at most one execution and only of
\* a job on offer, and no verdict but that of the execution on record.
ExecutesAsPromised == Execution!XSpec

-----------------------------------------------------------------------------
(* Progress *)

\* The agent runs on and the device is started again after it stopped (WF); the
\* network and the disk keep coming back, so that a call tried again and again is
\* once answered, and its file removed, before the process dies (SF).
Fairness ==
    /\ WF_vars(Agent)
    /\ WF_vars(Start)
    /\ SF_vars(DrainSend /\ pc' = "ack")
    /\ SF_vars(Ack /\ spool' # spool)

FairSpec == Spec /\ Fairness

\* The services refuse the item at the head of the spool.
Poisoned == spool # {} /\ ~Accepts(Sending(Upfront))

\* Through crashes and an unreliable network the spool is emptied again and
\* again, unless its head is refused for good (drain).
DrainsUnlessRefused == []<>(spool = {}) \/ <>[]Poisoned

\* What the design says of the spool: after a disconnection it drains.
SpoolRecovers == spool # {} ~> spool = {}
=============================================================================
