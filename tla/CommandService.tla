--------------------------- MODULE CommandService ---------------------------
(***************************************************************************)
(* command-service: remote jobs for enrolled devices.                      *)
(*                                                                         *)
(* Requests run concurrently, one per handler (a FastAPI worker thread     *)
(* with its own database transaction), on tables shared through            *)
(* PostgreSQL.  A handler is cut where another one can come between:       *)
(*  - every handler reads the clock when it starts and decides with that   *)
(*    reading after it has waited for the row lock;                        *)
(*  - create looks the idempotency key up in one statement and inserts in  *)
(*    another;                                                             *)
(*  - cancel takes the row lock, calls two other services over HTTP, and   *)
(*    only then decides and commits.                                       *)
(* The rest of a handler runs under the row locks it took, so it is one    *)
(* step.  `events` is the part of outbox_events that belongs to a command. *)
(***************************************************************************)
EXTENDS CommandTable, Sequences

CONSTANTS
    Command,          \* command ids the table can hold (bound)
    Handler,          \* concurrent requests (bound)
    Sequence,         \* result_sequence values devices use
    Summary,          \* what else distinguishes two result payloads
    Limit,            \* values of the acquire query parameter
    MaxTime           \* last instant of the clock (bound)

ASSUME SequenceAssumption == Sequence \subseteq Nat \ {0}
ASSUME LimitsAssumption == Limit \subseteq Int
ASSUME TimeAssumption == MaxTime \in Nat

VARIABLES
    clock,            \* datetime.now(UTC)
    commands,         \* table commands, by command_id
    results,          \* table command_results
    events,           \* outbox events of each command, oldest first
    req               \* what each handler has read and holds

vars == <<clock, commands, results, events, req>>

Payload == [sequence : Sequence, status : {"succeeded", "failed"}, summary : Summary]
Result == [command : Command, payload : Payload, receivedAt : Nat]
EventType == {"created", "available", "dispatched", "running"} \cup TerminalStates

Request ==
    [op : {"idle"}] \cup [op : {"device"}, now : Nat]
    \cup [op : {"create"}, now : Nat, key : Key, body : Body]
    \cup [op : {"cancel"}, command : Command]

Idle == [op |-> "idle"]

TypeOK ==
    /\ clock \in 0..MaxTime
    /\ commands \in [Command -> Row \cup {NoRow}]
    /\ results \subseteq Result
    /\ events \in [Command -> Seq(EventType)]
    /\ req \in [Handler -> Request]

Init ==
    /\ clock = 0
    /\ commands = [c \in Command |-> NoRow]
    /\ results = {}
    /\ events = [c \in Command |-> <<>>]
    /\ req = [h \in Handler |-> Idle]

-----------------------------------------------------------------------------
(* Helpers *)

Finish(h) == req' = [req EXCEPT ![h] = Idle]

\* No other transaction holds the FOR UPDATE lock of the row.
Unlocked(c) == \A h \in Handler : ~(req[h].op = "cancel" /\ req[h].command = c)

WithKey(key) == {c \in Command : Exists(commands[c]) /\ commands[c].key = key}

Emit(c, e) == events' = [events EXCEPT ![c] = Append(@, e)]

-----------------------------------------------------------------------------
(* POST /commands *)

\* The target has been validated; the key is looked up.  A hit answers with the
\* stored command or with 409 and changes nothing.
CreateLookup(h, key, body) ==
    /\ req[h] = Idle
    /\ req' = [req EXCEPT ![h] =
                 IF WithKey(key) = {}
                 THEN [op |-> "create", now |-> clock, key |-> key, body |-> body]
                 ELSE Idle]
    /\ UNCHANGED <<clock, commands, results, events>>

CreateInsert(h, c) ==
    /\ req[h].op = "create"
    /\ WithKey(req[h].key) = {}
    /\ ~Exists(commands[c])
    /\ commands' = [commands EXCEPT ![c] = NewRow(req[h].key, req[h].body, req[h].now)]
    /\ events' = [events EXCEPT ![c] = <<"created", "available">>]
    /\ Finish(h)
    /\ UNCHANGED <<clock, results>>

\* uq_commands_tenant_idempotency refuses the insert: an unhandled
\* IntegrityError, answered with 500.
CreateCollides(h) ==
    /\ req[h].op = "create"
    /\ WithKey(req[h].key) # {}
    /\ Finish(h)
    /\ UNCHANGED <<clock, commands, results, events>>

-----------------------------------------------------------------------------
(* POST /device/commands/... *)

\* A device request reaches its handler, which reads the clock.
DeviceRequest(h) ==
    /\ req[h] = Idle
    /\ req' = [req EXCEPT ![h] = [op |-> "device", now |-> clock]]
    /\ UNCHANGED <<clock, commands, results, events>>

AcquireCommands(h, d, limit) ==
    LET now == req[h].now
        n == EffectiveLimit(limit)
        expired == IF n = 0 THEN {} ELSE {c \in Command : Expirable(commands[c], d, now)}
        candidates == {c \in Command : Acquirable(commands[c], d, now) /\ Unlocked(c)}
    IN  /\ req[h].op = "device"
        /\ \A c \in expired : Unlocked(c)
        /\ \E acquired \in OldestFirst(commands, candidates, n) :
             /\ commands' = [c \in Command |->
                   IF c \in expired THEN Expired(commands[c])
                   ELSE IF c \in acquired THEN Dispatched(commands[c], now)
                   ELSE commands[c]]
             /\ events' = [c \in Command |->
                   IF c \in expired THEN Append(events[c], "expired")
                   ELSE IF c \in acquired THEN Append(events[c], "dispatched")
                   ELSE events[c]]
        /\ Finish(h)
        /\ UNCHANGED <<clock, results>>

\* Mutant: a repeated mark is announced again.
MarkRunning_AlwaysEmits(h, d, c, token) ==
    /\ req[h].op = "device"
    /\ Unlocked(c)
    /\ MayRun(commands[c], d, token, req[h].now)
    /\ commands' = [commands EXCEPT ![c] = Running(@)]
    /\ Emit(c, "running")
    /\ Finish(h)
    /\ UNCHANGED <<clock, results>>

MarkRunning(h, d, c, token) ==
    /\ req[h].op = "device"
    /\ Unlocked(c)
    /\ MayRun(commands[c], d, token, req[h].now)
    /\ commands' = [commands EXCEPT ![c] = Running(@)]
    /\ IF commands[c].state = "dispatched" THEN Emit(c, "running") ELSE UNCHANGED events
    /\ Finish(h)
    /\ UNCHANGED <<clock, results>>

\* The stored result of this command and sequence number, if there is one.
Stored(c, sequence) == {r \in results : r.command = c /\ r.payload.sequence = sequence}

SubmitResult(h, d, c, token, p, ahead) ==
    /\ req[h].op = "device"
    /\ Unlocked(c)
    /\ BoundTo(commands[c], d)
    /\ TokenValid(commands[c], token)
    /\ Stored(c, p.sequence) = {}
    /\ MayComplete(commands[c], req[h].now, ahead)
    /\ results' = results \cup {[command |-> c, payload |-> p, receivedAt |-> req[h].now]}
    /\ commands' = [commands EXCEPT ![c] = Completed(@, p.status)]
    /\ Emit(c, p.status)
    /\ Finish(h)
    /\ UNCHANGED clock

\* The sequence number was used for this very payload: answered with the stored
\* result, whatever the state and the lease have become.
ReplayResult(h, d, c, token, p) ==
    /\ req[h].op = "device"
    /\ Unlocked(c)
    /\ BoundTo(commands[c], d)
    /\ TokenValid(commands[c], token)
    /\ \E r \in Stored(c, p.sequence) : r.payload = p
    /\ Finish(h)
    /\ UNCHANGED <<clock, commands, results, events>>

\* The sequence number was used for another payload: 409 result_conflict.
ConflictingResult(h, d, c, token, p) ==
    /\ req[h].op = "device"
    /\ Unlocked(c)
    /\ BoundTo(commands[c], d)
    /\ TokenValid(commands[c], token)
    /\ \E r \in Stored(c, p.sequence) : r.payload # p
    /\ Finish(h)
    /\ UNCHANGED <<clock, commands, results, events>>

-----------------------------------------------------------------------------
(* POST /commands/{command_id}/cancel *)

CancelLock(h, c) ==
    /\ req[h] = Idle
    /\ Exists(commands[c])
    /\ Unlocked(c)
    /\ req' = [req EXCEPT ![h] = [op |-> "cancel", command |-> c]]
    /\ UNCHANGED <<clock, commands, results, events>>

CancelCommit(h) ==
    /\ req[h].op = "cancel"
    /\ LET c == req[h].command
       IN  /\ Cancellable(commands[c])
           /\ commands' = [commands EXCEPT ![c] = Cancelled(@)]
           /\ Emit(c, "cancelled")
    /\ Finish(h)
    /\ UNCHANGED <<clock, results>>

\* Any other end of a request: one of the refusals (404, 401, 403, 409), an
\* upstream error under validate_target, a lost connection or a restart of the
\* process.  The transaction rolls back and its locks go.
Abort(h) ==
    /\ req[h] # Idle
    /\ Finish(h)
    /\ UNCHANGED <<clock, commands, results, events>>

-----------------------------------------------------------------------------
Tick ==
    /\ clock < MaxTime
    /\ clock' = clock + 1
    /\ UNCHANGED <<commands, results, events, req>>

\* The tokens a device may present for a command: those issued, and a wrong one.
Presented(c) == 0..(IF Exists(commands[c]) THEN commands[c].attempts ELSE 0)

DeviceCall(h) ==
    \/ \E d \in Device, limit \in Limit : AcquireCommands(h, d, limit)
    \/ \E d \in Device, c \in Command : \E token \in Presented(c) :
          \/ MarkRunning(h, d, c, token)
          \/ \E p \in Payload :
                \/ \E ahead \in BOOLEAN : SubmitResult(h, d, c, token, p, ahead)
                \/ ReplayResult(h, d, c, token, p)
                \/ ConflictingResult(h, d, c, token, p)

AdminCall(h) ==
    \/ \E key \in Key, body \in Body : CreateLookup(h, key, body)
    \/ \E c \in Command : CreateInsert(h, c) \/ CancelLock(h, c)
    \/ CreateCollides(h)
    \/ CancelCommit(h)

Next ==
    \/ Tick
    \/ \E h \in Handler : DeviceRequest(h) \/ DeviceCall(h) \/ AdminCall(h) \/ Abort(h)

Spec == Init /\ [][Next]_vars

-----------------------------------------------------------------------------
(* Safety *)

Mine(c) == {r \in results : r.command = c}

\* Whatever handlers interleave, a command has a result on record exactly when a
\* device report ended it, then only one, and it says what the command's state
\* says: two results, of any sequence numbers, never both complete a command
\* and cancel never overtakes a stored result (submit_result, cancel).
OneOutcome ==
    \A c \in Command :
        /\ commands[c].state \in {"succeeded", "failed"} =>
              \E r \in results : Mine(c) = {r} /\ r.payload.status = commands[c].state
        /\ commands[c].state \notin {"succeeded", "failed"} => Mine(c) = {}

\* A result counts only if its request arrived before the lease ran out, and no
\* lease outlives the command: the reading of the clock a handler took before it
\* waited for the row lock never lets a late result in by more than that wait
\* (acquire_commands, _verify_lease).
ReportedInTime ==
    \A r \in results :
        /\ r.receivedAt <= commands[r.command].lease
        /\ commands[r.command].lease <= commands[r.command].expiresAt

\* A command is handed to a device at most once, so no execution is ever started
\* from two tokens; one that lapsed in the queue was never handed out at all, and
\* a token never exists without a lease to bound it (acquire_commands).
Granted(row) ==
    /\ row.attempts = 1
    /\ row.token = 1
    /\ row.lease \in Nat
    /\ row.lease <= row.expiresAt

NotGranted(row) == row.attempts = 0 /\ row.token = 0 /\ row.lease = NoLease

GrantedOnce ==
    \A c \in Command : Exists(commands[c]) =>
        /\ commands[c].state \in {"queued", "expired"} => NotGranted(commands[c])
        /\ commands[c].state \in {"dispatched", "running", "succeeded", "failed"}
              => Granted(commands[c])
        /\ commands[c].state = "cancelled" => Granted(commands[c]) \/ NotGranted(commands[c])

\* The outbox tells each command's story exactly: every transition once, in
\* order, none for a replayed request, and the last event is the row's state
\* (every caller of command_event).
StoryQueued == <<"created", "available">>
StoryDispatched == Append(StoryQueued, "dispatched")
StoryRunning == Append(StoryDispatched, "running")

Story(state) ==
    CASE state = "absent" -> {<<>>}
      [] state = "queued" -> {StoryQueued}
      [] state = "expired" -> {Append(StoryQueued, "expired")}
      [] state = "dispatched" -> {StoryDispatched}
      [] state = "running" -> {StoryRunning}
      [] state \in {"succeeded", "failed"} ->
            {Append(StoryDispatched, state), Append(StoryRunning, state)}
      [] state = "cancelled" ->
            {Append(s, "cancelled") : s \in {StoryQueued, StoryDispatched, StoryRunning}}

EventsTellTheStory == \A c \in Command : events[c] \in Story(commands[c].state)

\* Two requests for one idempotency key leave one command, also when both
\* looked the key up before either inserted (create_command,
\* uq_commands_tenant_idempotency).
OneCommandPerKey ==
    \A c1, c2 \in Command :
        Exists(commands[c1]) /\ Exists(commands[c2]) /\ commands[c1].key = commands[c2].key
            => c1 = c2

-----------------------------------------------------------------------------
(* The promise to its callers *)

phases == [c \in Command |-> PhaseOf(commands[c].state)]
reports == [c \in Command |-> {r.payload.status : r \in Mine(c)}]

Lifecycle == INSTANCE CommandLifecycle WITH phase <- phases, report <- reports

\* Requests, locks, clocks and tokens together implement the life of a job.
KeepsItsPromise == Lifecycle!LSpec

-----------------------------------------------------------------------------
(* Progress *)

\* Handlers run on, and a poll that waits for its answer gets one (WF): threads
\* are scheduled, transactions and HTTP calls have timeouts.
Fairness ==
    /\ \A h \in Handler :
          /\ WF_vars(\E c \in Command : CreateInsert(h, c))
          /\ WF_vars(CreateCollides(h))
          /\ WF_vars(CancelCommit(h))
          /\ WF_vars(req[h].op # "device" /\ Abort(h))
          /\ WF_vars(\E d \in Device, limit \in Limit : AcquireCommands(h, d, limit))
    /\ WF_vars(Tick)

FairSpec == Spec /\ Fairness

\* A poll of device d that is answered while no cancel holds the row of c.
PollReaches(d, c) ==
    /\ Unlocked(c)
    /\ \E h \in Handler, limit \in Limit :
          EffectiveLimit(limit) > 0 /\ AcquireCommands(h, d, limit)

\* A command does not stay in the queue for ever of a device whose polls go on
\* reaching the service: it is handed out, expired or cancelled, whatever else
\* is queued and whichever rows cancels hold meanwhile (acquire_commands).
QueueDrains ==
    \A c \in Command :
        (\A d \in Device : []<><<PollReaches(d, c)>>_vars)
            => (commands[c].state = "queued" ~> commands[c].state # "queued")
=============================================================================
