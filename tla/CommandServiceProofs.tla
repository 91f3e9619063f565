------------------------ MODULE CommandServiceProofs ------------------------
(***************************************************************************)
(* Theorems about CommandService, for every value of its constants.        *)
(***************************************************************************)
EXTENDS CommandService, TLAPS

-----------------------------------------------------------------------------
(* Rows *)

\* A stored row is a row of the table's type.
LEMMA ExistingRow ==
    ASSUME NEW row \in Row \cup {NoRow}, Exists(row)
    PROVE  row \in Row
BY DEF Row, NoRow, Exists, States, TerminalStates

\* What each function of command-service writes is a row of the table's type.
LEMMA NewRowType ==
    ASSUME NEW key \in Key, NEW body \in Body, NEW now \in Nat
    PROVE  NewRow(key, body, now) \in Row
<1>1. body.lifetime \in Lifetime
  BY DEF Body
<1>2. body.lifetime \in Nat
  BY <1>1, LifetimeAssumption, Zenon
<1>3. now + body.lifetime \in Nat
  BY <1>2
<1>4. QED  BY <1>3 DEF NewRow, Row, States, NoLease

\* A lease ends with the command's life at the latest.
LEMMA LeaseType ==
    ASSUME NEW row \in Row, NEW now \in Nat
    PROVE  LeaseUntil(row, now) \in Nat /\ LeaseUntil(row, now) <= row.expiresAt
BY LeaseAssumption DEF LeaseUntil, Row

\* What the handlers make of a row is a row.
LEMMA UpdatedRowType ==
    ASSUME NEW row \in Row, NEW now \in Nat, NEW status \in States
    PROVE  /\ Expired(row) \in Row
           /\ Dispatched(row, now) \in Row
           /\ Running(row) \in Row
           /\ Completed(row, status) \in Row
           /\ Cancelled(row) \in Row
<1>1. LeaseUntil(row, now) \in Nat /\ row.attempts + 1 \in Nat
  BY LeaseType DEF Row
<1>2. Dispatched(row, now) \in Row
  BY <1>1 DEF Dispatched, Row, States
<1>3. QED
  BY <1>2 DEF Expired, Running, Completed, Cancelled, Row, States, TerminalStates

-----------------------------------------------------------------------------
(* Types *)

\* The first state is well typed.
LEMMA InitType == Init => TypeOK
BY TimeAssumption DEF Init, TypeOK, Idle, Request, Result, NoRow

\* A handler that has started holds what its operation needs.
LEMMA RequestFields ==
    ASSUME TypeOK, NEW h \in Handler
    PROVE  /\ req[h].op = "device" => req[h].now \in Nat
           /\ req[h].op = "create" => /\ req[h].now \in Nat
                                      /\ req[h].key \in Key
                                      /\ req[h].body \in Body
           /\ req[h].op = "cancel" => req[h].command \in Command
BY DEF TypeOK, Request

\* A handler that ends leaves the requests well typed.
LEMMA FinishType == ASSUME TypeOK, NEW h \in Handler, Finish(h) PROVE req' \in [Handler -> Request]
BY DEF TypeOK, Finish, Idle, Request

\* An event that is written leaves the outbox well typed.
LEMMA EmitType ==
    ASSUME TypeOK, NEW c \in Command, NEW e \in EventType, Emit(c, e)
    PROVE  events' \in [Command -> Seq(EventType)]
BY DEF TypeOK, Emit

\* Every step keeps the types.
LEMMA NextType == TypeOK /\ [Next]_vars => TypeOK'
<1> SUFFICES ASSUME TypeOK, [Next]_vars PROVE TypeOK'
  OBVIOUS
<1>1. ASSUME NEW h \in Handler, NEW key \in Key, NEW body \in Body, CreateLookup(h, key, body)
      PROVE  TypeOK'
  BY <1>1, TimeAssumption DEF CreateLookup, TypeOK, Request, Idle
<1>2. ASSUME NEW h \in Handler, NEW c \in Command, CreateInsert(h, c)
      PROVE  TypeOK'
  <2>1. NewRow(req[h].key, req[h].body, req[h].now) \in Row
    BY <1>2, RequestFields, NewRowType DEF CreateInsert
  <2>2. <<"created", "available">> \in Seq(EventType)
    BY DEF EventType
  <2>3. QED  BY <1>2, <2>1, <2>2, FinishType DEF CreateInsert, TypeOK
<1>3. ASSUME NEW h \in Handler, CreateCollides(h)
      PROVE  TypeOK'
  BY <1>3, FinishType DEF CreateCollides, TypeOK
<1>4. ASSUME NEW h \in Handler, DeviceRequest(h)
      PROVE  TypeOK'
  BY <1>4, TimeAssumption DEF DeviceRequest, TypeOK, Request
<1>5. ASSUME NEW h \in Handler, NEW d \in Device, NEW limit \in Limit, AcquireCommands(h, d, limit)
      PROVE  TypeOK'
  <2>1. req[h].now \in Nat
    BY <1>5, RequestFields DEF AcquireCommands
  <2>2. ASSUME NEW c \in Command, commands[c].state = "queued"
        PROVE  Expired(commands[c]) \in Row /\ Dispatched(commands[c], req[h].now) \in Row
    <3>1. commands[c] \in Row
      BY <2>2, ExistingRow DEF TypeOK, Exists
    <3>2. QED  BY <2>1, <3>1, UpdatedRowType DEF States
  <2>3. commands' \in [Command -> Row \cup {NoRow}]
    BY <1>5, <2>2 DEF AcquireCommands, TypeOK, Expirable, Acquirable, OldestFirst
  <2>4. events' \in [Command -> Seq(EventType)]
    BY <1>5 DEF AcquireCommands, TypeOK, EventType, TerminalStates
  <2>5. QED  BY <1>5, <2>3, <2>4, FinishType DEF AcquireCommands, TypeOK
<1>6. ASSUME NEW h \in Handler, NEW d \in Device, NEW c \in Command, NEW token, MarkRunning(h, d, c, token)
      PROVE  TypeOK'
  <2>1. commands[c] \in Row
    BY <1>6, ExistingRow DEF MarkRunning, MayRun, BoundTo, TypeOK
  <2>2. Running(commands[c]) \in Row
    BY <2>1, UpdatedRowType DEF States
  <2>3. events' \in [Command -> Seq(EventType)]
    BY <1>6, EmitType DEF MarkRunning, TypeOK, EventType
  <2>4. QED  BY <1>6, <2>2, <2>3, FinishType DEF MarkRunning, TypeOK
<1>7. ASSUME NEW h \in Handler, NEW d \in Device, NEW c \in Command, NEW token,
             NEW p \in Payload, NEW ahead, SubmitResult(h, d, c, token, p, ahead)
      PROVE  TypeOK'
  <2>1. commands[c] \in Row
    BY <1>7, ExistingRow DEF SubmitResult, BoundTo, TypeOK
  <2>2. p.status \in States /\ p.status \in EventType
    BY DEF Payload, States, TerminalStates, EventType
  <2>3. Completed(commands[c], p.status) \in Row
    BY <2>1, <2>2, UpdatedRowType
  <2>4. events' \in [Command -> Seq(EventType)]
    BY <1>7, <2>2, EmitType DEF SubmitResult
  <2>5. results' \subseteq Result
    BY <1>7, RequestFields DEF SubmitResult, TypeOK, Result
  <2>6. QED  BY <1>7, <2>3, <2>4, <2>5, FinishType DEF SubmitResult, TypeOK
<1>8. ASSUME NEW h \in Handler, NEW d \in Device, NEW c \in Command, NEW token, NEW p \in Payload,
             ReplayResult(h, d, c, token, p) \/ ConflictingResult(h, d, c, token, p)
      PROVE  TypeOK'
  BY <1>8, FinishType DEF ReplayResult, ConflictingResult, TypeOK
<1>9. ASSUME NEW h \in Handler, NEW c \in Command, CancelLock(h, c)
      PROVE  TypeOK'
  BY <1>9 DEF CancelLock, TypeOK, Request
<1>10. ASSUME NEW h \in Handler, CancelCommit(h)
       PROVE  TypeOK'
  <2>1. req[h].command \in Command
    BY <1>10, RequestFields DEF CancelCommit
  <2>2. commands[req[h].command] \in Row
    BY <1>10, <2>1, ExistingRow DEF CancelCommit, Cancellable, TypeOK
  <2>3. Cancelled(commands[req[h].command]) \in Row
    BY <2>2, UpdatedRowType DEF States
  <2>4. events' \in [Command -> Seq(EventType)]
    BY <1>10, <2>1, EmitType DEF CancelCommit, EventType, TerminalStates
  <2>5. QED  BY <1>10, <2>3, <2>4, FinishType DEF CancelCommit, TypeOK
<1>11. ASSUME NEW h \in Handler, Abort(h)
       PROVE  TypeOK'
  BY <1>11, FinishType DEF Abort, TypeOK
<1>12. CASE Tick
  BY <1>12, TimeAssumption DEF Tick, TypeOK
<1>13. CASE UNCHANGED vars
  BY <1>13 DEF vars, TypeOK
<1>14. QED
  BY <1>1, <1>2, <1>3, <1>4, <1>5, <1>6, <1>7, <1>8, <1>9, <1>10, <1>11, <1>12, <1>13
     DEF Next, DeviceCall, AdminCall

\* In every reachable state the tables and the handlers hold well-formed data.
THEOREM TypeCorrect == Spec => []TypeOK
<1>1. QED  BY InitType, NextType, PTL DEF Spec

-----------------------------------------------------------------------------
(* What a step does to one command *)

Untouched(c) ==
    commands'[c] = commands[c] /\ events'[c] = events[c] /\ Mine(c)' = Mine(c)

\* The row of c becomes `row`, announced by the event `e`, no result touched.
Becomes(c, row, e) ==
    /\ commands'[c] = row
    /\ events'[c] = Append(events[c], e)
    /\ Mine(c)' = Mine(c)

Born(c) ==
    /\ ~Exists(commands[c])
    /\ \E key \in Key, body \in Body, now \in Nat : commands'[c] = NewRow(key, body, now)
    /\ events'[c] = StoryQueued
    /\ Mine(c)' = Mine(c)

Lapses(c) ==
    commands[c].state = "queued" /\ Becomes(c, Expired(commands[c]), "expired")

HandedOut(c) ==
    /\ commands[c].state = "queued"
    /\ \E now \in Nat : Becomes(c, Dispatched(commands[c], now), "dispatched")

Starts(c) ==
    commands[c].state = "dispatched" /\ Becomes(c, Running(commands[c]), "running")

Completes(c) ==
    /\ commands[c].state \notin TerminalStates
    /\ Exists(commands[c])
    /\ commands[c].lease # NoLease
    /\ \E r \in Result :
          /\ r.command = c
          /\ r.payload.status \in {"succeeded", "failed"}
          /\ r.receivedAt <= commands[c].lease
          /\ commands'[c] = Completed(commands[c], r.payload.status)
          /\ events'[c] = Append(events[c], r.payload.status)
          /\ Mine(c)' = Mine(c) \cup {r}
          /\ r \in results'

Withdrawn(c) ==
    /\ Exists(commands[c])
    /\ commands[c].state \notin TerminalStates
    /\ Becomes(c, Cancelled(commands[c]), "cancelled")

CommandStep(c) ==
    Untouched(c) \/ Born(c) \/ Lapses(c) \/ HandedOut(c) \/ Starts(c) \/ Completes(c) \/ Withdrawn(c)

\* Every step of the service does to each command one of these things.
LEMMA StepOfEachCommand ==
    ASSUME TypeOK, [Next]_vars, NEW c \in Command
    PROVE  CommandStep(c)
<1> USE DEF CommandStep
<1>1. ASSUME UNCHANGED <<commands, results, events>>
      PROVE  Untouched(c)
  BY <1>1 DEF Untouched, Mine
<1>2. ASSUME NEW h \in Handler, NEW k \in Command, CreateInsert(h, k)
      PROVE  CommandStep(c)
  <2>1. CASE k = c
    BY <1>2, <2>1, RequestFields DEF CreateInsert, TypeOK, Born, StoryQueued, Mine
  <2>2. CASE k # c
    BY <1>2, <2>2 DEF CreateInsert, TypeOK, Untouched, Mine
  <2>3. QED  BY <2>1, <2>2
<1>3. ASSUME NEW h \in Handler, NEW d \in Device, NEW limit \in Limit, AcquireCommands(h, d, limit)
      PROVE  CommandStep(c)
  <2>1. req[h].now \in Nat
    BY <1>3, RequestFields DEF AcquireCommands
  <2>2. results' = results
    BY <1>3 DEF AcquireCommands
  <2>3. \/ commands'[c] = commands[c] /\ events'[c] = events[c]
        \/ /\ commands[c].state = "queued"
           /\ commands'[c] = Expired(commands[c])
           /\ events'[c] = Append(events[c], "expired")
        \/ /\ commands[c].state = "queued"
           /\ commands'[c] = Dispatched(commands[c], req[h].now)
           /\ events'[c] = Append(events[c], "dispatched")
    BY <1>3 DEF AcquireCommands, Expirable, Acquirable, OldestFirst
  <2>4. QED  BY <2>1, <2>2, <2>3 DEF Untouched, Lapses, HandedOut, Becomes, Mine
<1>4. ASSUME NEW h \in Handler, NEW d \in Device, NEW k \in Command, NEW token, MarkRunning(h, d, k, token)
      PROVE  CommandStep(c)
  <2>1. commands[k] \in Row
    BY <1>4, ExistingRow DEF MarkRunning, MayRun, BoundTo, TypeOK
  <2>2. commands[k].state = "running" => Running(commands[k]) = commands[k]
    BY <2>1 DEF Running, Row
  <2>3. CASE k = c /\ commands[k].state = "dispatched"
    BY <1>4, <2>3 DEF MarkRunning, Emit, TypeOK, Starts, Becomes, Mine
  <2>4. CASE k # c \/ commands[k].state # "dispatched"
    BY <1>4, <2>2, <2>4 DEF MarkRunning, MayRun, Emit, TypeOK, Untouched, Mine
  <2>5. QED  BY <2>3, <2>4
<1>5. ASSUME NEW h \in Handler, NEW d \in Device, NEW k \in Command, NEW token,
             NEW p \in Payload, NEW ahead, SubmitResult(h, d, k, token, p, ahead)
      PROVE  CommandStep(c)
  <2> DEFINE r == [command |-> k, payload |-> p, receivedAt |-> req[h].now]
  <2>1. r \in Result /\ r.payload.status \in {"succeeded", "failed"}
    BY <1>5, RequestFields DEF SubmitResult, Result, Payload
  <2>2. results' = results \cup {r}
    BY <1>5 DEF SubmitResult
  <2>3. CASE k = c
    <3>1. Mine(c)' = Mine(c) \cup {r}
      BY <2>2, <2>3 DEF Mine
    <3>2. /\ commands'[c] = Completed(commands[c], r.payload.status)
          /\ events'[c] = Append(events[c], r.payload.status)
          /\ commands[c].state \notin TerminalStates
          /\ Exists(commands[c])
          /\ commands[c].lease # NoLease
          /\ r.receivedAt <= commands[c].lease
      BY <1>5, <2>3 DEF SubmitResult, Emit, TypeOK, MayComplete, LeaseLive, BoundTo
    <3>3. QED  BY <2>1, <2>2, <2>3, <3>1, <3>2 DEF Completes
  <2>4. CASE k # c
    <3>1. Mine(c)' = Mine(c)
      BY <2>2, <2>4 DEF Mine
    <3>2. QED  BY <1>5, <2>4, <3>1 DEF SubmitResult, Emit, TypeOK, Untouched
  <2>5. QED  BY <2>3, <2>4
<1>6. ASSUME NEW h \in Handler, CancelCommit(h)
      PROVE  CommandStep(c)
  <2>1. req[h].command \in Command
    BY <1>6, RequestFields DEF CancelCommit
  <2>2. CASE req[h].command = c
    BY <1>6, <2>2 DEF CancelCommit, Cancellable, Emit, TypeOK, Withdrawn, Becomes, Mine
  <2>3. CASE req[h].command # c
    BY <1>6, <2>1, <2>3 DEF CancelCommit, Emit, TypeOK, Untouched, Mine
  <2>4. QED  BY <2>2, <2>3
<1>7. QED
  BY <1>1, <1>2, <1>3, <1>4, <1>5, <1>6
     DEF Next, DeviceCall, AdminCall, CreateLookup, CreateCollides, DeviceRequest, ReplayResult,
         ConflictingResult, CancelLock, Abort, Tick, vars

-----------------------------------------------------------------------------
(* Safety *)

\* The inductive invariant.  OneOutcome is needed for ReportedInTime: a lease is
\* only ever written to a row that has no result yet.
IInv ==
    /\ TypeOK
    /\ GrantedOnce
    /\ OneOutcome
    /\ ReportedInTime
    /\ EventsTellTheStory
    /\ OneCommandPerKey

\* The invariant holds at first.
LEMMA InitInvariant == Init => IInv
<1> SUFFICES ASSUME Init PROVE IInv
  OBVIOUS
<1>1. TypeOK
  BY InitType
<1>2. GrantedOnce /\ OneCommandPerKey
  BY DEF Init, GrantedOnce, OneCommandPerKey, Exists, NoRow
<1>3. OneOutcome /\ ReportedInTime
  BY DEF Init, OneOutcome, ReportedInTime, Mine, NoRow
<1>4. EventsTellTheStory
  BY DEF Init, EventsTellTheStory, Story, NoRow
<1>5. QED  BY <1>1, <1>2, <1>3, <1>4 DEF IInv

\* No step grants a command twice.
LEMMA GrantedOnceStep == IInv /\ [Next]_vars => GrantedOnce'
<1> SUFFICES ASSUME IInv, [Next]_vars, NEW c \in Command, Exists(commands'[c])
             PROVE  /\ commands'[c].state \in {"queued", "expired"} => NotGranted(commands'[c])
                    /\ commands'[c].state \in {"dispatched", "running", "succeeded", "failed"}
                          => Granted(commands'[c])
                    /\ commands'[c].state = "cancelled"
                          => Granted(commands'[c]) \/ NotGranted(commands'[c])
  BY DEF GrantedOnce
<1>1. Exists(commands[c]) => commands[c] \in Row
  BY ExistingRow DEF IInv, TypeOK
<1>2. CommandStep(c)
  BY StepOfEachCommand DEF IInv
<1>3. CASE Untouched(c)
  BY <1>3 DEF IInv, GrantedOnce, Untouched
<1>4. CASE Born(c)
  BY <1>4 DEF Born, NewRow, NotGranted
<1>5. CASE Lapses(c)
  BY <1>1, <1>5 DEF Lapses, Becomes, Expired, IInv, GrantedOnce, NotGranted, Exists, Row
<1>6. CASE HandedOut(c)
  <2>1. commands[c] \in Row /\ NotGranted(commands[c])
    BY <1>1, <1>6 DEF HandedOut, IInv, GrantedOnce, Exists
  <2>2. PICK now \in Nat : commands'[c] = Dispatched(commands[c], now)
    BY <1>6 DEF HandedOut, Becomes
  <2>3. LeaseUntil(commands[c], now) \in Nat /\ LeaseUntil(commands[c], now) <= commands[c].expiresAt
    BY <2>1, LeaseType
  <2>4. Granted(commands'[c]) /\ commands'[c].state = "dispatched"
    BY <2>1, <2>2, <2>3 DEF Dispatched, NotGranted, Granted, Row
  <2>5. QED  BY <2>4
<1>7. CASE Starts(c)
  BY <1>1, <1>7 DEF Starts, Becomes, Running, IInv, GrantedOnce, Granted, Exists, Row
<1>8. CASE Completes(c)
  <2>1. commands[c] \in Row /\ Granted(commands[c])
    BY <1>1, <1>8
       DEF Completes, IInv, GrantedOnce, NotGranted, Row, States, TerminalStates
  <2>2. PICK status \in {"succeeded", "failed"} : commands'[c] = Completed(commands[c], status)
    BY <1>8 DEF Completes
  <2>3. QED  BY <2>1, <2>2 DEF Completed, Granted, Row
<1>9. CASE Withdrawn(c)
  <2>1. commands[c] \in Row /\ (Granted(commands[c]) \/ NotGranted(commands[c]))
    BY <1>1, <1>9 DEF Withdrawn, IInv, GrantedOnce, Row, States, TerminalStates
  <2>2. commands'[c] = Cancelled(commands[c])
    BY <1>9 DEF Withdrawn, Becomes
  <2>3. QED  BY <2>1, <2>2 DEF Cancelled, Granted, NotGranted, Row
<1>10. QED
  BY <1>2, <1>3, <1>4, <1>5, <1>6, <1>7, <1>8, <1>9 DEF CommandStep

\* No step gives a command a second outcome or one that disagrees with its state.
LEMMA OneOutcomeStep == IInv /\ [Next]_vars => OneOutcome'
<1> SUFFICES ASSUME IInv, [Next]_vars, NEW c \in Command
             PROVE  /\ commands'[c].state \in {"succeeded", "failed"} =>
                          \E r \in results' : /\ Mine(c)' = {r}
                                             /\ r.payload.status = commands'[c].state
                    /\ commands'[c].state \notin {"succeeded", "failed"} => Mine(c)' = {}
  BY DEF OneOutcome
<1>1. Exists(commands[c]) => commands[c] \in Row
  BY ExistingRow DEF IInv, TypeOK
<1>2. CommandStep(c)
  BY StepOfEachCommand DEF IInv
<1>3. commands[c].state \notin {"succeeded", "failed"} => Mine(c) = {}
  BY DEF IInv, OneOutcome
<1>4. CASE Untouched(c)
  <2>1. \A r : Mine(c)' = {r} => r \in results'
    BY DEF Mine
  <2>2. QED  BY <1>4, <2>1 DEF IInv, OneOutcome, Untouched
<1>5. CASE Born(c)
  BY <1>3, <1>5 DEF Born, NewRow, Exists
<1>6. CASE Lapses(c) \/ HandedOut(c) \/ Starts(c)
  <2>1. commands[c] \in Row
    BY <1>1, <1>6 DEF Lapses, HandedOut, Starts, Exists
  <2>2. commands'[c].state \in {"expired", "dispatched", "running"}
    BY <1>6, <2>1
       DEF Lapses, HandedOut, Starts, Becomes, Expired, Dispatched, Running, Row
  <2>3. QED  BY <1>3, <1>6, <2>2 DEF Lapses, HandedOut, Starts, Becomes
<1>7. CASE Completes(c)
  <2>1. commands[c] \in Row /\ Mine(c) = {}
    BY <1>1, <1>3, <1>7 DEF Completes, TerminalStates
  <2>2. PICK r \in results' : /\ r.payload.status \in {"succeeded", "failed"}
                              /\ commands'[c] = Completed(commands[c], r.payload.status)
                              /\ Mine(c)' = Mine(c) \cup {r}
    BY <1>7 DEF Completes
  <2>3. commands'[c].state = r.payload.status
    BY <2>1, <2>2 DEF Completed, Row
  <2>4. QED  BY <2>1, <2>2, <2>3
<1>8. CASE Withdrawn(c)
  <2>1. commands'[c].state = "cancelled"
    BY <1>1, <1>8 DEF Withdrawn, Becomes, Cancelled, Row
  <2>2. QED  BY <1>3, <1>8, <2>1 DEF Withdrawn, Becomes, TerminalStates
<1>9. QED
  BY <1>2, <1>4, <1>5, <1>6, <1>7, <1>8 DEF CommandStep

\* No step stores a result that came after the lease.
LEMMA ReportedInTimeStep == IInv /\ [Next]_vars => ReportedInTime'
<1> SUFFICES ASSUME IInv, [Next]_vars, NEW r \in results'
             PROVE  /\ r.receivedAt <= commands'[r.command].lease
                    /\ commands'[r.command].lease <= commands'[r.command].expiresAt
  BY DEF ReportedInTime
<1> DEFINE c == r.command
<1>1. c \in Command /\ r \in Mine(c)'
  BY NextType DEF IInv, TypeOK, Result, Mine
<1>2. Exists(commands[c]) => commands[c] \in Row
  BY <1>1, ExistingRow DEF IInv, TypeOK
<1>3. CommandStep(c)
  BY <1>1, StepOfEachCommand DEF IInv
<1>4. commands[c].state \notin {"succeeded", "failed"} => Mine(c) = {}
  BY <1>1 DEF IInv, OneOutcome
<1>5. CASE Untouched(c)
  <2>1. r \in results
    BY <1>1, <1>5 DEF Untouched, Mine
  <2>2. QED  BY <1>5, <2>1 DEF IInv, ReportedInTime, Untouched
<1>6. CASE Completes(c)
  <2>1. commands[c] \in Row /\ Granted(commands[c]) /\ Mine(c) = {}
    BY <1>1, <1>2, <1>4, <1>6
       DEF Completes, IInv, GrantedOnce, NotGranted, Row, States, TerminalStates
  <2>2. PICK s \in Result : /\ Mine(c)' = Mine(c) \cup {s}
                            /\ s.receivedAt <= commands[c].lease
                            /\ commands'[c] = Completed(commands[c], s.payload.status)
    BY <1>6 DEF Completes
  <2>3. r = s
    BY <1>1, <2>1, <2>2
  <2>4. /\ commands'[c].lease = commands[c].lease
        /\ commands'[c].expiresAt = commands[c].expiresAt
    BY <2>1, <2>2 DEF Completed, Row
  <2>5. QED  BY <2>1, <2>2, <2>3, <2>4 DEF Granted
<1>7. CASE Born(c) \/ Lapses(c) \/ HandedOut(c) \/ Starts(c) \/ Withdrawn(c)
  <2>1. Mine(c)' = Mine(c) /\ commands[c].state \notin {"succeeded", "failed"}
    BY <1>7 DEF Born, Lapses, HandedOut, Starts, Withdrawn, Becomes, Exists, TerminalStates
  <2>2. QED  BY <1>1, <1>4, <2>1
<1>8. QED
  BY <1>3, <1>5, <1>6, <1>7 DEF CommandStep

\* Every step writes the event of the transition it makes, and no other.
LEMMA EventsStep == IInv /\ [Next]_vars => EventsTellTheStory'
<1> SUFFICES ASSUME IInv, [Next]_vars, NEW c \in Command
             PROVE  events'[c] \in Story(commands'[c].state)
  BY DEF EventsTellTheStory
<1>1. Exists(commands[c]) => commands[c] \in Row
  BY ExistingRow DEF IInv, TypeOK
<1>2. CommandStep(c)
  BY StepOfEachCommand DEF IInv
<1>3. events[c] \in Story(commands[c].state)
  BY DEF IInv, EventsTellTheStory
<1>4. CASE Untouched(c)
  BY <1>3, <1>4 DEF Untouched
<1>5. CASE Born(c)
  BY <1>5 DEF Born, NewRow, Story
<1>6. CASE Lapses(c)
  <2>1. commands'[c].state = "expired" /\ events[c] = StoryQueued
    BY <1>1, <1>3, <1>6 DEF Lapses, Becomes, Expired, Row, Exists, Story
  <2>2. QED  BY <1>6, <2>1 DEF Lapses, Becomes, Story
<1>7. CASE HandedOut(c)
  <2>1. commands'[c].state = "dispatched" /\ events[c] = StoryQueued
    BY <1>1, <1>3, <1>7 DEF HandedOut, Becomes, Dispatched, Row, Exists, Story
  <2>2. QED  BY <1>7, <2>1 DEF HandedOut, Becomes, Story, StoryDispatched
<1>8. CASE Starts(c)
  <2>1. commands'[c].state = "running" /\ events[c] = StoryDispatched
    BY <1>1, <1>3, <1>8 DEF Starts, Becomes, Running, Row, Exists, Story
  <2>2. QED  BY <1>8, <2>1 DEF Starts, Becomes, Story, StoryRunning
<1>9. CASE Completes(c)
  <2>1. commands[c] \in Row /\ commands[c].state \in {"dispatched", "running"}
    BY <1>1, <1>9 DEF Completes, IInv, GrantedOnce, NotGranted, Row, States, TerminalStates
  <2>2. PICK status \in {"succeeded", "failed"} :
              commands'[c] = Completed(commands[c], status) /\ events'[c] = Append(events[c], status)
    BY <1>9 DEF Completes
  <2>3. commands'[c].state = status
    BY <2>1, <2>2 DEF Completed, Row
  <2>4. events[c] \in {StoryDispatched, StoryRunning}
    BY <1>3, <2>1 DEF Story
  <2>5. events'[c] \in {Append(StoryDispatched, status), Append(StoryRunning, status)}
    BY <2>2, <2>4
  <2>6. QED  BY <2>2, <2>3, <2>5 DEF Story
<1>10. CASE Withdrawn(c)
  <2>1. commands[c] \in Row /\ commands[c].state \in {"queued", "dispatched", "running"}
    BY <1>1, <1>10 DEF Withdrawn, Row, States, TerminalStates
  <2>2. commands'[c].state = "cancelled" /\ events'[c] = Append(events[c], "cancelled")
    BY <1>10, <2>1 DEF Withdrawn, Becomes, Cancelled, Row
  <2>3. events[c] \in {StoryQueued, StoryDispatched, StoryRunning}
    BY <1>3, <2>1 DEF Story
  <2>4. QED  BY <2>2, <2>3 DEF Story
<1>11. QED
  BY <1>2, <1>4, <1>5, <1>6, <1>7, <1>8, <1>9, <1>10 DEF CommandStep

\* Only CreateInsert brings a command into being, and no step changes a key.
LEMMA KeysStay ==
    ASSUME TypeOK, [Next]_vars, NEW c \in Command,
           \A h \in Handler : ~CreateInsert(h, c), Exists(commands'[c])
    PROVE  Exists(commands[c]) /\ commands'[c].key = commands[c].key
<1>1. CASE Exists(commands[c])
  <2>1. commands[c] \in Row
    BY <1>1, ExistingRow DEF TypeOK
  <2>2. CommandStep(c)
    BY StepOfEachCommand
  <2>3. QED
    BY <1>1, <2>1, <2>2
       DEF CommandStep, Untouched, Born, Lapses, HandedOut, Starts, Completes, Withdrawn, Becomes,
           Expired, Dispatched, Running, Completed, Cancelled, Row
<1>2. CASE ~Exists(commands[c])
  <2>1. ASSUME NEW h \in Handler, NEW k \in Command, CreateInsert(h, k)
        PROVE  commands'[c] = commands[c]
    BY <2>1 DEF CreateInsert, TypeOK
  <2>2. ASSUME NEW h \in Handler, NEW d \in Device, NEW limit \in Limit, AcquireCommands(h, d, limit)
        PROVE  commands'[c] = commands[c]
    BY <1>2, <2>2 DEF AcquireCommands, OldestFirst, Expirable, Acquirable, Exists
  <2>3. ASSUME NEW h \in Handler, NEW d \in Device, NEW k \in Command, NEW token,
               MarkRunning(h, d, k, token)
        PROVE  commands'[c] = commands[c]
    BY <1>2, <2>3 DEF MarkRunning, MayRun, BoundTo, TypeOK
  <2>4. ASSUME NEW h \in Handler, NEW d \in Device, NEW k \in Command, NEW token,
               NEW p \in Payload, NEW ahead, SubmitResult(h, d, k, token, p, ahead)
        PROVE  commands'[c] = commands[c]
    BY <1>2, <2>4 DEF SubmitResult, BoundTo, TypeOK
  <2>5. ASSUME NEW h \in Handler, CancelCommit(h)
        PROVE  commands'[c] = commands[c]
    BY <1>2, <2>5, RequestFields DEF CancelCommit, Cancellable, TypeOK
  <2>6. commands'[c] = commands[c]
    BY <2>1, <2>2, <2>3, <2>4, <2>5
       DEF Next, DeviceCall, AdminCall, CreateLookup, CreateCollides, DeviceRequest, ReplayResult,
           ConflictingResult, CancelLock, Abort, Tick, vars
  <2>7. QED  BY <1>2, <2>6
<1>3. QED  BY <1>1, <1>2

\* No step creates a second command with an idempotency key.
LEMMA KeysStep == IInv /\ [Next]_vars => OneCommandPerKey'
<1> SUFFICES ASSUME IInv, [Next]_vars, NEW c1 \in Command, NEW c2 \in Command,
                    Exists(commands'[c1]), Exists(commands'[c2]),
                    commands'[c1].key = commands'[c2].key
             PROVE  c1 = c2
  BY DEF OneCommandPerKey
<1>1. ASSUME NEW h \in Handler, NEW k \in Command, CreateInsert(h, k),
             NEW c \in Command, c # k, Exists(commands'[c])
      PROVE  commands'[c].key # commands'[k].key
  <2>1. commands'[k].key = req[h].key
    BY <1>1 DEF CreateInsert, IInv, TypeOK, NewRow
  <2>2. commands'[c] = commands[c]
    BY <1>1 DEF CreateInsert, IInv, TypeOK
  <2>3. QED  BY <1>1, <2>1, <2>2 DEF CreateInsert, WithKey
<1>2. CASE \A h \in Handler : ~CreateInsert(h, c1) /\ ~CreateInsert(h, c2)
  BY <1>2, KeysStay DEF IInv, OneCommandPerKey
<1>3. QED  BY <1>1, <1>2

\* Every step keeps the invariant.
LEMMA NextInvariant == IInv /\ [Next]_vars => IInv'
BY NextType, GrantedOnceStep, OneOutcomeStep, ReportedInTimeStep, EventsStep, KeysStep DEF IInv

\* The invariant holds always.
LEMMA InvariantHolds == Spec => []IInv
BY InitInvariant, NextInvariant, PTL DEF Spec

\* No command is handed out twice, and tokens, leases and attempts go together.
THEOREM GrantsAreUnique == Spec => []GrantedOnce
<1>1. IInv => GrantedOnce
  BY DEF IInv
<1>2. QED  BY <1>1, InvariantHolds, PTL

\* A command's results and its state always agree.
THEOREM OutcomesAgree == Spec => []OneOutcome
<1>1. IInv => OneOutcome
  BY DEF IInv
<1>2. QED  BY <1>1, InvariantHolds, PTL

\* No result whose request arrived after the lease, or the command, ended.
THEOREM ResultsAreInTime == Spec => []ReportedInTime
<1>1. IInv => ReportedInTime
  BY DEF IInv
<1>2. QED  BY <1>1, InvariantHolds, PTL

\* The outbox holds exactly one event for every transition a command made.
THEOREM OutboxIsExact == Spec => []EventsTellTheStory
<1>1. IInv => EventsTellTheStory
  BY DEF IInv
<1>2. QED  BY <1>1, InvariantHolds, PTL

\* One command for each idempotency key.
THEOREM KeysAreUnique == Spec => []OneCommandPerKey
<1>1. IInv => OneCommandPerKey
  BY DEF IInv
<1>2. QED  BY <1>1, InvariantHolds, PTL

-----------------------------------------------------------------------------
(* Refinement *)

\* Every step but a poll touches one command at most.
LEMMA OneTouched ==
    ASSUME TypeOK, [Next]_vars,
           ~ \E h \in Handler, d \in Device, limit \in Limit : AcquireCommands(h, d, limit)
    PROVE  \/ \A c \in Command : Untouched(c)
           \/ \E k \in Command : \A c \in Command \ {k} : Untouched(c)
<1>1. ASSUME UNCHANGED <<commands, results, events>>, NEW c \in Command
      PROVE  Untouched(c)
  BY <1>1 DEF Untouched, Mine
<1>2. ASSUME NEW h \in Handler, NEW k \in Command, CreateInsert(h, k), NEW c \in Command \ {k}
      PROVE  Untouched(c)
  BY <1>2 DEF CreateInsert, TypeOK, Untouched, Mine
<1>3. ASSUME NEW h \in Handler, NEW d \in Device, NEW k \in Command, NEW token,
             MarkRunning(h, d, k, token), NEW c \in Command \ {k}
      PROVE  Untouched(c)
  BY <1>3 DEF MarkRunning, Emit, TypeOK, Untouched, Mine
<1>4. ASSUME NEW h \in Handler, NEW d \in Device, NEW k \in Command, NEW token,
             NEW p \in Payload, NEW ahead, SubmitResult(h, d, k, token, p, ahead),
             NEW c \in Command \ {k}
      PROVE  Untouched(c)
  BY <1>4 DEF SubmitResult, Emit, TypeOK, Untouched, Mine
<1>5. ASSUME NEW h \in Handler, CancelCommit(h), NEW c \in Command \ {req[h].command}
      PROVE  Untouched(c)
  BY <1>5, RequestFields DEF CancelCommit, Emit, TypeOK, Untouched, Mine
<1>6. \A h \in Handler : CancelCommit(h) => req[h].command \in Command
  BY RequestFields DEF CancelCommit
<1>7. QED
  BY <1>1, <1>2, <1>3, <1>4, <1>5, <1>6
     DEF Next, DeviceCall, AdminCall, CreateLookup, CreateCollides, DeviceRequest, ReplayResult,
         ConflictingResult, CancelLock, Abort, Tick, vars

\* The abstract job in terms of the concrete one.
LEMMA Mapping ==
    ASSUME NEW c \in Command
    PROVE  /\ phases[c] = PhaseOf(commands[c].state)
           /\ reports[c] = {r.payload.status : r \in Mine(c)}
           /\ phases'[c] = PhaseOf(commands'[c].state)
           /\ reports'[c] = {r.payload.status : r \in Mine(c)'}
BY DEF phases, reports

\* A command that a step leaves alone stands still in the abstract lifecycle.
LEMMA UntouchedStutters ==
    ASSUME NEW c \in Command, Untouched(c)
    PROVE  phases'[c] = phases[c] /\ reports'[c] = reports[c]
BY Mapping DEF Untouched

\* A poll expires and grants as the abstract lifecycle allows.
LEMMA PollRefines ==
    ASSUME IInv, NEW h \in Handler, NEW d \in Device, NEW limit \in Limit,
           AcquireCommands(h, d, limit)
    PROVE  Lifecycle!LNext
<1> DEFINE offered == {c \in Command : HandedOut(c)}
           lapsed == {c \in Command : Lapses(c)}
<1>1. ASSUME NEW c \in Command
      PROVE  Untouched(c) \/ c \in offered \/ c \in lapsed
  <2>1. req[h].now \in Nat
    BY RequestFields DEF AcquireCommands, IInv
  <2>2. Mine(c)' = Mine(c)
    BY DEF AcquireCommands, Mine
  <2>3. QED
    BY <2>1, <2>2
       DEF AcquireCommands, Expirable, Acquirable, OldestFirst, Untouched, Lapses, HandedOut, Becomes
<1>2. ASSUME NEW c \in offered \cup lapsed
      PROVE  phases[c] = "waiting"
  BY Mapping DEF HandedOut, Lapses, PhaseOf
<1>3. ASSUME NEW c \in Command
      PROVE  /\ phases'[c] = IF c \in lapsed THEN "lapsed"
                             ELSE IF c \in offered THEN "offered" ELSE phases[c]
             /\ reports'[c] = reports[c]
  <2>1. commands[c].state = "queued" => commands[c] \in Row
    BY ExistingRow DEF IInv, TypeOK, Exists
  <2>2. CASE c \in lapsed
    <3>1. commands'[c].state = "expired"
      BY <2>1, <2>2 DEF Lapses, Becomes, Expired, Row
    <3>2. Mine(c)' = Mine(c)
      BY <2>2 DEF Lapses, Becomes
    <3>3. QED  BY <2>2, <3>1, <3>2, Mapping DEF PhaseOf
  <2>3. CASE c \in offered \ lapsed
    <3>1. commands'[c].state = "dispatched"
      BY <2>1, <2>3 DEF HandedOut, Becomes, Dispatched, Row
    <3>2. Mine(c)' = Mine(c)
      BY <2>3 DEF HandedOut, Becomes
    <3>3. QED  BY <2>3, <3>1, <3>2, Mapping DEF PhaseOf
  <2>4. CASE c \notin offered \cup lapsed
    BY <1>1, <2>4, UntouchedStutters
  <2>5. QED  BY <2>2, <2>3, <2>4
<1>4. phases' = [c \in Command |-> IF c \in lapsed THEN "lapsed"
                                  ELSE IF c \in offered THEN "offered" ELSE phases[c]]
  BY <1>3 DEF phases
<1>5. reports' = reports
  BY <1>3 DEF reports
<1>6. Lifecycle!Poll(offered, lapsed)
  BY <1>2, <1>4, <1>5 DEF Lifecycle!Poll
<1>7. offered \in SUBSET Command /\ lapsed \in SUBSET Command
  OBVIOUS
<1>8. QED  BY <1>6, <1>7 DEF Lifecycle!LNext

\* A step on one command is one of the abstract lifecycle.
LEMMA CommandRefines ==
    ASSUME IInv, [Next]_vars, NEW k \in Command, \A c \in Command \ {k} : Untouched(c)
    PROVE  [Lifecycle!LNext]_(Lifecycle!lifecycle)
<1>1. Exists(commands[k]) => commands[k] \in Row
  BY ExistingRow DEF IInv, TypeOK
<1>2. CommandStep(k)
  BY StepOfEachCommand DEF IInv
<1>3. \A c \in Command \ {k} : phases'[c] = phases[c] /\ reports'[c] = reports[c]
  BY UntouchedStutters
<1>4. /\ phases' = [phases EXCEPT ![k] = PhaseOf(commands'[k].state)]
      /\ reports' = [reports EXCEPT ![k] = {r.payload.status : r \in Mine(k)'}]
  <2>1. \A c \in Command : phases'[c] = [phases EXCEPT ![k] = PhaseOf(commands'[k].state)][c]
    BY <1>3, Mapping DEF phases
  <2>2. \A c \in Command :
           reports'[c] = [reports EXCEPT ![k] = {r.payload.status : r \in Mine(k)'}][c]
    BY <1>3, Mapping DEF reports
  <2>3. QED  BY <2>1, <2>2 DEF phases, reports
<1>5. Mine(k)' = Mine(k) => reports' = reports
  BY <1>4, Mapping DEF reports
<1>6. CASE Untouched(k) \/ Starts(k)
  <2>1. PhaseOf(commands'[k].state) = phases[k] /\ Mine(k)' = Mine(k)
    BY <1>1, <1>6, Mapping DEF Untouched, Starts, Becomes, Running, Row, Exists, PhaseOf
  <2>2. phases' = phases
    BY <1>4, <2>1 DEF phases
  <2>3. QED  BY <1>5, <2>1, <2>2 DEF Lifecycle!lifecycle
<1>7. CASE Born(k)
  <2>1. commands'[k].state = "queued" /\ phases[k] = "unborn" /\ Mine(k)' = Mine(k)
    BY <1>7, Mapping DEF Born, NewRow, Exists, PhaseOf
  <2>2. Lifecycle!Submit(k)
    BY <1>4, <1>5, <2>1 DEF Lifecycle!Submit, PhaseOf
  <2>3. QED  BY <2>2 DEF Lifecycle!LNext
<1>8. CASE Lapses(k)
  <2>1. /\ commands'[k].state = "expired" /\ phases[k] = "waiting" /\ Mine(k)' = Mine(k)
    BY <1>1, <1>8, Mapping DEF Lapses, Becomes, Expired, Row, Exists, PhaseOf
  <2>2. phases'[k] = "lapsed"
    BY <2>1, Mapping DEF PhaseOf
  <2>3. \A c \in Command : phases'[c] = IF c \in {k} THEN "lapsed"
                                         ELSE IF c \in {} THEN "offered" ELSE phases[c]
    BY <1>3, <2>2
  <2>4. phases' = [c \in Command |-> IF c \in {k} THEN "lapsed"
                                    ELSE IF c \in {} THEN "offered" ELSE phases[c]]
    BY <2>3 DEF phases
  <2>5. Lifecycle!Poll({}, {k})
    BY <1>5, <2>1, <2>4 DEF Lifecycle!Poll
  <2>6. QED  BY <2>5 DEF Lifecycle!LNext
<1>9. CASE HandedOut(k)
  <2>1. commands'[k].state = "dispatched" /\ phases[k] = "waiting" /\ Mine(k)' = Mine(k)
    BY <1>1, <1>9, Mapping DEF HandedOut, Becomes, Dispatched, Row, Exists, PhaseOf
  <2>2. phases'[k] = "offered"
    BY <2>1, Mapping DEF PhaseOf
  <2>3. \A c \in Command : phases'[c] = IF c \in {} THEN "lapsed"
                                         ELSE IF c \in {k} THEN "offered" ELSE phases[c]
    BY <1>3, <2>2
  <2>4. phases' = [c \in Command |-> IF c \in {} THEN "lapsed"
                                    ELSE IF c \in {k} THEN "offered" ELSE phases[c]]
    BY <2>3 DEF phases
  <2>5. Lifecycle!Poll({k}, {})
    BY <1>5, <2>1, <2>4 DEF Lifecycle!Poll
  <2>6. QED  BY <2>5 DEF Lifecycle!LNext
<1>10. CASE Completes(k)
  <2>1. commands[k] \in Row /\ commands[k].state \in {"dispatched", "running"}
    BY <1>1, <1>10 DEF Completes, IInv, GrantedOnce, NotGranted, Row, States, TerminalStates
  <2>2. PICK r : /\ r.payload.status \in {"succeeded", "failed"}
                 /\ commands'[k] = Completed(commands[k], r.payload.status)
                 /\ Mine(k)' = Mine(k) \cup {r}
    BY <1>10 DEF Completes
  <2>3. Mine(k)' = {r}
    BY <2>1, <2>2 DEF IInv, OneOutcome
  <2>4. commands'[k].state = r.payload.status
    BY <2>1, <2>2 DEF Completed, Row
  <2>5. phases[k] = "offered" /\ PhaseOf(commands'[k].state) = r.payload.status
    BY <2>1, <2>2, <2>4, Mapping DEF PhaseOf
  <2>6. {x.payload.status : x \in Mine(k)'} = {r.payload.status}
    BY <2>3
  <2>7. Lifecycle!Conclude(k, r.payload.status)
    BY <1>4, <2>5, <2>6 DEF Lifecycle!Conclude
  <2>8. QED  BY <2>2, <2>7 DEF Lifecycle!LNext, Lifecycle!Verdict
<1>11. CASE Withdrawn(k)
  <2>1. commands[k] \in Row /\ commands[k].state \in {"queued", "dispatched", "running"}
    BY <1>1, <1>11 DEF Withdrawn, Row, States, TerminalStates
  <2>2. commands'[k].state = "cancelled" /\ Mine(k)' = Mine(k)
    BY <1>11, <2>1 DEF Withdrawn, Becomes, Cancelled, Row
  <2>3. phases[k] \in {"waiting", "offered"} /\ PhaseOf(commands'[k].state) = "withdrawn"
    BY <2>1, <2>2, Mapping DEF PhaseOf
  <2>4. Lifecycle!Withdraw(k)
    BY <1>4, <1>5, <2>2, <2>3 DEF Lifecycle!Withdraw
  <2>5. QED  BY <2>4 DEF Lifecycle!LNext
<1>12. QED
  BY <1>2, <1>6, <1>7, <1>8, <1>9, <1>10, <1>11 DEF CommandStep

\* Every step is one of the abstract lifecycle or leaves it alone.
LEMMA StepRefines == IInv /\ [Next]_vars => [Lifecycle!LNext]_(Lifecycle!lifecycle)
<1> SUFFICES ASSUME IInv, [Next]_vars PROVE [Lifecycle!LNext]_(Lifecycle!lifecycle)
  OBVIOUS
<1>1. CASE \E h \in Handler, d \in Device, limit \in Limit : AcquireCommands(h, d, limit)
  BY <1>1, PollRefines
<1>2. CASE \A c \in Command : Untouched(c)
  <2>1. \A c \in Command : phases'[c] = phases[c] /\ reports'[c] = reports[c]
    BY <1>2, UntouchedStutters
  <2>2. phases' = phases /\ reports' = reports
    BY <2>1 DEF phases, reports
  <2>3. QED  BY <2>2 DEF Lifecycle!lifecycle
<1>3. CASE \E k \in Command : \A c \in Command \ {k} : Untouched(c)
  BY <1>3, CommandRefines
<1>4. QED  BY <1>1, <1>2, <1>3, OneTouched DEF IInv

\* The service, with its concurrent requests, locks, leases and tokens, is an
\* implementation of the life of a remote job.
THEOREM ImplementsLifecycle == Spec => KeepsItsPromise
<1>1. Init => Lifecycle!LInit
  BY DEF Init, Lifecycle!LInit, phases, reports, PhaseOf, Mine, NoRow
<1>2. QED
  BY <1>1, StepRefines, InvariantHolds, PTL DEF Spec, KeepsItsPromise, Lifecycle!LSpec
=============================================================================
