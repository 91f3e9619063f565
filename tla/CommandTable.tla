---------------------------- MODULE CommandTable ----------------------------
(***************************************************************************)
(* The rows of command-service's `commands` table and what each of its     *)
(* functions decides about one row.  There is no state here: the service   *)
(* itself (CommandService) and the endpoint that talks to it               *)
(* (EndpointCommands) both build their actions from these operators.       *)
(*                                                                         *)
(* An execution token is the number of the dispatch that issued it: the    *)
(* code draws 32 random bytes, of which only "a new one each dispatch"     *)
(* matters.  Token 0 stands for the NULL hash in the column and for any    *)
(* string that was never issued for this command.                          *)
(***************************************************************************)
EXTENDS Integers, FiniteSets

CONSTANTS
    Device,           \* device principals (tenant, asset and device id together)
    Key,              \* idempotency keys, each with its tenant
    Lifetime,         \* values of expires_in_seconds
    LeaseSeconds,     \* LEASE_SECONDS
    MaxAcquireLimit   \* MAX_ACQUIRE_LIMIT

ASSUME LifetimeAssumption == Lifetime \subseteq Nat \ {0}
ASSUME LeaseAssumption == LeaseSeconds \in Nat \ {0}
ASSUME LimitAssumption == MaxAcquireLimit \in Nat \ {0}

TerminalStates == {"succeeded", "failed", "cancelled", "expired"}
States == {"queued", "dispatched", "running"} \cup TerminalStates

NoLease == -1         \* lease_expires_at IS NULL

\* What the request digest covers; the command type and its arguments have no
\* influence on the service and are left out.
Body == [device : Device, lifetime : Lifetime]

Row == [state : States, key : Key, body : Body, createdAt : Nat, expiresAt : Nat,
        attempts : Nat, token : Nat, lease : Nat \cup {NoLease}]

NoRow == [state |-> "absent"]

Exists(row) == row.state # "absent"

-----------------------------------------------------------------------------
(* create_command *)

NewRow(key, body, now) ==
    [state |-> "queued", key |-> key, body |-> body, createdAt |-> now,
     expiresAt |-> now + body.lifetime, attempts |-> 0, token |-> 0, lease |-> NoLease]

-----------------------------------------------------------------------------
(* acquire_commands *)

EffectiveLimit(limit) ==
    IF limit < 0 THEN 0 ELSE IF limit > MaxAcquireLimit THEN MaxAcquireLimit ELSE limit

\* Mutant: at the very instant of expiry a command is neither due nor expired.
Expirable_Strict(row, d, now) ==
    /\ row.state = "queued"
    /\ row.body.device = d
    /\ row.expiresAt < now

Expirable(row, d, now) ==
    /\ row.state = "queued"
    /\ row.body.device = d
    /\ row.expiresAt <= now

\* Mutant: a poll is offered all that is not finished, in case an answer was lost.
Acquirable_Reoffers(row, d, now) ==
    /\ row.state \in {"queued", "dispatched", "running"}
    /\ row.body.device = d
    /\ row.expiresAt > now

Acquirable(row, d, now) ==
    /\ row.state = "queued"
    /\ row.body.device = d
    /\ row.expiresAt > now

Expired(row) == [row EXCEPT !.state = "expired"]

LeaseUntil(row, now) ==
    IF row.expiresAt < now + LeaseSeconds THEN row.expiresAt ELSE now + LeaseSeconds

Dispatched(row, now) ==
    [row EXCEPT !.state = "dispatched",
                !.token = row.attempts + 1,
                !.lease = LeaseUntil(row, now),
                !.attempts = row.attempts + 1]

\* The answers of ORDER BY created_at LIMIT n over the rows S: the oldest n of
\* them, rows of the same created_at in either order.
OldestFirst(rows, S, n) ==
    {T \in SUBSET S :
        /\ Cardinality(T) = IF Cardinality(S) < n THEN Cardinality(S) ELSE n
        /\ \A x \in T, y \in S \ T : rows[x].createdAt <= rows[y].createdAt}

-----------------------------------------------------------------------------
(* mark_running and submit_result *)

BoundTo(row, d) == Exists(row) /\ row.body.device = d

TokenValid(row, token) == row.token # 0 /\ token = row.token

\* Mutant: a lease once granted never ends.
LeaseLive_Forever(row, now) == row.lease # NoLease

LeaseLive(row, now) == row.lease # NoLease /\ now <= row.lease

\* Mutant: who holds the token of a command may start it, whatever became of it.
MayRun_AnyState(row, d, token, now) ==
    /\ BoundTo(row, d)
    /\ TokenValid(row, token)
    /\ LeaseLive(row, now)

MayRun(row, d, token, now) ==
    /\ BoundTo(row, d)
    /\ TokenValid(row, token)
    /\ LeaseLive(row, now)
    /\ row.state \in {"dispatched", "running"}

Running(row) == [row EXCEPT !.state = "running"]

\* Mutant: only the sequence number keeps a second result out.
MayComplete_AnyState(row, now, ahead) == LeaseLive(row, now) /\ ~ahead

\* A first result for its sequence number: not a replay and not a conflict.
\* `ahead` tells whether its timestamps lie over two minutes after `now`.
MayComplete(row, now, ahead) ==
    /\ row.state \notin TerminalStates
    /\ LeaseLive(row, now)
    /\ ~ahead

Completed(row, status) == [row EXCEPT !.state = status]

-----------------------------------------------------------------------------
(* cancel *)

\* Mutant: the state is not checked again after the calls upstream.
Cancellable_AnyState(row) == Exists(row)

Cancellable(row) == Exists(row) /\ row.state \notin TerminalStates

Cancelled(row) == [row EXCEPT !.state = "cancelled"]

-----------------------------------------------------------------------------
(* Where a job is for those who asked for it (CommandLifecycle) *)

PhaseOf(state) ==
    CASE state = "absent" -> "unborn"
      [] state = "queued" -> "waiting"
      [] state \in {"dispatched", "running"} -> "offered"
      [] state = "cancelled" -> "withdrawn"
      [] state = "expired" -> "lapsed"
      [] state \in {"succeeded", "failed"} -> state
=============================================================================
