--------------------------- MODULE IdentityService ---------------------------
(***************************************************************************)
(* identity-service: its users, the one bootstrap, the tokens it signs and *)
(* the key it signs them with.  Tokens are stateless: none is ever         *)
(* withdrawn, so what a disabled user may still do is a matter of time.    *)
(***************************************************************************)
EXTENDS Integers, Sequences, FiniteSets

CONSTANTS
    User,           \* addresses of users
    Administrator,  \* those that were or will be made platform_admin
    Boot,           \* requests for the bootstrap
    AccessLife,     \* access_token_minutes
    RefreshLife,    \* refresh_token_days
    SignInTimeout,  \* bound: how long a caller waits for the answer to a login
    MaxTime,        \* bound: the last instant considered
    MaxKey          \* bound: how many signing keys are ever configured

ASSUME LivesAssumption == AccessLife \in Nat \ {0} /\ RefreshLife \in Nat \ {0}
ASSUME SignInAssumption == SignInTimeout \in Nat
ASSUME BoundsAssumption == MaxTime \in Nat /\ MaxKey \in Nat \ {0}
ASSUME UserAssumption == Administrator \subseteq User /\ IsFiniteSet(Boot)

VARIABLES
    setting,        \* which parts are at work in a behaviour; never changes
    clock,          \* one clock for all: skew between services is left out
    users,          \* per user its status and updated_at
    bootstrapped,   \* the row bootstrap_completed of identity_state
    boot,           \* per bootstrap request, how far its handler is
    signingKey,     \* the key identity-service is configured with
    retired         \* when each earlier key was replaced

identityVars == <<setting, clock, users, bootstrapped, boot, signingKey, retired>>

Statuses == {"none", "active", "disabled"}
NoToken == [sub |-> "nobody", type |-> "none", key |-> 0, exp |-> 0]
NoPair == [access |-> NoToken, refresh |-> NoToken]

IdentityInit ==
    /\ clock = 0
    /\ bootstrapped = FALSE
    /\ boot = [b \in Boot |-> "new"]
    /\ signingKey = 1
    /\ retired = [k \in 1..MaxKey |-> MaxTime + 1]

-----------------------------------------------------------------------------
\* Tokens.

NewToken(u, type) ==
    [sub |-> u, type |-> type, key |-> signingKey,
     exp |-> clock + (IF type = "access" THEN AccessLife ELSE RefreshLife)]

Pair(u) == [access |-> NewToken(u, "access"), refresh |-> NewToken(u, "refresh")]

\* decode: signed with the current key, not expired, of the expected type.
Decodes(token, type) == token.key = signingKey /\ clock < token.exp /\ token.type = type

Active(u) == users[u].status = "active"

\* login: the row is read once; then the password is checked, which takes its time
\* (verify_password), and a pair is signed for whom the row was active.
NoSignIn == [user |-> "nobody", since |-> 0]
RowRead(u) == [user |-> u, since |-> clock]

\* An answer that comes later finds nobody waiting.
Awaited(signin) == clock <= signin.since + SignInTimeout

\* Mutant: a refresh does not look at the user's row.
MayRefresh_NoUser(token) == Decodes(token, "refresh")

MayRefresh(token) == Decodes(token, "refresh") /\ Active(token.sub)

\* get_current_user and require_roles, as every handler of users begins.
IsAdministrator(token) ==
    Decodes(token, "access") /\ Active(token.sub) /\ token.sub \in Administrator

-----------------------------------------------------------------------------
\* Users.

Become(u, status) == users' = [users EXCEPT ![u] = [status |-> status, since |-> clock]]

\* Lookup of the state row and of any user, then the hash of the password.
BootstrapRead(b) ==
    /\ boot[b] = "new"
    /\ boot' = [boot EXCEPT ![b] =
         IF bootstrapped \/ \E u \in User : users[u].status # "none"
         THEN "refused" ELSE "creating"]
    /\ UNCHANGED <<setting, clock, users, bootstrapped, signingKey, retired>>

\* The insert: the state row's key and the address are unique.
BootstrapCommit(b) ==
    /\ boot[b] = "creating"
    /\ \E u \in Administrator :
         IF bootstrapped \/ users[u].status # "none"
         THEN /\ boot' = [boot EXCEPT ![b] = "refused"]
              /\ UNCHANGED <<users, bootstrapped>>
         ELSE /\ Become(u, "active")
              /\ bootstrapped' = TRUE
              /\ boot' = [boot EXCEPT ![b] = "done"]
    /\ UNCHANGED <<setting, clock, signingKey, retired>>

\* An address that exists is refused by its unique constraint.
CreateUser(u) ==
    /\ users[u].status = "none"
    /\ Become(u, "active")
    /\ UNCHANGED <<setting, clock, bootstrapped, boot, signingKey, retired>>

SetUserStatus(u, status) ==
    /\ users[u].status \notin {"none", status}
    /\ Become(u, status)
    /\ UNCHANGED <<setting, clock, bootstrapped, boot, signingKey, retired>>

\* The service is started again with another key and kid.
RotateKey ==
    /\ signingKey < MaxKey
    /\ signingKey' = signingKey + 1
    /\ retired' = [retired EXCEPT ![signingKey] = clock]
    /\ UNCHANGED <<setting, clock, users, bootstrapped, boot>>

Tick ==
    /\ clock < setting.until
    /\ clock' = clock + 1
    /\ UNCHANGED <<setting, users, bootstrapped, boot, signingKey, retired>>

-----------------------------------------------------------------------------
\* However many bootstrap requests race, one of them creates the first
\* administrator (IdentityState in bootstrap_identity).
BootstrapOnce == Cardinality({b \in Boot : boot[b] = "done"}) <= 1
=============================================================================
