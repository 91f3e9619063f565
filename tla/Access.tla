-------------------------------- MODULE Access --------------------------------
(***************************************************************************)
(* Who gets in: identity-service, the gateway and the services behind it,  *)
(* clients that keep their own tokens, and the console that keeps them for *)
(* browsers.                                                               *)
(***************************************************************************)
EXTENDS Console

CONSTANTS
    Client,         \* callers that keep their own tokens
    Settings        \* the instances considered, see MCAccess

ASSUME CallersAssumption == Caller = Client \cup Handler /\ Client \cap Handler = {}

ASSUME SettingsAssumption == \A s \in Settings :
    /\ s.until \in 0..MaxTime /\ s.draws \in 0..MaxDrawn
    /\ s.users \subseteq User /\ s.managed \subseteq User
    /\ DOMAIN s.clients \subseteq Client /\ s.handlers \subseteq Handler
    /\ \A c \in DOMAIN s.clients : s.clients[c] \subseteq User
    /\ s.types \subseteq {"access", "refresh"}

VARIABLES
    wallet,         \* per client the last pair it was given
    signin          \* per client the login that identity is answering

clientVars == <<wallet, signin>>
vars == <<identityVars, rateVars, verifierVars, consoleVars, clientVars>>

Init ==
    /\ setting \in Settings
    /\ IdentityInit /\ RateInit /\ VerifierInit /\ ConsoleInit
    /\ users = [u \in User |-> [status |-> IF u \in setting.users THEN "active" ELSE "none",
                                since |-> 0]]
    /\ wallet = [c \in Client |-> NoPair]
    /\ signin = [c \in Client |-> NoSignIn]

-----------------------------------------------------------------------------
\* Clients of the gateway.  They log in when their tokens can no longer be
\* renewed, and renew them when the first one can no longer be used.

ClientLogin(c, u) ==
    /\ ~Decodes(wallet[c].refresh, "refresh") /\ signin[c] = NoSignIn
    /\ \E passes \in BOOLEAN :
         /\ Use(LoginKey(u), passes)
         /\ signin' = IF passes /\ Active(u) THEN [signin EXCEPT ![c] = RowRead(u)] ELSE signin
    /\ UNCHANGED <<identityVars, verifierVars, consoleVars, wallet>>

ClientSignedIn(c) ==
    /\ signin[c] # NoSignIn
    /\ wallet' = IF Awaited(signin[c]) THEN [wallet EXCEPT ![c] = Pair(signin[c].user)] ELSE wallet
    /\ signin' = [signin EXCEPT ![c] = NoSignIn]
    /\ UNCHANGED <<identityVars, rateVars, verifierVars, consoleVars>>

\* No hash lies between the row and the new pair: one step.
ClientRefresh(c) ==
    /\ ~Decodes(wallet[c].access, "access")
    /\ LET token == wallet[c].refresh IN
       \E passes \in BOOLEAN :
         /\ Use(RefreshKey, passes)
         /\ wallet' = IF passes /\ MayRefresh(token)
                      THEN [wallet EXCEPT ![c] = Pair(token.sub)] ELSE wallet
    /\ UNCHANGED <<identityVars, verifierVars, consoleVars, signin>>

\* A client may send any token it holds, the refresh token included.
ClientAsk(c, path, type) ==
    /\ call[c].at = "idle" \/ Answered(c)
    /\ c \in setting.asking /\ path \in Paths /\ wallet[c] # NoPair
    /\ Ask(c, path, wallet[c][type])
    /\ UNCHANGED <<identityVars, rateVars, keys, consoleVars, clientVars>>

ClientStep(c) ==
    \/ \E u \in setting.clients[c] : ClientLogin(c, u)
    \/ ClientSignedIn(c) \/ ClientRefresh(c)
    \/ \E path \in setting.paths, type \in setting.types : ClientAsk(c, path, type)

CallStep(c) ==
    /\ \/ (Verify(c) \/ IdentityJudges(c)) /\ UNCHANGED rateVars
       \/ Forward(c)
    /\ UNCHANGED <<identityVars, consoleVars, clientVars>>

BrowserStep(h) ==
    /\ \/ \E u \in setting.users : Login(h, u)
       \/ \E s \in 1..drawn : Logout(h, s) \/ \E path \in setting.paths : Request(h, s, path)
       \/ ConsoleStep(h)
    /\ UNCHANGED <<identityVars, keys, clientVars>>

\* What an administrator does to users, with the token of a client.
AdministratorStep ==
    /\ \E c \in Client : IsAdministrator(wallet[c].access)
    /\ \E u \in setting.managed :
         CreateUser(u) \/ \E status \in {"active", "disabled"} : SetUserStatus(u, status)
    /\ UNCHANGED <<rateVars, verifierVars, consoleVars, clientVars>>

IdentityStep ==
    /\ \/ \E b \in setting.boots : BootstrapRead(b) \/ BootstrapCommit(b)
       \/ setting.rotates /\ RotateKey
       \/ Tick /\ \A c \in Caller : ~ReadsBack(c)
    /\ UNCHANGED <<rateVars, verifierVars, consoleVars, clientVars>>

Next ==
    \/ \E c \in DOMAIN setting.clients : ClientStep(c)
    \/ \E c \in Caller : CallStep(c)
    \/ \E h \in setting.handlers : BrowserStep(h)
    \/ AdministratorStep
    \/ IdentityStep

Spec == Init /\ [][Next]_vars

-----------------------------------------------------------------------------
Token ==
    [sub : User \cup {"nobody"}, type : {"none", "access", "refresh"},
     key : 0..MaxKey, exp : 0..(MaxTime + AccessLife + RefreshLife)]

TypeOK ==
    /\ clock \in 0..MaxTime /\ signingKey \in 1..MaxKey
    /\ users \in [User -> [status : Statuses, since : 0..MaxTime]]
    /\ \A c \in Client : wallet[c].access \in Token /\ wallet[c].refresh \in Token
    /\ signin \in [Client -> [user : User \cup {"nobody"}, since : 0..MaxTime]]
    /\ \A k \in Bucket : bucket[k].tokens \in 0..Capacity[k]
    /\ \A c \in Caller : call[c].token \in Token /\ Len(call[c].path) <= 2
    /\ \A s \in Service : keys[s].key \in 0..MaxKey
    /\ DOMAIN index \subseteq 1..drawn /\ opened \subseteq 1..drawn
    /\ \A h \in Handler : handler[h].session \in 0..drawn

NowAccepted(c) == call[c].at # "accepted" /\ call'[c].at = "accepted"

\* A user that was disabled gets nothing more out of any service once the
\* tokens issued before have run out, and those of a login that was being
\* answered just then: no refresh and no session of the console prolongs them
\* (login, MayRefresh, verify).
LockedOutInTime == [][\A c \in Caller : NowAccepted(c) =>
    LET user == users[call[c].token.sub]
    IN  user.status = "disabled" => clock < user.since + AccessLife + SignInTimeout]_vars

\* After identity changed its key, a service goes on accepting the old one for
\* as long as its cache may be old and no longer (_load_jwks).
OldKeyRefusedInTime == [][\A c \in Caller : NowAccepted(c) =>
    LET key == call[c].token.key
    IN  key < signingKey => clock < retired[key] + CacheSeconds + FetchTimeout]_vars

\* No service refuses a token that identity has just signed with a new key
\* (_key_for_kid).  telemetry-service is left out: its threads share what they
\* fetch, and an older answer may replace the newer one before it is read.
FreshTokenAccepted == \A c \in Caller :
    call[c].at = "refused" /\ ~At(c, "telemetry") => ~Decodes(call[c].token, "access")
===============================================================================
