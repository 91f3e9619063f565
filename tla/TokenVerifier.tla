---------------------------- MODULE TokenVerifier ----------------------------
(***************************************************************************)
(* How the services decide about a caller's token.  Each keeps identity's  *)
(* public keys in memory, asks identity for them again when they are old   *)
(* or when a token names a key it does not know, and judges the token      *)
(* without asking anybody about its user.  A call enters at the gateway,   *)
(* which limits its rate, and is judged once more by the service behind.   *)
(***************************************************************************)
EXTENDS RateLimit

CONSTANTS
    Caller,         \* clients of the gateway and handlers of the console
    Service,        \* the services that verify tokens
    CacheSeconds,   \* jwks_cache_seconds; 300 where it is not a setting
    FetchTimeout    \* bound: from identity's answer until it is stored

ASSUME CacheAssumption == CacheSeconds \in Nat \ {0} /\ FetchTimeout \in Nat
ASSUME ServiceAssumption ==
    {"gateway", "audit", "tenant", "asset", "pki", "enrollment", "agent-control", "command",
     "telemetry"} \subseteq Service

VARIABLES
    keys,           \* per service the key it cached and when
    call            \* per caller the call it is making

verifierVars == <<keys, call>>

Empty == [key |-> 0, at |-> 0]
NoCall == [at |-> "idle", path |-> <<>>, token |-> NoToken, got |-> 0, since |-> 0]

VerifierInit ==
    /\ keys = [s \in Service |-> IF s \in setting.warm THEN [key |-> signingKey, at |-> 0] ELSE Empty]
    /\ call = [c \in Caller |-> NoCall]

At(c, s) == call[c].path # <<>> /\ Head(call[c].path) = s
Fetching(c) == call[c].at \in {"fetching", "refetching", "answered", "reanswered"}

\* Routes the gateway exposes to callers with a token, by the service behind;
\* the services themselves are reached from inside only.
Routes == {"identity", "tenant", "asset", "enrollment", "audit"}
RoutesV06 == Routes \cup {"command", "telemetry"}
RoutesV08 == RoutesV06 \cup {"agent-control"}
Paths == {<<"gateway", s>> : s \in RoutesV08} \cup {<<s>> : s \in Service \ {"gateway"}}

Ask(c, path, token) == call' = [call EXCEPT ![c] =
    [NoCall EXCEPT !.at = "asked", !.path = path, !.token = token]]

-----------------------------------------------------------------------------
\* Mutant: a token that names an unknown key is refused without asking again.
Judged_NoRetry(c, key, last) ==
    LET token == call[c].token
    IN  IF key # token.key THEN "refused"
        ELSE IF clock < token.exp /\ token.type = "access" THEN "accepted" ELSE "refused"

\* _key_for_kid and the rest of verify, given the key identity published.
Judged(c, key, last) ==
    LET token == call[c].token
    IN  IF key # token.key THEN IF last THEN "refused" ELSE "again"
        ELSE IF clock < token.exp /\ token.type = "access" THEN "accepted" ELSE "refused"

\* Mutant: keys once cached are used for ever.
Fresh_Always(s) == keys[s] # Empty

Fresh(s) == keys[s] # Empty /\ clock - keys[s].at < CacheSeconds

\* _load_jwks: the cache, or the start of a fetch.
Lookup(c, s) ==
    /\ call' = [call EXCEPT ![c] =
         IF call[c].at = "asked" /\ Fresh(s)
         THEN [@ EXCEPT !.at = Judged(c, keys[s].key, FALSE)]
         ELSE [@ EXCEPT !.at = IF @ = "again" THEN "refetching" ELSE "fetching"]]
    /\ UNCHANGED keys

\* identity answers with the one key it is configured with.
Answer(c) ==
    /\ call[c].at \in {"fetching", "refetching"}
    /\ call' = [call EXCEPT ![c] =
         [@ EXCEPT !.at = IF @ = "fetching" THEN "answered" ELSE "reanswered",
                   !.got = signingKey, !.since = clock]]
    /\ UNCHANGED keys

InTime(c) == call[c].got # 0 => clock <= call[c].since + FetchTimeout

Store(c, s) ==
    /\ call[c].at \in {"answered", "reanswered"} /\ InTime(c)
    /\ keys' = [keys EXCEPT ![s] = [key |-> call[c].got, at |-> clock]]

\* The keys that were just fetched decide.
StoreAndJudge(c, s) ==
    /\ Store(c, s)
    /\ call' = [call EXCEPT ![c].at = Judged(c, call[c].got, call[c].at = "reanswered"),
                            ![c].got = 0, ![c].since = 0]

\* The cache decides, which another thread may have written meanwhile, at the
\* same instant.
ReadsBack(c) == call[c].at \in {"stored", "restored"}

StoreOnly(c, s) ==
    /\ Store(c, s)
    /\ call' = [call EXCEPT ![c].at = IF @ = "answered" THEN "stored" ELSE "restored",
                            ![c].got = 0, ![c].since = 0]

ReadBack(c, s) ==
    /\ ReadsBack(c)
    /\ call' = [call EXCEPT ![c].at = Judged(c, keys[s].key, call[c].at = "restored")]
    /\ UNCHANGED keys

\* The keys could not be had: 503.
Unavailable(c) ==
    /\ Fetching(c) /\ (setting.outages \/ ~InTime(c))
    /\ call' = [call EXCEPT ![c] = [@ EXCEPT !.at = "unavailable", !.got = 0, !.since = 0]]
    /\ UNCHANGED keys

\* One thread at a time looks into the cache and fetches.
UnderLock(c, s) ==
    \/ /\ call[c].at \in {"asked", "again"}
       /\ \A d \in Caller : ~(At(d, s) /\ Fetching(d))
       /\ Lookup(c, s)
    \/ Answer(c) \/ StoreAndJudge(c, s) \/ Unavailable(c)

WithoutLock(c, s) ==
    \/ call[c].at \in {"asked", "again"} /\ Lookup(c, s)
    \/ Answer(c) \/ StoreAndJudge(c, s) \/ Unavailable(c)

GatewayVerify(c) == At(c, "gateway") /\ UnderLock(c, "gateway")
AuditVerify(c) == At(c, "audit") /\ UnderLock(c, "audit")
TenantVerify(c) == At(c, "tenant") /\ UnderLock(c, "tenant")
AssetVerify(c) == At(c, "asset") /\ UnderLock(c, "asset")
PkiVerify(c) == At(c, "pki") /\ UnderLock(c, "pki")
EnrollmentVerify(c) == At(c, "enrollment") /\ UnderLock(c, "enrollment")
AgentControlVerify(c) == At(c, "agent-control") /\ WithoutLock(c, "agent-control")
CommandVerify(c) == At(c, "command") /\ WithoutLock(c, "command")

TelemetryVerify(c) ==
    /\ At(c, "telemetry")
    /\ \/ call[c].at \in {"asked", "again"} /\ Lookup(c, "telemetry")
       \/ Answer(c) \/ StoreOnly(c, "telemetry") \/ ReadBack(c, "telemetry")
       \/ Unavailable(c)

Verify(c) ==
    \/ GatewayVerify(c) \/ AuditVerify(c) \/ TenantVerify(c) \/ AssetVerify(c)
    \/ PkiVerify(c) \/ EnrollmentVerify(c) \/ AgentControlVerify(c)
    \/ CommandVerify(c) \/ TelemetryVerify(c)

-----------------------------------------------------------------------------
\* identity-service looks at the user's row at every call (get_current_user).
IdentityJudges(c) ==
    /\ At(c, "identity") /\ call[c].at = "asked"
    /\ call' = [call EXCEPT ![c].at =
         IF Decodes(call[c].token, "access")
         THEN IF Active(call[c].token.sub) THEN "accepted" ELSE "forbidden"
         ELSE "refused"]
    /\ UNCHANGED keys

\* The gateway limits the rate of a caller it knows, then forwards the call.
Forward(c) ==
    /\ At(c, "gateway") /\ call[c].at = "accepted"
    /\ \E passes \in BOOLEAN :
         /\ Use(ReadKey(call[c].token.sub), passes)
         /\ call' = [call EXCEPT ![c] =
              IF passes THEN [@ EXCEPT !.at = "asked", !.path = Tail(@)]
              ELSE [@ EXCEPT !.at = "limited"]]
    /\ UNCHANGED keys

Served(c) == call[c].at = "accepted" /\ Len(call[c].path) = 1 /\ ~At(c, "gateway")
Answered(c) == Served(c) \/ call[c].at \in {"refused", "forbidden", "unavailable", "limited"}
=============================================================================
