------------------------------- MODULE Console -------------------------------
(***************************************************************************)
(* web-console-service: browser sessions in Valkey.  A session keeps a     *)
(* pair of tokens; a handler reads it, calls the gateway, and on 401       *)
(* refreshes the pair once.  Every command to Valkey is a step of its own, *)
(* a pipeline one step; handlers of several processes share the store.     *)
(***************************************************************************)
EXTENDS TokenVerifier

CONSTANTS
    Handler,        \* requests of browsers being handled
    MaxDrawn,       \* bound: how many session ids are drawn
    SessionTtl,     \* ttl_seconds
    MaxSessions     \* max_sessions

ASSUME ConsoleAssumption ==
    /\ Handler \subseteq Caller /\ IsFiniteSet(Handler) /\ MaxDrawn \in Nat
    /\ SessionTtl \in Nat \ {0} /\ MaxSessions \in Nat \ {0}

VARIABLES
    kept,           \* the key of each session: its pair and when it expires
    index,          \* the sorted set: sessions and their scores
    drawn,          \* how many ids were drawn
    strays,         \* how often a session that was gone was set again, or was
                    \* left before it was indexed (history)
    handler,        \* per handler, how far it is
    opened,         \* sessions whose cookie was handed to a browser
    closed          \* per session whose logout was answered, the other
                    \* handlers that were at work on it then

storeVars == <<kept, index, drawn, strays>>
consoleVars == <<kept, index, drawn, strays, handler, opened, closed>>

Session == 1..MaxDrawn    \* in the order token_urlsafe draws them, none twice
NoSession == [pair |-> NoPair, exp |-> 0]
Idle == [at |-> "idle", session |-> 0, pair |-> NoPair, path |-> <<>>, excess |-> 0, picked |-> {},
         signin |-> NoSignIn, now |-> 0]
Me == <<"gateway", "identity">>

ConsoleInit ==
    /\ kept = [s \in Session |-> NoSession]
    /\ index = [s \in {} |-> 0]
    /\ handler = [h \in Handler |-> Idle]
    /\ drawn = 0 /\ strays = 0
    /\ opened = {}
    /\ closed = [s \in {} |-> {}]

Live(s) == clock < kept[s].exp
LiveSessions == {s \in Session : Live(s)}

\* now: the time that the handler read and has still to use.
GoesWith(h, at, now) == handler' =
    [handler EXCEPT ![h] = IF at = "idle" THEN Idle ELSE [@ EXCEPT !.at = at, !.now = now]]
Goes(h, at) == GoesWith(h, at, 0)
Ends(h) == Goes(h, "idle")

Keep(s, pair) == kept' = [kept EXCEPT ![s] = [pair |-> pair, exp |-> clock + SessionTtl]]
Index(s, now) == index' = [t \in DOMAIN index \cup {s} |-> IF t = s THEN now ELSE index[t]]

\* DEL and ZREM in one pipeline.
Remove(ss) ==
    /\ kept' = [s \in Session |-> IF s \in ss THEN NoSession ELSE kept[s]]
    /\ index' = [s \in DOMAIN index \ ss |-> index[s]]

-----------------------------------------------------------------------------
\* RedisSessionStore.get as steps of a handler: GET; then EXPIRE and ZADD, or
\* ZREM when the session is gone.

GetKey(h, from, next, gone) ==
    /\ handler[h].at = from
    /\ Goes(h, IF Live(handler[h].session) THEN next ELSE gone)
    /\ UNCHANGED storeVars

\* The first GET of a handler, whose pair it goes on with.
GetPair(h, from, next, gone) ==
    /\ handler[h].at = from
    /\ LET s == handler[h].session IN
         handler' = [handler EXCEPT ![h] =
           IF Live(s) THEN [@ EXCEPT !.at = next, !.pair = kept[s].pair]
           ELSE [@ EXCEPT !.at = gone]]
    /\ UNCHANGED storeVars

\* EXPIRE does nothing to a missing key; ZADD adds a missing member.
Touch(h, from, next) ==
    /\ handler[h].at = from
    /\ LET s == handler[h].session IN
         /\ kept' = IF Live(s) THEN [kept EXCEPT ![s].exp = clock + SessionTtl] ELSE kept
         /\ Index(s, clock)
    /\ Goes(h, next)
    /\ UNCHANGED <<drawn, strays>>

Unindex(h, from, next) ==
    /\ handler[h].at = from
    /\ index' = [s \in DOMAIN index \ {handler[h].session} |-> index[s]]
    /\ Goes(h, next)
    /\ UNCHANGED <<kept, drawn, strays>>

\* delete, with which a handler that failed ends.
Drop(h) ==
    /\ handler[h].at = "dropping"
    /\ Remove({handler[h].session})
    /\ Goes(h, "idle")
    /\ UNCHANGED <<drawn, strays>>

-----------------------------------------------------------------------------
\* create, which reads the time, and _evict.

PickExpired(h) ==
    /\ handler[h].at = "evicting"
    /\ LET old == {s \in DOMAIN index : index[s] <= clock - SessionTtl} IN
         handler' = [handler EXCEPT ![h] =
           [@ EXCEPT !.at = IF old = {} THEN "counting" ELSE "pruning",
                     !.picked = old, !.now = clock]]
    /\ UNCHANGED storeVars

RemovePicked(h, from, next) ==
    /\ handler[h].at = from
    /\ Remove(handler[h].picked)
    /\ handler' = [handler EXCEPT ![h] = [@ EXCEPT !.at = next, !.picked = {}]]
    /\ UNCHANGED <<drawn, strays>>

\* Mutant: room is made for the sessions there are, not for the new one.
Excess_OffByOne == Cardinality(DOMAIN index) - MaxSessions

Excess == Cardinality(DOMAIN index) - MaxSessions + 1

Count(h) ==
    /\ handler[h].at = "counting"
    /\ handler' = [handler EXCEPT ![h] =
         IF Excess > 0 THEN [@ EXCEPT !.at = "choosing", !.excess = Excess]
         ELSE [@ EXCEPT !.at = "creating"]]
    /\ UNCHANGED storeVars

\* ZRANGE 0 excess-1; ids drawn at random order members of one score.
Oldest(ss) == \A s \in ss : \A t \in DOMAIN index \ ss : index[s] <= index[t]

PickOldest(h) ==
    /\ handler[h].at = "choosing"
    /\ \E ss \in SUBSET DOMAIN index :
         /\ Cardinality(ss) = Lesser(handler[h].excess, Cardinality(DOMAIN index))
         /\ Oldest(ss)
         /\ handler' = [handler EXCEPT ![h] =
              [@ EXCEPT !.at = "removing", !.picked = ss, !.excess = 0]]
    /\ UNCHANGED storeVars

SetNew(h) ==
    /\ handler[h].at = "creating" /\ drawn < setting.draws
    /\ drawn' = drawn + 1
    /\ Keep(drawn + 1, handler[h].pair)
    /\ handler' = [handler EXCEPT ![h] = [@ EXCEPT !.at = "indexing", !.session = drawn + 1]]
    /\ UNCHANGED <<index, strays>>

AddNew(h) ==
    /\ handler[h].at = "indexing"
    /\ Index(handler[h].session, handler[h].now)
    /\ Goes(h, "calling me")
    /\ UNCHANGED <<kept, drawn, strays>>

\* replace_tokens after its get: the time, SET without XX, then ZADD.
SetPair(h) ==
    /\ handler[h].at = "saving"
    /\ Keep(handler[h].session, handler[h].pair)
    /\ strays' = IF Live(handler[h].session) THEN strays ELSE strays + 1
    /\ GoesWith(h, "reindexing", clock)
    /\ UNCHANGED <<index, drawn>>

AddAgain(h) ==
    /\ handler[h].at = "reindexing"
    /\ Index(handler[h].session, handler[h].now)
    /\ Goes(h, "calling again")
    /\ UNCHANGED <<kept, drawn, strays>>

\* The commands to Valkey, in the order of each handler.
StoreStep(h) ==
    \/ PickExpired(h) \/ RemovePicked(h, "pruning", "counting")
    \/ Count(h) \/ PickOldest(h) \/ RemovePicked(h, "removing", "creating")
    \/ SetNew(h) \/ AddNew(h)
    \/ GetKey(h, "confirming", "touching new", "missing")
    \/ Touch(h, "touching new", "opening") \/ Unindex(h, "missing", "dropping")
    \/ GetPair(h, "getting", "touching", "gone")
    \/ Touch(h, "touching", "calling") \/ Unindex(h, "gone", "idle")
    \/ GetKey(h, "replacing", "retouching", "lost")
    \/ Touch(h, "retouching", "saving") \/ Unindex(h, "lost", "calling again")
    \/ SetPair(h) \/ AddAgain(h)
    \/ GetKey(h, "leaving", "touching last", "gone")
    \/ Touch(h, "touching last", "deleting")
    \/ Drop(h)

-----------------------------------------------------------------------------
\* Handlers.

Starts(h, at, s, path) ==
    /\ handler[h].at = "idle"
    /\ handler' = [handler EXCEPT ![h] = [Idle EXCEPT !.at = at, !.session = s, !.path = path]]

\* login: the gateway limits it by address and name; identity reads the user's
\* row, and answers when it has checked the password.
Login(h, u) ==
    /\ handler[h].at = "idle" /\ drawn < setting.draws
    /\ \E passes \in BOOLEAN :
         /\ Use(LoginKey(u), passes)
         /\ handler' = [handler EXCEPT ![h] =
              IF passes /\ Active(u) THEN [Idle EXCEPT !.at = "signing", !.signin = RowRead(u)]
              ELSE Idle]
    /\ UNCHANGED <<storeVars, opened, closed, call>>

SignedIn(h) ==
    /\ handler[h].at = "signing"
    /\ LET signin == handler[h].signin IN
         handler' = [handler EXCEPT ![h] =
           IF Awaited(signin) THEN [Idle EXCEPT !.at = "evicting", !.pair = Pair(signin.user)]
           ELSE Idle]
    /\ UNCHANGED <<storeVars, opened, closed, call, rateVars>>

\* An operation of the console, each a route of the gateway; it begins with
\* current_session, as a logout does.
Request(h, s, path) ==
    /\ s \in opened /\ path \in Paths
    /\ Starts(h, "getting", s, path)
    /\ UNCHANGED <<storeVars, opened, closed, call, rateVars>>

Logout(h, s) ==
    /\ s \in opened
    /\ Starts(h, "leaving", s, <<>>)
    /\ UNCHANGED <<storeVars, opened, closed, call, rateVars>>

Call(h, from, next, path) ==
    /\ handler[h].at = from
    /\ Ask(h, path, handler[h].pair.access)
    /\ Goes(h, next)
    /\ UNCHANGED <<storeVars, opened, closed, rateVars>>

\* The answer to the call: what was asked for, 401, or another error.
Hear(h, from, ok, on401, fails) ==
    /\ handler[h].at = from /\ Answered(h)
    /\ Goes(h, IF Served(h) THEN ok ELSE IF call[h].at = "refused" THEN on401 ELSE fails)
    /\ call' = [call EXCEPT ![h] = NoCall]
    /\ UNCHANGED <<storeVars, opened, closed, rateVars>>

\* refresh: whatever it fails with, the session is dropped.
Refresh(h) ==
    /\ handler[h].at = "refreshing"
    /\ \E passes \in BOOLEAN :
         /\ Use(RefreshKey, passes)
         /\ LET token == handler[h].pair.refresh IN
              handler' = [handler EXCEPT ![h] =
                IF passes /\ MayRefresh(token)
                THEN [@ EXCEPT !.at = "replacing", !.pair = Pair(token.sub)]
                ELSE [@ EXCEPT !.at = "dropping"]]
    /\ UNCHANGED <<storeVars, opened, closed, call>>

\* The cookie of a new session is set.
Open(h) ==
    /\ handler[h].at = "opening"
    /\ opened' = opened \cup {handler[h].session}
    /\ Ends(h)
    /\ UNCHANGED <<storeVars, closed, call, rateVars>>

\* Mutant: the session leaves the index, its key stays.
Close_IndexOnly(h) ==
    /\ handler[h].at = "deleting"
    /\ LET s == handler[h].session IN
         /\ index' = [t \in DOMAIN index \ {s} |-> index[t]]
         /\ closed' = [t \in DOMAIN closed \cup {s} |->
              IF t = s THEN {g \in Handler \ {h} : handler[g].session = s} ELSE closed[t]]
    /\ Ends(h)
    /\ UNCHANGED <<kept, drawn, strays, opened, call, rateVars>>

\* The session is deleted and the cookie with it.
Close(h) ==
    /\ handler[h].at = "deleting"
    /\ LET s == handler[h].session IN
         /\ Remove({s})
         /\ closed' = [t \in DOMAIN closed \cup {s} |->
              IF t = s THEN {g \in Handler \ {h} : handler[g].session = s} ELSE closed[t]]
    /\ Ends(h)
    /\ UNCHANGED <<drawn, strays, opened, call, rateVars>>

\* The process ends, or Valkey cannot be reached: what was stored stays.
Dies(h) ==
    /\ handler[h].at # "idle"
    /\ strays' = IF handler[h].at = "indexing" THEN strays + 1 ELSE strays
    /\ Ends(h)
    /\ call' = [call EXCEPT ![h] = NoCall]
    /\ UNCHANGED <<kept, index, drawn, opened, closed, rateVars>>

ConsoleStep(h) ==
    \/ SignedIn(h) \/ Dies(h)
    \/ StoreStep(h) /\ UNCHANGED <<opened, closed, call, rateVars>>
    \/ Call(h, "calling me", "loading", Me)
    \/ Hear(h, "loading", "confirming", "dropping", "dropping")
    \/ Call(h, "calling", "waiting", handler[h].path)
    \/ Hear(h, "waiting", "idle", "refreshing", "idle")
    \/ Refresh(h)
    \/ Call(h, "calling again", "waiting again", handler[h].path)
    \/ Hear(h, "waiting again", "idle", "dropping", "idle")
    \/ Open(h) \/ Close(h)

-----------------------------------------------------------------------------
\* A session whose logout was answered while no other request was at work on
\* it is never live again, whatever is asked with its cookie (logout).
LogoutIsFinal == \A s \in DOMAIN closed : closed[s] = {} => ~Live(s)

\* Whatever handlers do at the same time, and wherever they end, there are no more
\* sessions than max_sessions, one for every other handler at work, one for every time a
\* refresh set a session again that had been removed meanwhile, and one for every login
\* that ended after it had set its session and before it had indexed it (_evict, create,
\* replace_tokens; "bounded cardinality").
SessionsBounded ==
    Cardinality(LiveSessions) <= MaxSessions + Cardinality(setting.handlers) - 1 + strays
=============================================================================
