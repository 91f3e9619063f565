------------------------------- MODULE MCAccess -------------------------------
EXTENDS Access

MCBucket == {ReadKey("ana"), LoginKey("ana"), RefreshKey}
MCCapacity == [k \in MCBucket |-> 4]
MCRefill == [k \in MCBucket |-> 1]
MCService == {"gateway", "audit", "tenant", "asset", "pki", "enrollment",
              "agent-control", "command", "telemetry"}
MCCaller == {"c1", "c2", "h1", "h2", "h3"}

\* Every setting says what is at work in it; times end at its own bound.
Quiet == [users |-> {"ana"}, managed |-> {}, boots |-> {}, rotates |-> FALSE, outages |-> FALSE,
          clients |-> [c \in {} |-> {}], asking |-> Client, paths |-> {},
          types |-> {"access"}, warm |-> {},
          handlers |-> {}, draws |-> 0, limited |-> {}, until |-> MaxTime]
Ana == [c \in {"c1"} |-> {"ana"}]
TwoOfAna == [c \in {"c1", "c2"} |-> {"ana"}]

\* Three bootstrap requests and two addresses.
Boots == [Quiet EXCEPT !.users = {}, !.boots = Boot, !.until = 1]
\* Each service with one client while identity changes its key or is away.
OneByOne(s) == [Quiet EXCEPT !.rotates = TRUE, !.outages = TRUE, !.clients = Ana,
                             !.paths = {<<s>>}, !.types = {"access", "refresh"}]
\* Two threads of one service.
Threads(s) == [Quiet EXCEPT !.rotates = TRUE, !.clients = TwoOfAna, !.paths = {<<s>>}, !.until = 3]
\* One client and its buckets.
Rate == [Quiet EXCEPT !.clients = Ana, !.paths = {Me},
                      !.limited = {ReadKey("ana"), LoginKey("ana"), RefreshKey}]
\* An administrator disables and enables a user that goes on calling.
Disabling == [Quiet EXCEPT !.users = {"ana", "root"}, !.managed = {"ana"},
                           !.clients = [c \in {"c1", "c2"} |-> IF c = "c1" THEN {"ana"} ELSE {"root"}],
                           !.asking = {"c1"},
                           !.paths = {<<"gateway", "asset">>}, !.types = {"access", "refresh"}]
\* Two requests of browsers, over the lives of their tokens and sessions.
Browsers == [Quiet EXCEPT !.handlers = {"h1", "h2"}, !.draws = 1, !.warm = {"gateway"},
                          !.paths = {Me}, !.limited = {RefreshKey}, !.outages = TRUE]
\* More logins than sessions, at one instant: every order of scores is possible.
Logins == [Quiet EXCEPT !.handlers = {"h1", "h2"}, !.draws = 3, !.until = 0, !.warm = {"gateway"},
                        !.paths = {Me}]
\* A login after the only session has run out.
Relogin == [Quiet EXCEPT !.handlers = {"h1"}, !.draws = 2, !.warm = {"gateway"}, !.paths = {Me}]

MCSettings ==
    {Boots, Rate, Disabling, Browsers, Logins, Relogin}
    \cup {OneByOne(s) : s \in MCService \ {"gateway"}}
    \cup {Threads(s) : s \in {"tenant", "agent-control"}}
    \cup {[Threads("telemetry") EXCEPT !.until = 2]}
===============================================================================
