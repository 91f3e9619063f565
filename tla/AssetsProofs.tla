----------------------------- MODULE AssetsProofs -----------------------------
(* Theorems about module Assets: tenant-service and asset-service under requests
   that interleave, for any number of threads, tenants, users, units and assets. *)
EXTENDS Assets, TLAPS

-----------------------------------------------------------------------------
(* The rows *)

TenantOK(row) == row = Absent \/ \E x \in {"active", "suspended"} : row = TenantRow(x)
MemberOK(row) ==
    \/ row = Absent
    \/ DOMAIN row = {"status", "role", "active"} /\ row.active \in BOOLEAN
UnitOK(row, un) ==
    \/ row = Absent
    \/ /\ DOMAIN row = {"status", "tenant", "parent"}
       /\ row.parent = None \/ (row.parent \in Department /\ un[row.parent] # Absent)

TablesOK ==
    /\ setting \in Settings
    /\ DOMAIN tenants = Tenant /\ DOMAIN members = Membership /\ DOMAIN units = Unit
    /\ \A x \in Tenant : TenantOK(tenants[x])
    /\ \A m \in Membership : MemberOK(members[m])
    /\ \A u \in Unit : UnitOK(units[u], units)

-----------------------------------------------------------------------------
(* The requests: j is the job of thread t and h what was in force during it; s is *)
(* the setting, tn, mb and un the rows of tenants, members and units.             *)

Tenancies == {"newTenant", "setTenant", "putMember", "setMember", "newUnit", "setUnit"}

\* Where a request of each kind may stand.
Places(op) ==
    CASE op = "newTenant" -> {"commit"}
      [] op = "setTenant" -> {"access", "caller", "commit"}
      [] op \in {"putMember", "setMember"} -> {"access", "caller", "member", "commit"}
      [] op \in {"newUnit", "setUnit"} -> {"access", "caller", "unit", "walk", "commit"}
      [] op = "newAsset" -> {"ask", "askCaller", "references", "reader", "refs"}
      [] op = "link" -> {"ask", "askCaller", "existing", "linking"}

ShapeOK(t, j, s) ==
    /\ DOMAIN j = {"at", "request", "seen", "visited", "cursor"}
    /\ j.request \in s.requests[t]
    /\ j.request.op \in Tenancies \cup {"newAsset", "link"}
    /\ j.at \in Places(j.request.op)
    /\ j.request.op = "newTenant" => j.request.by \in PlatformAdmin
    /\ j.at \in {"access", "ask"} => DOMAIN j.seen = {}
    /\ j.request.op \in Tenancies /\ j.at \notin {"walk", "commit"} => j.visited = {}

\* What was found in order was in force when it was read.
GrantsOK(j, h) ==
    /\ j.at \in {"caller", "askCaller", "reader"} =>
          /\ DOMAIN j.seen = {<<j.request.tenant>>}
          /\ j.seen[<<j.request.tenant>>].status = "active" => "tenant" \in h
    /\ j.at \notin {"access", "caller", "ask", "askCaller"} /\ j.request.by \notin PlatformAdmin =>
          {"tenant", "caller"} \subseteq h
    /\ j.request.op = "newAsset" => j.visited \subseteq h

\* The session of a change to a tenant holds what was found, until the commit.
SessionOK(j, tn, mb) ==
    LET x == j.request.tenant
        me == <<x, j.request.by>>
    IN  j.request.op \in Tenancies /\ j.request.by \notin PlatformAdmin /\ j.at # "access" =>
          /\ <<x>> \in DOMAIN j.seen /\ tn[x] # Absent
          /\ j.at # "caller" =>
                /\ j.seen[<<x>>].status = "active"
                /\ me \in DOMAIN j.seen /\ mb[me] # Absent
                /\ j.seen[me].active = TRUE /\ j.seen[me].role = "org_admin"

Moves(r) == r.op = "setUnit" /\ "parent" \in DOMAIN r.set

\* The department to be changed is one of the tenant, and so are those passed on the way
\* up; the new parent is the first of them.
PathOK(j, un) ==
    LET r == j.request
    IN  r.op \in {"newUnit", "setUnit"} /\ j.at \in {"walk", "commit"} =>
          /\ r.op = "setUnit" =>
               /\ un[r.target] # Absent /\ un[r.target].tenant = r.tenant
               /\ r.target \notin j.visited
          /\ Parent(r) # None =>
               /\ j.visited \subseteq Unit
               /\ \A v \in j.visited : un[v] # Absent /\ un[v].tenant = r.tenant
               /\ Parent(r) \in j.visited \cup {j.cursor}
               /\ j.at = "walk" => j.cursor \in Department
               /\ j.at = "commit" => j.cursor = None

JobOK(t, j, h, s, tn, mb, un) ==
    ShapeOK(t, j, s) /\ GrantsOK(j, h) /\ SessionOK(j, tn, mb) /\ PathOK(j, un)

JobsOK ==
    /\ DOMAIN job = Thread /\ DOMAIN held = Thread
    /\ \A t \in Thread : job[t] # NoJob => JobOK(t, job[t], held[t], setting, tenants, members, units)

AssetsInv == TablesOK /\ JobsOK

-----------------------------------------------------------------------------
(* Facts about requests *)

\* What a request of the setting says of tenants, members and departments is well typed.
LEMMA SettingFacts ==
    ASSUME TablesOK, NEW t \in Thread, NEW r \in setting.requests[t]
    PROVE  /\ r.by \in User /\ r.tenant \in Tenant /\ Body(r)
           /\ r.op \in {"putMember", "setMember"} => r.target \in User
           /\ r.op \in {"newUnit", "setUnit"} => r.target \in Unit
BY SettingsAssumption DEF TablesOK

\* Only a department is ever given as a parent.
LEMMA ParentFacts ==
    ASSUME TablesOK, NEW t \in Thread, NEW r \in setting.requests[t], r.op \in {"newUnit", "setUnit"}
    PROVE  Parent(r) \in Department \cup {None} /\ None \notin Department
<1>1. None \notin Department
  BY UnitAssumption DEF Unit
<1>2. Body(r)
  BY SettingFacts
<1>3. CASE r.op = "newUnit"
  <2>1. Typed(r.set, [parent |-> Department])
    BY <1>2, <1>3 DEF Body
  <2> QED  BY <1>1, <2>1 DEF Typed, Parent
<1>4. CASE r.op = "setUnit"
  <2>1. Typed(r.set, [status |-> {"active", "inactive"}, parent |-> Department \cup {None}])
    BY <1>2, <1>4 DEF Body
  <2> QED  BY <1>1, <2>1 DEF Typed, Parent
<1> QED  BY <1>3, <1>4

\* A path of one is no path of two.
LEMMA TuplesDiffer == ASSUME NEW a, NEW b, NEW c  PROVE <<a>> # <<b, c>>
<1>1. DOMAIN <<a>> = 1..1 /\ DOMAIN <<b, c>> = 1..2
  OBVIOUS
<1>2. 2 \in 1..2 /\ 2 \notin 1..1
  OBVIOUS
<1> QED  BY <1>1, <1>2

-----------------------------------------------------------------------------
(* The steps that read *)

Fine(t, j, h) == JobOK(t, j, h, setting, tenants, members, units)

\* What is known of a request that is being handled.
LEMMA JobFacts ==
    ASSUME TablesOK, NEW t \in Thread, DOMAIN job = Thread, NEW h, Fine(t, job[t], h)
    PROVE  LET r == job[t].request
           IN  /\ DOMAIN job[t] = {"at", "request", "seen", "visited", "cursor"}
               /\ r \in setting.requests[t] /\ job[t].at \in Places(r.op)
               /\ r.op \in Tenancies \cup {"newAsset", "link"}
               /\ r.by \in User /\ r.tenant \in Tenant /\ Body(r)
               /\ <<r.tenant, r.by>> \in Membership
               /\ r.op \in {"newUnit", "setUnit"} => r.target \in Unit
               /\ r.op \in {"putMember", "setMember"} => <<r.tenant, r.target>> \in Membership
BY SettingFacts DEF Fine, JobOK, ShapeOK, Membership

\* Reading the tenant keeps what a request has seen to what was in force meanwhile.
LEMMA ReadTenantKeeps ==
    ASSUME TablesOK, NEW t \in Thread, DOMAIN job = Thread, NEW h, NEW k, Fine(t, job[t], h),
           ReadTenant(t), h \cup InForce(job[t].request) \subseteq k
    PROVE  Fine(t, job'[t], k)
<1> DEFINE j == job[t]
           r == j.request
           n == job'[t]
           here == Allowed(r)
<1>1. /\ j.at = "access" /\ tenants[r.tenant] # Absent
      /\ n.at = IF r.by \in PlatformAdmin THEN here ELSE "caller"
      /\ n.seen = Keep(t, <<r.tenant>>, tenants[r.tenant])
      /\ n.request = r /\ n.visited = j.visited /\ n.cursor = j.cursor /\ DOMAIN n = DOMAIN j
  BY JobFacts DEF ReadTenant, GoWith, Become
<1>2. /\ r.op \in {"setTenant", "putMember", "setMember", "newUnit", "setUnit"}
      /\ DOMAIN j.seen = {} /\ j.visited = {} /\ r \in setting.requests[t]
      /\ DOMAIN j = {"at", "request", "seen", "visited", "cursor"}
  BY <1>1 DEF Fine, JobOK, ShapeOK, Places, Tenancies
<1>3. DOMAIN n.seen = {<<r.tenant>>} /\ n.seen[<<r.tenant>>] = tenants[r.tenant]
  <2> DEFINE id == <<r.tenant>>
             row == tenants[r.tenant]
  <2>1. row # Absent /\ n.seen = Keep(t, id, row) /\ DOMAIN job[t].seen = {}
    BY <1>1, <1>2
  <2> HIDE DEF id, row, n
  <2>3. DOMAIN n.seen = {id} /\ n.seen[id] = row
    BY <2>1 DEF Keep
  <2> QED  BY <2>3 DEF id, row
<1>4. here \in {"commit", "member", "unit"} /\ (here = "commit" => r.op = "setTenant")
      /\ here \in Places(r.op) /\ "caller" \in Places(r.op)
  BY <1>2 DEF Allowed, Places
<1>5. tenants[r.tenant].status = "active" => "tenant" \in k
  BY DEF InForce
<1> HIDE DEF n, here
<1>6. ShapeOK(t, n, setting)
  BY <1>1, <1>2, <1>4 DEF ShapeOK, Tenancies
<1>7. GrantsOK(n, k)
  BY <1>1, <1>2, <1>3, <1>4, <1>5 DEF GrantsOK
<1>8. SessionOK(n, tenants, members)
  BY <1>1, <1>2, <1>3, <1>4 DEF SessionOK
<1>9. PathOK(n, units)
  BY <1>1, <1>2, <1>4 DEF PathOK
<1> QED  BY <1>6, <1>7, <1>8, <1>9 DEF Fine, JobOK, n

\* Reading the caller's membership keeps it.
LEMMA ReadCallerKeeps ==
    ASSUME TablesOK, NEW t \in Thread, DOMAIN job = Thread, NEW h, NEW k, Fine(t, job[t], h),
           ReadCaller(t), h \cup InForce(job[t].request) \subseteq k
    PROVE  Fine(t, job'[t], k)
<1> DEFINE j == job[t]
           r == j.request
           n == job'[t]
           here == Allowed(r)
           x == <<r.tenant>>
           me == <<r.tenant, r.by>>
           row == members[me]
<1>1. /\ j.at = "caller" /\ IsOrgAdmin(row) /\ j.seen[x].status = "active"
      /\ n.at = here /\ n.seen = Keep(t, me, row)
      /\ n.request = r /\ n.visited = j.visited /\ n.cursor = j.cursor /\ DOMAIN n = DOMAIN j
  BY JobFacts DEF ReadCaller, GoWith, Become
<1>2. /\ r.op \in {"setTenant", "putMember", "setMember", "newUnit", "setUnit"}
      /\ j.visited = {} /\ r \in setting.requests[t] /\ me \in Membership
      /\ DOMAIN j = {"at", "request", "seen", "visited", "cursor"}
      /\ DOMAIN j.seen = {x} /\ "tenant" \in h
  BY <1>1, JobFacts DEF Fine, JobOK, ShapeOK, GrantsOK, Places, Tenancies
<1>3. row # Absent /\ row.active /\ row.role = "org_admin" /\ row.active \in BOOLEAN
  BY <1>1, <1>2 DEF IsOrgAdmin, IsActive, TablesOK, MemberOK
<1>4. here \in {"commit", "member", "unit"} /\ (here = "commit" => r.op = "setTenant")
      /\ here \in Places(r.op)
  BY <1>2 DEF Allowed, Places
<1>5. "caller" \in k /\ "tenant" \in k
  BY <1>1, <1>2 DEF InForce
<1>6. r.by \notin PlatformAdmin => tenants[r.tenant] # Absent
  BY <1>1, <1>2 DEF Fine, JobOK, SessionOK, Tenancies
<1>7. x # me
  BY TuplesDiffer
<1>8. DOMAIN n.seen = {x, me} /\ n.seen[x] = j.seen[x] /\ n.seen[me] = row
  <2>1. n.seen = Keep(t, me, row) /\ row # Absent /\ DOMAIN job[t].seen = {x} /\ x # me
    BY <1>1, <1>2, <1>3, <1>7
  <2> HIDE DEF x, me, row, n
  <2> QED  BY <2>1 DEF Keep
<1> HIDE DEF n, here
<1>9. ShapeOK(t, n, setting)
  BY <1>1, <1>2, <1>4 DEF ShapeOK, Tenancies
<1>10. GrantsOK(n, k)
  BY <1>1, <1>2, <1>4, <1>5 DEF GrantsOK
<1>11. SessionOK(n, tenants, members)
  BY <1>1, <1>2, <1>3, <1>4, <1>6, <1>8 DEF SessionOK
<1>12. PathOK(n, units)
  BY <1>1, <1>2, <1>4 DEF PathOK
<1> QED  BY <1>9, <1>10, <1>11, <1>12 DEF Fine, JobOK, n

\* Reading the member to be changed keeps it.
LEMMA ReadMemberKeeps ==
    ASSUME TablesOK, NEW t \in Thread, DOMAIN job = Thread, NEW h, NEW k, Fine(t, job[t], h),
           ReadMember(t), h \cup InForce(job[t].request) \subseteq k
    PROVE  Fine(t, job'[t], k)
<1> DEFINE j == job[t]
           r == j.request
           n == job'[t]
           it == <<r.tenant, r.target>>
           row == members[it]
<1>1. /\ j.at = "member" /\ n.at = "commit" /\ n.seen = Keep(t, it, row)
      /\ n.request = r /\ n.visited = j.visited /\ n.cursor = j.cursor /\ DOMAIN n = DOMAIN j
  BY JobFacts DEF ReadMember, GoWith, Become
<1>2. /\ r.op \in {"putMember", "setMember"}
      /\ r \in setting.requests[t]
      /\ DOMAIN j = {"at", "request", "seen", "visited", "cursor"}
  BY <1>1 DEF Fine, JobOK, ShapeOK, Places, Tenancies
<1>3. DOMAIN j.seen \subseteq DOMAIN n.seen /\ \A i \in DOMAIN j.seen : n.seen[i] = j.seen[i]
  BY <1>1 DEF Keep
<1> HIDE DEF n
<1>4. ShapeOK(t, n, setting)
  BY <1>1, <1>2 DEF ShapeOK, Tenancies, Places
<1>5. GrantsOK(n, k)
  BY <1>1, <1>2 DEF GrantsOK, Fine, JobOK
<1>6. SessionOK(n, tenants, members)
  BY <1>1, <1>2, <1>3 DEF SessionOK, Fine, JobOK, Tenancies
<1>7. PathOK(n, units)
  BY <1>1, <1>2 DEF PathOK
<1> QED  BY <1>4, <1>5, <1>6, <1>7 DEF Fine, JobOK, n

\* Reading the department to be changed keeps it.
LEMMA ReadUnitKeeps ==
    ASSUME TablesOK, NEW t \in Thread, DOMAIN job = Thread, NEW h, NEW k, Fine(t, job[t], h),
           ReadUnit(t), h \cup InForce(job[t].request) \subseteq k
    PROVE  Fine(t, job'[t], k)
<1> DEFINE j == job[t]
           r == j.request
           n == job'[t]
           row == units[r.target]
           top == Parent(r)
<1>1. /\ j.at = "unit" /\ (r.op = "setUnit" => row # Absent /\ row.tenant = r.tenant)
      /\ n.at = (IF top = None THEN "commit" ELSE "walk") /\ n.cursor = top
      /\ n.seen = (IF r.op = "setUnit" THEN Keep(t, <<r.target>>, row) ELSE j.seen)
      /\ n.request = r /\ n.visited = j.visited /\ DOMAIN n = DOMAIN j
  BY JobFacts DEF ReadUnit, Become
<1>2. /\ r.op \in {"newUnit", "setUnit"} /\ j.visited = {}
      /\ r \in setting.requests[t]
      /\ DOMAIN j = {"at", "request", "seen", "visited", "cursor"}
  BY <1>1 DEF Fine, JobOK, ShapeOK, Places, Tenancies
<1>3. DOMAIN j.seen \subseteq DOMAIN n.seen /\ \A i \in DOMAIN j.seen : n.seen[i] = j.seen[i]
  BY <1>1 DEF Keep
<1>4. top \in Department \cup {None}
  BY <1>2, ParentFacts
<1> HIDE DEF n
<1>5. ShapeOK(t, n, setting)
  BY <1>1, <1>2 DEF ShapeOK, Tenancies, Places
<1>6. GrantsOK(n, k)
  BY <1>1, <1>2 DEF GrantsOK, Fine, JobOK
<1>7. SessionOK(n, tenants, members)
  BY <1>1, <1>2, <1>3 DEF SessionOK, Fine, JobOK, Tenancies
<1>8. PathOK(n, units)
  BY <1>1, <1>2, <1>4 DEF PathOK
<1> QED  BY <1>5, <1>6, <1>7, <1>8 DEF Fine, JobOK, n

\* Another step up: what was passed is not the department moved, and leads on.
LEMMA WalkKeeps ==
    ASSUME TablesOK, NEW t \in Thread, DOMAIN job = Thread, NEW h, NEW k, Fine(t, job[t], h),
           Walk(t), h \cup InForce(job[t].request) \subseteq k
    PROVE  Fine(t, job'[t], k)
<1> DEFINE j == job[t]
           r == j.request
           n == job'[t]
           c == j.cursor
           up == units[c].parent
<1>1. /\ j.at = "walk" /\ units[c] # Absent /\ units[c].tenant = r.tenant
      /\ r.op = "setUnit" => c # r.target
      /\ n.at = (IF up = None THEN "commit" ELSE "walk") /\ n.cursor = up
      /\ n.visited = j.visited \cup {c} /\ n.seen = j.seen
      /\ n.request = r /\ DOMAIN n = DOMAIN j
  BY JobFacts DEF Walk, Become
<1>2. /\ r.op \in {"newUnit", "setUnit"}
      /\ r \in setting.requests[t]
      /\ DOMAIN j = {"at", "request", "seen", "visited", "cursor"}
  BY <1>1 DEF Fine, JobOK, ShapeOK, Places, Tenancies
<1>3. PathOK(j, units)
  BY DEF Fine, JobOK
<1> HIDE DEF n
<1>5. ShapeOK(t, n, setting)
  BY <1>1, <1>2 DEF ShapeOK, Tenancies, Places
<1>6. GrantsOK(n, k)
  BY <1>1, <1>2 DEF GrantsOK, Fine, JobOK
<1>7. SessionOK(n, tenants, members)
  BY <1>1, <1>2 DEF SessionOK, Fine, JobOK, Tenancies
<1>8. PathOK(n, units)
  <2>1. CASE Parent(r) # None
    <3>1. c \in Department /\ c \in Unit
      BY <1>1, <1>2, <1>3, <2>1 DEF PathOK, Unit
    <3>2. up \in Department \cup {None}
      BY <1>1, <3>1 DEF TablesOK, UnitOK
    <3> QED  BY <1>1, <1>2, <1>3, <2>1, <3>1, <3>2 DEF PathOK
  <2>2. CASE Parent(r) = None
    BY <1>1, <1>2, <1>3, <2>2 DEF PathOK
  <2> QED  BY <2>1, <2>2
<1> QED  BY <1>5, <1>6, <1>7, <1>8 DEF Fine, JobOK, n

\* The reading steps of asset-service: no session of theirs reaches a commit to a tenant.
LEMMA AskTenantKeeps ==
    ASSUME TablesOK, NEW t \in Thread, DOMAIN job = Thread, NEW h, NEW k, Fine(t, job[t], h),
           AskTenant(t), h \cup InForce(job[t].request) \subseteq k
    PROVE  Fine(t, job'[t], k)
<1> DEFINE j == job[t]
           r == j.request
           n == job'[t]
           id == <<r.tenant>>
           row == tenants[r.tenant]
<1>1. /\ j.at = "ask" /\ row # Absent /\ n.at = "askCaller" /\ n.seen = Keep(t, id, row)
      /\ n.request = r /\ n.visited = j.visited /\ DOMAIN n = DOMAIN j
  BY JobFacts DEF AskTenant, GoWith, Become
<1>2. /\ r.op \in {"newAsset", "link"} /\ r \in setting.requests[t] /\ DOMAIN j.seen = {}
      /\ DOMAIN j = {"at", "request", "seen", "visited", "cursor"}
  BY <1>1 DEF Fine, JobOK, ShapeOK, Places, Tenancies
<1>3. DOMAIN n.seen = {id} /\ n.seen[id] = row
  <2>1. row # Absent /\ n.seen = Keep(t, id, row) /\ DOMAIN job[t].seen = {}
    BY <1>1, <1>2
  <2> HIDE DEF id, row, n
  <2> QED  BY <2>1 DEF Keep
<1>4. row.status = "active" => "tenant" \in k
  BY DEF InForce
<1> HIDE DEF n
<1>5. ShapeOK(t, n, setting)
  BY <1>1, <1>2 DEF ShapeOK, Places, Tenancies
<1>6. GrantsOK(n, k)
  BY <1>1, <1>2, <1>3, <1>4 DEF GrantsOK, Fine, JobOK
<1>7. SessionOK(n, tenants, members) /\ PathOK(n, units)
  BY <1>1, <1>2 DEF SessionOK, PathOK, Tenancies
<1> QED  BY <1>5, <1>6, <1>7 DEF Fine, JobOK, n

\* Asking tenant-service for the caller's role keeps it.
LEMMA AskCallerKeeps ==
    ASSUME TablesOK, NEW t \in Thread, DOMAIN job = Thread, NEW h, NEW k, Fine(t, job[t], h),
           AskCaller(t), h \cup InForce(job[t].request) \subseteq k
    PROVE  Fine(t, job'[t], k)
<1> DEFINE j == job[t]
           r == j.request
           n == job'[t]
<1>1. /\ j.at = "askCaller" /\ j.seen[<<r.tenant>>].status = "active"
      /\ IsOrgAdmin(members[<<r.tenant, r.by>>])
      /\ n.at = (IF r.op = "newAsset" THEN "references" ELSE "existing") /\ n.seen = j.seen
      /\ n.request = r /\ n.visited = j.visited /\ DOMAIN n = DOMAIN j
  BY JobFacts DEF AskCaller, Go, Become
<1>2. /\ r.op \in {"newAsset", "link"} /\ r \in setting.requests[t]
      /\ DOMAIN j = {"at", "request", "seen", "visited", "cursor"} /\ "tenant" \in h
  BY <1>1 DEF Fine, JobOK, ShapeOK, GrantsOK, Places, Tenancies
<1>3. "caller" \in k
  BY <1>1 DEF InForce
<1> HIDE DEF n
<1>4. ShapeOK(t, n, setting)
  BY <1>1, <1>2 DEF ShapeOK, Places, Tenancies
<1>5. GrantsOK(n, k)
  BY <1>1, <1>2, <1>3 DEF GrantsOK, Fine, JobOK
<1>6. SessionOK(n, tenants, members) /\ PathOK(n, units)
  BY <1>1, <1>2 DEF SessionOK, PathOK, Tenancies
<1> QED  BY <1>4, <1>5, <1>6 DEF Fine, JobOK, n

\* Going over the references of an asset keeps it.
LEMMA ReferencesKeeps ==
    ASSUME TablesOK, NEW t \in Thread, DOMAIN job = Thread, NEW h, NEW k, Fine(t, job[t], h),
           References(t), h \cup InForce(job[t].request) \subseteq k
    PROVE  Fine(t, job'[t], k)
<1> DEFINE j == job[t]
           r == j.request
           n == job'[t]
<1>1. /\ j.at = "references" /\ n.at \in {"refs", "reader"}
      /\ n.seen = [i \in {<<r.tenant>>} |-> tenants[r.tenant]]
      /\ n.request = r /\ n.visited = j.visited /\ DOMAIN n = DOMAIN j
  BY JobFacts DEF References, Become
<1>2. /\ r.op = "newAsset" /\ r \in setting.requests[t]
      /\ DOMAIN j = {"at", "request", "seen", "visited", "cursor"}
  BY <1>1 DEF Fine, JobOK, ShapeOK, Places, Tenancies
<1>3. tenants[r.tenant].status = "active" => "tenant" \in k
  BY DEF InForce
<1> HIDE DEF n
<1>4. ShapeOK(t, n, setting)
  BY <1>1, <1>2 DEF ShapeOK, Places, Tenancies
<1>5. GrantsOK(n, k)
  BY <1>1, <1>2, <1>3 DEF GrantsOK, Fine, JobOK
<1>6. SessionOK(n, tenants, members) /\ PathOK(n, units)
  BY <1>1, <1>2 DEF SessionOK, PathOK, Tenancies
<1> QED  BY <1>4, <1>5, <1>6 DEF Fine, JobOK, n

\* Reading the reader of an asset or its link keeps it.
LEMMA ReaderOrLinkKeeps ==
    ASSUME TablesOK, NEW t \in Thread, DOMAIN job = Thread, NEW h, NEW k, Fine(t, job[t], h),
           ReadReader(t) \/ ReadLink(t), h \subseteq k
    PROVE  Fine(t, job'[t], k)
<1> DEFINE j == job[t]
           r == j.request
           n == job'[t]
<1>1. /\ \/ j.at = "reader" /\ n.at = "refs"
         \/ j.at = "existing" /\ n.at = "linking"
      /\ n.seen = j.seen /\ n.request = r /\ n.visited = j.visited /\ DOMAIN n = DOMAIN j
  BY JobFacts DEF ReadReader, ReadLink, Go, Become
<1>2. /\ j.at = "reader" => r.op = "newAsset"
      /\ j.at = "existing" => r.op = "link"
      /\ r \in setting.requests[t]
      /\ DOMAIN j = {"at", "request", "seen", "visited", "cursor"}
  BY <1>1 DEF Fine, JobOK, ShapeOK, Places, Tenancies
<1> HIDE DEF n
<1>3. ShapeOK(t, n, setting)
  BY <1>1, <1>2 DEF ShapeOK, Places, Tenancies
<1>4. GrantsOK(n, k)
  BY <1>1, <1>2 DEF GrantsOK, Fine, JobOK
<1>5. SessionOK(n, tenants, members) /\ PathOK(n, units)
  BY <1>1, <1>2 DEF SessionOK, PathOK, Tenancies
<1> QED  BY <1>3, <1>4, <1>5 DEF Fine, JobOK, n

\* Reading one reference of an asset keeps it.
LEMMA ReadReferenceKeeps ==
    ASSUME TablesOK, NEW t \in Thread, DOMAIN job = Thread, NEW h, NEW k, Fine(t, job[t], h),
           NEW u \in Unit, ReadReference(t, u), h \cup InForce(job[t].request) \subseteq k
    PROVE  Fine(t, job'[t], k)
<1> DEFINE j == job[t]
           r == j.request
           n == job'[t]
<1>1. /\ j.at = "refs" /\ n.at = "refs" /\ n.visited = j.visited \cup {u}
      /\ n.seen = j.seen /\ n.request = r /\ DOMAIN n = DOMAIN j
      /\ units[u].status = "active" /\ units[u].tenant = r.tenant
  BY JobFacts DEF ReadReference, Become
<1>2. /\ r.op = "newAsset" /\ r \in setting.requests[t]
      /\ DOMAIN j = {"at", "request", "seen", "visited", "cursor"}
  BY <1>1 DEF Fine, JobOK, ShapeOK, Places, Tenancies
<1>3. u \in k
  BY <1>1 DEF InForce
<1> HIDE DEF n
<1>4. ShapeOK(t, n, setting)
  BY <1>1, <1>2 DEF ShapeOK, Places, Tenancies
<1>5. GrantsOK(n, k)
  BY <1>1, <1>2, <1>3 DEF GrantsOK, Fine, JobOK
<1>6. SessionOK(n, tenants, members) /\ PathOK(n, units)
  BY <1>1, <1>2 DEF SessionOK, PathOK, Tenancies
<1> QED  BY <1>4, <1>5, <1>6 DEF Fine, JobOK, n

\* A request comes in with an empty session.
LEMMA ArrivesFine ==
    ASSUME TablesOK, NEW t \in Thread, DOMAIN job = Thread, NEW k, NEW r \in setting.requests[t],
           Begin(t, r) \/ BeginAsset(t, r)
    PROVE  Fine(t, job'[t], k)
<1> DEFINE n == job'[t]
<1>1. /\ DOMAIN n = {"at", "request", "seen", "visited", "cursor"}
      /\ n.request = r /\ DOMAIN n.seen = {} /\ n.visited = {}
      /\ \/ r.op = "newTenant" /\ n.at = "commit" /\ r.by \in PlatformAdmin
         \/ r.op \in Tenancies \ {"newTenant"} /\ n.at = "access"
         \/ r.op \in {"newAsset", "link"} /\ n.at = "ask"
         \/ r.op = "newAsset" /\ n.at = "references" /\ r.by \in PlatformAdmin
         \/ r.op = "link" /\ n.at = "existing" /\ r.by \in PlatformAdmin
  BY DEF Begin, BeginAsset, Become, NewJob, Tenancies, LeaveFor
<1> HIDE DEF n
<1>2. ShapeOK(t, n, setting)
  BY <1>1 DEF ShapeOK, Places, Tenancies
<1>3. GrantsOK(n, k)
  BY <1>1 DEF GrantsOK, Tenancies
<1>4. SessionOK(n, tenants, members) /\ PathOK(n, units)
  BY <1>1 DEF SessionOK, PathOK, Tenancies
<1> QED  BY <1>2, <1>3, <1>4 DEF Fine, JobOK, n

-----------------------------------------------------------------------------
(* The steps that write *)

\* No row goes, and no department changes its tenant.
Grows ==
    /\ \A x \in Tenant : tenants[x] # Absent => tenants'[x] # Absent
    /\ \A m \in Membership : members[m] # Absent => members'[m] # Absent
    /\ \A u \in Unit : units[u] # Absent =>
          units'[u] # Absent /\ units'[u].tenant = units[u].tenant

\* A request that creates or changes a tenant writes what its caller was allowed, in its own tenant.
LEMMA TenantWrites ==
    ASSUME TablesOK, NEW t \in Thread, DOMAIN job = Thread, NEW h, Fine(t, job[t], h),
           CreateTenant(t) \/ UpdateTenant(t), UNCHANGED setting
    PROVE  /\ TablesOK' /\ Grows /\ UNCHANGED <<members, units>>
           /\ \A x \in Tenant : x # job[t].request.tenant => tenants'[x] = tenants[x]
<1> DEFINE r == job[t].request
           x == r.tenant
           row == tenants'[x]
<1>1. x \in Tenant /\ TenantOK(tenants[x]) /\ Body(r)
  BY JobFacts DEF TablesOK
<1>2. /\ UNCHANGED <<members, units>> /\ DOMAIN tenants' = Tenant
      /\ \A y \in Tenant : y # x => tenants'[y] = tenants[y]
  BY <1>1 DEF CreateTenant, UpdateTenant, TablesOK
<1>3. TenantOK(row) /\ (tenants[x] # Absent => row # Absent)
  <2>1. CASE CreateTenant(t)
    BY <1>1, <2>1 DEF CreateTenant, TablesOK, TenantOK, TenantRow, Absent
  <2>2. CASE UpdateTenant(t)
    <3>1. row = Written(tenants[x], job[t].seen[<<x>>], r.set)
          /\ Typed(r.set, [status |-> {"active", "suspended"}])
      BY <1>1, <2>2 DEF UpdateTenant, TablesOK, Body
    <3>2. PICK s \in {"absent", "active", "suspended"} : tenants[x] = [status |-> s]
      BY <1>1 DEF TenantOK, TenantRow, Absent
    <3>3. row = [status |-> s] \/ \E y \in {"active", "suspended"} : row = [status |-> y]
      BY <3>1, <3>2 DEF Written, Typed
    <3> QED  BY <3>2, <3>3 DEF TenantOK, TenantRow, Absent
  <2> QED  BY <2>1, <2>2
<1> HIDE DEF row
<1>4. TablesOK'
  BY <1>1, <1>2, <1>3 DEF TablesOK, row
<1>5. Grows
  BY <1>2, <1>3 DEF Grows, row
<1> QED  BY <1>2, <1>4, <1>5

\* A request that changes a member writes what its caller was allowed.
LEMMA MemberWrites ==
    ASSUME TablesOK, NEW t \in Thread, DOMAIN job = Thread, NEW h, Fine(t, job[t], h),
           ChangeMember(t), UNCHANGED setting
    PROVE  /\ TablesOK' /\ Grows /\ UNCHANGED <<tenants, units>>
<1> DEFINE r == job[t].request
           id == <<r.tenant, r.target>>
           row == members'[id]
           old == members[id]
<1>1. r.op \in {"putMember", "setMember"} /\ UNCHANGED <<tenants, units>>
      /\ id \in Membership /\ MemberOK(old) /\ Body(r)
  BY JobFacts DEF ChangeMember, TablesOK
<1>2. /\ DOMAIN members' = Membership /\ \A m \in Membership : m # id => members'[m] = members[m]
      /\ \/ row = Written(old, job[t].seen[id], r.set)
         \/ old = Absent /\ row = MemberRow(r.set.role, TRUE)
  BY <1>1 DEF ChangeMember, TablesOK
<1>3. DOMAIN r.set \subseteq {"role", "active"} /\ ("active" \in DOMAIN r.set => r.set.active \in BOOLEAN)
  BY <1>1 DEF Body, Typed
<1> HIDE DEF row, id, r
<1>4. MemberOK(row) /\ (old # Absent => row # Absent)
  <2>1. CASE row = MemberRow(r.set.role, TRUE) /\ old = Absent
    BY <2>1 DEF MemberOK, MemberRow
  <2>2. CASE row = Written(old, job[t].seen[id], r.set) /\ old = Absent
    BY <1>3, <2>2 DEF MemberOK, Written, Absent
  <2>3. CASE row = Written(old, job[t].seen[id], r.set) /\ old # Absent
    <3>1. DOMAIN old = {"status", "role", "active"} /\ old.active \in BOOLEAN
      BY <1>1, <2>3 DEF MemberOK
    <3>2. DOMAIN row = {"status", "role", "active"} /\ row.active \in BOOLEAN
      BY <1>3, <2>3, <3>1 DEF Written
    <3>3. "role" \in DOMAIN row /\ "role" \notin DOMAIN Absent
      BY <3>2 DEF Absent
    <3> QED  BY <3>2, <3>3 DEF MemberOK
  <2> QED  BY <1>2, <2>1, <2>2, <2>3
<1>5. TablesOK'
  BY <1>1, <1>2, <1>4 DEF TablesOK, row
<1>6. Grows
  BY <1>1, <1>2, <1>4 DEF Grows, row
<1> QED  BY <1>1, <1>5, <1>6

\* A new unit belongs to none or to a department that exists.
LEMMA NewUnitWrites ==
    ASSUME TablesOK, NEW t \in Thread, DOMAIN job = Thread, NEW h, Fine(t, job[t], h),
           job[t].at = "commit", CreateUnit(t), UNCHANGED setting
    PROVE  LET u == job[t].request.target
               p == Parent(job[t].request)
           IN  /\ TablesOK' /\ Grows /\ UNCHANGED <<tenants, members>>
               /\ u \in Unit /\ units[u] = Absent
               /\ \A v \in Unit : v # u => units'[v] = units[v]
               /\ units'[u].parent = p
               /\ p # None => p \in Department /\ units[p] # Absent
<1> DEFINE r == job[t].request
           u == r.target
           p == Parent(r)
           row == UnitRow(r.tenant, p)
<1>1. /\ r.op = "newUnit" /\ UNCHANGED <<tenants, members>> /\ units[u] = Absent
      /\ u \in Unit /\ r \in setting.requests[t]
      /\ DOMAIN units' = Unit /\ units'[u] = row /\ \A v \in Unit : v # u => units'[v] = units[v]
  BY JobFacts DEF CreateUnit, TablesOK
<1>2. p # None => p \in Department /\ p \in Unit /\ units[p] # Absent
  <2>1. p \in Department \cup {None}
    BY <1>1, ParentFacts
  <2>2. p # None => p \in job[t].visited /\ \A v \in job[t].visited : units[v] # Absent
    BY <1>1 DEF Fine, JobOK, PathOK
  <2> QED  BY <2>1, <2>2 DEF Unit
<1>3. row # Absent /\ DOMAIN row = {"status", "tenant", "parent"} /\ row.parent = p
  <2>1. DOMAIN row = {"status", "tenant", "parent"} /\ row.parent = p
    BY DEF UnitRow
  <2>2. "parent" \in DOMAIN row /\ "parent" \notin DOMAIN Absent
    BY <2>1 DEF Absent
  <2> QED  BY <2>1, <2>2
<1> HIDE DEF row, p, u
<1>4. \A v \in Unit : units[v] # Absent => units'[v] = units[v]
  BY <1>1
<1>5. UnitOK(row, units')
  BY <1>2, <1>3, <1>4 DEF UnitOK
<1>6. \A v \in Unit : v # u => UnitOK(units'[v], units')
  BY <1>1, <1>4 DEF UnitOK, TablesOK, Unit
<1>7. TablesOK'
  BY <1>1, <1>5, <1>6 DEF TablesOK
<1>8. Grows
  BY <1>1, <1>4 DEF Grows
<1> QED  BY <1>1, <1>2, <1>3, <1>7, <1>8 DEF p, u

\* A unit that is changed keeps its parent or gets the one that was looked at.
LEMMA UnitWrites ==
    ASSUME TablesOK, NEW t \in Thread, DOMAIN job = Thread, NEW h, Fine(t, job[t], h),
           job[t].at = "commit", UpdateUnit(t), UNCHANGED setting
    PROVE  LET u == job[t].request.target
               p == Parent(job[t].request)
           IN  /\ TablesOK' /\ Grows /\ UNCHANGED <<tenants, members>>
               /\ u \in Unit /\ units[u] # Absent /\ units'[u] # Absent
               /\ units[u].tenant = job[t].request.tenant
               /\ \A v \in Unit : v # u => units'[v] = units[v]
               /\ \/ units'[u].parent = units[u].parent
                  \/ Moves(job[t].request) /\ units'[u].parent = p
               /\ p # None => p \in Department /\ units[p] # Absent
<1> DEFINE r == job[t].request
           u == r.target
           p == Parent(r)
           row == units'[u]
           old == units[u]
<1>1. /\ r.op = "setUnit" /\ UNCHANGED <<tenants, members>>
      /\ u \in Unit /\ r \in setting.requests[t] /\ Body(r)
      /\ DOMAIN units' = Unit /\ row = Written(old, job[t].seen[<<u>>], r.set)
      /\ \A v \in Unit : v # u => units'[v] = units[v]
  BY JobFacts DEF UpdateUnit, TablesOK
<1>2. /\ old # Absent /\ old.tenant = r.tenant
      /\ p # None => p \in job[t].visited /\ \A v \in job[t].visited : units[v] # Absent
  BY <1>1 DEF Fine, JobOK, PathOK
<1>3. p # None => p \in Department /\ p \in Unit /\ units[p] # Absent
  <2>1. p \in Department \cup {None}
    BY <1>1, ParentFacts
  <2> QED  BY <1>2, <2>1 DEF Unit
<1>4. /\ DOMAIN old = {"status", "tenant", "parent"}
      /\ old.parent = None \/ (old.parent \in Department /\ units[old.parent] # Absent)
  BY <1>1, <1>2 DEF TablesOK, UnitOK
<1>5. DOMAIN row = {"status", "tenant", "parent"} /\ row.tenant = old.tenant
      /\ (row.parent = old.parent \/ ("parent" \in DOMAIN r.set /\ row.parent = p))
  <2>1. DOMAIN row = {"status", "tenant", "parent"}
        /\ (row.parent = old.parent \/ ("parent" \in DOMAIN r.set /\ row.parent = r.set.parent))
    BY <1>1, <1>4 DEF Written
  <2>2. "parent" \in DOMAIN r.set => p = r.set.parent
    BY DEF Parent
  <2>3. "tenant" \notin DOMAIN r.set
    BY <1>1 DEF Body, Typed
  <2>4. row.tenant = old.tenant
    BY <1>1, <1>4, <2>3 DEF Written
  <2> QED  BY <2>1, <2>2, <2>4
<1>6. row # Absent
  <2>1. "parent" \in DOMAIN row /\ "parent" \notin DOMAIN Absent
    BY <1>5 DEF Absent
  <2> QED  BY <2>1
<1>7. Moves(r) <=> "parent" \in DOMAIN r.set
  BY <1>1 DEF Moves
<1> HIDE DEF row, p, u, r, old
<1>8. \A v \in Unit : units[v] # Absent => units'[v] # Absent
  BY <1>1, <1>6 DEF row
<1>9. UnitOK(row, units')
  BY <1>3, <1>4, <1>5, <1>8 DEF UnitOK, Unit
<1>10. \A v \in Unit : v # u => UnitOK(units'[v], units')
  BY <1>1, <1>8 DEF UnitOK, TablesOK, Unit
<1>11. TablesOK'
  BY <1>1, <1>9, <1>10 DEF TablesOK, row
<1>12. Grows
  BY <1>1, <1>5, <1>6, <1>7, <1>8 DEF Grows, row, old, r
<1> QED  BY <1>1, <1>2, <1>3, <1>5, <1>6, <1>7, <1>11, <1>12 DEF p, u, row, old, r

\* What other threads have found stays true when t writes.
LEMMA OthersKeep ==
    ASSUME TablesOK, NEW t \in Thread, NEW o \in Thread, o # t, NEW k,
           Fine(o, job[o], held[o]), held[o] \subseteq k, UNCHANGED setting,
           UNCHANGED tables \/ Grows
    PROVE  JobOK(o, job[o], k, setting', tenants', members', units')
<1> DEFINE j == job[o]
           r == j.request
<1>1. /\ ShapeOK(o, j, setting) /\ GrantsOK(j, held[o]) /\ SessionOK(j, tenants, members)
      /\ PathOK(j, units)
  BY DEF Fine, JobOK
<1>2. r \in setting.requests[o]
  BY <1>1 DEF ShapeOK
<1>3. /\ r.tenant \in Tenant /\ <<r.tenant, r.by>> \in Membership
      /\ r.op \in {"newUnit", "setUnit"} => r.target \in Unit
  BY <1>2, SettingFacts DEF Membership
<1>4. ShapeOK(o, j, setting') /\ GrantsOK(j, k)
  BY <1>1 DEF ShapeOK, GrantsOK
<1>5. SessionOK(j, tenants', members')
  BY <1>1, <1>3 DEF SessionOK, Grows, tables
<1>6. PathOK(j, units')
  <2>1. CASE UNCHANGED tables
    BY <1>1, <2>1 DEF tables
  <2>2. CASE Grows
    <3> HIDE DEF j, r
    <3> QED  BY <1>1, <1>3, <2>2 DEF PathOK, Grows, r
  <2> QED  BY <2>1, <2>2
<1> QED  BY <1>4, <1>5, <1>6 DEF JobOK

\* What is remembered of a request grows by what is in force after each step.
LEMMA InForceGrows ==
    ASSUME NEW t \in Thread, Remember
    PROVE  /\ DOMAIN held' = Thread
           /\ job'[t] # NoJob => held'[t] = held[t] \cup InForce(job'[t].request)
BY DEF Remember

\* A step of t: it reads or begins, or ends its request and may have written.
LEMMA StepKeeps ==
    ASSUME AssetsInv, NEW t \in Thread, Remember, UNCHANGED setting,
           \/ TenancyStep(t, setting.requests[t])
           \/ AssetStep(t, setting.requests[t])
    PROVE  /\ \A o \in Thread : o # t => job'[o] = job[o]
           /\ TablesOK' /\ DOMAIN job' = Thread
           /\ UNCHANGED tables \/ Grows
           /\ job'[t] # NoJob => Fine(t, job'[t], held'[t]) /\ UNCHANGED tables
<1> DEFINE j == job[t]
           r == j.request
           k == held'[t]
<1>0. /\ TablesOK /\ DOMAIN job = Thread /\ (j # NoJob => Fine(t, j, held[t]))
  BY DEF AssetsInv, JobsOK, Fine
<1>1. j.at # "idle" => j # NoJob
  BY DEF NoJob
<1>2. \E n : job' = [job EXCEPT ![t] = n]
  BY DEF TenancyStep, AssetStep, Begin, ReadTenant, ReadCaller, ReadMember, ReadUnit, Walk, Commit, End,
     BeginAsset, AskTenant, AskCaller, References, ReadReader, ReadReference, CreateAsset, ReadLink, Link,
     GoWith, Go, Become
<1>3. DOMAIN job' = Thread /\ \A o \in Thread : o # t => job'[o] = job[o]
  BY <1>0, <1>2
<1>4. ASSUME UNCHANGED tables  PROVE TablesOK'
  BY <1>0, <1>4 DEF TablesOK, tables
<1>5. CASE \E q \in setting.requests[t] : Begin(t, q) \/ BeginAsset(t, q)
  <2>1. PICK q \in setting.requests[t] : Begin(t, q) \/ BeginAsset(t, q)
    BY <1>5
  <2>2. UNCHANGED tables
    BY <2>1 DEF Begin, BeginAsset
  <2>3. Fine(t, job'[t], k)
    BY <1>0, <2>1, ArrivesFine
  <2> QED  BY <1>3, <1>4, <2>2, <2>3
<1>6. CASE \/ ReadTenant(t) \/ ReadCaller(t) \/ ReadMember(t) \/ ReadUnit(t) \/ Walk(t)
           \/ AskTenant(t) \/ AskCaller(t) \/ References(t) \/ ReadReader(t) \/ ReadLink(t)
           \/ \E u \in Unit : ReadReference(t, u)
  <2>1. j # NoJob /\ UNCHANGED tables
    BY <1>1, <1>6 DEF ReadTenant, ReadCaller, ReadMember, ReadUnit, Walk, AskTenant, AskCaller,
       References, ReadReader, ReadLink, ReadReference
  <2>2. DOMAIN j = {"at", "request", "seen", "visited", "cursor"} /\ Fine(t, j, held[t])
    BY <1>0, <2>1 DEF Fine, JobOK, ShapeOK
  <2>3. job'[t].request = r /\ DOMAIN job'[t] = {"at", "request", "seen", "visited", "cursor"}
    BY <1>0, <1>6, <2>2, ZenonT(30)
    DEF ReadTenant, ReadCaller, ReadMember, ReadUnit, Walk, AskTenant, AskCaller,
       References, ReadReader, ReadLink, ReadReference, GoWith, Go, Become
  <2>4. job'[t] # NoJob
    <3>1. "seen" \in DOMAIN job'[t] /\ "seen" \notin DOMAIN NoJob
      BY <2>3 DEF NoJob
    <3> QED  BY <3>1
  <2>5. held[t] \cup InForce(r) \subseteq k
    BY <2>3, <2>4, InForceGrows
  <2>6. Fine(t, job'[t], k)
    BY <1>0, <1>6, <2>2, <2>5, ReadTenantKeeps, ReadCallerKeeps, ReadMemberKeeps, ReadUnitKeeps,
       WalkKeeps, AskTenantKeeps, AskCallerKeeps, ReferencesKeeps, ReaderOrLinkKeeps,
       ReadReferenceKeeps
  <2> QED  BY <1>3, <1>4, <2>1, <2>6
<1>7. CASE Commit(t)
  <2>1. j # NoJob /\ job'[t] = NoJob /\ j.at = "commit"
    BY <1>0, <1>1, <1>7 DEF Commit, Become
  <2>2. r \in setting.requests[t] /\ Fine(t, j, held[t])
    BY <1>0, <2>1, JobFacts
  <2>3. TablesOK' /\ Grows
    BY <1>0, <1>7, <2>1, <2>2, TenantWrites, MemberWrites, NewUnitWrites, UnitWrites DEF Commit
  <2> QED  BY <1>3, <2>1, <2>2, <2>3
<1>8. CASE End(t) \/ CreateAsset(t) \/ Link(t)
  <2>1. job'[t] = NoJob /\ UNCHANGED tables
    BY <1>0, <1>8 DEF End, CreateAsset, Link, Become
  <2> QED  BY <1>3, <1>4, <2>1
<1> QED  BY <1>5, <1>6, <1>7, <1>8 DEF TenancyStep, AssetStep

\* Every step keeps the invariant.
LEMMA AssetsPreserved == AssetsInv /\ [Next]_vars => AssetsInv'
<1> SUFFICES ASSUME AssetsInv, [Next]_vars  PROVE AssetsInv'
  OBVIOUS
<1>1. CASE UNCHANGED vars
  BY <1>1 DEF vars, tables, AssetsInv, TablesOK, JobsOK
<1>2. CASE Next
  <2>1. PICK t \in Thread :
          /\ TenancyStep(t, setting.requests[t]) \/ AssetStep(t, setting.requests[t])
          /\ Remember /\ UNCHANGED setting
    BY <1>2 DEF Next
  <2>2. /\ \A o \in Thread : o # t => job'[o] = job[o]
        /\ TablesOK' /\ DOMAIN job' = Thread
        /\ UNCHANGED tables \/ Grows
        /\ job'[t] # NoJob => Fine(t, job'[t], held'[t]) /\ UNCHANGED tables
    BY <2>1, StepKeeps
  <2>3. ASSUME NEW o \in Thread, job'[o] # NoJob
        PROVE  JobOK(o, job'[o], held'[o], setting', tenants', members', units')
    <3>1. CASE o = t
      BY <2>1, <2>2, <2>3, <3>1 DEF Fine, tables
    <3>2. CASE o # t
      <4>1. job'[o] = job[o] /\ job[o] # NoJob /\ Fine(o, job[o], held[o]) /\ TablesOK
        BY <2>2, <2>3, <3>2 DEF AssetsInv, JobsOK, Fine
      <4>2. held[o] \subseteq held'[o]
        BY <2>1, <2>3, InForceGrows
      <4>3. JobOK(o, job[o], held'[o], setting', tenants', members', units')
        BY <2>1, <2>2, <3>2, <4>1, <4>2, OthersKeep
      <4> QED  BY <4>1, <4>3
    <3> QED  BY <3>1, <3>2
  <2>4. DOMAIN held' = Thread
    BY <2>1 DEF Remember
  <2> QED  BY <2>2, <2>3, <2>4 DEF AssetsInv, JobsOK
<1> QED  BY <1>1, <1>2

\* At first nothing is being handled.
LEMMA AssetsInitially == Init => AssetsInv
<1> SUFFICES ASSUME Init  PROVE AssetsInv
  OBVIOUS
<1>1. /\ setting \in Settings /\ tenants = setting.tenants /\ members = setting.members
      /\ units = [u \in Unit |-> Absent] /\ job = [t \in Thread |-> NoJob]
      /\ held = [t \in Thread |-> {}]
  BY DEF Init, TenancyInit
<1>2. /\ tenants \in [Tenant -> {Absent} \cup {TenantRow(x) : x \in {"active", "suspended"}}]
      /\ members \in [Membership -> {Absent} \cup {MemberRow(x, a) : x \in Role, a \in BOOLEAN}]
  BY <1>1, SettingsAssumption
<1>3. \A x \in Tenant : TenantOK(tenants[x])
  BY <1>2 DEF TenantOK
<1>4. \A m \in Membership : MemberOK(members[m])
  <2> SUFFICES ASSUME NEW m \in Membership, members[m] # Absent
               PROVE  DOMAIN members[m] = {"status", "role", "active"} /\ members[m].active \in BOOLEAN
    BY DEF MemberOK
  <2>1. PICK x \in Role, a \in BOOLEAN : members[m] = MemberRow(x, a)
    BY <1>2
  <2> QED  BY <2>1 DEF MemberRow
<1>5. TablesOK
  BY <1>1, <1>2, <1>3, <1>4 DEF TablesOK, UnitOK
<1> QED  BY <1>1, <1>5 DEF AssetsInv, JobsOK

-----------------------------------------------------------------------------
(* Theorems *)

\* Whatever a request changes, in either service, all it takes was in force while it was
\* handled, although it was decided on several answers of two services
\* (_tenant_access, enforce_asset_access, validate_references).
THEOREM ChangesAreCovered == Spec => InForceWhenHandled
<1> DEFINE Changed == <<tables, assetTables>>' # <<tables, assetTables>>
           Covered == \A t \in Thread : Changed /\ job[t] # NoJob /\ job'[t] = NoJob =>
                          Needed(job[t].request) \subseteq held[t] \cup InForce(job[t].request)
<1>1. AssetsInv /\ [Next]_vars => [Covered]_vars
  <2> SUFFICES ASSUME AssetsInv, Next, NEW t \in Thread, Changed, job[t] # NoJob, job'[t] = NoJob
               PROVE  Needed(job[t].request) \subseteq held[t]
    OBVIOUS
  <2> DEFINE r == job[t].request
  <2>1. PICK o \in Thread :
          /\ \/ TenancyStep(o, setting.requests[o]) /\ UNCHANGED assetTables
             \/ AssetStep(o, setting.requests[o])
          /\ Remember /\ UNCHANGED setting
    BY DEF Next
  <2>2. o = t
    BY <2>1, StepKeeps
  <2>3. Fine(t, job[t], held[t]) /\ TablesOK /\ DOMAIN job = Thread
    BY DEF AssetsInv, JobsOK, Fine
  <2>4. /\ DOMAIN job[t] = {"at", "request", "seen", "visited", "cursor"}
        /\ job[t].at \in Places(r.op) /\ r.op \in Tenancies \cup {"newAsset", "link"}
        /\ ShapeOK(t, job[t], setting) /\ GrantsOK(job[t], held[t])
    BY <2>3 DEF Fine, JobOK, ShapeOK
  <2>5. \/ job[t].at = "commit"
        \/ job[t].at = "refs" /\ r.set.refs \subseteq job[t].visited
        \/ job[t].at = "linking"
    <3> DEFINE n == job'[t]
    <3>1. CASE Commit(t) \/ CreateAsset(t) \/ Link(t)
      BY <3>1 DEF Commit, CreateAsset, Link
    <3>2. CASE End(t) /\ UNCHANGED assetTables
      BY <3>2 DEF End
    <3>3. CASE \/ \E q \in setting.requests[t] : BeginAsset(t, q)
               \/ AskTenant(t) \/ AskCaller(t) \/ References(t) \/ ReadReader(t) \/ ReadLink(t)
               \/ \E u \in Unit : ReadReference(t, u)
      BY <3>3 DEF BeginAsset, AskTenant, AskCaller, References, ReadReader, ReadReference, ReadLink
    <3>4. CASE /\ \/ \E q \in setting.requests[t] : Begin(t, q)
                  \/ ReadTenant(t) \/ ReadCaller(t) \/ ReadMember(t) \/ ReadUnit(t) \/ Walk(t)
               /\ UNCHANGED assetTables
      BY <3>4 DEF Begin, ReadTenant, ReadCaller, ReadMember, ReadUnit, Walk
    <3> QED  BY <2>1, <2>2, <3>1, <3>2, <3>3, <3>4 DEF TenancyStep, AssetStep
  <2>6. r.by \notin PlatformAdmin => {"tenant", "caller"} \subseteq held[t]
    BY <2>4, <2>5 DEF GrantsOK
  <2>7. r.op = "newAsset" => r.set.refs \subseteq held[t]
    BY <2>4, <2>5 DEF GrantsOK, Places
  <2> QED  BY <2>6, <2>7 DEF Needed
<1> QED  BY <1>1, AssetsInitially, AssetsPreserved, PTL DEF Spec, InForceWhenHandled

\* A suspended tenant, a deactivated member and a demoted administrator stay so whatever
\* their requests still do that were under way (_tenant_access, the session).
THEOREM ShutOutMeansOut == Spec => NobodyLetsThemselvesBackIn
<1> DEFINE Out == \A t \in Thread : job[t] # job'[t] /\ job[t] # NoJob
                            /\ job[t].request.by \notin PlatformAdmin =>
        LET x == job[t].request.tenant
            me == <<x, job[t].request.by>>
        IN  /\ tenants[x].status = "suspended" => tenants'[x] = tenants[x]
            /\ IsActive(members'[me]) => IsActive(members[me])
            /\ IsOrgAdmin(members'[me]) => IsOrgAdmin(members[me])
<1>1. AssetsInv /\ [Next]_vars => [Out]_<<tables, job>>
  <2> SUFFICES ASSUME AssetsInv, Next, NEW t \in Thread, job[t] # job'[t], job[t] # NoJob,
                      job[t].request.by \notin PlatformAdmin
               PROVE  LET x == job[t].request.tenant
                          me == <<x, job[t].request.by>>
                      IN  /\ tenants[x].status = "suspended" => tenants'[x] = tenants[x]
                          /\ IsActive(members'[me]) => IsActive(members[me])
                          /\ IsOrgAdmin(members'[me]) => IsOrgAdmin(members[me])
    BY DEF vars
  <2> DEFINE j == job[t]
             r == j.request
             x == r.tenant
             me == <<x, r.by>>
  <2>1. PICK o \in Thread :
          /\ \/ TenancyStep(o, setting.requests[o]) /\ UNCHANGED assetTables
             \/ AssetStep(o, setting.requests[o])
          /\ Remember /\ UNCHANGED setting
    BY DEF Next
  <2>2. o = t
    BY <2>1, StepKeeps
  <2>3. Fine(t, j, held[t]) /\ TablesOK /\ DOMAIN job = Thread
    BY DEF AssetsInv, JobsOK, Fine
  <2>4. x \in Tenant /\ me \in Membership /\ Body(r)
        /\ (r.op \in {"putMember", "setMember"} => <<x, r.target>> \in Membership)
    BY <2>3, JobFacts
  <2>5. CASE ~Commit(t)
    <3>1. UNCHANGED tables
      BY <2>1, <2>2, <2>5 DEF TenancyStep, AssetStep, Begin, ReadTenant, ReadCaller, ReadMember,
         ReadUnit, Walk, End, BeginAsset, AskTenant, AskCaller, References, ReadReader,
         ReadReference, CreateAsset, ReadLink, Link
    <3> QED  BY <3>1 DEF tables
  <2>6. CASE Commit(t)
    <3>1. j.at = "commit" /\ r.op \in Tenancies \ {"newTenant"}
      BY <2>3, <2>6 DEF Commit, Fine, JobOK, ShapeOK, Places, Tenancies
    <3>2. /\ <<x>> \in DOMAIN j.seen /\ j.seen[<<x>>].status = "active"
          /\ me \in DOMAIN j.seen /\ members[me] # Absent
          /\ j.seen[me].active = TRUE /\ j.seen[me].role = "org_admin"
      BY <2>3, <3>1 DEF Fine, JobOK, SessionOK
    <3>3. CASE UpdateTenant(t)
      <4>1. UNCHANGED members
        BY <3>3 DEF UpdateTenant
      <4>2. tenants'[x] = Written(tenants[x], j.seen[<<x>>], r.set)
            /\ Typed(r.set, [status |-> {"active", "suspended"}])
        BY <2>3, <2>4, <3>3 DEF UpdateTenant, TablesOK, Body
      <4>3. ASSUME tenants[x].status = "suspended"  PROVE tenants'[x] = tenants[x]
        <5>1. tenants[x] = [status |-> "suspended"]
          BY <2>3, <2>4, <4>3 DEF TablesOK, TenantOK, TenantRow, Absent
        <5>2. "status" \in DOMAIN r.set => r.set.status \in {"active", "suspended"}
          BY <4>2 DEF Typed
        <5> QED  BY <3>2, <4>2, <5>1, <5>2 DEF Written
      <4> QED  BY <4>1, <4>3
    <3>4. CASE ChangeMember(t)
      <4>1. UNCHANGED tenants
        BY <3>4 DEF ChangeMember
      <4>2. CASE members'[me] = members[me]
        BY <4>1, <4>2
      <4>3. CASE members'[me] # members[me]
        <5>1. r.op \in {"putMember", "setMember"}
          BY <3>4 DEF ChangeMember
        <5>2. members'[me] = Written(members[me], j.seen[me], r.set)
          BY <2>3, <2>4, <3>2, <3>4, <4>3, <5>1 DEF ChangeMember, TablesOK
        <5> DEFINE old == members[me]
                   was == j.seen[me]
                   row == members'[me]
        <5>3. DOMAIN old = {"status", "role", "active"} /\ old.active \in BOOLEAN
          BY <2>3, <2>4, <3>2 DEF TablesOK, MemberOK
        <5>4. "active" \in DOMAIN r.set => r.set.active \in BOOLEAN
          BY <2>4, <5>1 DEF Body, Typed
        <5> HIDE DEF old, was, row
        <5>a. row = Written(old, was, r.set) /\ was.active = TRUE /\ was.role = "org_admin"
          BY <3>2, <5>2 DEF old, was, row
        <5>b. row.active = IF "active" \in DOMAIN r.set /\ r.set["active"] # was["active"]
                           THEN r.set["active"] ELSE old["active"]
          BY <5>3, <5>a DEF Written
        <5>c. row.role = IF "role" \in DOMAIN r.set /\ r.set["role"] # was["role"]
                         THEN r.set["role"] ELSE old["role"]
          BY <5>3, <5>a DEF Written
        <5>5. /\ row.active = old.active \/ (row.active = r.set.active /\ r.set.active # TRUE
                                             /\ "active" \in DOMAIN r.set)
              /\ row.role = old.role \/ row.role # "org_admin"
          BY <5>a, <5>b, <5>c
        <5>6. row.active = old.active \/ row.active = FALSE
          BY <5>4, <5>5
        <5>7. IsActive(row) => old # Absent /\ old.active
          BY <3>2, <5>6 DEF IsActive, old
        <5>8. IsOrgAdmin(row) => old.role = "org_admin"
          BY <5>5 DEF IsOrgAdmin
        <5> QED  BY <4>1, <5>7, <5>8 DEF IsActive, IsOrgAdmin, old, row
      <4> QED  BY <4>2, <4>3
    <3>5. CASE CreateUnit(t) \/ UpdateUnit(t)
      BY <3>5 DEF CreateUnit, UpdateUnit
    <3> QED  BY <2>6, <3>1, <3>3, <3>4, <3>5 DEF Commit, CreateTenant
  <2> QED  BY <2>5, <2>6
<1> QED  BY <1>1, AssetsInitially, AssetsPreserved, PTL DEF Spec, NobodyLetsThemselvesBackIn

-----------------------------------------------------------------------------
(* The hierarchy of departments *)

\* A request that puts a department under another one has begun to look at the hierarchy
\* and not yet written.
Moving(t) ==
    /\ job[t] # NoJob /\ job[t].at \in {"walk", "commit"}
    /\ Moves(job[t].request) /\ Parent(job[t].request) # None

\* No two of them overlap in one tenant.  All else does: departments are created, moved
\* to the top or switched off meanwhile, and the other tenants move theirs.
Apart == \A t, o \in Thread :
    t # o /\ Moving(t) /\ Moving(o) => job[t].request.tenant # job[o].request.tenant

\* All that is above the new parent is among the departments passed, or still ahead.
PathIsAbove == \A t \in Thread : Moving(t) =>
    \A v \in job[t].visited : units[v].parent \in job[t].visited \cup {job[t].cursor, None}

\* A step of the request itself.
LEMMA OwnPathGrows ==
    ASSUME AssetsInv, PathIsAbove, NEW t \in Thread, Remember, UNCHANGED setting,
           TenancyStep(t, setting.requests[t]) \/ AssetStep(t, setting.requests[t]),
           Moving(t)'
    PROVE  \A v \in job'[t].visited : units'[v].parent \in job'[t].visited \cup {job'[t].cursor, None}
<1> DEFINE j == job[t]
           r == j.request
           n == job'[t]
<1>1. Fine(t, n, held'[t]) /\ UNCHANGED units
  BY StepKeeps DEF Moving, tables
<1>2. n.at \in {"walk", "commit"} /\ n.request.op = "setUnit" /\ Parent(n.request) # None
  BY DEF Moving, Moves
<1>3. DOMAIN job = Thread /\ (j # NoJob => Fine(t, j, held[t]))
  BY DEF AssetsInv, JobsOK, Fine
<1>4. CASE \E q \in setting.requests[t] : Begin(t, q) \/ BeginAsset(t, q)
  BY <1>2, <1>3, <1>4 DEF Begin, BeginAsset, Become, NewJob
<1>5. CASE Commit(t) \/ End(t) \/ CreateAsset(t) \/ Link(t)
  BY <1>3, <1>5 DEF Commit, End, CreateAsset, Link, Become, Moving
<1>6. CASE j # NoJob
  <2>1. /\ DOMAIN j = {"at", "request", "seen", "visited", "cursor"}
        /\ j.at \in Places(r.op) /\ r.op \in Tenancies \cup {"newAsset", "link"}
        /\ r.op \in Tenancies /\ j.at \notin {"walk", "commit"} => j.visited = {}
    BY <1>3, <1>6 DEF Fine, JobOK, ShapeOK
  <2>2. CASE ReadTenant(t) \/ ReadCaller(t)
    <3>1. n.request = r /\ n.at \in {"caller", Allowed(r)}
      BY <1>3, <2>1, <2>2 DEF ReadTenant, ReadCaller, GoWith, Become
    <3>2. Allowed(r) = "unit"
      BY <1>2, <3>1 DEF Allowed
    <3> QED  BY <1>2, <3>1, <3>2
  <2>3. CASE ReadMember(t)
    BY <1>2, <1>3, <2>1, <2>3 DEF ReadMember, GoWith, Become, Places
  <2>4. CASE \/ AskTenant(t) \/ AskCaller(t) \/ References(t) \/ ReadReader(t) \/ ReadLink(t)
             \/ \E u \in Unit : ReadReference(t, u)
    <3>1. j.at \in {"ask", "askCaller", "references", "reader", "refs", "existing"}
      BY <2>4 DEF AskTenant, AskCaller, References, ReadReader, ReadLink, ReadReference
    <3>2. n.request = r
      <4>1. CASE AskTenant(t) \/ AskCaller(t) \/ References(t)
        BY <1>3, <2>1, <4>1 DEF AskTenant, AskCaller, References, GoWith, Go, Become
      <4>2. CASE ReadReader(t) \/ ReadLink(t) \/ \E u \in Unit : ReadReference(t, u)
        BY <1>3, <2>1, <4>2 DEF ReadReader, ReadLink, ReadReference, Go, Become
      <4> QED  BY <2>4, <4>1, <4>2
    <3>3. r.op \notin Tenancies
      BY <2>1, <3>1 DEF Places, Tenancies
    <3> QED  BY <1>2, <3>2, <3>3 DEF Tenancies
  <2>5. CASE ReadUnit(t)
    <3>1. n.visited = {}
      BY <1>3, <2>1, <2>5 DEF ReadUnit, Become, Places, Tenancies
    <3> QED  BY <3>1
  <2>6. CASE Walk(t)
    <3>1. /\ j.at = "walk" /\ n.cursor = units[j.cursor].parent
          /\ n.visited = j.visited \cup {j.cursor} /\ n.request = r
      BY <1>3, <2>1, <2>6 DEF Walk, Become
    <3>2. Moving(t)
      BY <1>2, <1>6, <3>1 DEF Moving, Moves
    <3>3. \A v \in j.visited : units[v].parent \in j.visited \cup {j.cursor, None}
      BY <3>2 DEF PathIsAbove
    <3> QED  BY <1>1, <3>1, <3>3
  <2> QED
    BY <1>4, <1>5, <2>2, <2>3, <2>4, <2>5, <2>6 DEF TenancyStep, AssetStep
<1>7. CASE j = NoJob
  BY <1>4, <1>5, <1>7
  DEF TenancyStep, AssetStep, NoJob, ReadTenant, ReadCaller, ReadMember, ReadUnit, Walk, AskTenant,
      AskCaller, References, ReadReader, ReadReference, ReadLink
<1> QED  BY <1>6, <1>7

\* A step of another request: it moves no department that was passed, except to the top.
LEMMA OtherPathsStay ==
    ASSUME AssetsInv, Apart, NEW t \in Thread, NEW o \in Thread, o # t, Moving(o),
           Remember, UNCHANGED setting,
           TenancyStep(t, setting.requests[t]) \/ AssetStep(t, setting.requests[t]),
           NEW v \in job[o].visited
    PROVE  units'[v].parent \in {units[v].parent, None}
<1>1. /\ v \in Unit /\ units[v] # Absent /\ units[v].tenant = job[o].request.tenant
  BY DEF AssetsInv, JobsOK, JobOK, PathOK, Moving, Moves
<1>2. CASE UNCHANGED units
  BY <1>2
<1>3. CASE Commit(t) /\ (CreateUnit(t) \/ UpdateUnit(t))
  <2>1. /\ job[t].at = "commit" /\ job[t] # NoJob
        /\ TablesOK /\ DOMAIN job = Thread /\ Fine(t, job[t], held[t])
    BY <1>3 DEF Commit, NoJob, AssetsInv, JobsOK, Fine
  <2>2. CASE CreateUnit(t)
    BY <1>1, <2>1, <2>2, NewUnitWrites
  <2>3. CASE UpdateUnit(t)
    <3> DEFINE r == job[t].request
    <3>1. /\ units[r.target].tenant = r.tenant
          /\ \A w \in Unit : w # r.target => units'[w] = units[w]
          /\ \/ units'[r.target].parent = units[r.target].parent
             \/ Moves(r) /\ units'[r.target].parent = Parent(r)
      BY <2>1, <2>3, UnitWrites
    <3>2. Moving(t) => r.tenant # job[o].request.tenant
      BY DEF Apart
    <3>3. Moves(r) /\ Parent(r) # None => Moving(t)
      BY <2>1 DEF Moving
    <3> QED  BY <1>1, <3>1, <3>2, <3>3
  <2> QED  BY <1>3, <2>2, <2>3
<1>4. Commit(t) /\ ~(CreateUnit(t) \/ UpdateUnit(t)) => UNCHANGED units
  BY DEF Commit, CreateTenant, UpdateTenant, ChangeMember
<1>5. ~Commit(t) => UNCHANGED units
  BY DEF TenancyStep, AssetStep, Begin, ReadTenant, ReadCaller, ReadMember,
     ReadUnit, Walk, End, BeginAsset, AskTenant, AskCaller, References, ReadReader,
     ReadReference, CreateAsset, ReadLink, Link, tables
<1> QED  BY <1>2, <1>3, <1>4, <1>5

\* Every step keeps what the requests under way have found above them.
LEMMA PathPreserved ==
    ASSUME AssetsInv, Apart, PathIsAbove, [Next]_vars  PROVE PathIsAbove'
<1>1. CASE UNCHANGED vars
  BY <1>1 DEF vars, tables, PathIsAbove, Moving
<1>2. CASE Next
  <2>1. PICK t \in Thread :
          /\ TenancyStep(t, setting.requests[t]) \/ AssetStep(t, setting.requests[t])
          /\ Remember /\ UNCHANGED setting
    BY <1>2 DEF Next
  <2>2. ASSUME NEW o \in Thread, Moving(o)', o # t, NEW v \in job'[o].visited
        PROVE  units'[v].parent \in job'[o].visited \cup {job'[o].cursor, None}
    <3>1. job'[o] = job[o]
      BY <2>1, <2>2, StepKeeps
    <3>2. Moving(o)
      BY <2>2, <3>1 DEF Moving
    <3>3. units'[v].parent \in {units[v].parent, None}
      BY <2>1, <2>2, <3>1, <3>2, OtherPathsStay
    <3> QED  BY <2>2, <3>1, <3>2, <3>3 DEF PathIsAbove
  <2> QED  BY <2>1, <2>2, OwnPathGrows DEF PathIsAbove
<1> QED  BY <1>1, <1>2

\* Of the set s, some department that exists belongs to none of s, or one is absent.
Rooted(s, un) == \E d \in s : un[d] # Absent => un[d].parent \notin s

\* A new department belongs to none that is above anything else yet.
LEMMA CreateKeepsTheTree ==
    ASSUME TablesOK, HierarchyIsAcyclic, NEW t \in Thread, DOMAIN job = Thread, NEW h,
           Fine(t, job[t], h), job[t].at = "commit", CreateUnit(t), UNCHANGED setting,
           NEW s \in SUBSET Department, s # {}
    PROVE  Rooted(s, units')
<1> DEFINE u == job[t].request.target
           p == Parent(job[t].request)
<1>1. /\ u \in Unit /\ units[u] = Absent
      /\ \A v \in Unit : v # u => units'[v] = units[v]
      /\ units'[u].parent = p
      /\ p # None => p \in Department /\ units[p] # Absent
  BY NewUnitWrites
<1>2. None \notin Department /\ Department \subseteq Unit
  BY UnitAssumption DEF Unit
<1> HIDE DEF u, p
<1>3. CASE s \ {u} = {}
  <2>1. u \in s /\ p \notin s
    BY <1>1, <1>2, <1>3
  <2> QED  BY <1>1, <2>1 DEF Rooted
<1>4. CASE s \ {u} # {}
  <2>1. PICK e \in s \ {u} : units[e] # Absent => units[e].parent \notin s \ {u}
    BY <1>4 DEF HierarchyIsAcyclic
  <2>2. units'[e] = units[e]
    BY <1>1, <1>2, <2>1
  <2>3. units[e] # Absent => units[e].parent # u
    <3>1. e \in Unit /\ None \notin Unit /\ UnitOK(units[e], units)
      BY <1>2, <2>1, UnitAssumption DEF TablesOK
    <3>2. units[e] # Absent => units[e].parent = None \/ units[units[e].parent] # Absent
      BY <3>1 DEF UnitOK
    <3> QED  BY <1>1, <3>1, <3>2
  <2> QED  BY <2>1, <2>2, <2>3 DEF Rooted
<1> QED  BY <1>3, <1>4

\* A department is moved under one that is not below it: what is above the new parent
\* was passed on the way up, and the department moved was not among it.
LEMMA MoveKeepsTheTree ==
    ASSUME TablesOK, HierarchyIsAcyclic, PathIsAbove, NEW t \in Thread,
           DOMAIN job = Thread, NEW h,
           Fine(t, job[t], h), job[t].at = "commit", UpdateUnit(t), UNCHANGED setting,
           NEW s \in SUBSET Department, s # {}
    PROVE  Rooted(s, units')
<1> DEFINE r == job[t].request
           u == r.target
           p == Parent(r)
           above == job[t].visited
<1>1. /\ u \in Unit /\ units[u] # Absent
      /\ \A v \in Unit : v # u => units'[v] = units[v]
      /\ units'[u].parent = units[u].parent \/ (Moves(r) /\ units'[u].parent = p)
  BY UnitWrites
<1>2. None \notin Department /\ Department \subseteq Unit
  BY UnitAssumption DEF Unit
<1>3. Moves(r) /\ p # None =>
         /\ u \notin above /\ p \in above
         /\ \A v \in above : units[v] # Absent /\ units[v].parent \in above \cup {None}
  <2> SUFFICES ASSUME Moves(r), p # None
               PROVE  /\ u \notin above /\ p \in above
                      /\ \A v \in above : units[v] # Absent /\ units[v].parent \in above \cup {None}
    OBVIOUS
  <2>1. /\ u \notin above /\ p \in above /\ job[t].cursor = None
        /\ \A v \in above : units[v] # Absent
    BY DEF Fine, JobOK, PathOK, Moves
  <2>2. Moving(t)
    BY <2>1 DEF Moving, NoJob
  <2> QED  BY <2>1, <2>2 DEF PathIsAbove
<1>4. \A v \in s : v # u => units'[v] = units[v]
  BY <1>1, <1>2
<1> HIDE DEF u, p, above, r
<1>5. PICK d \in s : units[d] # Absent => units[d].parent \notin s
  BY DEF HierarchyIsAcyclic
<1>6. CASE d # u \/ units'[u].parent = units[u].parent
  BY <1>1, <1>4, <1>5, <1>6 DEF Rooted
<1>7. CASE d = u /\ units'[u].parent = p /\ p \notin s
  BY <1>5, <1>7 DEF Rooted
<1>8. CASE Moves(r) /\ p \in s
  <2>1. p # None /\ s \cap above # {} /\ s \cap above \in SUBSET Department
    BY <1>2, <1>3, <1>8
  <2>2. PICK e \in s \cap above : units[e] # Absent => units[e].parent \notin s \cap above
    BY <2>1 DEF HierarchyIsAcyclic
  <2>3. units[e].parent \in above \cup {None} /\ units[e] # Absent /\ e # u
    BY <1>3, <1>8, <2>1, <2>2
  <2>4. units[e].parent \notin s
    BY <1>2, <2>2, <2>3
  <2> QED  BY <1>4, <2>2, <2>3, <2>4 DEF Rooted
<1> QED  BY <1>1, <1>6, <1>7, <1>8

\* Every step keeps the departments a forest.
LEMMA TreePreserved ==
    ASSUME AssetsInv, HierarchyIsAcyclic, PathIsAbove, [Next]_vars
    PROVE  HierarchyIsAcyclic'
<1>1. CASE UNCHANGED vars
  BY <1>1 DEF vars, tables, HierarchyIsAcyclic
<1>2. CASE Next
  <2>1. PICK t \in Thread :
          /\ TenancyStep(t, setting.requests[t]) \/ AssetStep(t, setting.requests[t])
          /\ Remember /\ UNCHANGED setting
    BY <1>2 DEF Next
  <2>2. CASE UNCHANGED units
    BY <2>2 DEF HierarchyIsAcyclic
  <2>3. CASE Commit(t) /\ (CreateUnit(t) \/ UpdateUnit(t))
    <3>1. job[t].at = "commit" /\ job[t] # NoJob
      BY <2>3 DEF Commit, NoJob
    <3>2. TablesOK /\ DOMAIN job = Thread /\ Fine(t, job[t], held[t])
      BY <3>1 DEF AssetsInv, JobsOK, Fine
    <3>3. \A s \in SUBSET Department : s # {} => Rooted(s, units')
      BY <2>1, <2>3, <3>1, <3>2, CreateKeepsTheTree, MoveKeepsTheTree
    <3> QED  BY <3>3 DEF HierarchyIsAcyclic, Rooted
  <2>4. Commit(t) /\ ~(CreateUnit(t) \/ UpdateUnit(t)) => UNCHANGED units
    BY DEF Commit, CreateTenant, UpdateTenant, ChangeMember
  <2>5. ~Commit(t) => UNCHANGED units
    BY <2>1 DEF TenancyStep, AssetStep, Begin, ReadTenant, ReadCaller, ReadMember,
       ReadUnit, Walk, End, BeginAsset, AskTenant, AskCaller, References, ReadReader,
       ReadReference, CreateAsset, ReadLink, Link, tables
  <2> QED  BY <2>2, <2>3, <2>4, <2>5
<1> QED  BY <1>1, <1>2

\* No department is ever above itself, through however many others, where the requests
\* that move departments of one tenant do not overlap (_validate_department_parent).
\* Where they do, two of them each look at the hierarchy the other one has not changed yet.
THEOREM MovesKeepTheTree == Spec /\ []Apart => []HierarchyIsAcyclic
<1>1. Init => HierarchyIsAcyclic
  <2> SUFFICES ASSUME units = [u \in Unit |-> Absent]  PROVE HierarchyIsAcyclic
    BY DEF Init, TenancyInit
  <2>1. \A s \in (SUBSET Department) \ {{}} : \E d \in s : d \in Unit
    BY DEF Unit
  <2>2. \A d \in Unit : units[d] = Absent
    OBVIOUS
  <2> QED  BY <2>1, <2>2 DEF HierarchyIsAcyclic
<1>2. Init => PathIsAbove
  BY DEF Init, TenancyInit, PathIsAbove, Moving
<1>3. AssetsInv /\ Apart /\ PathIsAbove /\ [Next]_vars => PathIsAbove'
  BY PathPreserved
<1>4. AssetsInv /\ PathIsAbove /\ HierarchyIsAcyclic /\ [Next]_vars => HierarchyIsAcyclic'
  BY TreePreserved
<1> QED  BY <1>1, <1>2, <1>3, <1>4, AssetsInitially, AssetsPreserved, PTL DEF Spec
===============================================================================
