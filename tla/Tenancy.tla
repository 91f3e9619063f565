-------------------------------- MODULE Tenancy --------------------------------
(***************************************************************************)
(* tenant-service: tenants, their members, sites and departments.          *)
(*                                                                         *)
(* Handlers take no lock and read row by row.  A session returns the       *)
(* object it already holds for a row, as it was when it was first read,    *)
(* and a commit writes the columns that differ from what was read.         *)
(***************************************************************************)
EXTENDS Naturals

CONSTANTS
    Tenant,
    User,
    PlatformAdmin,  \* users whose tokens say platform_admin
    Site,
    Department,
    Thread          \* requests handled at a time (bound)

None == "none"
Unit == Site \cup Department
Membership == Tenant \X User

ASSUME AdminAssumption == PlatformAdmin \subseteq User
ASSUME UnitAssumption == None \notin Unit /\ Site \cap Department = {}

VARIABLES
    tenants,        \* Tenant -> row
    members,        \* Membership -> row
    units,          \* Unit -> row; a site has no parent
    job             \* per thread its request and what its session holds

tables == <<tenants, members, units>>

Absent == [status |-> "absent"]
TenantRow(status) == [status |-> status]
MemberRow(role, active) == [status |-> "present", role |-> role, active |-> active]
UnitRow(tenant, parent) == [status |-> "active", tenant |-> tenant, parent |-> parent]
IsActive(row) == row # Absent /\ row.active
IsOrgAdmin(row) == IsActive(row) /\ row.role = "org_admin"

NoJob == [at |-> "idle"]

\* A request is [op, by, tenant, target, set]: who asks for what, and the columns
\* given.  Only departments are given a parent.
TenancyInit ==
    /\ units = [u \in Unit |-> Absent]
    /\ job = [t \in Thread |-> NoJob]

-----------------------------------------------------------------------------
(* The session.  A tenant, site or department is <<its id>> in it, a membership *)
(* <<tenant, user>>.                                                        *)

\* The session of t keeps the row as it was read first, if there is one.
Keep(t, id, row) ==
    LET seen == job[t].seen
    IN  IF row = Absent THEN seen
        ELSE [i \in DOMAIN seen \cup {id} |-> IF i \in DOMAIN seen THEN seen[i] ELSE row]

Become(t, next) == job' = [job EXCEPT ![t] = next]
Go(t, at) == Become(t, [job[t] EXCEPT !.at = at])
GoWith(t, at, id, row) == Become(t, [job[t] EXCEPT !.at = at, !.seen = Keep(t, id, row)])

\* Mutant: all columns are written, also those that were only read.
Written_All(now, was, set) ==
    [c \in DOMAIN now |-> IF c \in DOMAIN set THEN set[c] ELSE was[c]]

\* The columns that were set to something else than what was read.
Written(now, was, set) ==
    [c \in DOMAIN now |->
        IF c \in DOMAIN set /\ set[c] # was[c] THEN set[c] ELSE now[c]]

-----------------------------------------------------------------------------
(* _tenant_access: every change to a tenant is made by a platform            *)
(* administrator or by an active org_admin of a tenant that is active.       *)

\* Where a request goes on once its caller may make it.
Allowed(r) ==
    CASE r.op = "setTenant" -> "commit"
      [] r.op \in {"putMember", "setMember"} -> "member"
      [] r.op \in {"newUnit", "setUnit"} -> "unit"

ReadTenant(t) ==
    LET r == job[t].request
        row == tenants[r.tenant]
    IN  /\ job[t].at = "access" /\ row # Absent
        /\ GoWith(t, IF r.by \in PlatformAdmin THEN Allowed(r) ELSE "caller", <<r.tenant>>, row)
        /\ UNCHANGED tables

ReadCaller(t) ==
    LET r == job[t].request
        row == members[<<r.tenant, r.by>>]
    IN  /\ job[t].at = "caller"
        /\ IsOrgAdmin(row) /\ job[t].seen[<<r.tenant>>].status = "active"
        /\ GoWith(t, Allowed(r), <<r.tenant, r.by>>, row)
        /\ UNCHANGED tables

-----------------------------------------------------------------------------
(* Memberships, sites and departments *)

\* The membership to be changed; the caller's own is the object read before.
ReadMember(t) ==
    LET r == job[t].request
        row == members[<<r.tenant, r.target>>]
    IN  /\ job[t].at = "member"
        /\ r.op = "setMember" => row # Absent
        /\ GoWith(t, "commit", <<r.tenant, r.target>>, row)
        /\ UNCHANGED tables

Parent(r) == IF "parent" \in DOMAIN r.set THEN r.set.parent ELSE None

\* The unit to be changed, of the same tenant; then its new parent, if any.
ReadUnit(t) ==
    LET r == job[t].request
        row == units[r.target]
        next == IF Parent(r) = None THEN "commit" ELSE "walk"
    IN  /\ job[t].at = "unit"
        /\ r.op = "setUnit" => row # Absent /\ row.tenant = r.tenant
        /\ Become(t, [job[t] EXCEPT !.at = next, !.cursor = Parent(r),
                          !.seen = IF r.op = "setUnit" THEN Keep(t, <<r.target>>, row) ELSE @])
        /\ UNCHANGED tables

\* Mutant: only the new parent is looked at, not what is above it.
Walk_OneStep(t) ==
    LET r == job[t].request
        c == job[t].cursor
        row == units[c]
    IN  /\ job[t].at = "walk"
        /\ row # Absent /\ row.tenant = r.tenant
        /\ c # r.target
        /\ Go(t, "commit")
        /\ UNCHANGED tables

\* One step up from the new parent (_validate_department_parent): every
\* department passed is of the tenant, none is met twice, none is the one moved.
Walk(t) ==
    LET r == job[t].request
        c == job[t].cursor
        row == units[c]
    IN  /\ job[t].at = "walk"
        /\ row # Absent /\ row.tenant = r.tenant
        /\ c \notin job[t].visited
        /\ r.op = "setUnit" => c # r.target
        /\ Become(t, [job[t] EXCEPT !.at = IF row.parent = None THEN "commit" ELSE "walk",
                                    !.cursor = row.parent, !.visited = @ \cup {c}])
        /\ UNCHANGED tables

-----------------------------------------------------------------------------
(* The commits.  A row that is there already makes an insert fail. *)

CreateTenant(t) ==
    LET r == job[t].request
    IN  /\ r.op = "newTenant"
        /\ tenants[r.tenant] = Absent
        /\ tenants' = [tenants EXCEPT ![r.tenant] = TenantRow("active")]
        /\ UNCHANGED <<members, units>>

UpdateTenant(t) ==
    LET r == job[t].request
    IN  /\ r.op = "setTenant"
        /\ tenants' = [tenants EXCEPT ![r.tenant] = Written(@, job[t].seen[<<r.tenant>>], r.set)]
        /\ UNCHANGED <<members, units>>

ChangeMember(t) ==
    LET r == job[t].request
        id == <<r.tenant, r.target>>
    IN  /\ r.op \in {"putMember", "setMember"}
        /\ IF id \in DOMAIN job[t].seen
           THEN members' = [members EXCEPT ![id] = Written(@, job[t].seen[id], r.set)]
           ELSE /\ members[id] = Absent
                /\ members' = [members EXCEPT ![id] = MemberRow(r.set.role, TRUE)]
        /\ UNCHANGED <<tenants, units>>

CreateUnit(t) ==
    LET r == job[t].request
    IN  /\ r.op = "newUnit"
        /\ units[r.target] = Absent
        /\ units' = [units EXCEPT ![r.target] = UnitRow(r.tenant, Parent(r))]
        /\ UNCHANGED <<tenants, members>>

UpdateUnit(t) ==
    LET r == job[t].request
    IN  /\ r.op = "setUnit"
        /\ units' = [units EXCEPT ![r.target] = Written(@, job[t].seen[<<r.target>>], r.set)]
        /\ UNCHANGED <<tenants, members>>

Commit(t) ==
    /\ job[t].at = "commit"
    /\ \/ CreateTenant(t) \/ UpdateTenant(t) \/ ChangeMember(t)
       \/ CreateUnit(t) \/ UpdateUnit(t)
    /\ Become(t, NoJob)

-----------------------------------------------------------------------------
NewJob(r, at) ==
    [at |-> at, request |-> r, seen |-> <<>>, visited |-> {}, cursor |-> None]

\* A request comes in; only platform administrators create tenants.
Begin(t, r) ==
    /\ job[t] = NoJob
    /\ r.op \in {"newTenant", "setTenant", "putMember", "setMember", "newUnit", "setUnit"}
    /\ r.op = "newTenant" => r.by \in PlatformAdmin
    /\ Become(t, NewJob(r, IF r.op = "newTenant" THEN "commit" ELSE "access"))
    /\ UNCHANGED tables

\* Refused, failed, or its caller or process gone: nothing was written.
End(t) ==
    /\ job[t] # NoJob
    /\ Become(t, NoJob)
    /\ UNCHANGED tables

TenancyStep(t, requests) ==
    \/ \E r \in requests : Begin(t, r)
    \/ ReadTenant(t) \/ ReadCaller(t) \/ ReadMember(t) \/ ReadUnit(t) \/ Walk(t)
    \/ Commit(t) \/ End(t)

-----------------------------------------------------------------------------
(* Properties *)

\* No department is above itself, through however many others
\* (_validate_department_parent), as long as no two moves overlap.
HierarchyIsAcyclic ==
    \A s \in (SUBSET Department) \ {{}} :
        \E d \in s : units[d] # Absent => units[d].parent \notin s

\* A suspended tenant, a deactivated member and a demoted administrator stay so
\* whatever the requests still do that they had under way: the columns these
\* requests found in order are not written again (_tenant_access, the session).
NobodyLetsThemselvesBackIn ==
    [][\A t \in Thread : job[t] # job'[t] /\ job[t] # NoJob
                            /\ job[t].request.by \notin PlatformAdmin =>
        LET x == job[t].request.tenant
            me == <<x, job[t].request.by>>
        IN  /\ tenants[x].status = "suspended" => tenants'[x] = tenants[x]
            /\ IsActive(members'[me]) => IsActive(members[me])
            /\ IsOrgAdmin(members'[me]) => IsOrgAdmin(members[me])]_<<tables, job>>
===============================================================================
