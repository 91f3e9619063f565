--------------------------------- MODULE Assets ---------------------------------
(***************************************************************************)
(* asset-service, which asks tenant-service about every caller and every   *)
(* reference and keeps only the identifiers.                               *)
(***************************************************************************)
EXTENDS Tenancy

CONSTANTS
    Asset,
    External,       \* identities of assets with external providers
    Settings        \* the instances considered: the rows there are at first and
                    \* the requests each thread may get

Role == {"org_admin", "security_admin", "it_operator", "helpdesk", "auditor", "viewer"}

\* The columns the body of a request may give, each a value of its type.
Typed(set, types) == DOMAIN set \subseteq DOMAIN types /\ \A c \in DOMAIN set : set[c] \in types[c]

Body(r) ==
    /\ r.op = "setTenant" => Typed(r.set, [status |-> {"active", "suspended"}])
    /\ r.op = "putMember" => r.set \in [role : Role, active : {TRUE}]
    /\ r.op = "setMember" => Typed(r.set, [role |-> Role, active |-> BOOLEAN])
    /\ r.op = "newUnit" => Typed(r.set, [parent |-> Department])
    /\ r.op = "setUnit" => Typed(r.set, [status |-> {"active", "inactive"},
                                        parent |-> Department \cup {None}])
    /\ r.op = "newAsset" => r.set.refs \subseteq Unit

ASSUME SettingsAssumption == \A s \in Settings :
    /\ s.tenants \in [Tenant -> {Absent} \cup {TenantRow(x) : x \in {"active", "suspended"}}]
    /\ s.members \in [Membership -> {Absent} \cup {MemberRow(x, a) : x \in Role, a \in BOOLEAN}]
    /\ \A t \in Thread : \A r \in s.requests[t] :
          /\ r.by \in User /\ r.tenant \in Tenant /\ Body(r)
          /\ r.op \in {"putMember", "setMember"} => r.target \in User
          /\ r.op \in {"newUnit", "setUnit"} => r.target \in Unit

VARIABLES
    assets,         \* Asset -> [tenant, refs] or Absent
    links,          \* External -> the asset it is linked to, or None
    setting,        \* the one in question; never changes
    held            \* per thread what was in force at some time of its request (history)

assetTables == <<assets, links>>
vars == <<tables, job, assetTables, setting, held>>

Init ==
    /\ setting \in Settings
    /\ TenancyInit /\ tenants = setting.tenants /\ members = setting.members
    /\ assets = [a \in Asset |-> Absent]
    /\ links = [x \in External |-> None]
    /\ held = [t \in Thread |-> {}]

-----------------------------------------------------------------------------
\* A platform administrator needs no leave of tenant-service (enforce_asset_access).
LeaveFor(r, at) == IF r.by \in PlatformAdmin THEN at ELSE "ask"

BeginAsset(t, r) ==
    /\ job[t] = NoJob
    /\ \/ r.op = "newAsset" /\ Become(t, NewJob(r, LeaveFor(r, "references")))
       \/ /\ r.op = "link"
          /\ assets[r.target] # Absent /\ assets[r.target].tenant = r.tenant
          /\ Become(t, NewJob(r, LeaveFor(r, "existing")))
    /\ UNCHANGED <<tables, assetTables>>

\* The first call: tenant-service reads the tenant and then the caller's
\* membership, and asset-service decides on the two (resolve_tenant_access).
AskTenant(t) ==
    LET r == job[t].request
    IN  /\ job[t].at = "ask" /\ tenants[r.tenant] # Absent
        /\ GoWith(t, "askCaller", <<r.tenant>>, tenants[r.tenant])
        /\ UNCHANGED <<tables, assetTables>>

AskCaller(t) ==
    LET r == job[t].request
    IN  /\ job[t].at = "askCaller"
        /\ IsOrgAdmin(members[<<r.tenant, r.by>>])
        /\ job[t].seen[<<r.tenant>>].status = "active"
        /\ Go(t, IF r.op = "newAsset" THEN "references" ELSE "existing")
        /\ UNCHANGED <<tables, assetTables>>

\* The second call to tenant-service, in a session of its own (validate_references).
References(t) ==
    LET r == job[t].request
    IN  /\ job[t].at = "references" /\ tenants[r.tenant] # Absent
        /\ Become(t, [job[t] EXCEPT !.at = IF r.by \in PlatformAdmin THEN "refs" ELSE "reader",
                                    !.seen = [i \in {<<r.tenant>>} |-> tenants[r.tenant]]])
        /\ UNCHANGED <<tables, assetTables>>

\* Any active member of an active tenant may ask (_require_access).
ReadReader(t) ==
    LET r == job[t].request
        row == members[<<r.tenant, r.by>>]
    IN  /\ job[t].at = "reader"
        /\ IsActive(row)
        /\ job[t].seen[<<r.tenant>>].status = "active"
        /\ Go(t, "refs")
        /\ UNCHANGED <<tables, assetTables>>

\* Mutant: it is enough that the reference exists.
ReadReference_Any(t, u) ==
    LET r == job[t].request
    IN  /\ job[t].at = "refs" /\ u \in r.set.refs \ job[t].visited
        /\ units[u] # Absent
        /\ Become(t, [job[t] EXCEPT !.visited = @ \cup {u}])
        /\ UNCHANGED <<tables, assetTables>>

\* The site first, then the department.
ReadReference(t, u) ==
    LET r == job[t].request
        left == r.set.refs \ job[t].visited
    IN  /\ job[t].at = "refs" /\ u \in left
        /\ u \in Site \/ left \cap Site = {}
        /\ units[u].status = "active" /\ units[u].tenant = r.tenant
        /\ Become(t, [job[t] EXCEPT !.visited = @ \cup {u}])
        /\ UNCHANGED <<tables, assetTables>>

CreateAsset(t) ==
    LET r == job[t].request
    IN  /\ job[t].at = "refs" /\ r.set.refs \subseteq job[t].visited
        /\ assets[r.target] = Absent
        /\ assets' = [assets EXCEPT ![r.target] =
                          [status |-> "active", tenant |-> r.tenant, refs |-> r.set.refs]]
        /\ Become(t, NoJob)
        /\ UNCHANGED <<tables, links>>

\* An identity that is linked is answered or refused, a new one is inserted.
ReadLink(t) ==
    /\ job[t].at = "existing" /\ links[job[t].request.set.external] = None
    /\ Go(t, "linking")
    /\ UNCHANGED <<tables, assetTables>>

\* The unique (provider, external_id) lets one of two in.
Link(t) ==
    LET r == job[t].request
    IN  /\ job[t].at = "linking" /\ links[r.set.external] = None
        /\ links' = [links EXCEPT ![r.set.external] = r.target]
        /\ Become(t, NoJob)
        /\ UNCHANGED <<tables, assets>>

AssetStep(t, requests) ==
    \/ \E r \in requests : BeginAsset(t, r)
    \/ AskTenant(t) \/ AskCaller(t) \/ References(t) \/ ReadReader(t)
    \/ \E u \in Unit : ReadReference(t, u)
    \/ CreateAsset(t) \/ ReadLink(t) \/ Link(t)

-----------------------------------------------------------------------------
\* What a request needs and is in force now.
InForce(r) ==
    (IF tenants[r.tenant].status = "active" THEN {"tenant"} ELSE {})
    \cup (IF IsOrgAdmin(members[<<r.tenant, r.by>>]) THEN {"caller"} ELSE {})
    \cup {u \in Unit : units[u].status = "active" /\ units[u].tenant = r.tenant}

Remember == held' = [t \in Thread |->
    IF job'[t] = NoJob THEN {} ELSE held[t] \cup InForce(job'[t].request)]

Next ==
    \E t \in Thread :
        /\ \/ TenancyStep(t, setting.requests[t]) /\ UNCHANGED assetTables
           \/ AssetStep(t, setting.requests[t])
        /\ Remember
        /\ UNCHANGED setting

Spec == Init /\ [][Next]_vars

-----------------------------------------------------------------------------
Needed(r) ==
    (IF r.by \in PlatformAdmin THEN {} ELSE {"tenant", "caller"})
    \cup (IF r.op = "newAsset" THEN r.set.refs ELSE {})

\* Whatever a request changes, in either service, all it takes was in force while
\* it was handled: a tenant that is active, a caller who is its administrator,
\* sites and departments of that tenant that are active.  What was withdrawn
\* before the request came counts for nothing, although the two services decide
\* on several answers, each of which may be old by then.
InForceWhenHandled ==
    [][\A t \in Thread : <<tables, assetTables>>' # <<tables, assetTables>>
          /\ job[t] # NoJob /\ job'[t] = NoJob =>
            Needed(job[t].request) \subseteq held[t] \cup InForce(job[t].request)]_vars
================================================================================
