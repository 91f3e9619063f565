------------------------------- MODULE MCAssets -------------------------------
EXTENDS Assets

R(op, by, tenant, target, set) ==
    [op |-> op, by |-> by, tenant |-> tenant, target |-> target, set |-> set]
Nothing == [c \in {} |-> None]
New(u, p) == R("newUnit", "root", "x1", u, IF p = None THEN Nothing ELSE [parent |-> p])
Move(d, p) == R("setUnit", "root", "x1", d, [parent |-> p])
Status(op, by, target, status) == R(op, by, "x1", target, [status |-> status])
Member(op, by, role) == R(op, by, "x1", "ana", [role |-> role, active |-> TRUE])

\* Two tenants, of which the first has an administrator ana.
Start(x2, t1, t2, t3) ==
    [tenants |-> [x \in Tenant |-> IF x = "x1" \/ x2 THEN TenantRow("active") ELSE Absent],
     members |-> [m \in Membership |->
         IF m = <<"x1", "ana">> THEN MemberRow("org_admin", TRUE) ELSE Absent],
     requests |-> [t \in Thread |-> CASE t = "t1" -> t1 [] t = "t2" -> t2 [] t = "t3" -> t3]]

\* One thread moves departments while another adds some, also to the other tenant.
Hierarchy == Start(TRUE,
    {New(d, None) : d \in {"d1", "d2"}} \cup {Move(d, p) : d, p \in Department}
        \cup {Move(d, None) : d \in {"d1", "d2"}},
    {New("d3", p) : p \in {None, "d1", "d2"}} \cup {Status("setUnit", "root", "d1", "inactive"),
     R("newUnit", "root", "x2", "d2", Nothing), R("newUnit", "root", "x2", "d3", [parent |-> "d1"])},
    {})

\* What ana has under way while she, or her tenant, is shut out.
Members == Start(FALSE,
    {Member("putMember", "ana", role) : role \in {"org_admin", "viewer"}}
        \cup {Member("setMember", "ana", "org_admin"), Status("setTenant", "ana", None, "active"),
              R("putMember", "ana", "x1", "bob", [role |-> "org_admin", active |-> TRUE])},
    {R("setMember", "root", "x1", "ana", [active |-> FALSE]), Member("putMember", "root", "viewer"),
     Member("putMember", "root", "org_admin")}
        \cup {Status("setTenant", "root", None, s) : s \in {"active", "suspended"}},
    {R("newTenant", "root", "x2", None, Nothing), Member("setMember", "bob", "org_admin"),
     Status("setTenant", "bob", None, "active"),
     R("putMember", "bob", "x1", "bob", [role |-> "org_admin", active |-> TRUE])})

\* An asset, while all that it rests on comes and goes.
NewAsset(by, a, refs) == R("newAsset", by, "x1", a, [refs |-> refs])
Inventory == Start(TRUE,
    {NewAsset("ana", "a1", {"s1", "d1"})},
    {R("newUnit", "root", x, u, Nothing) : x \in Tenant, u \in {"s1", "d1"}}
        \cup {Status("setUnit", "root", u, s) : u \in {"s1", "d1"}, s \in {"active", "inactive"}}
        \cup {Status("setTenant", "root", None, s) : s \in {"active", "suspended"}}
        \cup {R("setMember", "root", "x1", "ana", [active |-> a]) : a \in BOOLEAN},
    {})

\* Two assets and one identity with a provider.
LinkTo(by, a) == R("link", by, "x1", a, [external |-> "e1"])
Links == Start(FALSE,
    {NewAsset("ana", "a1", {}), LinkTo("ana", "a1")},
    {Status("setTenant", "root", None, s) : s \in {"active", "suspended"}},
    {NewAsset("root", "a2", {}), LinkTo("root", "a2")})

MCSettings == {Hierarchy, Members, Inventory, Links}
===============================================================================
