----------------------------- MODULE TenantScope -----------------------------
(***************************************************************************)
(* Tenant isolation end to end: a call asks PrismaService for the client   *)
(* of its tenant (TenantClients), and the client runs every statement in a *)
(* transaction that sets the tenant context first (createTenantClient in   *)
(* packages/database/src/rls-extension.ts, setTenantContext in             *)
(* packages/shared/src/tenant.ts), under the row-level security policies   *)
(* of packages/database/prisma/rls-setup.sql.                              *)
(*                                                                         *)
(* The tables are represented by one of each shape of policy: "root" (a    *)
(* row of a tenant: party, contact_mechanism, product, product_category,   *)
(* agent_registry, ai_action_log, idempotency_record), "child" (a row of a *)
(* root: party_role, person, organization, postal_address,                 *)
(* product_feature, product_price), "owned" (both: email_address,          *)
(* telecom_number, user) and "link" (a row of two roots:                   *)
(* party_contact_mechanism).  A product in a category is a shape of its    *)
(* own, "listed": no policy looks at the category, createProduct does.     *)
(* Nor does a policy look at the parent of a category; no code of the      *)
(* repository writes or reads that column, and it is left out.             *)
(* Beyond the check of createProduct, what a call asks to insert is left   *)
(* open: the policies do not rely on what the services verify.             *)
(***************************************************************************)
EXTENDS TenantClients

CONSTANTS
    Connections,    \* the pool of the application role
    Ids             \* primary keys; a row is inserted at most once under each

ASSUME ScopeAssumption == None \notin Connections

VARIABLES
    asked,          \* the tenant each call asked a client for; None for a bare statement
    rows,           \* the rows of all tables
    mine,           \* rows inserted by the open transaction of each call
    conn,           \* the connection that transaction runs on
    within,         \* the tenant in the closure that opened it
    scoped,         \* calls whose transaction has run set_tenant_context
    context,        \* app.current_tenant on each connection
    result          \* what the last SELECT of each call returned

rowVars == <<rows, mine, conn, within, scoped, context, result>>
vars == <<clientVars, asked, rowVars>>

Absent == [table |-> "none", tenant |-> None, parents |-> {}]

Root(t)     == [table |-> "root", tenant |-> t, parents |-> {}]
Child(p)    == [table |-> "child", tenant |-> None, parents |-> {p}]
Owned(t, p) == [table |-> "owned", tenant |-> t, parents |-> {p}]
Listed(t, p) == [table |-> "listed", tenant |-> t, parents |-> {p}]
Link(p, q)  == [table |-> "link", tenant |-> None, parents |-> {p, q}]

\* The rows an INSERT may name.
Row ==
    {Root(t) : t \in Tenants} \cup {Child(p) : p \in Ids}
    \cup {Owned(t, p) : t \in Tenants, p \in Ids}
    \cup {Listed(t, p) : t \in Tenants, p \in Ids}
    \cup {r \in {Link(p, q) : p, q \in Ids} : Cardinality(r.parents) = 2}

Exists(i) == rows[i].table # "none"

Init ==
    /\ ClientsInit
    /\ asked = [c \in Callers |-> None]
    /\ rows = [i \in Ids |-> Absent]
    /\ mine = [c \in Callers |-> {}]
    /\ conn = [c \in Callers |-> None]
    /\ within = [c \in Callers |-> None]
    /\ scoped = {}
    /\ context = [k \in Connections |-> None]
    /\ result = [c \in Callers |-> {}]

-----------------------------------------------------------------------------
(* The policies                                                            *)

\* READ COMMITTED: what others have not committed is not there.
Snapshot(c) == {i \in Ids : Exists(i) /\ \A d \in Callers \ {c} : i \notin mine[d]}

\* The subquery on a parent: its own tenant_id is the current one.
IsRootOf(i, t) == rows[i].table = "root" /\ rows[i].tenant = t

\* Variant: a link is checked against one of its parents.
AllowsOneParent(c, r, t) ==
    /\ t # None
    /\ r.tenant \in {t, None}
    /\ r.table \in {"child", "owned", "link"} =>
          \E p \in r.parents \cap Snapshot(c) : IsRootOf(p, t)

\* USING and WITH CHECK, the same predicate in every policy.
Allows(c, r, t) ==
    /\ t # None
    /\ r.tenant \in {t, None}
    /\ r.table \in {"child", "owned", "link"} =>
          \A p \in r.parents : p \in Snapshot(c) /\ IsRootOf(p, t)

Visible(c, t) == {i \in Snapshot(c) : Allows(c, rows[i], t)}

-----------------------------------------------------------------------------
(* The call and its transactions                                           *)

InTransaction(c) == conn[c] # None
Free == {k \in Connections : \A c \in Callers : conn[c] # k}

\* this.prisma.tenantScoped(tenantId)
Ask(c, t) ==
    /\ ~InTransaction(c)
    /\ Hit(c, t) \/ Miss(c, t)
    /\ asked' = [asked EXCEPT ![c] = t]
    /\ result' = [result EXCEPT ![c] = {}]
    /\ UNCHANGED <<rows, mine, conn, within, scoped, context>>

\* BEGIN, by $transaction or by a method of a model delegate.  The closure
\* keeps the tenant of the client; the client itself may be let go of.
Begin(c) ==
    /\ ~InTransaction(c)
    /\ holds[c] # None
    /\ \E k \in Free : conn' = [conn EXCEPT ![c] = k]
    /\ within' = [within EXCEPT ![c] = boundTo[holds[c]]]
    /\ UNCHANGED <<clientVars, asked, rows, mine, scoped, context, result>>

\* setTenantContext, before any other statement of the transaction.
SetContext(c) ==
    /\ InTransaction(c) /\ c \notin scoped
    /\ context' = [context EXCEPT ![conn[c]] = within[c]]
    /\ scoped' = scoped \cup {c}
    /\ UNCHANGED <<clientVars, asked, rows, mine, conn, within, result>>

Select(c) ==
    /\ c \in scoped
    /\ result' = [result EXCEPT ![c] = Visible(c, context[conn[c]])]
    /\ UNCHANGED <<clientVars, asked, rows, mine, conn, within, scoped, context>>

\* createProduct looks the category up, by id and tenant, before the INSERT.
CategoryFound(c, r) ==
    r.table = "listed" =>
        \A p \in r.parents : p \in Visible(c, context[conn[c]]) /\ IsRootOf(p, within[c])

\* A row the policy refuses, or whose parent does not exist, is an error, and
\* the transaction is rolled back.  Foreign keys see every committed row.
Insert(c) ==
    /\ c \in scoped
    /\ \E i \in Ids, r \in Row :
        /\ ~Exists(i)
        /\ r.parents \subseteq Snapshot(c)
        /\ CategoryFound(c, r)
        /\ Allows(c, r, context[conn[c]])
        /\ rows' = [rows EXCEPT ![i] = r]
        /\ mine' = [mine EXCEPT ![c] = @ \cup {i}]
    /\ UNCHANGED <<clientVars, asked, conn, within, scoped, context, result>>

\* Variant: the setting is made for the session, not for the transaction.
ContextKept(c) == context

\* SET LOCAL: the setting ends with the transaction.
ContextAfter(c) == [context EXCEPT ![conn[c]] = None]

End(c) ==
    /\ mine' = [mine EXCEPT ![c] = {}]
    /\ conn' = [conn EXCEPT ![c] = None]
    /\ within' = [within EXCEPT ![c] = None]
    /\ scoped' = scoped \ {c}
    /\ context' = ContextAfter(c)
    /\ UNCHANGED <<clientVars, asked>>

Commit(c) ==
    /\ c \in scoped
    /\ End(c)
    /\ UNCHANGED <<rows, result>>

\* An error, a timeout, a set_tenant_context that fails.
Rollback(c) ==
    /\ InTransaction(c)
    /\ rows' = [i \in Ids |-> IF i \in mine[c] THEN Absent ELSE rows[i]]
    /\ result' = [result EXCEPT ![c] = {}]
    /\ End(c)

\* A statement of the bare application client (appClient), which reaches the
\* database without the wrapper: no transaction, no context, any connection.
SelectUnscoped(c) ==
    /\ ~InTransaction(c) /\ holds[c] = None
    /\ asked' = [asked EXCEPT ![c] = None]
    /\ \E k \in Free : result' = [result EXCEPT ![c] = Visible(c, context[k])]
    /\ UNCHANGED <<clientVars, rows, mine, conn, within, scoped, context>>

\* What goes on around the transactions.
Beside == UNCHANGED <<asked, rowVars>>

Next ==
    \/ \E c \in Callers :
        \/ \E t \in Tenants : Ask(c, t)
        \/ Begin(c) \/ SetContext(c) \/ Select(c) \/ Insert(c)
        \/ Commit(c) \/ Rollback(c) \/ SelectUnscoped(c)
        \/ LetGo(c) /\ Beside
    \/ \E o \in Clients : (Collect(o) \/ Report(o)) /\ Beside
    \/ Destroy /\ Beside

Spec == Init /\ [][Next]_vars

-----------------------------------------------------------------------------
(* Properties                                                              *)

TypeOK ==
    /\ ClientsTypeOK
    /\ asked \in [Callers -> Tenants \cup {None}]
    /\ rows \in [Ids -> Row \cup {Absent}]
    /\ mine \in [Callers -> SUBSET Ids]
    /\ conn \in [Callers -> Connections \cup {None}]
    /\ within \in [Callers -> Tenants \cup {None}]
    /\ scoped \subseteq Callers
    /\ context \in [Connections -> Tenants \cup {None}]
    /\ result \in [Callers -> SUBSET Ids]

\* Row i belongs to tenant t by every column and every parent it has.
BelongsTo(i, t) ==
    /\ rows[i].tenant \in {t, None}
    /\ \A p \in rows[i].parents : IsRootOf(p, t)

\* Every row belongs to one tenant through all its parents, whatever the calls
\* ask for and however their transactions interleave and fail: no role,
\* address or link connects two tenants (rls-setup.sql on the two parents of
\* party_contact_mechanism).
RowsStayInside == \A i \in Ids : Exists(i) => \E t \in Tenants : BelongsTo(i, t)

\* A call reads rows of the tenant it asked for only, whichever cached client
\* and whichever connection it got; and a statement without a context, on a
\* connection other tenants have used, reads nothing.
ReadsStayInside ==
    \A c \in Callers : \A i \in result[c] :
        asked[c] # None /\ Exists(i) /\ BelongsTo(i, asked[c])
=============================================================================
