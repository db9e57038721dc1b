---------------------------- MODULE TenantClients ----------------------------
(***************************************************************************)
(* The cache of tenant-scoped clients of PrismaService                     *)
(* (apps/api/src/prisma/prisma.service.ts): a map of weak references with  *)
(* least-recently-used eviction, and a FinalizationRegistry whose callback *)
(* removes the entry of a client that was garbage collected.               *)
(*                                                                         *)
(* Every method of the cache runs in one tick of the event loop.  Between  *)
(* ticks the collector may take any client that no caller holds, and the   *)
(* callback for it runs at any later moment, or never.  The time stamps of *)
(* lastAccessed are kept as the order they induce; two accesses in the     *)
(* same millisecond are a tie.                                             *)
(***************************************************************************)
EXTENDS Naturals, FiniteSets

CONSTANTS
    Tenants,
    Callers,        \* service calls, each holding at most one client
    Clients,        \* client objects; an object nobody can reach is used again
    MaxCached,      \* MAX_TENANT_CACHE_SIZE
    None            \* no client, no tenant

ASSUME ClientsAssumption ==
    /\ None \notin Tenants \cup Clients
    /\ IsFiniteSet(Tenants)
    /\ MaxCached \in Nat \ {0}

VARIABLES
    cache,          \* tenantClientCache: the client each weak reference points to
    token,          \* unregisterTokens: the client registered under each tenant's token
    older,          \* <<s, t>> when lastAccessed of s is before that of t
    registered,     \* clients the FinalizationRegistry will report
    boundTo,        \* the tenant in the closure of each client
    live,           \* clients that have not been collected
    holds,          \* the client each caller has a reference to
    destroyed       \* _destroyed

clientVars == <<cache, token, older, registered, boundTo, live, holds, destroyed>>

Cached(c) == {t \in Tenants : c[t] # None}
Keys      == Cached(cache)
Alive(t)  == cache[t] \in live

ClientsInit ==
    /\ cache = [t \in Tenants |-> None]
    /\ token = [t \in Tenants |-> None]
    /\ older = {}
    /\ registered = {}
    /\ boundTo = [o \in Clients |-> None]
    /\ live = {}
    /\ holds = [c \in Callers |-> None]
    /\ destroyed = FALSE

-----------------------------------------------------------------------------
(* tenantScoped                                                            *)

\* The order once t was accessed: t is the youngest of the keys, alone or
\* together with those that were the youngest before it.
Touched(keys, order, t) ==
    LET others   == keys \ {t}
        rest     == {p \in order : t \notin {p[1], p[2]}}
        youngest == {k \in others : \A j \in others : <<k, j>> \notin rest}
    IN  {rest \cup (others \X {t}), rest \cup ((others \ youngest) \X {t})}

Forgotten(order, gone) == {p \in order : {p[1], p[2]} \cap gone = {}}

\* A live client is handed out again.
Hit(c, t) ==
    /\ ~destroyed
    /\ Alive(t)
    /\ older' \in Touched(Keys, older, t)
    /\ holds' = [holds EXCEPT ![c] = cache[t]]
    /\ UNCHANGED <<cache, token, registered, boundTo, live, destroyed>>

Stale == {t \in Keys : ~Alive(t)}

\* What evictTenantClient removes: every dead entry and, when that frees no
\* place, the live one that was not accessed for the longest time.
Evicted ==
    LET lru == {t \in Keys \ Stale : \A s \in Keys \ Stale : <<s, t>> \notin older}
    IN  IF Cardinality(Keys) < MaxCached THEN {{}}
        ELSE IF Cardinality(Keys \ Stale) < MaxCached THEN {Stale}
        ELSE {Stale \cup {t} : t \in lru}

\* Variant: the registration is left behind.
RegisteredAfterLeak(gone) == registered

\* removeTenantClient for each tenant in gone: its registration is withdrawn.
RegisteredAfter(gone) == registered \ {token[t] : t \in gone}

\* No object the program or the collector can still refer to.
Fresh == Clients \ (live \cup registered \cup {cache[t] : t \in Tenants}
                         \cup {token[t] : t \in Tenants})

\* No live client: one is created, after eviction when the map is full.  The
\* dead entry of t itself, if it is still there, is overwritten.
Miss(c, t) ==
    /\ ~destroyed
    /\ ~Alive(t)
    /\ \E gone \in Evicted, o \in Fresh :
        /\ cache' = [s \in Tenants |-> IF s = t THEN o ELSE IF s \in gone THEN None ELSE cache[s]]
        /\ token' = [s \in Tenants |-> IF s = t THEN o ELSE IF s \in gone THEN None ELSE token[s]]
        /\ registered' = RegisteredAfter(gone) \cup {o}
        /\ older' \in Touched((Keys \ gone) \cup {t}, Forgotten(older, gone), t)
        /\ boundTo' = [boundTo EXCEPT ![o] = t]
        /\ live' = live \cup {o}
        /\ holds' = [holds EXCEPT ![c] = o]
    /\ UNCHANGED destroyed

\* The service method that asked for the client returns.
LetGo(c) ==
    /\ holds[c] # None
    /\ holds' = [holds EXCEPT ![c] = None]
    /\ UNCHANGED <<cache, token, older, registered, boundTo, live, destroyed>>

-----------------------------------------------------------------------------
(* The collector and the callback of the registry                          *)

Collect(o) ==
    /\ o \in live
    /\ \A c \in Callers : holds[c] # o
    /\ live' = live \ {o}
    /\ UNCHANGED <<cache, token, older, registered, boundTo, holds, destroyed>>

Drop(t) ==
    /\ cache' = [cache EXCEPT ![t] = None]
    /\ token' = [token EXCEPT ![t] = None]
    /\ older' = Forgotten(older, {t})

\* Variant: the entry is removed without looking at what it points to.
ReportBlindly(o) ==
    /\ o \in registered \ live
    /\ registered' = registered \ {o}
    /\ IF destroyed THEN UNCHANGED <<cache, token, older>> ELSE Drop(boundTo[o])
    /\ UNCHANGED <<boundTo, live, holds, destroyed>>

\* The callback knows the tenant, not the client: it may find the entry of a
\* younger client of the same tenant.
Report(o) ==
    /\ o \in registered \ live
    /\ registered' = registered \ {o}
    /\ IF destroyed \/ Alive(boundTo[o]) THEN UNCHANGED <<cache, token, older>>
       ELSE Drop(boundTo[o])
    /\ UNCHANGED <<boundTo, live, holds, destroyed>>

\* onModuleDestroy.  Registrations whose token was overwritten stay behind.
Destroy ==
    /\ ~destroyed
    /\ destroyed' = TRUE
    /\ registered' = registered \ {token[t] : t \in Tenants}
    /\ cache' = [t \in Tenants |-> None]
    /\ token' = [t \in Tenants |-> None]
    /\ older' = {}
    /\ UNCHANGED <<boundTo, live, holds>>

ClientsNext ==
    \/ \E c \in Callers : LetGo(c) \/ \E t \in Tenants : Hit(c, t) \/ Miss(c, t)
    \/ \E o \in Clients : Collect(o) \/ Report(o)
    \/ Destroy

ClientsSpec == ClientsInit /\ [][ClientsNext]_clientVars

-----------------------------------------------------------------------------
(* Properties                                                              *)

ClientsTypeOK ==
    /\ cache \in [Tenants -> Clients \cup {None}]
    /\ token \in [Tenants -> Clients \cup {None}]
    /\ older \subseteq Tenants \X Tenants
    /\ registered \subseteq Clients
    /\ boundTo \in [Clients -> Tenants \cup {None}]
    /\ live \subseteq Clients
    /\ holds \in [Callers -> Clients \cup {None}]
    /\ destroyed \in BOOLEAN

\* The maps agree with each other and with the registry, whatever the order of
\* evictions, collections and late callbacks: an entry carries the token of
\* its own client and a client bound to its own tenant, its death will be
\* reported, no live client outside the cache is still registered, the size
\* limit holds, and nothing is left after the service was destroyed.
CacheSound ==
    /\ token = cache
    /\ \A t \in Keys : boundTo[cache[t]] = t
    /\ \A t \in Keys : cache[t] \in registered
    /\ \A o \in registered \cap live : \E t \in Keys : cache[t] = o
    /\ Cardinality(Keys) <= MaxCached
    /\ destroyed => Keys = {}

\* The entry of a live client is only ever taken away to make room when every
\* entry is live and this one was not accessed for the longest time, or at
\* shutdown; a late callback never takes it.
LiveClientsStay ==
    [][\A t \in Keys : (Alive(t) /\ cache'[t] # cache[t]) =>
          \/ destroyed'
          \/ /\ Stale = {} /\ Cardinality(Keys) = MaxCached
             /\ \A s \in Keys : <<s, t>> \notin older]_clientVars
=============================================================================
