-------------------------- MODULE TenantScopeProofs --------------------------
(***************************************************************************)
(* Two layers.  The cache of clients is proved sound on its own and stays  *)
(* so under the transactions, whose steps are steps of the cache or leave  *)
(* it alone.  On it rests the isolation: a client a caller holds is bound  *)
(* to the tenant it asked for, a scoped transaction carries that tenant on *)
(* its connection, and a connection without one carries none; so every row *)
(* is inserted, and every row is read, for the tenant of the call.         *)
(***************************************************************************)
EXTENDS TenantScope, FiniteSetTheorems, TLAPS

-----------------------------------------------------------------------------
(* The cache of clients                                                    *)

\* The parts of CacheSound.
Tokens       == token = cache
OwnTenant    == \A t \in Keys : boundTo[cache[t]] = t
WillReport   == \A t \in Keys : cache[t] \in registered
NoneForgotten == \A o \in registered \cap live : \E t \in Keys : cache[t] = o
Bounded      == Cardinality(Keys) <= MaxCached
Emptied      == destroyed => Keys = {}

ClientsInv == ClientsTypeOK /\ CacheSound

LEMMA CacheParts ==
  CacheSound <=> Tokens /\ OwnTenant /\ WillReport /\ NoneForgotten /\ Bounded /\ Emptied
  BY DEF CacheSound, Tokens, OwnTenant, WillReport, NoneForgotten, Bounded, Emptied

\* The primed form, for the steps below.
LEMMA CachePartsAfter ==
  CacheSound' <=> Tokens' /\ OwnTenant' /\ WillReport' /\ NoneForgotten' /\ Bounded' /\ Emptied'
  BY DEF CacheSound, Tokens, OwnTenant, WillReport, NoneForgotten, Bounded, Emptied

LEMMA KeysFinite == IsFiniteSet(Keys) /\ Cardinality(Keys) \in Nat
<1>1. Keys \subseteq Tenants
  BY DEF Keys, Cached
<1>2. QED
  BY <1>1, ClientsAssumption, FS_Subset, FS_CardinalityType

LEMMA ClientsInitInv == ClientsInit => ClientsInv
<1> SUFFICES ASSUME ClientsInit PROVE ClientsInv
  OBVIOUS
<1>1. Keys = {}
  BY DEF ClientsInit, Keys, Cached
<1>2. Cardinality(Keys) <= MaxCached
  BY <1>1, FS_EmptySet, ClientsAssumption
<1>3. QED
  BY <1>1, <1>2 DEF ClientsInit, ClientsInv, ClientsTypeOK, CacheSound

\* A step that leaves the maps and the registry alone and revives nobody.
LEMMA CacheUntouched ==
  ASSUME CacheSound, UNCHANGED <<cache, token, registered, boundTo, destroyed>>,
         live' \subseteq live
  PROVE  CacheSound'
  BY DEF CacheSound, Keys, Cached

\* What is evicted makes room for one more.
LEMMA RoomMade ==
  ASSUME ClientsInv, NEW gone \in Evicted, NEW t \in Tenants
  PROVE  /\ gone \subseteq Keys
         /\ IsFiniteSet((Keys \ gone) \cup {t})
         /\ Cardinality((Keys \ gone) \cup {t}) <= MaxCached
<1>1. Stale \subseteq Keys
  BY DEF Stale
<1>2. gone \subseteq Keys
  BY <1>1 DEF Evicted
<1>3. IsFiniteSet(Keys \ gone) /\ IsFiniteSet(Keys \ Stale) /\ MaxCached \in Nat
  BY KeysFinite, FS_Subset, ClientsAssumption
<1>4. Cardinality(Keys \ gone) < MaxCached
  <2>1. CASE gone = {} /\ Cardinality(Keys) < MaxCached
    <3>1. Keys \ gone = Keys
      BY <2>1
    <3>2. QED
      BY <2>1, <3>1
  <2>2. CASE gone = Stale /\ Cardinality(Keys \ Stale) < MaxCached
    BY <2>2
  <2>3. ASSUME NEW l \in Keys \ Stale, gone = Stale \cup {l}
        PROVE  Cardinality(Keys \ gone) < MaxCached
    <3>1. Keys \ gone = (Keys \ Stale) \ {l}
      BY <2>3
    <3>2. Cardinality((Keys \ Stale) \ {l}) = Cardinality(Keys \ Stale) - 1
      BY <1>3, FS_RemoveElement
    <3>3. Cardinality(Keys \ Stale) <= Cardinality(Keys)
      BY KeysFinite, FS_Subset
    <3>4. Cardinality(Keys) <= MaxCached
      BY DEF ClientsInv, CacheSound
    <3>5. Cardinality(Keys) \in Nat /\ Cardinality(Keys \ Stale) \in Nat
      BY KeysFinite, <1>3, FS_CardinalityType
    <3>6. QED
      BY <1>3, <3>1, <3>2, <3>3, <3>4, <3>5
  <2>4. QED
    BY <2>1, <2>2, <2>3 DEF Evicted
<1>5. /\ IsFiniteSet((Keys \ gone) \cup {t})
      /\ Cardinality((Keys \ gone) \cup {t}) <= Cardinality(Keys \ gone) + 1
  <2> DEFINE S == Keys \ gone
  <2>1. /\ IsFiniteSet(S \cup {t})
        /\ \/ t \in S /\ Cardinality(S \cup {t}) = Cardinality(S)
           \/ t \notin S /\ Cardinality(S \cup {t}) = Cardinality(S) + 1
    BY <1>3, FS_AddElement
  <2>2. Cardinality(S) \in Nat
    BY <1>3, FS_CardinalityType
  <2> HIDE DEF S
  <2>3. IsFiniteSet(S \cup {t}) /\ Cardinality(S \cup {t}) <= Cardinality(S) + 1
    BY <2>1, <2>2
  <2>4. QED
    BY <2>3 DEF S
<1>6. Cardinality(Keys \ gone) \in Nat /\ Cardinality((Keys \ gone) \cup {t}) \in Nat
  BY <1>3, <1>5, FS_CardinalityType
<1>7. QED
  BY <1>2, <1>3, <1>4, <1>5, <1>6

\* A new client takes its place without disturbing the others.
LEMMA MissSound ==
  ASSUME ClientsInv, NEW c \in Callers, NEW t \in Tenants, Miss(c, t)
  PROVE  CacheSound'
<1>1. PICK gone \in Evicted, o \in Fresh :
        /\ cache' = [s \in Tenants |-> IF s = t THEN o ELSE IF s \in gone THEN None ELSE cache[s]]
        /\ token' = [s \in Tenants |-> IF s = t THEN o ELSE IF s \in gone THEN None ELSE token[s]]
        /\ registered' = RegisteredAfter(gone) \cup {o}
        /\ boundTo' = [boundTo EXCEPT ![o] = t]
        /\ live' = live \cup {o}
  BY DEF Miss
<1>2. /\ o \in Clients /\ o # None /\ o \notin live \cup registered
      /\ \A s \in Tenants : cache[s] # o
  BY ClientsAssumption DEF Fresh
<1>3. gone \subseteq Keys
  BY <1>1, RoomMade
<1>4. Keys' = (Keys \ gone) \cup {t}
  BY <1>1, <1>2, <1>3 DEF Keys, Cached
<1>5. ~Alive(t) /\ ~destroyed /\ ~destroyed'
  BY DEF Miss
<1>6. \A s \in Keys' \ {t} : s \in Keys \ gone /\ cache'[s] = cache[s] /\ s \in Tenants
  BY <1>1, <1>4 DEF Keys, Cached
<1>7. cache'[t] = o
  BY <1>1
<1>8. Tokens /\ OwnTenant /\ WillReport /\ NoneForgotten
  BY CacheParts DEF ClientsInv
<1>9. Tokens'
  BY <1>1, <1>8 DEF Tokens
<1>10. OwnTenant'
  <2>1. boundTo'[o] = t
    BY <1>1, <1>2 DEF ClientsInv, ClientsTypeOK
  <2>2. \A s \in Keys' \ {t} : boundTo'[cache'[s]] = s
    BY <1>1, <1>2, <1>6, <1>8 DEF OwnTenant, ClientsInv, ClientsTypeOK
  <2>3. QED
    BY <1>7, <2>1, <2>2 DEF OwnTenant
<1>11. WillReport'
  <2>1. ASSUME NEW s \in Keys' \ {t}
        PROVE  cache'[s] \in registered'
    <3>1. cache[s] \in registered /\ boundTo[cache[s]] = s
      BY <1>6, <1>8 DEF WillReport, OwnTenant
    <3>2. \A g \in gone : token[g] # cache[s]
      BY <1>3, <1>6, <1>8, <3>1 DEF Tokens, OwnTenant
    <3>3. QED
      BY <1>1, <1>6, <3>1, <3>2 DEF RegisteredAfter
  <2>2. QED
    BY <1>1, <1>7, <2>1 DEF WillReport
<1>12. NoneForgotten'
  <2> SUFFICES ASSUME NEW p \in registered' \cap live'
               PROVE  \E s \in Keys' : cache'[s] = p
    BY DEF NoneForgotten
  <2>1. CASE p = o
    BY <2>1, <1>4, <1>7
  <2>2. CASE p # o
    <3>1. p \in registered \cap live /\ \A g \in gone : token[g] # p
      BY <1>1, <2>2 DEF RegisteredAfter
    <3>2. PICK s \in Keys : cache[s] = p
      BY <1>8, <3>1 DEF NoneForgotten
    <3>3. s \notin gone /\ s # t
      BY <1>5, <1>8, <3>1, <3>2 DEF Tokens, Alive
    <3>4. QED
      BY <1>4, <1>6, <3>2, <3>3
  <2>3. QED
    BY <2>1, <2>2
<1>13. Bounded'
  BY <1>4, RoomMade DEF Bounded
<1>14. Emptied'
  BY <1>5 DEF Emptied
<1>15. QED
  BY <1>9, <1>10, <1>11, <1>12, <1>13, <1>14, CachePartsAfter

\* A report removes a dead client's entry or nothing.
LEMMA ReportSound ==
  ASSUME ClientsInv, NEW o \in Clients, Report(o)
  PROVE  CacheSound'
<1>1. /\ Tokens /\ OwnTenant /\ WillReport /\ NoneForgotten /\ Bounded /\ Emptied
      /\ o \in registered \ live /\ registered' = registered \ {o}
      /\ UNCHANGED <<boundTo, live, destroyed>>
  BY CacheParts DEF ClientsInv, Report
<1>2. CASE destroyed \/ Alive(boundTo[o])
  <2>1. UNCHANGED <<cache, token>> /\ Keys' = Keys
    BY <1>2 DEF Report, Keys, Cached
  <2>2. \A t \in Keys : cache[t] # o
    BY <1>1, <1>2 DEF OwnTenant, Emptied, Alive
  <2>3. WillReport' /\ NoneForgotten'
    BY <1>1, <2>1, <2>2 DEF WillReport, NoneForgotten
  <2>4. Tokens' /\ OwnTenant' /\ Bounded' /\ Emptied'
    BY <1>1, <2>1 DEF Tokens, OwnTenant, Bounded, Emptied
  <2>5. QED
    BY <2>3, <2>4, CachePartsAfter
<1>3. CASE ~(destroyed \/ Alive(boundTo[o]))
  <2> DEFINE b == boundTo[o]
  <2>1. /\ cache' = [cache EXCEPT ![b] = None]
        /\ token' = [token EXCEPT ![b] = None]
    BY <1>3 DEF Report, Drop
  <2>2. Keys' = Keys \ {b} /\ \A t \in Keys' : cache'[t] = cache[t]
    BY <2>1 DEF Keys, Cached, ClientsInv, ClientsTypeOK
  <2>3. Tokens' /\ OwnTenant' /\ Emptied'
    BY <1>1, <1>3, <2>1, <2>2 DEF Tokens, OwnTenant, Emptied
  <2>4. WillReport'
    BY <1>1, <2>2 DEF WillReport, OwnTenant
  <2>5. NoneForgotten'
    BY <1>1, <1>3, <2>2 DEF NoneForgotten, Alive
  <2>6. Bounded'
    <3>1. Cardinality(Keys \ {b}) <= Cardinality(Keys)
      BY KeysFinite, FS_Subset
    <3>2. Cardinality(Keys \ {b}) \in Nat
      BY KeysFinite, FS_Subset, FS_CardinalityType
    <3>3. QED
      BY <1>1, <2>2, <3>1, <3>2, KeysFinite, ClientsAssumption DEF Bounded
  <2>7. QED
    BY <2>3, <2>4, <2>5, <2>6, CachePartsAfter
<1>4. QED
  BY <1>2, <1>3

\* Shutdown empties the maps, and only forgotten registrations remain.
LEMMA DestroySound ==
  ASSUME ClientsInv, Destroy
  PROVE  CacheSound'
<1>1. Keys' = {} /\ token' = cache'
  BY DEF Destroy, Keys, Cached
<1>2. registered' \cap live' = {}
  BY DEF Destroy, ClientsInv, CacheSound, Keys, Cached
<1>3. Cardinality(Keys') <= MaxCached
  BY <1>1, FS_EmptySet, ClientsAssumption
<1>4. QED
  BY <1>1, <1>2, <1>3 DEF CacheSound

\* The order of accesses stays a relation on tenants.
LEMMA TouchedType ==
  ASSUME NEW keys \in SUBSET Tenants, NEW order \in SUBSET (Tenants \X Tenants),
         NEW t \in Tenants, NEW after \in Touched(keys, order, t)
  PROVE  after \subseteq Tenants \X Tenants
  BY DEF Touched

LEMMA ForgottenType ==
  ASSUME NEW order \in SUBSET (Tenants \X Tenants), NEW gone
  PROVE  Forgotten(order, gone) \in SUBSET (Tenants \X Tenants)
  BY DEF Forgotten

LEMMA ClientsTypeStep == ClientsTypeOK /\ [ClientsNext]_clientVars => ClientsTypeOK'
<1> SUFFICES ASSUME ClientsTypeOK, [ClientsNext]_clientVars PROVE ClientsTypeOK'
  OBVIOUS
<1>1. CASE UNCHANGED clientVars
  BY <1>1 DEF ClientsTypeOK, clientVars
<1>2. ASSUME NEW c \in Callers, LetGo(c)
      PROVE  ClientsTypeOK'
  BY <1>2 DEF ClientsTypeOK, LetGo
<1>3. ASSUME NEW c \in Callers, NEW t \in Tenants, Hit(c, t)
      PROVE  ClientsTypeOK'
  <2>1. older' \subseteq Tenants \X Tenants
    BY <1>3, TouchedType DEF Hit, ClientsTypeOK, Keys, Cached
  <2>2. QED
    BY <1>3, <2>1 DEF ClientsTypeOK, Hit
<1>4. ASSUME NEW c \in Callers, NEW t \in Tenants, Miss(c, t)
      PROVE  ClientsTypeOK'
  <2>1. PICK gone \in Evicted, o \in Fresh :
          /\ cache' = [s \in Tenants |-> IF s = t THEN o ELSE IF s \in gone THEN None ELSE cache[s]]
          /\ token' = [s \in Tenants |-> IF s = t THEN o ELSE IF s \in gone THEN None ELSE token[s]]
          /\ registered' = RegisteredAfter(gone) \cup {o}
          /\ older' \in Touched((Keys \ gone) \cup {t}, Forgotten(older, gone), t)
          /\ boundTo' = [boundTo EXCEPT ![o] = t]
          /\ live' = live \cup {o}
          /\ holds' = [holds EXCEPT ![c] = o]
    BY <1>4 DEF Miss
  <2>2. o \in Clients
    BY DEF Fresh
  <2>3. cache' \in [Tenants -> Clients \cup {None}] /\ token' \in [Tenants -> Clients \cup {None}]
    BY <2>1, <2>2 DEF ClientsTypeOK
  <2>4. older' \subseteq Tenants \X Tenants
    <3>1. (Keys \ gone) \cup {t} \in SUBSET Tenants
      BY DEF Keys, Cached
    <3>2. Forgotten(older, gone) \in SUBSET (Tenants \X Tenants)
      BY ForgottenType DEF ClientsTypeOK
    <3>3. QED
      BY <2>1, <3>1, <3>2, TouchedType
  <2>5. registered' \subseteq Clients
    BY <2>1, <2>2 DEF ClientsTypeOK, RegisteredAfter
  <2>6. QED
    BY <1>4, <2>1, <2>2, <2>3, <2>4, <2>5 DEF ClientsTypeOK, Miss
<1>5. ASSUME NEW o \in Clients, Collect(o)
      PROVE  ClientsTypeOK'
  BY <1>5 DEF ClientsTypeOK, Collect
<1>6. ASSUME NEW o \in Clients, Report(o)
      PROVE  ClientsTypeOK'
  <2>1. older' \subseteq Tenants \X Tenants
    BY <1>6, ForgottenType DEF ClientsTypeOK, Report, Drop
  <2>2. QED
    BY <1>6, <2>1 DEF ClientsTypeOK, Report, Drop
<1>7. CASE Destroy
  BY <1>7 DEF ClientsTypeOK, Destroy
<1>8. QED
  BY <1>1, <1>2, <1>3, <1>4, <1>5, <1>6, <1>7 DEF ClientsNext

LEMMA ClientsStep == ClientsInv /\ [ClientsNext]_clientVars => ClientsInv'
<1> SUFFICES ASSUME ClientsInv, [ClientsNext]_clientVars PROVE CacheSound'
  BY ClientsTypeStep DEF ClientsInv
<1>1. CASE UNCHANGED clientVars
  BY <1>1, CacheUntouched DEF ClientsInv, clientVars
<1>2. ASSUME NEW c \in Callers, LetGo(c) \/ \E t \in Tenants : Hit(c, t)
      PROVE  CacheSound'
  BY <1>2, CacheUntouched DEF ClientsInv, LetGo, Hit
<1>3. ASSUME NEW c \in Callers, NEW t \in Tenants, Miss(c, t)
      PROVE  CacheSound'
  BY <1>3, MissSound
<1>4. ASSUME NEW o \in Clients, Collect(o)
      PROVE  CacheSound'
  BY <1>4, CacheUntouched DEF ClientsInv, Collect
<1>5. ASSUME NEW o \in Clients, Report(o)
      PROVE  CacheSound'
  BY <1>5, ReportSound
<1>6. CASE Destroy
  BY <1>6, DestroySound
<1>7. QED
  BY <1>1, <1>2, <1>3, <1>4, <1>5, <1>6 DEF ClientsNext

\* Whatever the order of evictions, collections and late reports, and for any
\* number of tenants, callers and cached clients, the three maps of the cache
\* agree with each other and with the registry.
THEOREM CacheStaysSound == ClientsSpec => []CacheSound
<1>1. ClientsInit => ClientsInv
  BY ClientsInitInv
<1>2. ClientsInv /\ [ClientsNext]_clientVars => ClientsInv'
  BY ClientsStep
<1>3. ClientsInv => CacheSound
  BY DEF ClientsInv
<1>4. QED
  BY <1>1, <1>2, <1>3, PTL DEF ClientsSpec

\* Only eviction from a cache full of live entries, or shutdown, takes a live
\* client away.
LEMMA TakenForRoom ==
  ASSUME ClientsInv, [ClientsNext]_clientVars, NEW t \in Keys, Alive(t), cache'[t] # cache[t]
  PROVE  \/ destroyed'
         \/ /\ Stale = {} /\ Cardinality(Keys) = MaxCached
            /\ \A s \in Keys : <<s, t>> \notin older
<1>0. t \in Tenants
  BY DEF Keys, Cached
<1>1. CASE \/ UNCHANGED clientVars
           \/ \E c \in Callers : LetGo(c) \/ \E s \in Tenants : Hit(c, s)
           \/ \E o \in Clients : Collect(o)
  BY <1>1 DEF clientVars, LetGo, Hit, Collect
<1>2. CASE Destroy
  BY <1>2 DEF Destroy
<1>3. ASSUME NEW o \in Clients, Report(o)
      PROVE  FALSE
  BY <1>0, <1>3 DEF Report, Drop, ClientsInv, ClientsTypeOK
<1>4. ASSUME NEW c \in Callers, NEW s \in Tenants, Miss(c, s)
      PROVE  /\ Stale = {} /\ Cardinality(Keys) = MaxCached
             /\ \A k \in Keys : <<k, t>> \notin older
  <2>1. PICK gone \in Evicted, o \in Fresh :
          cache' = [k \in Tenants |-> IF k = s THEN o ELSE IF k \in gone THEN None ELSE cache[k]]
    BY <1>4 DEF Miss
  <2>2. t # s /\ t \in gone
    BY <1>0, <1>4, <2>1 DEF Miss
  <2>3. t \notin Stale
    BY DEF Stale
  <2>4. /\ ~(Cardinality(Keys) < MaxCached)
        /\ ~(Cardinality(Keys \ Stale) < MaxCached)
        /\ \A k \in Keys \ Stale : <<k, t>> \notin older
    BY <2>2, <2>3 DEF Evicted
  <2>5. /\ Cardinality(Keys) <= MaxCached
        /\ Cardinality(Keys) \in Nat /\ MaxCached \in Nat
    BY KeysFinite, ClientsAssumption DEF ClientsInv, CacheSound
  <2>6. /\ IsFiniteSet(Keys \ Stale) /\ Cardinality(Keys \ Stale) \in Nat
        /\ Cardinality(Keys \ Stale) <= Cardinality(Keys)
        /\ Cardinality(Keys) = Cardinality(Keys \ Stale) => Keys = Keys \ Stale
    BY KeysFinite, FS_Subset, FS_CardinalityType
  <2>7. Cardinality(Keys) = MaxCached /\ Cardinality(Keys \ Stale) = Cardinality(Keys)
    BY <2>4, <2>5, <2>6
  <2>8. Keys = Keys \ Stale
    BY <2>6, <2>7
  <2>9. Stale = {}
    BY <2>8 DEF Stale
  <2>10. QED
    BY <2>4, <2>7, <2>9
<1>5. QED
  BY <1>1, <1>2, <1>3, <1>4 DEF ClientsNext

\* A live client leaves the cache only when it is full of live clients and it
\* is the least recently used, or at shutdown: no late report takes it.
THEOREM LiveClientsKept == ClientsSpec => LiveClientsStay
<1>1. ClientsInit => ClientsInv
  BY ClientsInitInv
<1>2. ClientsInv /\ [ClientsNext]_clientVars => ClientsInv'
  BY ClientsStep
<1>3. ClientsInv /\ [ClientsNext]_clientVars =>
        [\A t \in Keys : (Alive(t) /\ cache'[t] # cache[t]) =>
            \/ destroyed'
            \/ /\ Stale = {} /\ Cardinality(Keys) = MaxCached
               /\ \A s \in Keys : <<s, t>> \notin older]_clientVars
  BY TakenForRoom
<1>4. QED
  BY <1>1, <1>2, <1>3, PTL DEF ClientsSpec, LiveClientsStay

-----------------------------------------------------------------------------
(* The transactions                                                        *)

\* The steps of a call are steps of the cache, or none.
LEMMA ScopeMovesTheCache == [Next]_vars => [ClientsNext]_clientVars
<1>1. ASSUME NEW c \in Callers, NEW t \in Tenants, Ask(c, t)
      PROVE  ClientsNext
  BY <1>1 DEF Ask, ClientsNext
<1>2. ASSUME NEW c \in Callers,
             \/ Begin(c) \/ SetContext(c) \/ Select(c) \/ Insert(c)
             \/ Commit(c) \/ Rollback(c) \/ SelectUnscoped(c)
      PROVE  UNCHANGED clientVars
  BY <1>2 DEF Begin, SetContext, Select, Insert, Commit, Rollback, End, SelectUnscoped
<1>3. QED
  BY <1>1, <1>2 DEF Next, vars, ClientsNext

\* The calls use the cache as TenantClients describes it.
THEOREM ScopeUsesTheCache == Spec => ClientsSpec
  BY ScopeMovesTheCache, PTL DEF Spec, ClientsSpec, Init

\* What a reference in a caller's hands is worth: the client is alive and
\* bound to the tenant the caller asked for.
Held ==
    \A c \in Callers : holds[c] # None =>
        holds[c] \in live /\ boundTo[holds[c]] = asked[c] /\ asked[c] \in Tenants

\* A transaction runs for the tenant its call asked for, and once it is scoped
\* its connection says so; a call without one has no uncommitted rows.
Carries ==
    \A c \in Callers :
        /\ InTransaction(c) => within[c] = asked[c] /\ asked[c] \in Tenants
        /\ ~InTransaction(c) => mine[c] = {} /\ c \notin scoped
        /\ c \in scoped => context[conn[c]] = within[c]

\* No two transactions share a connection, and a context is somebody's.
OwnConnection ==
    /\ \A c, d \in Callers : c # d /\ conn[c] # None => conn[c] # conn[d]
    /\ \A k \in Connections : context[k] # None => \E c \in scoped : conn[c] = k

\* Uncommitted rows exist, each is its inserter's alone, and a row on top of an
\* uncommitted one is in the same transaction.
Uncommitted ==
    /\ \A c \in Callers : \A i \in mine[c] : Exists(i)
    /\ \A c, d \in Callers : c # d => mine[c] \cap mine[d] = {}
    /\ \A i \in Ids : Exists(i) => \A p \in rows[i].parents :
          /\ p \in Ids /\ Exists(p)
          /\ \A c \in Callers : p \in mine[c] => i \in mine[c]

\* Nobody has read what another call has not committed.
ReadCommitted ==
    \A c, d \in Callers : c # d => result[c] \cap mine[d] = {}

IInv ==
    /\ TypeOK
    /\ CacheSound
    /\ Held
    /\ Carries
    /\ OwnConnection
    /\ Uncommitted
    /\ ReadCommitted
    /\ RowsStayInside
    /\ ReadsStayInside

LEMMA InitInv == Init => IInv
<1> SUFFICES ASSUME Init PROVE IInv
  OBVIOUS
<1>1. ClientsTypeOK /\ CacheSound
  BY ClientsInitInv DEF Init, ClientsInv
<1>2. TypeOK
  BY <1>1 DEF Init, TypeOK
<1>3. Held /\ Carries /\ OwnConnection
  BY DEF Init, ClientsInit, Held, Carries, OwnConnection, InTransaction
<1>4. Uncommitted /\ ReadCommitted /\ RowsStayInside /\ ReadsStayInside
  BY DEF Init, Uncommitted, ReadCommitted, RowsStayInside, ReadsStayInside, Exists, Absent
<1>5. QED
  BY <1>1, <1>2, <1>3, <1>4 DEF IInv

\* What the shapes have in common.
LEMMA RowShape ==
  ASSUME NEW r \in Row
  PROVE  /\ r.table \in {"root", "child", "owned", "listed", "link"}
         /\ r.tenant \in Tenants \cup {None}
         /\ r.parents \in SUBSET Ids
         /\ r.table = "root" => r.parents = {}
         /\ r.table \in {"root", "listed"} => r.tenant \in Tenants
  BY DEF Row, Root, Child, Owned, Listed, Link

LEMMA TypeStep == TypeOK /\ [Next]_vars => TypeOK'
<1> SUFFICES ASSUME TypeOK, [Next]_vars PROVE TypeOK'
  OBVIOUS
<1>0. ClientsTypeOK'
  BY ScopeMovesTheCache, ClientsTypeStep DEF TypeOK
<1>1. CASE UNCHANGED <<asked, rowVars>>
  BY <1>0, <1>1 DEF TypeOK, rowVars
<1>2. ASSUME NEW c \in Callers, NEW t \in Tenants, Ask(c, t)
      PROVE  TypeOK'
  BY <1>0, <1>2 DEF TypeOK, Ask
<1>3. ASSUME NEW c \in Callers, Begin(c)
      PROVE  TypeOK'
  <2>1. holds[c] \in Clients
    BY <1>3 DEF Begin, TypeOK, ClientsTypeOK
  <2>2. boundTo[holds[c]] \in Tenants \cup {None}
    BY <2>1 DEF TypeOK, ClientsTypeOK
  <2>3. conn' \in [Callers -> Connections \cup {None}] /\ within' \in [Callers -> Tenants \cup {None}]
    BY <1>3, <2>2 DEF TypeOK, Begin, Free
  <2>4. QED
    BY <1>0, <1>3, <2>3 DEF TypeOK, Begin
<1>4. ASSUME NEW c \in Callers, SetContext(c)
      PROVE  TypeOK'
  <2>1. context' \in [Connections -> Tenants \cup {None}]
    BY <1>4 DEF TypeOK, SetContext
  <2>2. QED
    BY <1>0, <1>4, <2>1 DEF TypeOK, SetContext
<1>5. ASSUME NEW c \in Callers, Select(c)
      PROVE  TypeOK'
  BY <1>0, <1>5 DEF TypeOK, Select, Visible, Snapshot
<1>6. ASSUME NEW c \in Callers, Insert(c)
      PROVE  TypeOK'
  <2>1. rows' \in [Ids -> Row \cup {Absent}] /\ mine' \in [Callers -> SUBSET Ids]
    BY <1>6 DEF TypeOK, Insert
  <2>2. QED
    BY <1>0, <1>6, <2>1 DEF TypeOK, Insert
<1>7. ASSUME NEW c \in Callers, Commit(c) \/ Rollback(c)
      PROVE  TypeOK'
  <2>1. /\ mine' \in [Callers -> SUBSET Ids]
        /\ conn' \in [Callers -> Connections \cup {None}]
        /\ within' \in [Callers -> Tenants \cup {None}]
        /\ scoped' \subseteq Callers
        /\ context' \in [Connections -> Tenants \cup {None}]
        /\ asked' = asked
    BY <1>7 DEF TypeOK, Commit, Rollback, End, ContextAfter
  <2>2. rows' \in [Ids -> Row \cup {Absent}] /\ result' \in [Callers -> SUBSET Ids]
    BY <1>7 DEF TypeOK, Commit, Rollback
  <2>3. QED
    BY <1>0, <2>1, <2>2 DEF TypeOK
<1>8. ASSUME NEW c \in Callers, SelectUnscoped(c)
      PROVE  TypeOK'
  BY <1>0, <1>8 DEF TypeOK, SelectUnscoped, Visible, Snapshot
<1>9. QED
  BY <1>1, <1>2, <1>3, <1>4, <1>5, <1>6, <1>7, <1>8 DEF Next, Beside, vars

\* The reference a caller gets is bound to the tenant it asks for, and stays so:
\* the cache gives a new client only to an object nobody holds.
LEMMA HeldStep == IInv /\ [Next]_vars => Held'
<1> SUFFICES ASSUME IInv, [Next]_vars PROVE Held'
  OBVIOUS
<1>1. CASE UNCHANGED <<clientVars, asked>>
  BY <1>1 DEF IInv, Held, clientVars
<1>2. ASSUME NEW c \in Callers, LetGo(c) /\ Beside
      PROVE  Held'
  BY <1>2 DEF IInv, TypeOK, ClientsTypeOK, Held, LetGo, Beside
<1>3. ASSUME NEW o \in Clients, (Collect(o) \/ Report(o)) /\ Beside
      PROVE  Held'
  BY <1>3 DEF IInv, Held, Collect, Report, Beside
<1>4. CASE Destroy /\ Beside
  BY <1>4 DEF IInv, Held, Destroy, Beside
<1>5. ASSUME NEW c \in Callers, SelectUnscoped(c)
      PROVE  Held'
  BY <1>5 DEF IInv, TypeOK, Held, SelectUnscoped, clientVars
<1>6. ASSUME NEW c \in Callers, NEW t \in Tenants, Hit(c, t), asked' = [asked EXCEPT ![c] = t]
      PROVE  Held'
  <2>1. cache[t] \in live /\ cache[t] # None /\ boundTo[cache[t]] = t
    BY <1>6, ClientsAssumption
    DEF Hit, Alive, IInv, CacheSound, TypeOK, ClientsTypeOK, Keys, Cached
  <2>2. holds'[c] = cache[t] /\ asked'[c] = t
    BY <1>6 DEF Hit, IInv, TypeOK, ClientsTypeOK
  <2>3. \A d \in Callers \ {c} : holds'[d] = holds[d] /\ asked'[d] = asked[d]
    BY <1>6 DEF Hit, IInv, TypeOK, ClientsTypeOK
  <2>4. live' = live /\ boundTo' = boundTo
    BY <1>6 DEF Hit
  <2>5. QED
    BY <2>1, <2>2, <2>3, <2>4 DEF IInv, Held
<1>7. ASSUME NEW c \in Callers, NEW t \in Tenants, Miss(c, t), asked' = [asked EXCEPT ![c] = t]
      PROVE  Held'
  <2>1. PICK o \in Fresh :
          /\ boundTo' = [boundTo EXCEPT ![o] = t]
          /\ live' = live \cup {o}
          /\ holds' = [holds EXCEPT ![c] = o]
    BY <1>7 DEF Miss
  <2>2. o \in Clients /\ o \notin live
    BY DEF Fresh
  <2>3. boundTo'[o] = t /\ \A p \in live : boundTo'[p] = boundTo[p]
    BY <2>1, <2>2 DEF IInv, TypeOK, ClientsTypeOK
  <2>4. holds'[c] = o /\ asked'[c] = t
    BY <1>7, <2>1 DEF IInv, TypeOK, ClientsTypeOK
  <2>5. \A d \in Callers \ {c} : holds'[d] = holds[d] /\ asked'[d] = asked[d]
    BY <1>7, <2>1 DEF IInv, TypeOK, ClientsTypeOK
  <2>6. QED
    BY <2>1, <2>3, <2>4, <2>5 DEF IInv, Held
<1>8. ASSUME NEW c \in Callers,
             Begin(c) \/ SetContext(c) \/ Select(c) \/ Insert(c) \/ Commit(c) \/ Rollback(c)
      PROVE  UNCHANGED <<clientVars, asked>>
  BY <1>8 DEF Begin, SetContext, Select, Insert, Commit, Rollback, End
<1>9. QED
  BY <1>1, <1>2, <1>3, <1>4, <1>5, <1>6, <1>7, <1>8 DEF Next, Ask, vars

\* The part of the invariant about rows and transactions.
Inside ==
    Carries /\ OwnConnection /\ Uncommitted /\ ReadCommitted /\ RowsStayInside /\ ReadsStayInside

\* Steps beside the transactions do not touch it.
LEMMA BesideStep ==
  ASSUME IInv, UNCHANGED <<asked, rowVars>>
  PROVE  Inside'
<1> USE DEF rowVars
<1>1. Carries' /\ OwnConnection'
  BY DEF IInv, Carries, OwnConnection, InTransaction
<1>2. Uncommitted' /\ ReadCommitted'
  BY DEF IInv, Uncommitted, ReadCommitted, Exists
<1>3. RowsStayInside' /\ ReadsStayInside'
  BY DEF IInv, RowsStayInside, ReadsStayInside, Exists, BelongsTo, IsRootOf
<1>4. QED
  BY <1>1, <1>2, <1>3 DEF Inside

\* Between transactions a call may turn to another tenant, forgetting its result.
LEMMA TurnStep ==
  ASSUME IInv, NEW c \in Callers, ~InTransaction(c),
         asked' \in [Callers -> Tenants \cup {None}], \A d \in Callers \ {c} : asked'[d] = asked[d],
         result' = [result EXCEPT ![c] = {}],
         UNCHANGED <<rows, mine, conn, within, scoped, context>>
  PROVE  Inside'
<1>1. Carries'
  BY DEF IInv, Carries, InTransaction
<1>2. OwnConnection' /\ Uncommitted'
  BY DEF IInv, OwnConnection, Uncommitted, Exists
<1>3. ReadCommitted'
  BY DEF IInv, TypeOK, ReadCommitted
<1>4. RowsStayInside'
  BY DEF IInv, RowsStayInside, Exists, BelongsTo, IsRootOf
<1>5. ReadsStayInside'
  BY DEF IInv, TypeOK, ReadsStayInside, Exists, BelongsTo, IsRootOf
<1>6. QED
  BY <1>1, <1>2, <1>3, <1>4, <1>5 DEF Inside

\* A transaction begins on a free connection, which carries no context.
LEMMA BeginStep ==
  ASSUME IInv, NEW c \in Callers, Begin(c)
  PROVE  Inside'
<1>1. PICK k \in Free : conn' = [conn EXCEPT ![c] = k]
  BY DEF Begin
<1>2. k # None /\ \A d \in Callers : conn[d] # k
  BY ScopeAssumption DEF Free
<1>3. /\ conn'[c] = k /\ within'[c] = asked[c] /\ asked[c] \in Tenants
      /\ \A d \in Callers \ {c} : conn'[d] = conn[d] /\ within'[d] = within[d]
      /\ UNCHANGED <<asked, rows, mine, scoped, context, result>>
  BY <1>1 DEF Begin, IInv, TypeOK, Held
<1>4. c \notin scoped /\ conn[c] = None
  BY DEF Begin, IInv, Carries, InTransaction
<1>5. Carries'
  BY <1>2, <1>3, <1>4 DEF IInv, Carries, InTransaction
<1>6. OwnConnection'
  BY <1>2, <1>3, <1>4 DEF IInv, TypeOK, OwnConnection
<1>7. Uncommitted' /\ ReadCommitted'
  BY <1>3 DEF IInv, Uncommitted, ReadCommitted, Exists
<1>8. RowsStayInside' /\ ReadsStayInside'
  BY <1>3 DEF IInv, RowsStayInside, ReadsStayInside, Exists, BelongsTo, IsRootOf
<1>9. QED
  BY <1>5, <1>6, <1>7, <1>8 DEF Inside

\* The context is set on a connection of the call's own.
LEMMA SetContextStep ==
  ASSUME IInv, NEW c \in Callers, SetContext(c)
  PROVE  Inside'
<1>1. /\ conn[c] \in Connections /\ conn[c] # None
      /\ context' = [context EXCEPT ![conn[c]] = within[c]]
      /\ scoped' = scoped \cup {c}
      /\ UNCHANGED <<asked, rows, mine, conn, within, result>>
  BY DEF SetContext, InTransaction, IInv, TypeOK
<1>2. context'[conn[c]] = within[c] /\ \A k \in Connections \ {conn[c]} : context'[k] = context[k]
  BY <1>1 DEF IInv, TypeOK
<1>3. Carries'
  <2>1. \A d \in scoped \ {c} : conn[d] \in Connections /\ conn[d] # conn[c]
    BY <1>1 DEF IInv, TypeOK, Carries, OwnConnection, InTransaction
  <2>2. \A d \in scoped' : context'[conn'[d]] = within'[d]
    BY <1>1, <1>2, <2>1 DEF IInv, TypeOK, Carries
  <2>3. QED
    BY <1>1, <2>2 DEF IInv, Carries, InTransaction
<1>4. OwnConnection'
  BY <1>1, <1>2 DEF IInv, OwnConnection
<1>5. Uncommitted' /\ ReadCommitted'
  BY <1>1 DEF IInv, Uncommitted, ReadCommitted, Exists
<1>6. RowsStayInside' /\ ReadsStayInside'
  BY <1>1 DEF IInv, RowsStayInside, ReadsStayInside, Exists, BelongsTo, IsRootOf
<1>7. QED
  BY <1>3, <1>4, <1>5, <1>6 DEF Inside

\* What the policies of a tenant show belongs to it: a row that is on no other
\* tenant's parent, and a listed row by the tenant it belongs to as a whole.
LEMMA VisibleBelongs ==
  ASSUME IInv, NEW c \in Callers, NEW t \in Tenants, NEW i \in Visible(c, t)
  PROVE  Exists(i) /\ BelongsTo(i, t)
<1>1. i \in Ids /\ Exists(i) /\ rows[i] \in Row /\ Allows(c, rows[i], t)
  BY DEF Visible, Snapshot, IInv, TypeOK, Exists, Absent
<1>2. rows[i].tenant \in {t, None}
  BY <1>1 DEF Allows
<1>3. CASE rows[i].table \in {"child", "owned", "link"}
  BY <1>1, <1>2, <1>3 DEF Allows, BelongsTo
<1>4. CASE rows[i].table = "root"
  BY <1>1, <1>2, <1>4, RowShape DEF BelongsTo
<1>5. CASE rows[i].table = "listed"
  <2>1. PICK u \in Tenants : BelongsTo(i, u)
    BY <1>1 DEF IInv, RowsStayInside
  <2>2. u = t
    BY <1>1, <1>2, <1>5, <2>1, RowShape, ClientsAssumption DEF BelongsTo
  <2>3. QED
    BY <1>1, <2>1, <2>2
<1>6. QED
  BY <1>1, <1>3, <1>4, <1>5, RowShape

\* A scoped transaction sees its own tenant.
LEMMA ScopedContext ==
  ASSUME IInv, NEW c \in scoped
  PROVE  /\ c \in Callers /\ InTransaction(c)
         /\ context[conn[c]] = asked[c] /\ within[c] = asked[c] /\ asked[c] \in Tenants
  BY DEF IInv, TypeOK, Carries

\* A SELECT returns committed or own rows of the tenant.
LEMMA SelectStep ==
  ASSUME IInv, NEW c \in Callers, Select(c)
  PROVE  Inside'
<1>1. /\ c \in scoped
      /\ result'[c] = Visible(c, asked[c])
      /\ \A d \in Callers \ {c} : result'[d] = result[d]
      /\ UNCHANGED <<clientVars, asked, rows, mine, conn, within, scoped, context>>
  BY ScopedContext DEF Select, IInv, TypeOK
<1>2. Carries' /\ OwnConnection' /\ Uncommitted'
  BY <1>1 DEF IInv, Carries, OwnConnection, Uncommitted, InTransaction, Exists
<1>3. ReadCommitted'
  <2>1. \A d \in Callers \ {c} : Visible(c, asked[c]) \cap mine[d] = {}
    BY DEF Visible, Snapshot
  <2>2. QED
    BY <1>1, <2>1 DEF IInv, ReadCommitted
<1>4. RowsStayInside'
  BY <1>1 DEF IInv, RowsStayInside, Exists, BelongsTo, IsRootOf
<1>5. ReadsStayInside'
  <2>1. asked[c] \in Tenants /\ asked[c] # None
    BY <1>1, ScopedContext, ClientsAssumption
  <2>2. \A i \in result'[c] : Exists(i) /\ BelongsTo(i, asked[c])
    BY <1>1, <2>1, VisibleBelongs
  <2>3. \A d \in Callers : \A i \in result'[d] :
           asked[d] # None /\ Exists(i) /\ BelongsTo(i, asked[d])
    BY <1>1, <2>1, <2>2 DEF IInv, ReadsStayInside
  <2>4. QED
    BY <1>1, <2>3 DEF ReadsStayInside, Exists, BelongsTo, IsRootOf
<1>6. QED
  BY <1>2, <1>3, <1>4, <1>5 DEF Inside

\* A statement without a context sees nothing, as a free connection has none.
LEMMA SelectUnscopedStep ==
  ASSUME IInv, NEW c \in Callers, SelectUnscoped(c), TypeOK'
  PROVE  Inside'
<1>1. PICK k \in Free : result' = [result EXCEPT ![c] = Visible(c, context[k])]
  BY DEF SelectUnscoped
<1>2. context[k] = None
  BY DEF IInv, TypeOK, OwnConnection, Free
<1>3. result' = [result EXCEPT ![c] = {}]
  BY <1>1, <1>2 DEF Visible, Allows
<1>4. /\ ~InTransaction(c)
      /\ asked' \in [Callers -> Tenants \cup {None}]
      /\ \A d \in Callers \ {c} : asked'[d] = asked[d]
      /\ UNCHANGED <<rows, mine, conn, within, scoped, context>>
  BY DEF SelectUnscoped, IInv, TypeOK
<1>5. QED
  BY <1>3, <1>4, TurnStep

\* A new row belongs to the tenant of its transaction, through every parent.
LEMMA InsertStep ==
  ASSUME IInv, NEW c \in Callers, Insert(c)
  PROVE  Inside'
<1>1. PICK i \in Ids, r \in Row :
        /\ ~Exists(i)
        /\ r.parents \subseteq Snapshot(c)
        /\ CategoryFound(c, r)
        /\ Allows(c, r, context[conn[c]])
        /\ rows' = [rows EXCEPT ![i] = r]
        /\ mine' = [mine EXCEPT ![c] = @ \cup {i}]
  BY DEF Insert
<1>2. /\ c \in scoped
      /\ UNCHANGED <<clientVars, asked, conn, within, scoped, context, result>>
  BY DEF Insert
<1>3. PICK t \in Tenants : context[conn[c]] = t /\ within[c] = t /\ InTransaction(c)
  BY <1>2, ScopedContext
<1>4. rows'[i] = r /\ \A j \in Ids \ {i} : rows'[j] = rows[j]
  BY <1>1 DEF IInv, TypeOK
<1>5. mine'[c] = mine[c] \cup {i} /\ \A d \in Callers \ {c} : mine'[d] = mine[d]
  BY <1>1 DEF IInv, TypeOK
<1>6. /\ r.table # "none"
      /\ \A p \in r.parents : p \in Ids /\ p # i /\ Exists(p) /\ IsRootOf(p, t)
    <2>1. r.table \in {"root", "child", "owned", "listed", "link"}
          /\ (r.table = "root" => r.parents = {})
      BY RowShape
    <2>2. \A p \in r.parents : p \in Ids /\ Exists(p)
      BY <1>1 DEF Snapshot
    <2>3. \A p \in r.parents : IsRootOf(p, t)
      BY <1>1, <1>3, <2>1 DEF Allows, CategoryFound
    <2>4. QED
      BY <1>1, <2>1, <2>2, <2>3
<1>7. Carries' /\ OwnConnection'
  BY <1>2, <1>3, <1>5 DEF IInv, Carries, OwnConnection, InTransaction
<1>8. \A j \in Ids : Exists(j) => j # i /\ rows'[j] = rows[j] /\ rows'[j].table # "none"
  BY <1>1, <1>4 DEF Exists
<1>9. \A d \in Callers : i \notin mine[d]
  BY <1>1 DEF IInv, Uncommitted
<1>10. Uncommitted'
  <2>1. \A d \in Callers : \A j \in mine'[d] : rows'[j].table # "none"
    BY <1>4, <1>5, <1>6, <1>8 DEF IInv, TypeOK, Uncommitted
  <2>2. \A d, e \in Callers : d # e => mine'[d] \cap mine'[e] = {}
    BY <1>5, <1>9 DEF IInv, Uncommitted
  <2>3. ASSUME NEW j \in Ids, rows'[j].table # "none", NEW p \in rows'[j].parents
        PROVE  /\ p \in Ids /\ rows'[p].table # "none"
               /\ \A d \in Callers : p \in mine'[d] => j \in mine'[d]
    <3>1. CASE j = i
      <4>1. p \in Snapshot(c) /\ p # i /\ p \in Ids /\ Exists(p)
        BY <1>1, <1>4, <1>6, <2>3, <3>1
      <4>2. \A d \in Callers \ {c} : p \notin mine'[d]
        BY <1>5, <4>1 DEF Snapshot
      <4>3. QED
        BY <1>5, <1>8, <3>1, <4>1, <4>2
    <3>2. CASE j # i
      <4>1. Exists(j) /\ p \in rows[j].parents
        BY <1>4, <2>3, <3>2 DEF Exists
      <4>2. /\ p \in Ids /\ Exists(p)
            /\ \A d \in Callers : p \in mine[d] => j \in mine[d]
        BY <4>1 DEF IInv, Uncommitted
      <4>3. QED
        BY <1>5, <1>8, <4>2
    <3>3. QED
      BY <3>1, <3>2
  <2>4. QED
    BY <2>1, <2>2, <2>3 DEF Uncommitted, Exists
<1>11. ReadCommitted'
  <2>1. \A d \in Callers : i \notin result[d]
    BY <1>1 DEF IInv, ReadsStayInside
  <2>2. QED
    BY <1>2, <1>5, <2>1 DEF IInv, ReadCommitted
<1>12. ASSUME NEW j \in Ids, Exists(j), NEW u \in Tenants, BelongsTo(j, u)
       PROVE  BelongsTo(j, u)'
  <2>1. \A p \in rows[j].parents : p \in Ids /\ Exists(p) /\ IsRootOf(p, u)
    BY <1>12 DEF IInv, Uncommitted, BelongsTo
  <2>2. \A p \in rows[j].parents : IsRootOf(p, u)'
    BY <1>8, <2>1 DEF IsRootOf
  <2>3. QED
    BY <1>8, <1>12, <2>2 DEF BelongsTo
<1>13. BelongsTo(i, t)'
  <2>1. \A p \in r.parents : IsRootOf(p, t)'
    BY <1>6, <1>8 DEF IsRootOf
  <2>2. r.tenant \in {t, None}
    BY <1>1, <1>3 DEF Allows
  <2>3. QED
    BY <1>2, <1>4, <2>1, <2>2 DEF BelongsTo
<1>14. RowsStayInside'
  <2>1. ASSUME NEW j \in Ids, Exists(j)'
        PROVE  \E u \in Tenants : BelongsTo(j, u)'
    <3>1. CASE j = i
      BY <1>3, <1>13, <3>1
    <3>2. CASE j # i
      <4>1. Exists(j)
        BY <1>4, <2>1, <3>2 DEF Exists
      <4>2. PICK u \in Tenants : BelongsTo(j, u)
        BY <4>1 DEF IInv, RowsStayInside
      <4>3. QED
        BY <1>12, <4>1, <4>2
    <3>3. QED
      BY <3>1, <3>2
  <2>2. QED
    BY <2>1 DEF RowsStayInside
<1>15. ReadsStayInside'
  <2>1. ASSUME NEW d \in Callers, NEW j \in result'[d]
        PROVE  asked'[d] # None /\ Exists(j)' /\ BelongsTo(j, asked[d])'
    <3>1. /\ j \in result[d] /\ j \in Ids /\ asked[d] \in Tenants
          /\ asked[d] # None /\ Exists(j) /\ BelongsTo(j, asked[d])
      BY <1>2, <2>1 DEF IInv, TypeOK, ReadsStayInside
    <3>2. BelongsTo(j, asked[d])' /\ Exists(j)'
      BY <1>2, <1>8, <1>12, <3>1 DEF Exists
    <3>3. QED
      BY <1>2, <3>1, <3>2
  <2>2. QED
    BY <2>1 DEF ReadsStayInside
<1>16. QED
  BY <1>7, <1>10, <1>11, <1>14, <1>15 DEF Inside

\* When a transaction ends its connection is clean, and its rows are everybody's
\* or nobody's.
LEMMA EndStep ==
  ASSUME IInv, NEW c \in Callers, InTransaction(c), End(c)
  PROVE  Carries' /\ OwnConnection'
<1>1. /\ conn[c] \in Connections
      /\ context' = [context EXCEPT ![conn[c]] = None]
      /\ mine'[c] = {} /\ conn'[c] = None /\ scoped' = scoped \ {c}
      /\ \A d \in Callers \ {c} : mine'[d] = mine[d] /\ conn'[d] = conn[d] /\ within'[d] = within[d]
      /\ asked' = asked
  BY DEF End, ContextAfter, InTransaction, IInv, TypeOK
<1>2. \A d \in scoped \ {c} : conn[d] \in Connections /\ conn[d] # None /\ conn[d] # conn[c]
  BY DEF IInv, TypeOK, Carries, OwnConnection, InTransaction
<1>3. context'[conn[c]] = None /\ \A k \in Connections \ {conn[c]} : context'[k] = context[k]
  BY <1>1 DEF IInv, TypeOK
<1>4. Carries'
  <2>1. ASSUME NEW d \in Callers, d # c
        PROVE  /\ InTransaction(d)' => within'[d] = asked'[d] /\ asked'[d] \in Tenants
               /\ ~InTransaction(d)' => mine'[d] = {} /\ d \notin scoped'
               /\ d \in scoped' => context'[conn'[d]] = within'[d]
    BY <1>1, <1>2, <1>3, <2>1 DEF IInv, Carries, InTransaction
  <2>2. ~InTransaction(c)' /\ mine'[c] = {} /\ c \notin scoped'
    BY <1>1 DEF InTransaction
  <2>3. QED
    BY <2>1, <2>2 DEF Carries
<1>5. OwnConnection'
  <2>1. \A d, e \in Callers : d # e /\ conn'[d] # None => conn'[d] # conn'[e]
    BY <1>1 DEF IInv, OwnConnection
  <2>2. \A k \in Connections : context'[k] # None => \E d \in scoped' : conn'[d] = k
    <3> SUFFICES ASSUME NEW k \in Connections, context'[k] # None
                 PROVE  \E d \in scoped' : conn'[d] = k
      OBVIOUS
    <3>1. k # conn[c] /\ context[k] # None
      BY <1>3
    <3>2. PICK d \in scoped : conn[d] = k
      BY <3>1 DEF IInv, OwnConnection
    <3>3. d # c /\ d \in Callers
      BY <3>1, <3>2 DEF IInv, TypeOK
    <3>4. QED
      BY <1>1, <3>2, <3>3
  <2>3. QED
    BY <2>1, <2>2 DEF OwnConnection
<1>6. QED
  BY <1>4, <1>5

LEMMA CommitStep ==
  ASSUME IInv, NEW c \in Callers, Commit(c)
  PROVE  Inside'
<1>1. InTransaction(c) /\ End(c) /\ UNCHANGED <<asked, rows, result>>
  BY ScopedContext DEF Commit, End
<1>2. mine'[c] = {} /\ \A d \in Callers \ {c} : mine'[d] = mine[d]
  BY <1>1 DEF End, IInv, TypeOK
<1>3. Carries' /\ OwnConnection'
  BY <1>1, EndStep
<1>4. Uncommitted' /\ ReadCommitted'
  BY <1>1, <1>2 DEF IInv, Uncommitted, ReadCommitted, Exists
<1>5. RowsStayInside' /\ ReadsStayInside'
  BY <1>1 DEF IInv, RowsStayInside, ReadsStayInside, Exists, BelongsTo, IsRootOf
<1>6. QED
  BY <1>3, <1>4, <1>5 DEF Inside

\* A rollback takes rows together with everything built on them, and nobody
\* else has read them.
LEMMA RollbackStep ==
  ASSUME IInv, NEW c \in Callers, Rollback(c)
  PROVE  Inside'
<1>1. /\ InTransaction(c) /\ End(c) /\ asked' = asked
      /\ \A i \in Ids : rows'[i] = IF i \in mine[c] THEN Absent ELSE rows[i]
      /\ result'[c] = {} /\ \A d \in Callers \ {c} : result'[d] = result[d]
  BY DEF Rollback, End, IInv, TypeOK
<1>2. mine'[c] = {} /\ \A d \in Callers \ {c} : mine'[d] = mine[d]
  BY <1>1 DEF End, IInv, TypeOK
<1>3. Carries' /\ OwnConnection'
  BY <1>1, EndStep
<1>4. ASSUME NEW i \in Ids
      PROVE  /\ Exists(i)' => Exists(i) /\ i \notin mine[c]
             /\ Exists(i) /\ i \notin mine[c] =>
                   /\ Exists(i)' /\ rows'[i] = rows[i]
                   /\ \A p \in rows[i].parents : p \in Ids /\ p \notin mine[c] /\ Exists(p)
  BY <1>1 DEF IInv, Uncommitted, Exists, Absent
<1>5. ASSUME NEW i \in Ids, Exists(i), i \notin mine[c], NEW u \in Tenants, BelongsTo(i, u)
      PROVE  BelongsTo(i, u)'
  <2>1. \A p \in rows[i].parents : rows'[p] = rows[p]
    BY <1>4, <1>5
  <2>2. QED
    BY <1>4, <1>5, <2>1 DEF BelongsTo, IsRootOf
<1>6. Uncommitted'
  <2>1. \A d \in Callers : \A i \in mine'[d] : Exists(i)'
    <3> SUFFICES ASSUME NEW d \in Callers, NEW i \in mine'[d] PROVE Exists(i)'
      OBVIOUS
    <3>1. d # c /\ i \in mine[d] /\ i \in Ids
      BY <1>2 DEF IInv, TypeOK
    <3>2. Exists(i) /\ i \notin mine[c]
      BY <3>1 DEF IInv, Uncommitted
    <3>3. QED
      BY <1>4, <3>1, <3>2
  <2>2. \A d, e \in Callers : d # e => mine'[d] \cap mine'[e] = {}
    BY <1>2 DEF IInv, Uncommitted
  <2>3. ASSUME NEW i \in Ids, Exists(i)', NEW p \in rows'[i].parents
        PROVE  p \in Ids /\ Exists(p)' /\ \A d \in Callers : p \in mine'[d] => i \in mine'[d]
    <3>1. Exists(i) /\ i \notin mine[c] /\ p \in rows[i].parents
      BY <1>4, <2>3
    <3>2. p \in Ids /\ p \notin mine[c] /\ Exists(p)
      BY <1>4, <3>1
    <3>3. \A d \in Callers : p \in mine[d] => i \in mine[d]
      BY <3>1 DEF IInv, Uncommitted
    <3>4. QED
      BY <1>2, <1>4, <3>2, <3>3
  <2>4. QED
    BY <2>1, <2>2, <2>3 DEF Uncommitted
<1>7. ReadCommitted'
  BY <1>1, <1>2 DEF IInv, ReadCommitted
<1>8. RowsStayInside'
  <2> SUFFICES ASSUME NEW i \in Ids, Exists(i)' PROVE \E u \in Tenants : BelongsTo(i, u)'
    BY DEF RowsStayInside
  <2>1. Exists(i) /\ i \notin mine[c]
    BY <1>4
  <2>2. PICK u \in Tenants : BelongsTo(i, u)
    BY <2>1 DEF IInv, RowsStayInside
  <2>3. QED
    BY <1>5, <2>1, <2>2
<1>9. ReadsStayInside'
  <2>1. ASSUME NEW d \in Callers, NEW j \in result'[d]
        PROVE  asked'[d] # None /\ Exists(j)' /\ BelongsTo(j, asked[d])'
    <3>1. d # c /\ j \in result[d] /\ j \in Ids /\ j \notin mine[c]
      BY <1>1, <2>1 DEF IInv, TypeOK, ReadCommitted
    <3>2. asked[d] \in Tenants /\ asked[d] # None /\ Exists(j) /\ BelongsTo(j, asked[d])
      BY <3>1 DEF IInv, TypeOK, ReadsStayInside
    <3>3. Exists(j)'
      BY <1>4, <3>1, <3>2
    <3>4. PICK u \in Tenants : u = asked[d]
      BY <3>2
    <3>5. BelongsTo(j, u)'
      BY <1>5, <3>1, <3>2, <3>4
    <3>6. QED
      BY <1>1, <3>2, <3>3, <3>4, <3>5
  <2>2. QED
    BY <2>1 DEF ReadsStayInside
<1>10. QED
  BY <1>3, <1>6, <1>7, <1>8, <1>9 DEF Inside

-----------------------------------------------------------------------------
\* Every step of the system keeps the invariant.
LEMMA InvStep == IInv /\ [Next]_vars => IInv'
<1> SUFFICES ASSUME IInv, [Next]_vars PROVE IInv'
  OBVIOUS
<1>1. TypeOK'
  BY TypeStep DEF IInv
<1>2. CacheSound'
  BY ScopeMovesTheCache, ClientsStep DEF IInv, TypeOK, ClientsInv
<1>3. Held'
  BY HeldStep
<1>4. Inside'
  <2>1. CASE UNCHANGED <<asked, rowVars>>
    BY <2>1, BesideStep
  <2>2. ASSUME NEW c \in Callers, NEW t \in Tenants, Ask(c, t)
        PROVE  Inside'
    <3>1. /\ asked' \in [Callers -> Tenants \cup {None}]
          /\ \A d \in Callers \ {c} : asked'[d] = asked[d]
      BY <2>2 DEF Ask, IInv, TypeOK
    <3>2. QED
      BY <2>2, <3>1, TurnStep DEF Ask
  <2>3. ASSUME NEW c \in Callers,
               \/ Begin(c) \/ SetContext(c) \/ Select(c) \/ Insert(c)
               \/ Commit(c) \/ Rollback(c) \/ SelectUnscoped(c)
        PROVE  Inside'
    BY <1>1, <2>3, BeginStep, SetContextStep, SelectStep, InsertStep,
       CommitStep, RollbackStep, SelectUnscopedStep
  <2>4. QED
    BY <2>1, <2>2, <2>3 DEF Next, Beside, vars
<1>5. QED
  BY <1>1, <1>2, <1>3, <1>4 DEF IInv, Inside

\* The invariant of the whole: types, the cache, what callers hold, what
\* transactions carry, and the two isolation properties.
THEOREM InductiveInvariant == Spec => []IInv
  BY InitInv, InvStep, PTL DEF Spec

\* Every variable of the cache and of the transactions keeps its type.
THEOREM TypeCorrect == Spec => []TypeOK
<1>1. IInv => TypeOK
  BY DEF IInv
<1>2. QED
  BY <1>1, InductiveInvariant, PTL

\* No row ever connects two tenants, for any number of tenants, calls, pooled
\* connections and rows.
THEOREM RowsIsolated == Spec => []RowsStayInside
<1>1. IInv => RowsStayInside
  BY DEF IInv
<1>2. QED
  BY <1>1, InductiveInvariant, PTL

\* No call ever reads a row of a tenant it did not ask for, whichever cached
\* client and pooled connection it got, and without a context it reads nothing.
THEOREM ReadsIsolated == Spec => []ReadsStayInside
<1>1. IInv => ReadsStayInside
  BY DEF IInv
<1>2. QED
  BY <1>1, InductiveInvariant, PTL
=============================================================================
