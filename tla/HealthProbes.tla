----------------------------- MODULE HealthProbes ------------------------------
(***************************************************************************)
(* The health endpoints (apps/api/src/health.controller.ts and             *)
(* health.service.ts).  A request asks for the database, then for Redis.   *)
(* Each of the two is probed once for all requests that wait, and the      *)
(* result is cached; /ready goes past the database's cache and gives up on *)
(* a timer of its own.                                                     *)
(*                                                                         *)
(* Whatever the process does between two awaits is one step.  Time counts  *)
(* in units that keep the proportions of the timeouts and never passes a   *)
(* timer that is due.                                                      *)
(***************************************************************************)
EXTENDS Integers, FiniteSets

CONSTANTS
    Requests,       \* requests to /health and /health/ready
    CacheTTL,       \* REDIS_PROBE_CACHE_TTL_MS, for both caches
    ReadyTimeout,   \* READY_CHECK_TIMEOUT_MS, also of the database probe
    RedisTimeout,   \* REDIS_PROBE_TIMEOUT_MS
    MaxClock,       \* bound: time that passes
    MaxFlips,       \* bound: changes of the servers
    None            \* no request

ASSUME HealthAssumption ==
    /\ {CacheTTL, ReadyTimeout, RedisTimeout} \subseteq Nat \ {0}
    /\ MaxClock \in Nat /\ MaxFlips \in Nat
    /\ None \notin Requests

VARIABLES
    clock,
    server,     \* each server: up, down (refuses), hangs, or not configured
    flips,
    req,        \* the requests
    probe,      \* the probe a request runs for all that wait for it
    inflight,   \* dbProbeInflight, redisProbeInflight: the request that runs it
    cache,      \* dbProbeCache, redisProbeCache
    hung        \* queries of probes that were given up on, still running

health == <<clock, server, flips, req, probe, inflight, cache, hung>>

Deps     == {"db", "redis"}
NoProbe  == [dep |-> "none", from |-> 0, reply |-> "none", at |-> 0]
NoCache  == [at |-> -1, status |-> "none", seen |-> 0]
Timeout  == [db |-> ReadyTimeout, redis |-> RedisTimeout]

\* step: the server waited for, through the probe that request `of` runs.  db
\* is the database's status and seen the time it was observed at.
NoRequest == [kind |-> "health", at |-> 0, step |-> "idle", of |-> None,
              db |-> "none", seen |-> 0, answer |-> "none"]

HealthInit ==
    /\ clock = 0 /\ flips = 0 /\ hung = 0
    /\ server \in [db : {"up", "hangs"}, redis : {"up", "unset"}]
    /\ req = [r \in Requests |-> NoRequest]
    /\ probe = [r \in Requests |-> NoProbe]
    /\ inflight = [d \in Deps |-> None]
    /\ cache = [d \in Deps |-> NoCache]

-----------------------------------------------------------------------------
(* A request.                                                              *)

Fresh(d) == cache[d].at >= 0 /\ clock - cache[d].at < CacheTTL

\* Variant: the readiness probe is served from the cache like the other.
UsableByAll(kind) == Fresh("db")

Usable(kind) == Fresh("db") /\ kind = "health"

\* Variant: a probe that is already running is not looked for.
NeverBusy(d) == FALSE

Busy(d) == inflight[d] # None

Begin(d) == [dep |-> d, from |-> clock, reply |-> "none", at |-> clock]

Knows(q, status, seen) == [q EXCEPT !.db = status, !.seen = seen]
Waits(q, d, r)         == [q EXCEPT !.step = d, !.of = r]

\* getHealth has all it needs; /ready may have given up before.
Ends(q) ==
    [q EXCEPT !.step = "end", !.of = None,
              !.answer = IF @ = "timeout" THEN @
                         ELSE IF q.db = "connected" THEN "200" ELSE "503"]

\* Requests that know of the database turn to Redis: asked is what they know,
\* left the probes that go on.  Without REDIS_HOST, or with a port that is
\* none, there is nothing to ask.
AskRedis(asking, asked, left, slot) ==
    \/ /\ server["redis"] = "unset" \/ Fresh("redis")
       /\ req' = [q \in Requests |-> IF q \in asking THEN Ends(asked[q]) ELSE req[q]]
       /\ probe' = left
       /\ inflight' = [inflight EXCEPT !["db"] = slot]
    \/ /\ server["redis"] # "unset" /\ ~Fresh("redis") /\ Busy("redis")
       /\ req' = [q \in Requests |-> IF q \in asking
                    THEN Waits(asked[q], "redis", inflight["redis"]) ELSE req[q]]
       /\ probe' = left
       /\ inflight' = [inflight EXCEPT !["db"] = slot]
    \/ /\ server["redis"] # "unset" /\ ~Fresh("redis") /\ ~Busy("redis")
       /\ \E r \in asking :
            /\ req' = [q \in Requests |-> IF q \in asking
                         THEN Waits(asked[q], "redis", r) ELSE req[q]]
            /\ probe' = [left EXCEPT ![r] = Begin("redis")]
            /\ inflight' = [inflight EXCEPT !["db"] = slot, !["redis"] = r]

\* getHealth, up to the first wait.
Arrive(r, kind) ==
    LET new == [NoRequest EXCEPT !.kind = kind, !.at = clock]
    IN  /\ req[r].step = "idle"
        /\ \/ /\ Usable(kind)
              /\ AskRedis({r}, [req EXCEPT ![r] = Knows(new, cache["db"].status, cache["db"].seen)],
                          probe, inflight["db"])
           \/ /\ ~Usable(kind) /\ Busy("db")
              /\ req' = [req EXCEPT ![r] = Waits(new, "db", inflight["db"])]
              /\ UNCHANGED <<probe, inflight>>
           \/ /\ ~Usable(kind) /\ ~Busy("db")
              /\ req' = [req EXCEPT ![r] = Waits(new, "db", r)]
              /\ probe' = [probe EXCEPT ![r] = Begin("db")]
              /\ inflight' = [inflight EXCEPT !["db"] = r]
        /\ UNCHANGED <<clock, server, flips, cache, hung>>

\* The end of a probe: the cache, the slot, and all that waited for it.
Settle(r, status, seen) ==
    LET d       == probe[r].dep
        waiting == {q \in Requests : req[q].of = r}
        left    == [probe EXCEPT ![r] = NoProbe]
    IN  /\ cache' = [cache EXCEPT ![d] = [at |-> clock, status |-> status, seen |-> seen]]
        /\ \/ /\ d = "db"
              /\ AskRedis(waiting, [q \in Requests |-> Knows(req[q], status, seen)], left, None)
           \/ /\ d = "redis"
              /\ req' = [q \in Requests |-> IF q \in waiting THEN Ends(req[q]) ELSE req[q]]
              /\ probe' = left
              /\ inflight' = [inflight EXCEPT !["redis"] = None]

Replied(r) ==
    /\ probe[r].reply # "none"
    /\ Settle(r, probe[r].reply, probe[r].at)
    /\ UNCHANGED <<clock, server, flips, hung>>

\* Variant: the probe waits for its query whatever it takes.
NeverDue(r) == FALSE

ProbeDue(r) == probe[r].dep # "none" /\ clock >= probe[r].from + Timeout[probe[r].dep]

\* withTimeout leaves the query running; the socket to Redis is destroyed.
TimeOut(r) ==
    /\ ProbeDue(r)
    /\ Settle(r, "disconnected", clock)
    /\ hung' = IF probe[r].dep = "db" /\ probe[r].reply = "none" THEN hung + 1 ELSE hung
    /\ UNCHANGED <<clock, server, flips>>

\* The timer of /ready.  What the request had begun goes on.
ReadyDue(r) ==
    /\ req[r].kind = "ready" /\ req[r].step # "idle" /\ req[r].answer = "none"
    /\ clock >= req[r].at + ReadyTimeout

GiveUp(r) ==
    /\ ReadyDue(r)
    /\ req' = [req EXCEPT ![r].answer = "timeout"]
    /\ UNCHANGED <<clock, server, flips, probe, inflight, cache, hung>>

-----------------------------------------------------------------------------
(* The servers and time.                                                   *)

Serve(r) ==
    /\ probe[r].dep # "none" /\ probe[r].reply = "none"
    /\ server[probe[r].dep] \in {"up", "down"}
    /\ probe' = [probe EXCEPT ![r].at = clock,
                   ![r].reply = IF server[probe[r].dep] = "up" THEN "connected" ELSE "disconnected"]
    /\ UNCHANGED <<clock, server, flips, req, inflight, cache, hung>>

Flip(d, to) ==
    /\ flips < MaxFlips /\ server[d] \notin {"unset", to}
    /\ server' = [server EXCEPT ![d] = to]
    /\ flips' = flips + 1
    /\ UNCHANGED <<clock, req, probe, inflight, cache, hung>>

QueryEnds ==
    /\ hung > 0 /\ server["db"] # "hangs"
    /\ hung' = hung - 1
    /\ UNCHANGED <<clock, server, flips, req, probe, inflight, cache>>

Tick ==
    /\ clock < MaxClock
    /\ \A r \in Requests : ~ProbeDue(r) /\ ~ReadyDue(r)
    /\ clock' = clock + 1
    /\ UNCHANGED <<server, flips, req, probe, inflight, cache, hung>>

HealthNext ==
    \/ \E r \in Requests :
         \/ \E kind \in {"health", "ready"} : Arrive(r, kind)
         \/ Replied(r) \/ TimeOut(r) \/ GiveUp(r) \/ Serve(r)
    \/ \E d \in Deps, to \in {"up", "down", "hangs"} : Flip(d, to)
    \/ QueryEnds
    \/ Tick

HealthSpec == HealthInit /\ [][HealthNext]_health

-----------------------------------------------------------------------------
(* Properties                                                              *)

\* An answer tells of the database as it was shortly before: /ready within
\* the timeout of a probe, never from the cache ("an authoritative gate, not
\* the cached liveness probe"); /health within the time a result is cached and
\* the time it took to get.  A request that was answered "timed out" has waited
\* that long.
AnswersAreFresh ==
    \A r \in Requests :
        /\ req[r].answer \in {"200", "503"} =>
             req[r].seen + ReadyTimeout + (IF req[r].kind = "ready" THEN 0 ELSE CacheTTL)
                >= req[r].at
        /\ req[r].answer = "timeout" => clock >= req[r].at + ReadyTimeout

\* No poll is left without an answer, whatever the servers do: /ready answers
\* within its timeout, and /health, however late it joined a probe, waits for
\* the database no longer than one probe of it and then for Redis no longer than
\* one of that (withTimeout: "a hung connection cannot make the health endpoint
\* hang").
AnswersInTime ==
    \A r \in Requests :
        req[r].step # "idle" /\ req[r].answer = "none" =>
            clock <= req[r].at + ReadyTimeout +
                       IF req[r].kind = "health" /\ req[r].step = "redis"
                       THEN RedisTimeout ELSE 0

\* However many requests come, one probe of each server runs at a time; queries
\* that were given up on add up with time only, one in a timeout ("collapses
\* the burst into ONE probe", dbProbeInflight).
ProbesDoNotPileUp ==
    /\ \A d \in Deps : Cardinality({r \in Requests : probe[r].dep = d}) <= 1
    /\ hung * ReadyTimeout <= clock

=============================================================================
