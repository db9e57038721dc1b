------------------------------ MODULE ApiProcess -------------------------------
(***************************************************************************)
(* The API process from its start to its end (apps/api/src/main.ts,        *)
(* bootstrap-config.ts, queue/queue.module.ts): the settings are checked   *)
(* one after the other, the application is built and listens, and a fault  *)
(* or a signal ends it, within a hard-exit timer where the code sets one.  *)
(*                                                                         *)
(* A setting is given by what the checks tell apart of it.  The signal     *)
(* handling of the framework (enableShutdownHooks), the bind and the       *)
(* connections are external.                                               *)
(***************************************************************************)
EXTENDS Naturals, Sequences, FiniteSets

VARIABLES
    env,            \* the settings
    step,           \* the check bootstrap is at, "serving" or "ended"
    closes,         \* the calls of app.close and of the shutdown hooks
    shuttingDown,   \* gracefulShutdown has been entered
    faulted,        \* something has gone wrong
    exitCode        \* how the process ended

process == <<env, step, closes, shuttingDown, faulted, exitCode>>

\* What each setting may be; the first is what a deployment should have.
Settings == [
    NODE_ENV          |-> <<"production", "development", "staging">>,
    DATABASE_URL      |-> <<"set", "unset">>,
    DATABASE_ADMIN_URL |-> <<"set", "unset">>,
    JWT_SECRET        |-> <<"strong", "unset", "short", "weak">>,
    JWT_EXPIRES_IN    |-> <<"unset", "day", "empty", "malformed", "year">>,
    CORS_ORIGINS      |-> <<"set", "unset", "separators">>,
    RATE_LIMIT        |-> <<"unset", "ok", "zero", "malformed", "huge">>,
    TRUST_PROXY_HOPS  |-> <<"unset", "ok", "malformed", "huge">>,
    REDIS_HOST        |-> <<"set", "unset", "blank">>,
    REDIS_PORT        |-> <<"set", "unset", "blank", "fraction">>,
    REDIS_PASSWORD    |-> <<"set", "unset", "blank">>,
    PORT              |-> <<"set", "unset", "malformed", "huge">>,
    PUBLIC            |-> <<"health", "other">> ]   \* what @Public() marks

\* Every combination of them.
Deployments ==
    {e \in [DOMAIN Settings -> UNION {{Settings[v][i] : i \in 1..Len(Settings[v])} :
                                        v \in DOMAIN Settings}] :
        \A v \in DOMAIN Settings : \E i \in 1..Len(Settings[v]) : e[v] = Settings[v][i]}

isDev(e) == e.NODE_ENV = "development"

-----------------------------------------------------------------------------
(* The checks.                                                             *)

Missing(e) == {v \in {"DATABASE_URL", "DATABASE_ADMIN_URL", "JWT_SECRET"} : e[v] = "unset"}

\* Variant: nothing is required outside production.
RequiredInProduction(e) == e.NODE_ENV = "production" => Missing(e) = {}

resolveRequiredEnvVars(e) ==
    IF isDev(e) THEN "DATABASE_URL" \notin Missing(e) ELSE Missing(e) = {}

resolveCorsOriginsRequirement(e) == isDev(e) \/ e.CORS_ORIGINS = "set"

validateJwtConfig(e) ==
    /\ e.JWT_EXPIRES_IN \in {"unset", "day"}
    /\ e.JWT_SECRET = "unset" => isDev(e)
    /\ e.JWT_SECRET # "short"

\* Unset and empty are the default; "ok" is a positive integer up to the bound.
parsePositiveInteger(v) == v \in {"unset", "ok", "set"}

resolveRateLimitConfig(e) == parsePositiveInteger(e.RATE_LIMIT)
resolveTrustProxyHops(e)  == e.TRUST_PROXY_HOPS \in {"unset", "ok"}
resolvePort(e)            == parsePositiveInteger(e.PORT)

\* The module of the queue is configured when the application is imported.
resolveHost(e) ==
    CASE e.REDIS_HOST = "set" -> "host"
      [] e.REDIS_HOST = "unset" /\ isDev(e) -> "localhost"
      [] OTHER -> "refused"

resolveRedisPort(e) ==
    CASE e.REDIS_PORT = "set" -> "port"
      [] e.REDIS_PORT = "unset" /\ isDev(e) -> "default"
      [] OTHER -> "refused"

resolvePassword(e) ==
    CASE e.REDIS_PASSWORD = "set" -> "password"
      [] e.REDIS_PASSWORD = "unset" /\ isDev(e) -> "none"
      [] OTHER -> "refused"

resolveRedisOptions(e) ==
    [host |-> resolveHost(e), port |-> resolveRedisPort(e), password |-> resolvePassword(e)]

forRoot(e) == \A field \in {"host", "port", "password"} : resolveRedisOptions(e)[field] # "refused"

\* Whether the health probe opens a connection, and where to (runRedisProbe,
\* probeRedisConnection).
ProbesRedis(e) ==
    /\ e.REDIS_HOST # "unset" /\ e.REDIS_PORT # "fraction"
    /\ e.REDIS_PORT = "unset" => isDev(e)

ProbeTarget(e) ==
    [host     |-> IF e.REDIS_HOST = "blank" THEN "blank" ELSE "host",
     port     |-> IF e.REDIS_PORT = "set" THEN "port" ELSE "default",
     password |-> IF e.REDIS_PASSWORD = "set" THEN "password" ELSE "none"]

verifyPublicEndpointsScope(e) == e.PUBLIC = "health"

Steps == <<"required", "cors", "jwt", "rateLimit", "hops", "import", "hooks", "configureCors",
           "public", "port", "listen", "serving", "ended">>

At(s) == CHOOSE i \in 1..Len(Steps) : Steps[i] = s

Passes(check, e) ==
    CASE check = "required"      -> resolveRequiredEnvVars(e)
      [] check = "cors"          -> resolveCorsOriginsRequirement(e)
      [] check = "jwt"           -> validateJwtConfig(e)
      [] check = "rateLimit"     -> resolveRateLimitConfig(e)
      [] check = "hops"          -> resolveTrustProxyHops(e)
      [] check = "import"        -> forRoot(e)
      [] check = "hooks"         -> TRUE
      [] check = "configureCors" -> resolveCorsOriginsRequirement(e)
      [] check = "public"        -> verifyPublicEndpointsScope(e)
      [] check = "port"          -> resolvePort(e)

-----------------------------------------------------------------------------
(* Start.                                                                  *)

\* closes: "idle", "open" while the call runs, "done".
Closers == {"graceful", "listenFailure", "signal"}

ProcessInit(settings) ==
    /\ env \in settings
    /\ step = Steps[1]
    /\ closes = [c \in Closers |-> "idle"]
    /\ shuttingDown = FALSE /\ faulted = FALSE
    /\ exitCode = "none"

Alive == step # "ended"

Exit(code) == step' = "ended" /\ exitCode' = code

Check ==
    /\ At(step) < At("listen")
    /\ \/ /\ Passes(step, env)
          /\ step' = Steps[At(step) + 1] /\ UNCHANGED <<faulted, exitCode>>
       \/ /\ ~Passes(step, env)
          /\ Exit("1") /\ faulted' = TRUE
    /\ UNCHANGED <<env, closes, shuttingDown>>

\* The import, the construction and the connections may fail for other reasons.
CreateFails ==
    /\ step = "import"
    /\ Exit("1") /\ faulted' = TRUE
    /\ UNCHANGED <<env, closes, shuttingDown>>

Listen ==
    /\ step = "listen" /\ closes["listenFailure"] = "idle"
    /\ \/ step' = "serving" /\ UNCHANGED <<closes, faulted>>
       \/ /\ closes' = [closes EXCEPT !["listenFailure"] = "open"]
          /\ faulted' = TRUE
          /\ UNCHANGED step
    /\ UNCHANGED <<env, shuttingDown, exitCode>>

-----------------------------------------------------------------------------
(* End.                                                                    *)

\* The handlers of main.ts are there once setupGracefulShutdown has run.
Hooked == Alive /\ At(step) > At("hooks")

gracefulShutdown ==
    /\ Hooked
    /\ faulted' = TRUE
    /\ IF shuttingDown THEN Exit("1") /\ UNCHANGED <<closes, shuttingDown>>
       ELSE /\ shuttingDown' = TRUE
            /\ closes' = [closes EXCEPT !["graceful"] = "open"]
            /\ UNCHANGED <<step, exitCode>>
    /\ UNCHANGED env

\* An exception, or anything uncaught before the handlers are there.
uncaughtException ==
    /\ Alive
    /\ Exit("1") /\ faulted' = TRUE
    /\ UNCHANGED <<env, closes, shuttingDown>>

\* The framework runs the hooks once and ignores further signals; it sets no
\* timer.
Signal ==
    /\ Alive
    /\ IF ~Hooked THEN Exit("signal") /\ UNCHANGED closes
       ELSE /\ closes["signal"] = "idle"
            /\ closes' = [closes EXCEPT !["signal"] = "open"]
            /\ UNCHANGED <<step, exitCode>>
    /\ UNCHANGED <<env, shuttingDown, faulted>>

\* A call of app.close ends, or fails.  Nothing says that it ever does.
CloseEnds(c) ==
    /\ Alive /\ closes[c] = "open"
    /\ closes' = [closes EXCEPT ![c] = "done"]
    /\ \/ Exit(IF c = "signal" THEN "signal" ELSE "1") /\ UNCHANGED faulted
       \/ Exit("1") /\ faulted' = TRUE
    /\ UNCHANGED <<env, shuttingDown>>

\* Variant: app.close is awaited without a timer.
NoTimer == {}

\* closeWithTimeout.  The timer does not keep the process alive (unref): a close
\* that hangs is taken to wait for something that does, as a connection.
Timed == {"graceful", "listenFailure"}

HardExit ==
    /\ Alive
    /\ \E c \in Timed : closes[c] = "open"
    /\ Exit("1")
    /\ UNCHANGED <<env, closes, shuttingDown, faulted>>

ProcessNext ==
    \/ Check \/ CreateFails \/ Listen
    \/ gracefulShutdown \/ uncaughtException \/ Signal
    \/ \E c \in Closers : CloseEnds(c)
    \/ HardExit

-----------------------------------------------------------------------------
(* Properties                                                              *)

\* What a deployment has to provide, by its environment.
Sound(e) ==
    /\ e.DATABASE_URL = "set"
    /\ ~isDev(e) => /\ e.DATABASE_ADMIN_URL = "set" /\ e.JWT_SECRET # "unset"
                    /\ e.CORS_ORIGINS = "set"
    /\ e.JWT_SECRET # "short" /\ e.JWT_EXPIRES_IN \notin {"empty", "malformed", "year"}
    /\ \A v \in {"RATE_LIMIT", "TRUST_PROXY_HOPS"} : e[v] \notin {"zero", "malformed", "huge"}

\* The application is not even built from settings that are not sound, and
\* requests are served only with the handlers of a fault in place, and when the
\* health probe asks the very Redis the queue uses, or none ("Fail here
\* instead, with the same clean one-line error"; "mirroring QueueModule's
\* fail-closed port validation").
ServesOnlyWhenSound ==
    /\ Alive /\ At(step) >= At("import") => Sound(env)
    /\ step = "serving" =>
         /\ Hooked /\ env.PUBLIC = "health" /\ env.PORT \in {"set", "unset"}
         /\ ProbesRedis(env) => ProbeTarget(env) = resolveRedisOptions(env)

\* The exit code tells of a fault, unless a signal was on its way too.
FaultIsReported == step = "ended" /\ faulted => exitCode = "1" \/ closes["signal"] = "done"

\* A process that has met a fault ends, with a code that says so unless a
\* signal was on its way too, even if the application never closes ("a shutdown
\* path can never leave a half-dead process running", closeWithTimeout).
FaultEndsTheProcess ==
    /\ faulted ~> step = "ended"
    /\ []FaultIsReported

ProcessFairness == WF_process(Check) /\ WF_process(Listen) /\ WF_process(HardExit)

ProcessSpec == ProcessInit(Deployments) /\ [][ProcessNext]_process /\ ProcessFairness

=============================================================================
