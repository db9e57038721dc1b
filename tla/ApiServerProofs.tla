--------------------------- MODULE ApiServerProofs ---------------------------
(***************************************************************************)
(* The process, its health endpoints, and the two together.                *)
(***************************************************************************)
EXTENDS ApiServer, FiniteSetTheorems, TLAPS

-----------------------------------------------------------------------------
(* Whatever combination of settings a process is given, it is built and    *)
(* serves only when they are sound, and its exit code tells of a fault.    *)
(* The runs try every two deviations from a good deployment; here all of   *)
(* them may deviate at once.                                               *)
(*                                                                         *)
(* The argument: a process that has come past a check still has settings   *)
(* that pass it (Passed), so what it serves with satisfies all of them     *)
(* together; and before the handlers are there a fault ends the process in *)
(* the very step that meets it (LateFaults).                               *)

Places == {Steps[i] : i \in 1..13}

ProcessTypeOK ==
    /\ env \in Deployments
    /\ step \in Places
    /\ closes \in [Closers -> {"idle", "open", "done"}]
    /\ shuttingDown \in BOOLEAN /\ faulted \in BOOLEAN
    /\ exitCode \in {"none", "1", "signal"}

Passed == \A i \in 1..10 : Alive /\ At(step) > i => Passes(Steps[i], env)

LateFaults == Alive /\ faulted => At(step) > At("hooks")

ProcessInv == ProcessTypeOK /\ Passed /\ LateFaults /\ FaultIsReported

-----------------------------------------------------------------------------
(* The places of the steps.                                                *)

LEMMA StepsDiffer == Len(Steps) = 13 /\ \A i, j \in 1..13 : Steps[i] = Steps[j] => i = j
<1>1. Len(Steps) = 13
  BY DEF Steps
<1>2. /\ Steps[1] = "required" /\ Steps[2] = "cors" /\ Steps[3] = "jwt" /\ Steps[4] = "rateLimit"
      /\ Steps[5] = "hops" /\ Steps[6] = "import" /\ Steps[7] = "hooks"
      /\ Steps[8] = "configureCors" /\ Steps[9] = "public" /\ Steps[10] = "port"
      /\ Steps[11] = "listen" /\ Steps[12] = "serving" /\ Steps[13] = "ended"
  BY DEF Steps
<1>3. \A i \in 1..13 : i \in {1, 2, 3, 4, 5, 6, 7, 8, 9, 10, 11, 12, 13}
  OBVIOUS
<1>. QED  BY <1>1, <1>2, <1>3

LEMMA Place == ASSUME NEW i \in 1..13 PROVE At(Steps[i]) = i
<1>1. \E j \in 1..Len(Steps) : Steps[j] = Steps[i]
  BY StepsDiffer
<1>2. At(Steps[i]) \in 1..Len(Steps) /\ Steps[At(Steps[i])] = Steps[i]
  BY <1>1, Zenon DEF At
<1>. QED  BY <1>2, StepsDiffer

LEMMA Places13 ==
  /\ At("required") = 1 /\ At("cors") = 2 /\ At("jwt") = 3 /\ At("rateLimit") = 4 /\ At("hops") = 5
  /\ At("import") = 6 /\ At("hooks") = 7 /\ At("configureCors") = 8 /\ At("public") = 9
  /\ At("port") = 10 /\ At("listen") = 11 /\ At("serving") = 12 /\ At("ended") = 13
<1>1. \A i \in 1..13 : At(Steps[i]) = i
  BY Place
<1>2. /\ Steps[1] = "required" /\ Steps[2] = "cors" /\ Steps[3] = "jwt" /\ Steps[4] = "rateLimit"
      /\ Steps[5] = "hops" /\ Steps[6] = "import" /\ Steps[7] = "hooks"
      /\ Steps[8] = "configureCors" /\ Steps[9] = "public" /\ Steps[10] = "port"
      /\ Steps[11] = "listen" /\ Steps[12] = "serving" /\ Steps[13] = "ended"
  BY DEF Steps
<1>3. At(Steps[1]) = 1 /\ At(Steps[2]) = 2 /\ At(Steps[3]) = 3 /\ At(Steps[4]) = 4
      /\ At(Steps[5]) = 5 /\ At(Steps[6]) = 6 /\ At(Steps[7]) = 7
  BY <1>1
<1>4. At(Steps[8]) = 8 /\ At(Steps[9]) = 9 /\ At(Steps[10]) = 10 /\ At(Steps[11]) = 11
      /\ At(Steps[12]) = 12 /\ At(Steps[13]) = 13
  BY <1>1
<1>. QED  BY <1>2, <1>3, <1>4

LEMMA Where ==
  ASSUME step \in Places
  PROVE  At(step) \in 1..13 /\ Steps[At(step)] = step
<1>1. PICK i \in 1..13 : step = Steps[i]
  BY DEF Places
<1>2. At(Steps[i]) = i
  BY Place
<1>. QED  BY <1>1, <1>2

-----------------------------------------------------------------------------
(* Settings that pass every check are sound.                               *)

LEMMA Choices ==
  ASSUME NEW e \in Deployments
  PROVE  /\ e.PORT \in {"set", "unset", "malformed", "huge"}
         /\ e.REDIS_HOST \in {"set", "unset", "blank"}
         /\ e.REDIS_PORT \in {"set", "unset", "blank", "fraction"}
         /\ e.REDIS_PASSWORD \in {"set", "unset", "blank"}
         /\ e.DATABASE_URL \in {"set", "unset"} /\ e.DATABASE_ADMIN_URL \in {"set", "unset"}
<1>1. DOMAIN Settings =
        {"NODE_ENV", "DATABASE_URL", "DATABASE_ADMIN_URL", "JWT_SECRET", "JWT_EXPIRES_IN",
         "CORS_ORIGINS", "RATE_LIMIT", "TRUST_PROXY_HOPS", "REDIS_HOST", "REDIS_PORT",
         "REDIS_PASSWORD", "PORT", "PUBLIC"}
  BY DEF Settings
<1>2. \A v \in DOMAIN Settings : \E i \in 1..Len(Settings[v]) : e[v] = Settings[v][i]
  BY DEF Deployments
<1>3. /\ Settings["PORT"] = <<"set", "unset", "malformed", "huge">>
      /\ Settings["REDIS_HOST"] = <<"set", "unset", "blank">>
      /\ Settings["REDIS_PORT"] = <<"set", "unset", "blank", "fraction">>
      /\ Settings["REDIS_PASSWORD"] = <<"set", "unset", "blank">>
      /\ Settings["DATABASE_URL"] = <<"set", "unset">>
      /\ Settings["DATABASE_ADMIN_URL"] = <<"set", "unset">>
  BY DEF Settings
<1>4. /\ \E i \in 1..4 : e["PORT"] = <<"set", "unset", "malformed", "huge">>[i]
      /\ \E i \in 1..3 : e["REDIS_HOST"] = <<"set", "unset", "blank">>[i]
      /\ \E i \in 1..4 : e["REDIS_PORT"] = <<"set", "unset", "blank", "fraction">>[i]
      /\ \E i \in 1..3 : e["REDIS_PASSWORD"] = <<"set", "unset", "blank">>[i]
  BY <1>1, <1>2, <1>3
<1>5. /\ \E i \in 1..2 : e["DATABASE_URL"] = <<"set", "unset">>[i]
      /\ \E i \in 1..2 : e["DATABASE_ADMIN_URL"] = <<"set", "unset">>[i]
  BY <1>1, <1>2, <1>3
<1>. QED  BY <1>4, <1>5

LEMMA FiveChecks ==
  ASSUME NEW e \in Deployments,
         resolveRequiredEnvVars(e), resolveCorsOriginsRequirement(e), validateJwtConfig(e),
         resolveRateLimitConfig(e), resolveTrustProxyHops(e)
  PROVE  Sound(e)
<1>1. e["DATABASE_URL"] = e.DATABASE_URL /\ e["DATABASE_ADMIN_URL"] = e.DATABASE_ADMIN_URL
      /\ e["JWT_SECRET"] = e.JWT_SECRET
  OBVIOUS
<1>2. e.DATABASE_URL # "unset"
      /\ (~isDev(e) => e.DATABASE_ADMIN_URL # "unset" /\ e.JWT_SECRET # "unset")
  BY <1>1 DEF resolveRequiredEnvVars, Missing
<1>3. e.DATABASE_URL = "set" /\ (~isDev(e) => e.DATABASE_ADMIN_URL = "set")
  BY <1>2, Choices
<1>. QED  BY <1>2, <1>3 DEF Sound, resolveCorsOriginsRequirement, validateJwtConfig,
             resolveRateLimitConfig, resolveTrustProxyHops, parsePositiveInteger

LEMMA ServingChecks ==
  ASSUME NEW e \in Deployments, resolvePort(e), forRoot(e)
  PROVE  /\ e.PORT \in {"set", "unset"}
         /\ ProbesRedis(e) => ProbeTarget(e) = resolveRedisOptions(e)
<1>1. e.PORT \in {"set", "unset"}
  BY Choices DEF resolvePort, parsePositiveInteger
<1>2. /\ resolveRedisOptions(e).host = resolveHost(e)
      /\ resolveRedisOptions(e).port = resolveRedisPort(e)
      /\ resolveRedisOptions(e).password = resolvePassword(e)
      /\ resolveHost(e) # "refused" /\ resolveRedisPort(e) # "refused"
      /\ resolvePassword(e) # "refused"
  BY DEF forRoot, resolveRedisOptions
<1>3. ASSUME ProbesRedis(e) PROVE ProbeTarget(e) = resolveRedisOptions(e)
  <2>1. resolveHost(e) = "host" /\ e.REDIS_HOST = "set"
    BY <1>2, <1>3, Choices DEF resolveHost, ProbesRedis
  <2>2. resolveRedisPort(e) = IF e.REDIS_PORT = "set" THEN "port" ELSE "default"
    BY <1>2, <1>3, Choices DEF resolveRedisPort, ProbesRedis
  <2>3. resolvePassword(e) = IF e.REDIS_PASSWORD = "set" THEN "password" ELSE "none"
    BY <1>2, Choices DEF resolvePassword
  <2>. QED  BY <2>1, <2>2, <2>3 DEF ProbeTarget, resolveRedisOptions
<1>. QED  BY <1>1, <1>3

-----------------------------------------------------------------------------
(* The steps.                                                              *)

LEMMA ProcessInitInv == ProcessInit(Deployments) => ProcessInv
<1>. SUFFICES ASSUME ProcessInit(Deployments) PROVE ProcessInv  OBVIOUS
<1>1. step = Steps[1] /\ At(step) = 1 /\ step # "ended" /\ env \in Deployments
  <2>1. step = Steps[1] /\ env \in Deployments
    BY DEF ProcessInit
  <2>2. At(Steps[1]) = 1
    BY Place
  <2>3. Steps[1] = "required"
    BY DEF Steps
  <2>. QED  BY <2>1, <2>2, <2>3
<1>2. ProcessTypeOK
  <2>1. step \in Places
    BY <1>1, 1 \in 1..13 DEF Places
  <2>2. /\ closes \in [Closers -> {"idle", "open", "done"}]
        /\ shuttingDown \in BOOLEAN /\ faulted \in BOOLEAN
        /\ exitCode \in {"none", "1", "signal"}
    BY DEF ProcessInit
  <2>. QED  BY <1>1, <2>1, <2>2 DEF ProcessTypeOK
<1>3. Passed
  BY <1>1 DEF Passed
<1>4. LateFaults /\ FaultIsReported
  BY <1>1 DEF ProcessInit, LateFaults, FaultIsReported
<1>. QED  BY <1>2, <1>3, <1>4 DEF ProcessInv

LEMMA CheckInv == ProcessInv /\ Check => ProcessInv'
<1>. SUFFICES ASSUME ProcessInv, Check PROVE ProcessInv'  OBVIOUS
<1>0. ProcessTypeOK /\ Passed /\ LateFaults /\ FaultIsReported
  BY DEF ProcessInv
<1>1. At(step) \in 1..13 /\ Steps[At(step)] = step /\ At(step) < 11
  BY <1>0, Where, Places13 DEF ProcessTypeOK, Check
<1>2. UNCHANGED <<env, closes, shuttingDown>>
  BY DEF Check
<1>3. CASE Passes(step, env) /\ step' = Steps[At(step) + 1] /\ UNCHANGED <<faulted, exitCode>>
  <2>1. step' \in Places /\ At(step') = At(step) + 1 /\ step # "ended" /\ step' # "ended"
    <3>1. At(step) + 1 \in 1..13
      BY <1>1
    <3>2. At(step') = At(step) + 1
      BY <1>3, <3>1, Place
    <3>. QED  BY <3>1, <3>2, <1>1, <1>3, Places13 DEF Places
  <2>2. ProcessTypeOK'
    BY <2>1, <1>0, <1>2, <1>3 DEF ProcessTypeOK
  <2>3. \A i \in 1..10 : At(step) + 1 > i => Passes(Steps[i], env)
    BY <2>1, <1>0, <1>1, <1>3 DEF Passed, Alive
  <2>4. Passed'
    <3>. SUFFICES ASSUME NEW i \in 1..10, At(step') > i PROVE Passes(Steps[i], env')
      BY DEF Passed
    <3>1. Passes(Steps[i], env) /\ env' = env
      BY <2>1, <2>3, <1>2
    <3>. QED  BY <3>1
  <2>5. LateFaults' /\ FaultIsReported'
    <3>1. step' # "ended" /\ ~(faulted /\ At(step) <= 7)
      BY <2>1, <1>0, <1>1, Places13 DEF LateFaults, Alive
    <3>. QED  BY <3>1, <2>1, <1>1, <1>3, Places13 DEF LateFaults, FaultIsReported
  <2>. QED  BY <2>2, <2>4, <2>5 DEF ProcessInv
<1>4. CASE Exit("1")
  <2>1. step' = "ended" /\ exitCode' = "1"
    BY <1>4 DEF Exit
  <2>2. faulted' \in BOOLEAN
    BY <1>0 DEF Check, ProcessTypeOK
  <2>3. ProcessTypeOK'
    <3>1. "ended" \in Places
      BY DEF Places, Steps
    <3>. QED  BY <3>1, <2>1, <2>2, <1>0, <1>2 DEF ProcessTypeOK
  <2>. QED  BY <2>1, <2>3 DEF ProcessInv, Passed, LateFaults, FaultIsReported, Alive
<1>. QED  BY <1>3, <1>4 DEF Check

\* A step that ends the process keeps the invariant if it tells of a fault.
LEMMA EndingInv ==
  ASSUME ProcessInv, env' = env, step' = "ended", exitCode' \in {"1", "signal"},
         closes' \in [Closers -> {"idle", "open", "done"}],
         shuttingDown' \in BOOLEAN, faulted' \in BOOLEAN, FaultIsReported'
  PROVE  ProcessInv'
<1>1. "ended" \in Places
  BY DEF Places, Steps
<1>2. ProcessTypeOK'
  BY <1>1 DEF ProcessInv, ProcessTypeOK
<1>. QED  BY <1>2 DEF ProcessInv, Passed, LateFaults, Alive

\* A step that leaves the process where it is does so if it has come past the
\* handlers or has met no fault.
LEMMA StayingInv ==
  ASSUME ProcessInv, Alive, UNCHANGED <<env, step, exitCode>>,
         closes' \in [Closers -> {"idle", "open", "done"}],
         shuttingDown' \in BOOLEAN, faulted' \in BOOLEAN,
         At(step) > At("hooks") \/ faulted' = faulted
  PROVE  ProcessInv'
<1>1. ProcessTypeOK'
  BY DEF ProcessInv, ProcessTypeOK
<1>2. Passed'
  <2>. SUFFICES ASSUME NEW i \in 1..10, At(step') > i PROVE Passes(Steps[i], env')
    BY DEF Passed
  <2>1. At(step) > i /\ env' = env
    OBVIOUS
  <2>2. Passes(Steps[i], env)
    BY <2>1 DEF ProcessInv, Passed
  <2>. QED  BY <2>1, <2>2
<1>3. LateFaults' /\ FaultIsReported'
  BY DEF ProcessInv, LateFaults, FaultIsReported, Alive
<1>. QED  BY <1>1, <1>2, <1>3 DEF ProcessInv

LEMMA ListenInv == ProcessInv /\ Listen => ProcessInv'
<1>. SUFFICES ASSUME ProcessInv, Listen PROVE ProcessInv'  OBVIOUS
<1>0. ProcessTypeOK /\ Passed /\ LateFaults /\ FaultIsReported /\ step = "listen" /\ Alive
  BY DEF ProcessInv, Listen, Alive
<1>1. CASE step' = "serving" /\ UNCHANGED <<closes, faulted>>
  <2>1. "serving" \in Places
    BY DEF Places, Steps
  <2>2. ProcessTypeOK'
    BY <2>1, <1>0, <1>1 DEF ProcessTypeOK, Listen
  <2>3. Passed'
    <3>. SUFFICES ASSUME NEW i \in 1..10 PROVE Passes(Steps[i], env')
      BY DEF Passed
    <3>1. At(step) > i /\ env' = env
      BY <1>0, Places13 DEF Listen
    <3>2. Passes(Steps[i], env)
      BY <3>1, <1>0 DEF Passed
    <3>. QED  BY <3>1, <3>2
  <2>4. LateFaults' /\ FaultIsReported'
    BY <1>1, Places13 DEF LateFaults, FaultIsReported
  <2>. QED  BY <2>2, <2>3, <2>4 DEF ProcessInv
<1>2. CASE /\ closes' = [closes EXCEPT !["listenFailure"] = "open"]
           /\ faulted' = TRUE
           /\ UNCHANGED step
  <2>1. closes' \in [Closers -> {"idle", "open", "done"}]
    BY <1>0, <1>2 DEF ProcessTypeOK
  <2>2. At(step) > At("hooks")
    BY <1>0, Places13
  <2>. QED  BY <2>1, <2>2, <1>0, <1>2, StayingInv DEF Listen, ProcessTypeOK
<1>. QED  BY <1>1, <1>2 DEF Listen

LEMMA EndsInv ==
  ASSUME ProcessInv, CreateFails \/ uncaughtException \/ HardExit
  PROVE  ProcessInv'
<1>1. step' = "ended" /\ exitCode' = "1" /\ UNCHANGED <<env, closes, shuttingDown>>
  BY DEF CreateFails, uncaughtException, HardExit, Exit
<1>2. faulted' \in BOOLEAN
  BY DEF ProcessInv, ProcessTypeOK, CreateFails, uncaughtException, HardExit
<1>3. FaultIsReported'
  BY <1>1 DEF FaultIsReported
<1>. QED  BY <1>1, <1>2, <1>3, EndingInv DEF ProcessInv, ProcessTypeOK

LEMMA GracefulInv == ProcessInv /\ gracefulShutdown => ProcessInv'
<1>. SUFFICES ASSUME ProcessInv, gracefulShutdown PROVE ProcessInv'  OBVIOUS
<1>0. ProcessTypeOK /\ Hooked /\ faulted' = TRUE /\ env' = env
  BY DEF ProcessInv, gracefulShutdown
<1>1. CASE shuttingDown
  <2>1. step' = "ended" /\ exitCode' = "1" /\ UNCHANGED <<closes, shuttingDown>>
    BY <1>1 DEF gracefulShutdown, Exit
  <2>2. FaultIsReported'
    BY <2>1 DEF FaultIsReported
  <2>. QED  BY <1>0, <2>1, <2>2, EndingInv DEF ProcessTypeOK
<1>2. CASE ~shuttingDown
  <2>1. /\ shuttingDown' = TRUE /\ closes' = [closes EXCEPT !["graceful"] = "open"]
        /\ UNCHANGED <<step, exitCode>>
    BY <1>2 DEF gracefulShutdown
  <2>2. closes' \in [Closers -> {"idle", "open", "done"}]
    BY <2>1, <1>0 DEF ProcessTypeOK
  <2>. QED  BY <1>0, <2>1, <2>2, StayingInv DEF Hooked
<1>. QED  BY <1>1, <1>2

LEMMA SignalInv == ProcessInv /\ Signal => ProcessInv'
<1>. SUFFICES ASSUME ProcessInv, Signal PROVE ProcessInv'  OBVIOUS
<1>0. ProcessTypeOK /\ LateFaults /\ Alive /\ UNCHANGED <<env, shuttingDown, faulted>>
  BY DEF ProcessInv, Signal
<1>1. CASE ~Hooked
  <2>1. step' = "ended" /\ exitCode' = "signal" /\ UNCHANGED closes
    BY <1>1 DEF Signal, Exit
  <2>2. ~faulted
    BY <1>0, <1>1 DEF LateFaults, Hooked
  <2>3. FaultIsReported'
    BY <2>2, <1>0 DEF FaultIsReported
  <2>. QED  BY <1>0, <2>1, <2>3, EndingInv DEF ProcessTypeOK
<1>2. CASE Hooked
  <2>1. closes' = [closes EXCEPT !["signal"] = "open"] /\ UNCHANGED <<step, exitCode>>
    BY <1>2 DEF Signal
  <2>2. closes' \in [Closers -> {"idle", "open", "done"}]
    BY <2>1, <1>0 DEF ProcessTypeOK
  <2>. QED  BY <1>0, <2>1, <2>2, StayingInv DEF ProcessTypeOK
<1>. QED  BY <1>1, <1>2

LEMMA CloseInv == ASSUME ProcessInv, NEW c \in Closers, CloseEnds(c) PROVE ProcessInv'
<1>0. ProcessTypeOK /\ closes' = [closes EXCEPT ![c] = "done"] /\ UNCHANGED <<env, shuttingDown>>
  BY DEF ProcessInv, CloseEnds
<1>1. closes' \in [Closers -> {"idle", "open", "done"}] /\ closes'[c] = "done"
  BY <1>0 DEF ProcessTypeOK
<1>2. /\ step' = "ended" /\ faulted' \in BOOLEAN
      /\ exitCode' = "1" \/ (c = "signal" /\ exitCode' = "signal")
  BY <1>0 DEF CloseEnds, Exit, ProcessTypeOK
<1>3. FaultIsReported'
  BY <1>1, <1>2 DEF FaultIsReported
<1>. QED  BY <1>0, <1>1, <1>2, <1>3, EndingInv DEF ProcessTypeOK

-----------------------------------------------------------------------------
LEMMA ProcessInvNext == ProcessInv /\ [ProcessNext]_process => ProcessInv'
<1>. SUFFICES ASSUME ProcessInv, [ProcessNext]_process PROVE ProcessInv'  OBVIOUS
<1>1. CASE UNCHANGED process
  <2>1. UNCHANGED <<env, step, closes, shuttingDown, faulted, exitCode>>
    BY <1>1 DEF process
  <2>2. ProcessTypeOK' /\ LateFaults' /\ FaultIsReported'
    BY <2>1 DEF ProcessInv, ProcessTypeOK, LateFaults, FaultIsReported, Alive
  <2>3. Passed'
    <3>. SUFFICES ASSUME NEW i \in 1..10, step' # "ended", At(step') > i
                  PROVE  Passes(Steps[i], env')
      BY DEF Passed, Alive
    <3>1. step # "ended" /\ At(step) > i /\ env' = env
      BY <2>1
    <3>2. Passes(Steps[i], env)
      BY <3>1 DEF ProcessInv, Passed, Alive
    <3>. QED  BY <3>1, <3>2
  <2>. QED  BY <2>2, <2>3 DEF ProcessInv
<1>. QED  BY <1>1, CheckInv, ListenInv, EndsInv, GracefulInv, SignalInv, CloseInv
          DEF ProcessNext

\* The invariant of the argument above.
THEOREM ProcessInvariant == ProcessSpec => []ProcessInv
<1>. QED  BY ProcessInitInv, ProcessInvNext, PTL DEF ProcessSpec

\* Every variable of the process keeps its type.
THEOREM ProcessTypeCorrect == ProcessSpec => []ProcessTypeOK
<1>1. ProcessInv => ProcessTypeOK
  BY DEF ProcessInv
<1>. QED  BY <1>1, ProcessInvariant, PTL

\* For every combination of settings at once: nothing is built or served from
\* settings that are not sound (the checks of bootstrap, main.ts).
THEOREM OnlySoundServes == ProcessSpec => []ServesOnlyWhenSound
<1>1. ProcessInv => ServesOnlyWhenSound
  <2>. SUFFICES ASSUME ProcessInv PROVE ServesOnlyWhenSound  OBVIOUS
  <2>0. ProcessTypeOK /\ Passed /\ env \in Deployments /\ At(step) \in 1..13 /\ Steps[At(step)] = step
    BY Where DEF ProcessInv, ProcessTypeOK
  <2>1. ASSUME Alive, At(step) >= At("import") PROVE Sound(env)
    <3>1. /\ Passes(Steps[1], env) /\ Passes(Steps[2], env) /\ Passes(Steps[3], env)
          /\ Passes(Steps[4], env) /\ Passes(Steps[5], env)
      BY <2>0, <2>1, Places13 DEF Passed
    <3>2. /\ Steps[1] = "required" /\ Steps[2] = "cors" /\ Steps[3] = "jwt"
          /\ Steps[4] = "rateLimit" /\ Steps[5] = "hops"
      BY DEF Steps
    <3>3. /\ resolveRequiredEnvVars(env) /\ resolveCorsOriginsRequirement(env)
          /\ validateJwtConfig(env) /\ resolveRateLimitConfig(env) /\ resolveTrustProxyHops(env)
      BY <3>1, <3>2 DEF Passes
    <3>. QED  BY <3>3, <2>0, FiveChecks
  <2>2. ASSUME step = "serving"
        PROVE  /\ Hooked /\ env.PUBLIC = "health" /\ env.PORT \in {"set", "unset"}
               /\ ProbesRedis(env) => ProbeTarget(env) = resolveRedisOptions(env)
    <3>1. Alive /\ Hooked
      BY <2>2, Places13 DEF Alive, Hooked
    <3>2. Passes(Steps[6], env) /\ Passes(Steps[9], env) /\ Passes(Steps[10], env)
      BY <2>0, <2>2, <3>1, Places13 DEF Passed
    <3>3. Steps[6] = "import" /\ Steps[9] = "public" /\ Steps[10] = "port"
      BY DEF Steps
    <3>4. forRoot(env) /\ verifyPublicEndpointsScope(env) /\ resolvePort(env)
      BY <3>2, <3>3 DEF Passes
    <3>5. env.PUBLIC = "health"
      BY <3>4 DEF verifyPublicEndpointsScope
    <3>. QED  BY <2>0, <3>1, <3>4, <3>5, ServingChecks
  <2>. QED  BY <2>1, <2>2 DEF ServesOnlyWhenSound
<1>. QED  BY <1>1, ProcessInvariant, PTL

\* A process that has met a fault and ended says so, whatever faults, signals
\* and closes came together (gracefulShutdown, closeWithTimeout).
THEOREM FaultsAreReported == ProcessSpec => []FaultIsReported
<1>1. ProcessInv => FaultIsReported
  BY DEF ProcessInv
<1>. QED  BY <1>1, ProcessInvariant, PTL

-----------------------------------------------------------------------------
(* What HealthProbes promises of every answer and of the probes holds for  *)
(* any number of requests, any timeouts and servers that change at will.   *)
(*                                                                         *)
(* The argument: a request waits for the probe that req[r].of runs; that   *)
(* probe is the one in the slot of its server, began no later than the     *)
(* request did (for Redis: no later than the database can have taken), and *)
(* no time passes once its timer is due.  Hence what the request learns was *)
(* observed at most one timeout before it came, and its wait is bounded.   *)
(* Probes of the database follow each other, so each query left hanging    *)
(* stands for a whole timeout that has passed (HungBefore).                *)

Statuses == {"none", "connected", "disconnected"}
Answers  == {"none", "200", "503", "timeout"}

ReqType ==
    [kind : {"health", "ready"}, at : Nat, step : Deps \cup {"idle", "end"},
     of : Requests \cup {None}, db : Statuses, seen : Nat, answer : Answers]
ProbeType == [dep : Deps \cup {"none"}, from : Nat, reply : Statuses, at : Nat]
CacheType == [at : Int, status : Statuses, seen : Nat]

HealthTypeOK ==
    /\ clock \in Nat /\ flips \in Nat /\ hung \in Nat
    /\ server \in [Deps -> {"up", "down", "hangs", "unset"}]
    /\ req \in [Requests -> ReqType]
    /\ probe \in [Requests -> ProbeType]
    /\ inflight \in [Deps -> Requests \cup {None}]
    /\ cache \in [Deps -> CacheType]

\* Who runs a probe waits for it, and holds the slot of its server.
Running ==
    \A r \in Requests : probe[r].dep # "none" =>
        /\ req[r].of = r /\ req[r].step = probe[r].dep
        /\ inflight[probe[r].dep] = r

Slots == \A d \in Deps : inflight[d] # None => probe[inflight[d]].dep = d

\* Who waits, waits for a probe of that server.
Waiting ==
    \A r \in Requests :
        /\ req[r].step \in {"idle", "end"} => req[r].of = None
        /\ req[r].step \in Deps => req[r].of # None /\ probe[req[r].of].dep = req[r].step

Timely ==
    \A r \in Requests : IF probe[r].dep = "none" THEN probe[r].reply = "none" ELSE
        /\ probe[r].from <= probe[r].at /\ probe[r].at <= clock
        /\ clock <= probe[r].from + Timeout[probe[r].dep]

Slack(kind) == IF kind = "ready" THEN 0 ELSE CacheTTL

\* A request that knows of the database, with the answer it may have.
Informed(q) == q.at <= q.seen + ReadyTimeout + Slack(q.kind)

Promised(q) ==
    /\ q.at <= clock
    /\ q.step \in {"redis", "end"} => Informed(q)
    /\ q.answer \in {"200", "503"} => q.step = "end"
    /\ q.step = "end" => q.answer # "none"
    /\ q.step = "idle" => q.answer = "none"
    /\ q.kind = "ready" /\ q.answer = "none" /\ q.step # "idle" => clock <= q.at + ReadyTimeout
    /\ q.answer = "timeout" => q.at + ReadyTimeout <= clock

Began ==
    \A r \in Requests :
        /\ req[r].step = "db" => probe[req[r].of].from <= req[r].at
        /\ req[r].step = "redis" => probe[req[r].of].from <= req[r].at + ReadyTimeout

Cached ==
    cache["db"].at >= 0 =>
        cache["db"].at <= clock /\ cache["db"].at <= cache["db"].seen + ReadyTimeout

\* The time before the running probe of the database, or all of it.
Before == IF inflight["db"] = None THEN clock ELSE probe[inflight["db"]].from

HungBefore == hung * ReadyTimeout <= Before

Waits4 == Running /\ Slots /\ Waiting /\ Began

HealthInv ==
    /\ HealthTypeOK
    /\ Waits4
    /\ Timely
    /\ \A r \in Requests : Promised(req[r])
    /\ Cached
    /\ HungBefore

\* Parts of the type that a step of a request changes.
Typed == req \in [Requests -> ReqType] /\ probe \in [Requests -> ProbeType]
         /\ inflight \in [Deps -> Requests \cup {None}]

\* A request that turns to Redis now.
Asks(q) ==
    /\ q.at <= clock /\ clock <= q.at + ReadyTimeout
    /\ Informed(q)
    /\ q.answer \in {"none", "timeout"}
    /\ q.answer = "timeout" => q.at + ReadyTimeout <= clock

\* The requests in asking turn to Redis, after the probe that gone ran for them
\* ended, or with what the cache holds (gone = None).
Turning(asking, asked, gone, left, slot) ==
    /\ asking \in SUBSET Requests /\ asked \in [Requests -> ReqType]
    /\ gone \in Requests \cup {None}
    /\ gone # None => probe[gone].dep = "db"
    /\ \A q \in asking : req[q].of = gone /\ Asks(asked[q])
    /\ \A q \in Requests \ asking : gone = None \/ req[q].of # gone
    /\ left = [r \in Requests |-> IF r = gone THEN NoProbe ELSE probe[r]]
    /\ slot = IF gone = None THEN inflight["db"] ELSE None

-----------------------------------------------------------------------------
LEMMA Timeouts ==
    /\ ReadyTimeout \in Nat \ {0} /\ RedisTimeout \in Nat \ {0} /\ CacheTTL \in Nat \ {0}
    /\ \A d \in Deps : Timeout[d] \in Nat
    /\ Timeout["db"] = ReadyTimeout /\ Timeout["redis"] = RedisTimeout
BY HealthAssumption DEF Timeout, Deps

LEMMA NoneIsNobody == None \notin Requests
BY HealthAssumption

LEMMA HealthInitInv == HealthInit => HealthInv
<1>. SUFFICES ASSUME HealthInit PROVE HealthInv  OBVIOUS
<1>1. HealthTypeOK
  BY DEF HealthInit, HealthTypeOK, ReqType, ProbeType, CacheType, NoRequest, NoProbe, NoCache,
         Statuses, Answers, Deps
<1>2. Waits4
  BY NoneIsNobody DEF HealthInit, Waits4, Running, Slots, Waiting, Began, NoRequest, NoProbe, Deps
<1>3. Timely /\ Cached
  BY DEF HealthInit, Timely, Cached, NoProbe, NoCache, Deps
<1>4. \A r \in Requests : Promised(req[r])
  BY Timeouts DEF HealthInit, Promised, NoRequest
<1>5. HungBefore
  BY Timeouts DEF HealthInit, HungBefore, Before, Deps
<1>. QED  BY <1>1, <1>2, <1>3, <1>4, <1>5 DEF HealthInv

-----------------------------------------------------------------------------
LEMMA AskKeeps ==
  ASSUME HealthInv, clock' = clock,
         NEW asking, NEW asked, NEW gone, NEW left, NEW slot,
         Turning(asking, asked, gone, left, slot),
         AskRedis(asking, asked, left, slot)
  PROVE  /\ Typed' /\ Waits4' /\ Timely' /\ \A r \in Requests : Promised(req'[r])
         /\ inflight'["db"] = slot
         /\ slot # None => probe'[slot] = probe[slot]
<1>. USE DEF Turning
<1>0. /\ HealthTypeOK /\ Running /\ Slots /\ Waiting /\ Began /\ Timely
      /\ \A r \in Requests : Promised(req[r])
  BY DEF HealthInv, Waits4
<1>t. /\ req \in [Requests -> ReqType] /\ probe \in [Requests -> ProbeType]
      /\ inflight \in [Deps -> Requests \cup {None}] /\ clock \in Nat
  BY <1>0 DEF HealthTypeOK
<1>s. slot \in Requests \cup {None}
  BY <1>t DEF Deps
<1>. DEFINE Became(started, ends) ==
        /\ probe' = [r \in Requests |-> IF r = started THEN Begin("redis") ELSE left[r]]
        /\ inflight' = [d \in Deps |-> IF d = "db" THEN slot
                                      ELSE IF started = None THEN inflight["redis"] ELSE started]
        /\ started # None => started \in asking /\ inflight["redis"] = None /\ ~ends
        /\ ~ends => inflight'["redis"] # None
        /\ req' = [q \in Requests |-> IF q \notin asking THEN req[q]
                     ELSE IF ends THEN Ends(asked[q])
                          ELSE Waits(asked[q], "redis", inflight'["redis"])]
<1>1. PICK started \in Requests \cup {None}, ends \in BOOLEAN : Became(started, ends)
  <2>1. CASE server["redis"] = "unset" \/ Fresh("redis")
    <3>1. /\ req' = [q \in Requests |-> IF q \in asking THEN Ends(asked[q]) ELSE req[q]]
          /\ probe' = left /\ inflight' = [inflight EXCEPT !["db"] = slot]
      BY <2>1 DEF AskRedis
    <3>2. /\ probe' = [r \in Requests |-> IF r = None THEN Begin("redis") ELSE left[r]]
          /\ inflight' = [d \in Deps |-> IF d = "db" THEN slot ELSE inflight["redis"]]
          /\ req' = [q \in Requests |-> IF q \notin asking THEN req[q] ELSE Ends(asked[q])]
      BY <3>1, <1>t, NoneIsNobody DEF Deps
    <3>3. Became(None, TRUE)
      BY <3>2, NoneIsNobody
    <3>. QED  BY <3>3
  <2>2. CASE ~(server["redis"] = "unset" \/ Fresh("redis")) /\ Busy("redis")
    <3>1. /\ req' = [q \in Requests |-> IF q \in asking
                         THEN Waits(asked[q], "redis", inflight["redis"]) ELSE req[q]]
          /\ probe' = left /\ inflight' = [inflight EXCEPT !["db"] = slot]
      BY <2>2 DEF AskRedis
    <3>2. /\ probe' = [r \in Requests |-> IF r = None THEN Begin("redis") ELSE left[r]]
          /\ inflight' = [d \in Deps |-> IF d = "db" THEN slot ELSE inflight["redis"]]
          /\ inflight'["redis"] = inflight["redis"] /\ inflight["redis"] # None
      BY <2>2, <3>1, <1>t, NoneIsNobody DEF Deps, Busy
    <3>3. req' = [q \in Requests |-> IF q \notin asking THEN req[q]
                                     ELSE Waits(asked[q], "redis", inflight'["redis"])]
      BY <3>1, <3>2
    <3>4. Became(None, FALSE)
      BY <3>2, <3>3, NoneIsNobody
    <3>. QED  BY <3>4
  <2>3. CASE ~(server["redis"] = "unset" \/ Fresh("redis")) /\ ~Busy("redis")
    <3>1. PICK r \in asking :
             /\ req' = [q \in Requests |-> IF q \in asking
                          THEN Waits(asked[q], "redis", r) ELSE req[q]]
             /\ probe' = [left EXCEPT ![r] = Begin("redis")]
             /\ inflight' = [inflight EXCEPT !["db"] = slot, !["redis"] = r]
      BY <2>3 DEF AskRedis
    <3>2. /\ probe' = [q \in Requests |-> IF q = r THEN Begin("redis") ELSE left[q]]
          /\ inflight' = [d \in Deps |-> IF d = "db" THEN slot ELSE r]
          /\ inflight'["redis"] = r /\ r # None /\ inflight["redis"] = None
      BY <2>3, <3>1, <1>t, NoneIsNobody DEF Deps, Busy
    <3>3. req' = [q \in Requests |-> IF q \notin asking THEN req[q]
                                     ELSE Waits(asked[q], "redis", inflight'["redis"])]
      BY <3>1, <3>2
    <3>4. Became(r, FALSE)
      BY <3>2, <3>3, NoneIsNobody
    <3>. QED  BY <3>4
  <2>. QED  BY <2>1, <2>2, <2>3
<1>2. Typed'
  <2>1. \A q \in Requests : Ends(asked[q]) \in ReqType
    BY DEF Ends, ReqType, Answers
  <2>2. inflight'["redis"] \in Requests \cup {None} /\ inflight' \in [Deps -> Requests \cup {None}]
    BY <1>1, <1>t, <1>s DEF Deps
  <2>3. \A q \in Requests : Waits(asked[q], "redis", inflight'["redis"]) \in ReqType
    BY <2>2 DEF Waits, ReqType, Deps
  <2>4. Begin("redis") \in ProbeType /\ NoProbe \in ProbeType
    BY <1>t DEF Begin, NoProbe, ProbeType, Statuses, Deps
  <2>5. req' \in [Requests -> ReqType]
    BY <1>1, <2>1, <2>3, <1>t
  <2>6. probe' \in [Requests -> ProbeType]
    BY <1>1, <2>4, <1>t
  <2>. QED  BY <2>2, <2>5, <2>6 DEF Typed
\* What was and remains of probes and waits.
<1>3. started # None => started \in Requests /\ (started = gone \/ probe[started].dep = "none")
  BY <1>0, <1>1 DEF Running
<1>4. \A r \in Requests : r # gone /\ r # started => probe'[r] = probe[r]
  BY <1>1
<1>5. /\ started # None => probe'[started] = Begin("redis")
      /\ gone # None /\ gone # started => probe'[gone] = NoProbe
  BY <1>1, <1>3, NoneIsNobody
<1>6. \A q \in Requests \ asking :
         req'[q] = req[q] /\ (req[q].step \in Deps => probe'[req[q].of] = probe[req[q].of])
  <2>. TAKE q \in Requests \ asking
  <2>1. req'[q] = req[q]
    BY <1>1
  <2>2. ASSUME req[q].step \in Deps PROVE probe'[req[q].of] = probe[req[q].of]
    <3>1. req[q].of \in Requests /\ probe[req[q].of].dep # "none"
      BY <2>2, <1>0, <1>t DEF Waiting, ReqType, Deps
    <3>2. req[q].of # gone
      BY <3>1, NoneIsNobody
    <3>3. req[q].of # started
      BY <3>1, <3>2, <1>3, NoneIsNobody
    <3>. QED  BY <3>1, <3>2, <3>3, <1>4
  <2>. QED  BY <2>1, <2>2
<1>7. inflight'["db"] = slot /\ inflight'["redis"] = IF started = None THEN inflight["redis"] ELSE started
  BY <1>1 DEF Deps
<1>8. ASSUME slot # None
      PROVE  slot \in Requests /\ slot # gone /\ slot # started /\ probe[slot].dep = "db"
  <2>1. gone = None /\ slot \in Requests /\ probe[slot].dep = "db"
    BY <1>8, <1>0, <1>s DEF Slots, Deps
  <2>. QED  BY <2>1, <1>3, NoneIsNobody
<1>9. ASSUME inflight'["redis"] # None
      PROVE  /\ inflight'["redis"] \in Requests
             /\ probe'[inflight'["redis"]].dep = "redis"
             /\ probe'[inflight'["redis"]].from <= clock
  <2>1. CASE started # None
    BY <2>1, <1>7, <1>5, <1>3, <1>t DEF Begin
  <2>2. CASE started = None
    <3>1. inflight["redis"] \in Requests /\ probe[inflight["redis"]].dep = "redis"
      BY <2>2, <1>9, <1>7, <1>0, <1>t DEF Slots, Deps
    <3>2. probe'[inflight["redis"]] = probe[inflight["redis"]]
      BY <3>1, <2>2, <1>4, NoneIsNobody
    <3>3. probe[inflight["redis"]].from \in Nat /\ probe[inflight["redis"]].at \in Nat
      BY <3>1, <1>t DEF ProbeType
    <3>4. probe[inflight["redis"]].from <= clock
      BY <3>1, <3>3, <1>0, <1>t DEF Timely
    <3>. QED  BY <2>2, <3>1, <3>2, <3>4, <1>7
  <2>. QED  BY <2>1, <2>2
<1>10. Running'
  <2>. SUFFICES ASSUME NEW r \in Requests, probe'[r].dep # "none"
                PROVE  /\ req'[r].of = r /\ req'[r].step = probe'[r].dep
                       /\ inflight'[probe'[r].dep] = r
    BY DEF Running
  <2>1. CASE r = started
    <3>1. started \in asking /\ ~ends /\ inflight'["redis"] = started /\ probe'[r].dep = "redis"
      BY <2>1, <1>1, <1>5, <1>7, NoneIsNobody DEF Begin
    <3>2. req'[r] = Waits(asked[r], "redis", r) /\ asked[r] \in ReqType
      BY <3>1, <2>1, <1>1
    <3>. QED  BY <3>1, <3>2, <2>1 DEF Waits, ReqType
  <2>2. CASE r # started
    <3>1. r # gone /\ probe'[r] = probe[r]
      BY <2>2, <1>4, <1>5, NoneIsNobody DEF NoProbe
    <3>2. req[r].of = r /\ req[r].step = probe[r].dep /\ inflight[probe[r].dep] = r
      BY <3>1, <1>0 DEF Running
    <3>3. r \notin asking /\ req'[r] = req[r]
      BY <3>1, <3>2, <1>6
    <3>4. probe[r].dep \in Deps
      BY <3>1, <1>t DEF ProbeType
    <3>5. CASE probe[r].dep = "db"
      <4>1. gone # None => inflight["db"] = gone
        BY <1>0 DEF Running
      <4>. QED  BY <4>1, <3>1, <3>2, <3>3, <3>5, <1>7
    <3>6. CASE probe[r].dep = "redis"
      BY <3>1, <3>2, <3>3, <3>6, <1>7, <1>1, NoneIsNobody
    <3>. QED  BY <3>4, <3>5, <3>6 DEF Deps
  <2>. QED  BY <2>1, <2>2
<1>11. Slots'
  <2>1. inflight'["db"] # None => probe'[inflight'["db"]].dep = "db"
    BY <1>7, <1>8, <1>4
  <2>. QED  BY <2>1, <1>9 DEF Slots, Deps
<1>12. ASSUME NEW q \in asking, ends
       PROVE  /\ req'[q] = Ends(asked[q]) /\ req'[q].step = "end" /\ req'[q].of = None
              /\ Promised(req'[q])
  <2>1. req'[q] = Ends(asked[q])
    BY <1>12, <1>1
  <2>2. /\ req'[q].step = "end" /\ req'[q].of = None /\ req'[q].at = asked[q].at
        /\ req'[q].kind = asked[q].kind /\ req'[q].seen = asked[q].seen
        /\ req'[q].answer \in {"200", "503", "timeout"}
        /\ req'[q].answer = "timeout" => asked[q].answer = "timeout"
    BY <2>1 DEF Ends, ReqType
  <2>3. Asks(asked[q])
    BY <1>12
  <2>4. Promised(req'[q])
    BY <2>2, <2>3 DEF Promised, Asks, Informed, Slack
  <2>. QED  BY <2>1, <2>2, <2>4
<1>13. ASSUME NEW q \in asking, ~ends
       PROVE  /\ req'[q].step = "redis" /\ req'[q].of = inflight'["redis"]
              /\ inflight'["redis"] # None /\ req'[q].at = asked[q].at
              /\ Promised(req'[q])
  <2>1. req'[q] = Waits(asked[q], "redis", inflight'["redis"]) /\ inflight'["redis"] # None
    BY <1>13, <1>1
  <2>2. /\ req'[q].step = "redis" /\ req'[q].of = inflight'["redis"] /\ req'[q].at = asked[q].at
        /\ req'[q].kind = asked[q].kind /\ req'[q].seen = asked[q].seen
        /\ req'[q].answer = asked[q].answer
    BY <2>1 DEF Waits, ReqType
  <2>3. Asks(asked[q])
    BY <1>13
  <2>4. Promised(req'[q])
    BY <2>2, <2>3 DEF Promised, Asks, Informed, Slack
  <2>. QED  BY <2>1, <2>2, <2>4
<1>14. Waiting'
  <2>. SUFFICES ASSUME NEW q \in Requests
                PROVE  /\ req'[q].step \in {"idle", "end"} => req'[q].of = None
                       /\ req'[q].step \in Deps =>
                            req'[q].of # None /\ probe'[req'[q].of].dep = req'[q].step
    BY DEF Waiting
  <2>1. CASE q \notin asking
    BY <2>1, <1>6, <1>0 DEF Waiting
  <2>2. CASE q \in asking /\ ends
    BY <2>2, <1>12 DEF Deps
  <2>3. CASE q \in asking /\ ~ends
    BY <2>3, <1>13, <1>9
  <2>. QED  BY <2>1, <2>2, <2>3
<1>15. Began'
  <2>. SUFFICES ASSUME NEW q \in Requests
                PROVE  /\ req'[q].step = "db" => probe'[req'[q].of].from <= req'[q].at
                       /\ req'[q].step = "redis" =>
                            probe'[req'[q].of].from <= req'[q].at + ReadyTimeout
    BY DEF Began
  <2>1. CASE q \notin asking
    BY <2>1, <1>6, <1>0 DEF Began, Deps
  <2>2. CASE q \in asking /\ ends
    BY <2>2, <1>12
  <2>3. CASE q \in asking /\ ~ends
    <3>1. /\ req'[q].step = "redis" /\ req'[q].at = asked[q].at
          /\ req'[q].of \in Requests /\ probe'[req'[q].of].from <= clock
      BY <2>3, <1>13, <1>9
    <3>2. clock <= asked[q].at + ReadyTimeout /\ asked[q].at \in Nat
      BY <2>3 DEF Asks, ReqType
    <3>3. probe'[req'[q].of].from \in Nat
      BY <3>1, <1>2 DEF Typed, ProbeType
    <3>. QED  BY <3>1, <3>2, <3>3, <1>t, Timeouts
  <2>. QED  BY <2>1, <2>2, <2>3
<1>16. \A r \in Requests : Promised(req'[r])
  <2>. TAKE q \in Requests
  <2>1. CASE q \notin asking
    <3>1. Promised(req[q]) /\ req'[q] = req[q]
      BY <2>1, <1>6, <1>0
    <3>. QED  BY <3>1 DEF Promised, Informed, Slack
  <2>. QED  BY <2>1, <1>12, <1>13
<1>17. Timely'
  <2>. SUFFICES ASSUME NEW r \in Requests
                PROVE  IF probe'[r].dep = "none" THEN probe'[r].reply = "none" ELSE
                         /\ probe'[r].from <= probe'[r].at /\ probe'[r].at <= clock
                         /\ clock <= probe'[r].from + Timeout[probe'[r].dep]
    BY DEF Timely
  <2>1. CASE r = started
    <3>1. probe'[r] = Begin("redis")
      BY <2>1, <1>5, NoneIsNobody
    <3>. QED  BY <3>1, Timeouts, <1>t DEF Begin
  <2>2. CASE r # started /\ r = gone
    BY <2>2, <1>5, NoneIsNobody DEF NoProbe
  <2>3. CASE r # started /\ r # gone
    BY <2>3, <1>4, <1>0 DEF Timely
  <2>. QED  BY <2>1, <2>2, <2>3
<1>. QED  BY <1>2, <1>7, <1>8, <1>4, <1>10, <1>11, <1>14, <1>15, <1>16, <1>17 DEF Waits4

-----------------------------------------------------------------------------
(* The end of a probe.                                                     *)

LEMMA SettleKeeps ==
  ASSUME HealthInv, clock' = clock,
         NEW r \in Requests, probe[r].dep # "none",
         NEW status \in Statuses, NEW seen \in Nat,
         probe[r].from <= seen, seen <= clock,
         Settle(r, status, seen)
  PROVE  /\ Typed' /\ cache' \in [Deps -> CacheType]
         /\ Waits4' /\ Timely' /\ Cached' /\ \A q \in Requests : Promised(req'[q])
         /\ probe[r].dep = "db" => inflight'["db"] = None
         /\ probe[r].dep = "redis" =>
              /\ inflight'["db"] = inflight["db"]
              /\ inflight["db"] # None => probe'[inflight["db"]] = probe[inflight["db"]]
<1>0. /\ HealthTypeOK /\ Running /\ Slots /\ Waiting /\ Began /\ Timely /\ Cached
      /\ \A q \in Requests : Promised(req[q])
  BY DEF HealthInv, Waits4
<1>t. /\ req \in [Requests -> ReqType] /\ probe \in [Requests -> ProbeType]
      /\ inflight \in [Deps -> Requests \cup {None}] /\ clock \in Nat
      /\ cache \in [Deps -> CacheType]
  BY <1>0 DEF HealthTypeOK
<1>d. probe[r].dep \in Deps
  BY <1>t DEF ProbeType
<1>f. /\ probe[r].from \in Nat /\ clock <= probe[r].from + Timeout[probe[r].dep]
  BY <1>0, <1>t DEF Timely, ProbeType
<1>1. cache' = [cache EXCEPT ![probe[r].dep] = [at |-> clock, status |-> status, seen |-> seen]]
  BY DEF Settle
<1>2. cache' \in [Deps -> CacheType]
  <2>1. [at |-> clock, status |-> status, seen |-> seen] \in CacheType
    BY <1>t DEF CacheType
  <2>. QED  BY <2>1, <1>1, <1>t, <1>d
<1>3. Cached'
  <2>1. CASE probe[r].dep = "db"
    <3>1. cache'["db"].at = clock /\ cache'["db"].seen = seen
      BY <2>1, <1>1, <1>t, <1>d
    <3>2. clock <= seen + ReadyTimeout
      BY <2>1, <1>f, <1>t, Timeouts
    <3>. QED  BY <3>1, <3>2, <1>t DEF Cached
  <2>2. CASE probe[r].dep = "redis"
    <3>1. cache'["db"] = cache["db"]
      BY <2>2, <1>1, <1>t DEF Deps
    <3>. QED  BY <3>1, <1>0 DEF Cached
  <2>. QED  BY <2>1, <2>2, <1>d DEF Deps
\* Who waits for r waits for the server that r probes.
<1>4. ASSUME NEW q \in Requests, req[q].of = r
      PROVE  /\ req[q].step = probe[r].dep
             /\ req[q].answer \in {"none", "timeout"}
  <2>1. req[q].step \in Deps
    BY <1>4, <1>0, <1>t, NoneIsNobody DEF Waiting, ReqType
  <2>2. req[q].step = probe[r].dep
    BY <2>1, <1>4, <1>0 DEF Waiting
  <2>3. req[q].answer \in Answers /\ req[q].step # "end"
    BY <2>1, <1>t DEF ReqType, Deps
  <2>4. req[q].answer \in {"none", "timeout"}
    BY <2>3, <1>0 DEF Promised, Answers
  <2>. QED  BY <2>2, <2>4
<1>5. CASE probe[r].dep = "db"
  <2>1. PICK waiting, asked, left :
            /\ waiting \in SUBSET Requests
            /\ waiting = {q \in Requests : req[q].of = r}
            /\ asked = [q \in Requests |-> Knows(req[q], status, seen)]
            /\ left = [q \in Requests |-> IF q = r THEN NoProbe ELSE probe[q]]
    OBVIOUS
  <2>2. AskRedis(waiting, asked, left, None)
    <3>1. left = [probe EXCEPT ![r] = NoProbe]
      BY <2>1, <1>t
    <3>. QED  BY <1>5, <2>1, <3>1 DEF Settle, AskRedis
  <2>3. asked \in [Requests -> ReqType]
    BY <2>1, <1>t DEF Knows, ReqType
  <2>4. ASSUME NEW q \in waiting PROVE req[q].of = r /\ Asks(asked[q])
    <3>1. q \in Requests /\ req[q].of = r /\ req[q] \in ReqType
      BY <2>1, <1>t
    <3>2. req[q].step = "db" /\ req[q].answer \in {"none", "timeout"}
      BY <3>1, <1>4, <1>5
    <3>3. probe[r].from <= req[q].at /\ Promised(req[q])
      BY <3>1, <3>2, <1>0 DEF Began
    <3>4. /\ asked[q].at = req[q].at /\ asked[q].kind = req[q].kind
          /\ asked[q].answer = req[q].answer /\ asked[q].seen = seen
      BY <2>1, <3>1 DEF Knows, ReqType
    <3>5. /\ req[q].at \in Nat /\ req[q].at <= clock
          /\ req[q].answer = "timeout" => req[q].at + ReadyTimeout <= clock
      BY <3>1, <3>3 DEF Promised, ReqType
    <3>6. clock <= req[q].at + ReadyTimeout /\ req[q].at <= seen + ReadyTimeout
      BY <3>3, <3>5, <1>f, <1>5, <1>t, Timeouts
    <3>7. Slack(req[q].kind) \in Nat
      BY Timeouts DEF Slack
    <3>8. Informed(asked[q])
      BY <3>4, <3>5, <3>6, <3>7, Timeouts DEF Informed
    <3>. QED  BY <3>1, <3>2, <3>4, <3>5, <3>6, <3>8 DEF Asks
  <2>5. waiting \in SUBSET Requests /\ \A q \in Requests \ waiting : r = None \/ req[q].of # r
    BY <2>1
  <2>6. None = (IF r = None THEN inflight["db"] ELSE None) /\ r \in Requests \cup {None}
    BY NoneIsNobody
  <2>a. /\ r # None => probe[r].dep = "db"
        /\ \A q \in waiting : req[q].of = r /\ Asks(asked[q])
    BY <2>4, <1>5
  <2>8. Typed' /\ Waits4' /\ Timely' /\ (\A q \in Requests : Promised(req'[q]))
        /\ inflight'["db"] = None
    <3>1. Turning(waiting, asked, r, left, None)
      BY <2>1, <2>3, <2>5, <2>6, <2>a DEF Turning
    <3>. QED  BY <2>2, <3>1, AskKeeps
  <2>. QED  BY <2>8, <1>2, <1>3, <1>5
<1>6. CASE probe[r].dep = "redis"
  <2>1. /\ req' = [q \in Requests |-> IF req[q].of = r THEN Ends(req[q]) ELSE req[q]]
        /\ probe' = [q \in Requests |-> IF q = r THEN NoProbe ELSE probe[q]]
        /\ inflight' = [d \in Deps |-> IF d = "redis" THEN None ELSE inflight[d]]
    BY <1>6, <1>t DEF Settle, Deps
  <2>2. Typed'
    <3>1. \A q \in Requests : Ends(req[q]) \in ReqType
      BY <1>t DEF Ends, ReqType, Answers
    <3>2. NoProbe \in ProbeType
      BY DEF NoProbe, ProbeType, Statuses, Deps
    <3>. QED  BY <2>1, <3>1, <3>2, <1>t DEF Typed
  <2>3. inflight["redis"] = r
    BY <1>6, <1>0 DEF Running
  <2>4. inflight'["db"] = inflight["db"] /\ inflight'["redis"] = None
    BY <2>1 DEF Deps
  <2>5. ASSUME NEW q \in Requests, req[q].of = r
        PROVE  req'[q].step = "end" /\ req'[q].of = None /\ Promised(req'[q])
    <3>1. req'[q] = Ends(req[q])
      BY <2>1, <2>5
    <3>2. /\ req'[q].step = "end" /\ req'[q].of = None /\ req'[q].at = req[q].at
          /\ req'[q].kind = req[q].kind /\ req'[q].seen = req[q].seen
          /\ req'[q].answer \in {"200", "503", "timeout"}
          /\ req'[q].answer = "timeout" => req[q].answer = "timeout"
      BY <3>1, <1>t DEF Ends, ReqType
    <3>3. Promised(req[q]) /\ req[q].step = "redis"
      BY <2>5, <1>0, <1>4, <1>6
    <3>4. Promised(req'[q])
      BY <3>2, <3>3 DEF Promised, Informed, Slack
    <3>. QED  BY <3>2, <3>4
  <2>6. \A q \in Requests : req[q].of # r => req'[q] = req[q]
    BY <2>1
  <2>7. \A q \in Requests : q # r => probe'[q] = probe[q]
    BY <2>1
  <2>8. probe'[r] = NoProbe
    BY <2>1
  <2>9. \A q \in Requests : Promised(req'[q])
    BY <2>5, <2>6, <1>0
  <2>10. Running'
    <3>. SUFFICES ASSUME NEW q \in Requests, probe'[q].dep # "none"
                  PROVE  /\ req'[q].of = q /\ req'[q].step = probe'[q].dep
                         /\ inflight'[probe'[q].dep] = q
      BY DEF Running
    <3>1. q # r /\ probe'[q] = probe[q]
      BY <2>7, <2>8 DEF NoProbe
    <3>2. req[q].of = q /\ req[q].step = probe[q].dep /\ inflight[probe[q].dep] = q
      BY <3>1, <1>0 DEF Running
    <3>3. req'[q] = req[q] /\ probe[q].dep # "redis"
      BY <3>1, <3>2, <2>3, <2>6
    <3>4. probe[q].dep = "db"
      BY <3>1, <3>3, <1>t DEF ProbeType, Deps
    <3>. QED  BY <3>1, <3>2, <3>3, <3>4, <2>4
  <2>11. Slots'
    <3>1. inflight["db"] # None => inflight["db"] \in Requests /\ probe[inflight["db"]].dep = "db"
      BY <1>0, <1>t DEF Slots, Deps
    <3>. QED  BY <3>1, <2>4, <2>7, <1>6 DEF Slots, Deps
  <2>12. Waiting' /\ Began'
    <3>1. ASSUME NEW q \in Requests, req[q].of # r
          PROVE  req[q].step \in Deps => probe'[req[q].of] = probe[req[q].of]
      <4>1. req[q].step \in Deps => req[q].of \in Requests
        BY <1>0, <1>t DEF Waiting, ReqType
      <4>. QED  BY <4>1, <3>1, <2>7
    <3>2. Waiting'
      BY <3>1, <2>5, <2>6, <1>0 DEF Waiting, Deps
    <3>3. Began'
      BY <3>1, <2>5, <2>6, <1>0 DEF Began, Deps
    <3>. QED  BY <3>2, <3>3
  <2>13. Timely'
    <3>. SUFFICES ASSUME NEW q \in Requests
                  PROVE  IF probe'[q].dep = "none" THEN probe'[q].reply = "none" ELSE
                           /\ probe'[q].from <= probe'[q].at /\ probe'[q].at <= clock
                           /\ clock <= probe'[q].from + Timeout[probe'[q].dep]
      BY DEF Timely
    <3>1. CASE q = r
      BY <3>1, <2>8 DEF NoProbe
    <3>2. CASE q # r
      BY <3>2, <2>7, <1>0 DEF Timely
    <3>. QED  BY <3>1, <3>2
  <2>14. inflight["db"] # None => probe'[inflight["db"]] = probe[inflight["db"]]
    <3>1. inflight["db"] # None => inflight["db"] \in Requests /\ probe[inflight["db"]].dep = "db"
      BY <1>0, <1>t DEF Slots, Deps
    <3>. QED  BY <3>1, <2>7, <1>6
  <2>. QED  BY <2>2, <2>4, <2>9, <2>10, <2>11, <2>12, <2>13, <2>14, <1>2, <1>3, <1>6 DEF Waits4
<1>. QED  BY <1>5, <1>6, <1>d DEF Deps
-----------------------------------------------------------------------------
(* The actions.                                                            *)

\* What the steps of a request need of the rest.
LEMMA Rest ==
  ASSUME HealthTypeOK, HealthInv, Typed', Waits4', Timely', Cached', HungBefore',
         \A q \in Requests : Promised(req'[q]),
         clock' = clock, UNCHANGED <<server, flips>>,
         cache' \in [Deps -> CacheType], hung' \in Nat
  PROVE  HealthInv'
<1>1. HealthTypeOK'
  BY DEF HealthTypeOK, Typed
<1>2. (\A q \in Requests : Promised(req[q]))'
  BY DEF Promised, Informed, Slack
<1>. QED  BY <1>1, <1>2 DEF HealthInv

LEMMA NaturalValues ==
  ASSUME HealthTypeOK, Slots
  PROVE  /\ clock \in Nat /\ hung \in Nat /\ hung * ReadyTimeout \in Nat
         /\ Before \in Nat
         /\ \A r \in Requests : probe[r].from \in Nat /\ probe[r].at \in Nat
<1>1. clock \in Nat /\ hung \in Nat
  BY DEF HealthTypeOK
<1>2. hung * ReadyTimeout \in Nat
  BY <1>1, Timeouts
<1>3. \A r \in Requests : probe[r].from \in Nat /\ probe[r].at \in Nat
  BY DEF HealthTypeOK, ProbeType
<1>4. Before \in Nat
  BY <1>1, <1>3 DEF Before, HealthTypeOK, Deps
<1>. QED  BY <1>1, <1>2, <1>3, <1>4

LEMMA ArriveInv ==
  ASSUME HealthInv, NEW r \in Requests, NEW kind \in {"health", "ready"}, Arrive(r, kind)
  PROVE  HealthInv'
<1>0. /\ HealthTypeOK /\ Running /\ Slots /\ Waiting /\ Began /\ Timely /\ Cached /\ HungBefore
      /\ \A q \in Requests : Promised(req[q])
  BY DEF HealthInv, Waits4
<1>t. /\ req \in [Requests -> ReqType] /\ probe \in [Requests -> ProbeType]
      /\ inflight \in [Deps -> Requests \cup {None}] /\ clock \in Nat /\ hung \in Nat
      /\ cache \in [Deps -> CacheType]
  BY <1>0 DEF HealthTypeOK
<1>i. req[r].step = "idle" /\ req[r].of = None
  BY <1>0 DEF Arrive, Waiting
<1>u. /\ clock' = clock /\ UNCHANGED <<server, flips>> /\ cache' = cache /\ hung' = hung
  BY DEF Arrive
<1>c. Cached'
  BY <1>u, <1>0 DEF Cached
<1>. DEFINE new == [NoRequest EXCEPT !.kind = kind, !.at = clock]
<1>n. /\ new \in ReqType /\ new.kind = kind /\ new.at = clock /\ new.answer = "none"
      /\ new.step = "idle"
  BY <1>t DEF NoRequest, ReqType, Statuses, Answers
<1>p. probe[r].dep = "none" /\ \A d \in Deps : inflight[d] # r
  <2>1. probe[r].dep = "none"
    BY <1>0, <1>i, NoneIsNobody DEF Running
  <2>. QED  BY <2>1, <1>0, <1>t, NoneIsNobody DEF Slots, Deps
<1>o. \A q \in Requests : req[q].step \in Deps => req[q].of # r /\ req[q].of \in Requests
  BY <1>0, <1>t, <1>p DEF Waiting, ReqType, Deps
<1>1. CASE /\ Usable(kind)
           /\ AskRedis({r}, [req EXCEPT ![r] = Knows(new, cache["db"].status, cache["db"].seen)],
                       probe, inflight["db"])
  <2>0. PICK asked, left, slot :
            /\ asked = [req EXCEPT ![r] = Knows(new, cache["db"].status, cache["db"].seen)]
            /\ left = probe /\ slot = inflight["db"]
    OBVIOUS
  <2>1. /\ kind = "health" /\ cache["db"] \in CacheType
        /\ cache["db"].at >= 0 /\ clock - cache["db"].at < CacheTTL
    BY <1>1, <1>t DEF Usable, Fresh, Deps
  <2>2. asked \in [Requests -> ReqType]
    BY <1>n, <2>0, <2>1, <1>t DEF Knows, ReqType, CacheType
  <2>3. asked[r] = Knows(new, cache["db"].status, cache["db"].seen)
    BY <2>0, <1>t
  <2>4. /\ asked[r].at = clock /\ asked[r].kind = "health" /\ asked[r].answer = "none"
        /\ asked[r].seen = cache["db"].seen
    BY <2>1, <2>3, <1>n DEF Knows, ReqType
  <2>5. cache["db"].at \in Int /\ cache["db"].seen \in Nat
    BY <2>1 DEF CacheType
  <2>6. clock <= cache["db"].seen + ReadyTimeout + CacheTTL
    BY <2>1, <2>5, <1>0, <1>t, Timeouts DEF Cached
  <2>7. Asks(asked[r])
    BY <2>4, <2>6, <1>t, Timeouts DEF Asks, Informed, Slack
  <2>8. left = [q \in Requests |-> IF q = None THEN NoProbe ELSE probe[q]]
    BY <2>0, <1>t, NoneIsNobody
  <2>9. {r} \in SUBSET Requests /\ \A q \in {r} : req[q].of = None /\ Asks(asked[q])
    BY <2>7, <1>i
  <2>10. AskRedis({r}, asked, left, slot)
    BY <2>0, <1>1 DEF AskRedis
  <2>a. /\ None # None => probe[None].dep = "db"
        /\ \A q \in Requests \ {r} : None = None \/ req[q].of # None
        /\ slot = IF None = None THEN inflight["db"] ELSE None
        /\ None \in Requests \cup {None}
    BY <2>0
  <2>11. /\ Typed' /\ Waits4' /\ Timely' /\ (\A q \in Requests : Promised(req'[q]))
         /\ inflight'["db"] = slot /\ (slot # None => probe'[slot] = probe[slot])
    <3>1. Turning({r}, asked, None, left, slot)
      BY <2>2, <2>8, <2>9, <2>a DEF Turning
    <3>. QED  BY <2>10, <3>1, <1>u, AskKeeps
  <2>12. HungBefore'
    BY <2>0, <2>11, <1>u, <1>0 DEF HungBefore, Before
  <2>. QED  BY <2>11, <2>12, <1>0, <1>u, <1>c, <1>t, Rest
<1>2. CASE /\ ~Usable(kind) /\ Busy("db")
           /\ req' = [req EXCEPT ![r] = Waits(new, "db", inflight["db"])]
           /\ UNCHANGED <<probe, inflight>>
  <2>1. inflight["db"] \in Requests /\ probe[inflight["db"]].dep = "db"
    BY <1>2, <1>0, <1>t DEF Busy, Slots, Deps
  <2>2. req'[r] = Waits(new, "db", inflight["db"]) /\ \A q \in Requests : q # r => req'[q] = req[q]
    BY <1>2, <1>t
  <2>3. Waits(new, "db", inflight["db"]) \in ReqType
    BY <1>n, <2>1 DEF Waits, ReqType, Deps
  <2>4. Typed'
    BY <2>3, <1>2, <1>t DEF Typed
  <2>5. /\ req'[r].step = "db" /\ req'[r].of = inflight["db"] /\ req'[r].at = clock
        /\ req'[r].answer = "none" /\ req'[r].kind = kind
    BY <2>2, <1>n DEF Waits, ReqType
  <2>6. probe[inflight["db"]].from <= clock
    BY <2>1, <1>0, <1>t DEF Timely, ProbeType
  <2>7. Running' /\ Slots'
    BY <1>2, <2>2, <1>p, <1>0 DEF Running, Slots
  <2>8. Waiting'
    BY <1>2, <2>1, <2>2, <2>5, <1>0, NoneIsNobody DEF Waiting, Deps
  <2>9. Began'
    BY <1>2, <2>2, <2>5, <2>6, <1>0 DEF Began
  <2>10. Timely' /\ HungBefore'
    BY <1>2, <1>u, <1>0 DEF Timely, HungBefore, Before
  <2>11. Promised(req'[r])
    BY <2>5, <1>t, Timeouts DEF Promised
  <2>12. \A q \in Requests : Promised(req'[q])
    BY <2>2, <2>11, <1>0
  <2>13. Waits4'
    BY <2>7, <2>8, <2>9 DEF Waits4
  <2>. QED  BY <2>4, <2>10, <2>12, <2>13, <1>0, <1>u, <1>c, <1>t, Rest
<1>3. CASE /\ ~Usable(kind) /\ ~Busy("db")
           /\ req' = [req EXCEPT ![r] = Waits(new, "db", r)]
           /\ probe' = [probe EXCEPT ![r] = Begin("db")]
           /\ inflight' = [inflight EXCEPT !["db"] = r]
  <2>1. /\ req'[r] = Waits(new, "db", r) /\ \A q \in Requests : q # r => req'[q] = req[q]
        /\ probe'[r] = Begin("db") /\ \A q \in Requests : q # r => probe'[q] = probe[q]
        /\ inflight'["db"] = r /\ inflight'["redis"] = inflight["redis"] /\ inflight["db"] = None
    BY <1>3, <1>t DEF Busy, Deps
  <2>2. Waits(new, "db", r) \in ReqType /\ Begin("db") \in ProbeType
    BY <1>n, <1>t DEF Waits, Begin, ReqType, ProbeType, Statuses, Deps
  <2>3. Typed'
    BY <2>2, <1>3, <1>t DEF Typed
  <2>4. /\ req'[r].step = "db" /\ req'[r].of = r /\ req'[r].at = clock
        /\ req'[r].answer = "none" /\ req'[r].kind = kind
    BY <2>1, <1>n DEF Waits, ReqType
  <2>5. /\ probe'[r].dep = "db" /\ probe'[r].from = clock /\ probe'[r].at = clock
    BY <2>1 DEF Begin
  <2>6. \A q \in Requests : q # r /\ req[q].step \in Deps =>
           probe'[req'[q].of] = probe[req[q].of] /\ req'[q] = req[q]
    BY <2>1, <1>o
  <2>7. Running'
    <3>. SUFFICES ASSUME NEW q \in Requests, probe'[q].dep # "none"
                  PROVE  /\ req'[q].of = q /\ req'[q].step = probe'[q].dep
                         /\ inflight'[probe'[q].dep] = q
      BY DEF Running
    <3>1. CASE q = r
      BY <3>1, <2>1, <2>4, <2>5
    <3>2. CASE q # r
      <4>1. req[q].of = q /\ req[q].step = probe[q].dep /\ inflight[probe[q].dep] = q
            /\ probe'[q] = probe[q] /\ req'[q] = req[q]
        BY <3>2, <2>1, <1>0 DEF Running
      <4>2. probe[q].dep = "redis"
        BY <4>1, <2>1, <1>t, NoneIsNobody DEF ProbeType, Deps
      <4>. QED  BY <4>1, <4>2, <2>1
    <3>. QED  BY <3>1, <3>2
  <2>8. Slots'
    <3>1. inflight["redis"] # None => inflight["redis"] \in Requests /\ inflight["redis"] # r
      BY <1>t, <1>p DEF Deps
    <3>. QED  BY <3>1, <2>1, <2>5, <1>0 DEF Slots, Deps
  <2>9. Waiting'
    <3>. SUFFICES ASSUME NEW q \in Requests
                  PROVE  /\ req'[q].step \in {"idle", "end"} => req'[q].of = None
                         /\ req'[q].step \in Deps =>
                              req'[q].of # None /\ probe'[req'[q].of].dep = req'[q].step
      BY DEF Waiting
    <3>1. CASE q = r
      BY <3>1, <2>4, <2>5, NoneIsNobody
    <3>2. CASE q # r
      BY <3>2, <2>1, <2>6, <1>0 DEF Waiting
    <3>. QED  BY <3>1, <3>2
  <2>10. Began'
    <3>. SUFFICES ASSUME NEW q \in Requests
                  PROVE  /\ req'[q].step = "db" => probe'[req'[q].of].from <= req'[q].at
                         /\ req'[q].step = "redis" =>
                              probe'[req'[q].of].from <= req'[q].at + ReadyTimeout
      BY DEF Began
    <3>1. CASE q = r
      BY <3>1, <2>4, <2>5, <1>t
    <3>2. CASE q # r
      BY <3>2, <2>1, <2>6, <1>0 DEF Began, Deps
    <3>. QED  BY <3>1, <3>2
  <2>11. Timely'
    <3>. SUFFICES ASSUME NEW q \in Requests
                  PROVE  IF probe'[q].dep = "none" THEN probe'[q].reply = "none" ELSE
                           /\ probe'[q].from <= probe'[q].at /\ probe'[q].at <= clock
                           /\ clock <= probe'[q].from + Timeout[probe'[q].dep]
      BY <1>u DEF Timely
    <3>1. CASE q = r
      BY <3>1, <2>5, <1>t, Timeouts
    <3>2. CASE q # r
      BY <3>2, <2>1, <1>0 DEF Timely
    <3>. QED  BY <3>1, <3>2
  <2>12. Promised(req'[r])
    BY <2>4, <1>t, Timeouts DEF Promised
  <2>13. \A q \in Requests : Promised(req'[q])
    BY <2>1, <2>12, <1>0
  <2>14. HungBefore'
    BY <2>1, <2>5, <1>u, <1>0, NoneIsNobody DEF HungBefore, Before
  <2>15. Waits4'
    BY <2>7, <2>8, <2>9, <2>10 DEF Waits4
  <2>. QED  BY <2>3, <2>11, <2>13, <2>14, <2>15, <1>0, <1>u, <1>c, <1>t, Rest
<1>. QED  BY <1>1, <1>2, <1>3 DEF Arrive

\* A probe that ends, by its answer or by its timer.
LEMMA EndInv ==
  ASSUME HealthInv, NEW r \in Requests, clock' = clock, UNCHANGED <<server, flips>>,
         probe[r].dep # "none",
         NEW status \in Statuses, NEW seen \in Nat,
         probe[r].from <= seen, seen <= clock, Settle(r, status, seen),
         \/ hung' = hung
         \/ hung' = hung + 1 /\ probe[r].dep = "db" /\ ProbeDue(r)
  PROVE  HealthInv'
<1>0. HealthTypeOK /\ Slots /\ Running /\ Timely /\ HungBefore
  BY DEF HealthInv, Waits4
<1>1. /\ Typed' /\ cache' \in [Deps -> CacheType]
      /\ Waits4' /\ Timely' /\ Cached' /\ \A q \in Requests : Promised(req'[q])
      /\ probe[r].dep = "db" => inflight'["db"] = None
      /\ probe[r].dep = "redis" =>
           /\ inflight'["db"] = inflight["db"]
           /\ inflight["db"] # None => probe'[inflight["db"]] = probe[inflight["db"]]
  BY SettleKeeps
<1>2. /\ clock \in Nat /\ hung \in Nat /\ hung * ReadyTimeout \in Nat
      /\ \A q \in Requests : probe[q].from \in Nat /\ probe[q].at \in Nat
  BY <1>0, NaturalValues
<1>d. probe[r].dep \in Deps
  BY <1>0 DEF HealthTypeOK, ProbeType
<1>3. hung' \in Nat
  BY <1>2
<1>4. HungBefore'
  <2>1. CASE probe[r].dep = "db"
    <3>1. inflight["db"] = r /\ Before = probe[r].from
      BY <2>1, <1>0, NoneIsNobody DEF Running, Before
    <3>2. Before' = clock
      BY <2>1, <1>1 DEF Before
    <3>3. hung * ReadyTimeout <= probe[r].from
      BY <3>1, <1>0 DEF HungBefore
    <3>4. CASE hung' = hung
      <4>1. probe[r].from <= clock
        BY <1>2
      <4>. QED  BY <3>2, <3>3, <3>4, <4>1, <1>2 DEF HungBefore
    <3>5. CASE hung' = hung + 1 /\ ProbeDue(r)
      <4>1. probe[r].from + ReadyTimeout <= clock
        BY <3>5, <2>1, Timeouts, <1>2 DEF ProbeDue
      <4>2. hung' * ReadyTimeout = hung * ReadyTimeout + ReadyTimeout
        BY <3>5, <1>2, Timeouts
      <4>3. hung' * ReadyTimeout <= clock
        BY <4>1, <4>2, <3>3, <1>2, Timeouts
      <4>. QED  BY <4>3, <3>2 DEF HungBefore
    <3>. QED  BY <3>4, <3>5
  <2>2. CASE probe[r].dep = "redis"
    <3>1. hung' = hung /\ Before' = Before
      BY <2>2, <1>1 DEF Before
    <3>. QED  BY <3>1, <1>0 DEF HungBefore
  <2>. QED  BY <2>1, <2>2, <1>d DEF Deps
<1>. QED  BY <1>0, <1>1, <1>3, <1>4, Rest

LEMMA RepliedInv == ASSUME HealthInv, NEW r \in Requests, Replied(r) PROVE HealthInv'
<1>0. HealthTypeOK /\ Timely
  BY DEF HealthInv
<1>1. /\ probe[r].dep # "none" /\ probe[r].reply \in Statuses /\ probe[r].at \in Nat
      /\ probe[r].from <= probe[r].at /\ probe[r].at <= clock
  BY <1>0 DEF Replied, Timely, HealthTypeOK, ProbeType
<1>2. PICK status \in Statuses, seen \in Nat : status = probe[r].reply /\ seen = probe[r].at
  BY <1>1
<1>3. Settle(r, status, seen)
  BY <1>2 DEF Replied, Settle
<1>4. clock' = clock /\ UNCHANGED <<server, flips>> /\ hung' = hung
  BY DEF Replied
<1>. QED  BY <1>1, <1>2, <1>3, <1>4, EndInv

LEMMA TimeOutInv == ASSUME HealthInv, NEW r \in Requests, TimeOut(r) PROVE HealthInv'
<1>0. HealthTypeOK /\ Timely /\ Slots
  BY DEF HealthInv, Waits4
<1>1. probe[r].dep # "none" /\ ProbeDue(r)
  BY DEF TimeOut, ProbeDue
<1>2. clock \in Nat /\ probe[r].from \in Nat /\ probe[r].at \in Nat
  BY <1>0, NaturalValues
<1>3. probe[r].from <= clock
  BY <1>0, <1>1, <1>2 DEF Timely
<1>4. PICK seen \in Nat : seen = clock
  BY <1>2
<1>5. Settle(r, "disconnected", seen)
  BY <1>4 DEF TimeOut, Settle
<1>6. /\ clock' = clock /\ UNCHANGED <<server, flips>>
      /\ hung' = hung \/ (hung' = hung + 1 /\ probe[r].dep = "db")
  BY DEF TimeOut
<1>7. "disconnected" \in Statuses /\ seen <= clock /\ probe[r].from <= seen
  BY <1>2, <1>3, <1>4 DEF Statuses
<1>. QED  BY <1>1, <1>5, <1>6, <1>7, EndInv

LEMMA GiveUpInv == ASSUME HealthInv, NEW r \in Requests, GiveUp(r) PROVE HealthInv'
<1>0. /\ HealthTypeOK /\ Running /\ Slots /\ Waiting /\ Began /\ Timely /\ Cached /\ HungBefore
      /\ \A q \in Requests : Promised(req[q])
  BY DEF HealthInv, Waits4
<1>1. req' = [req EXCEPT ![r].answer = "timeout"] /\ req \in [Requests -> ReqType]
  BY <1>0 DEF GiveUp, HealthTypeOK
<1>2. \A q \in Requests :
         /\ req'[q].kind = req[q].kind /\ req'[q].at = req[q].at /\ req'[q].step = req[q].step
         /\ req'[q].of = req[q].of /\ req'[q].seen = req[q].seen
         /\ q # r => req'[q] = req[q]
  BY <1>1 DEF ReqType
<1>3. req' \in [Requests -> ReqType] /\ req'[r].answer = "timeout"
  BY <1>1 DEF ReqType, Answers
<1>4. UNCHANGED <<clock, server, flips, probe, inflight, cache, hung>>
  BY DEF GiveUp
<1>5. Typed' /\ hung' \in Nat /\ cache' \in [Deps -> CacheType]
  BY <1>0, <1>3, <1>4 DEF Typed, HealthTypeOK
<1>6. Running' /\ Slots'
  BY <1>0, <1>2, <1>4 DEF Running, Slots
<1>7. Waiting' /\ Began'
  BY <1>0, <1>2, <1>4 DEF Waiting, Began
<1>8. Timely' /\ Cached' /\ HungBefore'
  BY <1>0, <1>4 DEF Timely, Cached, HungBefore, Before
<1>9. ASSUME NEW q \in Requests PROVE Promised(req'[q])
  <2>1. CASE q = r
    <3>1. /\ req[r].step # "idle" /\ req[r].at + ReadyTimeout <= clock
      BY <1>0, Timeouts DEF GiveUp, ReadyDue, HealthTypeOK, ReqType
    <3>2. req'[r].answer = "timeout" /\ req'[r].step = req[r].step /\ req'[r].at = req[r].at
          /\ req'[r].kind = req[r].kind /\ req'[r].seen = req[r].seen /\ Promised(req[r])
      BY <1>2, <1>3, <1>0
    <3>. QED  BY <3>1, <3>2, <2>1 DEF Promised, Informed, Slack
  <2>. QED  BY <2>1, <1>2, <1>0
<1>. QED  BY <1>0, <1>4, <1>5, <1>6, <1>7, <1>8, <1>9, Rest DEF Waits4

LEMMA ServeInv == ASSUME HealthInv, NEW r \in Requests, Serve(r) PROVE HealthInv'
<1>0. /\ HealthTypeOK /\ Running /\ Slots /\ Waiting /\ Began /\ Timely /\ Cached /\ HungBefore
      /\ \A q \in Requests : Promised(req[q])
  BY DEF HealthInv, Waits4
<1>1. /\ probe' \in [Requests -> ProbeType] /\ probe[r].dep # "none"
      /\ probe'[r].dep = probe[r].dep /\ probe'[r].from = probe[r].from /\ probe'[r].at = clock
      /\ \A q \in Requests : q # r => probe'[q] = probe[q]
  <2>1. PICK reply \in {"connected", "disconnected"} :
           probe' = [probe EXCEPT ![r].at = clock, ![r].reply = reply]
    BY DEF Serve
  <2>. QED  BY <2>1, <1>0 DEF HealthTypeOK, ProbeType, Statuses, Serve
<1>2. UNCHANGED <<clock, server, flips, req, inflight, cache, hung>>
  BY DEF Serve
<1>3. \A q \in Requests : probe'[q].dep = probe[q].dep /\ probe'[q].from = probe[q].from
  BY <1>1
<1>w. \A q \in Requests : req[q].step \in Deps => req[q].of \in Requests
  BY <1>0 DEF Waiting, HealthTypeOK, ReqType
<1>f. \A d \in Deps : inflight[d] # None => inflight[d] \in Requests
  BY <1>0 DEF HealthTypeOK
<1>4. Typed' /\ hung' \in Nat /\ cache' \in [Deps -> CacheType]
  BY <1>0, <1>1, <1>2 DEF Typed, HealthTypeOK
<1>5. Running' /\ Slots'
  BY <1>0, <1>2, <1>3, <1>f DEF Running, Slots
<1>6. Waiting'
  BY <1>0, <1>2, <1>3, <1>w DEF Waiting
<1>7. Began'
  BY <1>0, <1>2, <1>3, <1>w DEF Began, Deps
<1>8. Timely'
  <2>. SUFFICES ASSUME NEW q \in Requests
                PROVE  IF probe'[q].dep = "none" THEN probe'[q].reply = "none" ELSE
                         /\ probe'[q].from <= probe'[q].at /\ probe'[q].at <= clock
                         /\ clock <= probe'[q].from + Timeout[probe'[q].dep]
    BY <1>2 DEF Timely
  <2>1. CASE q = r
    <3>1. /\ probe[r].from <= clock /\ clock <= probe[r].from + Timeout[probe[r].dep]
      <4>1. probe[r].from \in Nat /\ probe[r].at \in Nat /\ clock \in Nat
        BY <1>0, NaturalValues
      <4>. QED  BY <4>1, <1>0, <1>1 DEF Timely
    <3>2. clock <= clock
      BY <1>0 DEF HealthTypeOK
    <3>. QED  BY <3>1, <3>2, <2>1, <1>1
  <2>2. CASE q # r
    BY <2>2, <1>1, <1>0 DEF Timely
  <2>. QED  BY <2>1, <2>2
<1>9. Cached' /\ HungBefore'
  BY <1>0, <1>2, <1>3, <1>f DEF Cached, HungBefore, Before, Deps
<1>10. \A q \in Requests : Promised(req'[q])
  BY <1>0, <1>2
<1>. QED  BY <1>0, <1>2, <1>4, <1>5, <1>6, <1>7, <1>8, <1>9, <1>10, Rest DEF Waits4

\* The servers change nothing that requests hold; queries that end only leave.
LEMMA OutsideInv ==
  ASSUME HealthInv, (\E d \in Deps, to \in {"up", "down", "hangs"} : Flip(d, to)) \/ QueryEnds
  PROVE  HealthInv'
<1>0. /\ HealthTypeOK /\ Waits4 /\ Timely /\ Cached /\ HungBefore
      /\ \A q \in Requests : Promised(req[q])
  BY DEF HealthInv
<1>1. UNCHANGED <<clock, req, probe, inflight, cache>>
  BY DEF Flip, QueryEnds
<1>2. HealthTypeOK'
  <2>1. CASE \E d \in Deps, to \in {"up", "down", "hangs"} : Flip(d, to)
    BY <2>1, <1>0 DEF Flip, HealthTypeOK
  <2>2. CASE QueryEnds
    BY <2>2, <1>0 DEF QueryEnds, HealthTypeOK
  <2>. QED  BY <2>1, <2>2
<1>3. Waits4'
  BY <1>0, <1>1 DEF Waits4, Running, Slots, Waiting, Began
<1>4. Timely' /\ Cached'
  BY <1>0, <1>1 DEF Timely, Cached
<1>5. (\A q \in Requests : Promised(req[q]))'
  BY <1>0, <1>1 DEF Promised, Informed
<1>6. HungBefore'
  <2>1. Before' = Before
    BY <1>1 DEF Before
  <2>2. /\ hung \in Nat /\ hung * ReadyTimeout \in Nat /\ Before \in Nat
    BY <1>0, NaturalValues DEF Waits4
  <2>3. CASE hung' = hung
    BY <2>1, <2>3, <1>0 DEF HungBefore
  <2>4. CASE hung > 0 /\ hung' = hung - 1
    <3>1. hung' * ReadyTimeout = hung * ReadyTimeout - ReadyTimeout
      BY <2>4, <2>2, Timeouts
    <3>2. hung' * ReadyTimeout <= Before
      BY <3>1, <2>2, <1>0, Timeouts DEF HungBefore
    <3>. QED  BY <3>2, <2>1 DEF HungBefore
  <2>. QED  BY <2>3, <2>4 DEF Flip, QueryEnds
<1>. QED  BY <1>2, <1>3, <1>4, <1>5, <1>6 DEF HealthInv

LEMMA TickInv == ASSUME HealthInv, Tick PROVE HealthInv'
<1>0. /\ HealthTypeOK /\ Waits4 /\ Timely /\ Cached /\ HungBefore
      /\ \A q \in Requests : Promised(req[q])
  BY DEF HealthInv
<1>1. /\ clock' = clock + 1 /\ clock \in Nat
      /\ UNCHANGED <<server, flips, req, probe, inflight, cache, hung>>
  BY <1>0 DEF Tick, HealthTypeOK
<1>2. HealthTypeOK'
  BY <1>0, <1>1 DEF HealthTypeOK
<1>3. Waits4'
  BY <1>0, <1>1 DEF Waits4, Running, Slots, Waiting, Began
<1>4. Timely'
  <2>. SUFFICES ASSUME NEW q \in Requests
                PROVE  IF probe[q].dep = "none" THEN probe[q].reply = "none" ELSE
                         /\ probe[q].from <= probe[q].at /\ probe[q].at <= clock'
                         /\ clock' <= probe[q].from + Timeout[probe[q].dep]
    BY <1>1 DEF Timely
  <2>1. CASE probe[q].dep = "none"
    BY <2>1, <1>0 DEF Timely
  <2>2. CASE probe[q].dep # "none"
    <3>1. ~ProbeDue(q)
      BY DEF Tick
    <3>2. /\ probe[q].from \in Nat /\ probe[q].at \in Nat /\ Timeout[probe[q].dep] \in Nat
      BY <2>2, <1>0, Timeouts DEF HealthTypeOK, ProbeType
    <3>3. clock < probe[q].from + Timeout[probe[q].dep]
      BY <3>1, <3>2, <2>2, <1>1 DEF ProbeDue
    <3>4. probe[q].from <= probe[q].at /\ probe[q].at <= clock
      BY <2>2, <1>0 DEF Timely
    <3>. QED  BY <2>2, <3>2, <3>3, <3>4, <1>1
  <2>. QED  BY <2>1, <2>2
<1>5. Cached'
  <2>1. cache["db"] \in CacheType
    BY <1>0 DEF HealthTypeOK, Deps
  <2>. QED  BY <2>1, <1>0, <1>1 DEF Cached, CacheType
<1>6. (\A q \in Requests : Promised(req[q]))'
  <2>. SUFFICES ASSUME NEW q \in Requests PROVE Promised(req[q])'
    OBVIOUS
  <2>1. Promised(req[q]) /\ ~ReadyDue(q) /\ req[q] \in ReqType
    BY <1>0 DEF Tick, HealthTypeOK
  <2>2. /\ req[q].at \in Nat /\ req[q].at <= clock
        /\ req[q].answer = "timeout" => req[q].at + ReadyTimeout <= clock
        /\ req[q].kind = "ready" /\ req[q].answer = "none" /\ req[q].step # "idle"
              => clock < req[q].at + ReadyTimeout
    BY <2>1, <1>1, Timeouts DEF Promised, ReqType, ReadyDue
  <2>3. /\ req[q].at <= clock'
        /\ req[q].answer = "timeout" => req[q].at + ReadyTimeout <= clock'
        /\ req[q].kind = "ready" /\ req[q].answer = "none" /\ req[q].step # "idle"
              => clock' <= req[q].at + ReadyTimeout
    BY <2>2, <1>1, Timeouts
  <2>. QED  BY <2>1, <2>3, <1>1 DEF Promised, Informed
<1>7. HungBefore'
  <2>1. /\ hung * ReadyTimeout \in Nat /\ Before \in Nat
    BY <1>0, NaturalValues DEF Waits4
  <2>2. Before' \in {Before, Before + 1}
    BY <1>1 DEF Before
  <2>. QED  BY <2>1, <2>2, <1>0, <1>1 DEF HungBefore
<1>. QED  BY <1>2, <1>3, <1>4, <1>5, <1>6, <1>7 DEF HealthInv

-----------------------------------------------------------------------------
LEMMA HealthInvNext == HealthInv /\ [HealthNext]_health => HealthInv'
<1>. SUFFICES ASSUME HealthInv, [HealthNext]_health PROVE HealthInv'  OBVIOUS
<1>1. ASSUME NEW r \in Requests, NEW kind \in {"health", "ready"}, Arrive(r, kind) PROVE HealthInv'
  BY <1>1, ArriveInv
<1>2. ASSUME NEW r \in Requests, Replied(r) \/ TimeOut(r) \/ GiveUp(r) \/ Serve(r) PROVE HealthInv'
  BY <1>2, RepliedInv, TimeOutInv, GiveUpInv, ServeInv
<1>3. CASE (\E d \in Deps, to \in {"up", "down", "hangs"} : Flip(d, to)) \/ QueryEnds
  BY <1>3, OutsideInv
<1>4. CASE Tick
  BY <1>4, TickInv
<1>5. CASE UNCHANGED health
  <2>1. UNCHANGED <<clock, server, flips, req, probe, inflight, cache, hung>>
    BY <1>5 DEF health
  <2>2. HealthTypeOK'
    BY <2>1 DEF HealthInv, HealthTypeOK
  <2>3. Waits4'
    BY <2>1 DEF HealthInv, Waits4, Running, Slots, Waiting, Began
  <2>4. Timely' /\ Cached' /\ HungBefore'
    BY <2>1 DEF HealthInv, Timely, Cached, HungBefore, Before
  <2>5. (\A q \in Requests : Promised(req[q]))'
    BY <2>1 DEF HealthInv, Promised, Informed
  <2>. QED  BY <2>2, <2>3, <2>4, <2>5 DEF HealthInv
<1>. QED  BY <1>1, <1>2, <1>3, <1>4, <1>5 DEF HealthNext

\* The invariant of the argument above.
THEOREM HealthInvariant == HealthSpec => []HealthInv
<1>. QED  BY HealthInitInv, HealthInvNext, PTL DEF HealthSpec

\* Every variable of the health endpoints keeps its type.
THEOREM HealthTypeCorrect == HealthSpec => []HealthTypeOK
<1>1. HealthInv => HealthTypeOK
  BY DEF HealthInv
<1>. QED  BY <1>1, HealthInvariant, PTL

LEMMA FreshByInv == HealthInv => AnswersAreFresh
<1>. SUFFICES ASSUME HealthInv, NEW r \in Requests
              PROVE  /\ req[r].answer \in {"200", "503"} =>
                          req[r].seen + ReadyTimeout
                            + (IF req[r].kind = "ready" THEN 0 ELSE CacheTTL) >= req[r].at
                     /\ req[r].answer = "timeout" => clock >= req[r].at + ReadyTimeout
  BY DEF AnswersAreFresh
<1>1. Promised(req[r]) /\ req[r].at \in Nat /\ req[r].seen \in Nat /\ clock \in Nat
  BY DEF HealthInv, HealthTypeOK, ReqType
<1>. QED  BY <1>1, Timeouts DEF Promised, Informed, Slack

\* What an answer tells was observed at most one probe, and for /health one
\* caching time, before the request came (HealthService.probeDatabase).
THEOREM AnswersStayFresh == HealthSpec => []AnswersAreFresh
<1>. QED  BY FreshByInv, HealthInvariant, PTL

LEMMA InTimeByInv == HealthInv => AnswersInTime
<1>. SUFFICES ASSUME HealthInv, NEW r \in Requests, req[r].step # "idle", req[r].answer = "none"
              PROVE  clock <= req[r].at + ReadyTimeout +
                       IF req[r].kind = "health" /\ req[r].step = "redis"
                       THEN RedisTimeout ELSE 0
  BY DEF AnswersInTime
<1>1. /\ HealthTypeOK /\ Waiting /\ Began /\ Timely /\ Promised(req[r])
      /\ req[r] \in ReqType /\ clock \in Nat
  BY DEF HealthInv, Waits4, HealthTypeOK
<1>2. req[r].at \in Nat /\ req[r].step \in Deps /\ req[r].kind \in {"health", "ready"}
  BY <1>1 DEF ReqType, Promised
<1>3. CASE req[r].kind = "ready"
  BY <1>1, <1>2, <1>3, Timeouts DEF Promised
<1>4. CASE req[r].kind = "health"
  <2>1. req[r].of \in Requests /\ probe[req[r].of].dep = req[r].step
    BY <1>1, <1>2 DEF Waiting, ReqType
  <2>2. /\ probe[req[r].of].from \in Nat
        /\ clock <= probe[req[r].of].from + Timeout[req[r].step]
    BY <2>1, <1>1, <1>2 DEF Timely, HealthTypeOK, ProbeType, Deps
  <2>3. CASE req[r].step = "db"
    BY <2>2, <2>3, <1>1, <1>2, Timeouts DEF Began
  <2>4. CASE req[r].step = "redis"
    BY <2>2, <2>4, <1>1, <1>2, <1>4, Timeouts DEF Began
  <2>. QED  BY <2>3, <2>4, <1>2 DEF Deps
<1>. QED  BY <1>2, <1>3, <1>4

\* /ready answers within its timeout; /health waits for the database no longer
\* than one probe takes, and then for Redis no longer than one of that.
THEOREM AnswersComeInTime == HealthSpec => []AnswersInTime
<1>. QED  BY InTimeByInv, HealthInvariant, PTL

LEMMA FewByInv == HealthInv => ProbesDoNotPileUp
<1>. SUFFICES ASSUME HealthInv PROVE ProbesDoNotPileUp  OBVIOUS
<1>1. ASSUME NEW d \in Deps PROVE Cardinality({r \in Requests : probe[r].dep = d}) <= 1
  <2>1. {r \in Requests : probe[r].dep = d} \subseteq {inflight[d]}
    BY DEF HealthInv, Waits4, Running, Deps
  <2>2. IsFiniteSet({inflight[d]}) /\ Cardinality({inflight[d]}) = 1
    BY FS_Singleton
  <2>3. Cardinality({r \in Requests : probe[r].dep = d}) <= Cardinality({inflight[d]})
    BY <2>1, <2>2, FS_Subset
  <2>. QED  BY <2>2, <2>3
<1>2. hung * ReadyTimeout <= clock
  <2>1. HealthTypeOK /\ Slots /\ Timely /\ HungBefore
    BY DEF HealthInv, Waits4
  <2>2. /\ clock \in Nat /\ hung * ReadyTimeout \in Nat /\ Before \in Nat
        /\ \A r \in Requests : probe[r].from \in Nat /\ probe[r].at \in Nat
    BY <2>1, NaturalValues
  <2>3. Before <= clock
    <3>1. CASE inflight["db"] = None
      BY <3>1, <2>2 DEF Before
    <3>2. CASE inflight["db"] # None
      <4>1. inflight["db"] \in Requests /\ probe[inflight["db"]].dep = "db"
        BY <3>2, <2>1 DEF Slots, HealthTypeOK, Deps
      <4>2. probe[inflight["db"]].from <= clock
        BY <4>1, <2>1, <2>2 DEF Timely
      <4>. QED  BY <4>2, <3>2 DEF Before
    <3>. QED  BY <3>1, <3>2
  <2>. QED  BY <2>1, <2>2, <2>3 DEF HungBefore
<1>. QED  BY <1>1, <1>2 DEF ProbesDoNotPileUp

\* One probe of each server at a time, and no more hanging queries than
\* timeouts have passed.
THEOREM ProbesStayFew == HealthSpec => []ProbesDoNotPileUp
<1>. QED  BY FewByInv, HealthInvariant, PTL

-----------------------------------------------------------------------------
(***************************************************************************)
(* The two together.  The process goes its way whatever is asked of it, so *)
(* what holds of it holds here (ServerImplementsProcess).  The promises of *)
(* the health endpoints hold up to the end of the process and, with nobody *)
(* left to answer, after it.  Redis is probed only where the settings name *)
(* one (Consistent), and those have passed the checks by then.             *)
(***************************************************************************)

Consistent ==
    /\ server["redis"] = "unset" <=> ~ProbesRedis(env)
    /\ \A r \in Requests : probe[r].dep = "redis" => server["redis"] # "unset"

\* No request and no probe outside the time of service.
OnlyServing ==
    step # "serving" => /\ req = [r \in Requests |-> NoRequest]
                        /\ probe = [r \in Requests |-> NoProbe]

ServerInv == ProcessInv /\ HealthInv /\ Consistent /\ OnlyServing

\* The requests of a process that has ended are forgotten.
LEMMA ForgetInv == ASSUME HealthInv, Forget PROVE HealthInv'
<1>0. /\ clock \in Nat /\ clock' = clock /\ server' = server /\ flips' = flips /\ hung' = 0
      /\ req' = [r \in Requests |-> NoRequest] /\ probe' = [r \in Requests |-> NoProbe]
      /\ inflight' = [d \in Deps |-> None] /\ cache' = [d \in Deps |-> NoCache]
  BY DEF Forget, HealthInv, HealthTypeOK
<1>1. HealthTypeOK'
  BY <1>0 DEF HealthInv, HealthTypeOK, ReqType, ProbeType, CacheType, NoRequest, NoProbe, NoCache,
              Statuses, Answers, Deps
<1>2. Waits4'
  BY <1>0, NoneIsNobody DEF Waits4, Running, Slots, Waiting, Began, NoRequest, NoProbe, Deps
<1>3. Timely' /\ Cached'
  BY <1>0 DEF Timely, Cached, NoRequest, NoProbe, NoCache, Deps
<1>4. (\A q \in Requests : Promised(req[q]))'
  BY <1>0 DEF Promised, Informed, NoRequest
<1>5. HungBefore'
  BY <1>0, Timeouts DEF HungBefore, Before, Deps
<1>. QED  BY <1>1, <1>2, <1>3, <1>4, <1>5 DEF HealthInv

\* Whoever is probed is configured: who turns to Redis finds it so.
LEMMA RedisConfigured ==
  ASSUME HealthInv, Consistent, HealthNext, NEW r \in Requests, probe'[r].dep = "redis"
  PROVE  server["redis"] # "unset"
<1>0. /\ probe \in [Requests -> ProbeType]
      /\ probe[r].dep = "redis" => server["redis"] # "unset"
  BY DEF HealthInv, HealthTypeOK, Consistent
<1>1. ASSUME NEW asking, NEW asked, NEW left, NEW slot, AskRedis(asking, asked, left, slot),
             left \in [Requests -> ProbeType], left[r].dep = "redis" => server["redis"] # "unset"
      PROVE  server["redis"] # "unset"
  BY <1>1 DEF AskRedis
<1>2. CASE \E q \in Requests, kind \in {"health", "ready"} : Arrive(q, kind)
  <2>1. PICK q \in Requests, kind \in {"health", "ready"} : Arrive(q, kind)
    BY <1>2
  <2>2. CASE Usable(kind)
    BY <1>0, <1>1, <2>1, <2>2 DEF Arrive
  <2>3. CASE ~Usable(kind)
    BY <1>0, <2>1, <2>3 DEF Arrive, Begin
  <2>. QED  BY <2>2, <2>3
<1>3. ASSUME NEW q \in Requests, NEW status, NEW seen, Settle(q, status, seen)
      PROVE  server["redis"] # "unset"
  <2>1. [probe EXCEPT ![q] = NoProbe] \in [Requests -> ProbeType]
    BY <1>0 DEF ProbeType, NoProbe, Statuses
  <2>2. [probe EXCEPT ![q] = NoProbe][r].dep = "redis" => server["redis"] # "unset"
    BY <1>0 DEF NoProbe
  <2>3. \/ probe' = [probe EXCEPT ![q] = NoProbe]
        \/ \E asking, asked, slot : AskRedis(asking, asked, [probe EXCEPT ![q] = NoProbe], slot)
    BY <1>3 DEF Settle
  <2>. QED  BY <1>1, <2>1, <2>2, <2>3
<1>4. CASE \E q \in Requests : Replied(q) \/ TimeOut(q)
  BY <1>3, <1>4 DEF Replied, TimeOut
<1>5. CASE \E q \in Requests : Serve(q)
  BY <1>0, <1>5 DEF Serve
<1>6. CASE UNCHANGED probe
  BY <1>0, <1>6
<1>. QED  BY <1>2, <1>4, <1>5, <1>6 DEF HealthNext, GiveUp, Flip, QueryEnds, Tick

\* A server is configured for good.
LEMMA ConfiguredStays ==
  ASSUME HealthInv, HealthNext
  PROVE  server'["redis"] = "unset" <=> server["redis"] = "unset"
<1>1. server \in [Deps -> {"up", "down", "hangs", "unset"}]
  BY DEF HealthInv, HealthTypeOK
<1>2. CASE \E d \in Deps, to \in {"up", "down", "hangs"} : Flip(d, to)
  BY <1>1, <1>2 DEF Flip, Deps
<1>3. CASE UNCHANGED server
  BY <1>3
<1>. QED  BY <1>2, <1>3 DEF HealthNext, Arrive, Replied, TimeOut, GiveUp, Serve, QueryEnds, Tick

LEMMA ServerInitInv == ServerInit(Deployments) => ServerInv
<1>. SUFFICES ASSUME ServerInit(Deployments) PROVE ServerInv  OBVIOUS
<1>1. ProcessInv /\ HealthInv
  BY ProcessInitInv, HealthInitInv DEF ServerInit
<1>2. Consistent /\ OnlyServing
  BY DEF ServerInit, HealthInit, Consistent, OnlyServing, NoProbe
<1>. QED  BY <1>1, <1>2 DEF ServerInv

LEMMA ServerInvNext == ServerInv /\ [ServerNext]_apiServer => ServerInv'
<1>. SUFFICES ASSUME ServerInv, [ServerNext]_apiServer PROVE ServerInv'  OBVIOUS
<1>0. ProcessInv /\ HealthInv /\ Consistent /\ OnlyServing
  BY DEF ServerInv
<1>1. CASE ProcessNext /\ step' = "ended" /\ Forget
  <2>1. ProcessInv' /\ HealthInv'
    BY <1>0, <1>1, ProcessInvNext, ForgetInv
  <2>2. env' = env
    BY <1>1 DEF ProcessNext, Check, CreateFails, Listen, gracefulShutdown, uncaughtException, Signal,
                CloseEnds, HardExit
  <2>3. ProbesRedis(env') <=> ProbesRedis(env)
    BY <2>2
  <2>4. Consistent' /\ OnlyServing'
    BY <1>0, <1>1, <2>2, <2>3 DEF Consistent, OnlyServing, Forget, NoProbe
  <2>. QED  BY <2>1, <2>4 DEF ServerInv
<1>2. CASE ProcessNext /\ step' # "ended" /\ UNCHANGED health
  <2>1. ProcessInv'
    BY <1>0, <1>2, ProcessInvNext
  <2>2. HealthInv'
    BY <1>0, <1>2, HealthInvNext
  <2>3. env' = env
    BY <1>2 DEF ProcessNext, Check, CreateFails, Listen, gracefulShutdown, uncaughtException, Signal,
                CloseEnds, HardExit
  <2>4. Consistent'
    BY <1>0, <1>2, <2>3 DEF Consistent, health
  <2>5. step = "serving" => step' = "serving"
    BY <1>2, Places13 DEF ProcessNext, Check, CreateFails, Listen, gracefulShutdown,
                uncaughtException, Signal, CloseEnds, HardExit, Exit
  <2>6. OnlyServing'
    BY <1>0, <1>2, <2>5 DEF OnlyServing, health
  <2>. QED  BY <2>1, <2>2, <2>4, <2>6 DEF ServerInv
<1>3. CASE HealthNext /\ step = "serving" /\ UNCHANGED process
  <2>1. ProcessInv' /\ HealthInv'
    BY <1>0, <1>3, ProcessInvNext, HealthInvNext
  <2>2. env' = env /\ step' = "serving"
    BY <1>3 DEF process
  <2>3. Consistent'
    BY <1>0, <1>3, <2>2, RedisConfigured, ConfiguredStays DEF Consistent
  <2>4. OnlyServing'
    BY <2>2 DEF OnlyServing
  <2>. QED  BY <2>1, <2>3, <2>4 DEF ServerInv
<1>4. CASE UNCHANGED apiServer
  <2>1. UNCHANGED process /\ UNCHANGED health
    BY <1>4 DEF apiServer
  <2>2. ProcessInv' /\ HealthInv'
    BY <1>0, <2>1, ProcessInvNext, HealthInvNext
  <2>3. Consistent' /\ OnlyServing'
    BY <1>0, <2>1 DEF Consistent, OnlyServing, process, health
  <2>. QED  BY <2>2, <2>3 DEF ServerInv
<1>. QED  BY <1>1, <1>2, <1>3, <1>4 DEF ServerNext, Live, Answer

\* The invariant of the argument above.
THEOREM ServerInvariant == ServerSpec => []ServerInv
<1>. QED  BY ServerInitInv, ServerInvNext, PTL DEF ServerSpec

\* Seen without its requests, the server is the process: every step is one of
\* the process or leaves it alone, under the same fairness.
THEOREM ServerImplementsProcess == ServerSpec => ProcessSpec
<1>1. ServerInit(Deployments) => ProcessInit(Deployments)
  BY DEF ServerInit
<1>2. [ServerNext]_apiServer => [ProcessNext]_process
  BY DEF ServerNext, Live, Answer, apiServer
<1>. QED  BY <1>1, <1>2, PTL DEF ServerSpec, ProcessSpec

\* What a client is told, how long it waits and how many probes run: as long as
\* the process serves, and whatever ends it.
THEOREM ServerKeepsItsPromises ==
  ServerSpec => [](ServesOnlyWhenSound /\ FaultIsReported
                    /\ AnswersAreFresh /\ AnswersInTime /\ ProbesDoNotPileUp)
<1>1. ServerInv => AnswersAreFresh /\ AnswersInTime /\ ProbesDoNotPileUp
  BY FreshByInv, InTimeByInv, FewByInv DEF ServerInv
<1>. QED  BY <1>1, ServerInvariant, ServerImplementsProcess, OnlySoundServes, FaultsAreReported, PTL

\* A probe of Redis that a client waits for asks the very server that the queue
\* uses, in a process that was started with sound settings (probeRedisConnection
\* and resolveRedisOptions read the settings each in its own way).
THEOREM ProbesAskTheQueuesRedis ==
  ServerSpec => [](\A r \in Requests : probe[r].dep = "redis" =>
                     Sound(env) /\ ProbeTarget(env) = resolveRedisOptions(env))
<1>1. ServerInv /\ ServesOnlyWhenSound =>
        \A r \in Requests : probe[r].dep = "redis" =>
          Sound(env) /\ ProbeTarget(env) = resolveRedisOptions(env)
  <2>. SUFFICES ASSUME ServerInv, ServesOnlyWhenSound, NEW r \in Requests, probe[r].dep = "redis"
                PROVE  Sound(env) /\ ProbeTarget(env) = resolveRedisOptions(env)
    OBVIOUS
  <2>1. step = "serving"
    BY DEF ServerInv, OnlyServing, NoProbe
  <2>2. ProbesRedis(env)
    BY DEF ServerInv, Consistent
  <2>3. Alive /\ At(step) >= At("import")
    BY <2>1, Places13 DEF Alive
  <2>. QED  BY <2>1, <2>2, <2>3 DEF ServesOnlyWhenSound
<1>. QED  BY <1>1, ServerInvariant, ServerKeepsItsPromises, PTL
=============================================================================
