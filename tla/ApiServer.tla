------------------------------ MODULE ApiServer -------------------------------
(***************************************************************************)
(* The API process with its health endpoints: requests come while it       *)
(* serves, and what they wait for, and what is known of the servers, is in *)
(* its memory and goes with it.  Queries that were given up on go with     *)
(* their connections.                                                      *)
(***************************************************************************)
EXTENDS ApiProcess, HealthProbes

apiServer == <<process, health>>

\* Redis is probed where the settings name one.
ServerInit(settings) ==
    /\ ProcessInit(settings)
    /\ HealthInit
    /\ server["redis"] = "unset" <=> ~ProbesRedis(env)

\* The requests and what is known of the servers go with the process.
Forget ==
    /\ req' = [r \in Requests |-> NoRequest]
    /\ probe' = [r \in Requests |-> NoProbe]
    /\ inflight' = [d \in Deps |-> None]
    /\ cache' = [d \in Deps |-> NoCache]
    /\ hung' = 0
    /\ UNCHANGED <<clock, server, flips>>

Live ==
    /\ ProcessNext
    /\ IF step' = "ended" THEN Forget ELSE UNCHANGED health

Answer == HealthNext /\ step = "serving" /\ UNCHANGED process

ServerNext == Live \/ Answer

ServerSpec == ServerInit(Deployments) /\ [][ServerNext]_apiServer /\ ProcessFairness

=============================================================================
