----------------------------- MODULE MCApiProcess ------------------------------
(***************************************************************************)
(* A process with its health endpoints: probes run while it serves.        *)
(***************************************************************************)
EXTENDS ApiServer, TLC

\* Deployments of each environment with up to two settings other than the
\* first of each list.
MCDefault == [v \in DOMAIN Settings |-> Settings[v][1]]
MCNames   == DOMAIN Settings \ {"NODE_ENV"}
MCSettings ==
    UNION {{[MCDefault EXCEPT !.NODE_ENV = n, ![v] = Settings[v][i], ![w] = Settings[w][j]] :
              n \in {"production", "development", "staging"},
              i \in 1..Len(Settings[v]), j \in 1..Len(Settings[w])} :
           v \in MCNames, w \in MCNames}

\* Requests are followed in two deployments, with Redis and without: the other
\* settings change nothing in them.
MCProbed == {MCDefault, [MCDefault EXCEPT !.NODE_ENV = "development", !.REDIS_HOST = "unset"]}

MCInit == ServerInit(MCSettings)

MCNext == Live \/ (Answer /\ env \in MCProbed)

MCSpec == MCInit /\ [][MCNext]_apiServer /\ ProcessFairness

=============================================================================
