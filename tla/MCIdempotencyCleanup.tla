----------------------- MODULE MCIdempotencyCleanup -----------------------
(* Instance of IdempotencyCleanup for TLC. *)
EXTENDS IdempotencyCleanup, TLC

CONSTANTS r1, r2, r3, k1, k2, j1, j2

MCReqs2 == {r1, r2}
MCReqs3 == {r1, r2, r3}
MCKeys1 == {k1}
MCKeys2 == {k1, k2}
MCJobs1 == {j1}
MCJobs2 == {j1, j2}
MCTools == {"t1"}
MCCallers == {"c1", "c2"}
MCInputs == {"i1"}
OneOp == [tool : MCTools, caller : {"c1"}, input : MCInputs]
TwoCallers == [tool : MCTools, caller : MCCallers, input : MCInputs]

\* Two calls of one key race with two runs of the job.  Or two rows have passed
\* their TTL, more than one batch holds, a state that two crashed or failed
\* calls and a day lead to, and one run of the job meets one call.
OverlapInit ==
    /\ CallsInit
    /\ JobsInit
    /\ KeyOf(r1) = k1
    /\ \/ KeyOf(r2) = k1 /\ rec = [k \in Keys |-> NoRecord]
       \/ /\ KeyOf(r2) = k2
          /\ rec \in [Keys -> [op : OneOp, status : {"failed", "pending"},
                              age : {"expired"}, result : {NoReq}]]

\* The second run of the job is started while the first is open: it finds the
\* lock taken.  Runs that follow each other share nothing but the rows.  The
\* calls are alike, so it is enough to let r1 be the first to begin; calls of
\* different keys share nothing, so that r1 is then enough.
Overlapping ==
    /\ jpc'[j2] # jpc[j2] => jpc[j1] \in {"scan", "delete", "commit"}
    /\ pc'[r2] # "idle" => pc'[r1] # "idle"
    /\ KeyOf(r2) # KeyOf(r1) => pc'[r2] = "idle" /\ jpc'[j2] = "idle"

OverlapNext ==
    \/ Next /\ BesideJobs /\ Overlapping
    \/ \E r \in Reqs : PersistGone(r)
    \/ \E j \in Jobs :
        (BeginCleanup(j) \/ SkipCleanup(j) \/ JobStep(j) \/ AbortCleanup(j)) /\ Overlapping

OverlapSpec ==
    /\ OverlapInit /\ [][OverlapNext]_cvars
    /\ \A j \in Jobs : WF_cvars(JobStep(j))
    /\ \A r \in Reqs : WF_cvars(CallStep(r))

SymReqs2 == Permutations(MCReqs2)
SymReqs3 == Permutations(MCReqs3)

\* The table holds a row of c1 whose TTL has passed, a state that a failed call,
\* a minute and a day lead to; one call is c1's, the others are c2's.
ExpiredInit ==
    /\ rec \in [Keys -> [op : OneOp, status : {"failed"}, age : {"expired"}, result : {NoReq}]]
    /\ CallsInit
    /\ JobsInit
    /\ Cardinality({r \in Reqs : OpOf(r) \in OneOp}) = 1

ExpiredSpec == ExpiredInit /\ [][CleanupNext]_cvars
=============================================================================
