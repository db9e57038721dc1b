------------------------- MODULE IdempotencyCleanup -------------------------
(***************************************************************************)
(* The out-of-band cleanup job                                             *)
(* (packages/database/scripts/cleanup-expired-idempotency.ts) running      *)
(* beside the idempotency middleware.  One run is one READ COMMITTED       *)
(* transaction: it takes a transaction-scoped advisory lock, fixes a       *)
(* cutoff, then alternates a SELECT of a batch of expired rows with a      *)
(* DELETE of that batch BY KEY.                                            *)
(***************************************************************************)
EXTENDS Idempotency

CONSTANTS Jobs, NoJob, BatchSize

ASSUME CleanupAssumption == NoJob \notin Jobs /\ BatchSize \in Nat \ {0}

VARIABLES
    jpc,      \* where each run of the script is
    lock,     \* the advisory lock
    due,      \* keys whose row had expired at the run's cutoff and is not yet claimed anew
    picked,   \* the batch the last SELECT returned: key -> row
    doomed    \* rows deleted, and locked, by the open transaction: key -> row as picked

jvars == <<jpc, lock, due, picked, doomed>>
cvars == <<vars, jvars>>

NoRows == [k \in {} |-> NoRecord]

JobsInit ==
    /\ jpc = [j \in Jobs |-> "idle"]
    /\ lock = NoJob
    /\ due = [j \in Jobs |-> {}]
    /\ picked = [j \in Jobs |-> NoRows]
    /\ doomed = NoRows

CleanupInit == Init /\ JobsInit

\* pg_try_advisory_xact_lock succeeds; the cutoff is taken once.
BeginCleanup(j) ==
    /\ jpc[j] = "idle"
    /\ lock = NoJob
    /\ lock' = j
    /\ due' = [due EXCEPT ![j] = {k \in Keys : rec[k] # NoRecord /\ IsExpired(rec[k])}]
    /\ jpc' = [jpc EXCEPT ![j] = "scan"]
    /\ UNCHANGED <<vars, picked, doomed>>

\* Another run holds the lock: exit without doing work.
SkipCleanup(j) ==
    /\ jpc[j] = "idle"
    /\ lock # NoJob
    /\ jpc' = [jpc EXCEPT ![j] = "done"]
    /\ UNCHANGED <<vars, lock, due, picked, doomed>>

\* Variant: a terminal row is taken whatever its age.
ReapableAnyAge(j) ==
    {k \in Keys \ DOMAIN doomed :
        k \in due[j] \/ (rec[k] # NoRecord /\ rec[k].status # "pending")}

\* Rows past the cutoff, terminal or abandoned: an expired pending row is a
\* day old, which is past the stale-pending cutoff too.
Reapable(j) == due[j] \ DOMAIN doomed

\* A batch is full, or it is all there is.
Scan(j) ==
    /\ jpc[j] = "scan"
    /\ \E S \in SUBSET Reapable(j) :
        /\ Cardinality(S) <= BatchSize
        /\ Cardinality(S) = BatchSize \/ S = Reapable(j)
        /\ picked' = [picked EXCEPT ![j] = [k \in S |-> rec[k]]]
        /\ jpc' = [jpc EXCEPT ![j] = IF S = {} THEN "commit" ELSE "delete"]
    /\ UNCHANGED <<vars, lock, due, doomed>>

\* Variant: one batch is all a run does.
DeleteOnce(j) ==
    /\ jpc[j] = "delete"
    /\ LET gone == {k \in DOMAIN picked[j] : rec[k] # NoRecord}
       IN  doomed' = [k \in gone \cup DOMAIN doomed |-> IF k \in gone THEN picked[j][k] ELSE doomed[k]]
    /\ jpc' = [jpc EXCEPT ![j] = "commit"]
    /\ UNCHANGED <<vars, lock, due, picked>>

\* The DELETE compares the primary key alone: a row the middleware has
\* re-created under a picked key since the SELECT is deleted with the rest.
Delete(j) ==
    /\ jpc[j] = "delete"
    /\ LET gone == {k \in DOMAIN picked[j] : rec[k] # NoRecord}
       IN  doomed' = [k \in gone \cup DOMAIN doomed |-> IF k \in gone THEN picked[j][k] ELSE doomed[k]]
    /\ jpc' = [jpc EXCEPT
           ![j] = IF Cardinality(DOMAIN picked[j]) = BatchSize THEN "scan" ELSE "commit"]
    /\ UNCHANGED <<vars, lock, due, picked>>

\* The deletions become visible and the lock is released.
CommitCleanup(j) ==
    /\ jpc[j] = "commit"
    /\ rec' = [k \in Keys |-> IF k \in DOMAIN doomed THEN NoRecord ELSE rec[k]]
    /\ dirty' = [q \in Reqs |-> dirty[q] \/ (KeyOf(q) \in DOMAIN doomed /\ pc[q] = "commit")]
    /\ effects' = [k \in Keys |->
           IF k \in DOMAIN doomed /\ IsExpired(rec[k]) THEN {} ELSE effects[k]]
    /\ slack' = [k \in Keys |->
           CASE k \in DOMAIN doomed /\ IsExpired(rec[k]) -> 0
             [] k \in DOMAIN doomed /\ ~IsExpired(rec[k]) /\ IsExpired(doomed[k]) -> slack[k] + 1
             [] OTHER -> slack[k]]
    /\ lock' = NoJob
    /\ doomed' = NoRows
    /\ picked' = [picked EXCEPT ![j] = NoRows]
    /\ due' = [due EXCEPT ![j] = {}]
    /\ jpc' = [jpc EXCEPT ![j] = "done"]
    /\ UNCHANGED <<call, pc, view, attempt, outcome, reply, claimant>>

\* The script dies or its transaction times out: everything rolls back.
AbortCleanup(j) ==
    /\ jpc[j] \in {"scan", "delete", "commit"}
    /\ lock' = NoJob
    /\ doomed' = NoRows
    /\ picked' = [picked EXCEPT ![j] = NoRows]
    /\ due' = [due EXCEPT ![j] = {}]
    /\ jpc' = [jpc EXCEPT ![j] = "failed"]
    /\ UNCHANGED vars

\* A call's write meets the deletion (P2025): the row is gone, retrying is futile.
PersistGone(r) ==
    /\ pc[r] = "persist"
    /\ rec[KeyOf(r)] = NoRecord
    /\ GiveUpPersist(r)
    /\ UNCHANGED <<rec, call, view, dirty, attempt, outcome, effects, slack, claimant, jvars>>

JobStep(j) == Scan(j) \/ Delete(j) \/ CommitCleanup(j)

\* A writer of a deleted row waits for the transaction that deleted it.  A row
\* that is claimed anew expires after the cutoff.
BesideJobs ==
    /\ \A k \in DOMAIN doomed : rec'[k] = rec[k]
    /\ due' = [j \in Jobs |-> {k \in due[j] : rec'[k] # NoRecord /\ IsExpired(rec'[k])}]
    /\ UNCHANGED <<jpc, lock, picked, doomed>>

CallStep(r) == (Step(r) /\ BesideJobs) \/ PersistGone(r)

CleanupNext ==
    \/ Next /\ BesideJobs
    \/ \E r \in Reqs : PersistGone(r)
    \/ \E j \in Jobs : BeginCleanup(j) \/ SkipCleanup(j) \/ JobStep(j) \/ AbortCleanup(j)

CleanupSpec == CleanupInit /\ [][CleanupNext]_cvars

CleanupFairSpec ==
    /\ CleanupSpec
    /\ \A j \in Jobs : WF_cvars(JobStep(j))
    /\ \A r \in Reqs : WF_cvars(CallStep(r))

----------------------------------------------------------------------------
(* Properties *)

\* AtMostOnce and BoundedDuplication must survive the job, slack counting its
\* one race.

\* A run that commits leaves no row behind that had expired at its cutoff, in
\* however many batches, and whatever the calls re-create between them: only a
\* row claimed anew meanwhile may stay (the loop of cleanup-expired-
\* idempotency.ts, "every batch deletes the same point-in-time snapshot").
SweepIsComplete ==
    [][\A j \in Jobs : jpc[j] = "commit" /\ jpc'[j] = "done"
          => \A k \in due[j] : rec'[k] = NoRecord]_cvars
=============================================================================
