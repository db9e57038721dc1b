------------------------------ MODULE AuditPool ------------------------------
(***************************************************************************)
(* What the backpressure manager of audit-log.ts promises its callers,     *)
(* without its counter, its queue or its timers: audit writes pass through *)
(* a pool of MaxWrites slots; an entry runs at most once; no slot is idle  *)
(* while an entry waits; and no entry waits for ever.                      *)
(***************************************************************************)
EXTENDS Naturals, FiniteSets

CONSTANTS
    Entries,        \* the audit entries handed to the pool
    MaxWrites       \* MAX_CONCURRENT_AUDIT_WRITES

VARIABLE pool       \* where each entry is

At(s) == {e \in Entries : pool[e] = s}

\* An entry only moves forward.
Later(s) ==
    IF s = "new" THEN {"new", "waiting", "running", "ended"}
    ELSE IF s = "waiting" THEN {"waiting", "running", "ended"}
    ELSE IF s = "running" THEN {"running", "ended"}
    ELSE {"ended"}

Busy(s) == Cardinality({e \in Entries : s[e] = "running"})

\* The slots are never oversubscribed, and all are taken while someone waits.
Conserving(s) ==
    /\ Busy(s) <= MaxWrites
    /\ (\E e \in Entries : s[e] = "waiting") => Busy(s) = MaxWrites

Init == pool = [e \in Entries |-> "new"]

Next ==
    /\ pool' \in [Entries -> {"new", "waiting", "running", "ended"}]
    /\ \A e \in Entries : pool'[e] \in Later(pool[e])
    /\ Conserving(pool')

NobodyWaitsForever ==
    \A e \in Entries : (pool[e] = "waiting") ~> (pool[e] # "waiting")

SafetySpec == Init /\ [][Next]_pool

Spec == SafetySpec /\ NobodyWaitsForever
=============================================================================
