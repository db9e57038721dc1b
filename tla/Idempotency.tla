---------------------------- MODULE Idempotency ----------------------------
(***************************************************************************)
(* The idempotency middleware of the tool pipeline                         *)
(* (packages/mcp-tools/src/middleware/idempotency.ts): concurrent calls    *)
(* that carry the same idempotency key race through a Serializable         *)
(* "acquire" transaction on one row, the winner runs the handler, and      *)
(* the outcome is written back by a plain UPDATE by primary key.           *)
(*                                                                         *)
(* A key stands for the composite primary key (idempotencyKey, tenantId).  *)
(* Time is abstracted to the three ages the code tells apart: "fresh",     *)
(* "stale" (createdAt older than IDEMPOTENCY_STALE_PENDING_THRESHOLD_MS)   *)
(* and "expired" (expiresAt passed).  createdAt and expiresAt are always   *)
(* written together, so one age is enough.                                 *)
(***************************************************************************)
EXTENDS Naturals, FiniteSets

CONSTANTS
    Keys,        \* (idempotencyKey, tenantId) pairs
    Reqs,        \* tool calls that reach the middleware with a key
    Tools, Callers, Inputs,
    Ops,         \* the operations the calls ask for
    MaxRetries,  \* IDEMPOTENCY_MAX_RETRIES
    NoRecord,    \* no row for this key
    NoReq        \* the NULL of the result column

ASSUME OpsAssumption == Ops \subseteq [tool : Tools, caller : Callers, input : Inputs]
ASSUME MaxRetriesAssumption == MaxRetries \in Nat \ {0}
ASSUME NullsAssumption ==
    /\ NoReq \notin Reqs
    /\ NoRecord \notin [op : Ops, status : {"pending", "completed", "failed"},
                        age : {"fresh", "stale", "expired"}, result : Reqs \cup {NoReq}]

VARIABLES
    rec,      \* the idempotency_record table
    call,     \* what each call asks for; never changes
    pc,       \* where each call is in the middleware
    view,     \* the row as the call's last read of it returned it
    dirty,    \* the row was written since the call's snapshot was taken
    attempt,  \* the loop counter of the acquire or the update loop
    outcome,  \* what the handler did
    reply,    \* the ToolResult the caller received
    effects,  \* history: calls whose side effect was committed for a key since it was last free
    slack,    \* history: events that weakened the guarantee for a key (see README)
    claimant  \* history: the call that last took the record

vars == <<rec, call, pc, view, dirty, attempt, outcome, reply, effects, slack, claimant>>

Statuses == {"pending", "completed", "failed"}
Ages == {"fresh", "stale", "expired"}
Records == [op : Ops, status : Statuses, age : Ages, result : Reqs \cup {NoReq}]
Phases == {"idle", "find", "commit", "reread", "existing",
           "run", "persist", "fallback", "done", "crashed"}
Outcomes == {"none", "completed", "failed", "threw"}
Replies == {"none", "result", "failure", "replayed", "key_mismatch", "in_progress",
            "stale_pending", "contention", "unavailable", "rejected"}

TypeOK ==
    /\ rec \in [Keys -> Records \cup {NoRecord}]
    /\ call \in [Reqs -> [key : Keys, op : Ops]]
    /\ pc \in [Reqs -> Phases]
    /\ view \in [Reqs -> Records \cup {NoRecord}]
    /\ dirty \in [Reqs -> BOOLEAN]
    /\ attempt \in [Reqs -> 0 .. MaxRetries - 1]
    /\ outcome \in [Reqs -> Outcomes]
    /\ reply \in [Reqs -> Replies]
    /\ effects \in [Keys -> SUBSET Reqs]
    /\ slack \in [Keys -> Nat]
    /\ claimant \in [Keys -> Reqs \cup {NoReq}]

CallsInit ==
    /\ call \in [Reqs -> [key : Keys, op : Ops]]
    /\ pc = [r \in Reqs |-> "idle"]
    /\ view = [r \in Reqs |-> NoRecord]
    /\ dirty = [r \in Reqs |-> FALSE]
    /\ attempt = [r \in Reqs |-> 0]
    /\ outcome = [r \in Reqs |-> "none"]
    /\ reply = [r \in Reqs |-> "none"]
    /\ effects = [k \in Keys |-> {}]
    /\ slack = [k \in Keys |-> 0]
    /\ claimant = [k \in Keys |-> NoReq]

Init == rec = [k \in Keys |-> NoRecord] /\ CallsInit

----------------------------------------------------------------------------
(* Predicates on a row *)

KeyOf(r) == call[r].key
OpOf(r) == call[r].op

IsSameCaller(v, op) == v.op.caller = op.caller

IsExpired(v) == v.age = "expired"

CanClaimAnyCaller(v, op) ==        \* variant: the caller identity is not compared
    v.op.input = op.input /\ v.op.tool = op.tool

CanClaimRecord(v, op) ==
    /\ v.op.input = op.input
    /\ v.op.tool = op.tool
    /\ IsSameCaller(v, op)

\* A failed row, or a pending row its owner seems to have abandoned.
IsAbandonedNoAge(v) == v.status \in {"failed", "pending"}   \* variant: the age is not looked at

IsAbandoned(v) ==
    \/ v.status = "failed"
    \/ v.status = "pending" /\ v.age = "stale"

Row(op, s, a, q) == [op |-> op, status |-> s, age |-> a, result |-> q]

\* create, and the UPDATE of the reset branches: it does not touch the result.
PendingRecord(op) == Row(op, "pending", "fresh", NoReq)
Reclaimed(v) == Row(v.op, "pending", "fresh", v.result)

\* The UPDATE of updateIdempotencyRecordWithRetry for the outcome o of call q.
Settled(v, o, q) ==
    IF o = "completed" THEN Row(v.op, "completed", v.age, q) ELSE Row(v.op, "failed", v.age, NoReq)

\* The calls that run, or have run, the handler and still write the outcome.
Executing == {"run", "persist", "fallback"}
Executors(k) == {r \in Reqs : KeyOf(r) = k /\ pc[r] \in Executing}

\* Every committed write of a row makes the open snapshots of it out of date.
DirtyAfterWrite(k, r) ==
    [q \in Reqs |-> IF q # r /\ KeyOf(q) = k /\ pc[q] = "commit" THEN TRUE ELSE dirty[q]]

Answer(r, a) ==
    /\ pc' = [pc EXCEPT ![r] = "done"]
    /\ reply' = [reply EXCEPT ![r] = a]

----------------------------------------------------------------------------
(* acquireIdempotencyRecord: one Serializable transaction per attempt.     *)
(* The snapshot is taken by the read (BeginAcquire); the branch taken is   *)
(* decided on that snapshot; the write is validated when it is applied.    *)

\* The call enters the middleware.
Arrive(r) ==
    /\ pc[r] = "idle"
    /\ pc' = [pc EXCEPT ![r] = "find"]
    /\ UNCHANGED <<rec, call, view, dirty, attempt, outcome, reply, effects, slack, claimant>>

\* Malformed key, unhashable input or no store: answered without touching the row.
RejectUpfront(r) ==
    /\ pc[r] = "idle"
    /\ Answer(r, "rejected")
    /\ UNCHANGED <<rec, call, view, dirty, attempt, outcome, effects, slack, claimant>>

BeginAcquire(r) ==
    /\ pc[r] = "find"
    /\ view' = [view EXCEPT ![r] = rec[KeyOf(r)]]
    /\ dirty' = [dirty EXCEPT ![r] = FALSE]
    /\ pc' = [pc EXCEPT ![r] = "commit"]
    /\ UNCHANGED <<rec, call, attempt, outcome, reply, effects, slack, claimant>>

\* The row changes a call's transaction can commit: what the branches of the
\* transaction write, and the history that goes with each of them.
WriteNew(r, k) ==
    /\ view[r] = NoRecord
    /\ rec[k] = NoRecord
    /\ rec' = [rec EXCEPT ![k] = PendingRecord(OpOf(r))]
    /\ UNCHANGED <<effects, slack>>

WriteOverExpired(r, k) ==
    /\ view[r] # NoRecord
    /\ IsExpired(view[r])
    /\ ~dirty[r]
    /\ rec' = [rec EXCEPT ![k] = PendingRecord(OpOf(r))]
    /\ effects' = [effects EXCEPT ![k] = {}]
    /\ slack' = [slack EXCEPT ![k] = 0]

WriteClaim(r, k) ==
    /\ view[r] # NoRecord
    /\ ~IsExpired(view[r])
    /\ IsAbandoned(view[r])
    /\ CanClaimRecord(view[r], OpOf(r))
    /\ ~dirty[r]
    /\ rec[k] # NoRecord
    /\ rec' = [rec EXCEPT ![k] = Reclaimed(rec[k])]
    /\ slack' = IF view[r].status = "pending" /\ view[r].age = "stale"
                THEN [slack EXCEPT ![k] = @ + 1] ELSE slack
    /\ UNCHANGED effects

AcquireWrite(r, k) ==
    /\ WriteNew(r, k) \/ WriteOverExpired(r, k) \/ WriteClaim(r, k)
    /\ dirty' = DirtyAfterWrite(k, r)
    /\ claimant' = [claimant EXCEPT ![k] = r]

\* The transaction created or reset the row: this call runs the handler.
Acquire(r) ==
    /\ pc[r] = "commit"
    /\ AcquireWrite(r, KeyOf(r))
    /\ pc' = [pc EXCEPT ![r] = "run"]
    /\ attempt' = [attempt EXCEPT ![r] = 0]
    /\ view' = [view EXCEPT ![r] = NoRecord]
    /\ UNCHANGED <<call, outcome, reply>>

\* None of the branches writes: the row that was read is the answer.
ReturnExisting(r) ==
    /\ pc[r] = "commit"
    /\ view[r] # NoRecord
    /\ ~IsExpired(view[r])
    /\ ~(IsAbandoned(view[r]) /\ CanClaimRecord(view[r], OpOf(r)))
    /\ pc' = [pc EXCEPT ![r] = "existing"]
    /\ UNCHANGED <<rec, call, view, dirty, attempt, outcome, reply, effects, slack, claimant>>

\* P2002: the row appeared between the read and the INSERT.
UniqueViolation(r) ==
    /\ pc[r] = "commit"
    /\ view[r] = NoRecord
    /\ rec[KeyOf(r)] # NoRecord
    /\ pc' = [pc EXCEPT ![r] = "reread"]
    /\ UNCHANGED <<rec, call, view, dirty, attempt, outcome, reply, effects, slack, claimant>>

\* Variant: the loop counter of the retry is not advanced.
RetryAcquireForever(r, giveUp) ==
    /\ pc' = [pc EXCEPT ![r] = "find"]
    /\ UNCHANGED <<attempt, reply>>

RetryAcquire(r, giveUp) ==
    \/ /\ attempt[r] < MaxRetries - 1
       /\ attempt' = [attempt EXCEPT ![r] = @ + 1]
       /\ pc' = [pc EXCEPT ![r] = "find"]
       /\ UNCHANGED reply
    \/ /\ attempt[r] = MaxRetries - 1
       /\ Answer(r, giveUp)
       /\ UNCHANGED attempt

\* P2034: PostgreSQL aborts the transaction.  It must when the row it writes
\* has changed since the snapshot, and may at any other time.
SerializationFailure(r) ==
    /\ pc[r] = "commit"
    /\ RetryAcquire(r, "contention")
    /\ view' = [view EXCEPT ![r] = NoRecord]
    /\ UNCHANGED <<rec, call, dirty, outcome, effects, slack, claimant>>

\* readIdempotencyRecord after P2002 finds a row that is still in force.
RereadHit(r) ==
    /\ pc[r] = "reread"
    /\ rec[KeyOf(r)] # NoRecord
    /\ ~IsExpired(rec[KeyOf(r)])
    /\ view' = [view EXCEPT ![r] = rec[KeyOf(r)]]
    /\ pc' = [pc EXCEPT ![r] = "existing"]
    /\ UNCHANGED <<rec, call, dirty, attempt, outcome, reply, effects, slack, claimant>>

\* ... or no row, an expired row or an error, all of which it returns as null.
RereadMiss(r) ==
    /\ pc[r] = "reread"
    /\ RetryAcquire(r, "unavailable")
    /\ view' = [view EXCEPT ![r] = NoRecord]
    /\ UNCHANGED <<rec, call, dirty, outcome, effects, slack, claimant>>

\* Any other database error fails closed.
AcquireError(r) ==
    /\ pc[r] = "commit"
    /\ Answer(r, "unavailable")
    /\ view' = [view EXCEPT ![r] = NoRecord]
    /\ UNCHANGED <<rec, call, dirty, attempt, outcome, effects, slack, claimant>>

\* The connection is lost after COMMIT: the row is claimed, the call refused.
AcquireLostAck(r) ==
    /\ pc[r] = "commit"
    /\ AcquireWrite(r, KeyOf(r))
    /\ Answer(r, "unavailable")
    /\ view' = [view EXCEPT ![r] = NoRecord]
    /\ UNCHANGED <<call, attempt, outcome>>

----------------------------------------------------------------------------
(* handleExistingRecord *)

\* Variant: any completed row is replayed.
VerdictNoInputCheck(v, op, a) ==
    CASE v.op.tool # op.tool \/ ~IsSameCaller(v, op) -> "key_mismatch"
      [] v.status = "completed" -> "replayed"
      [] OTHER -> "in_progress"

\* a is the age of the row when the answer is computed.
Verdict(v, op, a) ==
    IF v.op.tool # op.tool \/ ~IsSameCaller(v, op) THEN "key_mismatch"
    ELSE IF v.op.input # op.input
         THEN IF v.status = "pending" /\ a # "fresh" THEN "stale_pending" ELSE "key_mismatch"
    ELSE IF v.status = "completed" THEN "replayed"
    ELSE "in_progress"

\* The row may have aged since it was read.
AgesFrom(a) == CASE a = "fresh" -> Ages [] a = "stale" -> {"stale", "expired"} [] OTHER -> {"expired"}

AnswerFromRecord(r) ==
    /\ pc[r] = "existing"
    /\ \E a \in AgesFrom(view[r].age) : Answer(r, Verdict(view[r], OpOf(r), a))
    /\ UNCHANGED <<rec, call, view, dirty, attempt, outcome, effects, slack, claimant>>

----------------------------------------------------------------------------
(* executeAndUpdate and updateIdempotencyRecordWithRetry *)

\* The handler commits its writes and returns success.
HandlerSucceeds(r) ==
    /\ pc[r] = "run"
    /\ effects' = [effects EXCEPT ![KeyOf(r)] = @ \cup {r}]
    /\ outcome' = [outcome EXCEPT ![r] = "completed"]
    /\ pc' = [pc EXCEPT ![r] = "persist"]
    /\ UNCHANGED <<rec, call, view, dirty, attempt, reply, slack, claimant>>

\* The handler reports a failure, or throws, having written nothing.
HandlerFails(r) ==
    /\ pc[r] = "run"
    /\ \E o \in {"failed", "threw"} : outcome' = [outcome EXCEPT ![r] = o]
    /\ pc' = [pc EXCEPT ![r] = "persist"]
    /\ UNCHANGED <<rec, call, view, dirty, attempt, reply, effects, slack, claimant>>

\* The handler's transaction commits and the handler throws all the same.
HandlerThrowsAfterCommit(r) ==
    /\ pc[r] = "run"
    /\ effects' = [effects EXCEPT ![KeyOf(r)] = @ \cup {r}]
    /\ outcome' = [outcome EXCEPT ![r] = "threw"]
    /\ slack' = [slack EXCEPT ![KeyOf(r)] = @ + 1]
    /\ pc' = [pc EXCEPT ![r] = "persist"]
    /\ UNCHANGED <<rec, call, view, dirty, attempt, reply, claimant>>

FinalReply(r) == IF outcome[r] = "completed" THEN "result" ELSE "failure"

\* The UPDATE names the row by its primary key only: neither the status it
\* had nor the call that claimed it is compared.
PersistWrite(r, k) ==
    /\ rec[k] # NoRecord
    /\ rec' = [rec EXCEPT ![k] = Settled(rec[k], outcome[r], r)]
    /\ dirty' = DirtyAfterWrite(k, r)

Persist(r) ==
    /\ pc[r] = "persist"
    /\ PersistWrite(r, KeyOf(r))
    /\ Answer(r, FinalReply(r))
    /\ UNCHANGED <<call, view, attempt, outcome, effects, slack, claimant>>

\* Variant: the bare "failed" update follows any outcome that was not persisted.
GiveUpPersistAlwaysFallback(r) ==
    pc' = [pc EXCEPT ![r] = "fallback"] /\ UNCHANGED reply

\* After the last attempt a thrown error still tries the bare "failed" update.
GiveUpPersist(r) ==
    IF outcome[r] = "threw"
    THEN pc' = [pc EXCEPT ![r] = "fallback"] /\ UNCHANGED reply
    ELSE Answer(r, FinalReply(r))

RetryPersist(r) ==
    \/ /\ attempt[r] < MaxRetries - 1
       /\ attempt' = [attempt EXCEPT ![r] = @ + 1]
       /\ UNCHANGED <<pc, reply>>
    \/ /\ attempt[r] = MaxRetries - 1
       /\ GiveUpPersist(r)
       /\ UNCHANGED attempt

\* A transient error, the row not written.
PersistError(r) ==
    /\ pc[r] = "persist"
    /\ RetryPersist(r)
    /\ UNCHANGED <<rec, call, view, dirty, outcome, effects, slack, claimant>>

\* The row is written but the acknowledgement is lost: the loop writes it again.
PersistLostAck(r) ==
    /\ pc[r] = "persist"
    /\ PersistWrite(r, KeyOf(r))
    /\ RetryPersist(r)
    /\ slack' = IF outcome[r] = "completed" THEN slack
                ELSE [slack EXCEPT ![KeyOf(r)] = @ + 1]
    /\ UNCHANGED <<call, view, outcome, effects, claimant>>

\* The fallback sets status and completedAt; it keeps the stored result.
Fallback(r) ==
    /\ pc[r] = "fallback"
    /\ rec[KeyOf(r)] # NoRecord
    /\ LET v == rec[KeyOf(r)]
       IN  rec' = [rec EXCEPT ![KeyOf(r)] = Row(v.op, "failed", v.age, v.result)]
    /\ dirty' = DirtyAfterWrite(KeyOf(r), r)
    /\ Answer(r, "failure")
    /\ UNCHANGED <<call, view, attempt, outcome, effects, slack, claimant>>

FallbackError(r) ==
    /\ pc[r] = "fallback"
    /\ Answer(r, "failure")
    /\ UNCHANGED <<rec, call, view, dirty, attempt, outcome, effects, slack, claimant>>

----------------------------------------------------------------------------
(* The environment: crashes and the passing of time *)

\* The process that serves the call dies; nothing it holds in memory survives.
Crash(r) ==
    /\ pc[r] \notin {"idle", "done", "crashed"}
    /\ pc' = [pc EXCEPT ![r] = "crashed"]
    /\ UNCHANGED <<rec, call, view, dirty, attempt, outcome, reply, effects, slack, claimant>>

\* A minute passes without a write of the row.
GrowStale(k) ==
    /\ rec[k] # NoRecord
    /\ rec[k].age = "fresh"
    /\ rec' = [rec EXCEPT ![k] = Row(@.op, @.status, "stale", @.result)]
    /\ UNCHANGED <<call, pc, view, dirty, attempt, outcome, reply, effects, slack, claimant>>

\* A day passes.  No handler runs that long (TX_TIMEOUT_MS bounds its work).
Expire(k) ==
    /\ rec[k] # NoRecord
    /\ rec[k].age = "stale"
    /\ Executors(k) = {}
    /\ rec' = [rec EXCEPT ![k] = Row(@.op, @.status, "expired", @.result)]
    /\ UNCHANGED <<call, pc, view, dirty, attempt, outcome, reply, effects, slack, claimant>>

----------------------------------------------------------------------------
\* What the event loop runs for a call once it has arrived.  Only the cleanup
\* job takes rows away: a write that finds its row gone is in IdempotencyCleanup.
Step(r) ==
    \/ BeginAcquire(r) \/ Acquire(r) \/ ReturnExisting(r) \/ UniqueViolation(r)
    \/ SerializationFailure(r) \/ RereadHit(r) \/ RereadMiss(r)
    \/ AcquireError(r) \/ AcquireLostAck(r) \/ AnswerFromRecord(r)
    \/ HandlerSucceeds(r) \/ HandlerFails(r) \/ HandlerThrowsAfterCommit(r)
    \/ Persist(r) \/ PersistError(r) \/ PersistLostAck(r)
    \/ Fallback(r) \/ FallbackError(r)

Next ==
    \/ \E r \in Reqs : Arrive(r) \/ RejectUpfront(r) \/ Step(r) \/ Crash(r)
    \/ \E k \in Keys : GrowStale(k) \/ Expire(k)

Spec == Init /\ [][Next]_vars

FairSpec == Spec /\ \A r \in Reqs : WF_vars(Step(r))

----------------------------------------------------------------------------
(* Properties *)

\* The handler only ever runs, and its outcome is only ever written, under a
\* row that was claimed for the same tool, caller and input (canClaimRecord
\* in every reset branch, whatever races with it).
ExecutorOwnsOperation ==
    \A r \in Reqs : pc[r] \in Executing =>
        /\ rec[KeyOf(r)] # NoRecord
        /\ rec[KeyOf(r)].op = OpOf(r)
        /\ ~IsExpired(rec[KeyOf(r)])

\* A replay hands back the result of a successful call with the same key,
\* tool, caller and input, never another operation's.
ReplayIsOwnResult ==
    \A r \in Reqs : reply[r] = "replayed" =>
        /\ view[r].result \in Reqs
        /\ call[view[r].result] = call[r]
        /\ outcome[view[r].result] = "completed"

\* The handler's side effect is committed at most once per key and TTL window,
\* plus once for each of the events that weaken the guarantee: a stale-pending
\* reclaim, a lost acknowledgement of a "failed" write, a throw after commit.
BoundedDuplication ==
    \A k \in Keys : Cardinality(effects[k]) <= 1 + slack[k]

\* The provable form of the same promise: with no such event, at most one.
AtMostOnce ==
    \A k \in Keys : slack[k] = 0 => \A r, q \in effects[k] : r = q

\* While nothing weakened the guarantee, a completed row stays completed with
\* the same result until its TTL has passed.
CompletedKept(k) ==
    (rec[k] # NoRecord /\ rec[k].status = "completed" /\ ~IsExpired(rec[k]) /\ slack'[k] = 0)
        => (rec'[k] # NoRecord /\ rec'[k].status = "completed" /\ rec'[k].result = rec[k].result)

CompletedIsFinal == [][\A k \in Keys : CompletedKept(k)]_vars

\* Every call that arrives is answered unless its process dies.
EveryCallAnswered ==
    \A r \in Reqs : pc[r] = "find" ~> pc[r] \in {"done", "crashed"}

(* A statement of the repository the code does not keep *)

\* idempotency.ts: "a record that has just been claimed by a live execution
\* must look fresh to everyone else", so that nobody resets it again within
\* the minute.
LiveClaimLooksFresh ==
    \A k \in Keys :
        (claimant[k] # NoReq /\ pc[claimant[k]] = "run" /\ rec[k] # NoRecord /\ rec[k].age = "fresh")
          => ~IsAbandoned(rec[k])
=============================================================================
