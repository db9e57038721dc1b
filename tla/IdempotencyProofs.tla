------------------------- MODULE IdempotencyProofs -------------------------
(***************************************************************************)
(* Proofs about Idempotency and IdempotencyCleanup, for every set of keys, *)
(* calls, operations and runs of the job, and every retry bound.           *)
(***************************************************************************)
EXTENDS IdempotencyCleanup, FiniteSetTheorems, TLAPS

----------------------------------------------------------------------------
(* Rows, calls and types *)

LEMMA RecordFields ==
    ASSUME NEW v \in Records
    PROVE  /\ v # NoRecord
           /\ v.op \in Ops /\ v.status \in Statuses /\ v.age \in Ages /\ v.result \in Reqs \cup {NoReq}
BY NullsAssumption DEF Records, Statuses, Ages

\* The rows the middleware writes, column by column.
LEMMA PendingRow ==
    ASSUME NEW op \in Ops
    PROVE  /\ PendingRecord(op) \in Records
           /\ PendingRecord(op).op = op
           /\ PendingRecord(op).status = "pending"
           /\ PendingRecord(op).age = "fresh"
BY DEF PendingRecord, Row, Records, Statuses, Ages

LEMMA ReclaimedRow ==
    ASSUME NEW v \in Records
    PROVE  /\ Reclaimed(v) \in Records
           /\ Reclaimed(v).op = v.op
           /\ Reclaimed(v).status = "pending"
           /\ Reclaimed(v).age = "fresh"
BY DEF Reclaimed, Row, Records, Statuses, Ages

LEMMA SettledRow ==
    ASSUME NEW v \in Records, NEW o, NEW q \in Reqs
    PROVE  /\ Settled(v, o, q) \in Records
           /\ Settled(v, o, q).op = v.op
           /\ Settled(v, o, q).age = v.age
           /\ o = "completed" => Settled(v, o, q).status = "completed" /\ Settled(v, o, q).result = q
           /\ o # "completed" => Settled(v, o, q).status = "failed"
BY DEF Settled, Row, Records, Statuses, Ages

LEMMA FailedRow ==
    ASSUME NEW v \in Records
    PROVE  /\ Row(v.op, "failed", v.age, v.result) \in Records
           /\ Row(v.op, "failed", v.age, v.result).op = v.op
           /\ Row(v.op, "failed", v.age, v.result).status = "failed"
           /\ Row(v.op, "failed", v.age, v.result).age = v.age
BY DEF Row, Records, Statuses, Ages

LEMMA AgedRow ==
    ASSUME NEW v \in Records, NEW a \in Ages
    PROVE  /\ Row(v.op, v.status, a, v.result) \in Records
           /\ Row(v.op, v.status, a, v.result).op = v.op
           /\ Row(v.op, v.status, a, v.result).status = v.status
           /\ Row(v.op, v.status, a, v.result).age = a
           /\ Row(v.op, v.status, a, v.result).result = v.result
BY DEF Row, Records, Statuses, Ages

\* Two operations that agree on tool, caller and input are the same.
LEMMA OpEquality ==
    ASSUME NEW a \in Ops, NEW b \in Ops, a.tool = b.tool, a.caller = b.caller, a.input = b.input
    PROVE  a = b
<1>1. a \in [tool : Tools, caller : Callers, input : Inputs] /\ b \in [tool : Tools, caller : Callers, input : Inputs]
  BY OpsAssumption
<1>2. a = [tool |-> a.tool, caller |-> a.caller, input |-> a.input]
  BY <1>1
<1>3. b = [tool |-> b.tool, caller |-> b.caller, input |-> b.input]
  BY <1>1
<1> QED BY <1>2, <1>3

\* ... and a call is determined by its key and its operation.
LEMMA CallEquality ==
    ASSUME TypeOK, NEW r \in Reqs, NEW q \in Reqs, KeyOf(r) = KeyOf(q), OpOf(r) = OpOf(q)
    PROVE  call[r] = call[q]
<1>1. call[r] \in [key : Keys, op : Ops] /\ call[q] \in [key : Keys, op : Ops]
  BY DEF TypeOK
<1>2. call[r] = [key |-> KeyOf(r), op |-> OpOf(r)]
  BY <1>1 DEF KeyOf, OpOf
<1>3. call[q] = [key |-> KeyOf(q), op |-> OpOf(q)]
  BY <1>1 DEF KeyOf, OpOf
<1> QED BY <1>2, <1>3

LEMMA KeyType ==
    ASSUME TypeOK, NEW r \in Reqs
    PROVE  KeyOf(r) \in Keys /\ OpOf(r) \in Ops
BY DEF TypeOK, KeyOf, OpOf

\* The loop counters stay below the retry bound.
LEMMA RetryTypes ==
    ASSUME TypeOK, NEW r \in Reqs, NEW a \in Replies,
           RetryAcquire(r, a) \/ RetryPersist(r)
    PROVE  /\ attempt' \in [Reqs -> 0 .. MaxRetries - 1]
           /\ pc' \in [Reqs -> Phases]
           /\ reply' \in [Reqs -> Replies]
<1>1. MaxRetries \in Nat /\ pc \in [Reqs -> Phases] /\ reply \in [Reqs -> Replies]
      /\ attempt \in [Reqs -> 0 .. MaxRetries - 1]
  BY MaxRetriesAssumption DEF TypeOK
<1>2. FinalReply(r) \in Replies
  BY DEF FinalReply, Replies
<1>3. attempt[r] < MaxRetries - 1 => attempt[r] + 1 \in 0 .. MaxRetries - 1
  BY <1>1
<1>4. attempt' \in [Reqs -> 0 .. MaxRetries - 1]
  BY <1>1, <1>3 DEF RetryAcquire, RetryPersist
<1>5. pc' \in [Reqs -> Phases]
  BY <1>1 DEF RetryAcquire, RetryPersist, GiveUpPersist, Answer, Phases
<1>6. reply' \in [Reqs -> Replies]
  BY <1>1, <1>2 DEF RetryAcquire, RetryPersist, GiveUpPersist, Answer
<1> QED BY <1>4, <1>5, <1>6

\* The two row writes of a call keep the table and the history typed.
LEMMA WriteTypes ==
    ASSUME TypeOK, NEW r \in Reqs, AcquireWrite(r, KeyOf(r)) \/ PersistWrite(r, KeyOf(r))
    PROVE  rec' \in [Keys -> Records \cup {NoRecord}] /\ dirty' \in [Reqs -> BOOLEAN]
<1> DEFINE k == KeyOf(r)
<1>1. k \in Keys /\ OpOf(r) \in Ops
  BY KeyType
<1>2. dirty' \in [Reqs -> BOOLEAN]
  BY DEF AcquireWrite, PersistWrite, DirtyAfterWrite, TypeOK
<1>3. PICK w \in Records : rec' = [rec EXCEPT ![k] = w]
  <2>1. CASE WriteNew(r, k) \/ WriteOverExpired(r, k)
    <3>1. PendingRecord(OpOf(r)) \in Records
      BY <1>1, PendingRow
    <3> QED BY <2>1, <3>1 DEF WriteNew, WriteOverExpired
  <2>2. CASE WriteClaim(r, k)
    <3>1. rec[k] \in Records
      BY <1>1, <2>2 DEF WriteClaim, TypeOK
    <3> QED BY <1>1, <2>2, <3>1, ReclaimedRow DEF WriteClaim
  <2>3. CASE PersistWrite(r, k)
    <3>1. rec[k] \in Records
      BY <1>1, <2>3 DEF PersistWrite, TypeOK
    <3> QED BY <1>1, <2>3, <3>1, SettledRow DEF PersistWrite
  <2> QED BY <2>1, <2>2, <2>3 DEF AcquireWrite
<1> QED BY <1>1, <1>2, <1>3 DEF TypeOK

\* Every step of a call keeps the type invariant.
LEMMA StepType ==
    ASSUME TypeOK, NEW r \in Reqs, Arrive(r) \/ RejectUpfront(r) \/ Step(r) \/ Crash(r)
    PROVE  TypeOK'
<1>k. KeyOf(r) \in Keys /\ rec[KeyOf(r)] \in Records \cup {NoRecord}
  BY KeyType DEF TypeOK
<1>m. 0 \in 0 .. MaxRetries - 1
  BY MaxRetriesAssumption
<1>v. \A v, op, a : Verdict(v, op, a) \in Replies
  BY DEF Verdict, Replies
<1>f. FinalReply(r) \in Replies
  BY DEF FinalReply, Replies
<1>1. CASE Arrive(r) \/ BeginAcquire(r) \/ ReturnExisting(r) \/ UniqueViolation(r) \/ RereadHit(r) \/ Crash(r)
  BY <1>1, <1>k DEF TypeOK, Phases, Arrive, BeginAcquire, ReturnExisting, UniqueViolation, RereadHit, Crash
<1>2. CASE RejectUpfront(r) \/ AcquireError(r) \/ FallbackError(r)
  BY <1>2 DEF TypeOK, Phases, Replies, Answer, RejectUpfront, AcquireError, FallbackError
<1>3. CASE SerializationFailure(r) \/ RereadMiss(r)
  <2>1. attempt' \in [Reqs -> 0 .. MaxRetries - 1] /\ pc' \in [Reqs -> Phases] /\ reply' \in [Reqs -> Replies]
    BY <1>3, RetryTypes DEF SerializationFailure, RereadMiss, Replies
  <2> QED BY <1>3, <2>1 DEF TypeOK, SerializationFailure, RereadMiss
<1>4. CASE Acquire(r) \/ AcquireLostAck(r)
  <2>1. AcquireWrite(r, KeyOf(r))
    BY <1>4 DEF Acquire, AcquireLostAck
  <2>2. rec' \in [Keys -> Records \cup {NoRecord}] /\ dirty' \in [Reqs -> BOOLEAN]
    BY <2>1, WriteTypes
  <2>3. effects' \in [Keys -> SUBSET Reqs] /\ slack' \in [Keys -> Nat] /\ claimant' \in [Keys -> Reqs \cup {NoReq}]
    BY <2>1, <1>k DEF TypeOK, AcquireWrite, WriteNew, WriteOverExpired, WriteClaim
  <2>4. pc' \in [Reqs -> Phases] /\ reply' \in [Reqs -> Replies]
    <3>1. PICK x \in {"run", "done"} : pc' = [pc EXCEPT ![r] = x]
      BY <1>4 DEF Acquire, AcquireLostAck, Answer
    <3>2. reply' = reply \/ reply' = [reply EXCEPT ![r] = "unavailable"]
      BY <1>4 DEF Acquire, AcquireLostAck, Answer
    <3> QED BY <3>1, <3>2 DEF TypeOK, Phases, Replies
  <2>5. attempt' \in [Reqs -> 0 .. MaxRetries - 1]
    <3>1. attempt' = attempt \/ attempt' = [attempt EXCEPT ![r] = 0]
      BY <1>4 DEF Acquire, AcquireLostAck
    <3> QED BY <3>1, <1>m DEF TypeOK
  <2>6. view' \in [Reqs -> Records \cup {NoRecord}]
    BY <1>4 DEF TypeOK, Acquire, AcquireLostAck
  <2> QED BY <1>4, <2>2, <2>3, <2>4, <2>5, <2>6 DEF TypeOK, Acquire, AcquireLostAck
<1>5. CASE AnswerFromRecord(r)
  <2>1. pc' \in [Reqs -> Phases] /\ reply' \in [Reqs -> Replies]
    BY <1>5, <1>v DEF AnswerFromRecord, Answer, TypeOK, Phases
  <2> QED BY <1>5, <2>1 DEF AnswerFromRecord, TypeOK
<1>6. CASE HandlerSucceeds(r) \/ HandlerFails(r) \/ HandlerThrowsAfterCommit(r)
  <2>1. pc' \in [Reqs -> Phases] /\ outcome' \in [Reqs -> Outcomes]
    <3>1. PICK o \in Outcomes : outcome' = [outcome EXCEPT ![r] = o]
      BY <1>6 DEF HandlerSucceeds, HandlerFails, HandlerThrowsAfterCommit, Outcomes
    <3>2. pc' = [pc EXCEPT ![r] = "persist"]
      BY <1>6 DEF HandlerSucceeds, HandlerFails, HandlerThrowsAfterCommit
    <3> QED BY <3>1, <3>2 DEF TypeOK, Phases
  <2>2. effects' \in [Keys -> SUBSET Reqs] /\ slack' \in [Keys -> Nat]
    BY <1>6, <1>k DEF HandlerSucceeds, HandlerFails, HandlerThrowsAfterCommit, TypeOK
  <2> QED BY <1>6, <2>1, <2>2 DEF HandlerSucceeds, HandlerFails, HandlerThrowsAfterCommit, TypeOK
<1>7. CASE Persist(r)
  <2>1. rec' \in [Keys -> Records \cup {NoRecord}] /\ dirty' \in [Reqs -> BOOLEAN]
    BY <1>7, WriteTypes DEF Persist
  <2>2. pc' \in [Reqs -> Phases] /\ reply' \in [Reqs -> Replies]
    BY <1>7, <1>f DEF Persist, Answer, TypeOK, Phases
  <2> QED BY <1>7, <2>1, <2>2 DEF Persist, TypeOK
<1>8. CASE PersistError(r) \/ PersistLostAck(r)
  <2>1. /\ attempt' \in [Reqs -> 0 .. MaxRetries - 1]
        /\ pc' \in [Reqs -> Phases] /\ reply' \in [Reqs -> Replies]
    <3>1. "none" \in Replies /\ RetryPersist(r)
      BY <1>8 DEF PersistError, PersistLostAck, Replies
    <3> QED BY <3>1, RetryTypes
  <2>2. rec' \in [Keys -> Records \cup {NoRecord}] /\ dirty' \in [Reqs -> BOOLEAN]
    <3>1. CASE PersistError(r)
      BY <3>1 DEF PersistError, TypeOK
    <3>2. CASE PersistLostAck(r)
      BY <3>2, WriteTypes DEF PersistLostAck
    <3> QED BY <1>8, <3>1, <3>2
  <2>3. slack' \in [Keys -> Nat]
    BY <1>8, <1>k DEF PersistError, PersistLostAck, TypeOK
  <2> QED BY <1>8, <2>1, <2>2, <2>3 DEF PersistError, PersistLostAck, TypeOK
<1>9. CASE Fallback(r)
  <2>1. rec[KeyOf(r)] \in Records
    BY <1>9, <1>k DEF Fallback
  <2>2. rec' \in [Keys -> Records \cup {NoRecord}]
    BY <1>9, <2>1, FailedRow DEF Fallback, TypeOK
  <2>3. dirty' \in [Reqs -> BOOLEAN] /\ pc' \in [Reqs -> Phases] /\ reply' \in [Reqs -> Replies]
    BY <1>9 DEF Fallback, DirtyAfterWrite, Answer, TypeOK, Phases, Replies
  <2> QED BY <1>9, <2>2, <2>3 DEF Fallback, TypeOK
<1> QED BY <1>1, <1>2, <1>3, <1>4, <1>5, <1>6, <1>7, <1>8, <1>9 DEF Step

LEMMA TimeType ==
    ASSUME TypeOK, NEW k \in Keys, GrowStale(k) \/ Expire(k)
    PROVE  TypeOK'
<1>1. rec[k] \in Records
  BY DEF GrowStale, Expire, TypeOK
<1>2. rec' \in [Keys -> Records \cup {NoRecord}]
  BY <1>1, AgedRow DEF GrowStale, Expire, TypeOK, Ages
<1> QED BY <1>2 DEF GrowStale, Expire, TypeOK

\* Type correctness: the table, the phases and the loop counters of every
\* call stay within what the middleware can produce, and the retry counters
\* stay below IDEMPOTENCY_MAX_RETRIES.
THEOREM TypeCorrect == Spec => []TypeOK
<1>1. Init => TypeOK
  BY MaxRetriesAssumption DEF Init, CallsInit, TypeOK, Phases, Outcomes, Replies
<1>2. TypeOK /\ [Next]_vars => TypeOK'
  <2> SUFFICES ASSUME TypeOK, [Next]_vars PROVE TypeOK'
    OBVIOUS
  <2>1. CASE \E r \in Reqs : Arrive(r) \/ RejectUpfront(r) \/ Step(r) \/ Crash(r)
    BY <2>1, StepType
  <2>2. CASE \E k \in Keys : GrowStale(k) \/ Expire(k)
    BY <2>2, TimeType
  <2>3. CASE UNCHANGED vars
    BY <2>3 DEF vars, TypeOK
  <2> QED BY <2>1, <2>2, <2>3 DEF Next
<1> QED BY <1>1, <1>2, PTL DEF Spec
----------------------------------------------------------------------------
(* What the calls keep whether the cleanup job runs beside them or not.    *)
(* "At most one effect, plus one per weakening event" is a count of what   *)
(* may still happen as well as of what has: a call that may still commit   *)
(* the effect, or write "failed", and a row that is free to be claimed     *)
(* each stand for one effect to come (Balanced).  A claim over an expired  *)
(* row starts the count anew, which is right only because nothing runs     *)
(* under such a row (ExpiredUnused) and because a clean snapshot of it is  *)
(* what the row still is (SnapshotCurrent).                                *)

\* Apart from its age, an undisturbed snapshot is the row.
SnapshotCurrent ==
    \A r \in Reqs : (pc[r] = "commit" /\ ~dirty[r] /\ view[r] # NoRecord) =>
        /\ rec[KeyOf(r)] # NoRecord
        /\ rec[KeyOf(r)].op = view[r].op
        /\ rec[KeyOf(r)].status = view[r].status
        /\ IsExpired(view[r]) => IsExpired(rec[KeyOf(r)])

OutcomeKnown ==
    \A r \in Reqs :
        /\ pc[r] \notin {"persist", "fallback", "done", "crashed"} => outcome[r] = "none"
        /\ pc[r] = "fallback" => outcome[r] = "threw"

\* An answer is computed from a row, and ends the call.
AnswersKnown ==
    \A r \in Reqs :
        /\ pc[r] = "existing" => view[r] # NoRecord
        /\ reply[r] = "replayed" => pc[r] = "done"

ExpiredUnused ==
    \A r \in Reqs : (pc[r] \in Executing /\ rec[KeyOf(r)] # NoRecord) => ~IsExpired(rec[KeyOf(r)])

\* The calls that may still commit the effect or reopen the row.
Spends(r, k) ==
    /\ KeyOf(r) = k
    /\ \/ pc[r] = "run"
       \/ pc[r] \in {"persist", "fallback"} /\ outcome[r] # "completed"

Spenders(k) == {r \in Reqs : Spends(r, k)}

\* A row that a new call may claim.
Claimable(k) == IF rec[k] = NoRecord \/ rec[k].status = "failed" THEN 1 ELSE 0

Balanced(k) ==
    /\ IsFiniteSet(effects[k])
    /\ IsFiniteSet(Spenders(k))
    /\ Cardinality(effects[k]) + Cardinality(Spenders(k)) + Claimable(k) <= 1 + slack[k]

CallInv ==
    /\ TypeOK
    /\ SnapshotCurrent
    /\ OutcomeKnown
    /\ AnswersKnown
    /\ ExpiredUnused
    /\ \A k \in Keys : Balanced(k)

\* Sets that lose elements, or gain or lose one.
LEMMA CardShrinks ==
    ASSUME NEW S, IsFiniteSet(S), NEW T, T \subseteq S
    PROVE  IsFiniteSet(T) /\ Cardinality(T) \in Nat /\ Cardinality(S) \in Nat /\ Cardinality(T) <= Cardinality(S)
BY FS_Subset, FS_CardinalityType

LEMMA CardGrows ==
    ASSUME NEW S, IsFiniteSet(S), NEW x, NEW T, T \subseteq S \cup {x}
    PROVE  /\ IsFiniteSet(T) /\ Cardinality(T) \in Nat /\ Cardinality(S) \in Nat
           /\ Cardinality(T) <= Cardinality(S) + 1
<1>1. IsFiniteSet(S \cup {x}) /\ Cardinality(S) \in Nat /\ Cardinality(S \cup {x}) <= Cardinality(S) + 1
  <2>1. Cardinality(S) \in Nat
    BY FS_CardinalityType
  <2>2. /\ IsFiniteSet(S \cup {x})
        /\ Cardinality(S \cup {x}) = IF x \in S THEN Cardinality(S) ELSE Cardinality(S) + 1
    BY FS_AddElement, Zenon
  <2> QED BY <2>1, <2>2
<1>2. /\ IsFiniteSet(T) /\ Cardinality(T) \in Nat /\ Cardinality(S \cup {x}) \in Nat
      /\ Cardinality(T) <= Cardinality(S \cup {x})
  BY <1>1, CardShrinks
<1> QED BY <1>1, <1>2

LEMMA CardLoses ==
    ASSUME NEW S, IsFiniteSet(S), NEW x \in S, NEW T, T \subseteq S \ {x}
    PROVE  /\ IsFiniteSet(T) /\ Cardinality(T) \in Nat /\ Cardinality(S) \in Nat
           /\ Cardinality(T) + 1 <= Cardinality(S)
<1>1. IsFiniteSet(S \ {x}) /\ Cardinality(S) \in Nat /\ Cardinality(S \ {x}) = Cardinality(S) - 1
  BY FS_RemoveElement, FS_CardinalityType
<1> QED BY <1>1, CardShrinks

LEMMA BalanceType ==
    ASSUME TypeOK, NEW k \in Keys
    PROVE  slack[k] \in Nat /\ Claimable(k) \in {0, 1}
BY DEF TypeOK, Claimable

\* A step that adds nothing to either set, nor to the row's claimability
\* beyond what slack allows, keeps the balance.
LEMMA BalanceShrinks ==
    ASSUME TypeOK, TypeOK', NEW k \in Keys, Balanced(k),
           effects'[k] \subseteq effects[k], Spenders(k)' \subseteq Spenders(k),
           Claimable(k)' + slack[k] <= Claimable(k) + slack'[k]
    PROVE  Balanced(k)'
<1>1. slack[k] \in Nat /\ Claimable(k) \in {0, 1}
  BY BalanceType
<1>2. slack'[k] \in Nat /\ Claimable(k)' \in {0, 1}
  BY DEF TypeOK, Claimable
<1>3. /\ IsFiniteSet(effects'[k]) /\ IsFiniteSet(Spenders(k)')
      /\ Cardinality(effects'[k]) \in Nat /\ Cardinality(effects[k]) \in Nat
      /\ Cardinality(Spenders(k)') \in Nat /\ Cardinality(Spenders(k)) \in Nat
      /\ Cardinality(effects'[k]) <= Cardinality(effects[k])
      /\ Cardinality(Spenders(k)') <= Cardinality(Spenders(k))
  BY CardShrinks DEF Balanced
<1>4. Cardinality(effects[k]) + Cardinality(Spenders(k)) + Claimable(k) <= 1 + slack[k]
  BY DEF Balanced
<1> QED BY <1>1, <1>2, <1>3, <1>4 DEF Balanced

\* ... and so does one that counts one more call, or one more effect, and has
\* the row claimed or the slack grown for it.
LEMMA BalanceGrows ==
    ASSUME TypeOK, TypeOK', NEW k \in Keys, NEW r, Balanced(k),
           \/ effects'[k] \subseteq effects[k] /\ Spenders(k)' \subseteq Spenders(k) \cup {r}
           \/ effects'[k] \subseteq effects[k] \cup {r} /\ Spenders(k)' \subseteq Spenders(k),
           Claimable(k)' + 1 + slack[k] <= Claimable(k) + slack'[k]
    PROVE  Balanced(k)'
<1>1. slack[k] \in Nat /\ Claimable(k) \in {0, 1}
  BY BalanceType
<1>2. slack'[k] \in Nat /\ Claimable(k)' \in {0, 1}
  BY DEF TypeOK, Claimable
<1>3. /\ IsFiniteSet(effects'[k]) /\ IsFiniteSet(Spenders(k)')
      /\ Cardinality(effects'[k]) \in Nat /\ Cardinality(effects[k]) \in Nat
      /\ Cardinality(Spenders(k)') \in Nat /\ Cardinality(Spenders(k)) \in Nat
      /\ Cardinality(effects'[k]) + Cardinality(Spenders(k)')
            <= Cardinality(effects[k]) + Cardinality(Spenders(k)) + 1
  <2>1. IsFiniteSet(effects[k]) /\ IsFiniteSet(Spenders(k))
    BY DEF Balanced
  <2>2. CASE effects'[k] \subseteq effects[k] /\ Spenders(k)' \subseteq Spenders(k) \cup {r}
    <3>1. /\ IsFiniteSet(effects'[k]) /\ Cardinality(effects'[k]) \in Nat /\ Cardinality(effects[k]) \in Nat
          /\ Cardinality(effects'[k]) <= Cardinality(effects[k])
      BY <2>1, <2>2, CardShrinks
    <3>2. /\ IsFiniteSet(Spenders(k)') /\ Cardinality(Spenders(k)') \in Nat /\ Cardinality(Spenders(k)) \in Nat
          /\ Cardinality(Spenders(k)') <= Cardinality(Spenders(k)) + 1
      BY <2>1, <2>2, CardGrows
    <3> QED BY <3>1, <3>2
  <2>3. CASE effects'[k] \subseteq effects[k] \cup {r} /\ Spenders(k)' \subseteq Spenders(k)
    <3>1. /\ IsFiniteSet(effects'[k]) /\ Cardinality(effects'[k]) \in Nat /\ Cardinality(effects[k]) \in Nat
          /\ Cardinality(effects'[k]) <= Cardinality(effects[k]) + 1
      BY <2>1, <2>3, CardGrows
    <3>2. /\ IsFiniteSet(Spenders(k)') /\ Cardinality(Spenders(k)') \in Nat /\ Cardinality(Spenders(k)) \in Nat
          /\ Cardinality(Spenders(k)') <= Cardinality(Spenders(k))
      BY <2>1, <2>3, CardShrinks
    <3> QED BY <3>1, <3>2
  <2> QED BY <2>2, <2>3
<1>4. Cardinality(effects[k]) + Cardinality(Spenders(k)) + Claimable(k) <= 1 + slack[k]
  BY DEF Balanced
<1> QED BY <1>1, <1>2, <1>3, <1>4 DEF Balanced

\* A call that gives up its claim to the effect pays for the effect it has
\* committed, or for the row it leaves open.
LEMMA BalancePays ==
    ASSUME TypeOK, TypeOK', NEW k \in Keys, NEW r \in Spenders(k), Balanced(k),
           Spenders(k)' \subseteq Spenders(k) \ {r}, slack'[k] = slack[k],
           \/ effects'[k] \subseteq effects[k] \cup {r} /\ Claimable(k)' = Claimable(k)
           \/ effects'[k] \subseteq effects[k]
    PROVE  Balanced(k)'
<1>1. slack[k] \in Nat /\ Claimable(k) \in {0, 1}
  BY BalanceType
<1>2. Claimable(k)' \in {0, 1}
  BY DEF Claimable
<1>3. /\ IsFiniteSet(Spenders(k)')
      /\ Cardinality(Spenders(k)') \in Nat /\ Cardinality(Spenders(k)) \in Nat
      /\ Cardinality(Spenders(k)') + 1 <= Cardinality(Spenders(k))
  BY CardLoses DEF Balanced
<1>4. Cardinality(effects[k]) + Cardinality(Spenders(k)) + Claimable(k) <= 1 + slack[k]
  BY DEF Balanced
<1>5. IsFiniteSet(effects[k])
  BY DEF Balanced
<1>6. CASE effects'[k] \subseteq effects[k] \cup {r} /\ Claimable(k)' = Claimable(k)
  <2>1. /\ IsFiniteSet(effects'[k])
        /\ Cardinality(effects'[k]) \in Nat /\ Cardinality(effects[k]) \in Nat
        /\ Cardinality(effects'[k]) <= Cardinality(effects[k]) + 1
    BY <1>5, <1>6, CardGrows
  <2> QED BY <1>1, <1>3, <1>4, <1>6, <2>1 DEF Balanced
<1>7. CASE effects'[k] \subseteq effects[k]
  <2>1. /\ IsFiniteSet(effects'[k])
        /\ Cardinality(effects'[k]) \in Nat /\ Cardinality(effects[k]) \in Nat
        /\ Cardinality(effects'[k]) <= Cardinality(effects[k])
    BY <1>5, <1>7, CardShrinks
  <2> QED BY <1>1, <1>2, <1>3, <1>4, <2>1 DEF Balanced
<1> QED BY <1>6, <1>7
----------------------------------------------------------------------------
(* Steps that write neither the table nor the history: reading the row,    *)
(* failing to write it, answering, dying.                                  *)

Settling == {"persist", "fallback", "done", "crashed"}

Quiet(r) ==
    /\ UNCHANGED <<rec, call, outcome, effects, slack>>
    /\ \A q \in Reqs \ {r} :
          pc'[q] = pc[q] /\ view'[q] = view[q] /\ dirty'[q] = dirty[q] /\ reply'[q] = reply[q]
    /\ pc'[r] # "run"
    /\ pc'[r] = "persist" => pc[r] = "persist"
    /\ pc'[r] = "fallback" => pc[r] = "persist" /\ outcome[r] = "threw"
    /\ pc'[r] \notin Settling => pc[r] \notin Settling
    /\ view'[r] \in {view[r], NoRecord, rec[KeyOf(r)]}
    /\ pc'[r] = "commit" => view'[r] = rec[KeyOf(r)]
    /\ pc'[r] = "existing" => view'[r] # NoRecord
    /\ reply'[r] = "replayed" =>
          /\ pc'[r] = "done"
          /\ view'[r] = view[r]
          /\ view[r] # NoRecord
          /\ view[r].status = "completed"
          /\ view[r].op = OpOf(r)

LEMMA QuietActions ==
    ASSUME CallInv, NEW r \in Reqs,
           \/ Arrive(r) \/ RejectUpfront(r) \/ Crash(r)
           \/ BeginAcquire(r) \/ ReturnExisting(r) \/ UniqueViolation(r)
           \/ SerializationFailure(r) \/ RereadHit(r) \/ RereadMiss(r)
           \/ AcquireError(r) \/ AnswerFromRecord(r)
           \/ PersistError(r) \/ FallbackError(r)
    PROVE  Quiet(r)
<1>t. /\ pc \in [Reqs -> Phases] /\ reply \in [Reqs -> Replies]
      /\ view \in [Reqs -> Records \cup {NoRecord}] /\ dirty \in [Reqs -> BOOLEAN]
  BY DEF CallInv, TypeOK
<1>a. pc[r] # "done" => reply[r] # "replayed"
  BY DEF CallInv, AnswersKnown
<1>1. CASE Arrive(r) \/ Crash(r) \/ ReturnExisting(r) \/ UniqueViolation(r)
  BY <1>1, <1>t, <1>a DEF Arrive, Crash, ReturnExisting, UniqueViolation, Quiet, Settling
<1>2. CASE RejectUpfront(r) \/ AcquireError(r) \/ FallbackError(r)
  BY <1>2, <1>t, <1>a DEF RejectUpfront, AcquireError, FallbackError, Answer, Quiet, Settling
<1>3. CASE BeginAcquire(r) \/ RereadHit(r)
  BY <1>3, <1>t, <1>a DEF BeginAcquire, RereadHit, Quiet, Settling
<1>4. CASE SerializationFailure(r) \/ RereadMiss(r)
  BY <1>4, <1>t, <1>a DEF SerializationFailure, RereadMiss, RetryAcquire, Answer, Quiet, Settling
<1>5. CASE AnswerFromRecord(r)
  <2>1. PICK a \in AgesFrom(view[r].age) : Answer(r, Verdict(view[r], OpOf(r), a))
    BY <1>5 DEF AnswerFromRecord
  <2>2. view[r] # NoRecord /\ view[r].op \in Ops /\ OpOf(r) \in Ops
    BY <1>5, RecordFields, KeyType DEF AnswerFromRecord, CallInv, AnswersKnown, TypeOK
  <2>3. ASSUME Verdict(view[r], OpOf(r), a) = "replayed"
        PROVE  view[r].status = "completed" /\ view[r].op = OpOf(r)
    <3>1. view[r].op.tool = OpOf(r).tool /\ view[r].op.caller = OpOf(r).caller
      BY <2>3 DEF Verdict, IsSameCaller
    <3>2. view[r].op.input = OpOf(r).input
      BY <2>3, <3>1 DEF Verdict, IsSameCaller
    <3>3. view[r].status = "completed"
      BY <2>3, <3>1, <3>2 DEF Verdict, IsSameCaller
    <3> QED BY <2>2, <3>1, <3>2, <3>3, OpEquality
  <2> QED BY <1>5, <1>t, <2>1, <2>2, <2>3 DEF AnswerFromRecord, Answer, Quiet, Settling
<1>6. CASE PersistError(r)
  <2>1. FinalReply(r) # "replayed"
    BY DEF FinalReply
  <2> QED BY <1>6, <1>t, <1>a, <2>1 DEF PersistError, RetryPersist, GiveUpPersist, Answer, Quiet, Settling
<1> QED BY <1>1, <1>2, <1>3, <1>4, <1>5, <1>6

\* Writing the outcome after the row is gone is a quiet step too.
LEMMA GiveUpQuiet ==
    ASSUME CallInv, NEW r \in Reqs, PersistGone(r)
    PROVE  Quiet(r)
<1>1. /\ pc \in [Reqs -> Phases] /\ reply \in [Reqs -> Replies]
      /\ reply[r] # "replayed" /\ FinalReply(r) # "replayed"
  BY DEF CallInv, TypeOK, AnswersKnown, PersistGone, FinalReply
<1> QED BY <1>1 DEF PersistGone, GiveUpPersist, Answer, Quiet, Settling

LEMMA QuietKeeps ==
    ASSUME CallInv, TypeOK', NEW r \in Reqs, Quiet(r)
    PROVE  CallInv'
<1>k. \A q \in Reqs : KeyOf(q) \in Keys /\ KeyOf(q)' = KeyOf(q)
  BY KeyType DEF CallInv, Quiet, KeyOf
<1>1. SnapshotCurrent'
  BY <1>k DEF CallInv, SnapshotCurrent, Quiet, IsExpired
<1>2. OutcomeKnown'
  BY DEF CallInv, OutcomeKnown, Quiet, Settling
<1>3. AnswersKnown'
  BY DEF CallInv, AnswersKnown, Quiet
<1>4. ExpiredUnused'
  BY <1>k DEF CallInv, ExpiredUnused, Quiet, Executing, IsExpired
<1>5. ASSUME NEW k \in Keys PROVE Balanced(k)'
  <2>1. Spenders(k)' \subseteq Spenders(k)
    BY <1>k DEF Spenders, Spends, Quiet
  <2>2. effects'[k] = effects[k] /\ Claimable(k)' = Claimable(k) /\ slack'[k] = slack[k]
    BY DEF Quiet, Claimable
  <2>3. slack[k] \in Nat /\ Claimable(k) \in {0, 1} /\ Balanced(k)
    BY BalanceType DEF CallInv
  <2> QED BY <2>1, <2>2, <2>3, BalanceShrinks DEF CallInv
<1> QED BY <1>1, <1>2, <1>3, <1>4, <1>5 DEF CallInv

----------------------------------------------------------------------------
(* The acquire transaction commits a write. *)

LEMMA AcquireKeeps ==
    ASSUME CallInv, TypeOK', NEW r \in Reqs, Acquire(r) \/ AcquireLostAck(r)
    PROVE  CallInv'
<1> DEFINE k == KeyOf(r)
<1>1. pc[r] = "commit" /\ AcquireWrite(r, k)
  BY DEF Acquire, AcquireLostAck
<1>2. /\ UNCHANGED <<call, outcome>>
      /\ pc' = [pc EXCEPT ![r] = "run"] \/ pc' = [pc EXCEPT ![r] = "done"]
      /\ view' = [view EXCEPT ![r] = NoRecord]
      /\ reply' = reply \/ reply' = [reply EXCEPT ![r] = "unavailable"]
      /\ dirty' = DirtyAfterWrite(k, r)
  BY <1>1 DEF Acquire, AcquireLostAck, Answer, AcquireWrite
<1>3. /\ pc \in [Reqs -> Phases] /\ view \in [Reqs -> Records \cup {NoRecord}]
      /\ reply \in [Reqs -> Replies] /\ dirty \in [Reqs -> BOOLEAN]
      /\ rec \in [Keys -> Records \cup {NoRecord}] /\ effects \in [Keys -> SUBSET Reqs]
      /\ slack \in [Keys -> Nat]
  BY DEF CallInv, TypeOK
<1>4. k \in Keys /\ OpOf(r) \in Ops /\ \A q \in Reqs : KeyOf(q) \in Keys /\ KeyOf(q)' = KeyOf(q)
  BY <1>2, KeyType DEF CallInv, KeyOf
<1>5. PICK w \in Records : rec' = [rec EXCEPT ![k] = w] /\ w.status = "pending" /\ w.age = "fresh"
  <2>1. CASE WriteNew(r, k) \/ WriteOverExpired(r, k)
    BY <1>4, <2>1, PendingRow DEF WriteNew, WriteOverExpired
  <2>2. CASE WriteClaim(r, k)
    BY <1>3, <1>4, <2>2, ReclaimedRow DEF WriteClaim
  <2> QED BY <1>1, <2>1, <2>2 DEF AcquireWrite
<1>6. w # NoRecord /\ rec'[k] = w /\ \A x \in Keys \ {k} : rec'[x] = rec[x]
  BY <1>3, <1>4, <1>5, RecordFields
<1>7. /\ pc'[r] \in {"run", "done"} /\ view'[r] = NoRecord /\ reply'[r] # "replayed"
      /\ \A q \in Reqs \ {r} : pc'[q] = pc[q] /\ view'[q] = view[q] /\ reply'[q] = reply[q]
  BY <1>1, <1>2, <1>3 DEF CallInv, AnswersKnown
<1>8. SnapshotCurrent'
  <2> SUFFICES ASSUME NEW q \in Reqs, pc'[q] = "commit", ~dirty'[q], view'[q] # NoRecord
               PROVE  /\ rec'[KeyOf(q)] # NoRecord
                      /\ rec'[KeyOf(q)].op = view'[q].op
                      /\ rec'[KeyOf(q)].status = view'[q].status
                      /\ IsExpired(view'[q]) => IsExpired(rec'[KeyOf(q)])
    BY <1>4 DEF SnapshotCurrent, IsExpired
  <2>1. q # r /\ pc[q] = "commit"
    BY <1>7
  <2>2. KeyOf(q) # k /\ ~dirty[q]
    BY <1>2, <1>3, <2>1 DEF DirtyAfterWrite
  <2> QED BY <1>4, <1>6, <1>7, <2>1, <2>2 DEF CallInv, SnapshotCurrent
<1>9. OutcomeKnown' /\ AnswersKnown'
  BY <1>1, <1>2, <1>7 DEF CallInv, OutcomeKnown, AnswersKnown
<1>10. ExpiredUnused'
  <2> SUFFICES ASSUME NEW q \in Reqs, pc'[q] \in Executing, rec'[KeyOf(q)] # NoRecord
               PROVE  ~IsExpired(rec'[KeyOf(q)])
    BY <1>4 DEF ExpiredUnused, IsExpired
  <2>1. CASE KeyOf(q) = k
    BY <1>5, <1>6, <2>1 DEF IsExpired
  <2>2. CASE KeyOf(q) # k
    BY <1>4, <1>6, <1>7, <2>2 DEF CallInv, ExpiredUnused
  <2> QED BY <2>1, <2>2
<1>11. ASSUME NEW x \in Keys, x # k PROVE Balanced(x)'
  <2>1. Spenders(x)' \subseteq Spenders(x)
    BY <1>2, <1>4, <1>7, <1>11 DEF Spenders, Spends
  <2>2. effects'[x] = effects[x] /\ slack'[x] = slack[x] /\ Claimable(x)' = Claimable(x)
    BY <1>1, <1>3, <1>4, <1>6, <1>11 DEF AcquireWrite, WriteNew, WriteOverExpired, WriteClaim, Claimable
  <2>3. slack[x] \in Nat /\ Claimable(x) \in {0, 1} /\ Balanced(x)
    BY BalanceType DEF CallInv
  <2> QED BY <2>1, <2>2, <2>3, BalanceShrinks DEF CallInv
<1>12. ASSUME NEW x \in Keys, x = k PROVE Balanced(x)'
  <2>1. Spenders(x)' \subseteq Spenders(x) \cup {r}
    BY <1>2, <1>4, <1>7, <1>12 DEF Spenders, Spends
  <2>2. Claimable(x)' = 0
    BY <1>2, <1>4, <1>5, <1>6, <1>12 DEF Claimable
  <2>3. slack[x] \in Nat /\ Balanced(x)
    BY <1>4, BalanceType DEF CallInv
  <2>4. CASE WriteNew(r, x)
    <3>1. Claimable(x) = 1 /\ effects' = effects /\ slack' = slack
      BY <2>4 DEF WriteNew, Claimable
    <3> QED BY <1>4, <2>1, <2>2, <2>3, <3>1, BalanceGrows DEF CallInv
  <2>5. CASE WriteOverExpired(r, x)
    <3>1. IsExpired(rec[x]) /\ rec[x] # NoRecord
      BY <1>1, <1>12, <2>5 DEF WriteOverExpired, CallInv, SnapshotCurrent
    <3>2. Spenders(x) = {}
      BY <3>1 DEF CallInv, ExpiredUnused, Executing, Spenders, Spends
    <3>3. effects'[x] = {} /\ slack'[x] = 0
      BY <1>3, <1>4, <1>12, <2>5 DEF WriteOverExpired
    <3>4. IsFiniteSet({}) /\ Cardinality({}) = 0
      BY FS_EmptySet
    <3>5. /\ IsFiniteSet(Spenders(x)') /\ Cardinality(Spenders(x)') \in Nat
          /\ Cardinality(Spenders(x)') <= Cardinality({}) + 1
      BY <2>1, <3>2, <3>4, CardGrows
    <3> QED BY <2>2, <3>3, <3>4, <3>5 DEF Balanced
  <2>6. CASE WriteClaim(r, x)
    <3>1. rec[x] # NoRecord /\ rec[x].status = view[r].status /\ view[r].status \in {"failed", "pending"}
      BY <1>1, <1>12, <2>6 DEF WriteClaim, IsAbandoned, CallInv, SnapshotCurrent
    <3>2. effects' = effects /\ slack'[x] \in {slack[x], slack[x] + 1}
      BY <1>3, <1>4, <1>12, <2>6 DEF WriteClaim
    <3>3. view[r].status # "failed" => slack'[x] = slack[x] + 1
      BY <1>3, <1>4, <1>12, <2>6 DEF WriteClaim, IsAbandoned
    <3>4. view[r].status = "failed" => Claimable(x) = 1
      BY <3>1 DEF Claimable
    <3>5. Claimable(x) \in {0, 1}
      BY DEF Claimable
    <3> QED BY <1>4, <2>1, <2>2, <2>3, <3>2, <3>3, <3>4, <3>5, BalanceGrows DEF CallInv
  <2> QED BY <1>1, <1>12, <2>4, <2>5, <2>6 DEF AcquireWrite
<1> QED BY <1>8, <1>9, <1>10, <1>11, <1>12 DEF CallInv

----------------------------------------------------------------------------
(* The handler returns. *)

LEMMA HandlerKeeps ==
    ASSUME CallInv, TypeOK', NEW r \in Reqs,
           HandlerSucceeds(r) \/ HandlerFails(r) \/ HandlerThrowsAfterCommit(r)
    PROVE  CallInv'
<1> DEFINE k == KeyOf(r)
<1>1. /\ pc[r] = "run"
      /\ pc' = [pc EXCEPT ![r] = "persist"]
      /\ UNCHANGED <<rec, call, view, dirty, reply>>
  BY DEF HandlerSucceeds, HandlerFails, HandlerThrowsAfterCommit
<1>2. PICK o \in {"completed", "failed", "threw"} :
         /\ outcome' = [outcome EXCEPT ![r] = o]
         /\ \/ o = "completed" /\ effects' = [effects EXCEPT ![k] = @ \cup {r}] /\ slack' = slack
            \/ o \in {"failed", "threw"} /\ effects' = effects /\ slack' = slack
            \/ /\ o = "threw" /\ effects' = [effects EXCEPT ![k] = @ \cup {r}]
               /\ slack' = [slack EXCEPT ![k] = @ + 1]
  BY DEF HandlerSucceeds, HandlerFails, HandlerThrowsAfterCommit
<1>3. /\ pc \in [Reqs -> Phases] /\ outcome \in [Reqs -> Outcomes]
      /\ effects \in [Keys -> SUBSET Reqs] /\ slack \in [Keys -> Nat]
  BY DEF CallInv, TypeOK
<1>4. k \in Keys /\ \A q \in Reqs : KeyOf(q) \in Keys /\ KeyOf(q)' = KeyOf(q)
  BY <1>1, KeyType DEF CallInv, KeyOf
<1>5. /\ \A q \in Reqs \ {r} : outcome'[q] = outcome[q] /\ pc'[q] = pc[q]
      /\ outcome'[r] = o /\ pc'[r] = "persist"
  BY <1>1, <1>2, <1>3
<1>6. SnapshotCurrent'
  BY <1>1, <1>4, <1>5 DEF CallInv, SnapshotCurrent, IsExpired
<1>7. OutcomeKnown' /\ AnswersKnown'
  BY <1>1, <1>5 DEF CallInv, OutcomeKnown, AnswersKnown
<1>8. ExpiredUnused'
  BY <1>1, <1>4, <1>5 DEF CallInv, ExpiredUnused, Executing, IsExpired
<1>9. ASSUME NEW x \in Keys PROVE Balanced(x)'
  <2>1. slack[x] \in Nat /\ Claimable(x) \in {0, 1} /\ Claimable(x)' = Claimable(x) /\ Balanced(x)
    BY <1>1, BalanceType DEF CallInv, Claimable
  <2>2. Spenders(x)' \subseteq Spenders(x)
    BY <1>1, <1>4, <1>5 DEF Spenders, Spends
  <2>3. CASE effects'[x] = effects[x] /\ slack'[x] = slack[x]
    BY <2>1, <2>2, <2>3, BalanceShrinks DEF CallInv
  <2>4. CASE x = k /\ o = "completed"
    <3>1. r \in Spenders(x) /\ Spenders(x)' \subseteq Spenders(x) \ {r}
      BY <1>1, <1>4, <1>5, <2>2, <2>4 DEF Spenders, Spends
    <3>2. effects'[x] \subseteq effects[x] \cup {r} /\ slack'[x] = slack[x]
      BY <1>2, <1>3, <1>4, <2>4
    <3> QED BY <2>1, <3>1, <3>2, BalancePays DEF CallInv
  <2>5. CASE x = k /\ o = "threw" /\ effects' = [effects EXCEPT ![k] = @ \cup {r}]
             /\ slack' = [slack EXCEPT ![k] = @ + 1]
    <3>1. effects'[x] \subseteq effects[x] \cup {r} /\ slack'[x] = slack[x] + 1
      BY <1>3, <1>4, <2>5
    <3>2. Claimable(x)' + 1 + slack[x] <= Claimable(x) + slack'[x]
      BY <2>1, <3>1
    <3> HIDE DEF k
    <3> QED BY <2>1, <2>2, <3>1, <3>2, BalanceGrows DEF CallInv
  <2> QED BY <1>2, <1>3, <1>4, <2>3, <2>4, <2>5
<1> QED BY <1>6, <1>7, <1>8, <1>9 DEF CallInv

----------------------------------------------------------------------------
(* The outcome is written back, and time passes. *)

\* Persist, PersistLostAck and Fallback: the row takes this call's outcome.
LEMMA SettleKeeps ==
    ASSUME CallInv, TypeOK', NEW r \in Reqs, Persist(r) \/ PersistLostAck(r) \/ Fallback(r)
    PROVE  CallInv'
<1> DEFINE k == KeyOf(r)
           ok == outcome[r] = "completed"
<1>1. /\ pc[r] \in {"persist", "fallback"} /\ rec[k] # NoRecord
      /\ UNCHANGED <<call, view, outcome, effects>>
      /\ dirty' = DirtyAfterWrite(k, r)
  BY DEF Persist, PersistLostAck, Fallback, PersistWrite
<1>2. /\ pc \in [Reqs -> Phases] /\ reply \in [Reqs -> Replies] /\ rec \in [Keys -> Records \cup {NoRecord}]
      /\ slack \in [Keys -> Nat] /\ dirty \in [Reqs -> BOOLEAN]
  BY DEF CallInv, TypeOK
<1>3. k \in Keys /\ \A q \in Reqs : KeyOf(q) \in Keys /\ KeyOf(q)' = KeyOf(q)
  BY <1>1, KeyType DEF CallInv, KeyOf
<1>4. PICK w \in Records :
         rec' = [rec EXCEPT ![k] = w] /\ w.age = rec[k].age /\ (ok => w.status = "completed")
  <2>1. rec[k] \in Records
    BY <1>1, <1>2, <1>3
  <2>2. CASE Persist(r) \/ PersistLostAck(r)
    BY <2>1, <2>2, SettledRow DEF Persist, PersistLostAck, PersistWrite
  <2>3. CASE Fallback(r)
    <3>1. ~ok
      BY <2>3 DEF Fallback, CallInv, OutcomeKnown
    <3> QED BY <2>1, <2>3, <3>1, FailedRow DEF Fallback
  <2> QED BY <2>2, <2>3
<1>5. w # NoRecord /\ rec'[k] = w /\ \A x \in Keys \ {k} : rec'[x] = rec[x]
  BY <1>2, <1>3, <1>4, RecordFields
<1>6. /\ pc'[r] \in {"persist", "fallback", "done"}
      /\ pc'[r] = "persist" => pc[r] = "persist"
      /\ pc'[r] = "fallback" => outcome[r] = "threw"
      /\ reply'[r] # "replayed"
      /\ \A q \in Reqs \ {r} : pc'[q] = pc[q] /\ reply'[q] = reply[q]
  <2>1. reply[r] # "replayed" /\ FinalReply(r) # "replayed"
    BY <1>1 DEF CallInv, AnswersKnown, FinalReply
  <2>2. CASE Persist(r) \/ Fallback(r)
    BY <1>2, <2>1, <2>2 DEF Persist, Fallback, Answer
  <2>3. CASE PersistLostAck(r)
    BY <1>2, <2>1, <2>3 DEF PersistLostAck, RetryPersist, GiveUpPersist, Answer
  <2> QED BY <2>2, <2>3
<1>7. \/ slack' = slack /\ (ok \/ pc'[r] = "done")
      \/ slack' = [slack EXCEPT ![k] = @ + 1]
  BY <1>2 DEF Persist, PersistLostAck, Fallback, Answer
<1>8. SnapshotCurrent'
  <2> SUFFICES ASSUME NEW q \in Reqs, pc'[q] = "commit", ~dirty'[q], view'[q] # NoRecord
               PROVE  /\ rec'[KeyOf(q)] # NoRecord
                      /\ rec'[KeyOf(q)].op = view'[q].op
                      /\ rec'[KeyOf(q)].status = view'[q].status
                      /\ IsExpired(view'[q]) => IsExpired(rec'[KeyOf(q)])
    BY <1>3 DEF SnapshotCurrent, IsExpired
  <2>1. q # r /\ pc[q] = "commit"
    BY <1>6
  <2>2. KeyOf(q) # k /\ ~dirty[q]
    BY <1>1, <1>2, <2>1 DEF DirtyAfterWrite
  <2> QED BY <1>1, <1>3, <1>5, <2>1, <2>2 DEF CallInv, SnapshotCurrent
<1>9. OutcomeKnown' /\ AnswersKnown'
  BY <1>1, <1>6 DEF CallInv, OutcomeKnown, AnswersKnown
<1>10. ExpiredUnused'
  <2> SUFFICES ASSUME NEW q \in Reqs, pc'[q] \in Executing, rec'[KeyOf(q)] # NoRecord
               PROVE  ~IsExpired(rec'[KeyOf(q)])
    BY <1>3 DEF ExpiredUnused, IsExpired
  <2>1. pc[q] \in Executing
    BY <1>1, <1>6 DEF Executing
  <2>2. CASE KeyOf(q) = k
    BY <1>1, <1>4, <1>5, <2>1, <2>2 DEF CallInv, ExpiredUnused, IsExpired
  <2>3. CASE KeyOf(q) # k
    BY <1>3, <1>5, <2>1, <2>3 DEF CallInv, ExpiredUnused
  <2> QED BY <2>2, <2>3
<1>11. ASSUME NEW x \in Keys PROVE Balanced(x)'
  <2>1. slack[x] \in Nat /\ Claimable(x) \in {0, 1} /\ Balanced(x) /\ effects'[x] = effects[x]
    BY <1>1, BalanceType DEF CallInv
  <2>2. Spenders(x)' \subseteq Spenders(x)
    BY <1>1, <1>3, <1>6 DEF Spenders, Spends
  <2>3. Claimable(x)' \in {0, 1}
    BY DEF Claimable
  <2>4. CASE x # k
    <3>1. slack'[x] = slack[x] /\ Claimable(x)' = Claimable(x)
      BY <1>2, <1>3, <1>5, <1>7, <2>4 DEF Claimable
    <3> QED BY <2>1, <2>2, <3>1, BalanceShrinks DEF CallInv
  <2>5. CASE x = k /\ ok
    <3>1. Claimable(x)' = 0 /\ slack'[x] \in {slack[x], slack[x] + 1}
      BY <1>2, <1>3, <1>4, <1>5, <1>7, <2>5 DEF Claimable
    <3> QED BY <2>1, <2>2, <3>1, BalanceShrinks DEF CallInv
  <2>6. CASE x = k /\ slack' = [slack EXCEPT ![k] = @ + 1]
    <3>1. slack'[x] = slack[x] + 1
      BY <1>2, <1>3, <2>6
    <3> QED BY <2>1, <2>2, <2>3, <3>1, BalanceShrinks DEF CallInv
  <2>7. CASE x = k /\ ~ok /\ slack' = slack /\ pc'[r] = "done"
    <3>1. r \in Spenders(x)
      BY <1>1, <2>7 DEF Spenders, Spends
    <3>2. r \notin Spenders(x)'
      BY <2>7 DEF Spenders, Spends
    <3>3. Spenders(x)' \subseteq Spenders(x) \ {r}
      BY <2>2, <3>2
    <3> QED BY <2>1, <2>7, <3>1, <3>3, BalancePays DEF CallInv
  <2> QED BY <1>7, <2>4, <2>5, <2>6, <2>7
<1> QED BY <1>8, <1>9, <1>10, <1>11 DEF CallInv

LEMMA TimeKeeps ==
    ASSUME CallInv, TypeOK', NEW k \in Keys, GrowStale(k) \/ Expire(k)
    PROVE  CallInv'
<1>1. rec[k] # NoRecord /\ UNCHANGED <<call, pc, view, dirty, outcome, reply, effects, slack>>
  BY DEF GrowStale, Expire
<1>2. rec \in [Keys -> Records \cup {NoRecord}] /\ rec[k] \in Records
  BY <1>1 DEF CallInv, TypeOK
<1>3. PICK a \in {"stale", "expired"} :
         /\ rec' = [rec EXCEPT ![k] = Row(rec[k].op, rec[k].status, a, rec[k].result)]
         /\ a = "expired" => Executors(k) = {}
         /\ rec[k].age # "expired"
  BY DEF GrowStale, Expire
<1>4. /\ rec'[k] # NoRecord /\ \A x \in Keys \ {k} : rec'[x] = rec[x]
      /\ rec'[k].op = rec[k].op /\ rec'[k].status = rec[k].status /\ rec'[k].age = a
  BY <1>2, <1>3, AgedRow, RecordFields DEF Ages
<1>5. \A q \in Reqs : KeyOf(q) \in Keys /\ KeyOf(q)' = KeyOf(q)
  BY <1>1, KeyType DEF CallInv, KeyOf
<1>6. SnapshotCurrent'
  BY <1>1, <1>3, <1>4, <1>5 DEF CallInv, SnapshotCurrent, IsExpired
<1>7. OutcomeKnown' /\ AnswersKnown'
  BY <1>1 DEF CallInv, OutcomeKnown, AnswersKnown
<1>8. ExpiredUnused'
  <2> SUFFICES ASSUME NEW q \in Reqs, pc[q] \in Executing, rec'[KeyOf(q)] # NoRecord
               PROVE  ~IsExpired(rec'[KeyOf(q)])
    BY <1>1, <1>5 DEF ExpiredUnused, IsExpired
  <2>1. CASE KeyOf(q) = k
    <3>1. Executors(k) # {}
      BY <2>1 DEF Executors
    <3> QED BY <1>3, <1>4, <2>1, <3>1 DEF IsExpired
  <2>2. CASE KeyOf(q) # k
    BY <1>4, <1>5, <2>2 DEF CallInv, ExpiredUnused
  <2> QED BY <2>1, <2>2
<1>9. ASSUME NEW x \in Keys PROVE Balanced(x)'
  <2>1. Claimable(x)' = Claimable(x) /\ Spenders(x)' \subseteq Spenders(x)
    BY <1>1, <1>4, <1>5 DEF Claimable, Spenders, Spends
  <2>2. slack[x] \in Nat /\ Claimable(x) \in {0, 1} /\ Balanced(x)
    BY BalanceType DEF CallInv
  <2> QED BY <1>1, <2>1, <2>2, BalanceShrinks DEF CallInv
<1> QED BY <1>6, <1>7, <1>8, <1>9 DEF CallInv

----------------------------------------------------------------------------
LEMMA CallInvNext ==
    ASSUME CallInv, Next
    PROVE  CallInv'
<1>1. ASSUME NEW r \in Reqs, Arrive(r) \/ RejectUpfront(r) \/ Step(r) \/ Crash(r) PROVE CallInv'
  <2>1. TypeOK'
    BY <1>1, StepType DEF CallInv
  <2>2. CASE Acquire(r) \/ AcquireLostAck(r)
    BY <2>1, <2>2, AcquireKeeps
  <2>3. CASE HandlerSucceeds(r) \/ HandlerFails(r) \/ HandlerThrowsAfterCommit(r)
    BY <2>1, <2>3, HandlerKeeps
  <2>4. CASE Persist(r) \/ PersistLostAck(r) \/ Fallback(r)
    BY <2>1, <2>4, SettleKeeps
  <2>5. CASE \/ Arrive(r) \/ RejectUpfront(r) \/ Crash(r)
             \/ BeginAcquire(r) \/ ReturnExisting(r) \/ UniqueViolation(r)
             \/ SerializationFailure(r) \/ RereadHit(r) \/ RereadMiss(r)
             \/ AcquireError(r) \/ AnswerFromRecord(r)
             \/ PersistError(r) \/ FallbackError(r)
    BY <2>1, <2>5, QuietActions, QuietKeeps
  <2> QED BY <1>1, <2>2, <2>3, <2>4, <2>5 DEF Step
<1>2. ASSUME NEW k \in Keys, GrowStale(k) \/ Expire(k) PROVE CallInv'
  BY <1>2, TimeType, TimeKeeps DEF CallInv
<1> QED BY <1>1, <1>2 DEF Next

LEMMA CallInvStutter ==
    ASSUME CallInv, UNCHANGED vars
    PROVE  CallInv'
<1>1. TypeOK' /\ \A k \in Keys : Balanced(k)'
  BY DEF CallInv, TypeOK, vars, Balanced, Spenders, Spends, Claimable, KeyOf
<1> QED BY <1>1 DEF CallInv, vars, SnapshotCurrent, OutcomeKnown, AnswersKnown, ExpiredUnused, IsExpired, KeyOf

LEMMA CallInvInit == Init => CallInv
<1> SUFFICES ASSUME Init PROVE CallInv
  OBVIOUS
<1>1. TypeOK
  BY MaxRetriesAssumption DEF Init, CallsInit, TypeOK, Phases, Outcomes, Replies
<1>2. \A r \in Reqs : pc[r] = "idle" /\ view[r] = NoRecord /\ outcome[r] = "none" /\ reply[r] = "none"
  BY DEF Init, CallsInit
<1>3. \A k \in Keys : rec[k] = NoRecord /\ effects[k] = {} /\ slack[k] = 0 /\ Spenders(k) = {}
  BY <1>2 DEF Init, CallsInit, Spenders, Spends
<1>4. \A k \in Keys : Balanced(k)
  BY <1>3, FS_EmptySet DEF Balanced, Claimable
<1> QED BY <1>1, <1>2, <1>4 DEF CallInv, SnapshotCurrent, OutcomeKnown, AnswersKnown, ExpiredUnused, Executing

\* A balanced history counts at most one effect, plus one per weakening event.
LEMMA BalanceBounds ==
    ASSUME CallInv
    PROVE  BoundedDuplication /\ AtMostOnce
<1>1. ASSUME NEW k \in Keys
      PROVE  /\ IsFiniteSet(effects[k]) /\ Cardinality(effects[k]) \in Nat
             /\ Cardinality(effects[k]) <= 1 + slack[k]
  <2>1. Balanced(k) /\ slack[k] \in Nat /\ Claimable(k) \in {0, 1}
    BY BalanceType DEF CallInv
  <2>2. Cardinality(effects[k]) \in Nat /\ Cardinality(Spenders(k)) \in Nat
    BY <2>1, FS_CardinalityType DEF Balanced
  <2> QED BY <2>1, <2>2 DEF Balanced
<1>2. ASSUME NEW k \in Keys, slack[k] = 0, NEW r \in effects[k], NEW q \in effects[k], r # q PROVE FALSE
  <2>1. Cardinality({q}) = 1 /\ IsFiniteSet({q})
    BY FS_Singleton
  <2>2. Cardinality({q}) + 1 <= Cardinality(effects[k])
    BY <1>1, <1>2, CardLoses
  <2> QED BY <1>1, <1>2, <2>1, <2>2
<1> QED BY <1>1, <1>2 DEF BoundedDuplication, AtMostOnce

\* A key's side effect is committed at most once per TTL window, plus once for
\* every stale-pending reclaim, lost acknowledgement of a failure and throw
\* after commit, for any number of calls (executeAndUpdate).
THEOREM BoundedDuplicationHolds == Spec => []BoundedDuplication
<1>1. ASSUME CallInv, [Next]_vars PROVE CallInv'
  BY <1>1, CallInvNext, CallInvStutter
<1>2. CallInv => BoundedDuplication
  BY BalanceBounds
<1> QED BY CallInvInit, <1>1, <1>2, PTL DEF Spec

----------------------------------------------------------------------------
(* Without the job, more holds: a row is only ever replaced by a claim of  *)
(* the same operation.  ExecutorOwnsOperation, ReplayIsOwnResult and       *)
(* CompletedIsFinal rest on what rows and snapshots hold (TableSound,      *)
(* ViewSound), on there being one call at most that may still change a row *)
(* (SoleHolder) and on the effects being those of successful calls.        *)

\* A completed row holds the result of a successful call for the same key and operation.
RowSound(v, k) ==
    (v # NoRecord /\ v.status = "completed") =>
        /\ v.result \in Reqs
        /\ KeyOf(v.result) = k
        /\ OpOf(v.result) = v.op
        /\ outcome[v.result] = "completed"

TableSound == \A k \in Keys : RowSound(rec[k], k)
ViewSound == \A r \in Reqs : RowSound(view[r], KeyOf(r))

\* The calls that have committed the effect, may still commit it, or may
\* still reopen the row by writing "failed".
Holds(r, k) ==
    /\ KeyOf(r) = k
    /\ \/ pc[r] = "run"
       \/ pc[r] \in {"persist", "fallback"} /\ outcome[r] # "completed"
       \/ r \in effects[k]

SoleHolder ==
    \A k \in Keys : slack[k] = 0 =>
        /\ \A r, q \in Reqs : Holds(r, k) /\ Holds(q, k) => r = q
        /\ \A r \in Reqs : Holds(r, k) => rec[k] # NoRecord /\ rec[k].status # "failed"

EffectsSound ==
    \A k \in Keys : \A r \in effects[k] : KeyOf(r) = k /\ (slack[k] = 0 => outcome[r] = "completed")

SuccessCounted ==
    \A r \in Reqs : (pc[r] = "persist" /\ outcome[r] = "completed") => r \in effects[KeyOf(r)]

CompletedCounted ==
    \A k \in Keys : (slack[k] = 0 /\ rec[k] # NoRecord /\ rec[k].status = "completed")
        => rec[k].result \in effects[k]

IInv ==
    /\ CallInv
    /\ TableSound
    /\ ViewSound
    /\ ExecutorOwnsOperation
    /\ ReplayIsOwnResult
    /\ SoleHolder
    /\ EffectsSound
    /\ SuccessCounted
    /\ CompletedCounted

LEMMA QuietStep ==
    ASSUME IInv, CallInv', NEW r \in Reqs, Quiet(r)
    PROVE  IInv'
<1>k. \A q \in Reqs : KeyOf(q) \in Keys /\ KeyOf(q)' = KeyOf(q) /\ OpOf(q)' = OpOf(q)
  BY KeyType DEF IInv, CallInv, Quiet, KeyOf, OpOf
<1>s. \A v, k : RowSound(v, k) => RowSound(v, k)'
  BY DEF RowSound, Quiet, KeyOf, OpOf
<1>1. TableSound'
  BY <1>s DEF IInv, CallInv, TableSound, RowSound, Quiet, KeyOf, OpOf
<1>2. ViewSound'
  <2> SUFFICES ASSUME NEW q \in Reqs PROVE RowSound(view[q], KeyOf(q))'
    BY DEF ViewSound
  <2>1. view'[q] \in {view[q], NoRecord, rec[KeyOf(q)]}
    BY DEF Quiet
  <2>2. RowSound(view'[q], KeyOf(q))
    BY <1>k, <2>1 DEF IInv, CallInv, TableSound, ViewSound, RowSound
  <2> QED BY <1>k, <2>2 DEF RowSound, Quiet, KeyOf, OpOf
<1>6. ExecutorOwnsOperation'
  BY <1>k DEF IInv, CallInv, ExecutorOwnsOperation, Quiet, Executing, IsExpired
<1>7. ReplayIsOwnResult'
  <2> SUFFICES ASSUME NEW q \in Reqs, reply'[q] = "replayed"
               PROVE  /\ view'[q].result \in Reqs
                      /\ call'[view'[q].result] = call'[q]
                      /\ outcome'[view'[q].result] = "completed"
    BY DEF ReplayIsOwnResult
  <2>1. CASE q # r
    BY <2>1 DEF IInv, CallInv, ReplayIsOwnResult, Quiet
  <2>2. CASE q = r
    <3>1. /\ view[r].result \in Reqs
          /\ KeyOf(view[r].result) = KeyOf(r)
          /\ OpOf(view[r].result) = OpOf(r)
          /\ outcome[view[r].result] = "completed"
      BY <2>2 DEF Quiet, IInv, CallInv, ViewSound, RowSound
    <3>2. call[view[r].result] = call[r]
      BY <3>1, CallEquality DEF IInv, CallInv
    <3> QED BY <2>2, <3>1, <3>2 DEF Quiet
  <2> QED BY <2>1, <2>2
<1>8. SoleHolder'
  <2>1. \A q \in Reqs : \A k \in Keys : Holds(q, k)' => Holds(q, k)
    BY <1>k DEF Holds, Quiet
  <2> QED BY <2>1 DEF IInv, CallInv, SoleHolder, Quiet
<1>9. EffectsSound'
  BY <1>k DEF IInv, CallInv, EffectsSound, Quiet, TypeOK
<1>10. SuccessCounted'
  BY <1>k DEF IInv, CallInv, SuccessCounted, Quiet
<1>11. CompletedCounted'
  BY DEF IInv, CallInv, CompletedCounted, Quiet
<1> QED BY <1>1, <1>2, <1>6, <1>7, <1>8, <1>9, <1>10, <1>11 DEF IInv

----------------------------------------------------------------------------
(* The acquire transaction commits a write. *)

\* What every acquire write establishes: the row is this call's pending row,
\* and while nothing weakened the guarantee nobody else holds the key.
LEMMA AcquireFacts ==
    ASSUME IInv, NEW r \in Reqs, pc[r] = "commit", AcquireWrite(r, KeyOf(r))
    PROVE  \E w \in Records :
             /\ rec' = [rec EXCEPT ![KeyOf(r)] = w]
             /\ w.op = OpOf(r) /\ w.status = "pending" /\ w.age = "fresh"
             /\ \A q \in Reqs : (KeyOf(q) = KeyOf(r) /\ pc[q] \in Executing) => OpOf(q) = w.op
             /\ \/ effects' = effects
                \/ /\ effects' = [effects EXCEPT ![KeyOf(r)] = {}]
                   /\ \A q \in Reqs : KeyOf(q) = KeyOf(r) => pc[q] \notin Executing
             /\ \/ slack' = slack
                \/ slack' = [slack EXCEPT ![KeyOf(r)] = @ + 1]
                \/ /\ effects' = [effects EXCEPT ![KeyOf(r)] = {}]
                   /\ slack' = [slack EXCEPT ![KeyOf(r)] = 0]
             /\ slack'[KeyOf(r)] = 0 =>
                   \A q \in Reqs : q # r => /\ KeyOf(q) = KeyOf(r) => pc[q] \notin Executing \/ outcome[q] = "completed"
                                            /\ q \notin effects'[KeyOf(r)]
             /\ slack'[KeyOf(r)] = 0 => r \notin effects'[KeyOf(r)]
<1> DEFINE k == KeyOf(r)
<1>k. k \in Keys /\ OpOf(r) \in Ops /\ slack[k] \in Nat /\ slack \in [Keys -> Nat] /\ effects \in [Keys -> SUBSET Reqs]
  BY KeyType DEF IInv, CallInv, TypeOK
<1>h. ASSUME slack[k] = 0, rec[k] = NoRecord \/ rec[k].status = "failed"
      PROVE  \A q \in Reqs : ~Holds(q, k)
  BY <1>h, <1>k DEF IInv, CallInv, SoleHolder
<1>1. CASE WriteNew(r, k)
  <2>1. \A q \in Reqs : KeyOf(q) = k => pc[q] \notin Executing
    BY <1>1 DEF WriteNew, IInv, CallInv, ExecutorOwnsOperation
  <2>2. slack[k] = 0 => \A q \in Reqs : q \notin effects[k]
    BY <1>1, <1>h, <1>k DEF WriteNew, Holds, IInv, CallInv, EffectsSound
  <2> QED BY <1>1, <1>k, <2>1, <2>2, PendingRow DEF WriteNew
<1>2. CASE WriteOverExpired(r, k)
  <2>1. IsExpired(rec[k]) /\ rec[k] # NoRecord
    BY <1>2 DEF WriteOverExpired, IInv, CallInv, SnapshotCurrent
  <2>2. \A q \in Reqs : KeyOf(q) = k => pc[q] \notin Executing
    BY <2>1 DEF IInv, CallInv, ExecutorOwnsOperation
  <2>3. effects'[k] = {}
    BY <1>2, <1>k DEF WriteOverExpired
  <2> QED BY <1>2, <1>k, <2>2, <2>3, PendingRow DEF WriteOverExpired
<1>3. CASE WriteClaim(r, k)
  <2>1. view[r] \in Records /\ rec[k] \in Records
    BY <1>3, <1>k DEF WriteClaim, IInv, CallInv, TypeOK
  <2>2. rec[k].op = view[r].op /\ rec[k].status = view[r].status
    BY <1>3 DEF WriteClaim, IInv, CallInv, SnapshotCurrent
  <2>3. view[r].op = OpOf(r)
    BY <1>3, <1>k, <2>1, RecordFields, OpEquality DEF WriteClaim, CanClaimRecord, IsSameCaller
  <2>4. /\ Reclaimed(rec[k]) \in Records /\ Reclaimed(rec[k]).op = OpOf(r)
        /\ Reclaimed(rec[k]).status = "pending" /\ Reclaimed(rec[k]).age = "fresh"
    BY <2>1, <2>2, <2>3, ReclaimedRow
  <2>5. \A q \in Reqs : (KeyOf(q) = k /\ pc[q] \in Executing) => OpOf(q) = OpOf(r)
    BY <2>2, <2>3 DEF IInv, CallInv, ExecutorOwnsOperation
  <2>6. ASSUME slack'[k] = 0 PROVE slack[k] = 0 /\ rec[k].status = "failed"
    BY <1>3, <1>k, <2>2, <2>6 DEF WriteClaim, IsAbandoned
  <2>7. ASSUME slack'[k] = 0, NEW q \in Reqs
        PROVE  /\ KeyOf(q) = k => pc[q] \notin Executing \/ outcome[q] = "completed"
               /\ q \notin effects[k]
    <3>1. ~Holds(q, k)
      BY <2>6, <2>7, <1>h
    <3>2. q \in effects[k] => KeyOf(q) = k
      BY <1>k DEF IInv, CallInv, EffectsSound
    <3> QED BY <3>1, <3>2 DEF Holds, Executing
  <2>8. effects' = effects /\ rec' = [rec EXCEPT ![k] = Reclaimed(rec[k])]
        /\ (slack' = slack \/ slack' = [slack EXCEPT ![k] = @ + 1])
    BY <1>3 DEF WriteClaim
  <2> QED BY <2>4, <2>5, <2>7, <2>8
<1> QED BY <1>1, <1>2, <1>3 DEF AcquireWrite

LEMMA AcquireStep ==
    ASSUME IInv, CallInv', NEW r \in Reqs, Acquire(r) \/ AcquireLostAck(r)
    PROVE  IInv'
<1> DEFINE k == KeyOf(r)
<1>1. pc[r] = "commit" /\ AcquireWrite(r, k)
  BY DEF Acquire, AcquireLostAck
<1>2. PICK w \in Records :
         /\ rec' = [rec EXCEPT ![k] = w]
         /\ w.op = OpOf(r) /\ w.status = "pending" /\ w.age = "fresh"
         /\ \A q \in Reqs : (KeyOf(q) = k /\ pc[q] \in Executing) => OpOf(q) = w.op
         /\ \/ effects' = effects
            \/ /\ effects' = [effects EXCEPT ![k] = {}]
               /\ \A q \in Reqs : KeyOf(q) = k => pc[q] \notin Executing
         /\ \/ slack' = slack
            \/ slack' = [slack EXCEPT ![k] = @ + 1]
            \/ /\ effects' = [effects EXCEPT ![k] = {}]
               /\ slack' = [slack EXCEPT ![k] = 0]
         /\ slack'[k] = 0 =>
               \A q \in Reqs : q # r => /\ KeyOf(q) = k => pc[q] \notin Executing \/ outcome[q] = "completed"
                                        /\ q \notin effects'[k]
         /\ slack'[k] = 0 => r \notin effects'[k]
  BY <1>1, AcquireFacts
<1>3. /\ UNCHANGED <<call, outcome>>
      /\ pc' = [pc EXCEPT ![r] = "run"] \/ pc' = [pc EXCEPT ![r] = "done"]
      /\ view' = [view EXCEPT ![r] = NoRecord]
      /\ reply' = reply \/ reply' = [reply EXCEPT ![r] = "unavailable"]
      /\ dirty' = DirtyAfterWrite(k, r)
  BY <1>1 DEF Acquire, AcquireLostAck, Answer, AcquireWrite
<1>4. /\ pc \in [Reqs -> Phases] /\ view \in [Reqs -> Records \cup {NoRecord}]
      /\ reply \in [Reqs -> Replies] /\ dirty \in [Reqs -> BOOLEAN]
      /\ rec \in [Keys -> Records \cup {NoRecord}] /\ effects \in [Keys -> SUBSET Reqs]
      /\ slack \in [Keys -> Nat]
  BY DEF IInv, CallInv, TypeOK
<1>5. \A q \in Reqs : KeyOf(q) \in Keys /\ KeyOf(q)' = KeyOf(q) /\ OpOf(q)' = OpOf(q)
  BY <1>3, KeyType DEF IInv, CallInv, KeyOf, OpOf
<1>6. w # NoRecord /\ rec'[k] = w /\ \A x \in Keys \ {k} : rec'[x] = rec[x] /\ slack'[x] = slack[x] /\ effects'[x] = effects[x]
  BY <1>2, <1>4, <1>5, RecordFields
<1>7. /\ pc'[r] \in {"run", "done"} /\ view'[r] = NoRecord /\ reply'[r] # "replayed"
      /\ \A q \in Reqs \ {r} : pc'[q] = pc[q] /\ view'[q] = view[q] /\ reply'[q] = reply[q]
  BY <1>1, <1>3, <1>4 DEF IInv, CallInv, AnswersKnown
<1>11. TableSound'
  BY <1>2, <1>3, <1>5, <1>6 DEF IInv, CallInv, TableSound, RowSound, KeyOf, OpOf
<1>12. ViewSound'
  BY <1>3, <1>5, <1>7 DEF IInv, CallInv, ViewSound, RowSound, KeyOf, OpOf
<1>16. ExecutorOwnsOperation'
  <2> SUFFICES ASSUME NEW q \in Reqs, pc'[q] \in Executing
               PROVE  /\ rec'[KeyOf(q)] # NoRecord
                      /\ rec'[KeyOf(q)].op = OpOf(q)
                      /\ ~IsExpired(rec'[KeyOf(q)])
    BY <1>5 DEF ExecutorOwnsOperation, IsExpired
  <2>1. CASE KeyOf(q) # k
    BY <1>5, <1>6, <1>7, <2>1 DEF IInv, CallInv, ExecutorOwnsOperation
  <2>2. CASE KeyOf(q) = k
    BY <1>2, <1>6, <1>7, <2>2 DEF IsExpired
  <2> QED BY <2>1, <2>2
<1>17. ReplayIsOwnResult'
  BY <1>3, <1>7 DEF IInv, CallInv, ReplayIsOwnResult
<1>18. SoleHolder'
  <2> SUFFICES ASSUME NEW x \in Keys, slack'[x] = 0
               PROVE  /\ \A p, q \in Reqs : Holds(p, x)' /\ Holds(q, x)' => p = q
                      /\ \A q \in Reqs : Holds(q, x)' => rec'[x] # NoRecord /\ rec'[x].status # "failed"
    BY DEF SoleHolder
  <2>1. CASE x = k
    <3>1. ASSUME NEW q \in Reqs, q # r, Holds(q, x)' PROVE FALSE
      <4>1. KeyOf(q) = k /\ q \notin effects'[k]
        BY <1>2, <1>5, <2>1, <3>1 DEF Holds
      <4>2. pc[q] \in Executing /\ outcome[q] # "completed"
        BY <1>3, <1>7, <2>1, <3>1, <4>1 DEF Holds, Executing, IInv, CallInv, OutcomeKnown
      <4> QED BY <1>2, <2>1, <3>1, <4>1, <4>2
    <3>2. \A q \in Reqs : Holds(q, x)' => q = r
      BY <3>1
    <3>3. rec'[x] # NoRecord /\ rec'[x].status # "failed"
      BY <1>2, <1>6, <2>1
    <3> QED BY <2>1, <3>2, <3>3
  <2>2. CASE x # k
    <3>1. \A q \in Reqs : Holds(q, x)' => Holds(q, x)
      BY <1>3, <1>5, <1>6, <1>7, <2>2 DEF Holds
    <3> QED BY <1>6, <2>2, <3>1 DEF IInv, CallInv, SoleHolder
  <2> QED BY <2>1, <2>2
<1>19. EffectsSound'
  <2> SUFFICES ASSUME NEW x \in Keys, NEW q \in effects'[x]
               PROVE  KeyOf(q) = x /\ (slack'[x] = 0 => outcome[q] = "completed")
    BY <1>3, <1>4, <1>5, <1>2 DEF EffectsSound, TypeOK, KeyOf
  <2>1. CASE x # k
    BY <1>6, <2>1 DEF IInv, CallInv, EffectsSound
  <2>2. CASE x = k
    BY <1>2, <1>4, <1>5, <2>2 DEF IInv, CallInv, EffectsSound
  <2> QED BY <2>1, <2>2
<1>20. SuccessCounted'
  <2> SUFFICES ASSUME NEW q \in Reqs, pc'[q] = "persist", outcome[q] = "completed"
               PROVE  q \in effects'[KeyOf(q)]
    BY <1>3, <1>5 DEF SuccessCounted
  <2>1. q # r /\ pc[q] = "persist" /\ q \in effects[KeyOf(q)]
    BY <1>7 DEF IInv, CallInv, SuccessCounted
  <2>2. CASE KeyOf(q) # k
    BY <1>5, <1>6, <2>1, <2>2
  <2>3. CASE KeyOf(q) = k
    BY <1>2, <2>1, <2>3 DEF Executing
  <2> QED BY <2>2, <2>3
<1>21. CompletedCounted'
  BY <1>2, <1>6 DEF IInv, CallInv, CompletedCounted
<1> QED BY <1>11, <1>12, <1>16, <1>17, <1>18, <1>19, <1>20, <1>21 DEF IInv
----------------------------------------------------------------------------
(* The handler returns. *)

LEMMA HandlerStep ==
    ASSUME IInv, CallInv', NEW r \in Reqs,
           HandlerSucceeds(r) \/ HandlerFails(r) \/ HandlerThrowsAfterCommit(r)
    PROVE  IInv'
<1> DEFINE k == KeyOf(r)
<1>1. /\ pc[r] = "run"
      /\ pc' = [pc EXCEPT ![r] = "persist"]
      /\ UNCHANGED <<rec, call, view, dirty, reply>>
  BY DEF HandlerSucceeds, HandlerFails, HandlerThrowsAfterCommit
<1>2. PICK o \in {"completed", "failed", "threw"} :
         /\ outcome' = [outcome EXCEPT ![r] = o]
         /\ \/ o = "completed" /\ effects' = [effects EXCEPT ![k] = @ \cup {r}] /\ slack' = slack
            \/ o \in {"failed", "threw"} /\ effects' = effects /\ slack' = slack
            \/ /\ o = "threw" /\ effects' = [effects EXCEPT ![k] = @ \cup {r}]
               /\ slack' = [slack EXCEPT ![k] = @ + 1]
  BY DEF HandlerSucceeds, HandlerFails, HandlerThrowsAfterCommit
<1>3. /\ pc \in [Reqs -> Phases] /\ outcome \in [Reqs -> Outcomes]
      /\ effects \in [Keys -> SUBSET Reqs] /\ slack \in [Keys -> Nat]
  BY DEF IInv, CallInv, TypeOK
<1>4. \A q \in Reqs : KeyOf(q) \in Keys /\ KeyOf(q)' = KeyOf(q) /\ OpOf(q)' = OpOf(q)
  BY <1>1, KeyType DEF IInv, CallInv, KeyOf, OpOf
<1>5. outcome[r] = "none"
  BY <1>1 DEF IInv, CallInv, OutcomeKnown
<1>6. /\ \A q \in Reqs \ {r} : outcome'[q] = outcome[q] /\ pc'[q] = pc[q]
      /\ outcome'[r] = o /\ pc'[r] = "persist"
  BY <1>1, <1>2, <1>3
<1>7. \A q \in Reqs : outcome[q] = "completed" => outcome'[q] = "completed"
  BY <1>5, <1>6
<1>8. \A x \in Keys : slack'[x] = 0 => slack[x] = 0
  BY <1>2, <1>3, <1>4
<1>9. \A x \in Keys : x # k => effects'[x] = effects[x]
  BY <1>2, <1>3, <1>4
<1>10. effects'[k] \in {effects[k], effects[k] \cup {r}} /\ (slack'[k] = 0 /\ r \in effects'[k] => o = "completed")
  <2>1. slack[k] = 0 => r \notin effects[k]
    BY <1>4, <1>5 DEF IInv, CallInv, EffectsSound
  <2> QED BY <1>2, <1>3, <1>4, <2>1
<1>11. TableSound'
  BY <1>1, <1>4, <1>7 DEF IInv, CallInv, TableSound, RowSound, KeyOf, OpOf
<1>12. ViewSound'
  BY <1>1, <1>4, <1>7 DEF IInv, CallInv, ViewSound, RowSound, KeyOf, OpOf
<1>16. ExecutorOwnsOperation'
  BY <1>1, <1>4, <1>6 DEF IInv, CallInv, ExecutorOwnsOperation, Executing, IsExpired
<1>17. ReplayIsOwnResult'
  BY <1>1, <1>7 DEF IInv, CallInv, ReplayIsOwnResult
<1>18. SoleHolder'
  <2>1. ASSUME NEW x \in Keys, NEW q \in Reqs, Holds(q, x)' PROVE Holds(q, x)
    <3>1. CASE q = r
      <4>1. KeyOf(q) = x \/ q \in effects'[x]
        BY <1>4, <2>1 DEF Holds
      <4> QED BY <1>1, <1>4, <1>9, <2>1, <3>1, <4>1 DEF Holds
    <3>2. CASE q # r
      BY <1>4, <1>6, <1>9, <1>10, <2>1, <3>2 DEF Holds
    <3> QED BY <3>1, <3>2
  <2> QED BY <1>1, <1>8, <2>1 DEF IInv, CallInv, SoleHolder
<1>19. EffectsSound'
  <2> SUFFICES ASSUME NEW x \in Keys, NEW q \in effects'[x]
               PROVE  KeyOf(q) = x /\ (slack'[x] = 0 => outcome'[q] = "completed")
    BY <1>3, <1>4, <1>2 DEF EffectsSound, TypeOK, KeyOf
  <2>1. CASE q \in effects[x]
    BY <1>3, <1>7, <1>8, <2>1 DEF IInv, CallInv, EffectsSound
  <2>2. CASE q \notin effects[x]
    <3>1. q = r /\ x = k
      BY <1>9, <1>10, <2>2
    <3> QED BY <1>6, <1>10, <3>1
  <2> QED BY <2>1, <2>2
<1>20. SuccessCounted'
  <2> SUFFICES ASSUME NEW q \in Reqs, pc'[q] = "persist", outcome'[q] = "completed"
               PROVE  q \in effects'[KeyOf(q)]
    BY <1>4 DEF SuccessCounted
  <2>1. CASE q = r
    BY <1>2, <1>3, <1>4, <1>6, <2>1
  <2>2. CASE q # r
    BY <1>4, <1>6, <1>9, <1>10, <2>2 DEF IInv, CallInv, SuccessCounted
  <2> QED BY <2>1, <2>2
<1>21. CompletedCounted'
  BY <1>1, <1>8, <1>9, <1>10 DEF IInv, CallInv, CompletedCounted
<1> QED BY <1>11, <1>12, <1>16, <1>17, <1>18, <1>19, <1>20, <1>21 DEF IInv

----------------------------------------------------------------------------
(* The outcome is written back. *)

\* Persist, PersistLostAck and Fallback: the row takes this call's outcome.
LEMMA SettleStep ==
    ASSUME IInv, CallInv', NEW r \in Reqs, Persist(r) \/ PersistLostAck(r) \/ Fallback(r)
    PROVE  IInv'
<1> DEFINE k == KeyOf(r)
           ok == outcome[r] = "completed"
<1>1. /\ pc[r] \in {"persist", "fallback"} /\ rec[k] # NoRecord
      /\ UNCHANGED <<call, view, outcome, effects>>
      /\ dirty' = DirtyAfterWrite(k, r)
  BY DEF Persist, PersistLostAck, Fallback, PersistWrite
<1>2. /\ pc \in [Reqs -> Phases] /\ reply \in [Reqs -> Replies] /\ rec \in [Keys -> Records \cup {NoRecord}]
      /\ effects \in [Keys -> SUBSET Reqs] /\ slack \in [Keys -> Nat] /\ dirty \in [Reqs -> BOOLEAN]
  BY DEF IInv, CallInv, TypeOK
<1>3. \A q \in Reqs : KeyOf(q) \in Keys /\ KeyOf(q)' = KeyOf(q) /\ OpOf(q)' = OpOf(q)
  BY <1>1, KeyType DEF IInv, CallInv, KeyOf, OpOf
<1>4. rec[k] \in Records
  BY <1>1, <1>2, <1>3
<1>5. PICK w \in Records :
         /\ rec' = [rec EXCEPT ![k] = w]
         /\ w.op = rec[k].op /\ w.age = rec[k].age
         /\ ok => w.status = "completed" /\ w.result = r
         /\ ~ok => w.status = "failed"
  <2>1. CASE Persist(r) \/ PersistLostAck(r)
    <3>1. rec' = [rec EXCEPT ![k] = Settled(rec[k], outcome[r], r)]
      BY <2>1 DEF Persist, PersistLostAck, PersistWrite
    <3>2. /\ Settled(rec[k], outcome[r], r) \in Records
          /\ Settled(rec[k], outcome[r], r).op = rec[k].op
          /\ Settled(rec[k], outcome[r], r).age = rec[k].age
          /\ ok => /\ Settled(rec[k], outcome[r], r).status = "completed"
                   /\ Settled(rec[k], outcome[r], r).result = r
          /\ ~ok => Settled(rec[k], outcome[r], r).status = "failed"
      BY <1>4, SettledRow
    <3> QED BY <3>1, <3>2
  <2>2. CASE Fallback(r)
    <3>1. ~ok
      BY <2>2 DEF Fallback, IInv, CallInv, OutcomeKnown
    <3> QED BY <1>4, <2>2, <3>1, FailedRow DEF Fallback
  <2> QED BY <2>1, <2>2
<1>6. /\ pc'[r] \in {"persist", "fallback", "done"}
      /\ pc'[r] = "persist" => pc[r] = "persist"
      /\ pc'[r] = "fallback" => outcome[r] = "threw"
      /\ reply'[r] # "replayed"
      /\ \A q \in Reqs \ {r} : pc'[q] = pc[q] /\ reply'[q] = reply[q]
  <2>1. reply[r] # "replayed" /\ FinalReply(r) # "replayed"
    BY <1>1 DEF IInv, CallInv, AnswersKnown, FinalReply
  <2>2. CASE Persist(r) \/ Fallback(r)
    BY <1>2, <2>1, <2>2 DEF Persist, Fallback, Answer
  <2>3. CASE PersistLostAck(r)
    BY <1>2, <2>1, <2>3 DEF PersistLostAck, RetryPersist, GiveUpPersist, Answer
  <2> QED BY <2>2, <2>3
<1>7. /\ slack' = slack \/ slack' = [slack EXCEPT ![k] = @ + 1]
      /\ slack'[k] = 0 /\ ~ok => pc'[r] = "done"
  BY <1>2, <1>3 DEF Persist, PersistLostAck, Fallback, Answer
<1>8. \A x \in Keys : slack'[x] = 0 => slack[x] = 0
  BY <1>2, <1>3, <1>7
<1>9. w # NoRecord /\ rec'[k] = w /\ \A x \in Keys \ {k} : rec'[x] = rec[x]
  BY <1>2, <1>3, <1>5, RecordFields
<1>10. rec[k].op = OpOf(r) /\ ~IsExpired(rec[k])
  BY <1>1 DEF IInv, CallInv, ExecutorOwnsOperation, Executing
<1>11. TableSound'
  <2> SUFFICES ASSUME NEW x \in Keys PROVE RowSound(rec[x], x)'
    BY DEF TableSound
  <2>1. CASE x = k
    BY <1>1, <1>3, <1>5, <1>9, <1>10, <2>1 DEF RowSound
  <2>2. CASE x # k
    BY <1>1, <1>9, <2>2 DEF IInv, CallInv, TableSound, RowSound, KeyOf, OpOf
  <2> QED BY <2>1, <2>2
<1>12. ViewSound'
  BY <1>1, <1>3 DEF IInv, CallInv, ViewSound, RowSound, KeyOf, OpOf
<1>16. ExecutorOwnsOperation'
  <2> SUFFICES ASSUME NEW q \in Reqs, pc'[q] \in Executing
               PROVE  /\ rec'[KeyOf(q)] # NoRecord
                      /\ rec'[KeyOf(q)].op = OpOf(q)
                      /\ ~IsExpired(rec'[KeyOf(q)])
    BY <1>3 DEF ExecutorOwnsOperation, IsExpired
  <2>1. pc[q] \in Executing
    BY <1>1, <1>6 DEF Executing
  <2>2. CASE KeyOf(q) # k
    BY <1>3, <1>9, <2>1, <2>2 DEF IInv, CallInv, ExecutorOwnsOperation
  <2>3. CASE KeyOf(q) = k
    <3>1. rec[k].op = OpOf(q)
      BY <2>1, <2>3 DEF IInv, CallInv, ExecutorOwnsOperation
    <3> QED BY <1>5, <1>9, <1>10, <2>3, <3>1 DEF IsExpired
  <2> QED BY <2>2, <2>3
<1>17. ReplayIsOwnResult'
  BY <1>1, <1>6 DEF IInv, CallInv, ReplayIsOwnResult
<1>18. SoleHolder'
  <2>1. \A q \in Reqs, x \in Keys : Holds(q, x)' => Holds(q, x)
    BY <1>1, <1>3, <1>6 DEF Holds
  <2>2. ASSUME NEW q \in Reqs, Holds(q, k)', slack'[k] = 0 PROVE w.status # "failed"
    <3>1. CASE ok
      BY <1>5, <3>1
    <3>2. CASE ~ok
      <4>1. Holds(r, k) /\ Holds(q, k)
        BY <1>1, <1>3, <2>1, <2>2, <3>2 DEF Holds
      <4>2. q = r
        BY <1>3, <1>8, <2>2, <4>1 DEF IInv, CallInv, SoleHolder
      <4>3. r \notin effects[k]
        BY <1>3, <1>8, <2>2, <3>2 DEF IInv, CallInv, EffectsSound
      <4> QED BY <1>1, <1>3, <1>7, <2>2, <3>2, <4>2, <4>3 DEF Holds
    <3> QED BY <3>1, <3>2
  <2> SUFFICES ASSUME NEW x \in Keys, slack'[x] = 0
               PROVE  /\ \A p, q \in Reqs : Holds(p, x)' /\ Holds(q, x)' => p = q
                      /\ \A q \in Reqs : Holds(q, x)' => rec'[x] # NoRecord /\ rec'[x].status # "failed"
    BY DEF SoleHolder
  <2>3. \A p, q \in Reqs : Holds(p, x)' /\ Holds(q, x)' => p = q
    BY <1>8, <2>1 DEF IInv, CallInv, SoleHolder
  <2>4. ASSUME NEW q \in Reqs, Holds(q, x)' PROVE rec'[x] # NoRecord /\ rec'[x].status # "failed"
    <3>1. CASE x # k
      BY <1>8, <1>9, <2>1, <2>4, <3>1 DEF IInv, CallInv, SoleHolder
    <3>2. CASE x = k
      <4>1. k' = k
        BY <1>3
      <4> QED BY <1>9, <2>2, <2>4, <3>2, <4>1
    <3> QED BY <3>1, <3>2
  <2> QED BY <2>3, <2>4
<1>19. EffectsSound'
  BY <1>1, <1>2, <1>3, <1>8 DEF IInv, CallInv, EffectsSound, KeyOf
<1>20. SuccessCounted'
  BY <1>1, <1>3, <1>6 DEF IInv, CallInv, SuccessCounted
<1>21. CompletedCounted'
  <2> SUFFICES ASSUME NEW x \in Keys, slack'[x] = 0, rec'[x] # NoRecord, rec'[x].status = "completed"
               PROVE  rec'[x].result \in effects[x]
    BY <1>1 DEF CompletedCounted
  <2>1. CASE x # k
    BY <1>8, <1>9, <2>1 DEF IInv, CallInv, CompletedCounted
  <2>2. CASE x = k
    <3>1. ok /\ rec'[x].result = r
      BY <1>5, <1>9, <2>2
    <3>2. pc[r] = "persist"
      BY <1>1, <3>1 DEF IInv, CallInv, OutcomeKnown
    <3> QED BY <2>2, <3>1, <3>2 DEF IInv, CallInv, SuccessCounted
  <2> QED BY <2>1, <2>2
<1> QED BY <1>11, <1>12, <1>16, <1>17, <1>18, <1>19, <1>20, <1>21 DEF IInv
----------------------------------------------------------------------------
(* Time passes. *)

LEMMA TimeStep ==
    ASSUME IInv, CallInv', NEW k \in Keys, GrowStale(k) \/ Expire(k)
    PROVE  IInv'
<1>1. rec[k] # NoRecord /\ UNCHANGED <<call, pc, view, dirty, outcome, reply, effects, slack>>
  BY DEF GrowStale, Expire
<1>2. rec \in [Keys -> Records \cup {NoRecord}] /\ rec[k] \in Records
  BY <1>1 DEF IInv, CallInv, TypeOK
<1>3. PICK a \in {"stale", "expired"} :
         /\ rec' = [rec EXCEPT ![k] = Row(rec[k].op, rec[k].status, a, rec[k].result)]
         /\ a = "expired" => Executors(k) = {}
         /\ rec[k].age # "expired"
  BY DEF GrowStale, Expire
<1>4. PICK w \in Records :
         /\ rec' = [rec EXCEPT ![k] = w]
         /\ w.op = rec[k].op /\ w.status = rec[k].status /\ w.age = a /\ w.result = rec[k].result
  <2> DEFINE w0 == Row(rec[k].op, rec[k].status, a, rec[k].result)
  <2>1. a \in Ages
    BY <1>3 DEF Ages
  <2>2. /\ w0 \in Records
        /\ w0.op = rec[k].op /\ w0.status = rec[k].status /\ w0.age = a /\ w0.result = rec[k].result
    BY <1>2, <2>1, AgedRow
  <2>3. rec' = [rec EXCEPT ![k] = w0]
    BY <1>3
  <2> HIDE DEF w0
  <2> QED BY <2>2, <2>3
<1>5. w # NoRecord /\ rec'[k] = w /\ \A x \in Keys \ {k} : rec'[x] = rec[x]
  BY <1>2, <1>4, RecordFields
<1>6. \A q \in Reqs : KeyOf(q) \in Keys /\ KeyOf(q)' = KeyOf(q) /\ OpOf(q)' = OpOf(q)
  BY <1>1, KeyType DEF IInv, CallInv, KeyOf, OpOf
<1>11. TableSound'
  BY <1>1, <1>4, <1>5, <1>6 DEF IInv, CallInv, TableSound, RowSound, KeyOf, OpOf
<1>12. ViewSound'
  BY <1>1, <1>6 DEF IInv, CallInv, ViewSound, RowSound, KeyOf, OpOf
<1>14. SuccessCounted' /\ EffectsSound'
  BY <1>1, <1>6 DEF IInv, CallInv, SuccessCounted, EffectsSound, TypeOK
<1>15. ExecutorOwnsOperation'
  <2> SUFFICES ASSUME NEW q \in Reqs, pc[q] \in Executing
               PROVE  /\ rec'[KeyOf(q)] # NoRecord
                      /\ rec'[KeyOf(q)].op = OpOf(q)
                      /\ ~IsExpired(rec'[KeyOf(q)])
    BY <1>1, <1>6 DEF ExecutorOwnsOperation, IsExpired
  <2>1. CASE KeyOf(q) # k
    BY <1>5, <1>6, <2>1 DEF IInv, CallInv, ExecutorOwnsOperation
  <2>2. CASE KeyOf(q) = k
    <3>1. Executors(k) # {}
      BY <2>2 DEF Executors
    <3> QED BY <1>3, <1>4, <1>5, <2>2, <3>1 DEF IInv, CallInv, ExecutorOwnsOperation, IsExpired
  <2> QED BY <2>1, <2>2
<1>16. ReplayIsOwnResult'
  BY <1>1 DEF IInv, CallInv, ReplayIsOwnResult
<1>17. SoleHolder'
  <2>1. \A q \in Reqs, x \in Keys : Holds(q, x)' => Holds(q, x)
    BY <1>1, <1>6 DEF Holds
  <2> QED BY <1>1, <1>4, <1>5, <2>1 DEF IInv, CallInv, SoleHolder
<1>18. CompletedCounted'
  BY <1>1, <1>4, <1>5 DEF IInv, CallInv, CompletedCounted
<1> QED BY <1>11, <1>12, <1>14, <1>15, <1>16, <1>17, <1>18 DEF IInv

----------------------------------------------------------------------------
(* The theorems *)

LEMMA InvInit == Init => IInv
<1> SUFFICES ASSUME Init PROVE IInv
  OBVIOUS
<1>1. CallInv
  BY CallInvInit
<1>2. \A r \in Reqs : KeyOf(r) \in Keys /\ pc[r] = "idle" /\ view[r] = NoRecord
                      /\ outcome[r] = "none" /\ reply[r] = "none"
  BY <1>1, KeyType DEF CallInv, Init, CallsInit
<1>3. \A k \in Keys : rec[k] = NoRecord /\ effects[k] = {}
  BY DEF Init, CallsInit
<1>4. \A r \in Reqs, k \in Keys : ~Holds(r, k)
  BY <1>2, <1>3 DEF Holds
<1> QED BY <1>1, <1>2, <1>3, <1>4
        DEF IInv, TableSound, ViewSound, RowSound, ExecutorOwnsOperation, Executing,
            ReplayIsOwnResult, SoleHolder, EffectsSound, SuccessCounted, CompletedCounted

LEMMA InvNext ==
    ASSUME IInv, [Next]_vars PROVE IInv'
<1>1. ASSUME NEW r \in Reqs, Arrive(r) \/ RejectUpfront(r) \/ Step(r) \/ Crash(r) PROVE IInv'
  <2>1. CallInv'
    BY <1>1, CallInvNext DEF IInv, Next
  <2>2. CASE Acquire(r) \/ AcquireLostAck(r)
    BY <2>1, <2>2, AcquireStep
  <2>3. CASE HandlerSucceeds(r) \/ HandlerFails(r) \/ HandlerThrowsAfterCommit(r)
    BY <2>1, <2>3, HandlerStep
  <2>4. CASE Persist(r) \/ PersistLostAck(r) \/ Fallback(r)
    BY <2>1, <2>4, SettleStep
  <2>5. CASE \/ Arrive(r) \/ RejectUpfront(r) \/ Crash(r)
             \/ BeginAcquire(r) \/ ReturnExisting(r) \/ UniqueViolation(r)
             \/ SerializationFailure(r) \/ RereadHit(r) \/ RereadMiss(r)
             \/ AcquireError(r) \/ AnswerFromRecord(r)
             \/ PersistError(r) \/ FallbackError(r)
    BY <2>1, <2>5, QuietActions, QuietStep DEF IInv
  <2> QED BY <1>1, <2>2, <2>3, <2>4, <2>5 DEF Step
<1>2. ASSUME NEW k \in Keys, GrowStale(k) \/ Expire(k) PROVE IInv'
  <2>1. CallInv'
    BY <1>2, CallInvNext DEF IInv, Next
  <2> QED BY <1>2, <2>1, TimeStep
<1>3. ASSUME UNCHANGED vars PROVE IInv'
  <2>1. CallInv' /\ (\A v, k : RowSound(v, k)' <=> RowSound(v, k)) /\ \A q, k : Holds(q, k)' <=> Holds(q, k)
    BY <1>3, CallInvStutter DEF IInv, vars, RowSound, Holds, KeyOf, OpOf
  <2> QED BY <1>3, <2>1
          DEF IInv, CallInv, TypeOK, vars, TableSound, ViewSound, RowSound, ExecutorOwnsOperation,
              ReplayIsOwnResult, SoleHolder, EffectsSound, IsExpired, SuccessCounted,
              CompletedCounted, Holds, KeyOf, OpOf
<1> QED BY <1>1, <1>2, <1>3 DEF Next

\* The strengthened invariant holds of every reachable state.
THEOREM InductiveInvariant == Spec => []IInv
<1> QED BY InvInit, InvNext, PTL DEF Spec

\* Whatever races with it, the handler runs only under a row claimed for the
\* same tool, caller and input (canClaimRecord and the Serializable acquire).
THEOREM ExecutorSafety == Spec => []ExecutorOwnsOperation
<1>1. IInv => ExecutorOwnsOperation
  BY DEF IInv, CallInv
<1> QED BY <1>1, InductiveInvariant, PTL

\* A replayed result is the result of a successful call with the same key,
\* tool, caller and input (handleExistingRecord).
THEOREM ReplaySafety == Spec => []ReplayIsOwnResult
<1>1. IInv => ReplayIsOwnResult
  BY DEF IInv, CallInv
<1> QED BY <1>1, InductiveInvariant, PTL

\* Absent a stale-pending reclaim, a lost acknowledgement of a failure and a
\* throw after commit, the side effect of a key is committed at most once per
\* TTL window, for any number of concurrent and crashing calls.
THEOREM AtMostOnceHolds == Spec => []AtMostOnce
<1>1. IInv => AtMostOnce
  <2> SUFFICES ASSUME IInv, NEW k \in Keys, slack[k] = 0, NEW r \in effects[k], NEW q \in effects[k]
               PROVE  r = q
    BY DEF AtMostOnce
  <2>1. r \in Reqs /\ q \in Reqs /\ KeyOf(r) = k /\ KeyOf(q) = k
    BY DEF IInv, CallInv, TypeOK, EffectsSound
  <2> QED BY <2>1 DEF IInv, CallInv, SoleHolder, Holds
<1> QED BY <1>1, InductiveInvariant, PTL

\* As long as nothing weakened the guarantee, a completed row keeps its
\* status and its result until its TTL has passed: no late writer, retry or
\* reclaim takes a published result back.
THEOREM CompletedIsFinalHolds == Spec => CompletedIsFinal
<1>1. ASSUME IInv, [Next]_vars PROVE [\A k \in Keys : CompletedKept(k)]_vars
  <2> SUFFICES ASSUME Next, NEW k \in Keys,
                      rec[k] # NoRecord, rec[k].status = "completed", ~IsExpired(rec[k]), slack'[k] = 0
               PROVE  rec'[k] # NoRecord /\ rec'[k].status = "completed" /\ rec'[k].result = rec[k].result
    BY <1>1 DEF CompletedKept
  <2>t. /\ rec \in [Keys -> Records \cup {NoRecord}] /\ rec[k] \in Records /\ slack \in [Keys -> Nat]
        /\ \A q \in Reqs : KeyOf(q) \in Keys
    BY <1>1, KeyType DEF IInv, CallInv, TypeOK
  <2>1. ASSUME NEW r \in Reqs, Arrive(r) \/ RejectUpfront(r) \/ Step(r) \/ Crash(r)
        PROVE  rec'[k] # NoRecord /\ rec'[k].status = "completed" /\ rec'[k].result = rec[k].result
    <3>1. CASE \/ Arrive(r) \/ RejectUpfront(r) \/ Crash(r)
               \/ BeginAcquire(r) \/ ReturnExisting(r) \/ UniqueViolation(r)
               \/ SerializationFailure(r) \/ RereadHit(r) \/ RereadMiss(r)
               \/ AcquireError(r) \/ AnswerFromRecord(r)
               \/ PersistError(r) \/ FallbackError(r)
      BY <1>1, <3>1, QuietActions DEF IInv, Quiet
    <3>2. CASE HandlerSucceeds(r) \/ HandlerFails(r) \/ HandlerThrowsAfterCommit(r)
      BY <3>2 DEF HandlerSucceeds, HandlerFails, HandlerThrowsAfterCommit
    <3>3. CASE Acquire(r) \/ AcquireLostAck(r)
      <4>1. pc[r] = "commit" /\ AcquireWrite(r, KeyOf(r))
        BY <3>3 DEF Acquire, AcquireLostAck
      <4>2. CASE KeyOf(r) # k
        BY <2>t, <4>1, <4>2 DEF AcquireWrite, WriteNew, WriteOverExpired, WriteClaim
      <4>3. CASE KeyOf(r) = k
        <5>1. ~WriteNew(r, k)
          BY DEF WriteNew
        <5>2. ~WriteOverExpired(r, k)
          BY <1>1, <4>1, <4>3 DEF WriteOverExpired, IInv, CallInv, SnapshotCurrent
        <5>3. ~WriteClaim(r, k)
          BY <1>1, <4>1, <4>3 DEF WriteClaim, IsAbandoned, IInv, CallInv, SnapshotCurrent
        <5> QED BY <4>1, <4>3, <5>1, <5>2, <5>3 DEF AcquireWrite
      <4> QED BY <4>2, <4>3
    <3>4. CASE Persist(r) \/ PersistLostAck(r) \/ Fallback(r)
      <4>1. CASE KeyOf(r) # k
        BY <2>t, <3>4, <4>1 DEF Persist, PersistLostAck, Fallback, PersistWrite
      <4>2. CASE KeyOf(r) = k
        <5>1. slack[k] = 0
          BY <2>t, <3>4 DEF Persist, PersistLostAck, Fallback
        <5>2. rec[k].result \in effects[k] /\ rec[k].result \in Reqs /\ KeyOf(rec[k].result) = k
              /\ outcome[rec[k].result] = "completed"
          BY <1>1, <5>1 DEF IInv, CallInv, CompletedCounted, TableSound, RowSound
        <5>3. pc[r] \in {"persist", "fallback"}
          BY <3>4 DEF Persist, PersistLostAck, Fallback
        <5>4. Holds(r, k) /\ Holds(rec[k].result, k)
          BY <1>1, <4>2, <5>2, <5>3 DEF Holds, IInv, CallInv, OutcomeKnown, SuccessCounted
        <5>5. r = rec[k].result
          BY <1>1, <5>1, <5>2, <5>4 DEF IInv, CallInv, SoleHolder
        <5>6. ~Fallback(r)
          BY <1>1, <5>2, <5>5 DEF Fallback, IInv, CallInv, OutcomeKnown
        <5>7. rec' = [rec EXCEPT ![k] = Settled(rec[k], outcome[r], r)]
          BY <3>4, <4>2, <5>6 DEF Persist, PersistLostAck, PersistWrite
        <5>8. /\ Settled(rec[k], outcome[r], r) \in Records
              /\ Settled(rec[k], outcome[r], r).status = "completed"
              /\ Settled(rec[k], outcome[r], r).result = r
          BY <2>t, <5>2, <5>5, SettledRow
        <5> QED BY <2>t, <5>5, <5>7, <5>8, RecordFields
      <4> QED BY <4>1, <4>2
    <3> QED BY <2>1, <3>1, <3>2, <3>3, <3>4 DEF Step
  <2>2. ASSUME NEW x \in Keys, GrowStale(x) \/ Expire(x)
        PROVE  rec'[k] # NoRecord /\ rec'[k].status = "completed" /\ rec'[k].result = rec[k].result
    <3>1. CASE x # k
      BY <2>t, <2>2, <3>1 DEF GrowStale, Expire
    <3>2. CASE x = k
      <4>1. PICK a \in Ages : rec' = [rec EXCEPT ![k] = Row(rec[k].op, rec[k].status, a, rec[k].result)]
        BY <2>2, <3>2 DEF GrowStale, Expire, Ages
      <4>2. rec'[k] = Row(rec[k].op, rec[k].status, a, rec[k].result)
        BY <2>t, <4>1
      <4> QED BY <2>t, <4>2, AgedRow, RecordFields
    <3> QED BY <3>1, <3>2
  <2> QED BY <2>1, <2>2 DEF Next
<1> QED BY <1>1, InductiveInvariant, PTL DEF Spec, CompletedIsFinal

----------------------------------------------------------------------------
(* The cleanup job.  Its DELETE goes by key, so what a row was when it was *)
(* picked is all that is known of what is deleted: every batch holds rows  *)
(* that had expired (Batches).  The row under a doomed key may have been   *)
(* claimed anew before the DELETE; it is still there, and stays as it is,  *)
(* until the job commits (the last part of JobsInv).  A run that has come  *)
(* to its commit has every key it owes in a batch: a batch that was not    *)
(* full was all there was (Sweeping).                                      *)

ExpiredRows == {v \in Records : IsExpired(v)}
Batches == UNION {[S -> ExpiredRows] : S \in SUBSET Keys}
Working == {"scan", "delete", "commit"}
JobPhases == {"idle", "done", "failed"} \cup Working

JobsInv ==
    /\ jpc \in [Jobs -> JobPhases]
    /\ lock \in Jobs \cup {NoJob}
    /\ due \in [Jobs -> SUBSET Keys]
    /\ picked \in [Jobs -> Batches]
    /\ doomed \in Batches
    /\ \A j \in Jobs : jpc[j] \in Working <=> lock = j
    /\ lock = NoJob => doomed = NoRows
    /\ \A k \in DOMAIN doomed : rec[k] # NoRecord

Sweeping ==
    /\ \A j \in Jobs : due[j] # {} => jpc[j] \in Working
    /\ \A j \in Jobs : \A k \in due[j] : rec[k] # NoRecord /\ IsExpired(rec[k])
    /\ \A j \in Jobs : jpc[j] = "delete" /\ Cardinality(DOMAIN picked[j]) # BatchSize
          => due[j] \subseteq DOMAIN picked[j] \cup DOMAIN doomed
    /\ \A j \in Jobs : jpc[j] = "commit" => due[j] \subseteq DOMAIN doomed

CleanupInv == CallInv /\ JobsInv /\ Sweeping

LEMMA BatchFields ==
    ASSUME NEW f \in Batches
    PROVE  /\ DOMAIN f \subseteq Keys
           /\ f \in [DOMAIN f -> ExpiredRows]
           /\ \A k \in DOMAIN f : f[k] \in Records /\ IsExpired(f[k])
BY DEF Batches, ExpiredRows

LEMMA EmptyBatch == NoRows \in Batches /\ DOMAIN NoRows = {}
<1>1. NoRows \in [{} -> ExpiredRows] /\ DOMAIN NoRows = {} /\ {} \in SUBSET Keys
  BY DEF NoRows
<1> QED BY <1>1 DEF Batches

\* A step of a call or of time leaves the job and the rows it holds alone.
LEMMA JobsBeside ==
    ASSUME JobsInv, Sweeping, BesideJobs
    PROVE  JobsInv' /\ Sweeping'
<1>1. UNCHANGED <<jpc, lock, picked, doomed>> /\ \A k \in DOMAIN doomed : rec'[k] = rec[k]
  BY DEF BesideJobs
<1>2. due' = [j \in Jobs |-> {k \in due[j] : rec'[k] # NoRecord /\ IsExpired(rec'[k])}]
  BY DEF BesideJobs
<1>3. /\ due' \in [Jobs -> SUBSET Keys]
      /\ \A j \in Jobs : due'[j] \subseteq due[j]
      /\ \A j \in Jobs : \A k \in due'[j] : rec'[k] # NoRecord /\ IsExpired(rec'[k])
  BY <1>2 DEF JobsInv
<1>4. JobsInv'
  BY <1>1, <1>3 DEF JobsInv
<1>5. Sweeping'
  BY <1>1, <1>3 DEF Sweeping, IsExpired
<1> QED BY <1>4, <1>5

LEMMA PersistGoneKeeps ==
    ASSUME CleanupInv, NEW r \in Reqs, PersistGone(r)
    PROVE  CleanupInv'
<1>1. TypeOK'
  <2>1. FinalReply(r) \in Replies
    BY DEF FinalReply, Replies
  <2>2. pc' \in [Reqs -> Phases] /\ reply' \in [Reqs -> Replies]
    BY <2>1 DEF PersistGone, GiveUpPersist, Answer, CleanupInv, CallInv, TypeOK, Phases
  <2> QED BY <2>2 DEF PersistGone, CleanupInv, CallInv, TypeOK
<1>2. CallInv'
  BY <1>1, GiveUpQuiet, QuietKeeps DEF CleanupInv
<1>3. UNCHANGED rec /\ UNCHANGED jvars
  BY DEF PersistGone
<1>4. JobsInv' /\ Sweeping'
  BY <1>3 DEF CleanupInv, JobsInv, Sweeping, IsExpired, jvars
<1> QED BY <1>2, <1>4 DEF CleanupInv

LEMMA BeginKeeps ==
    ASSUME JobsInv, Sweeping, NEW j \in Jobs, BeginCleanup(j) \/ SkipCleanup(j)
    PROVE  JobsInv' /\ Sweeping'
<1>1. CASE BeginCleanup(j)
  <2>1. due' \in [Jobs -> SUBSET Keys]
    BY <1>1 DEF BeginCleanup, JobsInv
  <2>2. \A i \in Jobs : jpc'[i] \in Working <=> lock' = i
    BY <1>1, CleanupAssumption DEF BeginCleanup, JobsInv, Working
  <2>3. JobsInv'
    BY <1>1, <2>1, <2>2 DEF BeginCleanup, JobsInv, Working, JobPhases, vars
  <2>4. Sweeping'
    BY <1>1 DEF BeginCleanup, JobsInv, Sweeping, Working, IsExpired, vars
  <2> QED BY <2>3, <2>4
<1>2. CASE SkipCleanup(j)
  <2>1. JobsInv'
    BY <1>2 DEF SkipCleanup, JobsInv, Working, JobPhases, vars
  <2>2. Sweeping'
    BY <1>2 DEF SkipCleanup, JobsInv, Sweeping, Working, IsExpired, vars
  <2> QED BY <2>1, <2>2
<1> QED BY <1>1, <1>2

LEMMA ScanKeeps ==
    ASSUME JobsInv, Sweeping, TypeOK, NEW j \in Jobs, Scan(j)
    PROVE  JobsInv' /\ Sweeping'
<1>1. PICK S \in SUBSET Reapable(j) :
         /\ Cardinality(S) = BatchSize \/ S = Reapable(j)
         /\ picked' = [picked EXCEPT ![j] = [k \in S |-> rec[k]]]
         /\ jpc' = [jpc EXCEPT ![j] = IF S = {} THEN "commit" ELSE "delete"]
  BY DEF Scan
<1>2. [k \in S |-> rec[k]] \in Batches
  <2>1. S \in SUBSET Keys
    BY DEF Reapable, JobsInv
  <2>2. \A k \in S : rec[k] \in ExpiredRows
    BY <2>1 DEF Reapable, ExpiredRows, Sweeping, TypeOK
  <2> QED BY <2>1, <2>2 DEF Batches
<1>3. picked' \in [Jobs -> Batches]
  BY <1>1, <1>2 DEF JobsInv
<1>4. jpc[j] = "scan" /\ UNCHANGED <<vars, lock, due, doomed>>
  BY DEF Scan
<1>5. jpc' \in [Jobs -> JobPhases] /\ \A i \in Jobs : jpc'[i] \in Working <=> lock = i
  BY <1>1, <1>4 DEF JobsInv, Working, JobPhases
<1>6. JobsInv'
  BY <1>3, <1>4, <1>5 DEF JobsInv, vars
<1>7. picked'[j] = [k \in S |-> rec[k]] /\ \A i \in Jobs : i # j => jpc'[i] = jpc[i] /\ picked'[i] = picked[i]
  BY <1>1 DEF JobsInv
<1>8. due[j] \subseteq S \cup DOMAIN doomed \/ Cardinality(S) = BatchSize
  BY <1>1 DEF Reapable
<1>9. S # {} \/ due[j] \subseteq DOMAIN doomed
  <2>1. Cardinality({}) = 0
    BY FS_EmptySet
  <2> QED BY <1>8, <2>1, CleanupAssumption
<1>10. jpc'[j] = IF S = {} THEN "commit" ELSE "delete"
  BY <1>1 DEF JobsInv
<1>11. Sweeping'
  <2>1. UNCHANGED rec /\ UNCHANGED due /\ UNCHANGED doomed
    BY <1>4 DEF vars
  <2>2. DOMAIN picked'[j] = S
    BY <1>7
  <2>3. \A i \in Jobs : jpc'[i] = "delete" /\ Cardinality(DOMAIN picked'[i]) # BatchSize
           => due[i] \subseteq DOMAIN picked'[i] \cup DOMAIN doomed
    BY <1>7, <1>8, <2>2 DEF Sweeping
  <2>4. \A i \in Jobs : jpc'[i] = "commit" => due[i] \subseteq DOMAIN doomed
    BY <1>7, <1>9, <1>10 DEF Sweeping
  <2>5. \A i \in Jobs : due[i] # {} => jpc'[i] \in Working
    BY <1>7, <1>10 DEF Sweeping, Working
  <2> QED BY <2>1, <2>3, <2>4, <2>5 DEF Sweeping, IsExpired
<1> QED BY <1>6, <1>11

LEMMA DeleteKeeps ==
    ASSUME JobsInv, Sweeping, NEW j \in Jobs, Delete(j)
    PROVE  JobsInv' /\ Sweeping'
<1> DEFINE D == {q \in DOMAIN picked[j] : rec[q] # NoRecord}
<1>1. /\ jpc[j] = "delete" /\ UNCHANGED <<vars, lock, due, picked>>
      /\ doomed' = [k \in D \cup DOMAIN doomed |-> IF k \in D THEN picked[j][k] ELSE doomed[k]]
      /\ jpc' = [jpc EXCEPT ![j] = IF Cardinality(DOMAIN picked[j]) = BatchSize THEN "scan" ELSE "commit"]
  BY DEF Delete
<1>2. /\ picked[j] \in Batches /\ doomed \in Batches /\ jpc[j] \in Working
      /\ jpc \in [Jobs -> JobPhases]
  BY <1>1 DEF JobsInv, Working
<1>3. doomed' \in Batches /\ DOMAIN doomed' = D \cup DOMAIN doomed
  <2>1. D \cup DOMAIN doomed \in SUBSET Keys
    BY <1>2, BatchFields
  <2>2. \A k \in D \cup DOMAIN doomed :
           (IF k \in D THEN picked[j][k] ELSE doomed[k]) \in ExpiredRows
    BY <1>2, BatchFields DEF ExpiredRows
  <2> HIDE DEF D
  <2> QED BY <1>1, <2>1, <2>2 DEF Batches
<1>4. jpc' \in [Jobs -> JobPhases] /\ \A i \in Jobs : jpc'[i] \in Working <=> lock = i
  BY <1>1, <1>2 DEF JobsInv, Working, JobPhases
<1>5. lock = j /\ j # NoJob
  BY <1>2, CleanupAssumption DEF JobsInv
<1>6. JobsInv'
  BY <1>1, <1>3, <1>4, <1>5 DEF JobsInv, vars
<1>7. Sweeping'
  <2>1. UNCHANGED rec /\ UNCHANGED due /\ UNCHANGED picked /\ DOMAIN doomed \subseteq DOMAIN doomed'
    BY <1>1, <1>3 DEF vars
  <2>2. \A i \in Jobs : i # j => jpc'[i] = jpc[i]
    BY <1>1, <1>2
  <2>3. jpc'[j] = IF Cardinality(DOMAIN picked[j]) = BatchSize THEN "scan" ELSE "commit"
    BY <1>1, <1>2
  <2>4. jpc'[j] = "commit" => due[j] \subseteq DOMAIN doomed'
    <3> SUFFICES ASSUME jpc'[j] = "commit", NEW k \in due[j] PROVE k \in DOMAIN doomed'
      OBVIOUS
    <3>1. Cardinality(DOMAIN picked[j]) # BatchSize
      BY <2>3
    <3>2. k \in DOMAIN picked[j] \cup DOMAIN doomed /\ rec[k] # NoRecord
      BY <1>1, <3>1 DEF Sweeping
    <3> QED BY <1>3, <3>2
  <2>5. \A i \in Jobs : jpc'[i] \in {"scan", "commit"} \/ (i # j /\ jpc'[i] = jpc[i])
    BY <2>2, <2>3
  <2> HIDE DEF D
  <2>6. \A i \in Jobs : due[i] # {} => jpc'[i] \in Working
    BY <2>2, <2>3 DEF Sweeping, Working
  <2>7. \A i \in Jobs : jpc'[i] = "commit" => due[i] \subseteq DOMAIN doomed'
    BY <2>1, <2>2, <2>4 DEF Sweeping
  <2>8. \A i \in Jobs : jpc'[i] = "delete" /\ Cardinality(DOMAIN picked[i]) # BatchSize
           => due[i] \subseteq DOMAIN picked[i] \cup DOMAIN doomed'
    BY <2>1, <2>5 DEF Sweeping
  <2> QED BY <2>1, <2>6, <2>7, <2>8 DEF Sweeping, IsExpired
<1> QED BY <1>6, <1>7

\* The job ends, with its deletions or without.
LEMMA EndKeeps ==
    ASSUME JobsInv, Sweeping, NEW j \in Jobs, CommitCleanup(j) \/ AbortCleanup(j)
    PROVE  JobsInv' /\ Sweeping'
<1>1. /\ jpc[j] \in Working /\ jpc' \in {[jpc EXCEPT ![j] = "done"], [jpc EXCEPT ![j] = "failed"]}
      /\ lock' = NoJob /\ doomed' = NoRows
      /\ picked' = [picked EXCEPT ![j] = NoRows] /\ due' = [due EXCEPT ![j] = {}]
  BY DEF CommitCleanup, AbortCleanup, Working
<1>2. picked' \in [Jobs -> Batches] /\ due' \in [Jobs -> SUBSET Keys] /\ doomed' \in Batches
      /\ DOMAIN doomed' = {}
  BY <1>1, EmptyBatch DEF JobsInv
<1>3. jpc' \in [Jobs -> JobPhases] /\ \A i \in Jobs : jpc'[i] \in Working <=> lock' = i
  BY <1>1, CleanupAssumption DEF JobsInv, Working, JobPhases
<1>4. JobsInv'
  BY <1>1, <1>2, <1>3 DEF JobsInv
<1>5. \A i \in Jobs : due'[i] = {}
  <2>1. \A i \in Jobs : i # j => jpc[i] \notin Working
    BY <1>1 DEF JobsInv
  <2> QED BY <1>1, <2>1 DEF JobsInv, Sweeping
<1>6. Sweeping'
  BY <1>5 DEF Sweeping
<1> QED BY <1>4, <1>6

LEMMA CommitKeeps ==
    ASSUME CleanupInv, NEW j \in Jobs, CommitCleanup(j)
    PROVE  CallInv'
<1>1. /\ rec' = [k \in Keys |-> IF k \in DOMAIN doomed THEN NoRecord ELSE rec[k]]
      /\ dirty' = [q \in Reqs |-> dirty[q] \/ (KeyOf(q) \in DOMAIN doomed /\ pc[q] = "commit")]
      /\ effects' = [k \in Keys |-> IF k \in DOMAIN doomed /\ IsExpired(rec[k]) THEN {} ELSE effects[k]]
      /\ UNCHANGED <<call, pc, view, attempt, outcome, reply, claimant>>
  BY DEF CommitCleanup
<1>2. /\ rec \in [Keys -> Records \cup {NoRecord}] /\ slack \in [Keys -> Nat] /\ dirty \in [Reqs -> BOOLEAN]
      /\ effects \in [Keys -> SUBSET Reqs]
  BY DEF CleanupInv, CallInv, TypeOK
<1>3. /\ DOMAIN doomed \subseteq Keys
      /\ \A k \in DOMAIN doomed : IsExpired(doomed[k]) /\ rec[k] # NoRecord
  BY BatchFields DEF CleanupInv, JobsInv
<1>4. /\ slack' \in [Keys -> Nat]
      /\ \A k \in Keys : /\ k \notin DOMAIN doomed => slack'[k] = slack[k]
                         /\ k \in DOMAIN doomed /\ IsExpired(rec[k]) => slack'[k] = 0
                         /\ k \in DOMAIN doomed /\ ~IsExpired(rec[k]) => slack'[k] = slack[k] + 1
  <2>1. slack' = [k \in Keys |->
           CASE k \in DOMAIN doomed /\ IsExpired(rec[k]) -> 0
             [] k \in DOMAIN doomed /\ ~IsExpired(rec[k]) /\ IsExpired(doomed[k]) -> slack[k] + 1
             [] OTHER -> slack[k]]
    BY DEF CommitCleanup
  <2> QED BY <1>2, <1>3, <2>1
<1>5. TypeOK'
  BY <1>1, <1>2, <1>4 DEF CleanupInv, CallInv, TypeOK
<1>6. \A q \in Reqs : KeyOf(q) \in Keys /\ KeyOf(q)' = KeyOf(q)
  BY <1>1, KeyType DEF CleanupInv, CallInv, KeyOf
<1>7. SnapshotCurrent'
  <2> SUFFICES ASSUME NEW q \in Reqs, pc[q] = "commit", ~dirty'[q], view[q] # NoRecord
               PROVE  /\ rec'[KeyOf(q)] # NoRecord
                      /\ rec'[KeyOf(q)].op = view[q].op
                      /\ rec'[KeyOf(q)].status = view[q].status
                      /\ IsExpired(view[q]) => IsExpired(rec'[KeyOf(q)])
    BY <1>1, <1>6 DEF SnapshotCurrent, IsExpired
  <2>1. ~dirty[q] /\ KeyOf(q) \notin DOMAIN doomed
    BY <1>1
  <2>2. rec'[KeyOf(q)] = rec[KeyOf(q)]
    BY <1>1, <1>6, <2>1
  <2> QED BY <2>1, <2>2 DEF CleanupInv, CallInv, SnapshotCurrent
<1>8. OutcomeKnown' /\ AnswersKnown'
  BY <1>1 DEF CleanupInv, CallInv, OutcomeKnown, AnswersKnown
<1>9. ExpiredUnused'
  BY <1>1, <1>6 DEF CleanupInv, CallInv, ExpiredUnused, IsExpired
<1>10. ASSUME NEW k \in Keys PROVE Balanced(k)'
  <2>1. slack[k] \in Nat /\ Claimable(k) \in {0, 1} /\ Claimable(k)' \in {0, 1} /\ Balanced(k)
    BY BalanceType DEF CleanupInv, CallInv, Claimable
  <2>2. Spenders(k)' \subseteq Spenders(k) /\ effects'[k] \subseteq effects[k]
    BY <1>1, <1>6 DEF Spenders, Spends
  <2>3. CASE k \notin DOMAIN doomed
    <3>1. Claimable(k)' = Claimable(k) /\ slack'[k] = slack[k]
      BY <1>1, <1>4, <2>3 DEF Claimable
    <3> QED BY <1>5, <2>1, <2>2, <3>1, BalanceShrinks DEF CleanupInv, CallInv
  <2>4. CASE k \in DOMAIN doomed /\ IsExpired(rec[k])
    <3>1. Spenders(k) = {}
      BY <1>3, <2>4 DEF CleanupInv, CallInv, ExpiredUnused, Executing, Spenders, Spends
    <3>2. Spenders(k)' = {} /\ effects'[k] = {} /\ slack'[k] = 0
      BY <1>1, <1>4, <2>2, <2>4, <3>1
    <3>3. IsFiniteSet({}) /\ Cardinality({}) = 0
      BY FS_EmptySet
    <3> QED BY <2>1, <3>2, <3>3 DEF Balanced
  <2>5. CASE k \in DOMAIN doomed /\ ~IsExpired(rec[k])
    <3>1. slack'[k] = slack[k] + 1
      BY <1>4, <2>5
    <3>2. Claimable(k)' + slack[k] <= Claimable(k) + slack'[k]
      BY <2>1, <3>1
    <3> QED BY <1>5, <2>1, <2>2, <3>2, BalanceShrinks DEF CleanupInv, CallInv
  <2> QED BY <2>3, <2>4, <2>5
<1> QED BY <1>5, <1>7, <1>8, <1>9, <1>10 DEF CallInv

LEMMA CleanupInvNext ==
    ASSUME CleanupInv, [CleanupNext]_cvars
    PROVE  CleanupInv'
<1>1. CASE Next /\ BesideJobs
  BY <1>1, CallInvNext, JobsBeside DEF CleanupInv
<1>2. CASE \E r \in Reqs : PersistGone(r)
  BY <1>2, PersistGoneKeeps
<1>3. ASSUME NEW j \in Jobs, BeginCleanup(j) \/ SkipCleanup(j) \/ JobStep(j) \/ AbortCleanup(j)
      PROVE  CleanupInv'
  <2>1. JobsInv' /\ Sweeping'
    BY <1>3, BeginKeeps, ScanKeeps, DeleteKeeps, EndKeeps DEF CleanupInv, CallInv, JobStep
  <2>2. CASE CommitCleanup(j)
    BY <2>1, <2>2, CommitKeeps DEF CleanupInv
  <2>3. CASE ~CommitCleanup(j)
    <3>1. UNCHANGED vars
      BY <1>3, <2>3 DEF BeginCleanup, SkipCleanup, JobStep, Scan, Delete, AbortCleanup, vars
    <3> QED BY <2>1, <3>1, CallInvStutter DEF CleanupInv
  <2> QED BY <2>2, <2>3
<1>4. CASE UNCHANGED cvars
  <2>1. UNCHANGED vars /\ UNCHANGED jvars
    BY <1>4 DEF cvars
  <2>2. JobsInv' /\ Sweeping'
    BY <2>1 DEF CleanupInv, JobsInv, Sweeping, IsExpired, jvars, vars
  <2> QED BY <2>1, <2>2, CallInvStutter DEF CleanupInv
<1> QED BY <1>1, <1>2, <1>3, <1>4 DEF CleanupNext

LEMMA CleanupInvInit == CleanupInit => CleanupInv
<1> SUFFICES ASSUME CleanupInit PROVE CleanupInv
  OBVIOUS
<1>1. CallInv
  BY CallInvInit DEF CleanupInit
<1>2. JobsInv
  BY EmptyBatch, CleanupAssumption DEF CleanupInit, JobsInit, JobsInv, Working, JobPhases
<1>3. Sweeping
  BY DEF CleanupInit, JobsInit, Sweeping
<1> QED BY <1>1, <1>2, <1>3 DEF CleanupInv

\* What is true of the calls with any number of runs of the cleanup job beside
\* them, whatever each of them has picked.
THEOREM CleanupInvariant == CleanupSpec => []CleanupInv
<1> QED BY CleanupInvInit, CleanupInvNext, PTL DEF CleanupSpec

\* The cleanup job breaks neither promise: a run adds at most one effect for a
\* live row that it deletes by key, and that one is counted in slack.
THEOREM CleanupKeepsTheBound == CleanupSpec => [](BoundedDuplication /\ AtMostOnce)
<1>1. CleanupInv => BoundedDuplication /\ AtMostOnce
  BY BalanceBounds DEF CleanupInv
<1> QED BY <1>1, CleanupInvariant, PTL

\* A run of the job that commits has taken every row that had expired at its
\* cutoff, but for rows that were claimed anew under it, in batches of any size
\* (the loop of cleanup-expired-idempotency.ts).
THEOREM SweepIsCompleteAlways == CleanupSpec => SweepIsComplete
<1> DEFINE Swept == \A j \in Jobs : jpc[j] = "commit" /\ jpc'[j] = "done"
                                       => \A k \in due[j] : rec'[k] = NoRecord
<1>1. ASSUME CleanupInv, [CleanupNext]_cvars PROVE [Swept]_cvars
  <2> SUFFICES ASSUME CleanupNext, NEW j \in Jobs, jpc[j] = "commit", jpc'[j] = "done", NEW k \in due[j]
               PROVE  rec'[k] = NoRecord
    BY <1>1
  <2>1. CommitCleanup(j)
    <3>1. jpc \in [Jobs -> JobPhases]
      BY <1>1 DEF CleanupInv, JobsInv
    <3>2. PICK i \in Jobs : BeginCleanup(i) \/ SkipCleanup(i) \/ JobStep(i) \/ AbortCleanup(i)
      BY DEF CleanupNext, BesideJobs, PersistGone, jvars
    <3> QED BY <3>1, <3>2
           DEF BeginCleanup, SkipCleanup, JobStep, Scan, Delete, CommitCleanup, AbortCleanup
  <2>2. k \in DOMAIN doomed /\ k \in Keys
    BY <1>1 DEF CleanupInv, JobsInv, Sweeping
  <2> QED BY <2>1, <2>2 DEF CommitCleanup
<1> QED BY <1>1, CleanupInvariant, PTL DEF CleanupSpec, SweepIsComplete
=============================================================================
