-------------------------- MODULE AuditBackpressure --------------------------
(***************************************************************************)
(* The backpressure manager of the audit-log middleware                    *)
(* (packages/mcp-tools/src/middleware/audit-log.ts): every finished tool   *)
(* call hands one entry to `log`, which is answered at once; the row is    *)
(* written later, by one of MaxWrites concurrent writers, after a bounded  *)
(* wait in a bounded queue.                                                *)
(*                                                                         *)
(* One action is one run of the event loop between two awaits.  A slot is  *)
(* taken in the tick that calls acquireWriteSlot or releaseWriteSlot, the  *)
(* write begins in the `.then` microtask that follows, and the slot is     *)
(* given back in the `.finally` microtask after the write.                 *)
(***************************************************************************)
EXTENDS Naturals, FiniteSets, Sequences, SequencesExt

CONSTANTS
    Entries,        \* one audit entry for each tool call
    MaxWrites,      \* MAX_CONCURRENT_AUDIT_WRITES
    MaxQueue        \* MAX_AUDIT_QUEUE_SIZE

ASSUME BackpressureAssumption ==
    /\ IsFiniteSet(Entries)
    /\ MaxWrites \in Nat \ {0}
    /\ MaxQueue \in Nat \ {0}

VARIABLES
    stage,          \* where each entry is on its way to the table
    activeWrites,   \* the counter of taken slots
    writeQueue,     \* entries waiting for a slot, oldest first
    timers,         \* entries whose slot timeout is armed
    settled,        \* entries whose wait was resolved, by a slot or by the timeout
    droppedCount,   \* entries given up before a write was tried
    errorCount,     \* writes that were reported failed
    answer,         \* what the tool call that made the entry was answered
    rows,           \* rows of ai_action_log the entry produced
    past            \* history: entries of processes that have died

vars == <<stage, activeWrites, writeQueue, timers, settled, droppedCount,
          errorCount, answer, rows, past>>

Dropped  == {"refused", "timerless", "timedOut"}    \* no write is ever tried
Holding  == {"granted", "writing", "closing"}       \* the entry occupies a slot
Stages   == {"new", "waiting", "released", "lost"} \cup Dropped \cup Holding
Answers  == {"none", "clean", "warned", "thrown"}

Holders == {e \in Entries : stage[e] \in Holding}
Waiting == {e \in Entries : stage[e] = "waiting"}
Live    == {e \in Entries : stage[e] = "waiting" \/ stage[e] \in Holding}

Init ==
    /\ stage = [e \in Entries |-> "new"]
    /\ activeWrites = 0
    /\ writeQueue = <<>>
    /\ timers = {}
    /\ settled = {}
    /\ droppedCount = 0
    /\ errorCount = 0
    /\ answer = [e \in Entries |-> "none"]
    /\ rows = [e \in Entries |-> 0]
    /\ past = {}

-----------------------------------------------------------------------------
(* `log`, called by executeAndLog when the tool call has finished.  The    *)
(* call is answered in the same tick: a handler that threw is answered     *)
(* with its error, a returned result carries the audit-gap warning when    *)
(* the entry is known to be dropped by now.                                *)

Answer(e, dropped) ==
    \E a \in {IF dropped THEN "warned" ELSE "clean", "thrown"} :
        answer' = [answer EXCEPT ![e] = a]

QueueIsFull == Len(writeQueue) >= MaxQueue

LogRefused(e) ==
    /\ stage[e] = "new"
    /\ QueueIsFull
    /\ stage' = [stage EXCEPT ![e] = "refused"]
    /\ droppedCount' = droppedCount + 1
    /\ Answer(e, TRUE)
    /\ UNCHANGED <<activeWrites, writeQueue, timers, settled, errorCount, rows, past>>

\* Variant: the slot is taken without counting it.
LogGrantedUncounted(e) ==
    /\ stage[e] = "new"
    /\ ~QueueIsFull
    /\ activeWrites < MaxWrites
    /\ stage' = [stage EXCEPT ![e] = "granted"]
    /\ Answer(e, FALSE)
    /\ UNCHANGED <<activeWrites, writeQueue, timers, settled, droppedCount, errorCount,
                   rows, past>>

LogGranted(e) ==
    /\ stage[e] = "new"
    /\ ~QueueIsFull
    /\ activeWrites < MaxWrites
    /\ stage' = [stage EXCEPT ![e] = "granted"]
    /\ activeWrites' = activeWrites + 1
    /\ Answer(e, FALSE)
    /\ UNCHANGED <<writeQueue, timers, settled, droppedCount, errorCount, rows, past>>

LogQueued(e) ==
    /\ stage[e] = "new"
    /\ ~QueueIsFull
    /\ activeWrites >= MaxWrites
    /\ stage' = [stage EXCEPT ![e] = "waiting"]
    /\ writeQueue' = Append(writeQueue, e)
    /\ timers' = timers \cup {e}
    /\ Answer(e, FALSE)
    /\ UNCHANGED <<activeWrites, settled, droppedCount, errorCount, rows, past>>

\* Variant: the failed timer is counted and reported, but the early return is
\* missing and the entry is queued all the same.
LogTimerlessQueued(e) ==
    /\ stage[e] = "new"
    /\ ~QueueIsFull
    /\ activeWrites >= MaxWrites
    /\ stage' = [stage EXCEPT ![e] = "waiting"]
    /\ writeQueue' = Append(writeQueue, e)
    /\ droppedCount' = droppedCount + 1
    /\ Answer(e, TRUE)
    /\ UNCHANGED <<activeWrites, timers, settled, errorCount, rows, past>>

\* setTimeout throws: the entry is dropped before it is queued.
LogTimerless(e) ==
    /\ stage[e] = "new"
    /\ ~QueueIsFull
    /\ activeWrites >= MaxWrites
    /\ stage' = [stage EXCEPT ![e] = "timerless"]
    /\ droppedCount' = droppedCount + 1
    /\ Answer(e, TRUE)
    /\ UNCHANGED <<activeWrites, writeQueue, timers, settled, errorCount, rows, past>>

-----------------------------------------------------------------------------
(* The timer of a queued entry fires.                                      *)

\* The queue without e.
Spliced(q, e) ==
    IF e \in ToSet(q) THEN RemoveAt(q, CHOOSE i \in DOMAIN q : q[i] = e) ELSE q

\* Variant: the timed-out entry stays in the queue.
SlotTimeoutUnspliced(e) ==
    /\ e \in timers
    /\ timers' = timers \ {e}
    /\ IF e \in settled
       THEN UNCHANGED <<stage, settled, droppedCount>>
       ELSE /\ stage' = [stage EXCEPT ![e] = "timedOut"]
            /\ settled' = settled \cup {e}
            /\ droppedCount' = droppedCount + 1
    /\ UNCHANGED <<activeWrites, writeQueue, errorCount, answer, rows, past>>

\* Variant: only queue-full drops are counted.
SlotTimeoutUncounted(e) ==
    /\ e \in timers \ settled
    /\ timers' = timers \ {e}
    /\ stage' = [stage EXCEPT ![e] = "timedOut"]
    /\ writeQueue' = Spliced(writeQueue, e)
    /\ settled' = settled \cup {e}
    /\ UNCHANGED <<activeWrites, droppedCount, errorCount, answer, rows, past>>

SlotTimeout(e) ==
    /\ e \in timers
    /\ timers' = timers \ {e}
    /\ IF e \in settled
       THEN UNCHANGED <<stage, writeQueue, settled, droppedCount>>
       ELSE /\ stage' = [stage EXCEPT ![e] = "timedOut"]
            /\ writeQueue' = Spliced(writeQueue, e)
            /\ settled' = settled \cup {e}
            /\ droppedCount' = droppedCount + 1
    /\ UNCHANGED <<activeWrites, errorCount, answer, rows, past>>

-----------------------------------------------------------------------------
(* The write.                                                              *)

BeginWrite(e) ==
    /\ stage[e] = "granted"
    /\ stage' = [stage EXCEPT ![e] = "writing"]
    /\ UNCHANGED <<activeWrites, writeQueue, timers, settled, droppedCount,
                   errorCount, answer, rows, past>>

\* The INSERT returns: stored and acknowledged, stored with the answer lost,
\* or not stored.  Both failures are counted and swallowed.
EndWrite(e) ==
    /\ stage[e] = "writing"
    /\ \E stored, acknowledged \in BOOLEAN :
        /\ acknowledged => stored
        /\ rows' = IF stored THEN [rows EXCEPT ![e] = @ + 1] ELSE rows
        /\ errorCount' = IF acknowledged THEN errorCount ELSE errorCount + 1
    /\ stage' = [stage EXCEPT ![e] = "closing"]
    /\ UNCHANGED <<activeWrites, writeQueue, timers, settled, droppedCount, answer, past>>

-----------------------------------------------------------------------------
(* releaseWriteSlot: the slot goes straight to the oldest waiting entry.   *)

\* Nobody waits, or the counter is already zero: a double release is ignored.
ReleaseToNobody(e) ==
    /\ stage[e] = "closing"
    /\ activeWrites <= 0 \/ writeQueue = <<>>
    /\ stage' = [stage EXCEPT ![e] = "released"]
    /\ activeWrites' = IF activeWrites <= 0 THEN activeWrites ELSE activeWrites - 1
    /\ UNCHANGED <<writeQueue, timers, settled>>

\* The parts of a hand-over that variants of ReleaseToNext share.
HandOver(e, next, stageOfNext) ==
    /\ stage[e] = "closing"
    /\ activeWrites > 0
    /\ writeQueue # <<>>
    /\ writeQueue' = Spliced(writeQueue, next)
    /\ stage' = [stage EXCEPT ![e] = "released", ![next] = stageOfNext]
    /\ settled' = settled \cup {next}

\* Variant: the youngest entry is served first.
ReleaseToLast(e) ==
    /\ HandOver(e, Last(writeQueue), "granted")
    /\ timers' = timers \ {Last(writeQueue)}
    /\ UNCHANGED activeWrites

\* Variant: the entry is settled but never told.
ReleaseToNextUntold(e) ==
    /\ HandOver(e, Head(writeQueue), "waiting")
    /\ timers' = timers \ {Head(writeQueue)}
    /\ UNCHANGED activeWrites

ReleaseToNext(e) ==
    /\ stage[e] = "closing"
    /\ activeWrites > 0
    /\ writeQueue # <<>>
    /\ writeQueue' = Tail(writeQueue)
    /\ LET next == Head(writeQueue) IN
       IF next \in settled
       THEN /\ stage' = [stage EXCEPT ![e] = "released"]
            /\ activeWrites' = activeWrites - 1
            /\ UNCHANGED <<timers, settled>>
       ELSE /\ stage' = [stage EXCEPT ![e] = "released", ![next] = "granted"]
            /\ timers' = timers \ {next}
            /\ settled' = settled \cup {next}
            /\ UNCHANGED activeWrites

Release(e) ==
    /\ ReleaseToNobody(e) \/ ReleaseToNext(e)
    /\ UNCHANGED <<droppedCount, errorCount, answer, rows, past>>

-----------------------------------------------------------------------------
(* The process dies and a new one starts with an empty manager; the write  *)
(* in flight may have reached the table.                                   *)

Crash ==
    /\ Live # {}
    /\ \E landed \in SUBSET {e \in Entries : stage[e] = "writing"} :
        rows' = [e \in Entries |-> IF e \in landed THEN rows[e] + 1 ELSE rows[e]]
    /\ stage' = [e \in Entries |-> IF e \in Live THEN "lost" ELSE stage[e]]
    /\ activeWrites' = 0
    /\ writeQueue' = <<>>
    /\ timers' = {}
    /\ settled' = {}
    /\ droppedCount' = 0
    /\ errorCount' = 0
    /\ past' = {e \in Entries : stage[e] # "new"}
    /\ UNCHANGED answer

Log(e)  == LogRefused(e) \/ LogGranted(e) \/ LogQueued(e) \/ LogTimerless(e)
Step(e) == Log(e) \/ SlotTimeout(e) \/ BeginWrite(e) \/ EndWrite(e) \/ Release(e)
Next    == Crash \/ \E e \in Entries : Step(e)

Spec == Init /\ [][Next]_vars

\* The event loop runs timers and microtasks; a write may hang.
LoopFairness ==
    \A e \in Entries : WF_vars(SlotTimeout(e)) /\ WF_vars(BeginWrite(e)) /\ WF_vars(Release(e))

LoopSpec == Spec /\ LoopFairness

\* Every INSERT returns or fails.
WritesReturn == \A e \in Entries : WF_vars(EndWrite(e))

-----------------------------------------------------------------------------
TypeOK ==
    /\ stage \in [Entries -> Stages]
    /\ activeWrites \in Nat
    /\ writeQueue \in Seq(Entries)
    /\ timers \subseteq Entries
    /\ settled \subseteq Entries
    /\ droppedCount \in Nat
    /\ errorCount \in Nat
    /\ answer \in [Entries -> Answers]
    /\ rows \in [Entries -> Nat]
    /\ past \subseteq Entries

\* The counter the slots are granted by is the number of entries that hold
\* one, and never exceeds the limit (audit-log.ts:476-545).
SlotAccounting ==
    /\ activeWrites = Cardinality(Holders)
    /\ activeWrites <= MaxWrites

\* No slot is idle while an entry waits: an early return of releaseWriteSlot
\* or a timeout never leaves the queue without a writer that will serve it.
NoIdleSlot == writeQueue # <<>> => activeWrites = MaxWrites

\* The queue holds exactly the waiting entries, each once, and each of them
\* has a timer that will end its wait and no verdict yet.
QueueSound ==
    /\ IsInjective(writeQueue)
    /\ ToSet(writeQueue) = Waiting
    /\ Waiting \subseteq timers \ settled

\* One tool call leaves at most one row, and a call that was told its audit
\* row was dropped leaves none (audit-log.ts:411-422).
AuditedAtMostOnce ==
    \A e \in Entries : rows[e] <= (IF answer[e] = "warned" THEN 0 ELSE 1)

\* A gap in the trail is never silent: the running process has counted every
\* entry it gave up as dropped, and every entry it tried and did not store as
\* an error.
GapsAreCounted ==
    LET mine == Entries \ past IN
    /\ droppedCount = Cardinality({e \in mine : stage[e] \in Dropped})
    /\ errorCount >= Cardinality({e \in mine : stage[e] \in {"closing", "released"} /\ rows[e] = 0})

\* Waiting entries are served in the order they came.
ServedInOrder ==
    [][\A i, j \in 1..Len(writeQueue) :
          (i < j /\ stage'[writeQueue[j]] = "granted") => stage'[writeQueue[i]] # "waiting"]_vars

\* When writes return, every entry that was logged leaves the manager.
EveryEntryEnds ==
    WritesReturn => \A e \in Entries : (stage[e] # "new") ~> (e \notin Live)

-----------------------------------------------------------------------------
(* The manager implements AuditPool.                                       *)

PoolStage(s) ==
    IF s \in {"new", "waiting"} THEN s
    ELSE IF s \in Holding THEN "running" ELSE "ended"

PoolView == [e \in Entries |-> PoolStage(stage[e])]

Pool == INSTANCE AuditPool WITH pool <- PoolView

PoolSpec == Pool!Spec
=============================================================================
