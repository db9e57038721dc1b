# A verification of BestERP

TLA+ models of the parts of BestERP whose correctness depends on concurrency,
failure and ordering, TLC runs that check them on small instances, and proofs
for every value of the constants. BestERP is a multi-tenant ERP back end
(NestJS, Prisma, PostgreSQL) whose services are offered to AI agents as MCP
tools.

Contents: [inventory](#inventory) · [modules](#modules) · [runs](#runs) ·
[fairness](#fairness) · [proofs](#proofs) · [disagreements](#disagreements) ·
[what is left out](#what-is-left-out) · [plan](#plan)

Paths are relative to the repository root; `mcp-tools/` stands for
`packages/mcp-tools/src/`, `api/` for `apps/api/src/`.

## Inventory

One process serves HTTP requests. A request passes the JWT and tenant guards,
reaches the MCP controller (or a REST controller), and calls
`ToolRegistry.execute`. The registry runs the tool behind five middlewares; the
handler calls a domain service; the service asks `PrismaService` for a client of
its tenant; every statement runs in a transaction that sets the tenant context,
under row-level security. Several processes may share the database, and an
out-of-band script removes expired idempotency records.

| component | state it keeps | operations | talks to | what is hard | what must hold |
| --- | --- | --- | --- | --- | --- |
| **Idempotency middleware** `mcp-tools/middleware/idempotency.ts` | one row per key and tenant: operation, status, age, result | acquire (Serializable, retried), run the handler, persist (retried, unfenced), answer from the record | database, handler, cleanup job | races of claimants, owner dies or is slow, lost acknowledgements, the key deleted under a running call | no call executes under or replays another operation's record; the side effect happens at most once unless the guarantee was weakened, and then at most once more per weakening; a completed record stays completed |
| **Cleanup job** `packages/database/scripts/cleanup-expired-idempotency.ts` | advisory lock, cutoff, batch | lock, SELECT a batch, DELETE it by key, commit | the same rows | rows re-created between SELECT and DELETE, overlapping runs | takes all that had expired at its cutoff, in however many batches; a live row it takes is worth one duplicate at most; the calls still end |
| **Audit log** `mcp-tools/middleware/audit-log.ts` | slot counter, bounded queue, timers, counters | log, slot timeout, write, release | event loop, database | order of timers and microtasks, hung INSERTs, full queue, crash | slots never leak nor are oversubscribed, one row per call, every gap counted, every entry settles |
| **Tool registry** `mcp-tools/registry/tool-registry.ts` | registered tools, cached pipelines | execute | all middlewares | early rejections outside the pipeline | every attributable call leaves an entry in the trail |
| **Agent policy** `mcp-tools/middleware/agent-policy.ts` | none; reads the agent's row | admit, filter suggestions | agent registry | the row changes while the call waits | only a permitted agent has an effect; suggestions are callable |
| **Confirmation gate** `mcp-tools/middleware/confirmation-gate.ts` | none; reads the gate's row | admit | gates | unreadable gate, gate switched meanwhile | no gated effect without confirmation |
| **Error handler** `mcp-tools/middleware/error-handler.ts` | none | thrown error to result | domain errors | it is outside the policy | its suggestions are callable (they are not, see below) |
| **Product service** `api/modules/core/product` | version, fields, relations of a product | create, read, update with a version, add features and prices, search | database | reads that are not atomic, updates that wait for a lock, lost acknowledgement | no lost update; equal versions mean equal content; a refusal says what is known of the product |
| **Tenant clients** `api/prisma/prisma.service.ts` | cache of weak references, tokens, access times, finalisation registry | tenantScoped, evict, callback, destroy | garbage collector | callbacks arrive late or never | the maps agree; a live client is not dropped by a late callback |
| **Row-level security** `packages/database/src/rls-extension.ts`, `packages/shared/src/tenant.ts`, `packages/database/prisma/rls-setup.sql` | setting of each pooled connection, rows | begin, set context, statement, end | connection pool, policies | connections pass between tenants; rows with two parents | no row connects two tenants, no call reads another tenant's row |
| **Party service** `api/modules/core/party` | parties, roles, contact mechanisms | create party, add role (retry loop over a partial unique index), add contact (check, then insert), search | database | races on unique keys | one active role of a kind, one holder of an address; a retry ends with the winner's row |
| **Security service** `api/modules/core/security` | agent registry, users | register, update, deactivate, delete agent; create user | database, agent policy | two administrators race; a user is created in two transactions | one user per party; keys can be used again after deletion |
| **Health endpoints** `api/health.service.ts`, `health.controller.ts` | probes in flight, cached results, hung queries | /health, /health/ready | database, Redis | shared probes, timeouts that do not cancel, a request that joins late | an answer is about the server as it was a moment ago, comes in time, and probes do not pile up |
| **Bootstrap and shutdown** `api/main.ts`, `bootstrap-config.ts`, `queue/queue.module.ts` | shutting-down flag, timers | check the settings one after the other, listen, fault, signal, close with timeout | all modules | combinations of settings, second fault, hung close | serves only with sound settings; a fault ends the process, with a code that says so |
| **Sanitising** `packages/shared/src/sanitize.ts` | none | stripHtmlTags, redactSensitiveFieldValues | – | a fixpoint in bounded rounds; shared and circular values | nothing left that reads as markup, a second pass changes nothing; exactly what is sensitive is withheld |
| **Truncation, hashing, dates** `mcp-tools/middleware/truncate.ts`, `packages/shared/src/crypto.ts`, `validation.ts` | none | truncateValue, capString, hashInput, parseISODateTimeAsUTC | – | limits, order of keys, ends of months, time zones | what is stored fits; equal hashes for equal arguments only; the day that was written is stored |
| **Authentication, error filter, seed, discovery tools, decimals, pluralisation, CI, infrastructure** | none that concurrent steps share | – | – | – | see `PROJECT.json` |

`PROJECT.json` lists every component with its sources and status, and under
`hazards` each place that is hard to test, with the property that covers it.

## Modules

```
Idempotency ── IdempotencyCleanup          the record of a key; the job beside it
   └ IdempotencyProofs                     both
AuditBackpressure ── AuditPool             the manager; what it promises
   └ AuditBackpressureProofs
ToolPipeline ── ToolPipelineProofs         one call through all stages
ProductVersions ── ProductVersionsProofs   optimistic concurrency on a row
TenantClients ── TenantScope               the client cache; isolation on top of it
   └ TenantScopeProofs
UniqueRows ── UniqueRowsProofs             parties, roles, contacts, users, agents
ApiProcess, HealthProbes ── ApiServer      settings, start, faults, shutdown; the health
   └ ApiServerProofs                       endpoints; a process that serves them
Markup, Truncation ── Payload, Dates       the pure algorithms
   └ AlgorithmsProofs                      (Markup, Truncation, Payload, Dates)
MC<module>, MC<module>_<run>.cfg           instances for TLC
```

### Idempotency

State: the record table, and for each call what it asks for, where it is in the
middleware, the row it last read, its attempt counter, its outcome and its reply.
History variables count the committed effects of a key since it was last free
(`effects`) and the events that weaken the guarantee (`slack`).

A key stands for the composite primary key. Time is the three ages the code tells
apart: fresh, stale (older than the pending threshold), expired. The acquire
transaction is Serializable: a call takes its snapshot in one step and commits in
another, and fails if the row was written in between (`dirty`). `acquire` retries
with an attempt counter; P2002 leads to a re-read of the row; the answer is derived
from the row as last read (`Verdict`), which may be out of date. `Persist` is an
UPDATE by primary key, unfenced; it may be retried, lose its acknowledgement, fail
altogether and fall back to a bare "failed". A process may crash at any step.

`slack` counts: a crash or a hung owner whose record is reclaimed as stale, the lost
acknowledgement of a "failed" write, a handler that throws after its commit, the row
removed under a running call. `BoundedDuplication` says effects exceed one by no
more than that; `AtMostOnce` that with no such event there is no duplicate at all.

Not modelled: a handler running for a day (a transaction timeout bounds it), and the
branch on a missing `createdAt` (the column is NOT NULL).

### IdempotencyCleanup

Adds runs of the job: an advisory lock that a second run fails to get, a cutoff
fixed at the start, then SELECT and DELETE of batches. DELETE is by key and blocks
the rows until the commit. READ COMMITTED, so a row re-created between SELECT and
DELETE is deleted as well, which `slack` counts. `due` remembers the keys whose row had
expired at the cutoff and that no call has claimed anew: what `SweepIsComplete` says a
run that commits has taken, although it ends on nothing but the length of its last batch. A call whose outcome finds its row deleted (`PersistGone`,
P2025) gives up at once; only the job removes rows, so that step lives here.

### AuditBackpressure and AuditPool

One action is one run of the event loop between two awaits: `Log` (refused, granted,
queued; each with a timer that can fail to be armed), `SlotTimeout`, `BeginWrite`,
`EndWrite`, `Release` (which hands the slot to the head of the queue), `Crash`.
`AuditPool` is what callers may rely on, with no counter, queue or timer; the
refinement mapping `PoolView` takes the stage of an entry to new, waiting, running
or ended. Each process has two such managers (`audit-log.ts:103-110`), one for the
pipeline and one for rejected calls; the module is one of them, so the number of
concurrent audit writes of a process is twice `MaxWrites`.

### ToolPipeline

A call through errorHandler > auditLog > agentPolicy > confirmationGate >
idempotency > handler, with every early return of `execute`. The request is a record
of what the stages look at. The agent's row and the gates are shared and change
while calls wait. On the way out nothing awaits, so a result passes the suggestion
filter, the audit log and the error handler in one step (`Return`). An entry of the
trail is what is handed to the backpressure manager, which may drop it later
(AuditBackpressure). Idempotency is reduced to refused, replayed, claimed. A driver
error is audited under its raw code. An effect is authorised if the row permitted it
at some moment of the call: the code checks once and does not promise more. A crash
and the cache of composed pipelines (functions without state) are left out.

### ProductVersions

One product, several clients. An UPDATE with a version predicate takes the row's lock
and evaluates the predicate on the row as last committed (`Lock`, `Miss`); a miss is
told from a missing product by a later transaction (`Recheck`), which may fail and then
counts as a product that is there (`Report`); a commit may lose its acknowledgement
(`Commit`). `add_product_feature` and `add_product_price` write a relation
and move the version. A read fetches the row and then each relation by a statement of
its own. The content of a part is represented by the versions at which it was
written. A client names a product that is there or one that is not, and passes any
version or none; `NoLostUpdate` is about those that pass the version they last read
(`Informed`), for the others the code promises nothing. `RefusalsAreReal` says what the
two refusals tell: a conflict may be answered for a product that is not there, when the
re-read failed, which the code does on purpose. The code never deletes a product. Failing reads are left out, as they leave the client with what it had; the
answer "error" includes CONCURRENCY_CONFLICT for P2028 and P2034.

### TenantClients and TenantScope

`TenantClients` is the cache: `Hit`, `Miss` with eviction, `Collect` (the garbage
collector takes a client nobody holds), `Report` (the callback of the
FinalizationRegistry, later or never, which knows the tenant but not the client),
`Destroy`. Timestamps are the order they induce, with ties for equal milliseconds.

`TenantScope` puts calls on top: `Ask` for a client, `Begin` on any free connection,
`SetContext`, statements, `Commit` or `Rollback`. Tables are represented by the shapes
of their policies (root, child, owned, link, listed). What a call asks to insert is
left open, because the policies do not rely on what the services verify; the one
exception is a product's category, which no policy looks at and `createProduct`
checks. No policy looks at the parent of a category either
(`rls-setup.sql:285-296`); no code of the repository writes or reads that column, and a
category is modelled as a root without it. `SelectUnscoped` stands for any statement that reaches the database without
the wrapper. A statement sees what is committed and what its own transaction wrote.

Not modelled: the boot checks that the application role is subject to the policies,
the LRU caches of wrapped methods (functions without state), the admin client, which
bypasses the policies by design.

### UniqueRows

The calls of the party and the security service: `create_party`, `add_party_role`,
`add_contact_mechanism`, `create_user`, `get_user`, `get_party`, the agent's four
operations and the two searches. State: the rows that are current, those that have
ended, the inserts that are not committed, and for each call its label, request, tries,
count, answer and the rows of its key that were current while it ran (`met`, history).
A row carries the name of the call that inserted it in place of an id.

Statements run at READ COMMITTED. An insert waits for the transaction that holds an
uncommitted row of the same key (`Blocked`), then either finds it committed or not:
`ON CONFLICT DO NOTHING` returns no row and the role's holder is read again
(`Recheck`), the other inserts fail with P2002. `Abort` is a statement or the whole
transaction failing, with the codes the error mapper tells apart; `Commit` may lose its
acknowledgement. A text is given by what its validation can tell of it (absent, blank,
markup only, too long, within bounds only once stripped, ...), its content by a value.
A role ends by SQL outside the program, which has no operation for it.

### ApiProcess

A process from its settings to its end. A setting is given by what the code tells
apart of it (`Settings`), and the checks run in the order of `bootstrap` (`Steps`,
`Passes`); the queue's module is configured when the application is imported, which is
before the handlers of a fault are there. After that: `Listen` with its failure,
`gracefulShutdown` (an unhandled rejection), `uncaughtException`, `Signal` (the
framework's hooks, external), `CloseEnds`, `HardExit`. A close may hang.

### HealthProbes

A request to `/health` or `/health/ready` asks for the database, then for Redis. Each
is probed once for all requests that wait (`inflight`), the result is cached, `/ready`
goes past the database's cache and gives up on a timer of its own. One step is what
runs between two awaits. Time is a counter in units that keep the proportions of the
timeouts; it never passes a timer that is due. A server is up, down, hangs, or (Redis)
is not configured, and may change. A query whose probe timed out goes on (`hung`).

### ApiServer

The process with its endpoints: a step of the process (`Live`) or, while it serves, of a
request (`Answer`). What the endpoints know is in the memory of the process and goes with
it (`Forget`). Whether there is a Redis to probe is decided by the settings, as
`runRedisProbe` reads them.

### Markup, Truncation, Payload, Dates

Pure algorithms, each as one call with its loop. `Markup`: `stripHtmlTags`, a chain of
scanners repeated until nothing changes, on texts that are sequences of lexical pieces
(`"<"`, `"scr"`, `"ipt"`, `"&"`, `"lt;"`, surrogate halves, white space, ...), so that one
scanner can put together what another looks for. A scanner is a function from positions to
the end of the match that begins there, and one recursive function, `Rewrite`, runs it.
`Truncation`: `truncateValue` and `capString` for any measure of a value, any preview sizes
and any text; what is normalised and measured, and how, are its constants. What is stored
whatever its size (null, the error objects of symbols, functions and values that cannot be
serialised) is `Unsized`; the run has null. `Payload` gives
them: a value is a node of a heap, so that containers may be shared or circular; it is
redacted, normalised, truncated and hashed as the code does. `Dates`: what
`requireValidDate`, `parseISODateTimeAsUTC` and the party service's default make of a date
written in seven forms, on hosts of any zone; the ECMAScript Date is external.
Redaction and hashing recurse over heaps; the code bounds how deep, so each is a recursive
function of the levels that are left, and what it makes is a tree, a function from positions
to labels. That lets them be proved about.

## Runs

| run | instance | what it shows |
| --- | --- | --- |
| `idempotency_calls` | 3 calls, one key, one attempt; one operation, or two that differ in tool, caller or input (`PairSpec`) | safety of the record under races, crashes and lost acknowledgements (1.6M states) |
| `idempotency_cleanup` | 2 calls of one key with 2 attempts each, a run of the job and a second one started while it is open; or one call and one run over two expired rows (`OverlapSpec`); batches of one | duplication stays bounded, a run that commits has taken what had expired and was not claimed anew, every call is answered (435K) |
| `idempotency_claim` | 2 calls, 3 attempts | **violation**: a freshly claimed record can be overwritten by its previous claimant |
| `cleanup_replay` | 3 calls of 2 callers, 1 job run, an expired row to start with | **violation**: another caller's result is replayed |
| `audit_entries` | 4 entries, 1 slot, a queue of 2, entries named in the order they arrive | order, counted gaps, one row per call, the refinement of AuditPool, liveness; with timeouts, failures and a crash (109K) |
| `pipeline_calls` | every request of a gated and a harmless tool against every registry row and gate; two racing calls of which one may write the agent's row | trail, authorisation, confirmation, suggestions, keys (448K) |
| `pipeline_tips` | one call, one agent | **violation**: a suggestion the agent may not call |
| `product_versions` | 2 clients, calls begun up to version 2, any version passed | no lost update, versions identify content, refusals are real (942K) |
| `tenant_isolation` | the cache alone with 3 tenants, 4 clients and 2 entries; and calls of 2 tenants, 2 callers, 2 connections, 3 rows over it | soundness of the maps, late callbacks, eviction; isolation of rows and reads (327K) |
| `unique_rows` | 3 calls of one theme (roles, contacts, users and agents, pages) in a tenant with one party, 2 tries | what a call is told agrees with what the tables hold (198K) |
| `algorithms` | one call on each input of a menu: texts of up to 7 pieces, heaps of 3 containers, limits from below the marker to above the value, dates around every boundary on 3 hosts | fixpoint, redaction, size, identity of the hash, the stored day (385K) |
| `api_process` | every pair of deviations from a good deployment in 3 environments; 2 health requests while it serves, with Redis and without, one change of a server | sound settings, fresh and timely answers, few probes, the end after a fault (545K) |

Why the bounds are enough. Three calls on a key are the owner, the one that takes
over and the one that meets the result; calls on different keys share nothing, so one
key suffices, and two where the job must come back for a second batch. One slot and a
queue of two with four entries give every combination of taken, waiting, refused and late; the properties are proved for any number of slots. In `product_versions` the second client's commit
can fall between any two steps of the first, and calls that begin at versions 1 and 2 let
a client be overtaken twice; the versions passed go one beyond. The cache needs two entries for a dead one to be overwritten while
the other keeps it below its limit, and three tenants for a live one to be evicted.
Two connections and two tenants let a connection change tenant while the other call
runs, and three rows allow two parents and their link. Three calls are the holder of a
key, the one that waits for it and the one that takes it when it is free, or a search and
the two parties created around it, which with `MaxOffset = 1` puts a third row past the
offsets a search may ask for; `p0` is a party
that is there before. Two tries are the first and the last. Two health requests are the
one that begins a probe and the one that joins it late. Three units of time reach the
bounds of /ready and of the database; those of a cached answer and of Redis lie beyond, and
`ServerKeepsItsPromises` proves them for any clock. Texts of seven pieces let one
construct be hidden in another twice, and `MaxIterations = 5` makes the bound of the
loop matter. Proofs lift the safety
properties marked below to all sizes.

Bounds are constants of the cfg: `MaxRetries` (code: 3), `BatchSize`, `MaxWrites`
(20) and `MaxQueue` (100), `MaxCached` (256), `MaxTries` (3), `MaxLimit`, `MaxOffset`, the sizes of a marker and its previews (`Skeleton`, `Minimal`, `Previews`),
`MaxInput`, `MaxIterations` (20), `MaxRedaction`, `MaxNesting`, `MaxKeys`, the timeouts of
the probes. No constants of the code are `MaxVersion` (no call begins once the version is
reached), `MaxClock` and `MaxFlips` (time, and changes of the servers). Runs say
`CHECK_DEADLOCK FALSE` where the system stops once all calls, entries or jobs have ended,
the version bound is reached, no client object is left after shutdown, the process has
ended, or the one call of an algorithm has. Symmetry is used only in runs without
liveness properties.

Type invariants, and what a listed property implies, are not run again where they are
proved: `TypeOK` of the proved modules, the accounting of slots and the soundness of the
queue of the audit log, one change per version of a product.

Every property has a mutant, a variant operator kept next to the definition it
changes (`... Unfenced`, `...Untold`, `AllowsOneParent` and so on, each marked
"Variant"); with it the run fails.

## Fairness

- A call in the middleware and a run of the job that has the lock proceed: Node's
  event loop runs ready continuations, and the database answers or times out (weak
  fairness of each call's `Step`, with the job of its `CallStep`, and of `JobStep`). Whether a call succeeds, fails or
  crashes is not subject to fairness.
- `LoopFairness`: microtasks and armed timers run. A write is *not* assumed to return:
  that a queued entry settles, which is part of the refinement of AuditPool, holds
  without. `EveryEntryEnds` states that assumption, `WritesReturn`, as its hypothesis,
  because the INSERT has no timeout.
- `ProcessFairness`: bootstrap goes on to its next check, `listen` succeeds or fails, and
  an armed hard-exit timer fires. That a close ends is *not* assumed. The timer does not
  keep the process alive (`unref`): a close that hangs is taken to wait for something
  that does, such as a connection.
- Nothing is assumed of the garbage collector, of other calls, or of a server's answer;
  the health endpoints' properties are bounds on the clock and need no fairness.

## Proofs

All proofs are for any number of calls, jobs, entries, clients, tenants, rows and requests,
for texts of any length and for every date.

- **IdempotencyProofs.** `InductiveInvariant` strengthens the two safety properties by
  what a view, an executor and a completed reply know of the record. From it:
  `TypeCorrect`, `ExecutorSafety`, `ReplaySafety`, `AtMostOnceHolds`,
  `CompletedIsFinalHolds`. For the bound on duplication a second invariant, `CallInv`, keeps
  an account for each key (`Balanced`): committed effects, the calls that may still commit one
  or reopen the record, and one if the record can be claimed, together exceed the weakening events by at most one. It does not say who owns the record, so it survives the
  cleanup job, which takes rows away from their owners. With `JobsInv` (who has the lock, and
  that the rows it deletes are there) it gives `BoundedDuplicationHolds`, and for the calls with any number
  of cleanup runs beside them `CleanupInvariant`, `CleanupKeepsTheBound`,
  `SweepIsCompleteAlways`. The last needs `Sweeping`: a batch that was not full was all that
  was due, so what a run that has come to its commit owes is among the rows it holds, and those
  no call can touch.
- **AuditBackpressureProofs.** The invariant is types, each entry's settled flag
  against its stage, the counter equal to the number of holders, the queue equal to the
  waiting entries, the timers of waiting entries, the length bound, and no idle slot
  while someone waits. The last is what makes a handed-over slot go to a waiting entry
  and not to a settled one. From it: `TypeCorrect`, `SlotsAreCounted`, `NoSlotIdles`,
  `QueueIsSound`, `OneRowPerCall`, `OrderIsKept`, and `ImplementsPool`: the manager
  implements the safety part of `AuditPool`. For `NoGapIsSilent` each step is shown to add
  at most one entry to those that left a gap, and to count it in that same step; what a crash has
  left behind changes no more.
- **ToolPipelineProofs.** The invariant says what each stage has established about the
  call. From it: `TypeCorrect`, `AuthorisedEffects`, `ConfirmedEffects`, `KeysAreKept`,
  `PolicyComesFirst`, `AuditIsComplete`. For `SuggestionsAreCallable`: the
  capabilities that let a call through are known from the policy on and name the call's own
  tool, so what the filter falls back to is callable as well.
- **ProductVersionsProofs.** Content is stamped no later than the version, no client is
  ahead of the row, the lock holder's condition holds, a call that missed named no product or
  a version that is not the row's; and since the row only moves on, a version that was read
  and missed has been overtaken. From it: `UpdatesAreNotLost`,
  `VersionIsAToken`, `RefusalsTellTheTruth`, `VersionsCountChanges`, `TypeCorrect`.
- **TenantScopeProofs.** In two layers. `CacheStaysSound` and `LiveClientsKept` are
  about the cache alone; the size bound rests on the library's facts on cardinality.
  `ScopeUsesTheCache` shows that the calls' steps are steps of the cache, so both carry
  over. The invariant on top: a held client is alive and bound to the tenant asked for;
  a scoped transaction's connection carries its tenant, and a context without such a
  transaction does not exist; uncommitted rows are their inserter's alone and whatever
  is built on one goes with it. From it: `RowsIsolated`, `ReadsIsolated`, `TypeCorrect`.

- **UniqueRowsProofs.** A row belongs to a call that has ended and was told "ok" or an
  internal error, so a running call owns none and what is in its way is another's. A row
  the call has met is current or has ended, so once its key is free all it met have ended,
  and their number is at least that of its tries. Parties are never removed, so a count
  is a lower bound of what a later search finds. From it: `DuplicatesAreReal`,
  `ContentionsAreReal`, `AnswersAreTrue`, `NextPagesExist`, `TypeCorrect`. The proof starts
  from an empty tenant, the run from one that a `create_party` has reached.
- **ApiServerProofs**, in three parts. *The process:* one that has come past a check has
  settings that pass it, and before the handlers are there a fault ends it in the
  step that meets it. From it, for every combination of settings: `OnlySoundServes`,
  `FaultsAreReported` (the safety part of `FaultEndsTheProcess`), `ProcessTypeCorrect`.
  *The endpoints:* a request waits for the probe in the slot of its server, which
  began no later than the request did, or for Redis no later than the database can have
  taken, and no time passes once its timer is due. Probes of the database follow each
  other, so each query left hanging stands for a whole timeout that has passed. From it:
  `AnswersStayFresh`, `AnswersComeInTime`, `ProbesStayFew`, `HealthTypeCorrect`. *Both:*
  `ServerImplementsProcess` (with its fairness, so liveness of the process carries over),
  and `ServerInvariant`: no request outlives the time of service, and Redis is probed only
  where the settings name one. From these, `ServerKeepsItsPromises` (everything above, of
  the composition) and `ProbesAskTheQueuesRedis`, which is about both at once: two pieces of code read
  the same settings each in its own way.
- **AlgorithmsProofs.** *Texts.* `RewriteShape` says what a scanner leaves, by induction from
  the end of the text: it is the text itself if and only if nothing matched, and else it is
  shorter. So a chain that changes a text shortens it, the loop settles after no more
  iterations than the text has pieces, and a settled text is one in which no scanner finds
  anything (`Quiet`). Replacing unpaired surrogates at the end brings no match back
  (`EndsAlike`). From it, for every text: `StripSettlesAlways`. *Sizes.* `StoredFitsAlways`
  for every measure, limit and text; `PayloadImplementsTruncation` says that a payload's steps
  are steps of `Truncation`. *Redaction and hashes.* Each recursion defines one
  function, since a level rests only on the one below (`LevelsExist`); what holds of the
  items holds of the container (`ContainerExact`, `LevelTellsNext`), level by
  level. What a heap holds is said another way in the properties, by the routes through its
  containers, and the proofs meet these where a container is entered (`ReachedNext`,
  `ClearInside`). A tree tells its items (`TreesEqual`), a record the set of its names whatever
  order they came in (`NamesAlike`, on cardinalities). From it, for every heap:
  `RedactionExactAlways`, `HashIdentifiesAlways`. *Dates.* A day comes before all days of
  later months and years, over leap years and centuries (`MonthsApart`, `YearsApart`); so
  `AnInstantShowsOneDate` and `DatesKeepTheirDayAlways`, for every year and every
  time zone. The library's induction takes a predicate, so `SetInduction` here is about a set of
  numbers closed under the successor, and the recursive function is shown to exist
  by induction on its domain (`RestExists`).

Assumptions are on constants only: nulls are not values, what stands for a name or a container
stands for no text or leaf, bounds are positive, the sets
that are counted are finite, the least preview is none at all.

Only model-checked: everything about liveness and the liveness part of the refinement
(out of this prover's reach). `ExecutorOwnsOperation` and `ReplayIsOwnResult` are proved without the
cleanup job; with it they do not hold (`cleanup_replay`).

## Disagreements

1. `idempotency.ts:376-378` promises that a record just claimed by a live execution
   looks fresh to everyone else. A previous claimant whose "failed" write was applied
   but not acknowledged writes it again over the new claim, because the update is by
   key alone (`idempotency_claim`).
2. `README.md:364-367` promises that another caller who reuses a key gets a mismatch and
   not the first caller's result. The job can delete the row of a running call, another
   caller create its own, and the first call write its result there
   (`cleanup_replay`).
3. `agent-policy.ts:71-74` relies on every suggestion being callable. Suggestions of
   *thrown* errors are made outside the policy and not filtered (`pipeline_tips`).

Other places where the code does less than its documentation says, without a run of
their own:

- `audit-log.ts:492-495` counts on `executeAndLog` to pass a drop at the slot timeout on to
  the agent ("so it knows the durable audit trail has a gap", 411-413). The flag is read in
  the tick in which the entry is queued, and the answer then goes out; what the timeout sets
  later nobody reads. The comment at 450-454 allows for a late flag: it is always late.
- Agents can "safely retry ... without fear of duplication" (ADR-004): with the bound
  above. Re-created rows are safe from the job (`cleanup-expired-idempotency.ts:192-193`):
  not from its DELETE.
- `searchParties` runs count and page one after the other, in two transactions, which does
  not keep `total` and `items` from disagreeing; what `hasMore` announces is there for
  parties (`NextPageExists`), while a deleted agent may be counted.
- The probe of `/ready` goes past the cache and still joins a probe begun before it, so it
  tells of the database as it was up to one timeout earlier (`AnswersAreFresh` has that
  bound). `withTimeout` does not end `SELECT 1`: a hung database collects one query for
  each timeout.
- "a shutdown path can never leave a half-dead process running" (`closeWithTimeout`): the
  path of SIGTERM and SIGINT is the framework's and sets no timer.
- In development without `REDIS_HOST` the queue connects to localhost while the probe
  reports "not_configured".
- `handleDepthLimit` withholds null under a sensitive name, which elsewhere is left alone
  as absent; a Date that is redacted becomes an empty object.
- A Map and an array of pairs have the same hash, and so have the empty Map and the empty
  array.
- References nested as deep as the loop of `stripHtmlTags` has iterations (20) are not decoded
  to the end: what it leaves then is promised nothing, and `StripSettles` speaks of loops
  that ended by themselves, as every one does on a text of fewer pieces than that.

## What is left out

- Wording of messages and hints, formatting of results, search filters, memory figures.
- The patterns that recognise a credential in a log line, decimal patterns, plurals:
  character-level tables without state.
- HTTP: guards, the exception filter, request ids. Their outcome, the identity of a
  caller, is an input of ToolPipeline.
- Registration and listing of tools and the building of schemas happen once, at boot,
  before a call can run. Discovery tools only read what is registered.
- Creation and search of products: an insert under a unique key, and a count and a page,
  on the pattern of UniqueRows.
- The queue enqueues nothing; its reconnection is the driver's. The seed is an offline
  script of upserts; migrations run once, offline.
- Network and database faults below what Prisma reports: a statement succeeds, fails, or
  succeeds without acknowledgement.
- Several processes at once, except where they share a database row: their calls are
  calls of the models, which do not say which process a call runs in.

## Plan

Done, in the order of the harm a mistake would do (duplicated effects, lost audit
entries, unauthorised effects, lost updates, leaks between tenants, wrong answers about
rows, wrong answers about health, wrong stored values): all modules listed above and
their proofs.

What could follow:

1. `StripSettles` for texts by the depth to which references are nested in them, rather than
   by their length.
2. Product creation with categories and the paging of products.
3. Composition of ToolPipeline with AuditBackpressure, so that what an answer says of a
   dropped audit entry is checked across both.
