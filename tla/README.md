# NAEOS CRM in TLA+

Specifications, model-checking runs and machine-checked proofs for the NAEOS
CRM API (`apps/api`, `packages/*`, `prisma`). Paths below are relative to the
repository's `src/`; `gate.ts`, `outbox.ts`, ... stand for
`src/apps/api/src/<file>`.

## The system

One Express process or several serve an HTTP API over one PostgreSQL database
(Prisma). All shared state is in the database except the rate limiters' maps.
Inside a process nothing is locked: between any two `await`s other requests
run, and other processes run all the time. What keeps the data consistent is a
few conditional `UPDATE`s, unique keys, two interactive transactions and one
advisory lock; these are where the models look.

| Component | State | Operations | What makes it hard | What makes it correct |
|---|---|---|---|---|
| GO-Gate service (`gate.ts`, `PrismaGoGateRequestReadPort`) | `GoGateRequest` rows, policy decisions | `requestExecution`, `approve`, `reject`, `execute` | reads before conditional updates, two deadline checks, an external call between two updates, a crash at any await | the external action at most once and only as approved; nothing executes after its deadline; outcomes settled; evidence agrees |
| Evidence receipts (`gate.ts:190`, `PrismaEvidenceReceiptWritePort`) | `EvidenceReceipt`, an outbox row | `createEvidenceReceipt` | written after the outcome, not with it | receipt and outbox event together; says what the row says |
| Outbox (`outbox.ts`, `outbox-worker.ts`, `PrismaOutboxEventPort`) | `OutboxEvent` rows, one loop per process | `claimNext`, three marks, poll, stop | claims that race inside their transactions, leases that run out under a live worker, crashes, retries, an old `now` | at-least-once, marks only under the current claim, everything settles |
| Audit (`packages/audit`, `PrismaAuditSink`, migration `evidence_v1_audit_chain`) | `AuditEvent` rows in a hash chain | `record`/`append`, `list` | many appenders, rollbacks, event times fixed before the lock | no fork, no gap, order of cause and effect |
| Policy (`policy-adapter.ts`, `PolicyRuleFacade`, `requireAuth`) | `PolicyRule` rows | evaluate; create, update, delete rule | rules change between the decision and the act; ties between rules; a wide ALLOW covers the rules themselves | a decision follows the rules of one moment, deny wins ties; only admins change rules; refusals and changes audited |
| Roles (`packages/auth`, `permissions.ts` of the web application, the routes) | constant tables | `authorize` | two copies of one matrix | the copies agree, every page offered has a route |
| CRM facades and ports (`service-layer.ts`, `prisma-ports.ts`) | fifteen tables of records | create, update, delete, each with an audit event | read, check and write without a transaction, cascades, swallowed audit failures | no orphans, deletions lose what they counted on only, audit says what changed |
| Pipeline stages (`PipelineStageFacade`, `PrismaPipelineStageReadPort`) | `PipelineStage` rows with unique positions | create, update, delete, reorder | reorder writes one row at a time under the unique index; locks and deadlocks | one order of the stages, reorders all or nothing, everybody gets an answer |
| Rate limiters (`middleware.ts`, `auth-routes.ts`, `public-intake.ts`) | three in-memory maps | count a request | turn of the fixed windows, refused requests that count, a login under two keys, restarts | bursts bounded by twice the limit, refusals only for recent use |
| Sessions (`production-auth.ts`, `auth-routes.ts`, `middleware.ts`) | a signed token | login, logout, verify | roles in the token outlive a change of the account; the row is read an await before the token is signed | no role is used longer after it was lost than a session's life and the time its login took |
| Public intake (`public-intake.ts`) | company, contact, lead, activity | one transaction, then an audit event | audit after commit | all four rows or none, and their event unless recording failed |

They interact by calls and through the database: a request passes the limiter
and the session check of `middleware.ts`, `routes.ts` authorizes it with the
policy adapter and calls a facade, the facade calls a port and
then `AuditService.record`; the gate writes receipts whose outbox rows the
worker of any process picks up; everything appends to the one audit chain.

`PROJECT.json` lists every component with its status and every hazard at its line.

## Modules

| Module | What it is |
|---|---|
| `GateLifecycle` | Abstract: what the gate promises about one request (decided once, performed at most once and only when approved, settled after it was performed, attested truthfully). |
| `GoGate` | The service, step by step: every `await` of `gate.ts` is a step of its own. Implements `GateLifecycle`. |
| `GoGateProofs` | Theorems about `GoGate` for any calls and requests, and that it implements `GateLifecycle`. |
| `OutboxDelivery` | Abstract: at-least-once delivery of an event. |
| `Outbox` | Dispatcher, worker loop and port. Implements `OutboxDelivery`. |
| `Evidence` | `GoGate` and `Outbox` together: the gate's receipts are the outbox's events. |
| `EvidenceProofs` | Theorems about `Evidence`: its parts are what they were proved to be alone, and what the handler of a receipt can rely on. |
| `AuditLog` | Abstract: a log that only grows at its end. |
| `AuditChain` | `record` and `append` over the table. Implements `AuditLog`. |
| `AuditChainProofs`, `OutboxProofs` | Theorems about the two above, their refinements included. |
| `PipelineStages` | The stages' four operations, statement by statement under PostgreSQL's row locks, unique index and deadlock detector. |
| `PipelineStagesProofs` | Theorems about `PipelineStages` for any number of stages and callers and reorders of any length. |
| `CrmRecords` | Create, update and delete of every record facade, over the relations of the schema, and the public intake. |
| `CrmRecordsProofs` | Theorems about `CrmRecords` for all fifteen kinds of record. |
| `Permissions` | The role matrix, the web application's copy of it and the permission each route asks for. |
| `Policy` | Which rules match a request, which of them decides, and what the ADR promises. Operators only. |
| `Access` | Sessions, `requireAuth` and the facades whose writes change later decisions (rules and accounts). Uses `Policy`. |
| `AccessProofs` | Theorems about `Access` for any rules, accounts and requests. |
| `RateLimit` | The three limiters, as requests, logins and assessments meet them. |
| `RateLimitProofs` | Theorems about `RateLimit` for any windows and maxima. |
| `MCGoGate`, `MCOutbox`, `MCEvidence`, `MCAuditChain`, `MCPipelineStages`, `MCCrmRecords`, `MCAccess`, `MCRateLimit` | Instances for TLC. |

In every module, a definition that stands right before another, with a name
derived from it, and is used nowhere (`MatchesAny` before `Matches`) is a
faulty variant: a bug the code could plausibly have. Each checked property is
shown to fail when such a variant takes the place of the definition, so that
none of them holds for lack of anything to violate it.

### GoGate

A *call* `h` is one HTTP request inside the service. `call[h]` is its
continuation: the await it stands at, the row it read (`seen`), the row its
last update returned (`wrote`), the time it captured (`stamp`) and the
adapter's verdict. A row is named by its idempotency key, which is unique; a
generated key is one nobody else uses.

| Code | Actions |
|---|---|
| `requestExecution` | `RequestLookup`, `RequestDecide` (policy and `PolicyDecision`), `RequestCreate`, `Audit` |
| `approve`, `reject` | `Read`, `ApproveCheck`/`RejectCheck` (status check, `new Date()`), `Approve`/`Reject` (conditional update), `Audit` |
| `execute` | `Read`, `ExecuteCheck` (status, deadline, adapter lookup), then `Expire`, `Audit` or `Claim`, `CallAdapter`, `AdapterSettles`, `Settle`, `WriteReceipt`, `AuditReceipt`, `Audit` |
| `transition` | `Transition`: one `UPDATE ... WHERE id AND status [AND expiresAt >]`; Prisma sends it as one statement, so it is one step |
| crash, database or audit error | `Lose`, at any await |

The external adapter is called at `CallAdapter` (the effect may happen from
then on) and answers at `AdapterSettles` with ok, not ok or a rejection.
Whether an adapter is configured is a free choice in `ExecuteCheck`. Payloads,
reasons, actors and digests are left out; so is the policy, which is a free
choice between allow and deny. `moves`, `faulted` and a call's `begun` are history variables
the properties speak about; no guard reads them.

### Outbox

Times are relative: `due` is `availableAt - now`, `held` is `now - lockedAt`,
which lets time pass for ever in a finite state space. `claimNext` is a
transaction at PostgreSQL's default level (READ COMMITTED), in two steps. `Find`
releases the leases that ran out and reads a candidate; what it released stays
uncommitted in the worker's `released`: the others go on seeing the rows as they
were, and wait to release or mark them (`Locked`). `Take` is the conditional
update and the commit. In between anything may happen: another worker claims
the candidate (then `Take` finds it not `PENDING` and the loop sleeps), or
claims it, fails and puts it back for later (then `Take` claims it before its
`availableAt`, which the code does not exclude and no property forbids), or the
process dies and the release is rolled back. The release is in one step
with the read because the rows it changed are locked until the commit. `now` is captured
before the transaction opens, so `Find` picks a `lag` and time adds to it while
the transaction is open, up to `MaxLag` in all: Prisma waits 2 s for a
connection and ends an interactive transaction after 5 s, far less than the
lease of 60 s (`main.ts:32`), which is why `MaxLag` is assumed to be at most
`Lease`; an `OUTBOX_LEASE_MS` below that would break the assumption.

`Handle` is an abstract handler that completes or throws. Worker names may be
reused after a restart, as `api-<hostname>-<pid>` allows; two live processes
with one name, which a shared `OUTBOX_WORKER_ID` would give, are excluded.
`Crash` stands for the death of a process and for a statement that throws, after
which the loop sleeps. `slips` counts these and the runs that outlive their
lease; it is bounded by `MaxSlips`, and is what the bound on attempts
refers to. `overran`, a history variable, has the events of such runs.

### Evidence

A step of the gate is a step of `GoGate` with what it adds to `outbox` inserted
as a row by `Outbox!Enqueue` (`Queued`): receipt and event are written in one
transaction (`prisma-ports.ts:1736`), so there is no step between them. A step of
the dispatcher is one of `Outbox` and leaves the gate's state alone, as
`outbox.ts` and the handler do; the event of a receipt goes by the key of its
request, and every event has the handler that `main.ts:29` registers. Calls and workers
of all processes interleave freely. A process that dies takes its calls and its
worker along at once: here that is a `Lose` of each call and a `Crash`, one after the
other. The worker is assumed enabled (`OUTBOX_WORKER_ENABLED`).

### AuditChain

`append` is a transaction in statements: `Lock` (advisory lock), `ReadPrevious`,
`Insert`, `Commit`; `Abort` rolls it back anywhere, the wait for the lock
included. The hash is represented by the event's id, which the hashed payload
contains. Rows from before the migration are in the table initially, numbered,
with a null `previousEventHash`: the migration's `UPDATE ... FROM` reads the
column it is filling, so `ChainLinked` speaks of the rows appended since.

### PipelineStages

A call is a list of statements, each setting the position of one row; only
reorder has more than one, in one transaction. `Lock` finds and locks the row,
`Place` puts the new entry into the unique index. Both wait for other calls'
open transactions (`WaitsFor`): for a locked row, and for an index entry that a
transaction has left or taken and may still give back. `written` is what the
transaction wrote so far, `Overlaid` the table as it sees it; what it wrote
becomes the table at its last statement (`Proceed`), and is dropped when a statement is refused, a deadlock is broken
(`Abort`) or the call is lost. The list of a reorder may name a stage twice or
leave stages out, as `reorderPipelineStagesSchema` allows. Names and
probabilities are left out; their uniqueness is one of the failures `Lose`
stands for.

### CrmRecords

The fifteen facades are one machine with a table of differences. `Schema` gives
each kind's relations: those that take the row along when their target is
deleted (`onDelete: Cascade`) and those that are nulled (`SetNull`, also the
default of an optional relation). `Facades` says how each facade checks an
actor who is neither admin nor manager: whether before or after it reads the
row, whose owner decides, and what holds when there is nobody to ask.

| Code | Actions |
|---|---|
| route handler, validation | `Create`, `Update`, `Delete` |
| `previous = await ...findById(id)` | `ReadPrevious` |
| `assertFollowUpAccess`' look-up | `Locate` |
| `assertCompanyAccess`, `assertSelfScoped`, `assertCampaignAccess`, `assertWriteAccess` | `Check` |
| the ports' `create`, `update`, `delete` | `Insert`, `Change`, `Remove` (with the cascade, which PostgreSQL does in the same statement) |
| `PrismaCompanyReadPort.delete` | `Count`, once per kind in any order, then `RemoveCompany` |
| `POST /api/v1/public/assessment-intake` | `Intake` (the transaction), then `Audit` |
| `auditSafely` | `Audit`, `AuditStage` |
| crash, failed statement | `Lose` |

A write is known by its number, which its audit event carries; `since` is the
number of the write that attached a row to its company. `silent` and `moved`
are history variables. A call's input names at most one optional relation, as
the fields are handled each on its own. Ids come from the database, so a create
never reuses one or takes one that a call in flight names (`Fresh`). A facade
method is mapped to the definition of its kind (`companyFacade`, ...), a port's
class to the statement it sends (`companyPort`, ...).

### Policy and Access

`Permissions` holds the matrix, the web application's copy and the table of
routes as sets of pairs; `MCAccess` has TLC compare them. `Policy` has the query
(`Matching`), the order of `evaluate` (`Before`, `First`) and what `requireAuth`
makes of them (`Decisions`): a set, because rows that tie come in the database's
order. `Promised` is the reference: what `docs/adr/ADR-008-go-gate-policy-rules.md`
says in words.

`Access` is the life of a request around it:

| Code | Actions |
|---|---|
| `POST /auth/login` | `AuthenticateCredentials` (the row read, its status), `IssueSession` (`jwt.sign`, the cookie) |
| `POST /auth/logout` | `Logout` |
| `authMiddleware` (`jwt.verify`) | `Arrive` |
| `requireAuth`: rules and matrix; the refusal recorded and answered | `Evaluate`; `Deny` |
| the facades of other modules | `Serve` |
| `PolicyRuleFacade` | `Enter` (`assertAdmin`), `ReadPrevious`, `ReadNothing`, `CreateRule`, `UpdateRule`, `DeleteRule`, `Audit` |
| `UserFacade.update`, `delete` | `ReadPrevious`, `ChangeUser`, `Audit` |
| crash, failed statement | `Lose` |

A session is the token the browser holds: nothing is stored on the server, so
logging out, demoting or deleting an account changes none of the tokens there
are. `login[u]` is a login between the answer to its read and the signing: it
holds the roles of the row as it was, whatever becomes of the account and the
clock meanwhile, and the token's life starts at the signing. An account has one login
under way at a time; a second one takes the place of the first, as one that
was lost or given up. `past` (the tables of rules there have been), `former`
(what accounts were), `refused`, `wrote`, `Read`'s `at` and a token's `took` (the time from
reading the account to signing) are history.

### RateLimit

`bucket[k]` is the entry of one of the three maps; a key is the limiter with an
address or, for logins, an account. `Request` is the limiter in front of every
request; a login or assessment it lets through reaches its own limiter when its
body is read (`Login`, `Intake`), so that requests interleave between the two.
A refused request counts with the first two limiters and not with the third, as
in the code. `Restart` empties the maps. `passed` is history.

## Runs

| Run | Instance | What it shows |
|---|---|---|
| `gate_safety` | 3 calls, 1 request, deadline 1 tick after approval, clock up to 2 | the safety properties and the refinement of `GateLifecycle` |
| `gate_transition_audit` | 2 calls | **violated**: the move to `EXECUTING` has no audit event (ADR-008 says every transition has one) |
| `outbox_safety` | 2 workers, 2 events (one without a handler), 2 attempts, lease 2, lag 1, 2 slips | a claim ends by its own worker or by the end of its lease; overlap needs an overrun of that event; attempts past the limit need slips; refinement of `OutboxDelivery`; every queued event is acknowledged or given up |
| `outbox_reported_failure` | 2 workers, 2 events that both have a handler, otherwise the same | **violated**: on the last attempt `FAILED` is reported although the lease was lost and `markFailed` changed nothing |
| `evidence` | 2 calls, 1 request, 1 worker, 2 attempts, lease 1, no slips, one time of the gate's clock | an outcome that a worker's handler hears of is concluded and stays; every execution that began is settled, audited and its event taken out of the outbox, unless a call on it was lost |
| `audit_chain` | 3 writers, 4 events, 1 migrated row | no gap, no fork, causal order, refinement of `AuditLog`, every `record` ends |
| `stages_reorder` | 2 callers, 2 stages, positions 0 to 2, lists of up to 2 | positions unique at every moment (`TypeOK`), changes are those of whole calls, every call ends |
| `stages_permutation` | same | **violated**: a reorder that swaps two stages is refused |
| `crm_records` | 2 callers, 14 records of 13 kinds, 2 writes, 2 stages | no orphan, audit events for the writes there were and for all of them up to failures, a company's deletion loses only what came after its counts |
| `crm_stage_moves` | same | **violated**: a stage move with no `opportunity.stage-changed` event |
| `access` | 2 requests in flight and 2 in all, 2 accounts (admin or member), 2 rules at first (one disabled) and one to write, 6 routes, session life 1, clock 1 | decisions follow one table of rules, roles are no older than a session's life and its login's time, only admins change rules, refusals and changes are audited |
| `limits` | 2 addresses, 1 account, windows 1 and 2, maxima 2 and 1, clock 2, 5 requests, 1 restart | bursts bounded, refusals deserved |

Why the bounds are enough. Rows of different requests never meet in the gate's
code, so one request is enough for everything but the audit log's interleaving,
which its properties do not depend on. Three calls give two that race and one
that comes in late; approval, a race of two executions and an expiry need no
more. The clock must pass one deadline: it starts at 1, approval at 1 expires at
2. Two attempts are the fewest with a first and a last one; two slips let an
event overrun, be reclaimed, and overrun again, or its worker crash, so that a claim goes past the attempt limit. Two
workers give every overlap of two claims and of their transactions; that a third adds nothing is what
`OutboxProofs` shows. In `evidence` two calls give a stale one beside the one whose
outcome is heard, and two attempts a handler that fails and runs again; what
time does to the gate and crashes do to the worker is in the runs of the two
alone, and the theorems about `Evidence` are for all of it. (With one attempt and
one slip the instance has 963,114 states and both properties hold; that takes
five minutes.) Three
writers give a holder of the lock, a waiter and one whose event was recorded in
between. Two reorders of two stages in opposite directions deadlock, the third
position lets a stage move without a clash, and lists of two can name one stage
twice. Two overlapping facade calls give every race of a read and a
write the code has; the chains of cascades (company, opportunity, use
case; activity, follow-up; campaign, step) are all in the instance, as is a kind of every
facade but those of communities, contributors, partners and investors, which
check as the use case's does and which the theorems cover. Two requests are enough
for one to change the rules or the other's account while the other stands
anywhere in its path; the rules tie, contradict each other, open everything and
shut the admins out, and the one that contradicts is disabled until an update enables it. A clock
of one tick ends every session begun before it, and lets an account change and the tick
pass between a login's read and its signing: without `took` in the bound,
`RolesHeldRecently` fails in this run. The action constraint `SessionsMatter` leaves sessions, logins
and the clock alone once the last request has come, because only the arrival of
a request looks at them. Two windows of different
length, at maxima the requests exceed, turn within the clock, with requests on
both sides of the turn.
The symmetry in the gate's and the outbox's safety runs permutes calls
and workers, which neither the initial states, the actions nor the properties
tell apart; that of the records' runs permutes callers and the two stages, that of `access`
accounts and callers (the instance treats them alike), that of `limits` addresses. The
liveness runs use none. `audit_chain`, `stages_reorder`, `crm_records`, `access` and `limits` do not check for
deadlock because the instance stops when its events are recorded, its calls
answered or its writes or requests used up; `EveryRecordEnds` and `EveryCallEnds` say that
nobody is stuck before that, and no step of the other three waits.

### Fairness

- `FairEvidenceSpec`: weak fairness of each call's own steps (`Serve`). The event loop
  resumes every continuation, statements return or throw, and adapters answer:
  the code sets no timeout on an adapter, so an adapter that hangs for ever is
  the one thing excluded here. No fairness is assumed of `Lose`, `Tick` or the
  arrival of calls. For the workers and their time it is that of the outbox:
- `Outbox!FairSpec`: weak fairness of each worker's loop (`setTimeout` fires, a
  claim commits or is cut off by its timeout, the supervisor restarts a dead
  process) and of time. A worker that waits for a row lock waits for a claim
  that waits for nobody. None of handler success, `Crash` or `Enqueue`.
- `AuditChain!FairSpec`: a transaction that holds the lock goes on (weak), and
  the database serves the queue of those waiting for it (strong, as others may
  hold it in between). None of `Record` or `Abort`.
- `PipelineStages!FairSpec`: weak fairness of each caller's statements and, as
  part of them, of the deadlock detector (PostgreSQL looks after
  `deadlock_timeout`). None of `Lose` or the arrival of calls.

## Findings

1. `gate.ts:277` moves a request to `EXECUTING` without an audit event;
   `docs/adr/ADR-008-go-gate-policy-rules.md:34` says every transition emits one.
2. `outbox.ts:50` ignores what `markFailed` returns. When a handler outlives its
   lease on the last attempt and then throws, `dispatchNext` reports `FAILED` for a row
   that another worker has reclaimed and is processing,
   where the success and retry paths throw (`outbox.spec.ts:66`,
   `outbox.recovery.spec.ts:72`). `outbox.ts:41` does the same for an event without a
   handler (`outbox.spec.ts:78`); the run has none, so that it shows the first.

3. `prisma-ports.ts:649` reorders stages by one UPDATE each under the unique index
   on `sequence`, which PostgreSQL checks at every row: moving a stage to a
   position another still has is refused, so a permutation of stages numbered
   from 0 never succeeds. `service-layer.spec.ts:820` expects it to, over an in-memory port.
4. `service-layer.ts:716` compares the new stage with a row read before the
   update. Between two overlapping updates an opportunity moves with no
   `opportunity.stage-changed` event; `docs/CRM-ROADMAP.md:63` promises one whenever it moves.

More observations, without a run of their own: nothing
takes up a request left `EXECUTING` by a crash (the `faulted` disjunct of
`ExecutionOwned` and `EvidenceIsDispatched` is there for it), and claims lost to
crashes can take an event past `maxAttempts` (`AttemptsPastLimitNeedSlips`
bounds by how much). A company's deletion counts contacts, leads, activities and
tasks but not opportunities, which go with it together with their use cases;
`LossNeedsRace` speaks of the four kinds it counts.

`requireAuth` records its refusals, the facades' own checks (`assertAdmin`,
`assertCompanyAccess`, `assertWriteAccess`, ...) answer 403 and record nothing:
`AuditFaithful` of `Access` speaks of the former. An admin can create a DENY
rule that shuts every admin out of `policy:write`, and with it out of its
repair through the API (`Shut` in `MCAccess`); `AdminsKeepTheRules` is about the
other direction. `docs/CRM-SECURITY-MODEL.md:92` and ADR-008 differ in what
happens when no rule matches; the code does what ADR-008 says and falls back to
the matrix. The limits hold per process and start anew with each restart,
and a `RATE_LIMIT_MAX` that is no number turns the first limiter off (`NaN`
compares false). `Date.now` is taken not to go back.

`docs/CRM-SECURITY-MODEL.md:49` asks for "centralized logout and session revocation
support", and `:229` lists "Stale authorization is reused" among the tests that
"must never succeed" (`:216`). The code has no revocation: logging out clears the cookie
only, a copy of the token is good until it expires, and an account that was
demoted, deactivated or deleted acts with its old roles until then. A login
that such a change overtakes, between `production-auth.ts:73` and
`auth-routes.ts:54`, even gets a new token with the old roles and a full life.
`RolesHeldRecently` does not claim what the document asks; it says how stale
the roles of a request can get, which is the life of a session and the time of the login.

## Proofs

TLAPS checks the theorems below for every value of the constants that meets the
named assumptions of the modules. These say that a value standing for "none" is
no member of its set, that durations, maxima and bounds are natural numbers
(those the code requires to be positive are), that initial rows and inputs are
of the right type, and, in `Outbox`, that a claim's time lag stays within the
lease. Nothing is assumed of the number of calls, requests, workers, events,
writers, records, accounts or addresses.

### The gate

`GoGateProofs`:

| Theorem | Property |
|---|---|
| `TypeCorrect` | `TypeOK` |
| `ExecutionIsOwned` | `ExecutionOwned` |
| `EffectIsOnceAndApproved` | `EffectOnceAndApproved` |

- `TypeOK` is proved with `Running` (a call that is not idle has a key in
  `Keys`), without which an action could index a row outside its domain.
- `StepKinds` then sorts every step of `Next` into seven kinds (`Aside`,
  `Prepares`, `Begins`, `Performs`, `Answers`, `Settles`, `IsLost`) that say what
  happens to rows, executions and effects. The invariants go by kind and not by action.
- `ExecutionOwned` is inductive as it stands once types are known: the
  claim finds the row `APPROVED`, hence owned by nobody, and every other way
  out of the flight either settles the row or marks it faulted.
- `EffectOnceAndApproved` is not inductive. `EffectsInv` adds that a row not
  yet executing has no effect, that the one call in flight holds the row's
  execution id and has performed the effect exactly when it is past
  `"calling"`, and that every row beyond approval was approved.

and, with all other safety properties of `GoGate`:

| Theorem | Property |
|---|---|
| `LateCallsNeverExecute`, `OnlyLapsedExpire` | `LateCallNeverExecutes`, `ExpiresOnlyWhenLapsed` |
| `DecisionsAreOnRecord` | `DecisionOnRecord` |
| `ReceiptsMatchOutcomes` | `ReceiptMatchesOutcome` |
| `AuditIsTruthful`, `AuditIsComplete` | `AuditTruthful`, `AuditComplete` |
| `LifecycleImplemented` | `ImplementsLifecycle` |

- `StepShapes` brings every step into one of eleven shapes that also say what
  the call keeps from one await to the next; `Wins` is a conditional update that
  matched, and the only shape that changes rows.
- `TimedInv` ties a row that is `APPROVED` or beyond to what the calls read of
  it: a deadline is set once, so the one a call compared with the clock is the
  one the row has, and a call that was let go on began before it.
- `HistoryInv` is the heart of the audit's proof: a row never comes back to a
  state (`Earlier`), so it makes no move twice; a call reports a move the row
  has made, the state it read before included, because the update matched that
  state; and no two calls have the same move to report. With it, the state
  that `approve` reads before its update is as good as one read with it.
- `ReceiptsInv` says that whoever is about to write a receipt holds the row's
  outcome and finds no receipt; `TruthInv` that the log holds moves that were
  made, none twice, and none that is still to be reported; `Accounted` that a
  move is logged, about to be logged, or its request is `faulted`.
- The refinement goes by shape: `Wins` is a step of the lifecycle,
  `Flies` the performance, `Attests` the attestation, the rest stutters.

### The outbox

`OutboxProofs`:

| Theorem | Property |
|---|---|
| `TypeCorrect` | `TypeOK` |
| `OverlapsNeedOverruns` | `OverlapNeedsOverrun` |
| `AttemptsDistinct` | `AttemptsTellClaimsApart` |
| `AttemptsBounded` | `AttemptsPastLimitNeedSlips` |
| `ClaimsEndProperly` | `ClaimEndsByHolderOrLease` |
| `DeliveryImplemented` | `ImplementsDelivery` |
| `ReleasesAreExclusive` | `LocksHeld`, a part of the invariant |

- `LocksHeld` carries an open claim from `Find` to `Take`: what it has released
  is still `PROCESSING` with its lease over, and released by nobody else,
  because marks and other releases wait for it. So the commit overwrites
  neither a mark nor a claim, whatever happened since the read.
- `LoopSound` fits a worker's place to its event; `Apart` and `HolderCurrent` say
  that workers on one event hold different attempts and the one its row
  names the latest. The condition of `Take` makes the new attempt the highest.
- `NothingLost`: whoever runs an event that was not overrun holds its row,
  within the lease. It is about each event by itself; a crash does not weaken
  it, as the dead run nothing.
- `Budget` bounds the attempts by what the slips so far can have paid for: the
  claim that uses up the last of them is in time, so another slip is needed
  before the event is available again.

The proof goes by what a step does to rows and workers, not by action:
`ReleaseInv` serves a claim that finds nothing and one that loses its race,
`OpenInv` the opening and `TakenInv` the commit of a successful one, `LetGoInv`
every way of giving up an event, `MarkInv` the three marks.

### The two together

`EvidenceProofs`, for any calls, requests and workers:

| Theorem | What it says |
|---|---|
| `GateIsGoGate` | `EvidenceSpec` implies `Spec` of `GoGate` |
| `DispatcherIsOutbox` | `EvidenceSpec` implies `Spec` of `Outbox`, with the receipts for its events |
| `QueueMatches` | `QueueMatchesReceipts`: an event in the outbox for every receipt, and no other |
| `WhatIsHeardStands` | `HeardOutcomesStand` |

- With the first two, every theorem about `GoGate` and `Outbox` holds of the
  composition; the proofs of the other two use those of the parts as they are
  (`Proved` is the instance of `OutboxProofs`, and its definitions are shown to agree
  with those of `Dispatch`). `DispatcherIsOutbox` needs the types of the gate, the
  projection the other way nothing.
- `Coupled` ties the parts: a key is in the gate's `outbox` exactly when its row
  is queued, and what was delivered was in it. It is inductive because only
  `Enqueue` takes a row out of `"NONE"` (`DispatcherQueuesNothing`), and `Queued`
  calls it exactly when the gate adds a key (`GateAdds`).
- From there a handler that hears of a request implies a receipt
  (`HeardIsReceipted`: a worker's event is a queued one), a receipt a concluded
  outcome (`ReceiptConcludes`, from the invariants of the gate), and a
  receipt that row, receipt and effects stay (`ReceiptFreezes`, by the shape of
  the step): conditional updates match unsettled rows only, the call that may
  still perform has a row that is `EXECUTING`, and a receipt is written once.

### The audit chain

`AuditChainProofs`: `TypeCorrect`, `NoGaps` (`SequencesGapless`), `Linked`
(`ChainLinked`), `CausalityKept` (`ChainKeepsCausality`) and `LogImplemented`
(`ImplementsLog`). `TypeOK` says who holds the advisory lock; `Informed` adds that what
its holder has read of the table is still true, `IdsApart` that ids in flight
are in no row. Gaplessness is about cardinalities: with n rows numbered 1 to n,
the row to be inserted is number n + 1.

### The records

`CrmRecordsProofs`, for every set of records of the fifteen kinds: `TypeCorrect`,
`NoOrphans` (`NoOrphan`), `AuditIsFaithful` (`AuditFaithful`) and
`LossesNeedRaces` (`LossNeedsRace`). `NoOrphan` is inductive with the types: a
write that refers to a row that is gone fails, and a deletion takes everything
that cannot be without the row, chains of cascades included. `CallSound` ties a
call to the write it still has to audit, and a company's deletion to its
counts: what is attached and was not counted came later (`CountSound`).

### Access

`AccessProofs`, for any rules, accounts and routes: `TypeCorrect`,
`DecisionsAsPromised` (`DecisionsFollowRules`), `RolesAreRecent`
(`RolesHeldRecently`), `AuditIsFaithful` (`AuditFaithful`) and `AdminsKeep`
(`AdminsKeepTheRules`). `DecisionIsPromised` shows that sorting the rules
decides as the ADR says whatever the order of ties; the invariant keeps the table of
rules the last of its history (`PastSound`), ties a decision to a table since
the request came in, and the roles in logins, tokens and requests to a time when the account had
them: a login to the moment of its read (`ReadSound`), a token to that moment too,
which lies `took` before it was signed (`TokenSound`, both in `SessionsSound`), a request to
the same, less than `took` and a session's life before it was verified (`CallSound`).
Accounts may change at any point of this: what `former` says of the past stays said.

### The limits

`RateLimitProofs`, for any windows and maxima: `TypeCorrect`,
`BurstsAreBounded` (`BurstBounded`) and `RefusalsAreDeserved`
(`RefusalsDeserved`). The invariant `Sound` reads a bucket as a summary of the
requests that passed: those of the open window are the last ones, fewer than
the maximum before each, and all others are a window older.

### The stages

`PipelineStagesProofs`, for any stages, callers and lists: `TypeCorrect`
(`TypeOK`, the uniqueness of positions included) and `WholeCalls`
(`ChangesAreWholeCalls`). That positions are unique in the table is not inductive: a
transaction may be about to commit what it wrote long ago. The invariant adds
that each open transaction sees unique positions (`ViewsUnique`), that what it
has taken is nobody else's, in the table outside the rows it has locked and in
what other transactions wrote (`PositionsApart`), that locked rows are there and locked
once (`LocksApart`), and that a row being created is its creator's alone
(`BirthsApart`). A commit keeps the view of another transaction unique because
the rows that one wrote are locked, hence not among the rows that change, and
because a statement waits for entries the other has taken. `LastWord` says that a row
has, of what the transaction wrote, what its last statement on the row says; at
the end of the list that is the effect of the whole call.

### Only model-checked

Liveness (`EvidenceIsDispatched`, `EveryEventSettles`,
`EveryRecordEnds`, `EveryCallEnds`) is out of the prover's reach. The agreement of the matrices and routes in
`Permissions` is a question about constant tables, which TLC settles for good.

## Not modelled

- Reads, listings, dashboards, analytics and the outbox's summaries change
  nothing, and promise nothing about the moment of the reads they combine.
- Validation and formatting, the pages of the web application, the mocks of
  integrations, seed, types and deployment have no protocol. Inputs are those
  validation lets through.
- `AUTH_DISABLED`, which production ignores, and the audit events of logins and logouts.
- Digests and hashes are abstracted to the identity of what they cover; what
  they leave out (a `Date` hashes like an empty object in `canonicalize`) is not
  examined.
- In `CrmRecords` the actor's roles come with the call and do not change
  (`Access` models how they age); columns other than relations and the stage are
  left out.

## Plan

Done: the gate with its receipts, the outbox, the two composed, the audit chain, the pipeline
stages, the records and the intake, policy, access and the limits; every safety
property of the components that run concurrently proved.

Left: the audit events of logins and of denied policy checks, chained, with `Access`
and `AuditChain` composed as `GoGate` and `Outbox` are.
