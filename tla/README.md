# Verification of the memory router

TLA+ models of the memory router (`memory_router/`), the TLC runs that check
them on small instances, and TLAPS proofs for every size.  `PROJECT.json` maps
each definition to the source lines it models and lists the hazards each
property is about.

## The system

The router stands between agents and Hindsight, a memory store.  Writes and
recalled memories that look unsafe are quarantined: encrypted, stored as rows
of `quarantine_items`, and released or rejected by a reviewer.  Approving a
retain and rejecting a recalled memory cause a call to Hindsight that cannot be
taken back and whose answer can be lost.

| Part | State | Operations | Model |
|---|---|---|---|
| Review transactions (`review_repository.py`), admin service (`admin.py`) | row status, `updated_at` as claim token, `sha256`, `expires_at`, `postpone_count`; what a request carries between transactions | claim, complete, finish, interrupt, postpone, remove, reconcile, recover | `Review` |
| Admission (`repository.py`, `quarantine_store.py`) | rows, totals, evidence snapshot, wrap slots, pools | put, store | `Admission` |
| Maintenance (`maintenance.py`) | rows, event log, export file | expiry, cleanup, event retention | `Maintenance`, rows in `Review` |
| Runtime and sweeper (`app.py`, `lifecycle.py`) | open resources, tasks, stage of a lifespan | start, stop, their failures, sweep loop | `Runtime`; the loop in `Maintenance` |
| Scan executor (`scan_executor.py`) | pool, generation, slots, futures | scan, timeout, replace, shut down | `ScanExecutor`, composed with `Runtime` |
| Security scan (`security.py`, `scan_windows.py`) | batches, carried fields, windows | scan directly, in batches, of a query | `ScanBatches` |
| Recall (`policy.py`) | snapshot of review states, dirty set, results | recall | `RecallPolicy` |
| Writes (`policy.py`, `openclaw.py`, `hindsight.py`) | where a write stands, what its client heard | retain, forward | `WritePath` |
| Bank list (`hindsight.py`) | offset, collected banks | list | `BankList` |
| Rate limits (`rate_limit.py`) | event windows, identities, sweep counters | consume, sweep, roll back | `RateLimiter` (PostgreSQL), `MemoryLimiter`, `IdentityLock` (in process) |
| Concurrency leases (`rate_limit.py`) | lease rows, heartbeats | acquire, refresh, release | `ConcurrencyLease` |
| Human authentication (`human_auth*.py`, `human_oidc.py`) | policy, logins, sessions | start, exchange, sign out, activate, revoke, prune | `HumanAuth` |
| Gates (`app.py`, `auth.py`, `principals.py`, `principal_gate.py`, `request_dispatch.py`) | where a request stands, failure counters | authenticate, rate, grant, body, place | `Gateway` |
| Facade routes (`facade_routes.py`) | the route table | match, scope | `FacadeRoutes`, extended by `Gateway` |
| Database layer (`db.py`) | advisory lock, table, indexes | schema setup | `SchemaSetup` |

Everything runs on one asyncio loop per replica; several replicas may share a
PostgreSQL database.  What makes the system hard: requests interleave at every
`await` between two transactions; a process may die there; a Hindsight call may
take effect after the request that made it has given up; clocks of replicas
differ; the sweeper, cleanup and re-admission touch rows a reviewer works on.

## Modules

In all models one `async with db.transaction()` is one step: SQLite serialises
transactions and PostgreSQL locks the rows that are read `FOR UPDATE`, or takes
advisory locks.  Between two steps of a request every other request, the sweeper
and the clock may move, and the request may fail or be cancelled.

Definitions that end in `Fault` are broken variants of the definition that
follows them: what the code would do without one of its checks.  No
specification uses them; they show that the properties notice the difference.

### The review life cycle

* `Review` — `row[q]` is a row of `quarantine_items`, `req[p]` an admin request:
  its program counter, and the snapshot or claim it carries.  `wire` and
  `applied` are the calls Hindsight may still carry out or has carried out.
  `gen` and `misreported` are history: how often an id was admitted, and whether
  an operator's reconcile verdict on the row was wrong.
* `ReviewContract` — what the life cycle promises, without claims, instants,
  requests or calls: an item is open, being decided, uncertain, landed, allowed
  or blocked, and at risk while an effect happened or may happen.
* `Maintenance` — cleanup as two requests, the sweeper loop of each replica, and
  the audit events: `log` is the table, `file` the export, `sweeper[s]` where a
  loop stands and what it carries (its instant, cutoff, batch and total).  Rows
  are in the queue or gone; `Quarantine` and `Decide` stand for admission and
  review.  A batch of retention is three steps, because its select takes no lock
  and the file does not roll back.

`ReadCandidate` and `ReadUncertain` are the reads of `_require_claim_candidate`
and `reconcile` before the transaction.  `ClaimReview` is `claim_review` inside
`_mutate_review`: snapshot check, stale recovery, reviewable check, update.
`SendEffect`, `EffectSucceeds`, `EffectDefinitelyFails` and `Abandon` are the call
and its outcomes: an ambiguous failure re-raises without touching the row, so it
ends the request like a cancellation or a crash does.  `CompleteSideEffect`,
`FinishSideEffect`, `FinishApproveMemory` and `InterruptReview` are the
transactions after the call.  `Postpone` and `Remove` are single steps because
their requests use nothing they read before the transaction.  `ConfirmApplied`
and `ConfirmNotApplied` are the verdicts of `reconcile`.  `RecoverInterrupted`,
`SweepExpired` and `Cleanup` are the maintenance transactions, `Insert` and
`Requarantine` are the outcomes of `store`.

In `Maintenance`, `Wake`, `SweepExpired`, `StartPrune` and `FailIteration` follow
`_sweep_loop`: one clock read for expiry and summary, another for the cutoff, and
an error in one phase that does not stop the next iteration.  `SelectBatch`,
`AppendEventExport`, `DeleteBatch` and `RecordSummary` follow
`prune_events_before`.  `FailIteration` may leave any leading part of the batch in
the file and always leaves the batch in the table: `finish_before_cancelling`
waits for the worker and the transaction rolls back.  The model reads the file as
the set of its complete records; it survives crashes of the process, not of the
machine, since the export is not synced to disk.

Assumptions on time in `Review`, all in `TimingAssumption`: the instant `at` a
transaction uses lies at most `Lag` behind the newest clock; `Lag` is less than
the stale limit (at least a minute in the code) and less than the time an
operator takes to inspect Hindsight before a verdict.  A 4xx answer means the
call was not carried out, and an exception that is not a `HindsightGatewayError`
is raised before the request is sent; both are what
`_side_effect_definitely_failed` relies on.

### Admission

`Admission` follows one `put` through its waits: `Preflight` (size, snapshot of
the row), `Charge` (the early rate charge of its class), `TakeSlot` and `Encrypt`
(the bounded key wrapping), `Connect` and `LockIdentity` (a connection of the rate
pool and the identity's lock), `Recheck`, `OpenStore` (a connection of the main
pool) and `Store`, which is the whole transaction: expiry of the row, comparison
with the snapshot, totals, limits of writer and bank, the charge for a class that
was not paid yet, and the write.  `Fail` is a cancellation, a timeout or a refusal
at any wait.  `Claim`, `Reopen`, `Decide` and `Leave` stand for review and sweeper.
`AdmitsWithinLimits` is about the step that stores: later the totals may exceed a
limit, because a recovered or reopened row counts again.

### Limits and leases

* `RateLimiter` — a session is a transaction.  `Open` takes the locks, reads the
  database's clock and decides from the replica's cache whether the largest window
  must be recorded; `Commit` sweeps, prunes, counts and inserts; `Rollback` leaves
  nothing.  A session on the caller's transaction (`own = FALSE`) neither sweeps nor
  feeds the cache.  `LimitsRespected` shortens every window by `TxDelay`, the longest
  time between a session's clock and its counting: a sweep with a later clock may
  commit between the two, and so much the code does forget.
* `MemoryLimiter` — the same promise without transactions: `ConsumeManyDistinct` has
  no await, and prunes the buckets it visits before it refuses.
* `IdentityLock` — lock objects that are dropped with their last user and made again.
* `ConcurrencyLease` — `call[p]` holds the request's operation, its heartbeat, the
  life of its row by the database's clock and the heartbeat's timer and deadline by
  the process's.  All instants are kept as the time that remains, so the model needs
  no bound on time.  An operation whose heartbeat gave up is `stopping`, no longer
  running: the code cancels it, and awaits it before the row is released.  Two
  assumptions: the answer to an acquisition comes within `AcquireDelay` (the code
  sets no timeout on it), and timers that are due are served before time goes on
  (the event loop does not lag).

### Service

* `Runtime` extends `ScanExecutor`: a lifespan opens the two databases together, the
  other clients, the sweeper and the scanner, in the order of `app.py`, undoes what
  it opened when one fails, closes in the order of `CloseOrder`, and may be
  cancelled while it stops.  `ScanExecutor` has the slots of a semaphore that
  belongs to a generation, pools that die and are replaced, futures that finish
  after their caller gave up, and a shutdown during all of it.
* `SchemaSetup` — replicas that start together: advisory lock, schema transaction,
  `CREATE INDEX CONCURRENTLY`, which waits for statements that run and leaves an
  invalid index when it fails.

### Requests

* `Gateway` extends `FacadeRoutes`: `Arrive` is arrival and authentication (the
  three dispatchers), then come the failure rate and the event it may write, the
  rate of the principal or administrator, the grant, the body, a place of the
  concurrency limiter, and the operation.  Rate limits may refuse at any time.
* `FacadeRoutes` — the table as the code builds it, `MatchFacadeRoute` and the scope
  of each route.
* `WritePath` — a write up to Hindsight and what the client is told afterwards.
* `BankList` — pages of Hindsight's list, of any size, while banks come and go.
* `ScanBatches` — a document as a sequence of keys, values and numbers; a scan as
  the set of field groups it covers.  What a pattern finds is not modelled: the
  property asks whether the fields of a flaw are ever seen together.
* `RecallPolicy` — a recall reads the banks, takes a snapshot of review states,
  refreshes what became dirty, and judges, quarantines, merges and scans the
  results, while reviewers and other requests move the states.
* `HumanAuth` — logins, exchanges and sessions; a replica is known by its policy.

`MCReview`, `MCMaintenance`, `MCAdmission`, `MCLimits`, `MCHumanAuth` and `MCRecall`
are instances for TLC.  `MCService` and `MCRequests` each put components side by side
that share no state: `part` says which of them a behaviour is about, and the others
stay in an initial state.

## Runs

| Run | Instance | Shows |
|---|---|---|
| `review_retain` | two reviewers, one retain request, two contents, two admissions, clock to 2 | claims are exclusive; a retain is never repeated, forgotten or deleted while uncertain |
| `review_memory` | two reviewers, one recalled memory, one postpone, lagging clock, clock to 3 | both kinds of claim and stale takeover; checkpoints are truthful; decisions stand; the contract is implemented |
| `review_liveness` | one reviewer, one recalled memory, clock to 3 | a dead claim is released, an expired item leaves |
| `maintenance` | two replicas, one item, batches of two, admission up to four events, one failure | log and export file together tell the truth about the queue; nothing is pruned early |
| `maintenance_liveness` | one replica, two items, batches of one, one failure | old events and expired items leave |
| `cleanup_preview` | two items, one replica; expected to fail | cleanup may delete an item that the preview did not count |
| `admission` | two puts, four inputs over three ids, two pending, one per writer, two per bank, four bytes, one event, pools and slots of one, clock to 1 | limits hold when a row is stored; nothing is overwritten that was not read; every class is paid for; no put waits for ever |
| `limits` | two replicas, two sessions, windows of 2 and 3, two identities, sweep at every second session, clock to 3 | no window holds more than its maximum |
| `service` | lease: three requests, maximum 1, lease of 12 units; runtime: two scans, two pools, one slot, two lifespans; schema: three replicas, two indexes, two faults; memory limiter: clock to 5; lock: three tasks | operations stay within the maximum and give their places back; slots are accounted for; nothing outlives a lifespan; a serving replica has its indexes and all come up; windows and identity locks hold |
| `human_auth` | two policies, two persons, three logins and exchanges, two activations, lives of one unit | a login buys one session, sessions are current, caps hold |
| `recall` | one request, two banks, two memories, three contents, two of them with one digest | what was blocked is not shown, and what is exempt from the last scan was approved |
| `requests` | two clients, two writers, documents of up to seven fields in batches of two, lists of up to four banks in pages of two | no operation runs ungated; failure events are bounded; routes are right; writes are told truthfully; lists are exact; neighbouring fields are scanned together |

Why these bounds.  In `Review` one item suffices because no transaction relates
two rows except the bulk ones, which treat each row alone; two reviewers suffice
for a claim and a rival, and the proofs cover any number.  The clock bound leaves
room for a claim to go stale, to be taken over and to be acted on late.  In
`review_retain` the TTL is longer than the stale limit: were they equal, an item
would expire whenever its claim goes stale, and no takeover could lead to a second
call.  In `Maintenance` two replicas meet inside a batch, and four events let an
item leave and return.  Retention and TTL are one tick and the clock goes to two, so
that an event may be younger than, at, and older than the cutoff.  The liveness
run has a batch of one: every backlog is larger.  In `Admission` every limit is
small enough to refuse a put, and a put may find its row expired, claimed, decided
or replaced.  In `limits` both windows end before the clock does, and the
sweep of one replica meets an open session of the other.  A lease of 12 has
intervals of 4 and timeouts of 2, so a refresh can fail twice before the deadline.
A batch of two fields is smaller than the windows that reach over it.

Deadlock is not checked: clocks stop at their bounds, and requests may all be over.
Where waiting for each other is the question (`admission`, the schema), a liveness
property asks it.

Fairness.  Of clocks and of the sweeper in `Review` and `Maintenance`: the loop in
`app.py` runs as long as the service and goes on after a failed iteration.  In
`ConcurrencyLease` of time, of the answer to an acquisition or its failure, and of
the heartbeat.  In `SchemaSetup` of a starting replica, which retries the lock, and of
the server, which ends sessions whose client is gone.  In `Admission` of the steps of
a put: pools and slots serve their waiters in turn, and only other puts hold them.  Reviewers, clients and Hindsight owe nothing.

`misreported` appears in several properties.  `reconcile` has no staleness check:
an operator who answers while the call is still under way, or wrongly, opens the
row for a second call.  The properties say that nothing else does.

`WritesToldTruthfully` leaves one answer out: a principal whose lease is lost during
a retain hears 503 with a `retry-after` although the write may be carried out;
`docs/reference/api.md:41` documents it.

`cleanup_preview` records a difference between code and documentation.
`docs/operations/cleanup.md:37` says "Cleanup returns `409` if the selected set
changes after preview."  `maintenance.py:76` compares the size of the selection
with `expected_count`; when one item leaves the selection and another joins it
between the two requests, the sizes agree and the newcomer is deleted.

## Proofs

All theorems hold for every value of the constants that satisfies the named
assumption of the module.

### Review

`ReviewProofs` proves, for all sets of reviewers and items and all values of the
limits that satisfy `TimingAssumption`: `TypeOK`, `ClaimExclusive`,
`EffectAccountedFor`, `AtMostOneCall`, `CheckpointTruthful` and the action
property `DeletionSafe`.

None of them is inductive.  The invariant `Inv` (`ReviewInvariant`) adds three
facts.  `Requests`: what the program counter says of the data a request carries.
`Tokens`: a request that holds a claim either matches the row, and is then its only
match with the reviewed content, or its instant is more than `Lag` old, so that no
later transaction can write the same instant.  `Effects`: a row that was not
misreported has at most one call, the row says so, and a request still to make
its call matches the row.  A stale claim is more than `Lag` old because
`Lag < StaleSeconds`, and a reconciled one because `Lag < OperatorLatency`.

The step lemmas (`ReviewSteps`) group the actions: those that rewrite only free
rows (`FreeRowsStep`), those that leave rows alone (`Frame`), those that take a row
out of its claim (`ClosingStep`), and claim and insert, which have lemmas of
their own.  `DeletionSafe` follows from the invariant and from which statuses a
deleted row can have (`DeletedRows`).

### Leases

`LeaseProofs` proves `RunningWithinMaximum` for any number of requests, any maximum
and any lease that divides into intervals and timeouts (`LeaseAssumption`).  The
count of live rows is bounded because only an acquisition adds one; what has to be
shown is that every running operation has a live row.  `InTime` says so in terms of
the timers: the row outlives the heartbeat's deadline less one refresh timeout; a
heartbeat that sleeps wakes an interval before its deadline; one that refreshes
gives up a timeout before it.  A timeout is half an interval, so the row is alive
throughout.  The assumption `AcquireDelay < RefreshTimeout` is what the first of
these needs when an operation begins.  `RefreshFindsRow` is the same fact seen from
the database: under these assumptions the branch of `Refresh` that raises
`ConcurrencyLeaseLost` is never taken, and it remains as the code's guard against a
lagging event loop.

### Human authentication

`HumanProofs` proves `LoginUsedOnce` and `SessionsCurrent`.  The invariant adds:
a claimed login has no row and is not started again (`Spent`); an exchange past
the provider carries the person who signed in with its login, which cannot change
afterwards (`PersonKnown`); a session belongs to its exchange and is revoked or of
the present epoch (`SessionRowsCurrent`).  Steps that only shrink the tables or set
marks are covered by one lemma (`QuieterKeeps`).

### Schema

`SchemaProofs` proves `ReadyMeansIndexed` for any number of replicas, indexes and
failures.  Who works on the schema holds the lock (`LockHeld`), indexes before the
one it is at are valid, and the one it drops or builds is not (`Progress`): so a
valid index is never touched again.  `Distinct` says that the marks for a free lock
and for a dead session are no replicas.

### Only model-checked

The liveness properties (fairness and `ENABLED` are out of the prover's reach),
`DecisionsStand`, the refinement of `ReviewContract`, `CapsRespected`, and everything
about `Maintenance`, `Admission`, `RateLimiter`, `MemoryLimiter`, `IdentityLock`,
`ScanExecutor`, `Runtime` and the modules of requests.  `ScanBatches`, `BankList` and
`FacadeRoutes` compute with sequences; what a recursive definition returns for every
input is out of the prover's reach too.

## Not modelled

* Text: the patterns of the scanner, canonical forms of characters, base64 and
  provenance.  They are functions of one text; a field is a model value.
* Encryption, key wrapping and encodings: functions of one value.
* Validation of bodies, answers, tokens and of the registry and other
  configuration: a choice between valid and invalid where control depends on it.
* Health probes: one probe at a time fills a cache that nothing else reads.
* Migration of the legacy quarantine: an offline tool that runs alone.
* Logging, metrics, the command line and the user interface.
* The fields Hindsight answers beside the results of a recall (`policy.py`): each is
  scanned on its own and left out, with an audit, if it is unsafe.
* Reads of the admin service: lists, statistics, events, and the release of a
  wrapped key.
* A crash of the machine: SQLite, PostgreSQL and the export file are taken to keep
  what they acknowledged.

## Plan

1. Proofs: the refinement of `ReviewContract`; `TrailTellsQueue`; the limits of
   `Admission` and `RateLimiter`; `IdentityExclusive`; `WritesToldTruthfully`.
2. A composition of `Admission` with `Review`, in which the rows a reviewer holds
   are those of `Review`.
