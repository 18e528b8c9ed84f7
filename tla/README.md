# Onyx Framework: a TLA+ verification project

TLA+ modules, model-checking configurations and machine-checked proofs for the
stateful protocols of the Onyx Framework. Paths below are relative to `crates/`
unless they start elsewhere. `PROJECT.json` maps every definition to the lines
it models and lists runs, seeded defects, findings, hazards and theorems.

## 1. The system

An organisation's work (missions, tasks, lists, messages, files, staff loans)
lives in event-sourced *aggregates*. A command is decided by the aggregate,
its events are applied, and one database transaction stores the new state
document, the events, one outbox row per event and the result under the
operation id. From there:

| part | code | state | operations | hard behaviours |
|---|---|---|---|---|
| command pipeline | `bins/api-server/src/command_handler.rs`, `routes/command.rs`, `infrastructure/persistence-postgres/src/unit_of_work.rs` | `aggregates`, `domain_events`, `outbox`, `idempotency` | submit, look up, load, decide, upsert, commit, answer | overlapping requests, retries of one operation, lost answers, rollback |
| outbox relay | `bins/worker/src/outbox_relay.rs`, `persistence-postgres/src/outbox_store.rs` | `outbox`, `dead_letter`, spawned tasks | store, claim, publish, mark, dead-letter | expired leases, stale tasks, crashes, failing statements, rows that do not decode |
| job queue and runner | `infrastructure/background-jobs/src/postgres_queue.rs`, `bins/worker/src/job_runner.rs` | `jobs`, runner loops | enqueue, recover, claim, execute, complete, fail | two runners on one job, two-statement `fail`, a runner that exits |
| staff loans | `domains/todo-domain/src/aggregate.rs`, `bins/api-server/src/routes/command.rs`, `bins/worker/src/staff_loan_scheduler.rs`, `job_runner.rs` | one aggregate row written by commands and by SQL of the worker | six commands, two scans, two jobs | read-then-write without a lock, stale jobs, two version fields, authority checked on an earlier load, loops that end |
| device outbox | `applications/client-composition/src/sync_agent.rs`, `cloud_outbox.rs`, `persistence-sqlite/src/outbox_store.rs`, `deploy/cloudflare/edge-gateway` | local `outbox`, `dead_letter`, the pump, the cloud's table | claim, show, upload, acknowledge, dead-letter | offline, lost and partial answers, batches refused as a whole, restarts, undecodable rows |

The parts meet in the tables. The pipeline writes the outbox rows the relay
publishes; the schedulers enqueue the jobs the runner executes; the staff-loan
jobs write the same `aggregates` rows as the pipeline, without its guard; on a
device the same unit of work feeds the pump of `SyncAgent`.

The other parts are listed with the reason they are left out, or the plan for
them, under "components" in `PROJECT.json` and in section 8.

## 2. Modules

| module | models | composed with |
|---|---|---|
| `JobQueue` | the queue and any number of runners | |
| `OutboxRelay` | the outbox table and any number of relays | |
| `OutboxPolling` | the same with the order and limit of the claim and one poll per interval | extends `OutboxRelay` |
| `OperationLog` | what the pipeline promises: an append-only log in which each operation appears once, answered only when it is there | |
| `CommandPipeline` | any number of requests on one aggregate | implements `OperationLog` |
| `StaffLoan` | one loan, its commands, scans, jobs and workers | takes load and guard from `CommandPipeline`, job semantics from `JobQueue` |
| `ClientOutbox` | the device outbox, the pump and the cloud | |
| `*Proofs` | theorems about the module of that name | extend it |
| `MC*` | instances for TLC | extend it |

Definitions keep the names of the source where there is one (`process_message`
is `ProcessMessage`, `recover_expired_leases` is `RecoverExpiredLeases`).
An operator introduced as "Seeded defect" stands directly before the definition
it can replace. It is never part of a specification; it exists to show that a
property notices such a defect.

### How state and steps correspond to the code

* A step is the stretch of a handler between two awaits on a store, a broker or
  the network. Statements inside one transaction are one step when nothing can
  observe or disturb them in between; `fail`, `dead_letter` and the pair
  publish/`mark_bus_delivered` are several steps, as in the code.
* Times are kept relative to the clock: a lease and a delay are the ticks left,
  and `Tick` counts them down to 0. Rows already due are not told apart, except
  in `OutboxPolling`, where their order matters and is kept.
* A lease token is the number of the attempt it was drawn for (`uuid::new_v4`
  never repeats, and neither do attempts of one job).
* An aggregate's document is the sequence of events folded into it, with its own
  version and epochs; payloads are left out.
* `execute_job` in `JobQueue` commits or rolls back and returns Ok or an error,
  in every combination: a staff-loan job that finds nothing to do rolls back and
  returns Ok, and a commit whose answer is lost is an error. `runs` counts the
  commits.
* `WorkerEvents` of `OutboxRelay` are the rows the worker's own jobs insert
  (`job_runner.rs:146` and `:314`). Their vector clock is `'{}'`, which
  `VectorClock` does not decode: the claim of a batch with such a row leases the
  batch, commits, fails and spawns nothing.
* `Observable` of `CommandPipeline` restricts what a client expects to versions
  and epochs the aggregate has had, which is what the clients of the repository
  send (`useCommand.ts` of the shells: a version read before, or 0). The route
  takes any number, and `AppliedOnce` needs the restriction: of two requests of
  one operation, one that expects the version the other is about to write may
  pass its lookup before that commit and its load after it.
* In `StaffLoan` a job is enqueued at most once per key, is executed under a
  lease that may run out during the execution, and is completed or
  dead-lettered at some attempt; counting the attempts is left to `JobQueue`.
  The scheduler and the runner of a worker end at the first error their code
  does not handle, and only a restart of the process brings them back.
* A request of `StaffLoan` carries the `command_type` of its envelope (`named`)
  and the command of its payload apart, since the route checks the one and
  executes the other; its expected version is the row's or up to `MaxAhead`
  above it. Arrival and the load of `require_staff_loan_authority` are one step:
  a request has no effect before. An escalation makes a second load (`Resolve`)
  to find the manager of whoever decides at that time, then the third of
  `handle_command`. Lifecycle and authority epochs never change on a loan and
  are left out. `events` are the versions under which `domain_events` and
  `outbox` have a row for the loan.
* `unacceptable` of `ClientOutbox` is the set of batches the cloud never takes,
  fixed for a behaviour: none; those above the body limit; all of them, for a
  replica that is not registered to the user or a client without an uploader.
* `ClientOutbox` has rows that no code of the repository writes but that it
  provides for: a payload that is not JSON (`Malformed`) and an undecodable
  vector clock (`Corrupt`). They stand for a damaged database file.

## 3. Runs

All passing runs check deadlock. State counts are distinct states.

| run | configuration | checks | states |
|---|---|---|---|
| `job_queue` | 2 jobs, 2 workers, 2 attempts, 1 fault | `TypeOK`, `LeaseExclusive`, `DeadLetterExhausted`, `RunsPaidByAttempts`, `SettledIsFinal`, `SettledByLatestAttempt`, `JobsSettle` | 645 068 |
| `outbox_relay` | 2 messages, one of them a worker's event, batches of 2, 2 relays, 2 retries, 2 faults | `TypeOK`, `PublishedWasDelivered`, `DeadLetterJustified`, `DuplicatesBounded`, `PublishedNeverWorkedAgain`, `DeliveredOrDeadLettered` | 97 047 |
| `command_pipeline` | 2 operations, 2 requests, both kinds of epoch | `TypeOK`, `AppliedOnce`, `NothingOverwritten`, `VersionsContiguous`, `AnswersDurable`, `BroadcastsBounded`, `WritesWhatWasExpected`, `ImplementsLog`, `RequestsEnd` | 558 033 |
| `staff_loan` | 1 request, 2 workers, 2 accepted commands, 2 faults | `TypeOK`, `NotificationsBounded`, `ClosedStaysClosed` | 2 372 373 |
| `staff_loan_authority` | 2 requests, no worker, 2 accepted commands, expectations up to 1 ahead | `AuthorityHeldAtCommit` | 1 053 358 |
| `staff_loan_live` | 1 request, 1 worker, 3 accepted commands, 1 fault | `EventPerChange`, `LoanEnds` | 440 074 |
| `client_outbox` | 3 rows, one malformed, batches of 2, 2 attempts, 1 fault; no batch, the full batch or every batch refused | `TypeOK`, `PublishedIsSettled`, `DeadLetterJustified`, `RepeatsBounded`, `DeadLettersBounded`, `RowsSettle` | 270 451 |

The other five runs are in section 4.

### Why the bounds are enough

The cases that matter need two actors on one object, a lease that runs out
during work, one retry that is not the last one and one that is, and a fault
between the two statements of a pair. Two workers (relays, requests), a lease
of one or two ticks, two attempts and one or two faults give each of them;
the bound on faults is what makes the state spaces finite. A third actor would
repeat the role of the second: what a stale actor can do depends on what
happened since its claim, not on who did it. `outbox_relay` has a message
of a command and one of a worker's job, which may be claimed together or apart,
and a batch that holds both: with more rows than a batch holds
`DeliveredOrDeadLettered` would depend on the claim's order, which is the
subject of `OutboxPolling`. Two larger sizes are deliberate:
`client_outbox` has three rows so that a batch of two does not hold them all,
and `outbox_starvation` three messages because it takes two dead rows to fill
the two polls of a lease window. The bound on the clock in `StaffLoan` leaves
room for an end, a lead before it and one extension after it. The state space
of `StaffLoan` is divided between three runs: requests against both jobs on two
workers, where two accepted commands suffice to open a loan and change it again;
two requests against each other, where workers are left out because what their
SQL does to a request is in the first run; and, with three accepted commands,
the extension that `LoanEnds` must survive. The seeded
defects confirm that the instances reach what the properties are about.
Symmetry is used in `staff_loan` and `staff_loan_authority`, which have no
liveness property.

### Fairness

* A live runner, a spawned task, the polling interval and the clock go on
  (weak fairness): they are tokio tasks and timers that wait for nothing the
  model leaves out. Nothing obliges a dead runner to be restarted, since
  `main.rs` does not supervise its tasks; `JobsSettle` therefore excepts the
  case that every runner has exited.
* PostgreSQL grants a row lock in the order of the requests: `Upsert` is
  strongly fair in `CommandPipeline`. Nothing obliges a client to submit.
* In `StaffLoan` the scans, the recovery of leases, the claims and the steps of
  an execution go on (weak fairness) as long as the loop that takes them has not
  ended. Errors, lost leases and restarts are bounded by `MaxFaults` and no
  fairness obliges them. `LoanEnds` excepts a dead-lettered expiry job and the
  behaviours in which, from some time on, no scheduler is left to enqueue the
  job or no runner to execute it.
* In `ClientOutbox` the cloud may be out of reach any number of times but
  answers for a row again and again when it is sent in a batch that is not
  refused (strong fairness of `AnsweredFor`). Nothing obliges it to answer for
  a batch it refuses; `RowsSettle` excepts the behaviours in which such batches
  are sent for ever, as `DeliveredOrDeadLettered` of `OutboxRelay` excepts those
  in which a row is leased in vain for ever.

## 4. What the code does otherwise than its comments say

Each of these is a run in which TLC finds the statement violated.

| run | statement | what happens |
|---|---|---|
| `outbox_lease` | "a lease prevents duplicate processing across concurrent relay workers" | `mark_failed` of a late task frees the lease of another relay |
| `outbox_starvation` | "At-least-once delivery is maintained" | dead-lettered rows are not closed and stay at the head of the claim's order; enough of them starve newer rows |
| `command_no_op` | "Idempotent no-op rather than an error" | a decision without events fails the upsert's guard |
| `staff_loan_expiry` | Expired means "without being extended" | a job for the old end expires the extended loan |
| `staff_loan_extend` | "You may extend or let it end when it does." | the warning moves the version column past the document's version; every later command fails the guard |

`outbox_starvation` is checked under fairness.

Seven more places differ from a comment. The models contain the behaviour, and no
run is kept for the comment:

* A dead-lettered outbox row stays unpublished and is dead-lettered again at
  every lease expiry (`bins/worker/src/outbox_relay.rs:167`), although
  `dead_letter_store.rs:23` promises no duplicate row. `dead` of `OutboxRelay`
  counts them.
* The advance warning "must fire exactly once"
  (`staff_loan_scheduler.rs:19`); two executions of the job may both read it as
  unsent. `NotificationsBounded` is what does hold.
* Ended is "Terminal." (`todo-domain/src/state_machine.rs:104`); the expiry
  job's UPDATE has no condition on the status it read and may overwrite it.
  `ClosedStaysClosed` is what does hold.
* "Extension belongs to the staff member"
  (`api-server/src/routes/command.rs:579`); the check accepts the borrowing
  manager only (`Authorized`).
* "Malformed payloads go to the dead-letter table at once"
  (`sync_agent.rs:242`); the dead-letter store parses the payload again and
  fails (`Deliver`). `RowsSettle` excepts such rows.
* "a retry never repeats a UI event" (`sync_agent.rs:243`); showing and
  recording are two steps, and a failure to record is only logged.
  `RepeatsBounded` is what does hold.
* "Dead-Letter after max_retries" is authoritative
  (`bins/worker/src/outbox_relay.rs:9`); the rows of the worker's jobs are neither
  delivered nor dead-lettered. Their claim fails before any task is spawned, so
  `retry_count` stays 0, and the rows claimed with one wait as well.
  `DeliveredOrDeadLettered` says what holds for the other rows.

Four behaviours contradict no comment but limit what the properties say:

* A completed job need not have had an effect: a staff-loan job that finds
  nothing to do rolls back and is completed. What holds is that the verdict on a
  job is that of its latest attempt (`SettledByLatestAttempt`).
* A batch the ingest endpoint refuses as a whole counts as an attempt of no row
  and is sent again for ever.
* `require_staff_loan_authority` looks at the command type of the envelope, and
  `AuthorityHeldAtCommit` is about that type; the command in the payload is not
  compared with it. The property is further about requests that expect the
  version the check was made on: one that expects a later version is executed
  when the row reaches it, whoever decides by then.
* After the last scheduler or runner has ended on an error, loans stay open
  until a worker is restarted.

## 5. Proofs

Four modules hold theorems, for every value of the constants that satisfies
the module's `ConstantsAssumption` (counts are naturals, leases, delays and
batches positive, named subsets are subsets).

* `JobQueueProofs`: `TypeOK`, `LeaseExclusive`, `DeadLetterExhausted`,
  `SettledIsFinal`, `SettledByLatestAttempt`. The invariant adds the discipline of
  tokens: a row has a token exactly while it runs, that of its latest attempt;
  every claim held by a runner is of an attempt already counted; no claim is
  held twice. Without the last two, a stale runner and the present holder could
  not be told apart in `complete` and `fail`.
* `OutboxRelayProofs`: `TypeOK`, `PublishedWasDelivered`, `DeadLetterJustified`.
  Leases play no part: what a task remembers (delivered, refused, a retry count
  no larger than the row's) stays true while others change the row.
* `CommandPipelineProofs`: `TypeOK`, `AppliedOnce`, `NothingOverwritten`,
  `VersionsContiguous`, `AnswersDurable`, `WritesWhatWasExpected` and the
  refinement `ImplementsLog`. The key is `RequestOK`: a request past its lookup
  whose operation has been committed by another one expects a version the row
  has left behind, so its guard fails; the idempotency table is an index of the
  event log. The argument needs that `decide` returns at most one event.
* `ClientOutboxProofs`: `TypeOK`, `PublishedIsSettled`, `DeadLetterJustified`,
  `RepeatsBounded`, `DeadLettersBounded`. An acknowledgement the pump holds
  stays true until applied, one row at a time is between two statements, and a
  row shown or dead-lettered without its record has paid with a fault. The
  theorems hold whatever batches are refused, and include undecodable rows (`Corrupt`), which `client_outbox` leaves
  out because they hold up the rows of their batch.

Each proof has `Init => IInv`, one lemma per action for
`IInv /\ [Next]_vars => IInv'`, and temporal theorems that combine them.

### Model-checked only

`RunsPaidByAttempts`, `DuplicatesBounded`, `BroadcastsBounded` and everything
about `StaffLoan` have no proof yet. The bounds by `Cardinality` need counting
arguments over sets of actors. Liveness under fairness is out of the prover's
reach and stays with TLC: `JobsSettle`, `DeliveredOrDeadLettered`,
`RequestsEnd`, `LoanEnds`, `RowsSettle`.

## 6. Assumptions the results rest on

* A transaction is atomic and durable, and a conditional UPDATE re-evaluates its
  WHERE on the row version it finally locks (READ COMMITTED).
* Claims with FOR UPDATE SKIP LOCKED are one step. On a device the pump is the
  only consumer of the outbox.
* The broker may take a message and lose the answer. The cloud stores a row
  before it acknowledges it and ignores a second upload of the same row.
* Clients expect versions and epochs they have read, or 0 (`Observable`); only
  `CommandPipeline` and its theorems rest on this.
* `MaxAhead`, `MaxCrashes`, `MaxFaults`, `MaxRows`, `MaxTime` and `MaxVersion` bound only
  what a run explores; the theorems hold for every value of those their module
  has.

## 7. Running

    tlc -config MCJobQueue.cfg MCJobQueue
    tlapm JobQueueProofs.tla

The module of each configuration is in `PROJECT.json` under "runs". The longest
run takes two to three minutes.

## 8. Not modelled, and the plan

In this order:

1. Creation routes, which do not consult the idempotency table, and the audit
   rows of the command route.
2. Timeline scheduler and snapshot loop as producers of `JobQueue`.
3. Lifecycles of missions, tasks, todo and target lists, and how a loan's
   verification authority follows it.
4. The peer session (`synchronization-domain/src/session.rs`): phases, the
   merged frontier and which operations it may drop; escalation of conflicts,
   whose marker document carries no version.
5. CRDTs and vector clocks: convergence under reordering and duplication,
   tombstone collection, against reference definitions.
6. Sessions, refresh and revocation; the rate limiter's window; reconnecting
   transports.
7. Proofs for `StaffLoan` (`ClosedStaysClosed`, `AuthorityHeldAtCommit`) and the
   counting bounds.

Left out for good: parsing and formatting, projections and queries, metrics,
blob transfer, cryptography, user interfaces and deployment. They hold no
protocol state, or nothing a model checker could say more about than a test.
The loss of a device's database is abstracted away in `ClientOutbox` and listed
as a hazard with that note; payload sizes appear there only as the batches they
make unacceptable.
