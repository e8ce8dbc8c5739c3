# A TLA+ model of ReleaseGuard

ReleaseGuard keeps the decisions about releases in PostgreSQL: CI reports the
gates of a release, an approver lets it pass, a canary is observed, and the
release becomes the current version of its environment or is rolled back. This
directory holds TLA+ modules translated from the code under
`src/src/releaseguard`, `src/migrations` and `src/scripts`, TLC configurations
that check them on small instances, and proofs that TLAPS checks for every
instance. Paths below are relative to
`src/src/releaseguard` unless they start with `docs/`, `tests/`, `scripts/`,
`migrations/` or `deploy/`, which are in `src/`.

Contents: 1 the system, 2 the modules, 3 what the runs show, 4 fairness,
5 what is proved, 6 disagreements with docs and tests, 7 what is left out,
8 plan, 9 running it.

## 1. The system

| Component | State it keeps | Operations | What makes it correct |
|---|---|---|---|
| Domain decisions (`domain.py`) | none | `evaluate_gates`, `evaluate_canary`, `require_transition`, `gate_reason`, `canary_reason` | the reason agrees with the decision taken from the same data; thresholds met exactly pass |
| Release handlers (`main.py`, `service.py`) | rows of `releases`, `environments`, `gate_results`, `webhook_receipts`, `release_events` | create, receive a CI notification, approve, cancel, deploy, observe, roll back | one release in flight in an environment; versions form a stack; no canary without its gates; journal, reason and status agree; a repeated delivery counts once |
| Reconciler (`reconciler.py`) | the same rows | `reconcile_batch`, the loop of `run` | a canary that is not decided ends; a decided one is left alone |
| Database sessions (`db.py`, lock helpers of `service.py`) | transactions, row locks, an advisory lock | `get_session`, `lock_release`, `lock_environment` | transactions act as if one ran after another; deadlocks are known and end |
| Catalogue (`create_application`, `create_environment`, `seed.py`) | rows of `applications`, `environments` | create; seed | slugs and names are unique, answers are true, the demo rows come together |
| Clients, answers, counters (`main.py`, `metrics.py`) | answers on their way, counters of a process | call, repeat, read after the commit | 2xx means that this call was carried out; a repeat is recognised; nothing is counted twice |
| Clocks (`models.py`, `reconciler.py`) | `created_at`, `canary_started_at` | `utcnow`, the deadline | a canary has its time; the journal is read in the order it was written |
| Access and configuration (`auth.py`, `config.py`) | the configured clients | `authenticate`, `require_*`, `validate_clients` | a key belongs to one client; who approves does nothing else |
| Request validation (`schemas.py`) | none | field limits, `unique_gates` | what can be required can be reported; what is accepted can be stored |
| Schema (`migrations/`) | tables, types, indexes, the version | upgrade, downgrade | the schema is always that of one revision; the service finds what it needs |
| Scripts (`scripts/`) | their place | `smoke.py`, `operator_scenarios.py` | their assertions hold on a working service |
| Test database guard (`test_safety.py`, `tests/conftest.py`) | the environment variables | the checks before the tests | only the test database is emptied |
| Deployment, observability | none of the service | | |

The handlers never call one another. All interaction goes through the rows of
PostgreSQL and their locks: every request, and every pass of the reconciler, is
one READ COMMITTED transaction. Several API replicas (Helm) and in principle
several reconcilers (`SKIP LOCKED`) run against one database.

Hard to test, and the reason for this project, are: the order in which requests
of several clients commit; values copied from one row to another and used much
later (`previous_release_id`); what happens between two statements of a handler;
repeated, late and contradicting notifications; answers that are lost; the
timeout racing an observation; clocks of different hosts; two jobs on one
schema; and lock orders. `PROJECT.json` lists each of these hazards with its line
and the properties that would catch it.

## 2. The modules

| Module | Models |
|---|---|
| `Domain` | the pure functions of `domain.py`. Texts are records of a kind and the names they list |
| `Ledger` | the committed state, and each handler as the one step it commits |
| `LedgerProperties` | invariants, action properties and liveness of `Ledger`; the start from a database of an older version; the mapping of `Ledger` to `VersionStack` |
| `VersionStack` | the abstract promise about versions: a stack for each environment |
| `Transactions` | the same handlers as the statements they send, with their locks, and the reconciler as a process |
| `Catalogue` | the routes that create applications and environments, and `seed()`, as concurrent transactions over the unique constraints |
| `Pipeline` | gate lists as `ApplicationCreate` accepts them, and CI as a client that notifies what `GateWebhook` accepts |
| `Retries` | clients that lose answers and repeat calls; what a handler answers, reads after its commit and counts |
| `Scripts` | the two scripts as clients of `Retries`, with their assertions |
| `Clocks` | the stamps of events, canaries and deadlines, and the order in which the journal is returned |
| `Access` | the configured clients, `authenticate()` and the role of every route |
| `Migrations` | upgrade and downgrade as transactions of concurrent runs, and the start of the service |
| `TestGuard` | the guard before the integration tests, and where settings and drivers then connect |
| `MCLedger`, `MCPipeline`, `MCTransactions`, `MCClients`, `MCClocks` | instances for TLC |
| `LedgerProofs` | proofs about `Ledger`: types, versions, and the refinement of `VersionStack`; single releases, their gates, reasons and journals |
| `PipelineProofs`, `TransactionsProofs`, `CatalogueProofs`, `ClocksProofs` | proofs about the modules of these names |
| `RetriesProofs` | proofs about the clients of `Retries`, those of `Scripts` among them |
| `ScriptsProofs` | proofs about the assertions of the two scripts |
| `SetupProofs` | proofs about `Access`, `TestGuard` and `Migrations` |

### Ledger

The variables are the columns of the tables: `status`, `envOf`, `keyOf`,
`artifactOf`, `previous`, `traffic`, `approvedBy`, `reason` of `releases`;
`active` and `current` of `environments`; `results` and `details` of
`gate_results`; `receipts` (the event and the body its hash stands for);
`journal` (`release_events` of a release in the order of insertion). `expired`
stands for `canary_started_at < deadline`: `Expire` is the clock of the
reconciler, which need not agree with the clock of the API host that set
`canary_started_at`, so it may come as soon as the canary has started.

Releases are numbered in the order they are inserted. The code compares UUIDs
only for equality; the numbers are there to say *newer*.

Each action is a whole handler: its conditions, and an operator `...Committed`
with everything the transaction writes, trailing assignments included (for
instance `recalculate_gate_status` writes `state_reason` also when the status
does not change). The two parts are separate because `Transactions` uses the
second with values read earlier. A request that is refused, or finds its work
done, commits nothing: it is a stuttering step.

Data is abstracted to what the properties tell apart: version and digest are one
value, a CI body is its event, release, gate, status and details, the cancel
reason of an operator is one kind of reason, roles are three sets of clients.

### Transactions

A worker serves one request at a time and has a program counter, the values it
has read (`seen`) and its locks (`held`). The steps are the statements of the
handlers: the advisory lock on the event, `lock_release`, the receipt,
`lock_environment`, the search for the idempotency key, the flush of a new
release, the gate results, the commit. Between two of them any other process may
run. A reconciler selects a batch of rows nobody has locked, in any order
(`LIMIT` without `ORDER BY`), locks their environments one after another and
commits all of them at once.

Locks: `FOR UPDATE` on releases and environments, the advisory lock, and the
`FOR KEY SHARE` that the foreign key `previous_release_id` takes on the release
it refers to. The other foreign keys refer to rows the transaction has locked
itself, or to `applications`, which nobody locks. `environments` has no foreign
keys to releases. A process may lose its connection before the commit
(`Crash`), and PostgreSQL ends one transaction of a circle of lock waits
(`DeadlockVictim`); both undo the transaction and free its locks.

The handler's decision is taken with the values it has *read*, its effect is
applied to the rows as they are at the *commit*. If a lock were missing the two
would differ, and the property `CommitsAreAtomic` would fail.

### Catalogue

Neither handler, nor `seed()`, locks anything before its INSERT. A row is its
identifier, its unique key (the slug; the application and the name) and its
author. `MayTryInsert` and `Taken` are the unique indexes: an INSERT waits for
another transaction that has inserted the key, fails once that one has committed,
and succeeds once it is undone. A failed INSERT is 409 in a handler and ends
`seed()`, which nobody repeats but an operator (`StartSeed`). `FindDemo` and
`FindProduction` are its two SELECTs, `InsertDemo` is the flush between them, and
any process may crash at any statement.

### Pipeline, Retries, Scripts

These three compose `Ledger` with its clients.

`Pipeline`: an item of the list in `ApplicationCreate` is what was written, its
normalised name and the length of it. `AcceptsGates` is `unique_gates`,
`AcceptsReport` the limit of `GateWebhook.gate`. CI notifies every gate of every
release until the result is recorded, with any result.

`Retries`: a client sends a call, the handler decides and commits (`Do`), answers
without a commit (`AnswerAgain`, `Refuse`), and after a commit reads the row
again without a lock and counts (`Refresh`): other commits may come in between.
Request, answer or process may be lost at any of these points (`Resend`), and the
client sends the same call again. A handler that outlives its client, and counts
after it has given up, is `Refresh` followed by `Resend`. `Verdict` has the checks of each handler in
their order, `Subject` what a handler compares to recognise a repeat.
`Storable` (in `Ledger`) is the INTEGER column behind `request_count`.

`Scripts`: a script is the sequence of its calls with what its assertions say of the
answer (status, reason, previous release, traffic, or that its body is the one
answered before, `SameBody`) and of the journal read after it (its length, or that
nothing has been added, `SameJournal`). The loop that waits for the reconciler
(`SeeRollback`) reads the release; its assertions on the reason and on the
`canary.timeout` event are part of the step. A script ends `passed`, `failed` at an
assertion, or `gave_up` when that loop raises its `TimeoutError`. The identifiers it keeps in variables are release numbers. Numbers are
those of the scripts; `SmokePolicy` and `OperatorPolicy` are what the scripts ask for
when they create their application and environment. While a script runs the
reconciler works as it likes.

### Clocks

Real time is `now`; a process reads anything within `Skew` of it. `Stamp` gives
all rows of a transaction one reading (`created_at` of its events,
`canary_started_at`), `FindOverdue` is the query of the reconciler with a reading
of its own, and `MayPrecede` is `ORDER BY created_at`. `written` is a history
variable with the real time of each event.

### Access, Migrations, TestGuard

`Access` is `Ledger` with names: `API_CLIENTS` is any list of clients that
`validate_clients` accepts, a request presents a key, and what it may do and the
actor of its events follow from the client that `authenticate` finds.

`Migrations` has the objects of both revisions, with what each refers to. A run
plans from the version it has read before it waits for anything, executes
statement by statement in one transaction, and fails at a statement that does
not fit the schema it finds, or whose version was moved by another run.

`TestGuard` has every combination of the variables that the guard, the settings
and the drivers read, each by rules of its own; a URL is its parts.

### How they fit together

`Transactions` implements `Ledger` (`CommitsAreAtomic`: the commits of all
processes are a behaviour of `LedgerSpec` under the same variables), and `Ledger`
implements `VersionStack` (`EnvironmentsAreStacks`: candidate is
`active_release_id`, the stack are the succeeded releases of the environment in
the order of their numbers, the serving version is `current_release_id`). So the
invariants of `Ledger` are checked and proved on the small state machine and
hold of the interleaved one (`CommittedRowsAreRight`, `CommitsKeepPromises`).
`Pipeline`, `Retries`, `Scripts`, `Clocks` and `Access` take the handlers as the
atomic steps `Transactions` shows them to be; that the tables behind the clients
and the clocks are those of `Ledger` is `CallsKeepTheLedger` and
`ClocksKeepTheLedger`.

## 3. What the runs show

Instances are finite because releases, idempotency keys, event identifiers,
attempts and time are. Where a run stops when these are used up it does not
check for deadlock; `catalogue`, where seeds can always go on, does. `MaxContinues` bounds the
observations that decide nothing. Symmetry is used for keys, event identifiers,
workers, reconcilers and clients, which are only compared for equality, in
`MCTransactions` also for environments, which all have one policy there, and
never in a run with liveness properties.

| Run | Instance | Shows |
|---|---|---|
| `versions` | 2 environments, one without approval, 3 releases, batches of 2 | `Ownership`, `Lineage`, `CurrentMoves` and the refinement `EnvironmentsAreStacks`. Three releases are the least for which a rollback can skip a version: one rolled back, one below it, one above |
| `gates` | 2 releases, 2 required gates and one nobody requires, 4 events, 2 details, samples on both sides of each threshold | `TypeOK`, `Admission`, `TrafficMatchesStatus`, `AuditTrail`, `JournalMatchesReason`, `ReasonExplainsStatus`, `WebhooksCountOnce`, `SettledStaysSettled`. Four events allow a repeat and a contradiction before the last gate, and an event_id used for both releases |
| `pipeline` | 2 environments with 2 gates each, one gate that cannot be reported, 2 releases; an empty database or a release past evaluation with any results | `EvaluationEnds`, `UnreportableIsNeverAdmitted`, `CanaryEnds`, and `GatesGuardCanary`: what `deploy_release` checks again is enough |
| `races` | 2 workers, every request, 2 releases, 2 environments, repeated and contradicting bodies, crashes | `CommitsAreAtomic`, `ConstraintsNeverFire`: the checks under the locks refuse before a unique constraint would (and `TxTypeOK`) |
| `batches` | 2 workers, 2 reconcilers, 2 environments, batches of 2, passes that fail | `BatchIsOwned`: a selected canary stays the reconciler's; `OnlyInsertDeadlocks`; `CommitsAreAtomic` with the passes of the reconciler, whole or undone, between the requests |
| `answers` | 2 workers, 1 reconciler with batches of 1, creation against the rollback of the current release | `RequestsAreAnswered`; `HungCanariesEnd`, with locked rows skipped and passes that fail |
| `order` | 2 workers | violated, see section 6 |
| `catalogue` | 1 request and 2 seeds at a time, 3 rows | `OneRowPerKey`, `AnswersStayTrue`, `NoHalfSeed`, `SeedFailsTwice`, `SeedConverges`, `CreationsEnd`. Two seeds race each other, and the request takes either of their keys |
| `clients` | 2 clients with every call on 2 releases of one environment, or a script with the reconciler | `OkMeansDone`, `CountersNeverOvercount`, `RetriesAreRecognised`; `FailsOnlyByTime`: every assertion of the scripts is met but for a canary that was timed out before it was observed. Two clients: one repeats while the other changes the release, and a second release can hold the environment meanwhile |
| `retries_large` | one client, more requests than the column holds | violated, see section 6 |
| `clocks` | 1 release, clocks off by up to 1, a timeout of 4, time up to 10 | `ReadingReplays`, `NoEarlyTimeout`. Ten units leave room for a timeout after the three steps to a canary |
| `migrations` | 2 migration jobs and a downgrade, 2 attempts each, from an empty database or the first version | `SchemaMatchesVersion`, `ServiceFindsSchema`, `CancelledReleasesSurvive`, `RunsEnd` |

Two workers are enough for the races of two requests, which is what the handlers
guard against: a request touches one release and its environment, and both are
locked from the first read to the commit. The third process a circle of three
would need is there in `batches`, as a second reconciler. In `clients` the scripts
run alone because each works on an application of its own.

`Access` and `TestGuard` have no run, and `LeavesEnvironmentFree` of `Scripts` is in
none: what they say is proved (section 5).

`domain.py` computes a decision and its reason apart, and so do `EvaluateCanary` and
`CanaryReason`, each with comparisons of its own: `ReasonExplainsStatus` fails when
they disagree, for instance on a threshold met exactly (`EvaluateCanaryWhenMet`).

For every property of the runs the modules hold a mutant: an operator with the
same parameters as a definition of the model, changed as a plausible bug would
change the code (marked `Mutant:`). `PROJECT.json` says which property must fail
with which mutant.

## 4. Fairness

* The clock goes on: weak fairness of `Expire`.
* The reconciler runs: its loop in `run` catches every exception and sleeps a
  fixed time. In `Ledger` this is weak fairness of `Reconcile`. In `Transactions`
  it is strong fairness of `SelectBatch` and `LockNextEnvironment`, because
  requests may lock the row again and again, and a pass comes round every two
  seconds by default while a request holds its locks for milliseconds. Passes may
  fail, but not for ever (`<>[][~Crash(p)]`).
* A worker goes on with its next statement: weak fairness of each statement that
  takes no lock, strong fairness of those that do, since PostgreSQL queues the
  waiters of a row lock and a free lock goes to the first of them.
* A deadlock is broken after `deadlock_timeout`: weak fairness of
  `DeadlockVictim`.
* CI notifies every gate until its result is recorded: weak fairness of `Notify`
  for each gate of each release. `EvaluationEnds` is about waiting for CI.
* A statement of `Catalogue` goes on: strong fairness, as for the row locks, since an
  INSERT waits for another's commit. A seed that ended with an error is run again
  (weak fairness of `StartSeed`) and does not crash for ever; this is what an operator
  does, and `SeedConverges` says that it is enough.
* A migration goes on while nobody makes it wait: strong fairness of `Proceed`. That
  it is started again is not assumed.

No fairness is assumed of `Send`, `Crash` of a worker, or any decision of a
client: nobody need observe a canary, approve, deploy or create anything.

## 5. What is proved

Every safety property of `Ledger`, `Transactions`, `Catalogue`, `Pipeline`,
`Clocks`, `Retries`, `Scripts` and `Migrations` that a run checks, but for the
violated ones of section 6, is also a theorem, together with the refinements and
what `Access` and `TestGuard` say.

Assumed are the `ASSUME`s of the modules and no more. The numbers of releases,
environments, gates, events, clients, requests, processes, seeds, migrations and
rows are arbitrary, and so are the lengths of journals.

* `LedgerAssumption`: the policies have the limits `EnvironmentCreate` and
  `ApplicationCreate` enforce, canary percentages are within 1..50
  (`DeployCreate`), observations are not negative, and `Null` is none of the
  other values.
* `TransactionsAssumption`, `RetriesAssumption`: the requests are those the routes
  accept; reconcilers serve none; the clients are finitely many.
* `PipelineAssumption`: the gates of an environment are what `unique_gates` makes
  of a list that it accepts.
* `CatalogueAssumption`: the demo slug and name are among those of requests, and no
  request is a seed.
* `ClocksAssumption`: skew and timeout are natural numbers.
* `MigrationsAssumption`: a run upgrades or downgrades, not both, and none has the
  name that stands for no run.
* `ScriptsAssumption`, `ScriptCallsAssumption`: the scripts use clients and gates
  that are configured. `ScriptPoliciesAssumption`: their environments have the
  policies the scripts create them with, and the INTEGER column holds the 500
  requests they report.

TLC evaluates all of these on the instances.

| Theorem | Says |
|---|---|
| `LedgerProofs!TypeCorrect`, `OwnershipHolds`, `LineageHolds`, `CurrentMovesHolds`, `StacksHold` | `TypeOK`, `Ownership`, `Lineage`, `CurrentMoves`; `Ledger` implements `VersionStack` |
| `LedgerProofs!GatesGuardHolds`, `AdmissionHolds`, `TrafficHolds`, `ReasonHolds`, `SettledHolds`, `AuditTrailHolds`, `JournalMatchesReasonHolds`, `WebhooksCountOnceHolds` | the other safety properties of `Ledger` |
| `PipelineProofs!LegacyIsGuarded`, `UnreportableNeverAdmitted` | `GatesGuardCanary` from the database of an older version too, `UnreportableIsNeverAdmitted` |
| `TransactionsProofs!TransactionTypes`, `HandlersAreAtomic`, `InsertsSucceed`, `BatchesAreOwned`, `DeadlocksInsert` | `TxTypeOK`, `CommitsAreAtomic`, `ConstraintsNeverFire`, `BatchIsOwned`, `OnlyInsertDeadlocks` |
| `TransactionsProofs!CommittedRowsAreRight`, `CommitsKeepPromises` | the safety properties and action properties of `Ledger`, and `EnvironmentsAreStacks`, of the rows the interleaved transactions commit |
| `CatalogueProofs!CatalogueTypes`, `KeysAreUnique`, `AnswersAreTrue`, `SeedsAreWhole`, `SeedsFailAtMostTwice` | the safety properties of `Catalogue` |
| `ClocksProofs!ReadingHolds`, `TimeoutHolds`, `ClocksKeepTheLedger` | `ReadingReplays`, `NoEarlyTimeout`; `Clocks` implements `Ledger` |
| `RetriesProofs!OkHolds`, `CountersNeverOvercountHolds`, `RecognitionHolds` | `OkMeansDone`, `CountersNeverOvercount`, `RetriesAreRecognised` |
| `ScriptsProofs!ScriptsFailOnlyByTime`, `ScriptsLeaveEnvironmentFree`, `CallsKeepTheLedger` | `FailsOnlyByTime`, `LeavesEnvironmentFree`; `Scripts`, and so `Retries`, implements `Ledger` |
| `SetupProofs!ClientsAreThemselves`, `FourEyesOnEveryRelease`, `OnlyTheTestDatabase` | `EveryClientIsItself`, `FourEyes`, `OnlyTestDatabaseEmptied` |
| `SetupProofs!SchemaStaysWhole`, `ServiceSchemaHolds`, `CancelledReleasesStay` | `SchemaMatchesVersion`, `ServiceFindsSchema`, `CancelledReleasesSurvive` |

`FourEyesOnEveryRelease` has an assumption of its own, `NamesAssumption`: no client
is called `policy-engine`, `ci-webhook` or `reconciler`, the actors of the service
itself, which `validate_clients` does not exclude.

**Versions** (`LedgerProofs`). The steps are first reduced to six shapes
(`ShapeStep`: a release starts, stays open, closes, is promoted, is reverted; a
batch is reverted) over the five columns the invariants read. The inductive
invariant is

    LineageInv == TypeOK /\ Ownership /\ Prefix /\ OpenIsNewest /\ Lineage

`Lineage` alone is not inductive. When a canary is promoted it must be newer than
every version of its environment (`OpenIsNewest`); a new release is newer
because numbers are given in order (`Prefix`); a rollback of the current release
must not find another one in flight, whose `previous` names the release that
goes away (`Ownership`, and the guard of `rollback_release` on
`active_release_id`). That the rollback of a canary leaves `current_release_id`
where it is follows from uniqueness of the newest version: `previous` of a
release in flight equals `current` of its environment.

**The refinement of `VersionStack`** (`LedgerProofs`, the mapping in
`LedgerProperties`). Each shape is a step of the stack: starting is `Propose`,
closing and a reverted batch are `Discard`, promotion is `Accept`, a reverted
current release is `Undo`, staying open is a stutter. The stack of an environment
is the sequence of its succeeded releases, the `n`-th being the one with `n - 1`
below it; that this sequence grows or shrinks at its end when a newest member is
added or removed is shown by counting (`Below`), without induction.

**Rows and journals** (`LedgerProofs`). `RowStep` lists the ways a step may change one
release, whatever happens to others: not at all, created, reported, approved,
cancelled, deployed, promoted, rolled back, kept waiting. One lemma for each
handler puts it into this list, and each invariant is then proved over the list.

    RowsInv == TypeOK, GatesGuardCanary, Admission, TrafficMatchesStatus,
               ReasonExplainsStatus, and for each release
               RowInv /\ JournalInv /\ Agrees

`JournalInv` says of a journal that it replays to the status, that its latest
explanation is `state_reason`, and that it has as many reports and evaluations as
there are receipts; three lemmas say what appending one event does to each of
these (`TrailNote`, `TrailChange`, `EventCountAppend`), and a handler that appends
several events uses them in turn. `Agrees` is that receipts and `gate_results`
tell the same.

**Older databases** (`PipelineProofs`). `GatesGuardCanary` does not need
`Admission`: it is inductive from a database with approved releases whose gates
never passed, because `deploy_release` looks at the gates again. That a gate CI
cannot report keeps a release from being let through rests on `ReportsInv`: while
a release is evaluated its results are those CI has reported.

**Transactions** (`TransactionsProofs`). `TxInv` has, for each worker, that its
statement belongs to its handler, that it holds exactly the locks of that
statement (`LocksOf`), that what it has read of the rows it has locked is still so
and the keys it has found free are free (`Fresh`), and that the conditions of the
handler hold of what it has read (`Checked`). A step of one process changes only
rows whose locks it holds (`Touches`), so by `Exclusion` it leaves what the others
have read alone. At a commit `Fresh` and `Checked` together are the guard of the
handler in `Ledger`, which is `HandlersAreAtomic`; `Fresh` of the key and of the
receipt is `InsertsSucceed`. `SweepInv` says that the batch of a reconciler stays
locked and a set of expired canaries, each with its environment once that is
locked. What `Ledger` promises follows of the committed rows from `HandlersAreAtomic`
and the theorems about `Ledger`, without another invariant. For deadlocks: in a circle without an INSERT whoever holds an environment
does not wait, so nobody waits for an environment, so nobody holds a release and
waits, so nobody waits for a release, and then nobody for an event.

**Catalogue** (`CatalogueProofs`). `OneRowPerKey` is about committed rows, but it is
the transactions that keep it: `KeyInv` adds `KeysApart` (no key is held by two
transactions, or by one and a committed row), `Holdings` (a transaction holds
nothing before its first INSERT, and a seed only its application before the
second) and `AnswersPrepared` (what a worker will say at its commit is in its
transaction). `SeedInv` adds, for `NoHalfSeed`, that a seed at its commit finds the
environment of *its* application among the committed rows or its own. `TriesInv`
is for `SeedFailsTwice`: a seed that has failed once left a committed application
with the demo slug behind, and one that has failed twice the environment too,
after which it goes to neither INSERT again.

**Clocks** (`ClocksProofs`). A stamp differs from the time of writing by `Skew` at
most (`Stamped`), `canary_started_at` is the stamp of the one event that began the
canary (`NotBegun`, `StartedThen`), and a canary is marked overdue only once it has
run for the timeout less twice the skew (`HasRun`). Only the reconciler gives
`timeout` as a reason, and only for releases so marked.

**Retries** (`RetriesProofs`), for clients that send anything and for the scripts.
`CarriedOut(q, r)` is what release `r` shows of a call `q` that was carried out: it
stays so for ever (`CarriedOutStays`), every commit makes it true, and where a
handler recognises repeats it is what the handler looks for
(`DoneIsRecognised`), so a repeat finds it. For the counters each commit that is
not counted yet (`Uncounted`, `UncountedMoves`) and each that is must be a
different row of the tables; this needs that a commit was not carried out before
(but for observations that decide nothing and move no status, `NoEffect`), that a
repeated commit has the same effect (`SameEffect`), and that nothing but a call
creates, accepts or cancels (`OnlyCalls`).

**Scripts** (`ScriptsProofs`). Each script is a fixed list of calls, but the system
around it is any: other environments with any policies, any bounds, and the
reconciler between any two steps. The proof is a table of *places*
(`SmokePlace`, `OperatorPlace`): what the environment looks like before each step,
that is, the last release, its status and previous version, the gates with a
result, the current version, the releases that were cancelled and how long the
journal is at least. `Turn(step, p, n)`
says that a step leads from place `p` to place `n`, for each kind of call: it acts
(`Acts`, what the handler does), comes too late and is refused (`ComesLate`), or is
recognised as done (`CancelsAgain`). `SmokeLeads` and `OperatorLeads` check the
table: every step of the two scripts is a `Turn` between its places, so that
`evaluate_gates` and `evaluate_canary` give what the assertion after it says, and
the operator script ends with the step that waits. Everything else is about any
step of any kind.

    ScriptInv == at some step, with the places before and after it,
                 running and Progress(step, p, n), or
                 passed and nothing is in flight (AllClosed), or
                 failed at a canary that was timed out (Lost), or
                 given up

`Progress` follows the call: while it is under way the environment stands at `p`
and every journal is as the script has seen it, as is the row of every release it
has cancelled (`Waiting`); after the commit it stands at `n` with the row the answer
will show (`Served`); the answer is then what the step expects (`Told`), in each of
the fields it looks at. A cancelled row never changes (`OtherRowsStay`), so the
repeated cancellation answers the same body. At each of these points the reconciler
may have taken the canary of the place (`Overtaken`), with the reason `timeout` and
the event `canary.timeout`: the next call is then refused, which the script does not
accept, unless it is at the loop that waits for just this; there both assertions
after the loop are met. It can take no
other release, because all but the last have ended (`Alone`), which also makes the
next creation find the environment free. `Ownership` and `Lineage` are needed too:
the last release owns its environment when its handler looks, and the environment
of a script that has passed runs its newest version.

**Access.** With different keys the set of clients that hold one has one member, so
it does not matter which is first. `FourEyesInv` says that every event in the
journal has an actor who is no approver or is the approval itself, and that
`approved_by` is an approver's name; it rests on `TypeCorrect`'s invariant.

**Test guard.** A safe environment leaves the settings one URL, and nothing for the
driver to take from elsewhere.

**Migrations.** The three invariants are about the committed schema only, and two
of them rest on what a transaction in the middle of its plan still has to do.
`HolderIsOnItsWay` relates the schema in that transaction to the statements that
are left: of an upgrade, every object, value and version that is missing is made
by one of them (`UpgradesTo`); of a downgrade, every one that is there is removed
by one (`DowngradesTo`). When nothing is left the schema is whole
(`UpgradeEnds`, `DowngradeEnds`), so it does not matter in which order a plan is,
nor from which version it was made: a plan that does not fit its schema fails at
the first statement (`UpgradeStart`, `DowngradeStart`) or keeps a statement that
it can never execute. `NewestIsKept` adds that a downgrade that ends did not begin
at the newest version (its first statement would be the one that refuses), and
`OthersHaveTheirPlans` that a run that has changed nothing has its whole plan, so
that an upgrade with nothing to do is right to end well. `PlansJoin` and
`PlanOfAll` compute what the plans consist of.

Only model-checked:

* Liveness (`CanaryEnds`, `EvaluationEnds`, `RequestsAreAnswered`,
  `HungCanariesEnd`, `SeedConverges`, `CreationsEnd`, `RunsEnd`): liveness under
  fairness and ENABLED are beyond the prover.

## 6. Disagreements with the documentation and the tests

**Lock order** (run `order`). `docs/architecture.md:25` and `:29` give one lock order,
release before environment. `create_release` locks the environment (`main.py:155`)
and then, by the foreign key of the row it inserts (`main.py:186`,
`models.py:76-78`), the current release `FOR KEY SHARE`. A rollback of that release
(or a deploy or cancel sent for it) that already has the row `FOR UPDATE` waits for
the environment: PostgreSQL breaks the circle after `deadlock_timeout` and one of
the two clients gets 500. The state stays consistent (`CommitsAreAtomic` holds
with these deadlocks in the model). The run finds the wait, `OnlyInsertDeadlocks`
shows that no other circle exists, `RequestsAreAnswered` that both requests end.

**Large observations** (run `retries_large`). `docs/runbooks/operator-decisions.md:14`
says that a canary that exceeds a threshold is rolled back at once.
`ObservationCreate` does not limit `request_count` (`schemas.py:105`), its column is
a 32-bit INTEGER (`models.py:122`): an observation of more requests than that fails
at the commit with its rollback undone, and the canary keeps its traffic until the
next observation or its timeout.

**One-letter gates.** `unique_gates` accepts names of one character, and of more than
80 (`schemas.py:17-27`); `GateWebhook.gate` has 2 to 80 (`schemas.py:83`). An
application may ask for a gate that CI can never report, and the operator of its
releases is told to wait for CI (`docs/runbooks/operator-decisions.md:10`). Such a
release is not let through (`UnreportableIsNeverAdmitted`), but it holds its
environment until somebody cancels it or another gate fails; `EvaluationEnds` holds
only where `CanBeReported` does.

**The last event of the journal.** `tests/test_integration.py:642` and `:681` take the
last event returned as the reason of the release. `list_release_events` orders by
`created_at` alone (`main.py:492`), which each process takes from its own clock: two
events that follow each other faster than the clocks differ may come the other way
round. `ReadingReplays` bounds this by twice the difference of a clock from real
time; with one clock (`Skew = 0`) only the events of one unit may change places.

## 7. What is not modelled

* Deleting rows: no route deletes, so the `ON DELETE` clauses do not act.
* The HMAC of notifications: the model starts after `valid_signature`.
* Two event identifiers with one 64-bit hash: they would wait for each other, and
  nothing else.
* The gauge of releases by status and the latency histogram, health and
  readiness: they read, and nothing depends on them. GET of one release reads one
  row.
* Field limits that leave no trace in the model (lengths of texts, patterns,
  decimal places). Those that do are in `LedgerAssumption`, `AcceptsGates`,
  `AcceptsReport` and `Storable`.
* In `Scripts`, the wait for `/ready`, the creation of the application, which
  nobody contends for, the timeout of the HTTP client and what is printed. Of the
  bodies that two assertions compare (`operator_scenarios.py:111`, `smoke.py:177`)
  `application_id`, which is the environment's, and the three times: `updated_at`
  moves only when another column of the row does. Of the journals compared (`:102`,
  `:111`) the order in which events are returned, which is a matter of `Clocks`. All
  refusals are one code, so `exc.code == 409` is "refused".
* Columns in `Migrations`, and the offline mode of `migrations/env.py`, which prints
  SQL.
* Deployment and observability but for what is said above: that several replicas
  run, and that they start after a migration that ended well.

## 8. Plan

The components are modelled, and what the runs check is proved but for liveness.
Open:

1. `ReadingReplays`, `NoEarlyTimeout` and the properties of `Retries` and `Scripts` are
   proved with each handler as one step. That `Transactions` could take the place of
   `Ledger` under them rests on `CommitsAreAtomic`; a composition of clients, clocks
   and statements in one module is not written.
2. The liveness properties stay with TLC, for the reason in section 5.

## 9. Running it

    tlc -workers 2 -config MCLedgerVersions.cfg MCLedger
    tlc -workers 2 -config MCTransactionsRaces.cfg MCTransactions
    tlc -workers 2 -config Catalogue.cfg Catalogue
    tlapm LedgerProofs.tla

The largest runs are `MCClocks.cfg`, with two million states in less than a minute,
and `MCTransactionsRaces.cfg`, with most of a million in two to three minutes;
`MCTransactionsBatches.cfg` takes a minute and a half, the others less.
