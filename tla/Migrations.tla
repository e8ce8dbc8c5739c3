----------------------------- MODULE Migrations -----------------------------
(***************************************************************************)
(* The schema of the database and the processes that change it: runs of    *)
(* `alembic upgrade head` at every deployment, repeated when they fail, an *)
(* operator who runs `alembic downgrade base`, and the API and the         *)
(* reconciler, started once an upgrade has ended well                      *)
(* (src/migrations, the migrate service and the migration Job).            *)
(*                                                                         *)
(* A run reads the version, plans the statements of the revisions between, *)
(* and executes them in one transaction (env.py).  A run that has begun to *)
(* change the schema makes the others wait; where PostgreSQL would let two *)
(* go on side by side, their writes of the version exclude each other.     *)
(***************************************************************************)
EXTENDS Naturals, Sequences, FiniteSets

CONSTANTS
    Upgraders,      \* deployments' migration jobs
    Operators,      \* runs of `alembic downgrade base`
    MaxAttempts     \* bound: attempts of one job (backoffLimit + 1)

Runs == Upgraders \cup Operators

NoRun == "none"

ASSUME MigrationsAssumption ==
    /\ MaxAttempts \in Nat
    /\ Upgraders \cap Operators = {}
    /\ NoRun \notin Runs

VARIABLES
    schema,     \* the committed schema
    work,       \* the schema inside the transaction that is changing it
    holder,     \* the run with that transaction, or NoRun
    state,      \* of each run: "ready", "running", "done", "failed"
    todo,       \* statements of its plan not executed yet
    attempts,   \* how often it was started
    serving,    \* the API and the reconciler have been started
    cancelled   \* rows of cancelled releases: "none", "some", or "lost"

migrationVars ==
    <<schema, work, holder, state, todo, attempts, serving, cancelled>>

-------------------------------------------------------------------------------
(* Statements and revisions.                                               *)

\* The types and tables, and the ones each of them refers to.
References == [
    release_status |-> {},
    gate_status |-> {},
    applications |-> {},
    environments |-> {"applications"},
    releases |-> {"applications", "environments", "release_status"},
    gate_results |-> {"releases", "gate_status"},
    webhook_receipts |-> {},
    canary_observations |-> {"releases"},
    release_events |-> {"releases"}]

\* The indexes and their tables.
TableOf == [
    ix_applications_slug |-> "applications",
    ix_environments_application_id |-> "environments",
    ix_releases_application_id |-> "releases",
    ix_releases_environment_id |-> "releases",
    ix_releases_status |-> "releases",
    ix_releases_status_updated |-> "releases",
    ix_gate_results_release_id |-> "gate_results",
    ix_canary_observations_release_id |-> "canary_observations",
    ix_release_events_release_id |-> "release_events"]

Objects == DOMAIN References \cup DOMAIN TableOf

Needs(o) == IF o \in DOMAIN TableOf THEN {TableOf[o]} ELSE References[o]

\* What is dropped with a table.
IndexesOf(table) == {o \in DOMAIN TableOf : TableOf[o] = table}

Statement(op, arg) == [op |-> op, arg |-> arg]

CreateAll(names) == [i \in DOMAIN names |-> Statement("create", names[i])]
DropAll(names) == [i \in DOMAIN names |-> Statement("drop", names[i])]

\* upgrade() of 0001, in its order.
Upgrade0001 == CreateAll(<<
    "release_status", "gate_status", "applications", "ix_applications_slug",
    "environments", "ix_environments_application_id", "releases",
    "ix_releases_application_id", "ix_releases_environment_id",
    "ix_releases_status", "ix_releases_status_updated", "gate_results",
    "ix_gate_results_release_id", "webhook_receipts", "canary_observations",
    "ix_canary_observations_release_id", "release_events",
    "ix_release_events_release_id">>)

Downgrade0001 == DropAll(<<
    "release_events", "canary_observations", "webhook_receipts",
    "gate_results", "releases", "environments", "applications",
    "gate_status", "release_status">>)

\* The new value of release_status.
Upgrade0002 == <<Statement("add_value", "cancelled")>>

\* Mutant: the value is left where it is.
Downgrade0002AsNothing == <<>>

Downgrade0002 == <<Statement("raise", "cancelled")>>

\* alembic writes the version after each revision.
Stamp(from, to) == <<Statement("stamp", <<from, to>>)>>

UpgradePlan(version) ==
    CASE version = "base" -> Upgrade0001 \o Stamp("base", "0001")
                             \o Upgrade0002 \o Stamp("0001", "0002")
      [] version = "0001" -> Upgrade0002 \o Stamp("0001", "0002")
      [] OTHER -> <<>>

DowngradePlan(version) ==
    CASE version = "0002" -> Downgrade0002 \o Stamp("0002", "0001")
                             \o Downgrade0001 \o Stamp("0001", "base")
      [] version = "0001" -> Downgrade0001 \o Stamp("0001", "base")
      [] OTHER -> <<>>

\* Mutant: the version is written whatever it was.
AnyVersion(s, stamp) == TRUE

\* alembic expects to change exactly the row with the version it planned from.
VersionIs(s, stamp) == s.version = stamp[1]

\* Statement st can be executed on schema s.
Executable(s, st) ==
    CASE st.op = "create" ->
             st.arg \notin s.objects /\ Needs(st.arg) \subseteq s.objects
      [] st.op = "drop" ->
             /\ st.arg \in s.objects
             /\ \A o \in s.objects \ IndexesOf(st.arg) : st.arg \notin Needs(o)
      [] st.op = "add_value" -> "release_status" \in s.objects
      [] st.op = "stamp" -> VersionIs(s, st.arg)
      [] OTHER -> FALSE

Executed(s, st) ==
    CASE st.op = "create" -> [s EXCEPT !.objects = @ \cup {st.arg}]
      [] st.op = "drop" ->
             [s EXCEPT !.objects = @ \ ({st.arg} \cup IndexesOf(st.arg)),
                       !.values = IF st.arg = "release_status" THEN {} ELSE @]
      [] st.op = "add_value" -> [s EXCEPT !.values = @ \cup {st.arg}]
      [] OTHER -> [s EXCEPT !.version = st.arg[2]]

-------------------------------------------------------------------------------
(* Runs of alembic.                                                        *)

\* The version is read and the plan is made, before any lock is taken.
Plan(m) ==
    /\ state[m] \in {"ready", "failed"}
    /\ attempts[m] < MaxAttempts
    /\ attempts' = [attempts EXCEPT ![m] = @ + 1]
    /\ state' = [state EXCEPT ![m] = "running"]
    /\ todo' = [todo EXCEPT ![m] = IF m \in Upgraders
                                   THEN UpgradePlan(schema.version)
                                   ELSE DowngradePlan(schema.version)]
    /\ UNCHANGED <<schema, work, holder, serving, cancelled>>

\* The schema as run m sees it.
Seen(m) == IF holder = m THEN work ELSE schema

MayExecute(m) ==
    state[m] = "running" /\ todo[m] # <<>> /\ holder \in {m, NoRun}

Execute(m) ==
    /\ MayExecute(m)
    /\ Executable(Seen(m), Head(todo[m]))
    /\ work' = Executed(Seen(m), Head(todo[m]))
    /\ holder' = m
    /\ todo' = [todo EXCEPT ![m] = Tail(@)]
    /\ UNCHANGED <<schema, state, attempts, serving, cancelled>>

\* Mutant: what was executed stays although the run did not end.
AbandonKeepsWork(m) ==
    /\ state' = [state EXCEPT ![m] = "failed"]
    /\ todo' = [todo EXCEPT ![m] = <<>>]
    /\ holder' = IF holder = m THEN NoRun ELSE holder
    /\ schema' = IF holder = m THEN work ELSE schema
    /\ UNCHANGED <<work, attempts, serving, cancelled>>

\* Mutant: the connection of a failed run stays open in its transaction.
AbandonLeavesOpen(m) ==
    /\ state' = [state EXCEPT ![m] = "failed"]
    /\ todo' = [todo EXCEPT ![m] = <<>>]
    /\ UNCHANGED <<schema, work, holder, attempts, serving, cancelled>>

\* The run ends with an error and its transaction is rolled back.
Abandon(m) ==
    /\ state' = [state EXCEPT ![m] = "failed"]
    /\ todo' = [todo EXCEPT ![m] = <<>>]
    /\ holder' = IF holder = m THEN NoRun ELSE holder
    /\ work' = IF holder = m THEN schema ELSE work
    /\ UNCHANGED <<schema, attempts, serving, cancelled>>

Fail(m) ==
    /\ MayExecute(m)
    /\ ~Executable(Seen(m), Head(todo[m]))
    /\ Abandon(m)

Crash(m) == state[m] = "running" /\ Abandon(m)

Commit(m) ==
    /\ state[m] = "running"
    /\ todo[m] = <<>>
    /\ state' = [state EXCEPT ![m] = "done"]
    /\ schema' = Seen(m)
    /\ holder' = IF holder = m THEN NoRun ELSE holder
    /\ cancelled' = IF cancelled = "some" /\ "releases" \notin Seen(m).objects
                    THEN "lost" ELSE cancelled
    /\ UNCHANGED <<work, todo, attempts, serving>>

-------------------------------------------------------------------------------
(* The service.                                                            *)

\* Compose and Helm start the processes after a migration that ended well.
StartService ==
    /\ ~serving
    /\ \E m \in Upgraders : state[m] = "done"
    /\ serving' = TRUE
    /\ UNCHANGED <<schema, work, holder, state, todo, attempts, cancelled>>

\* cancel_release(), unless a migration has dropped its table and not ended.
CancelSomeRelease ==
    /\ serving
    /\ "cancelled" \in schema.values
    /\ holder # NoRun => "releases" \in work.objects
    /\ cancelled = "none"
    /\ cancelled' = "some"
    /\ UNCHANGED <<schema, work, holder, state, todo, attempts, serving>>

EmptySchema == [objects |-> {}, values |-> {}, version |-> "base"]

\* The database of an installation from before cancellation.
FirstSchema == [objects |-> Objects, values |-> {}, version |-> "0001"]

MigrationsInit ==
    /\ schema \in {EmptySchema, FirstSchema}
    /\ work = schema
    /\ holder = NoRun
    /\ state = [m \in Runs |-> "ready"]
    /\ todo = [m \in Runs |-> <<>>]
    /\ attempts = [m \in Runs |-> 0]
    /\ serving = FALSE
    /\ cancelled = "none"

Proceed(m) == Execute(m) \/ Fail(m) \/ Commit(m)

MigrationsNext ==
    \/ \E m \in Runs : Plan(m)
    \/ \E m \in Runs : Proceed(m)
    \/ \E m \in Runs : Crash(m)
    \/ StartService
    \/ CancelSomeRelease

\* A run goes on while nobody makes it wait.
MigrationsSpec ==
    /\ MigrationsInit /\ [][MigrationsNext]_migrationVars
    /\ \A m \in Runs : SF_migrationVars(Proceed(m))

-------------------------------------------------------------------------------
\* The schema is that of its version, whole: a run that fails or crashes
\* between two statements, and runs that planned from a version that is not
\* there any more, leave nothing behind.
SchemaMatchesVersion ==
    CASE schema.version = "base" -> schema.objects = {} /\ schema.values = {}
      [] schema.version = "0001" ->
             schema.objects = Objects /\ schema.values = {}
      [] OTHER -> schema.objects = Objects /\ schema.values = {"cancelled"}

\* The API and the reconciler find their tables and the values of their types,
\* from their start on, whatever jobs and operators run meanwhile.
ServiceFindsSchema ==
    serving => schema.objects = Objects /\ "cancelled" \in schema.values

\* Cancelled releases are not lost, which is why downgrade() of 0002 refuses:
\* neither by a downgrade nor by one that was planned before the upgrade.
CancelledReleasesSurvive == cancelled # "lost"

\* No run waits for ever: each ends well or fails.
RunsEnd == \A m \in Runs : state[m] = "running" ~> state[m] # "running"
===============================================================================
