------------------------------- MODULE Catalogue -------------------------------
(***************************************************************************)
(* Applications and environments: create_application and                   *)
(* create_environment (src/src/releaseguard/main.py) and seed()            *)
(* (src/src/releaseguard/seed.py) as the statements of concurrent          *)
(* transactions.  None of them locks anything first: that a slug or a name *)
(* is free is decided by the unique constraints at the INSERT.  The        *)
(* handlers turn the error into 409, seed() ends with it and is run again  *)
(* by hand.                                                                *)
(*                                                                         *)
(* A row is its identifier, its unique key and who inserted it.            *)
(***************************************************************************)
EXTENDS Naturals, FiniteSets

CONSTANTS
    Workers,    \* requests the API replicas serve at the same time
    Seeders,    \* processes that run seed(), again and again until it ends well
    Slugs,      \* applications.slug of a request, the demo slug among them
    Names,      \* environments.name of a request, the demo name among them
    DemoSlug,   \* "checkout-api-demo"
    DemoName,   \* "production"
    MaxRows     \* bound: rows both tables can hold

Ids == 1..MaxRows

NoId == 0

ASSUME CatalogueAssumption ==
    /\ MaxRows \in Nat
    /\ DemoSlug \in Slugs
    /\ DemoName \in Names
    /\ Workers \cap Seeders = {}

VARIABLES
    rows,      \* the committed rows of `applications` and `environments`
    pc,        \* the next statement of each process
    key,       \* unique key of the row a worker is to insert
    app,       \* application.id seed() has read or inserted
    pending,   \* rows a transaction has inserted and not committed
    answer,    \* the answer to the last request of a worker
    failures   \* how often a seeder ended with IntegrityError

catalogueVars == <<rows, pc, key, app, pending, answer, failures>>

Processes == Workers \cup Seeders

\* The unique keys: models.py, slug of applications and (application_id, name)
\* of environments.
AppKey(slug) == <<"application", slug>>
EnvKey(a, name) == <<"environment", a, name>>

UniqueKeys == {AppKey(s) : s \in Slugs}
              \cup {EnvKey(a, n) : a \in Ids, n \in Names}

NoKey == <<"none">>

Rows == [id : Ids, key : UniqueKeys, by : Processes]

NoAnswer == [code |-> "none", key |-> NoKey]

Uncommitted == UNION {pending[p] : p \in Processes}

UnusedIds == Ids \ {row.id : row \in rows \cup Uncommitted}

\* A new UUID.  Identifiers are only compared for equality: the least unused
\* number stands for any.
IsNew(id) == id \in UnusedIds /\ \A other \in UnusedIds : id <= other

\* What a SELECT of p sees: the committed rows and its own.
Visible(p, k) == {row \in rows \cup pending[p] : row.key = k}

-------------------------------------------------------------------------------
(* Statements.                                                             *)

Goto(p, step) == pc' = [pc EXCEPT ![p] = step]

\* Mutant: a column without its unique constraint.
NoUniqueIndex(p, k) == TRUE

\* An INSERT waits while another transaction has inserted the same key and has
\* not ended.
MayTryInsert(p, k) ==
    \A q \in Processes \ {p} : \A row \in pending[q] : row.key # k

\* IntegrityError: the transaction that inserted the key first has committed.
Taken(k) == \E row \in rows : row.key = k

\* The INSERT of a row with key k succeeds.
Insert(p, k, id) ==
    /\ MayTryInsert(p, k)
    /\ ~Taken(k)
    /\ pending' = [pending EXCEPT
                       ![p] = @ \cup {[id |-> id, key |-> k, by |-> p]}]

\* Mutant: the key counts as taken while the transaction that holds it could
\* still be undone.
InsertFailsAtOnce(p, k) ==
    /\ \E row \in rows \cup Uncommitted : row.key = k
    /\ pending' = [pending EXCEPT ![p] = {}]

\* The INSERT fails; the session rolls back.
InsertFails(p, k) ==
    /\ MayTryInsert(p, k)
    /\ Taken(k)
    /\ pending' = [pending EXCEPT ![p] = {}]

\* COMMIT; the transaction's rows are there for everyone.
CommitRows(p) ==
    /\ rows' = rows \cup pending[p]
    /\ pending' = [pending EXCEPT ![p] = {}]

-------------------------------------------------------------------------------
(* create_application and create_environment.                              *)

Answer(w, code) ==
    /\ Goto(w, "idle")
    /\ answer' = [answer EXCEPT ![w] = [code |-> code, key |-> key[w]]]
    /\ key' = [key EXCEPT ![w] = NoKey]

Receive(w, k, step) ==
    /\ pc[w] = "idle"
    /\ Goto(w, step)
    /\ key' = [key EXCEPT ![w] = k]
    /\ answer' = [answer EXCEPT ![w] = NoAnswer]
    /\ UNCHANGED <<rows, app, pending, failures>>

CreateApplication(w, slug) == Receive(w, AppKey(slug), "insert")

CreateEnvironment(w, a, name) == Receive(w, EnvKey(a, name), "find_application")

\* session.get(Application, application_id)
GetApplication(w) ==
    /\ w \in Workers
    /\ pc[w] = "find_application"
    /\ IF \E row \in rows : row.id = key[w][2] /\ row.key[1] = "application"
       THEN Goto(w, "insert") /\ UNCHANGED <<key, answer>>
       ELSE Answer(w, "not_found")
    /\ UNCHANGED <<rows, app, pending, failures>>

\* The INSERT that session.commit() flushes first, or its error as 409.
InsertRow(w) ==
    /\ w \in Workers
    /\ pc[w] = "insert"
    /\ \/ /\ \E id \in Ids : IsNew(id) /\ Insert(w, key[w], id)
          /\ Goto(w, "commit")
          /\ UNCHANGED <<key, answer>>
       \/ /\ InsertFails(w, key[w])
          /\ Answer(w, "conflict")
    /\ UNCHANGED <<rows, app, failures>>

\* COMMIT, and 201 with the row.
CommitRow(w) ==
    /\ w \in Workers
    /\ pc[w] = "commit"
    /\ CommitRows(w)
    /\ Answer(w, "created")
    /\ UNCHANGED <<app, failures>>

-------------------------------------------------------------------------------
(* seed().                                                                 *)

StartSeed(s) ==
    /\ pc[s] = "idle"
    /\ Goto(s, "find_application")
    /\ app' = [app EXCEPT ![s] = NoId]
    /\ UNCHANGED <<rows, key, pending, answer, failures>>

\* Mutant: seed() looks for an application of its own making.
OwnDemo(s) == {row \in Visible(s, AppKey(DemoSlug)) : row.by = s}

DemoSeen(s) == Visible(s, AppKey(DemoSlug))

FindDemo(s) ==
    /\ s \in Seeders
    /\ pc[s] = "find_application"
    /\ \/ \E row \in DemoSeen(s) :
              /\ app' = [app EXCEPT ![s] = row.id]
              /\ Goto(s, "find_environment")
       \/ /\ DemoSeen(s) = {}
          /\ Goto(s, "insert_application")
          /\ UNCHANGED app
    /\ UNCHANGED <<rows, key, pending, answer, failures>>

\* IntegrityError leaves seed(): the process ends with an error.
SeedFails(s, k) ==
    /\ InsertFails(s, k)
    /\ Goto(s, "idle")
    /\ failures' = [failures EXCEPT ![s] = @ + 1]
    /\ UNCHANGED app

\* Mutant: the application is committed before the environment is looked for.
InsertDemoCommitted(s) ==
    /\ pc[s] = "insert_application"
    /\ \/ \E id \in Ids :
              /\ IsNew(id)
              /\ MayTryInsert(s, AppKey(DemoSlug))
              /\ ~Taken(AppKey(DemoSlug))
              /\ rows' = rows \cup
                     {[id |-> id, key |-> AppKey(DemoSlug), by |-> s]}
              /\ app' = [app EXCEPT ![s] = id]
              /\ Goto(s, "find_environment")
              /\ UNCHANGED <<pending, failures>>
       \/ SeedFails(s, AppKey(DemoSlug)) /\ UNCHANGED rows
    /\ UNCHANGED <<key, answer>>

InsertDemo(s) ==
    /\ pc[s] = "insert_application"
    /\ \/ \E id \in Ids :
              /\ IsNew(id)
              /\ Insert(s, AppKey(DemoSlug), id)
              /\ app' = [app EXCEPT ![s] = id]
              /\ Goto(s, "find_environment")
              /\ UNCHANGED failures
       \/ SeedFails(s, AppKey(DemoSlug))
    /\ UNCHANGED <<rows, key, answer>>

FindProduction(s) ==
    /\ pc[s] = "find_environment"
    /\ Goto(s, IF Visible(s, EnvKey(app[s], DemoName)) = {}
               THEN "insert_environment" ELSE "commit")
    /\ UNCHANGED <<rows, key, app, pending, answer, failures>>

\* The INSERT that session.commit() flushes first.
InsertProduction(s) ==
    /\ pc[s] = "insert_environment"
    /\ \/ /\ \E id \in Ids :
                 IsNew(id) /\ Insert(s, EnvKey(app[s], DemoName), id)
          /\ Goto(s, "commit")
          /\ UNCHANGED <<app, failures>>
       \/ SeedFails(s, EnvKey(app[s], DemoName))
    /\ UNCHANGED <<rows, key, answer>>

\* Mutant: seed() ends without its commit.
CommitSeedForgotten(s) ==
    /\ s \in Seeders
    /\ pc[s] = "commit"
    /\ pending' = [pending EXCEPT ![s] = {}]
    /\ Goto(s, "seeded")
    /\ UNCHANGED <<rows, key, app, answer, failures>>

\* Mutant: the session is left open, and nothing ends its transaction.
CommitSeedLeftOpen(s) ==
    /\ s \in Seeders
    /\ pc[s] = "commit"
    /\ Goto(s, "seeded")
    /\ UNCHANGED <<rows, key, app, pending, answer, failures>>

CommitSeed(s) ==
    /\ s \in Seeders
    /\ pc[s] = "commit"
    /\ CommitRows(s)
    /\ Goto(s, "seeded")
    /\ UNCHANGED <<key, app, answer, failures>>

-------------------------------------------------------------------------------
\* The process, its connection or its client is gone before the commit.
Crash(p) ==
    /\ pc[p] \notin {"idle", "seeded"}
    /\ Goto(p, "idle")
    /\ pending' = [pending EXCEPT ![p] = {}]
    /\ key' = [key EXCEPT ![p] = NoKey]
    /\ UNCHANGED <<rows, app, answer, failures>>

CatalogueInit ==
    /\ rows = {}
    /\ pc = [p \in Processes |-> "idle"]
    /\ key = [p \in Processes |-> NoKey]
    /\ app = [s \in Seeders |-> NoId]
    /\ pending = [p \in Processes |-> {}]
    /\ answer = [w \in Workers |-> NoAnswer]
    /\ failures = [s \in Seeders |-> 0]

\* The statements of a transaction, once it has begun.
Continue(p) ==
    \/ GetApplication(p)
    \/ InsertRow(p)
    \/ CommitRow(p)
    \/ FindDemo(p)
    \/ InsertDemo(p)
    \/ FindProduction(p)
    \/ InsertProduction(p)
    \/ CommitSeed(p)

CatalogueNext ==
    \/ \E w \in Workers, slug \in Slugs : CreateApplication(w, slug)
    \/ \E w \in Workers, a \in Ids, name \in Names :
           CreateEnvironment(w, a, name)
    \/ \E s \in Seeders : StartSeed(s)
    \/ \E p \in Processes : Continue(p)
    \/ \E p \in Processes : Crash(p)

CatalogueSpec == CatalogueInit /\ [][CatalogueNext]_catalogueVars

\* A statement goes on once it need not wait; a seed that failed or crashed is
\* run again, and does not crash for ever.  Nobody need send a request.
CatalogueFairness ==
    /\ \A p \in Processes : SF_catalogueVars(Continue(p))
    /\ \A s \in Seeders : /\ WF_catalogueVars(StartSeed(s))
                          /\ <>[][~Crash(s)]_catalogueVars

CatalogueLiveSpec == CatalogueSpec /\ CatalogueFairness

-------------------------------------------------------------------------------
(* What the catalogue must satisfy.                                        *)

Steps == {"idle", "find_application", "insert", "commit", "insert_application",
          "find_environment", "insert_environment", "seeded"}

Codes == {"none", "created", "conflict", "not_found"}

\* Every variable holds a value of its type.
CatalogueTypeOK ==
    /\ rows \subseteq Rows
    /\ pc \in [Processes -> Steps]
    /\ key \in [Processes -> UniqueKeys \cup {NoKey}]
    /\ app \in [Seeders -> Ids \cup {NoId}]
    /\ pending \in [Processes -> SUBSET Rows]
    /\ answer \in [Workers -> [code : Codes, key : UniqueKeys \cup {NoKey}]]
    /\ failures \in [Seeders -> Nat]

\* A slug names one application, and a name one environment of it, although
\* every request looks free to the process that sends it: neither handler nor
\* seed() locks anything before its INSERT.
OneRowPerKey == \A x, y \in rows : x.key = y.key => x = y

\* An answer is true when it is given and stays true: 201 has its row, and 409
\* means that someone's row with that key is committed, not that a transaction
\* that may still be undone was met.
AnswersStayTrue ==
    \A w \in Workers :
        answer[w].code \in {"created", "conflict"} =>
            \E row \in rows : row.key = answer[w].key

HasProduction(a) == \E row \in rows : row.key = EnvKey(a, DemoName)

\* seed() adds the demo application and its environment together: wherever it
\* crashes or fails, no application of its making is left without one.
NoHalfSeed ==
    \A row \in rows : row.by \in Seeders /\ row.key = AppKey(DemoSlug) =>
        HasProduction(row.id)

\* A seed that lost a race need only be run again: each error means that one of
\* the two rows is there for good, so no process meets more than two.
SeedFailsTwice == \A s \in Seeders : failures[s] <= 2

\* Run again whenever it fails, every seed() ends well, with the demo
\* application and its environment in place, whatever else is created.
SeedConverges ==
    \A s \in Seeders :
        <>(pc[s] = "seeded" /\ \E row \in rows : /\ row.key = AppKey(DemoSlug)
                                                 /\ HasProduction(row.id))

\* Nobody waits for ever for a key: every request to create a row ends.
CreationsEnd == \A w \in Workers : pc[w] # "idle" ~> pc[w] = "idle"
===============================================================================
