------------------------------ MODULE TestGuard ------------------------------
(***************************************************************************)
(* The guard before the integration tests (test_safety.py), which empty    *)
(* the database they find.  It reads the environment of the process; the   *)
(* settings (config.py) and the database drivers then read it again, each  *)
(* by rules of its own.                                                    *)
(***************************************************************************)
EXTENDS Naturals

VARIABLES
    environ,    \* the environment variables
    phase,      \* "start", "ignored", "refused", "accepted", "emptied"
    target      \* the database the tests have emptied

guardVars == <<environ, phase, target>>

\* A variable that is not set, and the port of a URL without one.
Unset == [set |-> FALSE]
NoPort == 0

\* A URL of a database.  `query` is what a parameter after "?" replaces;
\* `plain` is FALSE for control characters, blanks, \ and #.
Urls == [set : {TRUE}, asyncpg : BOOLEAN,
         host : {"database-test", "database"}, port : {NoPort, 5432, 5433},
         path : {"releaseguard_test", "releaseguard"},
         user : {"releaseguard", "postgres"}, password : BOOLEAN,
         query : {"none", "host", "database"}, plain : BOOLEAN]

Environs ==
    [TESTING : {"unset", "true", "TRUE"},
     DATABASE_URL : Urls \cup {Unset},
     database_url : {Unset} \cup {url \in Urls : url.host = "database"
                                              /\ url.port = NoPort /\ url.plain
                                              /\ url.asyncpg /\ url.password
                                              /\ url.query = "none"},
     MIGRATION_DATABASE_URL : BOOLEAN,
     PGPORT : {NoPort, 5433}]

\* valid_url() for DATABASE_URL
ValidUrl(url) ==
    /\ url.set
    /\ url.plain /\ url.query = "none"
    /\ url.asyncpg
    /\ url.host = "database-test" /\ url.port = 5432
    /\ url.path = "releaseguard_test"
    /\ url.user = "releaseguard" /\ url.password

\* ensure_test_environment() does not refuse.
Safe(env) ==
    /\ ~env.database_url.set
    /\ env.PGPORT = NoPort
    /\ env.TESTING = "true"
    /\ ~env.MIGRATION_DATABASE_URL
    /\ ValidUrl(env.DATABASE_URL)

\* The variables pydantic may read database_url from: names in any case, the
\* last one wins, and the order of the environment is not known.
SettingsUrls(env) == {url \in {env.DATABASE_URL, env.database_url} : url.set}

\* Where the driver connects to for a URL: parameters replace parts of it, and
\* libpq's variables stand in for what is missing.
Target(env, url) ==
    [host |-> IF url.query = "host" THEN "other" ELSE url.host,
     port |-> IF url.port # NoPort THEN url.port
              ELSE IF env.PGPORT # NoPort THEN env.PGPORT ELSE 5432,
     database |-> IF url.query = "database" THEN "other" ELSE url.path]

NoTarget == [host |-> "none", port |-> NoPort, database |-> "none"]

TestDatabase ==
    [host |-> "database-test", port |-> 5432, database |-> "releaseguard_test"]

Goto(step) == phase' = step /\ UNCHANGED <<environ, target>>

\* pytest_ignore_collect(): the file is left out, unless it was named.
Ignore == phase = "start" /\ environ.TESTING = "unset" /\ Goto("ignored")

\* The first statement of test_integration.py.
Preflight ==
    /\ phase = "start"
    /\ Goto(IF Safe(environ) THEN "accepted" ELSE "refused")

\* clean_test_database() looks at the database of the URL once more, and empties
\* its tables.
CleanDatabase ==
    /\ phase = "accepted"
    /\ \E url \in SettingsUrls(environ) :
           /\ url.path = "releaseguard_test"
           /\ target' = Target(environ, url)
    /\ phase' = "emptied"
    /\ UNCHANGED environ

GuardInit == environ \in Environs /\ phase = "start" /\ target = NoTarget

GuardNext == Ignore \/ Preflight \/ CleanDatabase

GuardSpec == GuardInit /\ [][GuardNext]_guardVars

-------------------------------------------------------------------------------
\* The tests empty the database of the test profile and no other, whatever
\* variables the shell they are started from happens to have.
OnlyTestDatabaseEmptied == phase = "emptied" => target = TestDatabase
===============================================================================
