\* Two deployments and an operator, each up to twice.
\* The run stops when all attempts are used.
SPECIFICATION MigrationsSpec
CONSTANTS
    Upgraders = {u1, u2}
    Operators = {o1}
    MaxAttempts = 2
INVARIANTS SchemaMatchesVersion ServiceFindsSchema CancelledReleasesSurvive
PROPERTIES RunsEnd
CHECK_DEADLOCK FALSE
