\* One of the scripts, or two other clients that repeat at will the calls for
\* two releases, one after the other.  The run stops when a script has ended.
SPECIFICATION ScriptsSpec
CONSTANTS
    e1 = e1
    SmokeEnv = smoke_env
    OperatorEnv = operator_env
    Runner = script
    Scripts = {"none", "smoke", "operator"}
    Payload = d1
    Admin = admin
    Approver = approver
    Observer = observer
    Clients = {c1, c2, script}
    Calls <- AllCalls
    Envs = {e1, smoke_env, operator_env}
    MaxReleases = 5
    Keys = {1, 2, 3, 4, 5}
    Artifacts = {1, 2, 3, 4, 5}
    Gates = {"tests", "security", "signature"}
    EventIds <- NotificationIds
    Details = {d1}
    Policy <- PolicyOfScripts
    Observations <- AllObservations
    CanaryPercents = {10}
    MaxInteger = 1000
    BatchLimit = 25
    MaxContinues = 1
    Admins = {admin}
    Approvers = {approver}
    Observers = {observer}
    Null = Null
SYMMETRY ClientsSymmetry
INVARIANTS OkMeansDone CountersNeverOvercount RetriesAreRecognised FailsOnlyByTime
CHECK_DEADLOCK FALSE
