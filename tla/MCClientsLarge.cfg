\* Observations with more requests than an INTEGER column holds.
SPECIFICATION ScriptsSpec
CONSTANTS
    e1 = e1
    SmokeEnv = smoke_env
    OperatorEnv = operator_env
    Runner = script
    Scripts = {"none"}
    Payload = d1
    Admin = admin
    Approver = approver
    Observer = observer
    Clients = {c1, script}
    Calls <- LargeCalls
    Envs = {e1, smoke_env, operator_env}
    MaxReleases = 1
    Keys = {1, 2, 3, 4, 5}
    Artifacts = {1, 2, 3, 4, 5}
    Gates = {"tests", "security", "signature"}
    EventIds <- NotificationIds
    Details = {d1}
    Policy <- PolicyOfScripts
    Observations <- LargeSamples
    CanaryPercents = {10}
    MaxInteger = 1000
    BatchLimit = 25
    MaxContinues = 1
    Admins = {admin}
    Approvers = {approver}
    Observers = {observer}
    Null = Null
PROPERTIES ExceededRollsBack
