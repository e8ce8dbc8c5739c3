\* Two environments with two gates each, one that CI cannot report among them.
\* The run stops when every release has ended.
SPECIFICATION PipelineSpec
CONSTANTS
    e1 = e1  e2 = e2
    Envs = {e1, e2}
    MaxReleases = 2
    Keys = {k1, k2}
    Artifacts = {a1}
    Asked <- Lists
    Gates <- GatesOfLists
    EventIds <- NotificationIds
    Details = {d1}
    Policy <- PolicyOfAsked
    Observations <- Samples
    CanaryPercents = {10}
    MaxInteger = 3
    BatchLimit = 1
    MaxContinues = 1
    Admins = {admin}
    Approvers = {approver}
    Observers = {observer}
    Null = Null
INVARIANTS GatesGuardCanary
PROPERTIES EvaluationEnds UnreportableIsNeverAdmitted CanaryEnds
CHECK_DEADLOCK FALSE
