\* Two releases whose two gates are reported up to four times in all, with
\* two details, a gate no application requires and every kind of sample.
\* The run stops when every release has ended.
SPECIFICATION LedgerSpec
CONSTANTS
    e1 = e1  e2 = e2  g1 = g1  g2 = g2
    Envs = {e1}
    MaxReleases = 2
    Keys = {k1, k2}
    Artifacts = {a1}
    Gates = {g1, g2, g3}
    EventIds = {v1, v2, v3, v4}
    Details = {d1, d2}
    Policy <- TwoGatesPolicy
    Observations <- AllSamples
    CanaryPercents = {10}
    MaxInteger = 3
    BatchLimit = 1
    MaxContinues = 2
    Admins = {admin}
    Approvers = {approver}
    Observers = {observer}
    Null = Null
SYMMETRY Symmetry
INVARIANTS TypeOK Admission TrafficMatchesStatus AuditTrail JournalMatchesReason ReasonExplainsStatus WebhooksCountOnce
PROPERTIES SettledStaysSettled
CHECK_DEADLOCK FALSE
