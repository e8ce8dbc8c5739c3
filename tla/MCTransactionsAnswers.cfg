\* Fair workers and a fair reconciler; the next release is created while the
\* first is tried, promoted, timed out and rolled back.  The run stops when the
\* keys and event identifiers are used up.
SPECIFICATION TxLiveSpec
CONSTANTS
    e1 = e1  e2 = e2  g1 = g1
    Envs = {e1}
    MaxReleases = 2
    Keys = {k1, k2}
    Artifacts = {a1}
    Gates = {g1}
    EventIds = {v1}
    Details = {d1}
    Policy <- AutoPolicy
    Observations <- Promote
    CanaryPercents = {10}
    MaxInteger = 3
    BatchLimit = 1
    MaxContinues = 0
    Workers = {w1, w2}
    Reconcilers = {p1}
    Requests <- SuccessionRequests
    Admins = {admin}
    Approvers = {approver}
    Observers = {observer}
    Null = Null
PROPERTIES HungCanariesEnd RequestsAreAnswered
CHECK_DEADLOCK FALSE
