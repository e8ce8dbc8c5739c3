\* Every request of the API, two at a time, on two releases in one environment
\* or in two.  The run stops when the keys and event identifiers are used up.
SPECIFICATION TxSpec
CONSTANTS
    e1 = e1  e2 = e2  g1 = g1
    Envs = {e1, e2}
    MaxReleases = 2
    Keys = {k1, k2}
    Artifacts = {a1}
    Gates = {g1}
    EventIds = {v1, v2}
    Details = {d1}
    Policy <- ManualPolicy
    Observations <- Promote
    CanaryPercents = {10}
    MaxInteger = 3
    BatchLimit = 2
    MaxContinues = 0
    Workers = {w1, w2}
    Reconcilers = {}
    Requests <- AllRequests
    Admins = {admin}
    Approvers = {approver}
    Observers = {observer}
    Null = Null
SYMMETRY Symmetry
INVARIANTS TxTypeOK ConstraintsNeverFire
PROPERTIES CommitsAreAtomic
CHECK_DEADLOCK FALSE
