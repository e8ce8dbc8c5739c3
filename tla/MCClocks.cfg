\* A timeout of four units and clocks that differ by up to one.
\* The run stops at MaxTime.
SPECIFICATION ClocksSpec
CONSTANTS
    g1 = g1
    Skew = 1
    Timeout = 4
    MaxTime = 10
    Envs = {e1}
    MaxReleases = 1
    Keys = {k1}
    Artifacts = {a1}
    Gates = {g1}
    EventIds = {v1}
    Details = {d1}
    Policy <- ManualPolicy
    Observations <- Samples
    CanaryPercents = {10}
    MaxInteger = 3
    BatchLimit = 1
    MaxContinues = 1
    Admins = {admin}
    Approvers = {approver}
    Observers = {observer}
    Null = Null
INVARIANTS ReadingReplays
PROPERTIES NoEarlyTimeout
CHECK_DEADLOCK FALSE
