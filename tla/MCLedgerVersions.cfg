\* Three releases in two environments, one of them without manual approval,
\* and batches of two.  The run stops when every release has ended.
SPECIFICATION LedgerSpec
CONSTANTS
    e1 = e1  e2 = e2  g1 = g1  g2 = g2
    Envs = {e1, e2}
    MaxReleases = 3
    Keys = {k1, k2, k3}
    Artifacts = {a1}
    Gates = {g1}
    EventIds = {v1, v2, v3}
    Details = {d1}
    Policy <- MixedPolicy
    Observations <- DecisiveSamples
    CanaryPercents = {10}
    MaxInteger = 3
    BatchLimit = 2
    MaxContinues = 1
    Admins = {admin}
    Approvers = {approver}
    Observers = {observer}
    Null = Null
SYMMETRY Symmetry
INVARIANTS Lineage Ownership
PROPERTIES CurrentMoves EnvironmentsAreStacks
CHECK_DEADLOCK FALSE
