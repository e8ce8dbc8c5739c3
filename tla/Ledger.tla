-------------------------------- MODULE Ledger --------------------------------
(***************************************************************************)
(* The committed state of ReleaseGuard and the requests that change it,    *)
(* each as the one transaction its handler commits                         *)
(* (src/src/releaseguard/main.py, service.py, reconciler.py).  A handler   *)
(* that answers with an error, or finds its work already done, commits     *)
(* nothing and is a stuttering step here.  Module Transactions splits the  *)
(* same handlers into their locking steps.                                 *)
(*                                                                         *)
(* The tables are kept by column: a function over the identifiers of the   *)
(* releases for each column of `releases`, one over the environments for   *)
(* the two that change in `environments`.  Releases are numbered in the    *)
(* order they are committed; the code never compares their UUIDs.          *)
(***************************************************************************)
EXTENDS Domain, Sequences

CONSTANTS
    Envs,            \* rows of `environments`
    MaxReleases,     \* bound: rows `releases` can hold
    Keys,            \* idempotency keys a create request can carry
    Artifacts,       \* (version, artifact_digest) pairs
    Gates,           \* gate names a webhook can carry
    EventIds,        \* event_id values a webhook can carry
    Details,         \* details a webhook can carry
    Admins, Approvers, Observers,   \* API clients by role
    Policy,          \* what an environment and its application require
    Observations,    \* bodies of canary observations
    CanaryPercents,  \* canary_percent values of a deploy request
    MaxInteger,      \* largest value of an INTEGER column, 2^31 - 1
    BatchLimit,      \* LIMIT of the reconciler's query
    MaxContinues,    \* bound: observations of one release that decide nothing
    Null             \* SQL NULL, and every column of a row not there yet

Releases == 1..MaxReleases

\* NULL in the columns that hold a release identifier.
NoRelease == 0

Policies == [required_gates : (SUBSET Gates) \ {{}},
             requires_approval : BOOLEAN, min_requests : Nat,
             max_error_rate : Nat, max_p95_ms : Nat]

ASSUME LedgerAssumption ==
    /\ MaxReleases \in Nat \ {0}
    /\ BatchLimit \in Nat
    /\ MaxInteger \in Nat
    /\ Policy \in [Envs -> Policies]
    /\ Observations \subseteq
           [request_count : Nat, error_rate : Nat, p95_ms : Nat]
    /\ CanaryPercents \subseteq 1..50
    /\ Null \notin Envs \cup Keys \cup Artifacts \cup Details \cup Approvers

VARIABLES
    status,      \* releases.status, "absent" for a row not inserted
    envOf, keyOf, artifactOf, previous,  \* the columns create_release writes
    traffic,     \* releases.traffic_percent
    approvedBy,  \* releases.approved_by
    reason,      \* releases.state_reason
    expired,     \* releases with canary_started_at < now - canary timeout
    active,      \* environments.active_release_id
    current,     \* environments.current_release_id
    results,     \* gate_results.status of a release and a gate, or "missing"
    details,     \* gate_results.details
    receipts,    \* webhook_receipts: event_id and the body its hash stands for
    journal      \* release_events of a release, in the order of insertion

identity == <<envOf, keyOf, artifactOf, previous>>
gateTables == <<results, details, receipts>>
pointers == <<active, current>>
ledgerVars == <<status, identity, traffic, approvedBy, reason, expired,
                pointers, gateTables, journal>>

Webhooks == [event : EventIds, release : Releases, gate : Gates,
             status : GateStatus, details : Details]

-------------------------------------------------------------------------------
(* The journal: what add_event and transition insert.                      *)

Event(type, actor, from, to, why) ==
    [type |-> type, actor |-> actor, from |-> from, to |-> to, reason |-> why]

\* An event that is not a change of status.
Note(type, actor, why) == Event(type, actor, "absent", "absent", why)

\* Mutant: the old status is read after the new one is assigned.
StatusChangedLate(from, to, actor, why) ==
    Event("release.status_changed", actor, to, to, why)

StatusChanged(from, to, actor, why) ==
    Event("release.status_changed", actor, from, to, why)

Log(r, events) == journal' = [journal EXCEPT ![r] = @ \o events]

\* Mutant: the reason is put into the event and not into the release.
TransitionWithoutReason(r, from, to, actor, why, before, after) ==
    /\ status' = [status EXCEPT ![r] = to]
    /\ Log(r, before \o <<StatusChanged(from, to, actor, why)>> \o after)
    /\ UNCHANGED reason

\* transition(): the new status, its reason and its event; `before` are the
\* events the handler added before it, `after` those it adds after it.
Transition(r, from, to, actor, why, before, after) ==
    /\ status' = [status EXCEPT ![r] = to]
    /\ reason' = [reason EXCEPT ![r] = why]
    /\ Log(r, before \o <<StatusChanged(from, to, actor, why)>> \o after)

-------------------------------------------------------------------------------
(* What the handlers test on the rows they have read: `st` is the status   *)
(* of release r, `act` and `cur` the two columns of its environment.       *)

Exists(r) == status[r] # "absent"

\* The next row of `releases`.
IsNext(r) == ~Exists(r) /\ \A s \in Releases : s < r => Exists(s)

WithKey(e, k) == {r \in Releases : Exists(r) /\ envOf[r] = e /\ keyOf[r] = k}

OwnsEnvironment(r, act) == act = r

\* require_passed_gates(): no manual approval counts as a gate.
PassedGates(e, outcome) ==
    EvaluateGates(Policy[e].required_gates, outcome, FALSE) = "approved"

MayCancel(r, st, act) == OwnsEnvironment(r, act) /\ MayMove(st, "cancelled")

\* Mutant: `approved` is taken as proof that the gates have passed.
MayDeployUnchecked(r, e, st, act, outcome) ==
    OwnsEnvironment(r, act) /\ MayMove(st, "canary")

MayDeploy(r, e, st, act, outcome) ==
    /\ OwnsEnvironment(r, act)
    /\ PassedGates(e, outcome)
    /\ MayMove(st, "canary")

\* Mutant: a late rollback of a release that is not the current one any more.
MayRollBackOlder(r, st, act, cur) ==
    /\ st = "succeeded" => act = NoRelease
    /\ st = "canary" => OwnsEnvironment(r, act)
    /\ MayMove(st, "rolled_back")

\* Mutant: a rollback of the current release under the next one.
MayRollBackBusy(r, st, act, cur) ==
    /\ st = "succeeded" => cur = r
    /\ st = "canary" => OwnsEnvironment(r, act)
    /\ MayMove(st, "rolled_back")

MayRollBack(r, st, act, cur) ==
    /\ st = "succeeded" => cur = r /\ act = NoRelease
    /\ st = "canary" => OwnsEnvironment(r, act)
    /\ MayMove(st, "rolled_back")

\* Mutant: repeated deliveries are not recognised.
NoReceipts(id) == {}

\* The receipt of an event_id, if it was accepted before.
ReceiptsOf(id) == {w \in receipts : w.event = id}

\* Mutant: a later report overwrites the result.
AnyResult(w, st, det) == TRUE

\* A result is fixed by its first report: later ones must repeat it.
SameResult(w, st, det) == st = "missing" \/ (st = w.status /\ det = w.details)

-------------------------------------------------------------------------------
(* What each handler commits.                                              *)

CreateCommitted(r, e, k, a, prev, who) ==
    /\ status' = [status EXCEPT ![r] = "evaluating"]
    /\ envOf' = [envOf EXCEPT ![r] = e]
    /\ keyOf' = [keyOf EXCEPT ![r] = k]
    /\ artifactOf' = [artifactOf EXCEPT ![r] = a]
    /\ previous' = [previous EXCEPT ![r] = prev]
    /\ active' = [active EXCEPT ![e] = r]
    /\ Log(r, <<Note("release.created", who, NoReason)>>)
    /\ UNCHANGED <<traffic, approvedBy, reason, expired, current, gateTables>>

\* recalculate_gate_status(): `outcome` are the results read back after the
\* new one was flushed.
GatesRecalculated(r, e, outcome, before) ==
    LET policy == Policy[e]
        target == EvaluateGates(policy.required_gates, outcome,
                                policy.requires_approval)
        why == GateReason(policy.required_gates, outcome,
                          policy.requires_approval)
        evaluated == before \o
                     <<Note("release.gates_evaluated", "policy-engine", why)>>
    IN  /\ \/ /\ target # "evaluating"
              /\ Transition(r, "evaluating", target, "policy-engine", why,
                            evaluated, <<>>)
           \/ /\ target = "evaluating"
              /\ Log(r, evaluated)
              /\ reason' = [reason EXCEPT ![r] = why]
              /\ UNCHANGED status
        /\ active' = IF target = "blocked"
                     THEN [active EXCEPT ![e] = NoRelease] ELSE active

WebhookCommitted(w, e, outcome) ==
    /\ results' = [results EXCEPT ![w.release][w.gate] = w.status]
    /\ details' = [details EXCEPT ![w.release][w.gate] = w.details]
    /\ receipts' = receipts \cup {w}
    /\ GatesRecalculated(w.release, e, outcome,
                         <<Note("gate.reported", "ci-webhook", NoReason)>>)
    /\ UNCHANGED <<identity, traffic, approvedBy, expired, current>>

ApproveCommitted(r, who) ==
    /\ Transition(r, "awaiting_approval", "approved", who,
                  Reason("approval_received", {}), <<>>, <<>>)
    /\ approvedBy' = [approvedBy EXCEPT ![r] = who]
    /\ UNCHANGED <<identity, traffic, expired, pointers, gateTables>>

CancelCommitted(r, e, from, who) ==
    /\ Transition(r, from, "cancelled", who,
                  Reason("cancelled_by_operator", {}), <<>>, <<>>)
    /\ traffic' = [traffic EXCEPT ![r] = 0]
    /\ active' = [active EXCEPT ![e] = NoRelease]
    /\ UNCHANGED <<identity, approvedBy, expired, current, gateTables>>

\* Mutant: a percentage taken for a share of one.
DeployCommittedAsShare(r, percent, who) ==
    /\ Transition(r, "approved", "canary", who,
                  Reason("canary_started", {}), <<>>, <<>>)
    /\ traffic' = [traffic EXCEPT ![r] = 100 * percent]
    /\ UNCHANGED <<identity, approvedBy, expired, pointers, gateTables>>

DeployCommitted(r, percent, who) ==
    /\ Transition(r, "approved", "canary", who,
                  Reason("canary_started", {}), <<>>, <<>>)
    /\ traffic' = [traffic EXCEPT ![r] = percent]
    /\ UNCHANGED <<identity, approvedBy, expired, pointers, gateTables>>

ObserveCommitted(r, e, o, who) ==
    LET decision == EvaluateCanary(o, Policy[e])
        why == CanaryReason(o, Policy[e])
        observed == <<Note("canary.observed", who, why)>>
    IN  /\ \/ /\ decision = "promote"
              /\ Transition(r, "canary", "succeeded", who, why, observed, <<>>)
              /\ traffic' = [traffic EXCEPT ![r] = 100]
              /\ current' = [current EXCEPT ![e] = r]
              /\ active' = [active EXCEPT ![e] = NoRelease]
           \/ /\ decision = "rollback"
              /\ Transition(r, "canary", "rolled_back", who, why, observed,
                            <<>>)
              /\ traffic' = [traffic EXCEPT ![r] = 0]
              /\ current' = [current EXCEPT ![e] = previous[r]]
              /\ active' = [active EXCEPT ![e] = NoRelease]
           \/ /\ decision = "continue"
              /\ reason' = [reason EXCEPT ![r] = why]
              /\ Log(r, observed)
              /\ UNCHANGED <<status, traffic, pointers>>
        /\ UNCHANGED <<identity, approvedBy, expired, gateTables>>

\* Mutant: the traffic of the release is not taken away.
RollbackKeepsTraffic(r, e, from, who) ==
    /\ Transition(r, from, "rolled_back", who, Reason("manual_rollback", {}),
                  <<>>, <<>>)
    /\ current' = [current EXCEPT ![e] = previous[r]]
    /\ active' = [active EXCEPT ![e] = NoRelease]
    /\ UNCHANGED <<identity, traffic, approvedBy, expired, gateTables>>

RollbackCommitted(r, e, from, who) ==
    /\ Transition(r, from, "rolled_back", who, Reason("manual_rollback", {}),
                  <<>>, <<>>)
    /\ traffic' = [traffic EXCEPT ![r] = 0]
    /\ current' = [current EXCEPT ![e] = previous[r]]
    /\ active' = [active EXCEPT ![e] = NoRelease]
    /\ UNCHANGED <<identity, approvedBy, expired, gateTables>>

\* Mutant: the event has the reason of the timeout, the release keeps its own.
ReconcileWithoutReason(owned) ==
    LET timedOut == <<StatusChanged("canary", "rolled_back", "reconciler",
                                    Reason("timeout", {})),
                      Note("canary.timeout", "reconciler", NoReason)>>
    IN  /\ status' = [r \in Releases |->
                          IF r \in owned THEN "rolled_back" ELSE status[r]]
        /\ journal' = [r \in Releases |-> IF r \in owned
                                          THEN journal[r] \o timedOut
                                          ELSE journal[r]]
        /\ traffic' = [r \in Releases |->
                           IF r \in owned THEN 0 ELSE traffic[r]]
        /\ current' = [e \in Envs |-> IF active[e] \in owned
                                      THEN previous[active[e]] ELSE current[e]]
        /\ active' = [e \in Envs |-> IF active[e] \in owned
                                     THEN NoRelease ELSE active[e]]
        /\ UNCHANGED <<identity, approvedBy, reason, expired, gateTables>>

\* One transaction for the whole batch; `owned` are the releases of the batch
\* that the loop did not skip.
ReconcileCommitted(owned) ==
    LET why == Reason("timeout", {})
        timedOut == <<StatusChanged("canary", "rolled_back", "reconciler", why),
                      Note("canary.timeout", "reconciler", NoReason)>>
    IN  /\ status' = [r \in Releases |->
                          IF r \in owned THEN "rolled_back" ELSE status[r]]
        /\ reason' = [r \in Releases |->
                          IF r \in owned THEN why ELSE reason[r]]
        /\ journal' = [r \in Releases |-> IF r \in owned
                                          THEN journal[r] \o timedOut
                                          ELSE journal[r]]
        /\ traffic' = [r \in Releases |->
                           IF r \in owned THEN 0 ELSE traffic[r]]
        /\ current' = [e \in Envs |-> IF active[e] \in owned
                                      THEN previous[active[e]] ELSE current[e]]
        /\ active' = [e \in Envs |-> IF active[e] \in owned
                                     THEN NoRelease ELSE active[e]]
        /\ UNCHANGED <<identity, approvedBy, expired, gateTables>>

-------------------------------------------------------------------------------
(* The requests: each handler's conditions on the committed state, then    *)
(* what it commits.                                                        *)

Create(r, e, k, a, who) ==
    /\ IsNext(r)
    /\ WithKey(e, k) = {}
    /\ active[e] = NoRelease
    /\ CreateCommitted(r, e, k, a, current[e], who)

ReceiveWebhook(w) ==
    LET r == w.release
        e == envOf[r]
    IN  /\ Exists(r)
        /\ ReceiptsOf(w.event) = {}
        /\ status[r] = "evaluating"
        /\ w.gate \in Policy[e].required_gates
        /\ SameResult(w, results[r][w.gate], details[r][w.gate])
        /\ WebhookCommitted(w, e, [results[r] EXCEPT ![w.gate] = w.status])

Approve(r, who) ==
    /\ status[r] = "awaiting_approval"
    /\ PassedGates(envOf[r], results[r])
    /\ ApproveCommitted(r, who)

Cancel(r, who) ==
    /\ Exists(r)
    /\ MayCancel(r, status[r], active[envOf[r]])
    /\ CancelCommitted(r, envOf[r], status[r], who)

Deploy(r, percent, who) ==
    /\ Exists(r)
    /\ MayDeploy(r, envOf[r], status[r], active[envOf[r]], results[r])
    /\ DeployCommitted(r, percent, who)

\* How many observations of r decided nothing so far.
Continues(r) ==
    Cardinality({i \in DOMAIN journal[r] :
                     /\ journal[r][i].type = "canary.observed"
                     /\ journal[r][i].reason.kind = "canary_insufficient"})

\* The bound on the journal of a canary that is never decided.
WithinBound(r, o) ==
    EvaluateCanary(o, Policy[envOf[r]]) = "continue" =>
        Continues(r) < MaxContinues

\* ObservationCreate does not limit request_count, the column does: a larger
\* number fails when the observation is flushed, and nothing is committed.
Storable(o) == o.request_count <= MaxInteger

Observe(r, o, who) ==
    /\ status[r] = "canary"
    /\ OwnsEnvironment(r, active[envOf[r]])
    /\ Storable(o)
    /\ WithinBound(r, o)
    /\ ObserveCommitted(r, envOf[r], o, who)

Rollback(r, who) ==
    /\ Exists(r)
    /\ MayRollBack(r, status[r], active[envOf[r]], current[envOf[r]])
    /\ RollbackCommitted(r, envOf[r], status[r], who)

\* Mutant: the deadline is compared the wrong way round.
DueTooEarly == {r \in Releases : status[r] = "canary" /\ r \notin expired}

\* The rows the reconciler's query selects from.
Due == {r \in Releases : status[r] = "canary" /\ r \in expired}

Owned(batch) == {r \in batch : OwnsEnvironment(r, active[envOf[r]])}

Reconcile(batch) ==
    /\ batch \subseteq Due
    /\ Cardinality(batch) <= BatchLimit
    /\ Owned(batch) # {}
    /\ ReconcileCommitted(Owned(batch))

\* The clock of the reconciler passes canary_started_at plus the timeout.
Expire(r) ==
    /\ status[r] = "canary"
    /\ r \notin expired
    /\ expired' = expired \cup {r}
    /\ UNCHANGED <<status, identity, traffic, approvedBy, reason, pointers,
                   gateTables, journal>>

-------------------------------------------------------------------------------
EmptyColumns ==
    /\ expired = {}
    /\ receipts = {}
    /\ current = [e \in Envs |-> NoRelease]

LedgerInit ==
    /\ EmptyColumns
    /\ status = [r \in Releases |-> "absent"]
    /\ envOf = [r \in Releases |-> Null]
    /\ keyOf = [r \in Releases |-> Null]
    /\ artifactOf = [r \in Releases |-> Null]
    /\ previous = [r \in Releases |-> NoRelease]
    /\ traffic = [r \in Releases |-> 0]
    /\ approvedBy = [r \in Releases |-> Null]
    /\ reason = [r \in Releases |-> NoReason]
    /\ active = [e \in Envs |-> NoRelease]
    /\ results = [r \in Releases |-> [g \in Gates |-> "missing"]]
    /\ details = [r \in Releases |-> [g \in Gates |-> Null]]
    /\ journal = [r \in Releases |-> <<>>]

\* Requests of API clients.
ClientNext ==
    \/ \E r \in Releases, e \in Envs, k \in Keys, a \in Artifacts,
          who \in Admins : Create(r, e, k, a, who)
    \/ \E r \in Releases, who \in Approvers : Approve(r, who)
    \/ \E r \in Releases, who \in Admins : Cancel(r, who)
    \/ \E r \in Releases, p \in CanaryPercents, who \in Admins :
           Deploy(r, p, who)
    \/ \E r \in Releases, o \in Observations, who \in Observers :
           Observe(r, o, who)
    \/ \E r \in Releases, who \in Admins : Rollback(r, who)

\* The reconciler and its clock.
ReconcilerNext ==
    \/ \E batch \in SUBSET Due : Reconcile(batch)
    \/ \E r \in Releases : Expire(r)

LedgerNext ==
    \/ ClientNext
    \/ \E w \in Webhooks : ReceiveWebhook(w)
    \/ ReconcilerNext

LedgerSpec == LedgerInit /\ [][LedgerNext]_ledgerVars
===============================================================================
